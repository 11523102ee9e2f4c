--------------------------- MODULE MCSocialDelivery ---------------------------
(* Values for SocialDelivery. *)
EXTENDS SocialDelivery, TLC

(* Networks and senders are interchangeable. *)
Interchangeable == Permutations(Senders) \cup Permutations(Networks)
=============================================================================
