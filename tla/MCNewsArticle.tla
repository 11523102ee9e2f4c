---------------------------- MODULE MCNewsArticle ----------------------------
(* NewsArticle with the values of the .cfg files. *)
EXTENDS NewsArticle
=============================================================================
