--------------------------- MODULE MCSocialArticle ---------------------------
(* SocialArticle with the values of the .cfg files. *)
EXTENDS SocialArticle
=============================================================================
