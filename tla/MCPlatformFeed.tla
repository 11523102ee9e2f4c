-------------------------- MODULE MCPlatformFeed ---------------------------
(* PlatformFeed with the values of its configurations. *)
EXTENDS PlatformFeed

FairFeedsSpec == FeedsSpec /\ FeedsFairness
=============================================================================
