----------------------------- MODULE MCPostsFeed -----------------------------
(* Small instances of PostsFeed for TLC. *)
EXTENDS PostsFeed
=============================================================================
