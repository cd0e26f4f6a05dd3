--------------------------- MODULE MCSwarmJournal ---------------------------
(* A run, two takeovers of it and one follower. *)
EXTENDS SwarmJournal
=============================================================================
