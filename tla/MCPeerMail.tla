----------------------------- MODULE MCPeerMail -----------------------------
(* The instance of a team of two members. *)
EXTENDS PeerMail

=============================================================================
