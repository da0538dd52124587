---------------------------- MODULE MCPeerProcess ----------------------------
(* Instances of PeerProcess for TLC. *)
EXTENDS PeerProcess

CONSTANTS c1, c2, c3
=============================================================================
