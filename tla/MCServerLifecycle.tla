--------------------------- MODULE MCServerLifecycle ---------------------------
(* Instances of ServerLifecycle for TLC. *)
EXTENDS ServerLifecycle

CONSTANTS s1, s2
=============================================================================
