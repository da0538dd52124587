------------------------------ MODULE MCTransfer ------------------------------
(* Instances of Transfer for TLC. *)
EXTENDS Transfer

CONSTANTS p1, p2
=============================================================================
