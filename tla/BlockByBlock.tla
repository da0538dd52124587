----------------------------- MODULE BlockByBlock -----------------------------
(***************************************************************************)
(* What a download promises, whatever its threads do: blocks are stored    *)
(* one at a time, a block is listed in the metadata only when it is        *)
(* stored, and the central server is told of it only when it was listed.   *)
(* The metadata file is rewritten for each block, emptied first and then   *)
(* written with all blocks it listed before.  A kill takes at most one     *)
(* stored block, and the list if it was being rewritten.                   *)
(***************************************************************************)
CONSTANT Blocks

VARIABLES stored, \* blocks whose bytes are all in the part file
          listed, \* blocks the metadata file lists
          kept,   \* blocks it has listed and will list again, while it is rewritten
          told,   \* blocks the central server has been told of
          alive   \* the process has not been killed

\* A block without bytes is stored from the start.
Init == stored \subseteq Blocks /\ listed = {} /\ kept = {} /\ told = {} /\ alive = TRUE

Store ==
  /\ alive
  /\ \E b \in Blocks \ stored : stored' = stored \cup {b}
  /\ UNCHANGED <<listed, kept, told, alive>>

Open ==
  /\ alive /\ kept = {}
  /\ listed' = {} /\ kept' = listed
  /\ UNCHANGED <<stored, told, alive>>

List ==
  /\ alive /\ listed = {}
  /\ \E b \in stored \ kept : listed' = kept \cup {b}
  /\ kept' = {}
  /\ UNCHANGED <<stored, told, alive>>

Tell ==
  /\ alive
  /\ \E b \in (listed \cup kept) \ told : told' = told \cup {b}
  /\ UNCHANGED <<stored, listed, kept, alive>>

Die ==
  /\ alive /\ alive' = FALSE
  /\ \E lost \in {{}} \cup {{b} : b \in stored} : stored' = stored \ lost
  /\ kept' = {}
  /\ UNCHANGED <<listed, told>>

Next == Store \/ Open \/ List \/ Tell \/ Die
Spec == Init /\ [][Next]_<<stored, listed, kept, told, alive>>
=============================================================================
