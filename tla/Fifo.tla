--------------------------------- MODULE Fifo ---------------------------------
(* A first-in first-out queue whose items are put in at most once. *)
EXTENDS Sequences
CONSTANT Items
VARIABLES queue, used

Init == queue = <<>> /\ used = {}
Put  == \E x \in Items \ used : queue' = Append(queue, x) /\ used' = used \cup {x}
Take == queue # <<>> /\ queue' = Tail(queue) /\ UNCHANGED used
Next == Put \/ Take
Spec == Init /\ [][Next]_<<queue, used>>
=============================================================================
