------------------------------ MODULE LinkedList ------------------------------
(***************************************************************************)
(* One linked list of the program (central-server/src/list.c,              *)
(* list_iterator.c and list_node.c; p2p-client/include/list.c is a copy),  *)
(* with the threads that use it, access by access.                         *)
(*                                                                         *)
(* A list is used in one of two ways.  "guarded": every operation runs     *)
(* under the mutex of the list, as for the lists of peers, blocks, files   *)
(* and threads of the server.  "peers": the list of the peers of a block,  *)
(* whose operations run under blocksAccess except two: AddPeerToBlock      *)
(* pushes (main.c:84) and GetPeerInfo reads (jsonFunctions.c:255) without  *)
(* it.                                                                     *)
(*                                                                         *)
(* In list_rpush and list_at, which may run without the mutex, every       *)
(* access to memory that another thread can reach is a step; accesses to a *)
(* node that is not yet in the list share one.  An action of a removal may *)
(* do several accesses: removals run under the mutex, and what a push      *)
(* between two of them would see is no property's business, because the    *)
(* properties end with an overlap of a removal.                            *)
(* A step that would read or write through NULL or a freed node ends the   *)
(* behaviour and is named in `fault`.  Operations nobody calls are left    *)
(* out.                                                                    *)
(***************************************************************************)
EXTENDS Integers, Sequences, FiniteSets

CONSTANTS
  Nodes,     \* a node is allocated once, so that a stale pointer shows
  Vals,      \* what the nodes point to
  Threads,
  NULL,
  Nobody,    \* the owner of a free mutex
  UnsignedMax

ASSUME ListAssumption == /\ IsFiniteSet(Nodes) /\ NULL \notin Nodes /\ NULL \notin Vals
                         /\ Nobody \notin Threads
                         /\ UnsignedMax \in Nat /\ Cardinality(Nodes) < UnsignedMax

VARIABLES
  use,               \* "guarded" or "peers"
  head, tail, len,   \* of the list
  prev, next, val,   \* of each node
  unused, live,      \* nodes never allocated, and those that are allocated
  mutex,
  pc,
  node,              \* the node a thread pushes or removes, or what it has found
  cursor,            \* self->next of a thread's iterator, or the tail a push has read
  count,             \* index or length a thread counts with
  wanted,            \* what a thread's list_find looks for
  items,             \* the list as a sequence of nodes (history)
  overlap,           \* two operations, one of them a writer, were under way at once (history)
  removed,           \* a node has been unlinked (history)
  fault

listVars  == <<head, tail, len, prev, next>>
heapVars  == <<val, unused, live>>
localVars == <<node, cursor, count, wanted>>
ghostVars == <<items, overlap, removed>>
vars == <<use, listVars, heapVars, mutex, pc, localVars, ghostVars, fault>>

Pointers == Nodes \cup {NULL}
Labels == {"idle", "test", "prev", "link", "attach", "tail", "first", "head", "next", "back",
           "count", "store", "at", "iterate", "walk", "use",
           "find", "unlinkPrev", "unlinkNext", "free", "uncount", "destroyed"}
Goto(t, label) == pc' = [pc EXCEPT ![t] = label]

\* list_new.
Init ==
  /\ use \in {"guarded", "peers"}
  /\ head = NULL /\ tail = NULL /\ len = 0
  /\ prev = [n \in Nodes |-> NULL] /\ next = [n \in Nodes |-> NULL]
  /\ val = [n \in Nodes |-> NULL] /\ unused = Nodes /\ live = {}
  /\ mutex = Nobody /\ pc = [t \in Threads |-> "idle"]
  /\ node = [t \in Threads |-> NULL] /\ cursor = [t \in Threads |-> NULL]
  /\ count = [t \in Threads |-> 0] /\ wanted = [t \in Threads |-> NULL]
  /\ items = <<>> /\ overlap = FALSE /\ removed = FALSE /\ fault = "none"

-----------------------------------------------------------------------------
(* Entering and leaving an operation *)

Reading == {"at", "iterate", "walk", "use"}
Busy(t) == pc[t] \notin {"idle", "destroyed"}

Enter(t, label) ==
  /\ fault = "none" /\ pc[t] = "idle" /\ \A u \in Threads : pc[u] # "destroyed"
  /\ Goto(t, label)
  /\ overlap' = (overlap \/ \E u \in Threads : Busy(u) /\ {pc[u], label} \ Reading # {})

Lock(t) == mutex = Nobody /\ mutex' = t
Unlock(t) == mutex' = IF mutex = t THEN Nobody ELSE mutex

\* The thread's operation returns.
Return(t) == Goto(t, "idle") /\ Unlock(t)

At(t, label) == fault = "none" /\ pc[t] = label

\* *p is accessed and the step done, or the pointer is bad.
Access(p, step) ==
  IF p \in live THEN step /\ UNCHANGED fault
  ELSE /\ fault' = (IF p = NULL THEN "null" ELSE "use_after_free")
       /\ UNCHANGED <<use, listVars, heapVars, mutex, pc, localVars, ghostVars>>

-----------------------------------------------------------------------------
(* list_node_new and list_rpush *)

BeginPush(t) ==
  /\ Enter(t, "test")
  /\ Lock(t) \/ (use = "peers" /\ UNCHANGED mutex)
  /\ \E n \in unused, v \in Vals :
       /\ unused' = unused \ {n} /\ live' = live \cup {n}
       /\ val' = [val EXCEPT ![n] = v]
       /\ prev' = [prev EXCEPT ![n] = NULL] /\ next' = [next EXCEPT ![n] = NULL]
       /\ node' = [node EXCEPT ![t] = n]
  /\ UNCHANGED <<use, head, tail, len, cursor, count, wanted, items, removed, fault>>

TestLen(t) ==
  /\ At(t, "test")
  /\ Goto(t, IF len # 0 THEN "prev" ELSE "first")
  /\ UNCHANGED <<use, listVars, heapVars, mutex, localVars, ghostVars, fault>>

SetPrev(t) ==
  /\ At(t, "prev")
  /\ prev' = [prev EXCEPT ![node[t]] = tail] /\ next' = [next EXCEPT ![node[t]] = NULL]
  /\ Goto(t, "link")
  /\ UNCHANGED <<use, head, tail, len, heapVars, mutex, localVars, ghostVars, fault>>

\* self->tail->next = node reads the tail and writes through it.
ReadTail(t) ==
  /\ At(t, "link")
  /\ cursor' = [cursor EXCEPT ![t] = tail] /\ Goto(t, "attach")
  /\ UNCHANGED <<use, listVars, heapVars, mutex, node, count, wanted, ghostVars, fault>>

LinkLast(t) ==
  /\ At(t, "attach")
  /\ Access(cursor[t],
       /\ next' = [next EXCEPT ![cursor[t]] = node[t]] /\ cursor' = [cursor EXCEPT ![t] = NULL]
       /\ Goto(t, "tail")
       /\ UNCHANGED <<use, head, tail, len, prev, heapVars, mutex, node, count, wanted, ghostVars>>)

SetTail(t) ==
  /\ At(t, "tail")
  /\ tail' = node[t] /\ Goto(t, "count")
  /\ UNCHANGED <<use, head, len, prev, next, heapVars, mutex, localVars, ghostVars, fault>>

\* Variant: the first node becomes the head only.
SetFirst_head(t) ==
  /\ At(t, "first")
  /\ Goto(t, "head")
  /\ UNCHANGED <<use, listVars, heapVars, mutex, localVars, ghostVars, fault>>

\* The first node of a list: the tail, then the head, and then its own pointers,
\* which others can reach by now.
SetFirst(t) ==
  /\ At(t, "first")
  /\ tail' = node[t] /\ Goto(t, "head")
  /\ UNCHANGED <<use, head, len, prev, next, heapVars, mutex, localVars, ghostVars, fault>>

SetHead(t) ==
  /\ At(t, "head")
  /\ head' = node[t] /\ Goto(t, "next")
  /\ UNCHANGED <<use, tail, len, prev, next, heapVars, mutex, localVars, ghostVars, fault>>

ClearNext(t) ==
  /\ At(t, "next")
  /\ Access(node[t], /\ next' = [next EXCEPT ![node[t]] = NULL] /\ Goto(t, "back")
                     /\ UNCHANGED <<use, head, tail, len, prev, heapVars, mutex, localVars, ghostVars>>)

ClearPrev(t) ==
  /\ At(t, "back")
  /\ Access(node[t], /\ prev' = [prev EXCEPT ![node[t]] = NULL] /\ Goto(t, "count")
                     /\ UNCHANGED <<use, head, tail, len, next, heapVars, mutex, localVars, ghostVars>>)

\* ++self->len reads the length and writes it.
ReadLen(t) ==
  /\ At(t, "count")
  /\ count' = [count EXCEPT ![t] = len] /\ Goto(t, "store")
  /\ UNCHANGED <<use, listVars, heapVars, mutex, node, cursor, wanted, ghostVars, fault>>

WriteLen(t) ==
  /\ At(t, "store")
  /\ len' = (count[t] + 1) % (UnsignedMax + 1)
  /\ items' = Append(items, node[t])
  /\ node' = [node EXCEPT ![t] = NULL] /\ count' = [count EXCEPT ![t] = 0]
  /\ Return(t)
  /\ UNCHANGED <<use, head, tail, prev, next, heapVars, cursor, wanted, overlap, removed, fault>>

-----------------------------------------------------------------------------
(* list_at, with the iterator it walks with *)

BeginAt(t) ==
  /\ Enter(t, "at")
  /\ IF use = "peers" THEN UNCHANGED mutex ELSE Lock(t)
  /\ \E i \in 0..(Cardinality(Nodes) - 1) : count' = [count EXCEPT ![t] = i]
  /\ UNCHANGED <<use, listVars, heapVars, node, cursor, wanted, items, removed, fault>>

\* The index is compared with the length as it is now.
CheckIndex(t) ==
  /\ At(t, "at")
  /\ IF count[t] < len
     THEN Goto(t, "iterate") /\ UNCHANGED <<mutex, count>>
     ELSE Return(t) /\ count' = [count EXCEPT ![t] = 0]
  /\ UNCHANGED <<use, listVars, heapVars, node, cursor, wanted, ghostVars, fault>>

\* list_iterator_new.
NewIterator(t) ==
  /\ At(t, "iterate")
  /\ cursor' = [cursor EXCEPT ![t] = head] /\ Goto(t, "walk")
  /\ UNCHANGED <<use, listVars, heapVars, mutex, node, count, wanted, ghostVars, fault>>

\* list_iterator_next; at the last one list_at has its result.  An iterator that
\* has reached the end stays there.
Walk(t) ==
  /\ At(t, "walk")
  /\ IF cursor[t] = NULL
     THEN /\ Return(t) /\ count' = [count EXCEPT ![t] = 0]
          /\ UNCHANGED <<use, listVars, heapVars, node, cursor, wanted, ghostVars, fault>>
     ELSE Access(cursor[t],
            /\ IF count[t] = 0
               THEN /\ node' = [node EXCEPT ![t] = cursor[t]]
                    /\ cursor' = [cursor EXCEPT ![t] = NULL] /\ Goto(t, "use") /\ UNCHANGED count
               ELSE /\ cursor' = [cursor EXCEPT ![t] = next[@]]
                    /\ count' = [count EXCEPT ![t] = @ - 1] /\ UNCHANGED <<node, pc>>
            /\ UNCHANGED <<use, listVars, heapVars, mutex, wanted, ghostVars>>)

\* The caller reads the value of the node it got.
UseNode(t) ==
  /\ At(t, "use")
  /\ Access(node[t], /\ node' = [node EXCEPT ![t] = NULL] /\ Return(t)
                     /\ UNCHANGED <<use, listVars, heapVars, cursor, count, wanted, ghostVars>>)

-----------------------------------------------------------------------------
(* list_find and list_remove of what it finds, under the mutex *)

BeginRemove(t) ==
  /\ Enter(t, "find") /\ Lock(t)
  /\ \E v \in Vals : wanted' = [wanted EXCEPT ![t] = v]
  /\ cursor' = [cursor EXCEPT ![t] = head]
  /\ UNCHANGED <<use, listVars, heapVars, node, count, items, removed, fault>>

Find(t) ==
  /\ At(t, "find")
  /\ IF cursor[t] = NULL
     THEN /\ Return(t) /\ wanted' = [wanted EXCEPT ![t] = NULL]
          /\ UNCHANGED <<use, listVars, heapVars, node, cursor, count, ghostVars, fault>>
     ELSE Access(cursor[t],
            /\ IF val[cursor[t]] = wanted[t]
               THEN /\ node' = [node EXCEPT ![t] = cursor[t]]
                    /\ cursor' = [cursor EXCEPT ![t] = NULL] /\ wanted' = [wanted EXCEPT ![t] = NULL]
                    /\ Goto(t, "unlinkPrev")
               ELSE cursor' = [cursor EXCEPT ![t] = next[@]] /\ UNCHANGED <<node, wanted, pc>>
            /\ UNCHANGED <<use, listVars, heapVars, mutex, count, ghostVars>>)

\* Variant: the node before the removed one keeps pointing to it.
UnlinkPrev_kept(t) ==
  /\ At(t, "unlinkPrev")
  /\ head' = (IF prev[node[t]] = NULL THEN next[node[t]] ELSE head)
  /\ Goto(t, "unlinkNext") /\ removed' = TRUE
  /\ UNCHANGED <<use, tail, len, prev, next, heapVars, mutex, localVars, items, overlap, fault>>

UnlinkPrev(t) ==
  LET p == prev[node[t]]
      step == /\ Goto(t, "unlinkNext") /\ removed' = TRUE
              /\ UNCHANGED <<use, tail, len, prev, heapVars, mutex, localVars, items, overlap>> IN
  /\ At(t, "unlinkPrev")
  /\ IF p = NULL
     THEN head' = next[node[t]] /\ step /\ UNCHANGED <<next, fault>>
     ELSE Access(p, next' = [next EXCEPT ![p] = next[node[t]]] /\ step /\ UNCHANGED head)

UnlinkNext(t) ==
  LET n == next[node[t]]
      step == /\ Goto(t, "free")
              /\ UNCHANGED <<use, head, len, next, heapVars, mutex, localVars, ghostVars>> IN
  /\ At(t, "unlinkNext")
  /\ IF n = NULL
     THEN tail' = prev[node[t]] /\ step /\ UNCHANGED <<prev, fault>>
     ELSE Access(n, prev' = [prev EXCEPT ![n] = prev[node[t]]] /\ step /\ UNCHANGED tail)

\* free of the node, and --self->len reads the length.
FreeNode(t) ==
  /\ At(t, "free")
  /\ live' = live \ {node[t]}
  /\ count' = [count EXCEPT ![t] = len] /\ Goto(t, "uncount")
  /\ UNCHANGED <<use, listVars, val, unused, mutex, node, cursor, wanted, ghostVars, fault>>

\* The sequence without n, which is in it once at most.
Without(s, n) ==
  IF \E k \in 1..Len(s) : s[k] = n
  THEN LET k == CHOOSE i \in 1..Len(s) : s[i] = n
       IN  [i \in 1..(Len(s) - 1) |-> IF i < k THEN s[i] ELSE s[i + 1]]
  ELSE s

\* Variant: the length does not wrap.
WriteLenBack_signed(t) ==
  /\ At(t, "uncount")
  /\ len' = count[t] - 1
  /\ items' = Without(items, node[t])
  /\ node' = [node EXCEPT ![t] = NULL] /\ count' = [count EXCEPT ![t] = 0]
  /\ Return(t)
  /\ UNCHANGED <<use, head, tail, prev, next, heapVars, cursor, wanted, overlap, removed, fault>>

\* The length is unsigned.
WriteLenBack(t) ==
  /\ At(t, "uncount")
  /\ len' = (count[t] + UnsignedMax) % (UnsignedMax + 1)
  /\ items' = Without(items, node[t])
  /\ node' = [node EXCEPT ![t] = NULL] /\ count' = [count EXCEPT ![t] = 0]
  /\ Return(t)
  /\ UNCHANGED <<use, head, tail, prev, next, heapVars, cursor, wanted, overlap, removed, fault>>

-----------------------------------------------------------------------------
(* list_rpop and list_destroy, of guarded lists only: one step each *)

\* The caller frees the node.
RPop(t) ==
  /\ fault = "none" /\ use = "guarded" /\ pc[t] = "idle" /\ mutex = Nobody /\ len # 0
  /\ \A u \in Threads : pc[u] # "destroyed"
  /\ len' = len - 1
  /\ IF len = 1
     THEN tail' = NULL /\ head' = NULL /\ next' = [next EXCEPT ![tail] = NULL]
     ELSE /\ tail' = prev[tail] /\ UNCHANGED head
          /\ next' = [next EXCEPT ![prev[tail]] = NULL, ![tail] = NULL]
  /\ prev' = [prev EXCEPT ![tail] = NULL]
  /\ live' = live \ {tail} /\ items' = Without(items, tail) /\ removed' = TRUE
  /\ UNCHANGED <<use, val, unused, mutex, pc, localVars, overlap, fault>>

\* Where k steps by a pointer lead from a node.
After(from, step, k) ==
  LET at[i \in 0..k] == IF i = 0 THEN from
                        ELSE IF at[i - 1] = NULL THEN NULL ELSE step[at[i - 1]]
  IN  at[k]

\* len nodes are freed, from head on, when all threads have ended.
Destroy(t) ==
  LET met == {After(head, next, i) : i \in 0..(len - 1)} IN
  /\ fault = "none" /\ use = "guarded" /\ \A u \in Threads : pc[u] = "idle"
  /\ Goto(t, "destroyed")
  /\ live' = live \ met
  /\ fault' = IF NULL \in met THEN "null" ELSE "none"
  /\ head' = NULL /\ tail' = NULL /\ len' = 0 /\ items' = <<>>
  /\ UNCHANGED <<use, prev, next, val, unused, mutex, localVars, overlap, removed>>

-----------------------------------------------------------------------------
list_rpush(t) == \/ BeginPush(t) \/ TestLen(t) \/ SetPrev(t) \/ ReadTail(t) \/ LinkLast(t)
                 \/ SetTail(t) \/ SetFirst(t) \/ SetHead(t) \/ ClearNext(t) \/ ClearPrev(t)
                 \/ ReadLen(t) \/ WriteLen(t)
list_at(t) == BeginAt(t) \/ CheckIndex(t) \/ NewIterator(t) \/ Walk(t) \/ UseNode(t)
list_remove(t) == \/ BeginRemove(t) \/ Find(t) \/ UnlinkPrev(t) \/ UnlinkNext(t)
                  \/ FreeNode(t) \/ WriteLenBack(t)

Next == \E t \in Threads : list_rpush(t) \/ list_at(t) \/ list_remove(t) \/ RPop(t) \/ Destroy(t)

Spec == Init /\ [][Next]_vars

-----------------------------------------------------------------------------
(* Properties *)

TypeOK ==
  /\ use \in {"guarded", "peers"}
  /\ head \in Pointers /\ tail \in Pointers /\ len \in 0..UnsignedMax
  /\ prev \in [Nodes -> Pointers] /\ next \in [Nodes -> Pointers]
  /\ val \in [Nodes -> Vals \cup {NULL}] /\ unused \subseteq Nodes /\ live \subseteq Nodes
  /\ mutex \in Threads \cup {Nobody}
  /\ pc \in [Threads -> Labels]
  /\ node \in [Threads -> Pointers] /\ cursor \in [Threads -> Pointers]
  /\ count \in [Threads -> 0..UnsignedMax] /\ wanted \in [Threads -> Vals \cup {NULL}]
  /\ items \in Seq(Nodes) /\ overlap \in BOOLEAN /\ removed \in BOOLEAN
  /\ fault \in {"none", "null", "use_after_free"}

\* The pointers are the sequence: len, the next pointers from head and the prev
\* pointers from tail agree with it, and its nodes are those that are allocated.
Represents(s) ==
  /\ len = Len(s) /\ live = {s[i] : i \in 1..Len(s)}
  /\ \A i \in 1..Len(s) : After(head, next, i - 1) = s[i] /\ After(tail, prev, Len(s) - i) = s[i]
  /\ After(head, next, Len(s)) = NULL /\ After(tail, prev, Len(s)) = NULL

\* Between two operations the list is the sequence of what was pushed and not
\* taken out again, and nothing else is allocated, until two operations overlap.
\* A guarded list has no overlap.
IsSequence ==
  /\ use = "guarded" => ~ overlap
  /\ ~ overlap => fault = "none" /\ ((\A t \in Threads : ~ Busy(t)) => Represents(items))

\* Where two unlocked pushes overlap a node may be lost for the readers, with all
\* that is pushed later; but as long as nothing is removed, no operation reads or
\* writes through a bad pointer, and a walk from head ends.
PushesOnlyLose ==
  ~ removed => fault = "none" /\ After(head, next, Cardinality(Nodes)) = NULL
=============================================================================
