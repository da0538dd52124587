--------------------------- MODULE LinkedListProofs ---------------------------
(***************************************************************************)
(* Proofs about LinkedList, for every set of nodes, values and threads and *)
(* every width of the length.                                              *)
(*                                                                         *)
(* First the lists without an overlap of operations (ListInv), then the    *)
(* peers of a block, that are pushed with and without the mutex (PushInv). *)
(***************************************************************************)
EXTENDS LinkedList, SequenceTheorems, FiniteSetTheorems, WellFoundedInduction, TLAPS

-----------------------------------------------------------------------------
(* The inductive invariant of a list whose operations do not overlap *)

ItemsOf(s)  == {s[i] : i \in 1..Len(s)}
Distinct(s) == \A i, j \in 1..Len(s) : s[i] = s[j] => i = j

\* The i-th node of a list, NULL on either side of it.
Link(s, i) == IF i \in 1..Len(s) THEN s[i] ELSE NULL

\* The pointers form the list s, in both directions.
Forward(s)  == head = Link(s, 1) /\ \A i \in 1..Len(s) : next[s[i]] = Link(s, i + 1)
Back(s)     == \A i \in 1..Len(s) : prev[s[i]] = Link(s, i - 1)
Backward(s) == tail = Link(s, Len(s)) /\ Back(s)
Whole(s)    == Forward(s) /\ Backward(s)

Pushing  == {"test", "prev", "link", "attach", "tail", "first", "head", "next", "back",
             "count", "store"}
Removing == {"unlinkPrev", "unlinkNext", "free", "uncount"}

\* A thread that pushes, removes or uses a node has one.
Holding == \A t \in Threads : pc[t] \in Pushing \cup Removing \cup {"use"} => node[t] \in Nodes

\* The operations of a guarded list exclude each other by its mutex, and those of
\* any list until two overlap, except for readers.
Exclusive ==
  /\ use = "guarded" => ~ overlap /\ \A t \in Threads : Busy(t) <=> mutex = t
  /\ ~ overlap => \A t, u \in Threads :
                    t # u /\ Busy(t) /\ Busy(u) => pc[t] \in Reading /\ pc[u] \in Reading

\* What a push has done so far, of its node n.
PushShape(t) ==
  LET n == node[t]
      longer == Append(items, n) IN
  pc[t] \in Pushing =>
    /\ n \notin ItemsOf(items) /\ live = ItemsOf(items) \cup {n} /\ len = Len(items)
    /\ pc[t] \in {"test", "prev", "link", "attach", "first"} => Whole(items)
    /\ pc[t] \in {"prev", "link", "attach", "tail"} => items # <<>>
    /\ pc[t] \in {"first", "head", "next", "back"} => items = <<>>
    /\ pc[t] \in {"test", "first", "head", "next", "back"} => next[n] = NULL
    /\ pc[t] \in {"link", "attach"} => prev[n] = tail /\ next[n] = NULL
    /\ pc[t] = "attach" => cursor[t] = tail
    /\ pc[t] = "head" => head = NULL /\ tail = n
    /\ pc[t] \in {"next", "back"} => head = n /\ tail = n
    /\ pc[t] = "tail" => Forward(longer) /\ Back(longer)
    /\ pc[t] \in {"count", "store"} => Whole(longer)
    /\ pc[t] = "store" => count[t] = len

\* What list_remove has done so far.
RemoveShape(t) ==
  LET n == node[t]
      shorter == Without(items, n) IN
  pc[t] \in Removing =>
    /\ n \in ItemsOf(items) /\ len = Len(items)
    /\ live = IF pc[t] = "uncount" THEN ItemsOf(shorter) ELSE ItemsOf(items)
    /\ pc[t] = "unlinkPrev" => Whole(items)
    /\ pc[t] = "unlinkNext" => /\ Forward(shorter) /\ Backward(items)
                               /\ \A k \in 1..Len(items) : items[k] = n => next[n] = Link(items, k + 1)
    /\ pc[t] \in {"free", "uncount"} => Whole(shorter)
    /\ pc[t] = "uncount" => count[t] = len

\* A reader is at a node of the list.
ReadShape(t) ==
  /\ pc[t] \in {"walk", "find"} => cursor[t] \in ItemsOf(items) \cup {NULL}
  /\ pc[t] = "use" => node[t] \in ItemsOf(items)

Shape ==
  /\ Distinct(items) /\ fault = "none"
  /\ \A t \in Threads : PushShape(t) /\ RemoveShape(t) /\ ReadShape(t)
  /\ (\A t \in Threads : pc[t] \notin Pushing \cup Removing) =>
       Whole(items) /\ len = Len(items) /\ live = ItemsOf(items)

\* A freed node is not allocated again.
Fresh == unused \cap live = {}

ListInv == TypeOK /\ Holding /\ Exclusive /\ Fresh /\ (~ overlap => Shape)
-----------------------------------------------------------------------------
(* Sequences of nodes *)

\* Pushing a node.
LEMMA Longer ==
  ASSUME NEW s \in Seq(Nodes), NEW n \in Nodes
  PROVE  /\ Append(s, n) \in Seq(Nodes) /\ Len(s) \in Nat /\ Len(Append(s, n)) = Len(s) + 1
         /\ \A i \in 1..Len(s) : Append(s, n)[i] = s[i] /\ s[i] \in Nodes
         /\ Append(s, n)[Len(s) + 1] = n
         /\ \A i \in 1..(Len(s) + 1) : i \in 1..Len(s) \/ i = Len(s) + 1
         /\ ItemsOf(Append(s, n)) = ItemsOf(s) \cup {n}
<1> DEFINE z == Append(s, n)
<1>1. /\ z \in Seq(Nodes) /\ Len(s) \in Nat /\ Len(z) = Len(s) + 1
      /\ \A i \in 1..Len(s) : z[i] = s[i]
      /\ z[Len(s) + 1] = n
  BY AppendProperties
<1>2. \A i \in 1..Len(s) : s[i] \in Nodes
  OBVIOUS
<1> HIDE DEF z
<1>3. \A i \in 1..(Len(s) + 1) : i \in 1..Len(s) \/ i = Len(s) + 1
  BY <1>1
<1>4. Len(s) + 1 \in 1..(Len(s) + 1) /\ \A i \in 1..Len(s) : i \in 1..(Len(s) + 1)
  BY <1>1
<1>5. ItemsOf(z) = ItemsOf(s) \cup {n}
  BY <1>1, <1>3, <1>4, Zenon DEF ItemsOf
<1> QED BY <1>1, <1>2, <1>3, <1>5 DEF z

\* Taking the k-th node out.
LEMMA Shorter ==
  ASSUME NEW s \in Seq(Nodes), Distinct(s), NEW k \in 1..Len(s)
  PROVE  /\ Without(s, s[k]) \in Seq(Nodes)
         /\ Len(Without(s, s[k])) = Len(s) - 1
         /\ \A i \in 1..(Len(s) - 1) : Without(s, s[k])[i] = IF i < k THEN s[i] ELSE s[i + 1]
<1>1. Len(s) \in Nat /\ k \in Nat /\ 1 <= k /\ k <= Len(s) /\ \A i \in 1..Len(s) : s[i] \in Nodes
  OBVIOUS
<1>2. (CHOOSE i \in 1..Len(s) : s[i] = s[k]) = k
  BY DEF Distinct
<1> DEFINE w == [i \in 1..(Len(s) - 1) |-> IF i < k THEN s[i] ELSE s[i + 1]]
<1>3. Without(s, s[k]) = w
  BY <1>2 DEF Without
<1>4. \A i \in 1..(Len(s) - 1) : i \in 1..Len(s) /\ i + 1 \in 1..Len(s)
  BY <1>1
<1>5. w \in [1..(Len(s) - 1) -> Nodes]
  BY <1>1, <1>4
<1>6. Len(s) - 1 \in Nat
  BY <1>1
<1>7. w \in Seq(Nodes) /\ Len(w) = Len(s) - 1
  BY <1>5, <1>6, LenProperties
<1>8. \A i \in 1..(Len(s) - 1) : w[i] = IF i < k THEN s[i] ELSE s[i + 1]
  OBVIOUS
<1> QED BY <1>3, <1>7, <1>8

\* Whatever is taken out, a sequence of nodes is left.
LEMMA WithoutType ==
  ASSUME NEW s \in Seq(Nodes), NEW n
  PROVE  Without(s, n) \in Seq(Nodes)
<1>1. Len(s) \in Nat /\ \A i \in 1..Len(s) : s[i] \in Nodes
  OBVIOUS
<1>2. CASE ~ \E k \in 1..Len(s) : s[k] = n
  BY <1>2 DEF Without
<1>3. CASE \E k \in 1..Len(s) : s[k] = n
  <2> DEFINE k == CHOOSE i \in 1..Len(s) : s[i] = n
             w == [i \in 1..(Len(s) - 1) |-> IF i < k THEN s[i] ELSE s[i + 1]]
  <2>1. Without(s, n) = w
    BY <1>3 DEF Without
  <2>2. \A i \in 1..(Len(s) - 1) : i \in 1..Len(s) /\ i + 1 \in 1..Len(s)
    BY <1>1
  <2>3. Len(s) - 1 \in Nat
    BY <1>1, <1>3
  <2> HIDE DEF k
  <2>4. w \in [1..(Len(s) - 1) -> Nodes]
    BY <1>1, <2>2
  <2> QED BY <2>1, <2>3, <2>4
<1> QED BY <1>2, <1>3

\* What is left has each of the other nodes once.
LEMMA ShorterItems ==
  ASSUME NEW s \in Seq(Nodes), Distinct(s), NEW k \in 1..Len(s)
  PROVE  /\ Distinct(Without(s, s[k]))
         /\ ItemsOf(Without(s, s[k])) = ItemsOf(s) \ {s[k]}
<1> DEFINE w == Without(s, s[k])
<1>1. /\ Len(s) \in Nat /\ k \in Nat /\ 1 <= k /\ k <= Len(s)
      /\ Len(w) = Len(s) - 1
      /\ \A i \in 1..Len(w) : w[i] = IF i < k THEN s[i] ELSE s[i + 1]
  <2>1. Len(s) \in Nat /\ k \in Nat /\ 1 <= k /\ k <= Len(s)
    OBVIOUS
  <2>2. /\ Len(w) = Len(s) - 1
        /\ \A i \in 1..(Len(s) - 1) : w[i] = IF i < k THEN s[i] ELSE s[i + 1]
    BY Shorter, Zenon
  <2> HIDE DEF w
  <2> QED BY <2>1, <2>2
<1> HIDE DEF w
<1>2. \A i \in 1..Len(w) : i \in 1..Len(s) /\ i + 1 \in 1..Len(s)
  BY <1>1
<1>3. ASSUME NEW i \in 1..Len(w), NEW j \in 1..Len(w), w[i] = w[j] PROVE i = j
  <2>1. \A a, b \in 1..Len(s) : s[a] = s[b] => a = b
    BY DEF Distinct
  <2>2. CASE i < k /\ j < k
    BY <1>1, <1>2, <1>3, <2>1, <2>2
  <2>3. CASE i < k /\ ~ (j < k)
    <3>1. i = j + 1
      BY <1>1, <1>2, <1>3, <2>1, <2>3
    <3> QED BY <1>1, <2>3, <3>1
  <2>4. CASE ~ (i < k) /\ j < k
    <3>1. i + 1 = j
      BY <1>1, <1>2, <1>3, <2>1, <2>4
    <3> QED BY <1>1, <2>4, <3>1
  <2>5. CASE ~ (i < k) /\ ~ (j < k)
    <3>1. i + 1 = j + 1
      BY <1>1, <1>2, <1>3, <2>1, <2>5
    <3> QED BY <1>1, <3>1
  <2> QED BY <2>2, <2>3, <2>4, <2>5
<1>4. ASSUME NEW i \in 1..Len(w) PROVE w[i] \in ItemsOf(s) \ {s[k]}
  <2>1. CASE i < k
    BY <1>1, <1>2, <2>1 DEF ItemsOf, Distinct
  <2>2. CASE ~ (i < k)
    <3>1. w[i] = s[i + 1] /\ i + 1 \in 1..Len(s) /\ i + 1 # k
      BY <1>1, <1>2, <2>2
    <3> QED BY <3>1 DEF ItemsOf, Distinct
  <2> QED BY <2>1, <2>2
<1>5. ASSUME NEW i \in 1..Len(s), i # k PROVE s[i] \in ItemsOf(w)
  <2>1. CASE i < k
    <3>1. i \in 1..Len(w)
      BY <1>1, <2>1
    <3> QED BY <1>1, <2>1, <3>1 DEF ItemsOf
  <2>2. CASE i > k
    <3>1. i - 1 \in 1..Len(w) /\ ~ (i - 1 < k) /\ (i - 1) + 1 = i
      BY <1>1, <2>2
    <3>2. w[i - 1] = s[i]
      BY <1>1, <3>1
    <3> QED BY <3>1, <3>2 DEF ItemsOf
  <2> QED BY <1>1, <1>5, <2>1, <2>2
<1>6. Distinct(w)
  BY <1>3 DEF Distinct
<1>7. ItemsOf(w) = ItemsOf(s) \ {s[k]}
  <2>1. \A x \in ItemsOf(w) : x \in ItemsOf(s) \ {s[k]}
    BY <1>4 DEF ItemsOf
  <2>2. \A x \in ItemsOf(s) \ {s[k]} : x \in ItemsOf(w)
    BY <1>5 DEF ItemsOf
  <2> QED BY <2>1, <2>2
<1> QED BY <1>6, <1>7 DEF w

\* A list is not longer than there are nodes, and its length does not wrap.
LEMMA LengthFits ==
  ASSUME NEW s \in Seq(Nodes), Distinct(s)
  PROVE  Len(s) \in Nat /\ Len(s) <= Cardinality(Nodes) /\ Len(s) < UnsignedMax
<1>1. Len(s) \in Nat /\ s \in [1..Len(s) -> Nodes]
  OBVIOUS
<1>2. IsFiniteSet(1..Len(s)) /\ Cardinality(1..Len(s)) = Len(s)
  BY <1>1, FS_Interval
<1>3. s \in Injection(1..Len(s), Nodes)
  BY <1>1 DEF Distinct, Injection, IsInjective
<1>4. Cardinality(1..Len(s)) <= Cardinality(Nodes)
  BY <1>2, <1>3, ListAssumption, FS_Injection DEF ExistsInjection
<1>5. Cardinality(Nodes) \in Nat
  BY ListAssumption, FS_CardinalityType
<1> QED BY <1>1, <1>2, <1>4, <1>5, ListAssumption
-----------------------------------------------------------------------------
(* One step of a thread *)

Step(t) == list_rpush(t) \/ list_at(t) \/ list_remove(t) \/ RPop(t) \/ Destroy(t)

\* What a step leaves alone: the other threads, and the history but for its ends.
LEMMA OneThread ==
  ASSUME TypeOK, NEW t \in Threads, Step(t)
  PROVE  /\ \A u \in Threads \ {t} : /\ pc'[u] = pc[u] /\ node'[u] = node[u]
                                     /\ cursor'[u] = cursor[u] /\ count'[u] = count[u]
         /\ overlap => overlap'
         /\ removed => removed'
         /\ use' = use
<1> USE DEF TypeOK, Goto, At, Return, Access, listVars, heapVars, localVars, ghostVars
<1>1. CASE BeginPush(t)
  BY <1>1 DEF BeginPush, Enter
<1>2. CASE TestLen(t)
  BY <1>2 DEF TestLen
<1>3. CASE SetPrev(t)
  BY <1>3 DEF SetPrev
<1>4. CASE ReadTail(t) \/ LinkLast(t)
  BY <1>4 DEF ReadTail, LinkLast
<1>5. CASE SetTail(t)
  BY <1>5 DEF SetTail
<1>6. CASE SetFirst(t) \/ SetHead(t) \/ ClearNext(t) \/ ClearPrev(t)
  BY <1>6 DEF SetFirst, SetHead, ClearNext, ClearPrev
<1>7. CASE ReadLen(t)
  BY <1>7 DEF ReadLen
<1>8. CASE WriteLen(t)
  BY <1>8 DEF WriteLen
<1>9. CASE BeginAt(t)
  BY <1>9 DEF BeginAt, Enter
<1>10. CASE CheckIndex(t) \/ NewIterator(t)
  BY <1>10 DEF CheckIndex, NewIterator
<1>11. CASE Walk(t)
  BY <1>11 DEF Walk
<1>12. CASE UseNode(t)
  BY <1>12 DEF UseNode
<1>13. CASE BeginRemove(t)
  BY <1>13 DEF BeginRemove, Enter
<1>14. CASE Find(t)
  BY <1>14 DEF Find
<1>15. CASE UnlinkPrev(t)
  BY <1>15 DEF UnlinkPrev
<1>16. CASE UnlinkNext(t)
  BY <1>16 DEF UnlinkNext
<1>17. CASE FreeNode(t)
  BY <1>17 DEF FreeNode
<1>18. CASE WriteLenBack(t)
  BY <1>18 DEF WriteLenBack
<1>19. CASE RPop(t)
  BY <1>19 DEF RPop
<1>20. CASE Destroy(t)
  BY <1>20 DEF Destroy
<1> QED BY <1>1, <1>2, <1>3, <1>4, <1>5, <1>6, <1>7, <1>8, <1>9, <1>10, <1>11, <1>12, <1>13, <1>14,
         <1>15, <1>16, <1>17, <1>18, <1>19, <1>20 DEF Step, list_rpush, list_at, list_remove

\* A thread that is not only reading is alone, until two operations overlap.
LEMMA OthersOut ==
  ASSUME TypeOK, Exclusive, ~ overlap, NEW t \in Threads, Busy(t), pc[t] \notin Reading
  PROVE  \A u \in Threads \ {t} : pc[u] \in {"idle", "destroyed"}
BY DEF Exclusive, Busy

\* It is then its own work that has to fit.
LEMMA OneWriter ==
  ASSUME TypeOK, Exclusive, ~ overlap, NEW t \in Threads, Busy(t), pc[t] \notin Reading, Step(t),
         Distinct(items)', fault' = "none", PushShape(t)', RemoveShape(t)', ReadShape(t)',
         pc'[t] \notin Pushing \cup Removing => (Whole(items) /\ len = Len(items) /\ live = ItemsOf(items))'
  PROVE  Shape'
<1>1. \A u \in Threads \ {t} : pc'[u] \in {"idle", "destroyed"}
  BY OneThread, OthersOut
<1>2. \A u \in Threads : PushShape(u)' /\ RemoveShape(u)' /\ ReadShape(u)'
  BY <1>1 DEF PushShape, RemoveShape, ReadShape, Pushing, Removing
<1> QED BY <1>2 DEF Shape

\* No operation changes the list while others only read it.
LEMMA NoWriter ==
  ASSUME TypeOK, Exclusive, ~ overlap, Shape, NEW t \in Threads, Busy(t), pc[t] \in Reading
  PROVE  /\ \A u \in Threads : pc[u] \in Reading \cup {"idle", "destroyed"}
         /\ Whole(items) /\ len = Len(items) /\ live = ItemsOf(items)
<1>1. \A u \in Threads : pc[u] \in Reading \cup {"idle", "destroyed"}
  BY DEF Exclusive, Busy
<1>2. \A u \in Threads : pc[u] \notin Pushing \cup Removing
  BY <1>1 DEF Reading, Pushing, Removing
<1> QED BY <1>1, <1>2 DEF Shape

\* A thread that begins to write begins alone.
LEMMA NobodyElse ==
  ASSUME TypeOK, ~ overlap', NEW t \in Threads, NEW label, label \notin Reading, Enter(t, label)
  PROVE  ~ overlap /\ pc[t] = "idle" /\ \A u \in Threads : pc[u] = "idle"
<1>1. \A u \in Threads : ~ (Busy(u) /\ {pc[u], label} \ Reading # {})
  BY DEF Enter
<1>2. \A u \in Threads : ~ Busy(u)
  BY <1>1
<1> QED BY <1>2 DEF Enter, Busy

\* rpop has a node to take, and nobody else is at work.
LEMMA RPopFacts ==
  ASSUME ListInv, NEW t \in Threads, RPop(t)
  PROVE  /\ ~ overlap /\ \A u \in Threads : pc[u] = "idle"
         /\ Whole(items) /\ len = Len(items) /\ live = ItemsOf(items) /\ Distinct(items)
         /\ len \in Nat \ {0} /\ tail \in Nodes /\ tail = items[len] /\ len \in 1..Len(items)
<1>1. use = "guarded" /\ mutex = Nobody /\ len # 0 /\ \A u \in Threads : pc[u] # "destroyed"
  BY DEF RPop
<1>2. ~ overlap /\ \A u \in Threads : pc[u] = "idle"
  BY <1>1, ListAssumption DEF ListInv, Exclusive, Busy
<1>3. Whole(items) /\ len = Len(items) /\ live = ItemsOf(items) /\ Distinct(items)
  BY <1>2 DEF ListInv, Shape, Pushing, Removing
<1>4. items \in Seq(Nodes) /\ len \in 0..UnsignedMax
  BY DEF ListInv, TypeOK
<1>5. len \in 1..Len(items) /\ len \in Nat \ {0}
  BY <1>1, <1>3, <1>4
<1>6. tail = items[len]
  BY <1>3, <1>5 DEF Whole, Backward, Link
<1>7. items[len] \in Nodes
  BY <1>4, <1>5
<1> QED BY <1>2, <1>3, <1>5, <1>6, <1>7
-----------------------------------------------------------------------------
(* Types, mutual exclusion and allocation *)

\* Numbers that are stored in an unsigned.
LEMMA Wraps ==
  /\ UnsignedMax \in Nat
  /\ \A c \in 0..UnsignedMax : /\ (c + 1) % (UnsignedMax + 1) \in 0..UnsignedMax
                               /\ (c + UnsignedMax) % (UnsignedMax + 1) \in 0..UnsignedMax
                               /\ c < UnsignedMax => (c + 1) % (UnsignedMax + 1) = c + 1
                               /\ c # 0 => (c + UnsignedMax) % (UnsignedMax + 1) = c - 1
                               /\ c # 0 => c - 1 \in 0..UnsignedMax
  /\ 0..(Cardinality(Nodes) - 1) \subseteq 0..UnsignedMax
<1>1. UnsignedMax \in Nat /\ Cardinality(Nodes) \in Nat /\ Cardinality(Nodes) < UnsignedMax
  BY ListAssumption, FS_CardinalityType
<1>2. ASSUME NEW c \in 0..UnsignedMax
      PROVE  /\ (c + 1) % (UnsignedMax + 1) \in 0..UnsignedMax
             /\ (c + UnsignedMax) % (UnsignedMax + 1) \in 0..UnsignedMax
             /\ c < UnsignedMax => (c + 1) % (UnsignedMax + 1) = c + 1
             /\ c # 0 => (c + UnsignedMax) % (UnsignedMax + 1) = c - 1
             /\ c # 0 => c - 1 \in 0..UnsignedMax
  <2> DEFINE m == UnsignedMax + 1
  <2>1. m \in Nat \ {0} /\ c \in Nat /\ c <= UnsignedMax
    BY <1>1
  <2>2. (c + 1) % m \in 0..(m - 1) /\ (c + UnsignedMax) % m \in 0..(m - 1)
    BY <1>1, <2>1
  <2>3. c < UnsignedMax => (c + 1) % m = c + 1
    BY <1>1, <2>1
  <2>4. c # 0 => (c + UnsignedMax) % m = c - 1
    BY <1>1, <2>1
  <2> QED BY <1>1, <2>1, <2>2, <2>3, <2>4
<1>3. 0..(Cardinality(Nodes) - 1) \subseteq 0..UnsignedMax
  BY <1>1
<1> QED BY <1>1, <1>2, <1>3

\* Every variable keeps its type.
LEMMA TypeStep ==
  ASSUME ListInv, NEW t \in Threads, Step(t)
  PROVE  TypeOK'
<1> USE ListAssumption DEF TypeOK, Labels, Pointers, Goto, At, Return, Unlock, Access,
        listVars, heapVars, localVars, ghostVars
<1>0. TypeOK /\ (pc[t] \in Pushing \cup Removing \cup {"use"} => node[t] \in Nodes)
  BY DEF ListInv, Holding
<1>1. CASE BeginPush(t)
  BY <1>0, <1>1 DEF BeginPush, Enter, Lock
<1>2. CASE TestLen(t)
  BY <1>0, <1>2 DEF TestLen
<1>3. CASE SetPrev(t)
  BY <1>0, <1>3 DEF SetPrev
<1>4. CASE ReadTail(t)
  BY <1>0, <1>4 DEF ReadTail
<1>22. CASE LinkLast(t)
  <2>1. CASE cursor[t] \in live
    <3>1. next' = [next EXCEPT ![cursor[t]] = node[t]] /\ cursor' = [cursor EXCEPT ![t] = NULL]
      BY <1>22, <2>1 DEF LinkLast
    <3>2. next' \in [Nodes -> Pointers] /\ cursor' \in [Threads -> Pointers]
      BY <1>0, <3>1
    <3>3. pc' \in [Threads -> Labels] /\ UNCHANGED fault
      BY <1>0, <1>22, <2>1 DEF LinkLast
    <3>4. UNCHANGED <<use, head, tail, len, prev, val, unused, live, mutex, node, count, wanted, items,
                      overlap, removed>>
      BY <1>22, <2>1 DEF LinkLast
    <3> QED BY <1>0, <3>2, <3>3, <3>4
  <2>2. CASE cursor[t] \notin live
    BY <1>0, <1>22, <2>2 DEF LinkLast
  <2> QED BY <2>1, <2>2
<1>5. CASE SetTail(t)
  BY <1>0, <1>5 DEF SetTail
<1>6. CASE SetFirst(t) \/ SetHead(t) \/ ClearNext(t) \/ ClearPrev(t)
  BY <1>0, <1>6 DEF SetFirst, SetHead, ClearNext, ClearPrev, Pushing
<1>7. CASE ReadLen(t)
  BY <1>0, <1>7 DEF ReadLen
<1>8. CASE WriteLen(t)
  <2>1. items' \in Seq(Nodes)
    BY <1>0, <1>8, Longer DEF WriteLen, Pushing
  <2>2. len' \in 0..UnsignedMax /\ 0 \in 0..UnsignedMax
    BY <1>0, <1>8, Wraps DEF WriteLen
  <2> QED BY <1>0, <1>8, <2>1, <2>2 DEF WriteLen
<1>9. CASE BeginAt(t)
  <2>1. count' \in [Threads -> 0..UnsignedMax]
    BY <1>0, <1>9, Wraps DEF BeginAt
  <2> QED BY <1>0, <1>9, <2>1 DEF BeginAt, Enter, Lock
<1>10. CASE CheckIndex(t)
  <2>1. 0 \in 0..UnsignedMax
    BY Wraps
  <2>2. /\ pc' = [pc EXCEPT ![t] = "iterate"] \/ pc' = [pc EXCEPT ![t] = "idle"]
        /\ UNCHANGED mutex \/ mutex' = Nobody
        /\ UNCHANGED count \/ count' = [count EXCEPT ![t] = 0]
    BY <1>10, Zenon DEF CheckIndex
  <2>3. /\ pc' \in [Threads -> Labels]
        /\ mutex' \in Threads \cup {Nobody} /\ count' \in [Threads -> 0..UnsignedMax]
    <3>1. pc' \in [Threads -> Labels]
      BY <1>0, <2>2
    <3>3. count' \in [Threads -> 0..UnsignedMax]
      BY <1>0, <2>1, <2>2
    <3>4. mutex' \in Threads \cup {Nobody}
      BY <1>0, <2>2
    <3> QED BY <3>1, <3>3, <3>4
  <2>4. UNCHANGED <<use, head, tail, len, prev, next, val, unused, live, node, cursor, wanted, items, overlap, removed, fault>>
    BY <1>10 DEF CheckIndex
  <2> QED BY <1>0, <2>2, <2>3, <2>4
<1>11. CASE Walk(t)
  <2>1. 0 \in 0..UnsignedMax /\ (count[t] # 0 => count[t] - 1 \in 0..UnsignedMax)
    BY <1>0, Wraps
  <2>2. CASE cursor[t] = NULL
    <3>1. /\ pc' = [pc EXCEPT ![t] = "idle"] /\ count' = [count EXCEPT ![t] = 0]
          /\ UNCHANGED mutex \/ mutex' = Nobody
      BY <1>11, <2>2, Zenon DEF Walk
    <3>3. /\ pc' \in [Threads -> Labels] /\ count' \in [Threads -> 0..UnsignedMax]
          /\ mutex' \in Threads \cup {Nobody}
      <4>1. pc' \in [Threads -> Labels]
        BY <1>0, <3>1
      <4>2. count' \in [Threads -> 0..UnsignedMax]
        BY <1>0, <2>1, <3>1
      <4>3. mutex' \in Threads \cup {Nobody}
        BY <1>0, <3>1
      <4> QED BY <4>1, <4>2, <4>3
    <3>2. UNCHANGED <<use, head, tail, len, prev, next, val, unused, live, node, cursor, wanted,
                      items, overlap, removed, fault>>
      BY <1>11, <2>2 DEF Walk
    <3> QED BY <1>0, <3>2, <3>3
  <2>3. CASE cursor[t] # NULL /\ cursor[t] \notin live
    BY <1>0, <1>11, <2>3 DEF Walk
  <2>4. CASE cursor[t] # NULL /\ cursor[t] \in live /\ count[t] = 0
    <3>1. /\ pc' \in [Threads -> Labels] /\ node' \in [Threads -> Pointers]
          /\ cursor' \in [Threads -> Pointers]
      BY <1>0, <1>11, <2>4 DEF Walk
    <3>2. UNCHANGED <<use, head, tail, len, prev, next, val, unused, live, mutex, count, wanted,
                      items, overlap, removed, fault>>
      BY <1>11, <2>4 DEF Walk
    <3> QED BY <1>0, <3>1, <3>2
  <2>5. CASE cursor[t] # NULL /\ cursor[t] \in live /\ count[t] # 0
    <3>1. next[cursor[t]] \in Pointers
      BY <1>0, <2>5
    <3>2. cursor' = [cursor EXCEPT ![t] = next[cursor[t]]] /\ count' = [count EXCEPT ![t] = count[t] - 1]
      BY <1>11, <2>5 DEF Walk
    <3>3. cursor' \in [Threads -> Pointers] /\ count' \in [Threads -> 0..UnsignedMax]
      BY <1>0, <2>1, <2>5, <3>1, <3>2
    <3> QED BY <1>0, <1>11, <2>5, <3>3 DEF Walk
  <2> QED BY <2>2, <2>3, <2>4, <2>5
<1>12. CASE UseNode(t)
  BY <1>0, <1>12 DEF UseNode
<1>13. CASE BeginRemove(t)
  BY <1>0, <1>13 DEF BeginRemove, Enter, Lock
<1>14. CASE Find(t)
  <2>1. CASE cursor[t] = NULL
    <3>1. /\ pc' = [pc EXCEPT ![t] = "idle"] /\ wanted' = [wanted EXCEPT ![t] = NULL]
          /\ UNCHANGED mutex \/ mutex' = Nobody
      BY <1>14, <2>1, Zenon DEF Find
    <3>2. /\ pc' \in [Threads -> Labels] /\ wanted' \in [Threads -> Vals \cup {NULL}]
          /\ mutex' \in Threads \cup {Nobody}
      <4>1. pc' \in [Threads -> Labels]
        BY <1>0, <3>1
      <4>2. wanted' \in [Threads -> Vals \cup {NULL}]
        BY <1>0, <3>1
      <4>3. mutex' \in Threads \cup {Nobody}
        BY <1>0, <3>1
      <4> QED BY <4>1, <4>2, <4>3
    <3>3. UNCHANGED <<use, head, tail, len, prev, next, val, unused, live, node, cursor, count,
                      items, overlap, removed, fault>>
      BY <1>14, <2>1 DEF Find
    <3> QED BY <1>0, <3>2, <3>3
  <2>2. CASE cursor[t] # NULL /\ cursor[t] \notin live
    BY <1>0, <1>14, <2>2 DEF Find
  <2>3. CASE cursor[t] # NULL /\ cursor[t] \in live /\ val[cursor[t]] = wanted[t]
    <3>1. /\ node' \in [Threads -> Pointers] /\ cursor' \in [Threads -> Pointers]
          /\ wanted' \in [Threads -> Vals \cup {NULL}] /\ pc' \in [Threads -> Labels]
      BY <1>0, <1>14, <2>3 DEF Find
    <3>2. UNCHANGED <<use, head, tail, len, prev, next, val, unused, live, mutex, count,
                      items, overlap, removed, fault>>
      BY <1>14, <2>3 DEF Find
    <3> QED BY <1>0, <3>1, <3>2
  <2>4. CASE cursor[t] # NULL /\ cursor[t] \in live /\ val[cursor[t]] # wanted[t]
    <3>1. next[cursor[t]] \in Pointers
      BY <1>0, <2>4
    <3>2. cursor' = [cursor EXCEPT ![t] = next[cursor[t]]]
      BY <1>14, <2>4 DEF Find
    <3>3. cursor' \in [Threads -> Pointers]
      BY <1>0, <3>1, <3>2
    <3>4. UNCHANGED <<use, head, tail, len, prev, next, val, unused, live, mutex, pc, node, count,
                      wanted, items, overlap, removed, fault>>
      BY <1>14, <2>4 DEF Find
    <3> QED BY <1>0, <3>3, <3>4
  <2> QED BY <2>1, <2>2, <2>3, <2>4
<1>15. CASE UnlinkPrev(t)
  <2>1. node[t] \in Nodes /\ next[node[t]] \in Pointers /\ prev[node[t]] \in Pointers
    BY <1>0, <1>15 DEF UnlinkPrev, Removing
  <2>2. CASE prev[node[t]] = NULL
    BY <1>0, <1>15, <2>1, <2>2 DEF UnlinkPrev
  <2>3. CASE prev[node[t]] # NULL /\ prev[node[t]] \notin live
    BY <1>0, <1>15, <2>3 DEF UnlinkPrev
  <2>4. CASE prev[node[t]] # NULL /\ prev[node[t]] \in live
    <3>1. next' = [next EXCEPT ![prev[node[t]]] = next[node[t]]]
      BY <1>15, <2>4 DEF UnlinkPrev
    <3>2. next' \in [Nodes -> Pointers]
      BY <1>0, <2>1, <3>1
    <3> QED BY <1>0, <1>15, <2>4, <3>2 DEF UnlinkPrev
  <2> QED BY <2>2, <2>3, <2>4
<1>16. CASE UnlinkNext(t)
  <2>1. node[t] \in Nodes /\ next[node[t]] \in Pointers /\ prev[node[t]] \in Pointers
    BY <1>0, <1>16 DEF UnlinkNext, Removing
  <2>2. CASE next[node[t]] = NULL
    BY <1>0, <1>16, <2>1, <2>2 DEF UnlinkNext
  <2>3. CASE next[node[t]] # NULL /\ next[node[t]] \notin live
    BY <1>0, <1>16, <2>3 DEF UnlinkNext
  <2>4. CASE next[node[t]] # NULL /\ next[node[t]] \in live
    <3>1. prev' = [prev EXCEPT ![next[node[t]]] = prev[node[t]]]
      BY <1>16, <2>4 DEF UnlinkNext
    <3>2. prev' \in [Nodes -> Pointers]
      BY <1>0, <2>1, <3>1
    <3> QED BY <1>0, <1>16, <2>4, <3>2 DEF UnlinkNext
  <2> QED BY <2>2, <2>3, <2>4
<1>17. CASE FreeNode(t)
  BY <1>0, <1>17 DEF FreeNode
<1>18. CASE WriteLenBack(t)
  <2>1. items' \in Seq(Nodes)
    BY <1>0, <1>18, WithoutType DEF WriteLenBack
  <2>2. len' \in 0..UnsignedMax /\ 0 \in 0..UnsignedMax
    BY <1>0, <1>18, Wraps DEF WriteLenBack
  <2> QED BY <1>0, <1>18, <2>1, <2>2 DEF WriteLenBack
<1>19. CASE RPop(t)
  <2>1. items' \in Seq(Nodes)
    BY <1>0, <1>19, WithoutType DEF RPop
  <2>2. tail \in Nodes /\ len # 0
    BY <1>19, RPopFacts
  <2>3. len' \in 0..UnsignedMax
    BY <1>0, <1>19, <2>2, Wraps DEF RPop
  <2> QED BY <1>0, <1>19, <2>1, <2>2, <2>3 DEF RPop
<1>20. CASE Destroy(t)
  <2>1. 0 \in 0..UnsignedMax /\ <<>> \in Seq(Nodes)
    BY Wraps
  <2> QED BY <1>0, <1>20, <2>1 DEF Destroy
<1>21. CASE NewIterator(t)
  BY <1>0, <1>21 DEF NewIterator
<1> QED
  BY <1>1, <1>2, <1>3, <1>4, <1>5, <1>6, <1>7, <1>8, <1>9, <1>10, <1>11, <1>12, <1>13, <1>14,
     <1>15, <1>16, <1>17, <1>18, <1>19, <1>20, <1>21, <1>22 DEF Step, list_rpush, list_at, list_remove

\* A thread that works on a node has one, also after a step.
LEMMA HoldingStep ==
  ASSUME TypeOK, Holding, NEW t \in Threads, Step(t)
  PROVE  Holding'
<1> SUFFICES pc'[t] \in Pushing \cup Removing \cup {"use"} => node'[t] \in Nodes
  BY OneThread DEF Holding
<1> USE DEF TypeOK, Holding, Goto, At, Return, Access, Pushing, Removing, listVars, heapVars, localVars, ghostVars
<1>1. CASE list_rpush(t)
  BY <1>1 DEF list_rpush, BeginPush, TestLen, SetPrev, ReadTail, LinkLast, SetTail, SetFirst, SetHead,
              ClearNext, ClearPrev, ReadLen, WriteLen, Enter
<1>2. CASE list_at(t)
  BY <1>2 DEF list_at, BeginAt, CheckIndex, NewIterator, Walk, UseNode, Enter
<1>3. CASE list_remove(t)
  BY <1>3 DEF list_remove, BeginRemove, Find, UnlinkPrev, UnlinkNext, FreeNode, WriteLenBack, Enter
<1>4. CASE RPop(t) \/ Destroy(t)
  BY <1>4 DEF RPop, Destroy
<1> QED BY <1>1, <1>2, <1>3, <1>4 DEF Step

\* A thread that begins locks the mutex, or is counted as an overlap.
LEMMA ExclusiveStep ==
  ASSUME TypeOK, Exclusive, NEW t \in Threads, Step(t)
  PROVE  Exclusive'
<1> USE ListAssumption DEF TypeOK, Busy, Reading, Goto, At, Return, Unlock, Access,
        listVars, heapVars, localVars, ghostVars
<1>1. ASSUME NEW label \in Labels \ {"idle", "destroyed"}, Enter(t, label), use' = use,
             Lock(t) \/ (use = "peers" /\ UNCHANGED mutex)
      PROVE  Exclusive'
  <2>1. pc[t] = "idle" /\ pc'[t] = label /\ \A u \in Threads \ {t} : pc'[u] = pc[u]
    BY <1>1 DEF Enter
  <2>2. CASE use = "guarded"
    <3>1. mutex = Nobody /\ mutex' = t /\ \A u \in Threads : pc[u] \in {"idle", "destroyed"}
      BY <1>1, <2>2 DEF Lock, Exclusive
    <3>2. ~ overlap'
      BY <1>1, <2>2, <3>1 DEF Enter, Exclusive
    <3> QED BY <1>1, <2>1, <3>1, <3>2 DEF Exclusive
  <2>3. CASE use = "peers"
    <3>1. SUFFICES ASSUME ~ overlap', NEW u \in Threads, NEW v \in Threads, u # v, Busy(u)', Busy(v)'
                   PROVE  pc'[u] \in Reading /\ pc'[v] \in Reading
      BY <1>1, <2>3 DEF Exclusive
    <3>2. ~ overlap /\ \A w \in Threads : Busy(w) => pc[w] \in Reading /\ label \in Reading
      BY <1>1, <3>1 DEF Enter
    <3> QED BY <2>1, <3>1, <3>2
  <2> QED BY <2>2, <2>3
<1>2. ASSUME Busy(t), use' = use, overlap' = overlap, Unlock(t), pc'[t] = "idle" PROVE Exclusive'
  <2>1. ~ Busy(t)' /\ \A u \in Threads \ {t} : pc'[u] = pc[u]
    BY <1>2, OneThread
  <2>2. CASE use = "guarded"
    <3>1. mutex' = Nobody /\ ~ overlap'
      BY <1>2, <2>2 DEF Exclusive
    <3>2. \A u \in Threads : ~ Busy(u)'
      BY <1>2, <2>1, <2>2 DEF Exclusive
    <3> QED BY <3>1, <3>2 DEF Exclusive
  <2>3. CASE use = "peers"
    BY <1>2, <2>1, <2>3 DEF Exclusive
  <2> QED BY <2>2, <2>3
<1>3. ASSUME Busy(t), use' = use, overlap' = overlap, UNCHANGED mutex, Busy(t)',
             pc[t] \in Reading => pc'[t] \in Reading
      PROVE  Exclusive'
  BY <1>3, OneThread DEF Exclusive
<1>4. CASE BeginPush(t) \/ BeginAt(t) \/ BeginRemove(t)
  <2>1. CASE BeginPush(t)
    BY <1>1, <2>1 DEF BeginPush, Labels
  <2>2. CASE BeginAt(t)
    BY <1>1, <2>2 DEF BeginAt, Labels
  <2>3. CASE BeginRemove(t)
    BY <1>1, <2>3 DEF BeginRemove, Labels
  <2> QED BY <1>4, <2>1, <2>2, <2>3
<1>5. CASE \/ TestLen(t) \/ SetPrev(t) \/ ReadTail(t) \/ LinkLast(t) \/ SetTail(t) \/ SetFirst(t)
           \/ SetHead(t) \/ ClearNext(t) \/ ClearPrev(t) \/ ReadLen(t) \/ NewIterator(t)
  BY <1>3, <1>5 DEF TestLen, SetPrev, ReadTail, LinkLast, SetTail, SetFirst, SetHead, ClearNext,
                    ClearPrev, ReadLen, NewIterator
<1>6. CASE WriteLen(t) \/ WriteLenBack(t)
  BY <1>2, <1>6 DEF WriteLen, WriteLenBack
<1>7. CASE CheckIndex(t)
  BY <1>2, <1>3, <1>7 DEF CheckIndex
<1>8. CASE Walk(t)
  BY <1>2, <1>3, <1>8 DEF Walk
<1>9. CASE UseNode(t)
  BY <1>2, <1>3, <1>9 DEF UseNode
<1>10. CASE Find(t)
  BY <1>2, <1>3, <1>10 DEF Find
<1>11. CASE UnlinkPrev(t) \/ UnlinkNext(t) \/ FreeNode(t)
  BY <1>3, <1>11 DEF UnlinkPrev, UnlinkNext, FreeNode
<1>12. CASE RPop(t)
  BY <1>12 DEF RPop, Exclusive
<1>13. CASE Destroy(t)
  BY <1>13 DEF Destroy, Exclusive
<1> QED
  BY <1>4, <1>5, <1>6, <1>7, <1>8, <1>9, <1>10, <1>11, <1>12, <1>13
  DEF Step, list_rpush, list_at, list_remove

\* A node that is allocated was never allocated before.
LEMMA FreshStep ==
  ASSUME TypeOK, Fresh, NEW t \in Threads, Step(t)
  PROVE  Fresh'
<1> USE DEF Fresh, Access, heapVars
<1>1. CASE list_rpush(t)
  BY <1>1 DEF list_rpush, BeginPush, TestLen, SetPrev, ReadTail, LinkLast, SetTail, SetFirst, SetHead,
              ClearNext, ClearPrev, ReadLen, WriteLen
<1>2. CASE list_at(t)
  BY <1>2 DEF list_at, BeginAt, CheckIndex, NewIterator, Walk, UseNode
<1>3. CASE list_remove(t)
  BY <1>3 DEF list_remove, BeginRemove, Find, UnlinkPrev, UnlinkNext, FreeNode, WriteLenBack
<1>4. CASE RPop(t) \/ Destroy(t)
  BY <1>4 DEF RPop, Destroy
<1> QED BY <1>1, <1>2, <1>3, <1>4 DEF Step
-----------------------------------------------------------------------------
(* list_rpush *)

\* What the pointers of a list say of its ends and of a node in it.
LEMMA ListFacts ==
  ASSUME TypeOK, Whole(items)
  PROVE  /\ items \in Seq(Nodes) /\ Len(items) \in Nat
         /\ ItemsOf(items) \subseteq Nodes /\ NULL \notin ItemsOf(items)
         /\ head \in ItemsOf(items) \cup {NULL} /\ tail \in ItemsOf(items) \cup {NULL}
         /\ \A n \in ItemsOf(items) : next[n] \in ItemsOf(items) \cup {NULL}
         /\ items # <<>> <=> Len(items) # 0
         /\ items # <<>> => tail \in ItemsOf(items) /\ tail = items[Len(items)] /\ Len(items) \in 1..Len(items)
<1>1. /\ items \in Seq(Nodes) /\ Len(items) \in Nat /\ \A i \in 1..Len(items) : items[i] \in Nodes
      /\ items # <<>> <=> Len(items) # 0
  BY DEF TypeOK
<1>2. ItemsOf(items) \subseteq Nodes /\ NULL \notin ItemsOf(items)
  BY <1>1, ListAssumption DEF ItemsOf
<1>3. \A i : Link(items, i) \in ItemsOf(items) \cup {NULL}
  BY DEF Link, ItemsOf
<1>4. \A n \in ItemsOf(items) : next[n] \in ItemsOf(items) \cup {NULL}
  BY <1>3 DEF Whole, Forward, ItemsOf
<1>5. head \in ItemsOf(items) \cup {NULL} /\ tail \in ItemsOf(items) \cup {NULL}
  BY <1>3 DEF Whole, Forward, Backward
<1>6. ASSUME items # <<>>
      PROVE  tail \in ItemsOf(items) /\ tail = items[Len(items)] /\ Len(items) \in 1..Len(items)
  <2>1. Len(items) \in 1..Len(items)
    BY <1>1, <1>6
  <2> QED BY <2>1 DEF Whole, Backward, Link, ItemsOf
<1> QED BY <1>1, <1>2, <1>4, <1>5, <1>6

\* A new node at the end of a list of distinct nodes.
LEMMA LongerDistinct ==
  ASSUME NEW s \in Seq(Nodes), Distinct(s), NEW n \in Nodes, n \notin ItemsOf(s)
  PROVE  Distinct(Append(s, n))
<1> DEFINE z == Append(s, n)
<1>1. /\ Len(s) \in Nat /\ Len(z) = Len(s) + 1
      /\ \A i \in 1..Len(s) : z[i] = s[i] /\ s[i] # n
      /\ z[Len(s) + 1] = n
      /\ \A i \in 1..Len(z) : i \in 1..Len(s) \/ i = Len(s) + 1
  BY Longer DEF ItemsOf
<1> HIDE DEF z
<1>2. \A i, j \in 1..Len(z) : z[i] = z[j] => i = j
  BY <1>1 DEF Distinct
<1> QED BY <1>2 DEF Distinct, z

\* The shape of the list, step by step of a push: list_node_new,
LEMMA BeginPushShape ==
  ASSUME ListInv, Shape, NEW t \in Threads, BeginPush(t), ~ overlap'
  PROVE  Shape'
<1>1. /\ \A u \in Threads : pc[u] = "idle"
      /\ pc' = [pc EXCEPT ![t] = "test"] /\ pc \in [Threads -> Labels] /\ node \in [Threads -> Pointers]
  BY NobodyElse DEF BeginPush, Enter, Goto, Reading, ListInv, TypeOK
<1>2. Whole(items) /\ len = Len(items) /\ live = ItemsOf(items) /\ Distinct(items) /\ fault = "none"
  BY <1>1 DEF Shape, Pushing, Removing
<1>3. PICK n \in unused : /\ live' = live \cup {n} /\ node' = [node EXCEPT ![t] = n]
                          /\ prev' = [prev EXCEPT ![n] = NULL] /\ next' = [next EXCEPT ![n] = NULL]
  BY DEF BeginPush
<1>4. UNCHANGED <<head, tail, len, items, fault>> /\ n \notin live
  BY <1>3 DEF BeginPush, ListInv, Fresh
<1>5. pc'[t] = "test" /\ node'[t] = n /\ \A u \in Threads \ {t} : pc'[u] = "idle"
  BY <1>1, <1>3
<1>6. Whole(items)' /\ next'[n] = NULL
  <2>1. \A i \in 1..Len(items) : items[i] \in Nodes /\ items[i] # n
    BY <1>2, <1>4 DEF ItemsOf, ListInv, TypeOK
  <2>2. \A i \in 1..Len(items) : next'[items[i]] = next[items[i]] /\ prev'[items[i]] = prev[items[i]]
    BY <1>3, <2>1 DEF ListInv, TypeOK
  <2>3. next'[n] = NULL
    BY <1>3 DEF ListInv, TypeOK
  <2> QED BY <1>2, <1>4, <2>2, <2>3 DEF Whole, Forward, Backward, Back
<1>7. PushShape(t)'
  BY <1>2, <1>3, <1>4, <1>5, <1>6 DEF PushShape
<1>8. \A u \in Threads : PushShape(u)' /\ RemoveShape(u)' /\ ReadShape(u)'
  BY <1>5, <1>7 DEF PushShape, RemoveShape, ReadShape, Pushing, Removing
<1> QED BY <1>2, <1>4, <1>5, <1>8 DEF Shape, Pushing

\* the test whether the list is empty,
LEMMA TestLenShape ==
  ASSUME ListInv, Shape, NEW t \in Threads, TestLen(t), ~ overlap'
  PROVE  Shape'
<1>1. /\ pc[t] = "test" /\ Busy(t) /\ pc \in [Threads -> Labels] /\ TypeOK /\ Exclusive /\ ~ overlap
      /\ UNCHANGED <<head, tail, len, prev, next, live, node, items, fault>>
      /\ pc'[t] = IF len # 0 THEN "prev" ELSE "first"
  BY DEF TestLen, At, Goto, Busy, ListInv, TypeOK, listVars, heapVars, localVars, ghostVars
<1>2. PushShape(t) /\ Distinct(items) /\ fault = "none"
  BY DEF Shape
<1>3. Whole(items) /\ len = Len(items)
  BY <1>1, <1>2 DEF PushShape, Pushing
<1>4. items # <<>> <=> len # 0
  BY <1>1, <1>3, ListFacts
<1>5. Whole(items)'
  BY <1>1, <1>3 DEF Whole, Forward, Backward, Back
<1>6. PushShape(t)'
  BY <1>1, <1>2, <1>4, <1>5 DEF PushShape, Pushing
<1>7. RemoveShape(t)' /\ ReadShape(t)' /\ pc'[t] \in Pushing
  BY <1>1 DEF RemoveShape, ReadShape, Pushing, Removing
<1>8. Step(t)
  BY DEF Step, list_rpush
<1> QED BY <1>1, <1>2, <1>6, <1>7, <1>8, OneWriter DEF Reading

\* the pointers of the new node,
LEMMA SetPrevShape ==
  ASSUME ListInv, Shape, NEW t \in Threads, SetPrev(t), ~ overlap'
  PROVE  Shape'
<1> DEFINE n == node[t]
<1>1. /\ pc[t] = "prev" /\ pc'[t] = "link" /\ Busy(t) /\ TypeOK /\ Exclusive /\ ~ overlap /\ n \in Nodes
      /\ UNCHANGED <<head, tail, len, live, node, items, fault>>
      /\ prev' = [prev EXCEPT ![n] = tail] /\ next' = [next EXCEPT ![n] = NULL]
      /\ prev \in [Nodes -> Pointers] /\ next \in [Nodes -> Pointers]
  BY DEF SetPrev, At, Goto, Busy, ListInv, TypeOK, Holding, Pushing, heapVars, localVars, ghostVars
<1>2. PushShape(t) /\ Distinct(items) /\ fault = "none"
  BY DEF Shape
<1>3. Whole(items) /\ n \notin ItemsOf(items)
  BY <1>1, <1>2 DEF PushShape, Pushing
<1>4. \A i \in 1..Len(items) : items[i] \in Nodes /\ items[i] # n
  BY <1>3, ListFacts, <1>1 DEF ItemsOf
<1>5. \A i \in 1..Len(items) : next'[items[i]] = next[items[i]] /\ prev'[items[i]] = prev[items[i]]
  BY <1>1, <1>4
<1>6. Whole(items)'
  BY <1>1, <1>3, <1>5 DEF Whole, Forward, Backward, Back
<1>7. prev'[n] = tail /\ next'[n] = NULL
  BY <1>1
<1>8. PushShape(t)'
  BY <1>1, <1>2, <1>6, <1>7 DEF PushShape, Pushing
<1>9. RemoveShape(t)' /\ ReadShape(t)' /\ pc'[t] \in Pushing
  BY <1>1 DEF RemoveShape, ReadShape, Pushing, Removing
<1>10. Step(t)
  BY DEF Step, list_rpush
<1> QED BY <1>1, <1>2, <1>8, <1>9, <1>10, OneWriter DEF Reading

\* the tail, read,
LEMMA ReadTailShape ==
  ASSUME ListInv, Shape, NEW t \in Threads, ReadTail(t), ~ overlap'
  PROVE  Shape'
<1>1. /\ pc[t] = "link" /\ pc'[t] = "attach" /\ Busy(t) /\ TypeOK /\ Exclusive /\ ~ overlap
      /\ UNCHANGED <<head, tail, len, prev, next, live, node, items, fault>> /\ cursor'[t] = tail
      /\ Step(t)
  BY DEF ReadTail, At, Goto, Busy, ListInv, TypeOK, listVars, heapVars, ghostVars, Step, list_rpush
<1>2. PushShape(t) /\ Distinct(items) /\ fault = "none"
  BY DEF Shape
<1>3. Whole(items)'
  BY <1>1, <1>2 DEF PushShape, Pushing, Whole, Forward, Backward, Back
<1>4. PushShape(t)'
  BY <1>1, <1>2, <1>3 DEF PushShape, Pushing
<1>5. RemoveShape(t)' /\ ReadShape(t)' /\ pc'[t] \in Pushing
  BY <1>1 DEF RemoveShape, ReadShape, Pushing, Removing
<1> QED BY <1>1, <1>2, <1>4, <1>5, OneWriter DEF Reading

\* the pointer of the last node to it,
LEMMA LinkLastShape ==
  ASSUME ListInv, Shape, NEW t \in Threads, LinkLast(t), ~ overlap'
  PROVE  Shape'
<1> DEFINE n == node[t]
           s == items
           z == Append(s, n)
<1>1. /\ pc[t] = "attach" /\ Busy(t) /\ TypeOK /\ Exclusive /\ n \in Nodes
      /\ prev \in [Nodes -> Pointers] /\ next \in [Nodes -> Pointers] /\ pc \in [Threads -> Labels]
      /\ Step(t)
  BY DEF LinkLast, At, Busy, ListInv, TypeOK, Holding, Pushing, Step, list_rpush
<1>2. PushShape(t) /\ Distinct(s) /\ fault = "none"
  BY DEF Shape
<1>3. /\ Whole(s) /\ s # <<>> /\ n \notin ItemsOf(s) /\ prev[n] = tail /\ next[n] = NULL
      /\ cursor[t] = tail /\ live = ItemsOf(s) \cup {n} /\ len = Len(s)
  BY <1>1, <1>2 DEF PushShape, Pushing
<1>4. /\ s \in Seq(Nodes) /\ Len(s) \in Nat /\ tail \in ItemsOf(s) /\ tail = s[Len(s)]
      /\ Len(s) \in 1..Len(s) /\ NULL \notin ItemsOf(s)
  BY <1>1, <1>3, ListFacts
<1>5. /\ next' = [next EXCEPT ![tail] = n] /\ pc'[t] = "tail"
      /\ UNCHANGED <<head, tail, len, prev, live, node, items, fault, overlap>>
  BY <1>1, <1>3, <1>4 DEF LinkLast, Access, Goto, heapVars, ghostVars
<1>6. /\ Len(z) = Len(s) + 1 /\ z[Len(s) + 1] = n
      /\ \A i \in 1..Len(s) : z[i] = s[i] /\ s[i] \in Nodes /\ s[i] # n
      /\ \A i \in 1..(Len(s) + 1) : i \in 1..Len(s) \/ i = Len(s) + 1
  BY <1>1, <1>3, <1>4, Longer DEF ItemsOf
<1> HIDE DEF z, s
<1>7. /\ \A i \in 1..Len(s) : next[s[i]] = Link(s, i + 1) /\ prev[s[i]] = Link(s, i - 1)
      /\ head = Link(s, 1) /\ tail = s[Len(s)]
  BY <1>3, <1>4 DEF Whole, Forward, Backward, Back
<1>8. ASSUME NEW i \in 1..Len(z) PROVE next'[z[i]] = Link(z, i + 1)
  <2>1. CASE i = Len(s) + 1
    <3>1. next'[n] = NULL
      BY <1>1, <1>3, <1>5, <1>6, <1>7, <1>4
    <3>2. Link(z, i + 1) = NULL
      BY <1>4, <1>6, <2>1 DEF Link
    <3> QED BY <1>6, <2>1, <3>1, <3>2
  <2>2. CASE i = Len(s)
    <3>1. next'[tail] = n
      BY <1>1, <1>4, <1>5, <1>6
    <3>2. Link(z, i + 1) = n
      BY <1>4, <1>6, <2>2 DEF Link
    <3> QED BY <1>4, <1>6, <2>2, <3>1, <3>2
  <2>3. CASE i \in 1..Len(s) /\ i # Len(s)
    <3>1. s[i] # s[Len(s)]
      BY <1>2, <1>4, <2>3 DEF Distinct
    <3>2. next'[s[i]] = Link(s, i + 1)
      BY <1>1, <1>5, <1>6, <1>7, <2>3, <3>1
    <3>3. i + 1 \in 1..Len(s) /\ i + 1 \in 1..Len(z)
      BY <1>4, <1>6, <2>3
    <3> QED BY <1>6, <2>3, <3>2, <3>3 DEF Link
  <2> QED BY <1>4, <1>6, <2>1, <2>2, <2>3
<1>9. ASSUME NEW i \in 1..Len(z) PROVE prev'[z[i]] = Link(z, i - 1)
  <2>1. CASE i = Len(s) + 1
    <3>1. Link(z, i - 1) = s[Len(s)]
      BY <1>4, <1>6, <2>1 DEF Link
    <3> QED BY <1>3, <1>5, <1>6, <1>7, <2>1, <3>1
  <2>2. CASE i \in 1..Len(s)
    <3>1. Link(z, i - 1) = Link(s, i - 1)
      <4>1. i - 1 \in 1..Len(z) <=> i - 1 \in 1..Len(s)
        BY <1>4, <1>6, <2>2
      <4> QED BY <1>6, <4>1 DEF Link
    <3> QED BY <1>5, <1>6, <1>7, <2>2, <3>1
  <2> QED BY <1>4, <1>6, <2>1, <2>2
<1>10. head' = Link(z, 1)
  <2>1. 1 \in 1..Len(s) /\ 1 \in 1..Len(z)
    BY <1>4, <1>6
  <2> QED BY <1>5, <1>6, <1>7, <2>1 DEF Link
<1>11. Forward(Append(items, node[t]))' /\ Back(Append(items, node[t]))'
  <2>1. Append(items', node'[t]) = z
    BY <1>5 DEF z, s
  <2> QED BY <1>8, <1>9, <1>10, <2>1 DEF Forward, Back
<1>12. PushShape(t)'
  BY <1>3, <1>5, <1>11 DEF PushShape, s
<1>13. RemoveShape(t)' /\ ReadShape(t)' /\ pc'[t] \in Pushing
  BY <1>5 DEF RemoveShape, ReadShape, Pushing, Removing
<1>14. Distinct(items)' /\ fault' = "none" /\ ~ overlap
  BY <1>2, <1>5 DEF Distinct, s
<1> QED BY <1>1, <1>12, <1>13, <1>14, OneWriter DEF Reading

\* the tail,
LEMMA SetTailShape ==
  ASSUME ListInv, Shape, NEW t \in Threads, SetTail(t), ~ overlap'
  PROVE  Shape'
<1> DEFINE n == node[t]
           z == Append(items, n)
<1>1. /\ pc[t] = "tail" /\ pc'[t] = "count" /\ Busy(t) /\ TypeOK /\ Exclusive /\ ~ overlap /\ n \in Nodes
      /\ UNCHANGED <<head, len, prev, next, live, node, items, fault>> /\ tail' = n
      /\ Step(t)
  BY DEF SetTail, At, Goto, Busy, ListInv, TypeOK, Holding, Pushing, heapVars, localVars, ghostVars,
         Step, list_rpush
<1>2. PushShape(t) /\ Distinct(items) /\ fault = "none"
  BY DEF Shape
<1>3. Forward(z) /\ Back(z)
  BY <1>1, <1>2 DEF PushShape, Pushing
<1>4. Link(z, Len(z)) = n
  <2>1. Len(z) \in 1..Len(z) /\ z[Len(z)] = n
    BY <1>1, Longer DEF TypeOK
  <2> QED BY <2>1 DEF Link
<1>5. Whole(Append(items, node[t]))'
  BY <1>1, <1>3, <1>4 DEF Whole, Forward, Backward, Back
<1>6. PushShape(t)'
  BY <1>1, <1>2, <1>5 DEF PushShape, Pushing
<1>7. RemoveShape(t)' /\ ReadShape(t)' /\ pc'[t] \in Pushing
  BY <1>1 DEF RemoveShape, ReadShape, Pushing, Removing
<1> QED BY <1>1, <1>2, <1>6, <1>7, OneWriter DEF Reading

\* the tail of an empty list,
LEMMA SetFirstShape ==
  ASSUME ListInv, Shape, NEW t \in Threads, SetFirst(t), ~ overlap'
  PROVE  Shape'
<1>1. /\ pc[t] = "first" /\ pc'[t] = "head" /\ Busy(t) /\ TypeOK /\ Exclusive /\ ~ overlap
      /\ UNCHANGED <<head, len, prev, next, live, node, items, fault>> /\ tail' = node[t]
      /\ Step(t)
  BY DEF SetFirst, At, Goto, Busy, ListInv, TypeOK, heapVars, localVars, ghostVars, Step, list_rpush
<1>2. PushShape(t) /\ Distinct(items) /\ fault = "none"
  BY DEF Shape
<1>3. items = <<>> /\ Whole(items)
  BY <1>1, <1>2 DEF PushShape, Pushing
<1>4. head = NULL
  BY <1>3 DEF Whole, Forward, Link
<1>5. PushShape(t)'
  BY <1>1, <1>2, <1>4 DEF PushShape, Pushing
<1>6. RemoveShape(t)' /\ ReadShape(t)' /\ pc'[t] \in Pushing
  BY <1>1 DEF RemoveShape, ReadShape, Pushing, Removing
<1> QED BY <1>1, <1>2, <1>5, <1>6, OneWriter DEF Reading

\* its head,
LEMMA SetHeadShape ==
  ASSUME ListInv, Shape, NEW t \in Threads, SetHead(t), ~ overlap'
  PROVE  Shape'
<1>1. /\ pc[t] = "head" /\ pc'[t] = "next" /\ Busy(t) /\ TypeOK /\ Exclusive /\ ~ overlap
      /\ UNCHANGED <<tail, len, prev, next, live, node, items, fault>> /\ head' = node[t]
      /\ Step(t)
  BY DEF SetHead, At, Goto, Busy, ListInv, TypeOK, heapVars, localVars, ghostVars, Step, list_rpush
<1>2. PushShape(t) /\ Distinct(items) /\ fault = "none"
  BY DEF Shape
<1>3. PushShape(t)'
  BY <1>1, <1>2 DEF PushShape, Pushing
<1>4. RemoveShape(t)' /\ ReadShape(t)' /\ pc'[t] \in Pushing
  BY <1>1 DEF RemoveShape, ReadShape, Pushing, Removing
<1> QED BY <1>1, <1>2, <1>3, <1>4, OneWriter DEF Reading

\* the next pointer of its only node,
LEMMA ClearNextShape ==
  ASSUME ListInv, Shape, NEW t \in Threads, ClearNext(t), ~ overlap'
  PROVE  Shape'
<1>1. /\ pc[t] = "next" /\ Busy(t) /\ TypeOK /\ Exclusive /\ node[t] \in Nodes
      /\ next \in [Nodes -> Pointers] /\ pc \in [Threads -> Labels]
      /\ Step(t)
  BY DEF ClearNext, At, Busy, ListInv, TypeOK, Holding, Pushing, Step, list_rpush
<1>2. PushShape(t) /\ Distinct(items) /\ fault = "none"
  BY DEF Shape
<1>3. node[t] \in live
  BY <1>1, <1>2 DEF PushShape, Pushing
<1>4. /\ pc'[t] = "back" /\ next' = [next EXCEPT ![node[t]] = NULL] /\ ~ overlap
      /\ UNCHANGED <<head, tail, len, prev, live, node, items, fault>>
  BY <1>1, <1>3 DEF ClearNext, Access, Goto, heapVars, localVars, ghostVars
<1>5. next'[node[t]] = NULL
  BY <1>1, <1>4
<1>6. PushShape(t)'
  BY <1>1, <1>2, <1>4, <1>5 DEF PushShape, Pushing
<1>7. RemoveShape(t)' /\ ReadShape(t)' /\ pc'[t] \in Pushing
  BY <1>4 DEF RemoveShape, ReadShape, Pushing, Removing
<1>8. Distinct(items)' /\ fault' = "none"
  BY <1>2, <1>4
<1> QED BY <1>1, <1>4, <1>6, <1>7, <1>8, OneWriter DEF Reading

\* its prev pointer,
LEMMA ClearPrevShape ==
  ASSUME ListInv, Shape, NEW t \in Threads, ClearPrev(t), ~ overlap'
  PROVE  Shape'
<1> DEFINE n == node[t]
           z == Append(items, n)
<1>1. /\ pc[t] = "back" /\ Busy(t) /\ TypeOK /\ Exclusive /\ n \in Nodes
      /\ prev \in [Nodes -> Pointers] /\ pc \in [Threads -> Labels]
      /\ Step(t)
  BY DEF ClearPrev, At, Busy, ListInv, TypeOK, Holding, Pushing, Step, list_rpush
<1>2. PushShape(t) /\ Distinct(items) /\ fault = "none"
  BY DEF Shape
<1>3. items = <<>> /\ n \in live /\ next[n] = NULL /\ head = n /\ tail = n
  BY <1>1, <1>2 DEF PushShape, Pushing
<1>4. /\ pc'[t] = "count" /\ prev' = [prev EXCEPT ![n] = NULL] /\ ~ overlap
      /\ UNCHANGED <<head, tail, len, next, live, node, items, fault>>
  BY <1>1, <1>3 DEF ClearPrev, Access, Goto, heapVars, localVars, ghostVars
<1>5. Len(z) = 1 /\ z[1] = n /\ \A i \in 1..Len(z) : i = 1
  BY <1>3
<1> HIDE DEF z
<1>6. Link(z, 1) = n /\ Link(z, 2) = NULL /\ Link(z, 0) = NULL
  BY <1>5 DEF Link
<1>7. prev'[n] = NULL /\ next'[n] = NULL
  BY <1>1, <1>3, <1>4
<1>8. Whole(Append(items, node[t]))'
  <2>1. Append(items', node'[t]) = z
    BY <1>4 DEF z
  <2>2. \A i \in 1..Len(z) : next'[z[i]] = Link(z, i + 1) /\ prev'[z[i]] = Link(z, i - 1)
    BY <1>5, <1>6, <1>7
  <2> QED BY <1>3, <1>4, <1>5, <1>6, <2>1, <2>2 DEF Whole, Forward, Backward, Back
<1>9. PushShape(t)'
  BY <1>1, <1>2, <1>4, <1>8 DEF PushShape, Pushing
<1>10. RemoveShape(t)' /\ ReadShape(t)' /\ pc'[t] \in Pushing
  BY <1>4 DEF RemoveShape, ReadShape, Pushing, Removing
<1>11. Distinct(items)' /\ fault' = "none"
  BY <1>2, <1>4
<1> QED BY <1>1, <1>4, <1>9, <1>10, <1>11, OneWriter DEF Reading

\* and ++self->len, read
LEMMA ReadLenShape ==
  ASSUME ListInv, Shape, NEW t \in Threads, ReadLen(t), ~ overlap'
  PROVE  Shape'
<1>1. /\ pc[t] = "count" /\ pc'[t] = "store" /\ Busy(t) /\ TypeOK /\ Exclusive /\ ~ overlap
      /\ UNCHANGED <<head, tail, len, prev, next, live, node, items, fault>> /\ count'[t] = len
      /\ Step(t)
  BY DEF ReadLen, At, Goto, Busy, ListInv, TypeOK, listVars, heapVars, ghostVars, Step, list_rpush
<1>2. PushShape(t) /\ Distinct(items) /\ fault = "none"
  BY DEF Shape
<1>3. Whole(Append(items, node[t]))'
  BY <1>1, <1>2 DEF PushShape, Pushing, Whole, Forward, Backward, Back
<1>4. PushShape(t)'
  BY <1>1, <1>2, <1>3 DEF PushShape, Pushing
<1>5. RemoveShape(t)' /\ ReadShape(t)' /\ pc'[t] \in Pushing
  BY <1>1 DEF RemoveShape, ReadShape, Pushing, Removing
<1> QED BY <1>1, <1>2, <1>4, <1>5, OneWriter DEF Reading

\* and written: the list is one node longer.
LEMMA WriteLenShape ==
  ASSUME ListInv, Shape, NEW t \in Threads, WriteLen(t), ~ overlap'
  PROVE  Shape'
<1> DEFINE n == node[t]
           z == Append(items, n)
<1>1. /\ pc[t] = "store" /\ pc'[t] = "idle" /\ Busy(t) /\ TypeOK /\ Exclusive /\ ~ overlap /\ n \in Nodes
      /\ UNCHANGED <<head, tail, prev, next, live, fault>>
      /\ items' = z /\ len' = (count[t] + 1) % (UnsignedMax + 1)
      /\ Step(t) /\ items \in Seq(Nodes) /\ len \in 0..UnsignedMax
  BY DEF WriteLen, At, Goto, Return, Busy, ListInv, TypeOK, Holding, Pushing, heapVars, Step, list_rpush
<1>2. PushShape(t) /\ Distinct(items) /\ fault = "none"
  BY DEF Shape
<1>3. /\ n \notin ItemsOf(items) /\ live = ItemsOf(items) \cup {n} /\ len = Len(items)
      /\ Whole(z) /\ count[t] = len
  BY <1>1, <1>2 DEF PushShape, Pushing
<1>4. len' = Len(items')
  BY <1>1, <1>2, <1>3, LengthFits, Longer, Wraps
<1>5. live' = ItemsOf(items')
  BY <1>1, <1>3, Longer
<1>6. Distinct(items)' /\ fault' = "none"
  BY <1>1, <1>2, <1>3, LongerDistinct DEF Distinct
<1>7. Whole(items)'
  BY <1>1, <1>3 DEF Whole, Forward, Backward, Back
<1>8. PushShape(t)' /\ RemoveShape(t)' /\ ReadShape(t)'
  BY <1>1 DEF PushShape, RemoveShape, ReadShape, Pushing, Removing
<1> QED BY <1>1, <1>4, <1>5, <1>6, <1>7, <1>8, OneWriter DEF Reading
-----------------------------------------------------------------------------
(* list_at *)

\* A step that only reads, beside other readers.
LEMMA ReaderStep ==
  ASSUME TypeOK, Shape, NEW t \in Threads, Step(t),
         \A u \in Threads : pc[u] \in Reading \cup {"idle", "destroyed"},
         UNCHANGED <<head, tail, len, prev, next, live, items, fault>>,
         pc'[t] \in Reading \cup {"idle"}, ReadShape(t)'
  PROVE  Shape'
<1>1. \A u \in Threads : pc'[u] \in Reading \cup {"idle", "destroyed"}
  BY OneThread
<1>2. \A u \in Threads : pc[u] \notin Pushing \cup Removing /\ pc'[u] \notin Pushing \cup Removing
  BY <1>1 DEF Reading, Pushing, Removing
<1>3. Whole(items) /\ len = Len(items) /\ live = ItemsOf(items) /\ Distinct(items) /\ fault = "none"
  BY <1>2 DEF Shape
<1>4. Whole(items)'
  BY <1>3 DEF Whole, Forward, Backward, Back
<1>5. ASSUME NEW u \in Threads PROVE ReadShape(u)'
  <2>1. CASE u = t
    BY <2>1
  <2>2. CASE u # t
    <3>1. pc'[u] = pc[u] /\ node'[u] = node[u] /\ cursor'[u] = cursor[u] /\ items' = items
      BY <2>2, OneThread
    <3> QED BY <3>1 DEF Shape, ReadShape
  <2> QED BY <2>1, <2>2
<1>6. \A u \in Threads : PushShape(u)' /\ RemoveShape(u)'
  BY <1>2 DEF PushShape, RemoveShape
<1>7. Distinct(items)' /\ fault' = "none" /\ (len = Len(items) /\ live = ItemsOf(items))'
  BY <1>3
<1> QED BY <1>4, <1>5, <1>6, <1>7 DEF Shape

\* list_at begins beside other readers.
LEMMA BeginAtShape ==
  ASSUME ListInv, Shape, NEW t \in Threads, BeginAt(t), ~ overlap'
  PROVE  Shape'
<1>1. /\ TypeOK /\ Exclusive /\ Step(t) /\ pc[t] = "idle" /\ pc'[t] = "at"
      /\ UNCHANGED <<head, tail, len, prev, next, live, items, fault>>
  BY DEF BeginAt, Enter, Goto, ListInv, TypeOK, listVars, heapVars, Step, list_at
<1>2. \A u \in Threads : ~ (Busy(u) /\ {pc[u], "at"} \ Reading # {})
  BY DEF BeginAt, Enter
<1>3. \A u \in Threads : pc[u] \in Reading \cup {"idle", "destroyed"}
  BY <1>2 DEF Busy
<1>4. ReadShape(t)'
  BY <1>1 DEF ReadShape
<1> QED BY <1>1, <1>3, <1>4, ReaderStep DEF Reading

\* Its iterator starts at the head,
LEMMA CheckIndexShape ==
  ASSUME ListInv, Shape, NEW t \in Threads, CheckIndex(t), ~ overlap'
  PROVE  Shape'
<1>1. /\ TypeOK /\ Exclusive /\ Step(t) /\ pc[t] = "at" /\ Busy(t) /\ ~ overlap
      /\ UNCHANGED <<head, tail, len, prev, next, live, items, fault>>
  BY DEF CheckIndex, At, Busy, ListInv, listVars, heapVars, ghostVars, Step, list_at
<1>2. pc'[t] \in {"iterate", "idle"}
  BY DEF CheckIndex, Goto, Return, ListInv, TypeOK
<1>3. \A u \in Threads : pc[u] \in Reading \cup {"idle", "destroyed"}
  BY <1>1, NoWriter DEF Reading
<1>4. ReadShape(t)'
  BY <1>2 DEF ReadShape
<1> QED BY <1>1, <1>2, <1>3, <1>4, ReaderStep DEF Reading

\* starts at the head,
LEMMA NewIteratorShape ==
  ASSUME ListInv, Shape, NEW t \in Threads, NewIterator(t), ~ overlap'
  PROVE  Shape'
<1>1. /\ TypeOK /\ Exclusive /\ Step(t) /\ pc[t] = "iterate" /\ Busy(t) /\ ~ overlap
      /\ UNCHANGED <<head, tail, len, prev, next, live, items, fault>>
  BY DEF NewIterator, At, Busy, ListInv, listVars, heapVars, ghostVars, Step, list_at
<1>2. pc'[t] = "walk" /\ cursor'[t] = head
  BY DEF NewIterator, Goto, ListInv, TypeOK
<1>3. Whole(items) /\ \A u \in Threads : pc[u] \in Reading \cup {"idle", "destroyed"}
  BY <1>1, NoWriter DEF Reading
<1>4. ReadShape(t)'
  <2>1. head \in ItemsOf(items) \cup {NULL}
    BY <1>1, <1>3, ListFacts
  <2> QED BY <1>1, <1>2, <2>1 DEF ReadShape
<1> QED BY <1>1, <1>2, <1>3, <1>4, ReaderStep DEF Reading

\* goes from node to node of the list,
LEMMA WalkShape ==
  ASSUME ListInv, Shape, NEW t \in Threads, Walk(t), ~ overlap'
  PROVE  Shape'
<1>1. /\ TypeOK /\ Exclusive /\ Step(t) /\ pc[t] = "walk" /\ Busy(t)
      /\ pc \in [Threads -> Labels] /\ cursor \in [Threads -> Pointers] /\ node \in [Threads -> Pointers]
  BY DEF Walk, At, Busy, ListInv, TypeOK, Step, list_at
<1>2. ~ overlap
  BY <1>1, OneThread
<1>3. /\ Whole(items) /\ live = ItemsOf(items)
      /\ \A u \in Threads : pc[u] \in Reading \cup {"idle", "destroyed"}
  BY <1>1, <1>2, NoWriter DEF Reading
<1>4. cursor[t] \in ItemsOf(items) \cup {NULL}
  BY <1>1 DEF Shape, ReadShape
<1>5. CASE cursor[t] = NULL
  <2>1. pc'[t] = "idle" /\ UNCHANGED <<head, tail, len, prev, next, live, items, fault>>
    BY <1>1, <1>5 DEF Walk, Return, Goto, listVars, heapVars, ghostVars
  <2>2. ReadShape(t)'
    BY <2>1 DEF ReadShape
  <2> QED BY <1>1, <1>3, <2>1, <2>2, ReaderStep
<1>6. CASE cursor[t] # NULL
  <2>1. cursor[t] \in live /\ cursor[t] \in ItemsOf(items)
    BY <1>3, <1>4, <1>6
  <2>2. /\ UNCHANGED <<head, tail, len, prev, next, live, items, fault>>
        /\ \/ pc'[t] = "use" /\ node'[t] = cursor[t]
           \/ pc'[t] = "walk" /\ cursor'[t] = next[cursor[t]]
    <3>1. UNCHANGED <<head, tail, len, prev, next, live, items, fault>>
      BY <1>6, <2>1 DEF Walk, Access, listVars, heapVars, ghostVars
    <3>2. CASE count[t] = 0
      BY <1>1, <1>6, <2>1, <3>1, <3>2 DEF Walk, Access, Goto
    <3>3. CASE count[t] # 0
      BY <1>1, <1>6, <2>1, <3>1, <3>3 DEF Walk, Access
    <3> QED BY <3>2, <3>3
  <2>3. next[cursor[t]] \in ItemsOf(items) \cup {NULL}
    BY <1>1, <1>3, <2>1, ListFacts
  <2>4. ReadShape(t)' /\ pc'[t] \in Reading
    BY <2>1, <2>2, <2>3 DEF ReadShape, Reading
  <2> QED BY <1>1, <1>3, <2>2, <2>4, ReaderStep
<1> QED BY <1>5, <1>6

\* and the node it ends at is allocated when its value is read.
LEMMA UseNodeShape ==
  ASSUME ListInv, Shape, NEW t \in Threads, UseNode(t), ~ overlap'
  PROVE  Shape'
<1>1. /\ TypeOK /\ Exclusive /\ Step(t) /\ pc[t] = "use" /\ Busy(t) /\ pc \in [Threads -> Labels]
  BY DEF UseNode, At, Busy, ListInv, TypeOK, Step, list_at
<1>2. ~ overlap
  BY <1>1, OneThread
<1>3. live = ItemsOf(items) /\ \A u \in Threads : pc[u] \in Reading \cup {"idle", "destroyed"}
  BY <1>1, <1>2, NoWriter DEF Reading
<1>4. node[t] \in live
  BY <1>1, <1>3 DEF Shape, ReadShape
<1>5. pc'[t] = "idle" /\ UNCHANGED <<head, tail, len, prev, next, live, items, fault>>
  BY <1>1, <1>4 DEF UseNode, Access, Return, Goto, listVars, heapVars, ghostVars
<1>6. ReadShape(t)'
  BY <1>5 DEF ReadShape
<1> QED BY <1>1, <1>3, <1>5, <1>6, ReaderStep

-----------------------------------------------------------------------------
(* list_find and list_remove *)

\* list_find begins alone, at the head.
LEMMA BeginRemoveShape ==
  ASSUME ListInv, Shape, NEW t \in Threads, BeginRemove(t), ~ overlap'
  PROVE  Shape'
<1>1. /\ TypeOK /\ pc' = [pc EXCEPT ![t] = "find"] /\ pc \in [Threads -> Labels]
      /\ cursor'[t] = head
      /\ UNCHANGED <<head, tail, len, prev, next, live, items, fault>>
      /\ \A u \in Threads : pc[u] = "idle"
  BY NobodyElse DEF BeginRemove, Enter, Goto, Reading, ListInv, TypeOK, listVars, heapVars
<1>2. pc'[t] = "find" /\ \A u \in Threads \ {t} : pc'[u] = "idle"
  BY <1>1
<1>3. Whole(items) /\ len = Len(items) /\ live = ItemsOf(items) /\ Distinct(items) /\ fault = "none"
  BY <1>1 DEF Shape, Pushing, Removing
<1>4. head \in ItemsOf(items) \cup {NULL}
  BY <1>1, <1>3, ListFacts
<1>5. ReadShape(t)'
  BY <1>1, <1>2, <1>4 DEF ReadShape
<1>6. \A u \in Threads : PushShape(u)' /\ RemoveShape(u)' /\ ReadShape(u)'
  BY <1>2, <1>5 DEF PushShape, RemoveShape, ReadShape, Pushing, Removing
<1>7. Whole(items)'
  BY <1>1, <1>3 DEF Whole, Forward, Backward, Back
<1> QED BY <1>1, <1>3, <1>6, <1>7 DEF Shape

\* What it finds is a node of the list.
LEMMA FindShape ==
  ASSUME ListInv, Shape, NEW t \in Threads, Find(t), ~ overlap'
  PROVE  Shape'
<1>1. /\ TypeOK /\ Exclusive /\ Step(t) /\ pc[t] = "find" /\ Busy(t) /\ pc[t] \notin Reading
      /\ pc \in [Threads -> Labels] /\ cursor \in [Threads -> Pointers] /\ node \in [Threads -> Pointers]
  BY DEF Find, At, Busy, ListInv, TypeOK, Step, list_remove, Reading
<1>2. ~ overlap
  BY <1>1, OneThread
<1>3. \A u \in Threads : pc[u] \notin Pushing \cup Removing
  BY <1>1, <1>2, OthersOut DEF Pushing, Removing
<1>4. Whole(items) /\ len = Len(items) /\ live = ItemsOf(items) /\ Distinct(items) /\ fault = "none"
  BY <1>3 DEF Shape
<1>5. cursor[t] \in ItemsOf(items) \cup {NULL}
  BY <1>1 DEF Shape, ReadShape
<1>6. ASSUME UNCHANGED <<head, tail, len, prev, next, live, items, fault>>
      PROVE  /\ Whole(items)' /\ (len = Len(items) /\ live = ItemsOf(items))'
             /\ Distinct(items)' /\ fault' = "none"
  BY <1>4, <1>6 DEF Whole, Forward, Backward, Back
<1>7. CASE cursor[t] = NULL
  <2>1. pc'[t] = "idle" /\ UNCHANGED <<head, tail, len, prev, next, live, items, fault>>
    BY <1>1, <1>7 DEF Find, Return, Goto, listVars, heapVars, ghostVars
  <2>2. PushShape(t)' /\ RemoveShape(t)' /\ ReadShape(t)'
    BY <2>1 DEF PushShape, RemoveShape, ReadShape, Pushing, Removing
  <2> QED BY <1>1, <1>2, <1>6, <2>1, <2>2, OneWriter
<1>8. CASE cursor[t] # NULL
  <2>1. cursor[t] \in live /\ cursor[t] \in ItemsOf(items)
    BY <1>4, <1>5, <1>8
  <2>2. UNCHANGED <<head, tail, len, prev, next, live, items, fault>>
    BY <1>8, <2>1 DEF Find, Access, listVars, heapVars, ghostVars
  <2>3. CASE val[cursor[t]] = wanted[t]
    <3>1. pc'[t] = "unlinkPrev" /\ node'[t] = cursor[t]
      BY <1>1, <1>8, <2>1, <2>3 DEF Find, Access, Goto
    <3>2. PushShape(t)' /\ RemoveShape(t)' /\ ReadShape(t)'
      BY <1>4, <1>6, <2>1, <2>2, <3>1 DEF PushShape, RemoveShape, ReadShape, Pushing, Removing
    <3> QED BY <1>1, <1>2, <1>6, <2>2, <3>2, OneWriter
  <2>4. CASE val[cursor[t]] # wanted[t]
    <3>1. pc'[t] = "find" /\ cursor'[t] = next[cursor[t]]
      BY <1>1, <1>8, <2>1, <2>4 DEF Find, Access
    <3>2. next[cursor[t]] \in ItemsOf(items) \cup {NULL}
      BY <1>1, <1>4, <2>1, ListFacts
    <3>3. PushShape(t)' /\ RemoveShape(t)' /\ ReadShape(t)'
      BY <2>2, <3>1, <3>2 DEF PushShape, RemoveShape, ReadShape, Pushing, Removing
    <3> QED BY <1>1, <1>2, <1>6, <2>2, <3>3, OneWriter
  <2> QED BY <2>3, <2>4
<1> QED BY <1>7, <1>8
\* w is what is left of s without its k-th node: its nodes and their neighbours.
Left(s, k, w) ==
  /\ Len(w) = Len(s) - 1 /\ Len(s) \in Nat
  /\ \A i \in 1..(Len(s) - 1) : /\ i < k => w[i] = s[i]
                                /\ ~ (i < k) => w[i] = s[i + 1]
                                /\ i \in 1..Len(s) /\ i + 1 \in 1..Len(s)
  /\ \A i \in 0..Len(s) : /\ i < k => Link(w, i) = Link(s, i)
                          /\ ~ (i < k) => Link(w, i) = Link(s, i + 1)
  /\ \A i, j \in 1..Len(s) : s[i] = s[j] => i = j
  /\ \A i \in 1..Len(s) : s[i] \in Nodes /\ s[i] # NULL /\ Link(s, i) = s[i]
  /\ Link(s, 0) = NULL /\ Link(s, Len(s) + 1) = NULL

\* Taking the k-th node out makes neighbours of those beside it.
LEMMA ShorterLinks ==
  ASSUME NEW s \in Seq(Nodes), Distinct(s), NEW k \in 1..Len(s)
  PROVE  Left(s, k, Without(s, s[k]))
<1> DEFINE w == Without(s, s[k])
<1>1. /\ Len(w) = Len(s) - 1 /\ Len(s) \in Nat /\ k \in Nat /\ 1 <= k /\ k <= Len(s)
      /\ \A i \in 1..(Len(s) - 1) : w[i] = IF i < k THEN s[i] ELSE s[i + 1]
  <2>1. Len(s) \in Nat /\ k \in Nat /\ 1 <= k /\ k <= Len(s)
    OBVIOUS
  <2>2. /\ Len(w) = Len(s) - 1
        /\ \A i \in 1..(Len(s) - 1) : w[i] = IF i < k THEN s[i] ELSE s[i + 1]
    BY Shorter, Zenon
  <2> QED BY <2>1, <2>2
<1>2. \A i \in 1..Len(s) : s[i] \in Nodes
  OBVIOUS
<1> HIDE DEF w
<1>3. \A i \in 1..(Len(s) - 1) : i \in 1..Len(s) /\ i + 1 \in 1..Len(s)
  BY <1>1
<1>4. ASSUME NEW i \in 0..Len(s), i < k PROVE Link(w, i) = Link(s, i)
  <2>1. i \in 1..Len(w) <=> i \in 1..Len(s)
    BY <1>1, <1>4
  <2> QED BY <1>1, <1>4, <2>1 DEF Link
<1>5. ASSUME NEW i \in 0..Len(s), ~ (i < k) PROVE Link(w, i) = Link(s, i + 1)
  <2>1. i \in 1..Len(w) <=> i + 1 \in 1..Len(s)
    BY <1>1, <1>5
  <2> QED BY <1>1, <1>5, <2>1 DEF Link
<1>6. Link(s, 0) = NULL /\ Link(s, Len(s) + 1) = NULL
  BY <1>1 DEF Link
<1>7. \A i \in 1..Len(s) : s[i] # NULL /\ Link(s, i) = s[i]
  BY <1>2, ListAssumption DEF Link
<1>8. \A i \in 1..(Len(s) - 1) : (i < k => w[i] = s[i]) /\ (~ (i < k) => w[i] = s[i + 1])
  BY <1>1
<1>9. \A i, j \in 1..Len(s) : s[i] = s[j] => i = j
  BY DEF Distinct
<1> QED BY <1>1, <1>2, <1>3, <1>4, <1>5, <1>6, <1>7, <1>8, <1>9 DEF w, Left

\* The node before the removed one, or the head, leads past it.
LEMMA UnlinkPrevShape ==
  ASSUME ListInv, Shape, NEW t \in Threads, UnlinkPrev(t), ~ overlap'
  PROVE  Shape'
<1> DEFINE n == node[t]
           s == items
           w == Without(s, n)
<1>1. /\ pc[t] = "unlinkPrev" /\ Busy(t) /\ TypeOK /\ Exclusive /\ n \in Nodes /\ Step(t)
      /\ prev \in [Nodes -> Pointers] /\ next \in [Nodes -> Pointers] /\ pc \in [Threads -> Labels]
      /\ s \in Seq(Nodes)
  BY DEF UnlinkPrev, At, Busy, ListInv, TypeOK, Holding, Removing, Step, list_remove
<1>2. ~ overlap
  BY <1>1, OneThread
<1>3. RemoveShape(t) /\ Distinct(s) /\ fault = "none"
  BY DEF Shape
<1>4. n \in ItemsOf(s) /\ len = Len(s) /\ live = ItemsOf(s) /\ Whole(s)
  BY <1>1, <1>3 DEF RemoveShape, Removing
<1>5. PICK k \in 1..Len(s) : s[k] = n
  BY <1>4 DEF ItemsOf
<1>6. Left(s, k, w)
  <2>1. w = Without(s, s[k])
    BY <1>5
  <2>2. s \in Seq(Nodes) /\ Distinct(s) /\ k \in 1..Len(s)
    BY <1>1, <1>3
  <2> HIDE DEF w, s
  <2> QED BY <2>1, <2>2, ShorterLinks
<1>7. /\ \A i \in 1..Len(s) : next[s[i]] = Link(s, i + 1) /\ prev[s[i]] = Link(s, i - 1)
      /\ head = Link(s, 1) /\ tail = Link(s, Len(s))
  BY <1>4 DEF Whole, Forward, Backward, Back
<1> HIDE DEF w, s
<1> USE DEF Left
<1> DEFINE Done == /\ pc'[t] = "unlinkNext" /\ UNCHANGED <<tail, len, prev, live, node, items, fault>>
                   /\ head' = Link(w, 1) /\ \A i \in 1..Len(w) : next'[w[i]] = Link(w, i + 1)
                   /\ next'[n] = Link(s, k + 1)
<1>8. k \in Nat /\ 1 <= k /\ k <= Len(s) /\ prev[n] = Link(s, k - 1) /\ next[n] = Link(s, k + 1)
  BY <1>5, <1>6, <1>7
<1>9. ASSUME k = 1 PROVE Done
  <2>1. prev[n] = NULL
    BY <1>6, <1>8, <1>9
  <2>2. /\ head' = next[n] /\ pc'[t] = "unlinkNext"
        /\ UNCHANGED <<tail, len, prev, next, live, node, items, fault>>
    BY <1>1, <2>1 DEF UnlinkPrev, Goto, heapVars, localVars
  <2>3. head' = Link(w, 1)
    BY <1>6, <1>8, <1>9, <2>2
  <2>4. ASSUME NEW i \in 1..Len(w) PROVE next'[w[i]] = Link(w, i + 1)
    <3>1. w[i] = s[i + 1] /\ i + 1 \in 1..Len(s)
      BY <1>6, <1>9
    <3>2. Link(w, i + 1) = Link(s, (i + 1) + 1)
      BY <1>6, <1>9, <3>1
    <3> QED BY <1>7, <2>2, <3>1, <3>2
  <2>5. next'[n] = Link(s, k + 1)
    BY <1>8, <2>2
  <2> QED BY <2>2, <2>3, <2>4, <2>5
<1>10. ASSUME k # 1 PROVE Done
  <2> DEFINE p == s[k - 1]
  <2>1. k - 1 \in 1..Len(s) /\ prev[n] = p /\ p \in Nodes /\ p # NULL /\ p \in live
    BY <1>4, <1>6, <1>8, <1>10 DEF ItemsOf, s
  <2>2. /\ next' = [next EXCEPT ![p] = next[n]] /\ pc'[t] = "unlinkNext"
        /\ UNCHANGED <<head, tail, len, prev, live, node, items, fault>>
    <3> HIDE DEF p
    <3> QED BY <1>1, <2>1 DEF UnlinkPrev, Access, Goto, heapVars, localVars
  <2>3. head' = Link(w, 1)
    <3>1. 1 < k /\ 1 \in 0..Len(s)
      BY <1>6, <1>8, <1>10
    <3>2. Link(w, 1) = Link(s, 1)
      BY <1>6, <3>1
    <3> QED BY <1>7, <2>2, <3>2
  <2>4. ASSUME NEW i \in 1..Len(w) PROVE next'[w[i]] = Link(w, i + 1)
    <3>0. i \in 1..(Len(s) - 1) /\ i + 1 \in 0..Len(s)
      BY <1>6
    <3>1. CASE i < k - 1
      <4>1. w[i] = s[i] /\ i \in 1..Len(s) /\ i + 1 < k
        BY <1>6, <1>8, <3>0, <3>1
      <4>2. s[i] # p /\ s[i] \in Nodes
        BY <1>6, <1>8, <2>1, <3>1, <4>1
      <4>3. Link(w, i + 1) = Link(s, i + 1)
        BY <1>6, <3>0, <4>1
      <4> QED BY <1>1, <1>7, <2>2, <4>1, <4>2, <4>3
    <3>2. CASE i = k - 1
      <4>1. w[i] = p
        BY <1>6, <1>8, <3>0, <3>2
      <4>2. Link(w, i + 1) = Link(s, k + 1)
        BY <1>6, <1>8, <3>0, <3>2
      <4> QED BY <1>1, <1>8, <2>1, <2>2, <4>1, <4>2
    <3>3. CASE i > k - 1
      <4>1. w[i] = s[i + 1] /\ i + 1 \in 1..Len(s) /\ ~ (i + 1 < k)
        BY <1>6, <1>8, <3>0, <3>3
      <4>2. s[i + 1] # p /\ s[i + 1] \in Nodes
        BY <1>6, <1>8, <2>1, <3>3, <4>1
      <4>3. Link(w, i + 1) = Link(s, (i + 1) + 1)
        BY <1>6, <3>0, <4>1
      <4> QED BY <1>1, <1>7, <2>2, <4>1, <4>2, <4>3
    <3> QED BY <1>8, <3>0, <3>1, <3>2, <3>3
  <2>5. next'[n] = Link(s, k + 1)
    <3>1. n # p
      BY <1>5, <1>6, <1>8, <2>1
    <3> QED BY <1>1, <1>8, <2>2, <3>1
  <2> QED BY <2>2, <2>3, <2>4, <2>5
<1>11. Done
  <2> HIDE DEF Done
  <2> QED BY <1>9, <1>10
<1>12. Forward(Without(items, node[t]))' /\ Backward(items)'
  <2>1. Without(items', node'[t]) = w
    BY <1>11 DEF w, s
  <2>2. Forward(Without(items, node[t]))'
    BY <1>11, <2>1 DEF Forward
  <2>3. Backward(items)'
    BY <1>4, <1>11 DEF Whole, Backward, Back, s
  <2> QED BY <2>2, <2>3
<1>13. \A j \in 1..Len(items') : items'[j] = node'[t] => next'[node'[t]] = Link(items', j + 1)
  <2>1. \A j \in 1..Len(s) : s[j] = n => next'[n] = Link(s, j + 1)
    BY <1>5, <1>6, <1>11
  <2> QED BY <1>11, <2>1 DEF s
<1>14. RemoveShape(t)'
  BY <1>4, <1>11, <1>12, <1>13 DEF RemoveShape, Removing, s
<1>15. PushShape(t)' /\ ReadShape(t)' /\ pc'[t] \in Removing
  BY <1>11 DEF PushShape, ReadShape, Pushing, Removing
<1>16. Distinct(items)' /\ fault' = "none"
  BY <1>3, <1>11 DEF Distinct, s
<1> QED BY <1>1, <1>2, <1>14, <1>15, <1>16, OneWriter DEF Reading

\* So does the node after it, or the tail.
LEMMA UnlinkNextShape ==
  ASSUME ListInv, Shape, NEW t \in Threads, UnlinkNext(t), ~ overlap'
  PROVE  Shape'
<1> DEFINE n == node[t]
           s == items
           w == Without(s, n)
<1>1. /\ pc[t] = "unlinkNext" /\ Busy(t) /\ TypeOK /\ Exclusive /\ n \in Nodes /\ Step(t)
      /\ prev \in [Nodes -> Pointers] /\ next \in [Nodes -> Pointers] /\ pc \in [Threads -> Labels]
      /\ s \in Seq(Nodes)
  BY DEF UnlinkNext, At, Busy, ListInv, TypeOK, Holding, Removing, Step, list_remove
<1>2. ~ overlap
  BY <1>1, OneThread
<1>3. RemoveShape(t) /\ Distinct(s) /\ fault = "none"
  BY DEF Shape
<1>4. /\ n \in ItemsOf(s) /\ len = Len(s) /\ live = ItemsOf(s) /\ Forward(w) /\ Backward(s)
      /\ \A j \in 1..Len(s) : s[j] = n => next[n] = Link(s, j + 1)
  BY <1>1, <1>3 DEF RemoveShape, Removing
<1>5. PICK k \in 1..Len(s) : s[k] = n
  BY <1>4 DEF ItemsOf
<1>6. Left(s, k, w)
  <2>1. w = Without(s, s[k])
    BY <1>5
  <2>2. s \in Seq(Nodes) /\ Distinct(s) /\ k \in 1..Len(s)
    BY <1>1, <1>3
  <2> HIDE DEF w, s
  <2> QED BY <2>1, <2>2, ShorterLinks
<1>7. (\A i \in 1..Len(s) : prev[s[i]] = Link(s, i - 1)) /\ tail = Link(s, Len(s))
  BY <1>4 DEF Backward, Back
<1> HIDE DEF w, s
<1> USE DEF Left
<1> DEFINE Done == /\ pc'[t] = "free" /\ UNCHANGED <<head, len, next, live, node, items, fault>>
                   /\ tail' = Link(w, Len(w)) /\ \A i \in 1..Len(w) : prev'[w[i]] = Link(w, i - 1)
<1>8. k \in Nat /\ 1 <= k /\ k <= Len(s) /\ prev[n] = Link(s, k - 1) /\ next[n] = Link(s, k + 1)
  BY <1>4, <1>5, <1>6, <1>7
<1>9. ASSUME k = Len(s) PROVE Done
  <2>1. next[n] = NULL
    BY <1>6, <1>8, <1>9
  <2>2. /\ tail' = prev[n] /\ pc'[t] = "free"
        /\ UNCHANGED <<head, len, prev, next, live, node, items, fault>>
    BY <1>1, <2>1 DEF UnlinkNext, Goto, heapVars, localVars, ghostVars
  <2>3. tail' = Link(w, Len(w))
    <3>1. Len(w) \in 0..Len(s) /\ Len(w) < k /\ Len(w) = k - 1
      BY <1>6, <1>8, <1>9
    <3> QED BY <1>6, <1>8, <2>2, <3>1
  <2>4. ASSUME NEW i \in 1..Len(w) PROVE prev'[w[i]] = Link(w, i - 1)
    <3>1. w[i] = s[i] /\ i \in 1..Len(s)
      BY <1>6, <1>8, <1>9
    <3>2. i - 1 \in 0..Len(s) /\ i - 1 < k
      BY <1>6, <1>8, <1>9
    <3> QED BY <1>6, <1>7, <2>2, <3>1, <3>2
  <2> QED BY <2>2, <2>3, <2>4
<1>10. ASSUME k # Len(s) PROVE Done
  <2> DEFINE m == s[k + 1]
  <2>1. k + 1 \in 1..Len(s) /\ next[n] = m /\ m \in Nodes /\ m # NULL /\ m \in live
    BY <1>4, <1>6, <1>8, <1>10 DEF ItemsOf, s
  <2>2. /\ prev' = [prev EXCEPT ![m] = prev[n]] /\ pc'[t] = "free"
        /\ UNCHANGED <<head, tail, len, next, live, node, items, fault>>
    <3> HIDE DEF m
    <3> QED BY <1>1, <2>1 DEF UnlinkNext, Access, Goto, heapVars, localVars, ghostVars
  <2>3. tail' = Link(w, Len(w))
    <3>1. Len(w) \in 0..Len(s) /\ ~ (Len(w) < k) /\ Len(w) + 1 = Len(s)
      BY <1>6, <1>8, <1>10
    <3> QED BY <1>6, <1>7, <2>2, <3>1
  <2>4. ASSUME NEW i \in 1..Len(w) PROVE prev'[w[i]] = Link(w, i - 1)
    <3>0. i \in 1..(Len(s) - 1) /\ i - 1 \in 0..Len(s)
      BY <1>6
    <3>1. CASE i < k
      <4>1. w[i] = s[i] /\ i \in 1..Len(s) /\ i - 1 < k
        BY <1>6, <1>8, <3>0, <3>1
      <4>2. s[i] # m /\ s[i] \in Nodes
        BY <1>6, <1>8, <2>1, <3>1, <4>1
      <4>3. Link(w, i - 1) = Link(s, i - 1)
        BY <1>6, <3>0, <4>1
      <4> QED BY <1>1, <1>7, <2>2, <4>1, <4>2, <4>3
    <3>2. CASE i = k
      <4>1. w[i] = m /\ i - 1 < k
        BY <1>6, <1>8, <3>0, <3>2
      <4>2. Link(w, i - 1) = Link(s, k - 1)
        BY <1>6, <1>8, <3>0, <3>2, <4>1
      <4> QED BY <1>1, <1>8, <2>1, <2>2, <4>1, <4>2
    <3>3. CASE i > k
      <4>0. ~ (i < k) /\ ~ (i - 1 < k)
        BY <1>8, <3>0, <3>3
      <4>1. w[i] = s[i + 1] /\ i + 1 \in 1..Len(s) /\ ~ (i - 1 < k)
        BY <1>6, <3>0, <4>0
      <4>2. s[i + 1] # m /\ s[i + 1] \in Nodes
        BY <1>6, <1>8, <2>1, <3>3, <4>1
      <4>3. Link(w, i - 1) = Link(s, (i + 1) - 1)
        <5>1. (i - 1) + 1 = i /\ (i + 1) - 1 = i
          BY <3>0
        <5>2. Link(w, i - 1) = Link(s, (i - 1) + 1)
          BY <1>6, <3>0, <4>1
        <5> QED BY <5>1, <5>2
      <4> QED BY <1>1, <1>7, <2>2, <4>1, <4>2, <4>3
    <3> QED BY <1>8, <3>0, <3>1, <3>2, <3>3
  <2> QED BY <2>2, <2>3, <2>4
<1>11. Done
  <2> HIDE DEF Done
  <2> QED BY <1>9, <1>10
<1>12. Whole(Without(items, node[t]))'
  <2>1. Without(items', node'[t]) = w /\ Forward(w)
    BY <1>4, <1>11 DEF w, s
  <2>2. Forward(Without(items, node[t]))'
    BY <1>11, <2>1 DEF Forward
  <2> QED BY <1>11, <2>1, <2>2 DEF Whole, Backward, Back
<1>13. RemoveShape(t)'
  BY <1>4, <1>11, <1>12 DEF RemoveShape, Removing, s
<1>14. PushShape(t)' /\ ReadShape(t)' /\ pc'[t] \in Removing
  BY <1>11 DEF PushShape, ReadShape, Pushing, Removing
<1>15. Distinct(items)' /\ fault' = "none"
  BY <1>3, <1>11 DEF Distinct, s
<1> QED BY <1>1, <1>2, <1>13, <1>14, <1>15, OneWriter DEF Reading
-----------------------------------------------------------------------------
(* Walking along the pointers *)

\* Induction on the natural numbers, on a set of them.
LEMMA Naturals ==
  ASSUME NEW S \in SUBSET Nat, 0 \in S, \A n \in S : n + 1 \in S
  PROVE  S = Nat
<1> SUFFICES ASSUME S # Nat PROVE FALSE
  OBVIOUS
<1> DEFINE T == Nat \ S
<1>1. PICK x \in T : \A y \in T : ~ (<<y, x>> \in OpToRel(<, Nat))
  BY WFMin, NatLessThanWellFounded
<1>2. \A y \in T : ~ (y < x)
  BY <1>1 DEF OpToRel
<1>3. x # 0 /\ x - 1 \in Nat /\ x - 1 \notin T
  BY <1>2
<1> QED BY <1>3

\* f holds the first k + 1 places of a walk.
Walks(f, from, step, k) ==
  f = [i \in 0..k |-> IF i = 0 THEN from ELSE IF f[i - 1] = NULL THEN NULL ELSE step[f[i - 1]]]

\* There is a walk of any length.
LEMMA AWalk ==
  ASSUME NEW from, NEW step, NEW k \in Nat
  PROVE  \E f : Walks(f, from, step, k)
<1> DEFINE S == {n \in Nat : \E f : Walks(f, from, step, n)}
<1>1. 0 \in S
  <2> DEFINE f == [i \in 0..0 |-> from]
  <2>1. Walks(f, from, step, 0)
    BY DEF Walks
  <2> QED BY <2>1
<1>2. ASSUME NEW n \in S PROVE n + 1 \in S
  <2>1. PICK f : Walks(f, from, step, n)
    OBVIOUS
  <2> DEFINE g == [i \in 0..(n + 1) |-> IF i <= n THEN f[i]
                                        ELSE IF f[n] = NULL THEN NULL ELSE step[f[n]]]
             h == [i \in 0..(n + 1) |-> IF i = 0 THEN from
                                        ELSE IF g[i - 1] = NULL THEN NULL ELSE step[g[i - 1]]]
  <2>2. \A i \in 0..n : f[i] = IF i = 0 THEN from ELSE IF f[i - 1] = NULL THEN NULL ELSE step[f[i - 1]]
    BY <2>1 DEF Walks
  <2>3. ASSUME NEW i \in 0..(n + 1) PROVE g[i] = h[i]
    <3>1. CASE i = 0
      BY <2>2, <3>1
    <3>2. CASE i # 0 /\ i <= n
      <4>1. i - 1 \in 0..(n + 1) /\ i - 1 <= n /\ i \in 0..n
        BY <3>2
      <4>2. g[i] = f[i] /\ g[i - 1] = f[i - 1]
        BY <3>2, <4>1
      <4> QED BY <2>2, <3>2, <4>1, <4>2
    <3>3. CASE i = n + 1
      <4>1. i - 1 = n /\ i # 0 /\ ~ (i <= n) /\ n \in 0..(n + 1)
        BY <3>3
      <4>2. g[n] = f[n] /\ g[i] = IF f[n] = NULL THEN NULL ELSE step[f[n]]
        BY <4>1
      <4> QED BY <4>1, <4>2
    <3> QED BY <3>1, <3>2, <3>3
  <2>4. g = h
    BY <2>3
  <2>5. Walks(g, from, step, n + 1)
    BY <2>4 DEF Walks
  <2> QED BY <2>5
<1>3. S = Nat
  <2> HIDE DEF S
  <2> QED BY <1>1, <1>2, Naturals DEF S
<1> QED BY <1>3

\* A longer walk begins as a shorter one.
LEMMA SameWalk ==
  ASSUME NEW from, NEW step, NEW k \in Nat, NEW m \in Nat, k <= m,
         NEW f, NEW g, Walks(f, from, step, k), Walks(g, from, step, m)
  PROVE  f[k] = g[k]
<1> DEFINE S == {i \in Nat : i <= k => f[i] = g[i]}
<1>1. \A i \in 0..k : f[i] = IF i = 0 THEN from ELSE IF f[i - 1] = NULL THEN NULL ELSE step[f[i - 1]]
  BY DEF Walks
<1>2. \A i \in 0..m : g[i] = IF i = 0 THEN from ELSE IF g[i - 1] = NULL THEN NULL ELSE step[g[i - 1]]
  BY DEF Walks
<1>3. 0 \in S
  BY <1>1, <1>2
<1>4. ASSUME NEW i \in S PROVE i + 1 \in S
  <2>1. SUFFICES ASSUME i + 1 <= k PROVE f[i + 1] = g[i + 1]
    OBVIOUS
  <2>2. i + 1 \in 0..k /\ i + 1 \in 0..m /\ i + 1 # 0 /\ (i + 1) - 1 = i /\ f[i] = g[i]
    BY <2>1
  <2> HIDE DEF S
  <2> QED BY <1>1, <1>2, <2>2
<1>5. S = Nat
  <2> HIDE DEF S
  <2> QED BY <1>3, <1>4, Naturals DEF S
<1> QED BY <1>5

\* After takes one step more than After.
LEMMA AfterSteps ==
  ASSUME NEW from, NEW step, NEW k \in Nat
  PROVE  /\ After(from, step, 0) = from
         /\ After(from, step, k + 1) =
              IF After(from, step, k) = NULL THEN NULL ELSE step[After(from, step, k)]
<1> DEFINE F(n) == CHOOSE f : Walks(f, from, step, n)
<1>1. ASSUME NEW n \in Nat PROVE After(from, step, n) = F(n)[n] /\ Walks(F(n), from, step, n)
  <2>1. After(from, step, n) = F(n)[n]
    BY DEF After, Walks
  <2> QED BY <2>1, AWalk
<1> HIDE DEF F
<1>2. After(from, step, 0) = from
  <2>1. F(0)[0] = from
    BY <1>1 DEF Walks
  <2> QED BY <1>1, <2>1
<1>3. F(k)[k] = F(k + 1)[k]
  BY <1>1, SameWalk
<1>4. F(k + 1)[k + 1] = IF F(k + 1)[k] = NULL THEN NULL ELSE step[F(k + 1)[k]]
  <2>1. \A i \in 0..(k + 1) : F(k + 1)[i] = IF i = 0 THEN from
                                            ELSE IF F(k + 1)[i - 1] = NULL THEN NULL ELSE step[F(k + 1)[i - 1]]
    BY <1>1 DEF Walks
  <2>2. k + 1 \in 0..(k + 1) /\ k + 1 # 0 /\ (k + 1) - 1 = k
    OBVIOUS
  <2> QED BY <2>1, <2>2
<1> QED BY <1>1, <1>2, <1>3, <1>4
\* The next pointers of a list lead through it, from head on.
LEMMA ForwardWalk ==
  ASSUME NEW s \in Seq(Nodes), Forward(s), NEW i \in 0..Len(s)
  PROVE  After(head, next, i) = Link(s, i + 1)
<1> DEFINE S == {j \in Nat : j <= Len(s) => After(head, next, j) = Link(s, j + 1)}
<1>1. Len(s) \in Nat /\ \A j \in 1..Len(s) : s[j] \in Nodes
  OBVIOUS
<1>2. head = Link(s, 1) /\ \A j \in 1..Len(s) : next[s[j]] = Link(s, j + 1)
  BY DEF Forward
<1>3. 0 \in S
  BY <1>2, AfterSteps
<1>4. ASSUME NEW j \in S PROVE j + 1 \in S
  <2>1. SUFFICES ASSUME j + 1 <= Len(s) PROVE After(head, next, j + 1) = Link(s, (j + 1) + 1)
    OBVIOUS
  <2>2. j \in Nat /\ j + 1 \in 1..Len(s) /\ After(head, next, j) = Link(s, j + 1)
    BY <1>1, <2>1
  <2>3. Link(s, j + 1) = s[j + 1] /\ s[j + 1] # NULL
    BY <1>1, <2>2, ListAssumption DEF Link
  <2>4. After(head, next, j + 1) = next[s[j + 1]]
    <3>1. After(head, next, j + 1) =
            IF After(head, next, j) = NULL THEN NULL ELSE next[After(head, next, j)]
      BY <2>2, AfterSteps
    <3> QED BY <2>2, <2>3, <3>1
  <2> QED BY <1>2, <2>2, <2>4
<1>5. S = Nat
  <2> HIDE DEF S
  <2> QED BY <1>3, <1>4, Naturals DEF S
<1>6. i \in Nat /\ i <= Len(s)
  BY <1>1
<1> QED BY <1>5, <1>6

\* The prev pointers of a list lead back through it, from tail on.
LEMMA BackwardWalk ==
  ASSUME NEW s \in Seq(Nodes), Backward(s), NEW i \in 0..Len(s)
  PROVE  After(tail, prev, i) = Link(s, Len(s) - i)
<1> DEFINE S == {j \in Nat : j <= Len(s) => After(tail, prev, j) = Link(s, Len(s) - j)}
<1>1. Len(s) \in Nat /\ \A j \in 1..Len(s) : s[j] \in Nodes
  OBVIOUS
<1>2. tail = Link(s, Len(s)) /\ \A j \in 1..Len(s) : prev[s[j]] = Link(s, j - 1)
  BY DEF Backward, Back
<1>3. 0 \in S
  <2>1. Len(s) - 0 = Len(s)
    BY <1>1
  <2> QED BY <1>2, <2>1, AfterSteps
<1>4. ASSUME NEW j \in S PROVE j + 1 \in S
  <2>1. SUFFICES ASSUME j + 1 <= Len(s) PROVE After(tail, prev, j + 1) = Link(s, Len(s) - (j + 1))
    OBVIOUS
  <2>2. /\ j \in Nat /\ Len(s) - j \in 1..Len(s) /\ After(tail, prev, j) = Link(s, Len(s) - j)
        /\ (Len(s) - j) - 1 = Len(s) - (j + 1)
    BY <1>1, <2>1
  <2>3. Link(s, Len(s) - j) = s[Len(s) - j] /\ s[Len(s) - j] # NULL
    BY <1>1, <2>2, ListAssumption DEF Link
  <2>4. After(tail, prev, j + 1) = prev[s[Len(s) - j]]
    BY <2>2, <2>3, AfterSteps
  <2> QED BY <1>2, <2>2, <2>4
<1>5. S = Nat
  <2> HIDE DEF S
  <2> QED BY <1>3, <1>4, Naturals DEF S
<1>6. i \in Nat /\ i <= Len(s)
  BY <1>1
<1> QED BY <1>5, <1>6

\* A list whose neighbours are right is what its pointers lead through.
LEMMA WholeRepresents ==
  ASSUME NEW s \in Seq(Nodes), Whole(s), len = Len(s), live = ItemsOf(s)
  PROVE  Represents(s)
<1>1. Len(s) \in Nat /\ Forward(s) /\ Backward(s)
  BY DEF Whole
<1>2. ASSUME NEW i \in 1..Len(s)
      PROVE  After(head, next, i - 1) = s[i] /\ After(tail, prev, Len(s) - i) = s[i]
  <2>1. /\ i - 1 \in 0..Len(s) /\ (i - 1) + 1 = i
        /\ Len(s) - i \in 0..Len(s) /\ Len(s) - (Len(s) - i) = i
    BY <1>1
  <2>2. Link(s, i) = s[i]
    BY DEF Link
  <2>3. After(head, next, i - 1) = Link(s, i)
    BY <1>1, <2>1, ForwardWalk
  <2>4. After(tail, prev, Len(s) - i) = Link(s, i)
    BY <1>1, <2>1, BackwardWalk
  <2> QED BY <2>2, <2>3, <2>4
<1>3. After(head, next, Len(s)) = NULL /\ After(tail, prev, Len(s)) = NULL
  <2>1. /\ Len(s) \in 0..Len(s) /\ Len(s) - Len(s) = 0
        /\ Link(s, Len(s) + 1) = NULL /\ Link(s, 0) = NULL
    BY <1>1 DEF Link
  <2>2. After(head, next, Len(s)) = Link(s, Len(s) + 1)
    BY <1>1, <2>1, ForwardWalk
  <2>3. After(tail, prev, Len(s)) = Link(s, 0)
    BY <1>1, <2>1, BackwardWalk
  <2> QED BY <2>1, <2>2, <2>3
<1> QED BY <1>2, <1>3 DEF Represents, ItemsOf

-----------------------------------------------------------------------------
(* The end of list_remove, list_rpop and list_destroy *)

\* The sequence without one of its nodes.
LEMMA TakeOut ==
  ASSUME NEW s \in Seq(Nodes), Distinct(s), NEW n \in ItemsOf(s)
  PROVE  /\ Without(s, n) \in Seq(Nodes) /\ Len(Without(s, n)) = Len(s) - 1 /\ Len(s) \in Nat \ {0}
         /\ Distinct(Without(s, n)) /\ ItemsOf(Without(s, n)) = ItemsOf(s) \ {n}
<1>1. PICK k \in 1..Len(s) : s[k] = n
  BY DEF ItemsOf
<1>2. Len(s) \in Nat \ {0}
  BY <1>1
<1> QED BY <1>1, <1>2, Shorter, ShorterItems

\* The node that is freed is the one that was unlinked.
LEMMA FreeNodeShape ==
  ASSUME ListInv, Shape, NEW t \in Threads, FreeNode(t), ~ overlap'
  PROVE  Shape'
<1> DEFINE n == node[t]
<1>1. /\ pc[t] = "free" /\ pc'[t] = "uncount" /\ Busy(t) /\ TypeOK /\ Exclusive /\ ~ overlap
      /\ UNCHANGED <<head, tail, len, prev, next, node, items, fault>> /\ Step(t)
      /\ live' = live \ {n} /\ count'[t] = len /\ items \in Seq(Nodes)
  BY DEF FreeNode, At, Goto, Busy, ListInv, TypeOK, Removing, Step, list_remove, listVars, ghostVars
<1>2. RemoveShape(t) /\ Distinct(items) /\ fault = "none"
  BY DEF Shape
<1>3. n \in ItemsOf(items) /\ len = Len(items) /\ live = ItemsOf(items) /\ Whole(Without(items, n))
  BY <1>1, <1>2 DEF RemoveShape, Removing
<1>4. live' = ItemsOf(Without(items, n))
  BY <1>1, <1>2, <1>3, TakeOut
<1>5. Whole(Without(items, node[t]))'
  BY <1>1, <1>3 DEF Whole, Forward, Backward, Back
<1>6. RemoveShape(t)'
  BY <1>1, <1>3, <1>4, <1>5 DEF RemoveShape, Removing
<1>7. PushShape(t)' /\ ReadShape(t)' /\ pc'[t] \in Removing
  BY <1>1 DEF PushShape, ReadShape, Pushing, Removing
<1>8. Distinct(items)' /\ fault' = "none"
  BY <1>1, <1>2 DEF Distinct
<1> QED BY <1>1, <1>6, <1>7, <1>8, OneWriter DEF Reading

\* The length is written back: the list is one node shorter.
LEMMA WriteLenBackShape ==
  ASSUME ListInv, Shape, NEW t \in Threads, WriteLenBack(t), ~ overlap'
  PROVE  Shape'
<1> DEFINE n == node[t]
           w == Without(items, n)
<1>1. /\ pc[t] = "uncount" /\ pc'[t] = "idle" /\ Busy(t) /\ TypeOK /\ Exclusive /\ ~ overlap
      /\ UNCHANGED <<head, tail, prev, next, live, fault>> /\ Step(t)
      /\ items' = w /\ len' = (count[t] + UnsignedMax) % (UnsignedMax + 1)
      /\ items \in Seq(Nodes) /\ len \in 0..UnsignedMax
  BY DEF WriteLenBack, At, Goto, Return, Busy, ListInv, TypeOK, heapVars, Step, list_remove
<1>2. RemoveShape(t) /\ Distinct(items) /\ fault = "none"
  BY DEF Shape
<1>3. n \in ItemsOf(items) /\ len = Len(items) /\ live = ItemsOf(w) /\ Whole(w) /\ count[t] = len
  BY <1>1, <1>2 DEF RemoveShape, Removing
<1>4. Len(w) = Len(items) - 1 /\ Len(items) \in Nat \ {0} /\ Distinct(w)
  BY <1>1, <1>2, <1>3, TakeOut
<1> HIDE DEF w
<1>5. len' = Len(items')
  BY <1>1, <1>3, <1>4, Wraps
<1>6. Whole(items)' /\ live' = ItemsOf(items') /\ Distinct(items)' /\ fault' = "none"
  BY <1>1, <1>2, <1>3, <1>4 DEF Whole, Forward, Backward, Back, Distinct
<1>7. PushShape(t)' /\ RemoveShape(t)' /\ ReadShape(t)'
  BY <1>1 DEF PushShape, RemoveShape, ReadShape, Pushing, Removing
<1> QED BY <1>1, <1>5, <1>6, <1>7, OneWriter DEF Reading

\* list_rpop takes the last node out.
LEMMA RPopShape ==
  ASSUME ListInv, Shape, NEW t \in Threads, RPop(t), ~ overlap'
  PROVE  Shape'
<1> DEFINE s == items
           w == Without(s, tail)
           k == Len(s)
<1>1. /\ \A u \in Threads : pc[u] = "idle"
      /\ Whole(s) /\ len = k /\ live = ItemsOf(s) /\ Distinct(s)
      /\ k \in Nat \ {0} /\ k \in 1..Len(s) /\ tail = s[k]
  BY RPopFacts
<1>2. /\ s \in Seq(Nodes) /\ prev \in [Nodes -> Pointers] /\ next \in [Nodes -> Pointers]
  BY DEF ListInv, TypeOK
<1>3. /\ len' = len - 1 /\ live' = live \ {tail} /\ items' = w /\ UNCHANGED <<pc, node, cursor, fault>>
      /\ prev' = [prev EXCEPT ![tail] = NULL]
  BY DEF RPop, localVars
<1>4. Left(s, k, w) /\ ItemsOf(w) = ItemsOf(s) \ {tail} /\ Distinct(w)
  <2>1. w = Without(s, s[k])
    BY <1>1
  <2> HIDE DEF w, s
  <2> QED BY <1>1, <1>2, <2>1, ShorterLinks, ShorterItems
<1>5. /\ \A i \in 1..Len(s) : next[s[i]] = Link(s, i + 1) /\ prev[s[i]] = Link(s, i - 1)
      /\ head = Link(s, 1)
  BY <1>1 DEF Whole, Forward, Backward, Back
<1>6. Whole(items)'
  <2>1. CASE len = 1
    <3>1. head' = NULL /\ tail' = NULL
      BY <2>1 DEF RPop
    <3>2. Len(w) = 0 /\ Link(w, 1) = NULL /\ Link(w, Len(w)) = NULL /\ \A i \in 1..Len(w) : FALSE
      <4> HIDE DEF w, s
      <4> QED BY <1>1, <1>4, <2>1 DEF Left, Link
    <3> HIDE DEF w
    <3> QED BY <1>3, <3>1, <3>2 DEF Whole, Forward, Backward, Back
  <2>2. CASE len # 1
    <3> DEFINE p == s[k - 1]
    <3>1. k - 1 \in 1..Len(s) /\ k - 1 # k /\ 1 < k /\ k - 1 = Len(w) /\ k - 1 < k
      BY <1>1, <1>4, <2>2 DEF Left
    <3>2. prev[tail] = p /\ p \in Nodes /\ p # tail /\ tail \in Nodes
      <4> HIDE DEF s, w, k
      <4> QED BY <1>1, <1>4, <1>5, <3>1 DEF Left
    <3>3. /\ tail' = p /\ head' = head
          /\ next' = [next EXCEPT ![p] = NULL, ![tail] = NULL]
      <4> HIDE DEF s, w, k, p
      <4> QED BY <2>2, <3>2 DEF RPop
    <3>6. \A m \in Nodes : next'[m] = IF m \in {p, tail} THEN NULL ELSE next[m]
      <4> HIDE DEF s, w, k, p
      <4> QED BY <1>2, <3>2, <3>3
    <3> HIDE DEF s, w, k
    <3>4. head' = Link(w, 1) /\ tail' = Link(w, Len(w))
      <4>1. 1 \in 0..Len(s) /\ Len(w) \in 0..Len(s)
        BY <1>1, <3>1
      <4> QED BY <1>4, <1>5, <3>1, <3>3, <4>1 DEF Left
    <3>5. ASSUME NEW i \in 1..Len(w)
          PROVE  next'[w[i]] = Link(w, i + 1) /\ prev'[w[i]] = Link(w, i - 1)
      <4>1. i < k /\ i \in 1..Len(s) /\ i - 1 < k /\ i - 1 \in 0..Len(s) /\ i + 1 \in 0..Len(s)
        BY <1>1, <3>1
      <4>2. w[i] = s[i] /\ s[i] # tail /\ s[i] \in Nodes
        BY <1>1, <1>4, <3>1, <4>1 DEF Left
      <4>3. prev'[w[i]] = Link(w, i - 1)
        <5>1. prev'[s[i]] = prev[s[i]]
          BY <1>2, <1>3, <4>2
        <5> QED BY <1>4, <1>5, <4>1, <4>2, <5>1 DEF Left
      <4>4. CASE i = k - 1
        <5>1. next'[s[i]] = NULL
          BY <3>6, <4>2, <4>4
        <5>2. Link(w, i + 1) = NULL
          <6>1. i + 1 = k /\ k = Len(s)
            BY <1>1, <4>4 DEF k
          <6> QED BY <1>4, <4>1, <6>1 DEF Left
        <5> QED BY <4>2, <4>3, <5>1, <5>2
      <4>5. CASE i # k - 1
        <5>1. s[i] # p
          BY <1>4, <3>1, <4>1, <4>5 DEF Left
        <5>2. next'[s[i]] = next[s[i]]
          BY <3>6, <4>2, <5>1
        <5>3. i + 1 < k
          BY <1>1, <3>1, <4>1, <4>5
        <5> QED BY <1>4, <1>5, <4>1, <4>2, <4>3, <5>2, <5>3 DEF Left
      <4> QED BY <4>4, <4>5
    <3> QED BY <1>3, <3>4, <3>5 DEF Whole, Forward, Backward, Back
  <2> QED BY <2>1, <2>2
<1>7. len' = Len(items') /\ live' = ItemsOf(items') /\ Distinct(items)' /\ fault' = "none"
  <2>1. fault = "none"
    BY DEF Shape
  <2> HIDE DEF w
  <2> QED BY <1>1, <1>3, <1>4, <2>1 DEF Left, Distinct
<1>8. \A u \in Threads : PushShape(u)' /\ RemoveShape(u)' /\ ReadShape(u)'
  BY <1>1, <1>3 DEF PushShape, RemoveShape, ReadShape, Pushing, Removing
<1> QED BY <1>6, <1>7, <1>8 DEF Shape

\* The nodes list_destroy frees are those of the list.
LEMMA DestroyShape ==
  ASSUME ListInv, Shape, NEW t \in Threads, Destroy(t), ~ overlap'
  PROVE  Shape'
<1> DEFINE met == {After(head, next, i) : i \in 0..(len - 1)}
<1>1. /\ \A u \in Threads : pc[u] = "idle"
      /\ pc' = [pc EXCEPT ![t] = "destroyed"] /\ pc \in [Threads -> Labels]
      /\ items \in Seq(Nodes)
  BY DEF Destroy, Goto, ListInv, TypeOK
<1>2. Whole(items) /\ len = Len(items) /\ live = ItemsOf(items)
  BY <1>1 DEF Shape, Pushing, Removing
<1>3. Len(items) \in Nat /\ Forward(items) /\ NULL \notin ItemsOf(items)
  BY <1>1, <1>2, ListFacts DEF Whole, ListInv
<1>4. ASSUME NEW i \in 0..(len - 1) PROVE After(head, next, i) = items[i + 1] /\ i + 1 \in 1..Len(items)
  <2>1. i \in 0..Len(items) /\ i + 1 \in 1..Len(items)
    BY <1>2, <1>3
  <2>2. After(head, next, i) = Link(items, i + 1)
    BY <1>1, <1>3, <2>1, ForwardWalk
  <2> QED BY <2>1, <2>2 DEF Link
<1>5. met = ItemsOf(items)
  <2>1. \A x \in met : x \in ItemsOf(items)
    BY <1>4 DEF ItemsOf
  <2>2. ASSUME NEW j \in 1..Len(items) PROVE items[j] \in met
    <3>1. j - 1 \in 0..(len - 1) /\ (j - 1) + 1 = j
      BY <1>2, <1>3
    <3> QED BY <1>4, <3>1
  <2> HIDE DEF met
  <2> QED BY <2>1, <2>2 DEF ItemsOf
<1>6. /\ live' = live \ met /\ fault' = (IF NULL \in met THEN "null" ELSE "none")
      /\ head' = NULL /\ tail' = NULL /\ len' = 0 /\ items' = <<>>
  BY DEF Destroy
<1> HIDE DEF met
<1>7. live' = {} /\ fault' = "none"
  BY <1>2, <1>3, <1>5, <1>6
<1>8. Whole(items)' /\ (len = Len(items) /\ live = ItemsOf(items))' /\ Distinct(items)'
  BY <1>6, <1>7 DEF Whole, Forward, Backward, Back, Link, ItemsOf, Distinct
<1>9. \A u \in Threads : pc'[u] \in {"idle", "destroyed"}
  BY <1>1
<1>10. \A u \in Threads : PushShape(u)' /\ RemoveShape(u)' /\ ReadShape(u)'
  BY <1>9 DEF PushShape, RemoveShape, ReadShape, Pushing, Removing
<1> QED BY <1>7, <1>8, <1>10 DEF Shape

-----------------------------------------------------------------------------
(* The theorems *)

\* Every step keeps the shape.
LEMMA ShapeStep ==
  ASSUME ListInv, NEW t \in Threads, Step(t), ~ overlap'
  PROVE  Shape'
<1>1. Shape
  BY OneThread DEF ListInv
<1> QED
  BY <1>1, BeginPushShape, TestLenShape, SetPrevShape, ReadTailShape, LinkLastShape, SetTailShape,
     SetFirstShape, SetHeadShape, ClearNextShape, ClearPrevShape, NewIteratorShape,
     ReadLenShape, WriteLenShape, BeginAtShape, CheckIndexShape, WalkShape, UseNodeShape,
     BeginRemoveShape, FindShape, UnlinkPrevShape, UnlinkNextShape, FreeNodeShape,
     WriteLenBackShape, RPopShape, DestroyShape
  DEF Step, list_rpush, list_at, list_remove

\* LinkedList: until two operations overlap, each has done to the pointers what its
\* place in the code says, and the operations of a guarded list never overlap.
THEOREM ListInvariant == Spec => []ListInv
<1>1. ASSUME Init PROVE ListInv
  <2> USE <1>1, ListAssumption DEF Init
  <2>1. TypeOK
    <3>1. 0 \in 0..UnsignedMax
      BY Wraps
    <3>2. /\ count \in [Threads -> 0..UnsignedMax] /\ len \in 0..UnsignedMax
          /\ items \in Seq(Nodes) /\ pc \in [Threads -> Labels]
      BY <3>1 DEF Labels
    <3> QED BY <3>2 DEF TypeOK, Pointers
  <2>2. Holding /\ Exclusive /\ Fresh
    BY DEF Holding, Exclusive, Fresh, Busy, Pushing, Removing
  <2>3. Distinct(items) /\ Whole(items) /\ len = Len(items) /\ live = ItemsOf(items)
    BY DEF Distinct, Whole, Forward, Backward, Back, Link, ItemsOf
  <2>4. \A t \in Threads : PushShape(t) /\ RemoveShape(t) /\ ReadShape(t)
    BY DEF PushShape, RemoveShape, ReadShape, Pushing, Removing
  <2>5. fault = "none"
    OBVIOUS
  <2> QED BY <2>1, <2>2, <2>3, <2>4, <2>5 DEF ListInv, Shape
<1>2. ASSUME ListInv, [Next]_vars PROVE ListInv'
  <2>1. ASSUME NEW t \in Threads, Step(t) PROVE ListInv'
    <3>1. TypeOK' /\ Holding' /\ Exclusive' /\ Fresh'
      BY <1>2, <2>1, TypeStep, HoldingStep, ExclusiveStep, FreshStep DEF ListInv
    <3> QED BY <1>2, <2>1, <3>1, ShapeStep DEF ListInv
  <2>2. ASSUME UNCHANGED vars PROVE ListInv'
    <3> USE <1>2, <2>2 DEF vars, listVars, heapVars, localVars, ghostVars
    <3>1. TypeOK' /\ Fresh'
      BY DEF ListInv, TypeOK, Fresh
    <3>2. Holding' /\ Exclusive'
      BY DEF ListInv, Holding, Exclusive, Busy
    <3>3. ASSUME Shape PROVE Shape'
      <4> USE DEF Whole, Forward, Backward, Back
      <4>1. ASSUME NEW t \in Threads PROVE PushShape(t)' /\ RemoveShape(t)' /\ ReadShape(t)'
        <5>1. PushShape(t) /\ RemoveShape(t) /\ ReadShape(t)
          BY <3>3 DEF Shape
        <5>2. PushShape(t)'
          BY <5>1 DEF PushShape
        <5>3. RemoveShape(t)'
          BY <5>1 DEF RemoveShape
        <5>4. ReadShape(t)'
          BY <5>1 DEF ReadShape
        <5> QED BY <5>2, <5>3, <5>4
      <4>2. Whole(items) => Whole(items)'
        OBVIOUS
      <4> QED BY <3>3, <4>1, <4>2 DEF Shape, Distinct
    <3> QED BY <3>1, <3>2, <3>3 DEF ListInv
  <2> QED BY <1>2, <2>1, <2>2 DEF Next, Step
<1> QED BY <1>1, <1>2, PTL DEF Spec

\* LinkedList: every variable has its type; the length stays an unsigned.
THEOREM TypeCorrect == Spec => []TypeOK
<1>1. ListInv => TypeOK
  BY DEF ListInv
<1> QED BY <1>1, ListInvariant, PTL

\* LinkedList: until two operations overlap, and always for a list whose operations run
\* under its mutex, no operation uses a bad pointer, and between operations the
\* pointers are the sequence of what was pushed and not taken out.
THEOREM ListIsSequence == Spec => []IsSequence
<1>1. ASSUME ListInv PROVE IsSequence
  <2>1. use = "guarded" => ~ overlap
    BY <1>1 DEF ListInv, Exclusive
  <2>2. ASSUME ~ overlap PROVE fault = "none"
    BY <1>1, <2>2 DEF ListInv, Shape
  <2>3. ASSUME ~ overlap, \A t \in Threads : ~ Busy(t) PROVE Represents(items)
    <3>1. \A t \in Threads : pc[t] \notin Pushing \cup Removing
      BY <2>3 DEF Busy, Pushing, Removing
    <3>2. Whole(items) /\ len = Len(items) /\ live = ItemsOf(items) /\ items \in Seq(Nodes)
      BY <1>1, <2>3, <3>1 DEF ListInv, Shape, TypeOK
    <3> QED BY <3>2, WholeRepresents
  <2> QED BY <2>1, <2>2, <2>3 DEF IsSequence
<1> QED BY <1>1, ListInvariant, PTL
-----------------------------------------------------------------------------
(* The inductive invariant of unlocked pushes *)

\* A push whose node has not yet been the tail.
Joining == {"test", "prev", "link", "attach", "tail", "first"}

\* Where a push relies on a tail.
Relying == {"prev", "link", "head", "next", "back", "count", "store"}

\* Every pointer leads to an allocated node.
Pointing ==
  LET Good == live \cup {NULL} IN
  /\ head \in Good /\ tail \in Good
  /\ \A n \in Nodes : prev[n] \in Good /\ next[n] \in Good
  /\ \A t \in Threads : node[t] \in Good /\ cursor[t] \in Good

\* Whoever relies on a tail has one.
Tailed ==
  /\ len # 0 => tail # NULL
  /\ \A t \in Threads : /\ pc[t] \in Relying => tail # NULL
                        /\ pc[t] = "attach" => cursor[t] # NULL

\* No two threads push the same node.
Apart == \A t, u \in Threads : t # u /\ pc[t] \in Joining /\ pc[u] \in Joining => node[t] # node[u]

PushSafe ==
  /\ fault = "none" /\ Pointing /\ Tailed /\ Apart
  /\ \A t \in Threads : pc[t] \notin {"unlinkNext", "free", "uncount"}

\* The nodes in the order in which they became the tail: next leads from each to a
\* later one, or to one that is about to become the tail.
InOrder(o) ==
  /\ Distinct(o) /\ tail = Link(o, Len(o)) /\ head \in ItemsOf(o) \cup {NULL}
  /\ \A t \in Threads : /\ pc[t] \in Joining => node[t] \notin ItemsOf(o)
                        /\ pc[t] = "head" => node[t] \in ItemsOf(o)
                        /\ pc[t] = "attach" => cursor[t] \in ItemsOf(o)
  /\ ItemsOf(o) \subseteq live
  /\ \A n \in Nodes \ ItemsOf(o) : next[n] = NULL
  /\ \A i \in 1..Len(o) :
       \/ next[o[i]] = NULL
       \/ \E j \in 1..Len(o) : i < j /\ next[o[i]] = o[j]
       \/ \E t \in Threads : pc[t] = "tail" /\ next[o[i]] = node[t]

PushInv == use = "peers" /\ ~ removed => PushSafe /\ \E o \in Seq(Nodes) : InOrder(o)

\* A step of a list of peers that unlinks nothing.
Adds(t) == use = "peers" /\ ~ removed' /\ Step(t) /\ ListInv /\ PushSafe

\* It is not a step of list_remove after the search, nor one of a guarded list.
LEMMA AddSteps ==
  ASSUME NEW t \in Threads, Adds(t)
  PROVE  \/ BeginPush(t) \/ TestLen(t) \/ SetPrev(t) \/ ReadTail(t) \/ LinkLast(t) \/ SetTail(t)
         \/ SetFirst(t) \/ SetHead(t) \/ ClearNext(t) \/ ClearPrev(t) \/ ReadLen(t) \/ WriteLen(t)
         \/ BeginAt(t) \/ CheckIndex(t) \/ NewIterator(t) \/ Walk(t) \/ UseNode(t)
         \/ BeginRemove(t) \/ Find(t)
<1>1. ~ UnlinkNext(t) /\ ~ FreeNode(t) /\ ~ WriteLenBack(t)
  BY DEF Adds, PushSafe, UnlinkNext, FreeNode, WriteLenBack, At
<1>2. ~ RPop(t) /\ ~ Destroy(t)
  BY DEF Adds, RPop, Destroy
<1>3. ~ UnlinkPrev(t)
  <2>1. SUFFICES ASSUME UnlinkPrev(t) PROVE removed'
    BY DEF Adds
  <2>2. node[t] \in Nodes
    BY <2>1 DEF UnlinkPrev, At, Adds, ListInv, Holding, Removing
  <2>3. prev[node[t]] \in live \cup {NULL}
    BY <2>2 DEF Adds, PushSafe, Pointing
  <2> QED BY <2>1, <2>3 DEF UnlinkPrev, Access
<1> QED BY <1>1, <1>2, <1>3 DEF Adds, Step, list_rpush, list_at, list_remove

\* What the threads that add have allocated stays allocated, and no pointer leads
\* anywhere else.
LEMMA PointingStep ==
  ASSUME NEW t \in Threads, Adds(t)
  PROVE  fault' = "none" /\ live \subseteq live' /\ Pointing'
<1>1. fault = "none" /\ Pointing /\ NULL \notin live
  BY ListAssumption DEF Adds, PushSafe, ListInv, TypeOK
<1>2. /\ prev \in [Nodes -> Pointers] /\ next \in [Nodes -> Pointers]
      /\ node \in [Threads -> Pointers] /\ cursor \in [Threads -> Pointers]
      /\ pc[t] \in Pushing \cup {"use"} => node[t] \in Nodes /\ node[t] \in live
  <2>1. /\ prev \in [Nodes -> Pointers] /\ next \in [Nodes -> Pointers]
        /\ node \in [Threads -> Pointers] /\ cursor \in [Threads -> Pointers]
        /\ pc[t] \in Pushing \cup {"use"} => node[t] \in Nodes
    BY DEF Adds, ListInv, TypeOK, Holding
  <2>2. pc[t] \in Pushing \cup {"use"} => node[t] \in live
    BY <1>1, <2>1, ListAssumption DEF Pointing
  <2> QED BY <2>1, <2>2
<1>3. ASSUME UNCHANGED <<head, tail, prev, next, live, fault>>,
             UNCHANGED node \/ \E n \in live \cup {NULL} : node' = [node EXCEPT ![t] = n],
             UNCHANGED cursor \/ \E n \in live \cup {NULL} : cursor' = [cursor EXCEPT ![t] = n]
      PROVE  fault' = "none" /\ live \subseteq live' /\ Pointing'
  BY <1>1, <1>2, <1>3 DEF Pointing
<1>4. CASE BeginPush(t)
  <2>1. PICK n \in unused : /\ live' = live \cup {n} /\ node' = [node EXCEPT ![t] = n]
                            /\ prev' = [prev EXCEPT ![n] = NULL] /\ next' = [next EXCEPT ![n] = NULL]
    BY <1>4 DEF BeginPush
  <2>2. UNCHANGED <<head, tail, cursor, fault>>
    BY <1>4 DEF BeginPush
  <2> QED BY <1>1, <1>2, <2>1, <2>2 DEF Pointing
<1>5. CASE TestLen(t) \/ ReadLen(t) \/ BeginAt(t) \/ CheckIndex(t)
  BY <1>3, <1>5 DEF TestLen, ReadLen, BeginAt, CheckIndex, listVars, heapVars, localVars
<1>6. CASE WriteLen(t)
  <2>1. node' = [node EXCEPT ![t] = NULL] /\ UNCHANGED <<head, tail, prev, next, live, cursor, fault>>
    BY <1>6 DEF WriteLen, heapVars
  <2> QED BY <1>3, <2>1
<1>7. CASE SetPrev(t)
  <2>1. /\ pc[t] \in Pushing
        /\ prev' = [prev EXCEPT ![node[t]] = tail] /\ next' = [next EXCEPT ![node[t]] = NULL]
        /\ UNCHANGED <<head, tail, live, node, cursor, fault>>
    BY <1>7 DEF SetPrev, At, Pushing, heapVars, localVars
  <2> QED BY <1>1, <1>2, <2>1 DEF Pointing
<1>8. CASE LinkLast(t)
  <2>1. pc[t] \in Pushing /\ cursor[t] \in live /\ cursor[t] \in Nodes
    BY <1>1, <1>8 DEF LinkLast, At, Pushing, Adds, PushSafe, Pointing, Tailed, ListInv, TypeOK
  <2>2. /\ next' = [next EXCEPT ![cursor[t]] = node[t]] /\ cursor' = [cursor EXCEPT ![t] = NULL]
        /\ UNCHANGED <<head, tail, prev, live, node, fault>>
    BY <1>8, <2>1 DEF LinkLast, Access, heapVars
  <2> QED BY <1>1, <1>2, <2>1, <2>2 DEF Pointing
<1>9. CASE SetTail(t)
  <2>1. pc[t] \in Pushing /\ tail' = node[t] /\ UNCHANGED <<head, prev, next, live, node, cursor, fault>>
    BY <1>9 DEF SetTail, At, Pushing, heapVars, localVars
  <2> QED BY <1>1, <1>2, <2>1 DEF Pointing
<1>10. CASE SetFirst(t) \/ SetHead(t)
  <2>1. /\ pc[t] \in Pushing /\ UNCHANGED <<prev, next, live, node, cursor, fault>>
        /\ head' \in {head, node[t]} /\ tail' \in {tail, node[t]}
    BY <1>10 DEF SetFirst, SetHead, At, Pushing, heapVars, localVars
  <2> QED BY <1>1, <1>2, <2>1 DEF Pointing
<1>14. CASE ClearNext(t) \/ ClearPrev(t)
  <2>1. node[t] \in live /\ node[t] \in Nodes
    BY <1>2, <1>14 DEF ClearNext, ClearPrev, At, Pushing
  <2>2. /\ UNCHANGED <<head, tail, live, node, cursor, fault>>
        /\ prev' = prev \/ prev' = [prev EXCEPT ![node[t]] = NULL]
        /\ next' = next \/ next' = [next EXCEPT ![node[t]] = NULL]
    BY <1>14, <2>1 DEF ClearNext, ClearPrev, Access, heapVars, localVars
  <2> QED BY <1>1, <1>2, <2>1, <2>2 DEF Pointing
<1>11. CASE NewIterator(t) \/ BeginRemove(t) \/ ReadTail(t)
  <2>1. /\ UNCHANGED <<head, tail, prev, next, live, node, fault>>
        /\ cursor' = [cursor EXCEPT ![t] = head] \/ cursor' = [cursor EXCEPT ![t] = tail]
    BY <1>11 DEF NewIterator, BeginRemove, ReadTail, listVars, heapVars
  <2>2. head \in live \cup {NULL} /\ tail \in live \cup {NULL}
    BY <1>1 DEF Pointing
  <2> QED BY <1>3, <2>1, <2>2
<1>12. CASE Walk(t) \/ Find(t)
  <2>1. cursor[t] \in live \cup {NULL}
    BY <1>1 DEF Pointing
  <2>2. CASE cursor[t] = NULL
    <3>1. UNCHANGED <<head, tail, prev, next, live, node, cursor, fault>>
      BY <1>12, <2>2 DEF Walk, Find, listVars, heapVars
    <3> QED BY <1>3, <3>1
  <2>3. CASE cursor[t] \in live /\ cursor[t] # NULL
    <3>1. next[cursor[t]] \in live \cup {NULL}
      BY <1>1, <2>3 DEF Pointing, Adds, ListInv, TypeOK
    <3>2. UNCHANGED <<head, tail, prev, next, live, fault>>
      BY <1>12, <2>3 DEF Walk, Find, Access, listVars, heapVars
    <3>3. \/ node' = [node EXCEPT ![t] = cursor[t]] /\ cursor' = [cursor EXCEPT ![t] = NULL]
          \/ UNCHANGED node /\ cursor' = [cursor EXCEPT ![t] = next[cursor[t]]]
      BY <1>12, <2>3 DEF Walk, Find, Access
    <3> QED BY <1>3, <2>1, <3>1, <3>2, <3>3
  <2> QED BY <2>1, <2>2, <2>3
<1>13. CASE UseNode(t)
  <2>1. node[t] \in live
    BY <1>2, <1>13 DEF UseNode, At
  <2>2. node' = [node EXCEPT ![t] = NULL] /\ UNCHANGED <<head, tail, prev, next, live, cursor, fault>>
    BY <1>13, <2>1 DEF UseNode, Access, listVars, heapVars
  <2> QED BY <1>3, <2>2
<1> QED
  BY AddSteps, <1>4, <1>5, <1>6, <1>7, <1>8, <1>9, <1>10, <1>11, <1>12, <1>13, <1>14

\* What a step does to its thread.
LEMMA OwnStep ==
  ASSUME NEW t \in Threads, Adds(t)
  PROVE  /\ pc'[t] \notin {"unlinkNext", "free", "uncount"}
         /\ pc'[t] \in Relying => \/ (pc[t] \in Relying \/ len # 0) /\ tail' = tail
                                  \/ tail' = node[t] /\ node[t] \in Nodes
         /\ pc'[t] = "attach" => pc[t] = "link" /\ cursor'[t] = tail
         /\ pc'[t] = "head" => pc[t] = "first"
         /\ len' # len => pc[t] = "store"
         /\ tail' = tail \/ (tail' = node[t] /\ node[t] \in Nodes)
         /\ pc'[t] \in Joining =>
              \/ pc[t] \in Joining /\ node'[t] = node[t]
              \/ node'[t] \in unused
         /\ pc[t] \in Joining => pc'[t] \in Joining \/ tail' = node[t]
<1> USE DEF Goto, At, Return, Joining, Relying
<1>1. /\ pc \in [Threads -> Labels] /\ node \in [Threads -> Pointers]
      /\ cursor \in [Threads -> Pointers]
      /\ pc[t] \in Pushing => node[t] \in Nodes
  BY DEF Adds, ListInv, TypeOK, Holding
<1>2. CASE BeginPush(t)
  <2>1. PICK n \in unused : node' = [node EXCEPT ![t] = n]
    BY <1>2 DEF BeginPush
  <2>2. pc' = [pc EXCEPT ![t] = "test"] /\ UNCHANGED <<tail, len>> /\ pc[t] = "idle"
    BY <1>2 DEF BeginPush, Enter
  <2> QED BY <1>1, <2>1, <2>2
<1>3. CASE \/ TestLen(t) \/ SetPrev(t) \/ ReadTail(t) \/ SetTail(t) \/ SetFirst(t) \/ SetHead(t)
           \/ ReadLen(t)
  BY <1>1, <1>3 DEF TestLen, SetPrev, ReadTail, SetTail, SetFirst, SetHead, ReadLen, Pushing, listVars,
                    localVars
<1>4. CASE LinkLast(t)
  <2>1. cursor[t] \in live
    BY <1>4 DEF LinkLast, Adds, PushSafe, Pointing, Tailed
  <2> QED BY <1>1, <1>4, <2>1 DEF LinkLast, Access, Pushing
<1>8. CASE ClearNext(t) \/ ClearPrev(t)
  <2>1. node[t] \in live /\ pc[t] \in {"next", "back"}
    BY <1>1, <1>8, ListAssumption DEF ClearNext, ClearPrev, Adds, PushSafe, Pointing, Pushing
  <2>2. pc'[t] \in {"back", "count"} /\ UNCHANGED <<tail, len>>
    BY <1>1, <1>8, <2>1 DEF ClearNext, ClearPrev, Access
  <2> QED BY <2>1, <2>2
<1>5. CASE WriteLen(t)
  BY <1>1, <1>5 DEF WriteLen
<1>6. CASE BeginAt(t) \/ CheckIndex(t) \/ NewIterator(t) \/ BeginRemove(t)
  <2>1. /\ pc'[t] \in {"at", "iterate", "walk", "idle", "find"} /\ pc[t] \in {"idle", "at", "iterate"}
        /\ UNCHANGED <<tail, len>>
    BY <1>1, <1>6 DEF BeginAt, CheckIndex, NewIterator, BeginRemove, Enter, listVars
  <2> QED BY <2>1
<1>7. CASE Walk(t) \/ UseNode(t) \/ Find(t)
  <2>1. pc'[t] \in {"walk", "use", "find", "idle", "unlinkPrev"} /\ pc[t] \in {"walk", "use", "find"}
    BY <1>1, <1>7 DEF Walk, UseNode, Find, Access
  <2>2. UNCHANGED <<tail, len>>
    BY <1>7 DEF Walk, UseNode, Find, Access, listVars
  <2> QED BY <2>1, <2>2
<1> QED BY AddSteps, <1>2, <1>3, <1>4, <1>5, <1>6, <1>7, <1>8

\* Nothing bad is within reach of a step that adds.
LEMMA PushSafeStep ==
  ASSUME NEW t \in Threads, Adds(t)
  PROVE  PushSafe'
<1>1. /\ \A u \in Threads \ {t} : pc'[u] = pc[u] /\ node'[u] = node[u] /\ cursor'[u] = cursor[u]
      /\ Tailed /\ Apart /\ Pointing /\ Fresh /\ NULL \notin Nodes
      /\ \A u \in Threads : pc[u] \notin {"unlinkNext", "free", "uncount"}
      /\ \A u \in Threads : pc[u] \in Joining => node[u] \in Nodes
  BY OneThread, ListAssumption DEF Adds, PushSafe, ListInv, Holding, Joining, Pushing
<1>2. Tailed'
  <2>1. tail' = tail \/ tail' # NULL
    BY <1>1, OwnStep
  <2>2. /\ pc'[t] \in Relying => tail' # NULL
        /\ pc'[t] = "attach" => cursor'[t] # NULL
    BY <1>1, OwnStep DEF Tailed, Relying
  <2>3. len' # 0 => tail' # NULL
    <3>1. CASE len' = len
      BY <1>1, <2>1, <3>1 DEF Tailed
    <3>2. CASE len' # len
      BY <1>1, <2>1, <3>2, OwnStep DEF Tailed, Relying
    <3> QED BY <3>1, <3>2
  <2> QED BY <1>1, <2>1, <2>2, <2>3 DEF Tailed
<1>3. Apart'
  <2>1. SUFFICES ASSUME NEW u \in Threads \ {t}, pc'[t] \in Joining, pc'[u] \in Joining
                 PROVE  node'[t] # node'[u]
    BY <1>1 DEF Apart
  <2>2. node'[u] = node[u] /\ pc[u] \in Joining /\ node[u] \in live
    BY <1>1, <2>1 DEF Pointing
  <2>3. CASE pc[t] \in Joining /\ node'[t] = node[t]
    BY <1>1, <2>1, <2>2, <2>3 DEF Apart
  <2>4. CASE node'[t] \in unused
    BY <1>1, <2>2, <2>4 DEF Fresh
  <2> QED BY <2>1, <2>3, <2>4, OwnStep
<1>4. \A u \in Threads : pc'[u] \notin {"unlinkNext", "free", "uncount"}
  BY <1>1, OwnStep
<1> QED BY <1>2, <1>3, <1>4, PointingStep DEF PushSafe

\* A step that changes neither the ends nor the next pointers.
LEMMA KeepOrder ==
  ASSUME NEW t \in Threads, Adds(t), NEW o \in Seq(Nodes), InOrder(o),
         UNCHANGED <<head, tail, next>>, pc[t] # "tail",
         pc'[t] \in Joining => node'[t] \notin ItemsOf(o),
         pc'[t] = "head" => node'[t] \in ItemsOf(o),
         pc'[t] = "attach" => cursor'[t] \in ItemsOf(o)
  PROVE  InOrder(o)'
<1>1. /\ \A u \in Threads \ {t} : pc'[u] = pc[u] /\ node'[u] = node[u] /\ cursor'[u] = cursor[u]
      /\ live \subseteq live'
  BY OneThread, PointingStep DEF Adds, ListInv
<1>2. \A u \in Threads : /\ pc'[u] \in Joining => node'[u] \notin ItemsOf(o)
                         /\ pc'[u] = "head" => node'[u] \in ItemsOf(o)
                         /\ pc'[u] = "attach" => cursor'[u] \in ItemsOf(o)
  BY <1>1 DEF InOrder
<1>3. ASSUME NEW i \in 1..Len(o)
      PROVE  \/ next'[o[i]] = NULL
             \/ \E j \in 1..Len(o) : i < j /\ next'[o[i]] = o[j]
             \/ \E u \in Threads : pc'[u] = "tail" /\ next'[o[i]] = node'[u]
  <2>1. CASE next[o[i]] = NULL \/ \E j \in 1..Len(o) : i < j /\ next[o[i]] = o[j]
    BY <2>1
  <2>2. CASE \E u \in Threads : pc[u] = "tail" /\ next[o[i]] = node[u]
    <3>1. PICK u \in Threads : pc[u] = "tail" /\ next[o[i]] = node[u]
      BY <2>2
    <3>2. u # t /\ pc'[u] = "tail" /\ node'[u] = node[u] /\ next' = next
      BY <1>1, <3>1
    <3> QED BY <3>1, <3>2
  <2> QED BY <2>1, <2>2 DEF InOrder
<1> QED BY <1>1, <1>2, <1>3 DEF InOrder, Distinct

\* The node of a push becomes the tail: it is the last in the order.
LEMMA JoinOrder ==
  ASSUME NEW t \in Threads, Adds(t), NEW o \in Seq(Nodes), InOrder(o),
         pc[t] \in Joining, pc'[t] \notin Joining, UNCHANGED node,
         tail' = node[t], head' \in {head, node[t]},
         \A n \in Nodes \ {node[t]} : next'[n] = next[n], next'[node[t]] = NULL,
         NEW z, z = Append(o, node[t])
  PROVE  z \in Seq(Nodes) /\ InOrder(z)'
<1> DEFINE n == node[t]
<1>1. /\ \A u \in Threads \ {t} : pc'[u] = pc[u] /\ node'[u] = node[u] /\ cursor'[u] = cursor[u]
      /\ live \subseteq live'
      /\ n \in Nodes /\ n \in live /\ Apart /\ NULL \notin Nodes
  <2>1. n \in Nodes /\ NULL \notin Nodes
    BY ListAssumption DEF Adds, ListInv, Holding, Joining, Pushing
  <2>2. n \in live
    BY <2>1 DEF Adds, PushSafe, Pointing
  <2> QED BY <2>1, <2>2, OneThread, PointingStep DEF Adds, ListInv, PushSafe
<1>2. n \notin ItemsOf(o)
  BY DEF InOrder
<1>3. /\ z \in Seq(Nodes) /\ Len(o) \in Nat /\ Len(z) = Len(o) + 1
      /\ \A i \in 1..Len(o) : z[i] = o[i] /\ o[i] \in Nodes /\ o[i] # n
      /\ z[Len(o) + 1] = n
      /\ \A i \in 1..Len(z) : i \in 1..Len(o) \/ i = Len(o) + 1
      /\ ItemsOf(z) = ItemsOf(o) \cup {n}
      /\ Distinct(z)
  <2>1. /\ Append(o, n) \in Seq(Nodes) /\ Len(o) \in Nat /\ Len(Append(o, n)) = Len(o) + 1
        /\ \A i \in 1..Len(o) : Append(o, n)[i] = o[i] /\ o[i] \in Nodes
        /\ Append(o, n)[Len(o) + 1] = n
        /\ \A i \in 1..(Len(o) + 1) : i \in 1..Len(o) \/ i = Len(o) + 1
        /\ ItemsOf(Append(o, n)) = ItemsOf(o) \cup {n}
    BY <1>1, Longer
  <2>2. Distinct(Append(o, n))
    BY <1>1, <1>2, LongerDistinct DEF InOrder
  <2>3. \A i \in 1..Len(o) : o[i] # n
    BY <1>2 DEF ItemsOf
  <2> QED BY <2>1, <2>2, <2>3
<1>4. tail' = Link(z, Len(z)) /\ head' \in ItemsOf(z) \cup {NULL} /\ ItemsOf(z) \subseteq live'
  <2>1. Len(z) \in 1..Len(z) /\ Link(z, Len(z)) = n
    BY <1>3 DEF Link
  <2> QED BY <1>1, <1>3, <2>1 DEF InOrder
<1>5. ASSUME NEW u \in Threads, pc'[u] \in Joining PROVE node'[u] \notin ItemsOf(z)
  <2>1. u # t /\ pc[u] \in Joining /\ node'[u] = node[u]
    BY <1>1, <1>5
  <2>2. node[u] \notin ItemsOf(o) /\ node[u] # n
    BY <1>1, <2>1 DEF InOrder, Apart
  <2> QED BY <1>3, <2>1, <2>2
<1>8. ASSUME NEW u \in Threads
      PROVE  /\ pc'[u] = "head" => node'[u] \in ItemsOf(z)
             /\ pc'[u] = "attach" => cursor'[u] \in ItemsOf(z)
  <2>1. CASE u = t
    BY <1>3, <2>1 DEF Joining
  <2>2. CASE u # t
    BY <1>1, <1>3, <2>2 DEF InOrder
  <2> QED BY <2>1, <2>2
<1>6. ASSUME NEW m \in Nodes \ ItemsOf(z) PROVE next'[m] = NULL
  BY <1>3, <1>6 DEF InOrder
<1>7. ASSUME NEW i \in 1..Len(z)
      PROVE  \/ next'[z[i]] = NULL
             \/ \E j \in 1..Len(z) : i < j /\ next'[z[i]] = z[j]
             \/ \E u \in Threads : pc'[u] = "tail" /\ next'[z[i]] = node'[u]
  <2>1. CASE i = Len(o) + 1
    BY <1>3, <2>1
  <2>2. CASE i \in 1..Len(o)
    <3>1. next'[z[i]] = next[o[i]] /\ i < Len(o) + 1 /\ Len(o) + 1 \in 1..Len(z)
      BY <1>3, <2>2
    <3>2. CASE next[o[i]] = NULL
      BY <3>1, <3>2
    <3>3. CASE \E j \in 1..Len(o) : i < j /\ next[o[i]] = o[j]
      <4>1. PICK j \in 1..Len(o) : i < j /\ next[o[i]] = o[j]
        BY <3>3
      <4>2. j \in 1..Len(z) /\ z[j] = o[j]
        BY <1>3, <4>1
      <4> QED BY <3>1, <4>1, <4>2
    <3>4. CASE \E u \in Threads : pc[u] = "tail" /\ next[o[i]] = node[u]
      <4>1. PICK u \in Threads : pc[u] = "tail" /\ next[o[i]] = node[u]
        BY <3>4
      <4>2. CASE u = t
        <5>1. next'[z[i]] = z[Len(o) + 1]
          BY <1>3, <3>1, <4>1, <4>2
        <5> QED BY <3>1, <5>1
      <4>3. CASE u # t
        <5>1. pc'[u] = "tail" /\ node'[u] = node[u]
          BY <1>1, <4>1, <4>3
        <5> QED BY <3>1, <4>1, <5>1
      <4> QED BY <4>2, <4>3
    <3> QED BY <2>2, <3>2, <3>3, <3>4 DEF InOrder
  <2> QED BY <1>3, <2>1, <2>2
<1> QED BY <1>3, <1>4, <1>5, <1>6, <1>7, <1>8 DEF InOrder, Distinct

\* A step keeps an order, or makes the node it pushes the last.
LEMMA OrderStep ==
  ASSUME NEW t \in Threads, Adds(t), NEW o \in Seq(Nodes), InOrder(o)
  PROVE  \E p \in Seq(Nodes) : InOrder(p)'
<1> USE DEF Goto, At, Joining
<1>1. /\ pc \in [Threads -> Labels] /\ node \in [Threads -> Pointers]
      /\ pc[t] \in Pushing => node[t] \in Nodes
      /\ next \in [Nodes -> Pointers] /\ Fresh
      /\ ItemsOf(o) \subseteq live /\ (pc[t] \in Joining => node[t] \notin ItemsOf(o))
  BY DEF Adds, ListInv, TypeOK, Holding, InOrder
<1>2. ASSUME UNCHANGED <<head, tail, next>>, pc[t] \notin {"tail", "first", "link"} PROVE InOrder(o)'
  <2>1. pc'[t] \in Joining => node'[t] \notin ItemsOf(o)
    BY <1>1, OwnStep DEF Fresh
  <2>2. pc'[t] # "head" /\ pc'[t] # "attach"
    BY <1>2, OwnStep
  <2> QED BY <1>2, <2>1, <2>2, KeepOrder
<1>3. CASE BeginAt(t) \/ CheckIndex(t) \/ NewIterator(t) \/ BeginRemove(t)
  BY <1>2, <1>3 DEF BeginAt, CheckIndex, NewIterator, BeginRemove, Enter, listVars
<1>10. CASE BeginPush(t)
  <2>1. PICK n \in unused : next' = [next EXCEPT ![n] = NULL]
    BY <1>10 DEF BeginPush
  <2>2. n \in Nodes /\ n \notin ItemsOf(o)
    BY <1>1 DEF Adds, ListInv, TypeOK, Fresh
  <2>3. next[n] = NULL
    BY <2>2 DEF InOrder
  <2>4. next' = next
    BY <1>1, <2>1, <2>3
  <2> QED BY <1>2, <1>10, <2>4 DEF BeginPush, Enter
<1>4. CASE TestLen(t) \/ ReadLen(t) \/ WriteLen(t)
  BY <1>2, <1>4 DEF TestLen, ReadLen, WriteLen, listVars
<1>5. CASE Walk(t) \/ UseNode(t) \/ Find(t)
  <2>1. UNCHANGED <<head, tail, next>> /\ pc[t] \in {"walk", "use", "find"}
    BY <1>5 DEF Walk, UseNode, Find, Access, listVars
  <2> QED BY <1>2, <2>1
<1>6. CASE SetPrev(t)
  <2>1. /\ pc[t] = "prev" /\ UNCHANGED <<head, tail>> /\ node[t] \in Nodes
        /\ next' = [next EXCEPT ![node[t]] = NULL]
    BY <1>1, <1>6 DEF SetPrev, Pushing
  <2>2. next[node[t]] = NULL
    BY <1>1, <2>1 DEF InOrder
  <2>3. next' = next
    BY <1>1, <2>1, <2>2
  <2> QED BY <1>2, <2>1, <2>3
<1>11. CASE ReadTail(t)
  <2>1. /\ pc[t] = "link" /\ pc'[t] = "attach" /\ UNCHANGED <<head, tail, next, node>>
        /\ cursor' = [cursor EXCEPT ![t] = tail]
    BY <1>1, <1>11 DEF ReadTail, listVars
  <2>2. cursor'[t] = tail /\ tail # NULL
    BY <2>1 DEF Adds, ListInv, TypeOK, PushSafe, Tailed, Relying
  <2>3. tail \in ItemsOf(o)
    BY <2>2 DEF InOrder, Link, ItemsOf
  <2>4. node'[t] \notin ItemsOf(o)
    BY <1>1, <2>1
  <2> QED BY <2>1, <2>2, <2>3, <2>4, KeepOrder
<1>7. CASE LinkLast(t)
  <2> DEFINE last == cursor[t]
  <2>1. /\ pc[t] = "attach" /\ last \in live /\ last \in ItemsOf(o) /\ last \in Nodes
        /\ cursor \in [Threads -> Pointers]
    <3>1. pc[t] = "attach" /\ last \in ItemsOf(o) /\ cursor \in [Threads -> Pointers]
      BY <1>7 DEF LinkLast, InOrder, Adds, ListInv, TypeOK
    <3>2. live \subseteq Nodes
      BY DEF Adds, ListInv, TypeOK
    <3> QED BY <1>1, <3>1, <3>2
  <2>2. /\ next' = [next EXCEPT ![last] = node[t]] /\ UNCHANGED <<head, tail, node, live>>
        /\ pc'[t] = "tail"
    BY <1>1, <1>7, <2>1 DEF LinkLast, Access, heapVars
  <2>3. /\ \A u \in Threads \ {t} : pc'[u] = pc[u] /\ cursor'[u] = cursor[u]
        /\ \A i \in 1..Len(o) : o[i] \in Nodes
    BY OneThread DEF Adds, ListInv
  <2> HIDE DEF last
  <2>4. \A m \in Nodes : next'[m] = IF m = last THEN node[t] ELSE next[m]
    BY <1>1, <2>2
  <2>5. ASSUME NEW i \in 1..Len(o)
        PROVE  \/ next'[o[i]] = NULL
               \/ \E j \in 1..Len(o) : i < j /\ next'[o[i]] = o[j]
               \/ \E u \in Threads : pc'[u] = "tail" /\ next'[o[i]] = node'[u]
    <3>1. CASE o[i] = last
      BY <2>2, <2>3, <2>4, <3>1
    <3>2. CASE o[i] # last
      <4>1. next'[o[i]] = next[o[i]]
        BY <2>3, <2>4, <3>2
      <4>2. \A u \in Threads : pc[u] = "tail" => pc'[u] = "tail" /\ node'[u] = node[u]
        BY <2>1, <2>2, <2>3
      <4>3. \/ next[o[i]] = NULL
            \/ \E j \in 1..Len(o) : i < j /\ next[o[i]] = o[j]
            \/ \E u \in Threads : pc[u] = "tail" /\ next[o[i]] = node[u]
        BY DEF InOrder
      <4> QED BY <4>1, <4>2, <4>3
    <3> QED BY <3>1, <3>2
  <2>6. \A m \in Nodes \ ItemsOf(o) : next'[m] = NULL
    BY <2>1, <2>4 DEF InOrder
  <2>7. \A u \in Threads : /\ pc'[u] \in Joining => node'[u] \notin ItemsOf(o)
                           /\ pc'[u] = "head" => node'[u] \in ItemsOf(o)
                           /\ pc'[u] = "attach" => cursor'[u] \in ItemsOf(o)
    BY <1>1, <2>1, <2>2, <2>3 DEF InOrder
  <2> QED BY <2>2, <2>5, <2>6, <2>7 DEF InOrder, Distinct
<1>8. CASE SetTail(t)
  <2>1. /\ pc[t] = "tail" /\ pc'[t] = "count" /\ UNCHANGED <<head, next, node>> /\ tail' = node[t]
        /\ node[t] \in Nodes
    BY <1>1, <1>8 DEF SetTail, Pushing, localVars
  <2>2. next'[node[t]] = NULL
    BY <1>1, <2>1 DEF InOrder
  <2>3. PICK z : z = Append(o, node[t])
    OBVIOUS
  <2>4. z \in Seq(Nodes) /\ InOrder(z)'
    BY <2>1, <2>2, <2>3, JoinOrder
  <2> QED BY <2>4
<1>9. CASE SetFirst(t)
  <2>1. /\ pc[t] = "first" /\ pc'[t] = "head" /\ UNCHANGED <<head, next, node>> /\ tail' = node[t]
        /\ node[t] \in Nodes
    BY <1>1, <1>9 DEF SetFirst, Pushing, localVars
  <2>2. next'[node[t]] = NULL
    BY <1>1, <2>1 DEF InOrder
  <2>3. PICK z : z = Append(o, node[t])
    OBVIOUS
  <2>4. z \in Seq(Nodes) /\ InOrder(z)'
    BY <2>1, <2>2, <2>3, JoinOrder
  <2> QED BY <2>4
<1>12. CASE SetHead(t)
  <2>1. /\ pc[t] = "head" /\ pc'[t] = "next" /\ UNCHANGED <<tail, next, node, live>> /\ head' = node[t]
    BY <1>1, <1>12 DEF SetHead, heapVars, localVars
  <2>2. \A u \in Threads \ {t} : pc'[u] = pc[u] /\ cursor'[u] = cursor[u]
    BY OneThread DEF Adds, ListInv
  <2>3. node[t] \in ItemsOf(o)
    BY <2>1 DEF InOrder
  <2>4. \A u \in Threads : /\ pc'[u] \in Joining => node'[u] \notin ItemsOf(o)
                           /\ pc'[u] = "head" => node'[u] \in ItemsOf(o)
                           /\ pc'[u] = "attach" => cursor'[u] \in ItemsOf(o)
    BY <2>1, <2>2 DEF InOrder
  <2>5. \A u \in Threads : pc[u] = "tail" => pc'[u] = "tail"
    BY <2>1, <2>2
  <2> QED BY <2>1, <2>3, <2>4, <2>5 DEF InOrder, Distinct
<1>13. CASE ClearNext(t) \/ ClearPrev(t)
  <2>1. node[t] \in live /\ pc[t] \in {"next", "back"}
    BY <1>1, <1>13, ListAssumption DEF ClearNext, ClearPrev, Adds, PushSafe, Pointing, Pushing
  <2>2. /\ pc'[t] \in {"back", "count"} /\ UNCHANGED <<head, tail, node, live>>
        /\ next' = next \/ next' = [next EXCEPT ![node[t]] = NULL]
    BY <1>1, <1>13, <2>1 DEF ClearNext, ClearPrev, Access, heapVars, localVars
  <2>3. \A m \in Nodes : next'[m] \in {next[m], NULL}
    BY <1>1, <2>2
  <2>4. \A u \in Threads \ {t} : pc'[u] = pc[u] /\ cursor'[u] = cursor[u]
    BY OneThread DEF Adds, ListInv
  <2>5. \A u \in Threads : /\ pc'[u] \in Joining => node'[u] \notin ItemsOf(o)
                           /\ pc'[u] = "head" => node'[u] \in ItemsOf(o)
                           /\ pc'[u] = "attach" => cursor'[u] \in ItemsOf(o)
    BY <2>2, <2>4 DEF InOrder
  <2>6. \A u \in Threads : pc[u] = "tail" => pc'[u] = "tail" /\ node'[u] = node[u]
    BY <2>1, <2>2, <2>4
  <2>7. \A i \in 1..Len(o) : \/ next'[o[i]] = NULL
                             \/ \E j \in 1..Len(o) : i < j /\ next'[o[i]] = o[j]
                             \/ \E u \in Threads : pc'[u] = "tail" /\ next'[o[i]] = node'[u]
    <3>1. \A i \in 1..Len(o) : o[i] \in Nodes
      OBVIOUS
    <3> QED BY <2>3, <2>6, <3>1 DEF InOrder
  <2>8. \A m \in Nodes \ ItemsOf(o) : next'[m] = NULL
    BY <2>3 DEF InOrder
  <2> QED BY <2>2, <2>5, <2>7, <2>8 DEF InOrder, Distinct
<1> QED
  BY AddSteps, <1>3, <1>4, <1>5, <1>6, <1>7, <1>8, <1>9, <1>10, <1>11, <1>12, <1>13

\* A walk that follows the order ends.
LEMMA WalkEnds ==
  ASSUME TypeOK, NEW o \in Seq(Nodes), InOrder(o)
  PROVE  After(head, next, Cardinality(Nodes)) = NULL
<1> DEFINE At_(k) == After(head, next, k)
           Ok(k) == \/ At_(k) = NULL
                    \/ \E i \in 1..Len(o) : k < i /\ At_(k) = o[i]
                    \/ At_(k) \in Nodes \ ItemsOf(o) /\ k <= Len(o)
           S == {k \in Nat : Ok(k)}
           top == Cardinality(Nodes)
<1>1. /\ Len(o) \in Nat /\ top \in Nat
      /\ \A i \in 1..Len(o) : o[i] \in Nodes
      /\ next \in [Nodes -> Pointers]
      /\ \A k \in Nat : At_(k + 1) = IF At_(k) = NULL THEN NULL ELSE next[At_(k)]
      /\ At_(0) = head
  <2>1. Len(o) \in Nat /\ \A i \in 1..Len(o) : o[i] \in Nodes
    OBVIOUS
  <2>2. top \in Nat /\ next \in [Nodes -> Pointers]
    BY ListAssumption, FS_CardinalityType DEF TypeOK
  <2>3. ASSUME NEW k \in Nat
        PROVE  /\ At_(k + 1) = IF At_(k) = NULL THEN NULL ELSE next[At_(k)]
               /\ At_(0) = head
    BY AfterSteps
  <2>4. At_(0) = head
    BY <2>3
  <2> HIDE DEF At_
  <2> QED BY <2>1, <2>2, <2>3, <2>4
<1> HIDE DEF At_
<1>2. 0 \in S
  <2>1. head = NULL \/ \E i \in 1..Len(o) : head = o[i]
    BY DEF InOrder, ItemsOf
  <2> QED BY <1>1, <2>1
<1>3. ASSUME NEW k \in S PROVE k + 1 \in S
  <2>1. CASE At_(k) = NULL
    BY <1>1, <2>1
  <2>2. CASE At_(k) \in Nodes \ ItemsOf(o) /\ At_(k) # NULL
    <3>1. next[At_(k)] = NULL
      BY <2>2 DEF InOrder
    <3> QED BY <1>1, <2>2, <3>1
  <2>3. CASE At_(k) # NULL /\ \E i \in 1..Len(o) : k < i /\ At_(k) = o[i]
    <3>1. PICK i \in 1..Len(o) : k < i /\ At_(k) = o[i]
      BY <2>3
    <3>2. At_(k + 1) = next[o[i]]
      BY <1>1, <2>3, <3>1
    <3>3. CASE next[o[i]] = NULL
      BY <3>2, <3>3
    <3>4. CASE \E j \in 1..Len(o) : i < j /\ next[o[i]] = o[j]
      <4>1. PICK j \in 1..Len(o) : i < j /\ next[o[i]] = o[j]
        BY <3>4
      <4>2. k + 1 < j
        BY <1>1, <3>1, <4>1
      <4> QED BY <3>2, <4>1, <4>2
    <3>5. CASE \E u \in Threads : pc[u] = "tail" /\ next[o[i]] = node[u]
      <4>1. PICK u \in Threads : pc[u] = "tail" /\ next[o[i]] = node[u]
        BY <3>5
      <4>2. node[u] \notin ItemsOf(o) /\ k + 1 <= Len(o)
        <5>1. node[u] \notin ItemsOf(o)
          BY <4>1 DEF InOrder, Joining
        <5> QED BY <1>1, <3>1, <5>1
      <4>3. next[o[i]] = NULL \/ next[o[i]] \in Nodes
        BY <1>1 DEF Pointers
      <4> QED BY <3>2, <4>1, <4>2, <4>3
    <3> QED BY <3>3, <3>4, <3>5 DEF InOrder
  <2> QED BY <2>1, <2>2, <2>3
<1>4. Ok(top)
  <2>1. S = Nat
    <3> HIDE DEF S
    <3> QED BY <1>2, <1>3, Naturals DEF S
  <2> QED BY <1>1, <2>1
<1>5. Len(o) <= top
  BY LengthFits DEF InOrder
<1>6. ASSUME NEW n \in Nodes, n \notin ItemsOf(o) PROVE Len(o) + 1 <= top
  <2>1. Append(o, n) \in Seq(Nodes) /\ Len(Append(o, n)) = Len(o) + 1
    BY AppendProperties
  <2>2. Distinct(Append(o, n))
    BY <1>6, LongerDistinct DEF InOrder
  <2> QED BY <2>1, <2>2, LengthFits
<1>7. At_(top) = NULL
  <2>1. ~ \E i \in 1..Len(o) : top < i /\ At_(top) = o[i]
    BY <1>1, <1>5
  <2>2. ~ (At_(top) \in Nodes \ ItemsOf(o) /\ top <= Len(o))
    BY <1>1, <1>6
  <2> QED BY <1>4, <2>1, <2>2
<1> QED BY <1>7 DEF At_

\* A walk along a list without an overlap of operations ends too.
LEMMA ListEnds ==
  ASSUME TypeOK, NEW s \in Seq(Nodes), Distinct(s), Forward(s)
  PROVE  After(head, next, Cardinality(Nodes)) = NULL
<1> DEFINE S == {k \in Nat : After(head, next, Len(s) + k) = NULL}
<1>1. Len(s) \in Nat /\ Cardinality(Nodes) \in Nat /\ Len(s) <= Cardinality(Nodes)
  BY LengthFits, ListAssumption, FS_CardinalityType
<1>2. 0 \in S
  <2>1. Len(s) \in 0..Len(s) /\ Link(s, Len(s) + 1) = NULL /\ Len(s) + 0 = Len(s)
    BY <1>1 DEF Link
  <2>2. After(head, next, Len(s)) = Link(s, Len(s) + 1)
    BY <2>1, ForwardWalk
  <2> QED BY <2>1, <2>2
<1>3. ASSUME NEW k \in S PROVE k + 1 \in S
  <2>1. Len(s) + k \in Nat /\ Len(s) + (k + 1) = (Len(s) + k) + 1
    BY <1>1
  <2>2. After(head, next, (Len(s) + k) + 1) = NULL
    BY <2>1, AfterSteps
  <2> QED BY <2>1, <2>2
<1>4. S = Nat
  <2> HIDE DEF S
  <2> QED BY <1>2, <1>3, Naturals DEF S
<1>5. Cardinality(Nodes) - Len(s) \in S /\ Len(s) + (Cardinality(Nodes) - Len(s)) = Cardinality(Nodes)
  BY <1>1, <1>4
<1>6. After(head, next, Len(s) + (Cardinality(Nodes) - Len(s))) = NULL
  BY <1>5
<1> QED BY <1>5, <1>6

\* There is no fault, and a walk ends, in the middle of an operation as well.
LEMMA QuietListEnds ==
  ASSUME ListInv, ~ overlap
  PROVE  fault = "none" /\ After(head, next, Cardinality(Nodes)) = NULL
<1>1. TypeOK /\ Shape /\ items \in Seq(Nodes) /\ Distinct(items) /\ fault = "none"
  BY DEF ListInv, TypeOK, Shape
<1>2. CASE \A t \in Threads : pc[t] \notin Pushing \cup Removing
  BY <1>1, <1>2, ListEnds DEF Shape, Whole
<1>3. ASSUME NEW t \in Threads, pc[t] \in Pushing PROVE After(head, next, Cardinality(Nodes)) = NULL
  <2>1. PushShape(t) /\ node[t] \in Nodes
    BY <1>1, <1>3 DEF Shape, ListInv, Holding
  <2>2. CASE pc[t] \in {"test", "prev", "link", "attach", "first"}
    BY <1>1, <1>3, <2>1, <2>2, ListEnds DEF PushShape, Whole
  <2>4. CASE pc[t] = "head"
    <3>1. items = <<>> /\ head = NULL
      BY <1>3, <2>1, <2>4 DEF PushShape
    <3>2. Forward(items)
      BY <3>1 DEF Forward, Link
    <3> QED BY <1>1, <3>2, ListEnds
  <2>5. CASE pc[t] \in {"next", "back"}
    <3>1. items = <<>> /\ head = node[t] /\ next[node[t]] = NULL
      BY <1>3, <2>1, <2>5 DEF PushShape
    <3>2. Append(items, node[t]) = <<node[t]>> /\ <<node[t]>> \in Seq(Nodes)
      BY <2>1, <3>1
    <3>3. Forward(<<node[t]>>) /\ Distinct(<<node[t]>>)
      BY <3>1 DEF Forward, Link, Distinct
    <3> QED BY <1>1, <3>2, <3>3, ListEnds
  <2>3. CASE pc[t] \in {"tail", "count", "store"}
    <3>1. Forward(Append(items, node[t])) /\ node[t] \notin ItemsOf(items)
      BY <1>3, <2>1, <2>3 DEF PushShape, Whole
    <3>2. Append(items, node[t]) \in Seq(Nodes) /\ Distinct(Append(items, node[t]))
      BY <1>1, <2>1, <3>1, LongerDistinct, AppendProperties
    <3> QED BY <1>1, <3>1, <3>2, ListEnds
  <2> QED BY <1>3, <2>2, <2>3, <2>4, <2>5 DEF Pushing
<1>4. ASSUME NEW t \in Threads, pc[t] \in Removing PROVE After(head, next, Cardinality(Nodes)) = NULL
  <2>1. RemoveShape(t)
    BY <1>1 DEF Shape
  <2>2. CASE pc[t] = "unlinkPrev"
    BY <1>1, <1>4, <2>1, <2>2, ListEnds DEF RemoveShape, Whole
  <2>3. CASE pc[t] \in {"unlinkNext", "free", "uncount"}
    <3>1. Forward(Without(items, node[t])) /\ node[t] \in ItemsOf(items)
      BY <1>4, <2>1, <2>3 DEF RemoveShape, Whole
    <3>2. Without(items, node[t]) \in Seq(Nodes) /\ Distinct(Without(items, node[t]))
      BY <1>1, <3>1, TakeOut
    <3> QED BY <1>1, <3>1, <3>2, ListEnds
  <2> QED BY <1>4, <2>2, <2>3 DEF Removing
<1> QED BY <1>1, <1>2, <1>3, <1>4

\* LinkedList: the order of the nodes is kept as long as none is unlinked.
LEMMA PushInvariant == Spec => []PushInv
<1>1. ASSUME Init PROVE PushInv
  <2> USE <1>1 DEF Init
  <2>1. PushSafe
    BY DEF PushSafe, Pointing, Tailed, Apart, Joining, Relying
  <2>2. InOrder(<<>>) /\ <<>> \in Seq(Nodes)
    BY DEF InOrder, Distinct, Link, ItemsOf, Joining
  <2> QED BY <2>1, <2>2 DEF PushInv
<1>2. ASSUME ListInv, PushInv, [Next]_vars PROVE PushInv'
  <2>1. ASSUME NEW t \in Threads, Step(t), use' = "peers", ~ removed'
        PROVE  PushSafe' /\ \E o \in Seq(Nodes) : InOrder(o)'
    <3>1. use = "peers" /\ ~ removed
      BY <1>2, <2>1, OneThread DEF ListInv
    <3>2. Adds(t)
      BY <1>2, <2>1, <3>1 DEF Adds, PushInv
    <3>3. PICK o \in Seq(Nodes) : InOrder(o)
      BY <1>2, <3>1 DEF PushInv
    <3> QED BY <3>2, <3>3, PushSafeStep, OrderStep
  <2>2. ASSUME UNCHANGED vars PROVE PushInv'
    <3> USE <2>2 DEF vars, listVars, heapVars, localVars, ghostVars
    <3>1. ASSUME PushSafe PROVE PushSafe'
      BY <3>1 DEF PushSafe, Pointing, Tailed, Apart
    <3>2. ASSUME NEW o \in Seq(Nodes), InOrder(o) PROVE InOrder(o)'
      BY <3>2 DEF InOrder, Distinct
    <3> QED BY <1>2, <3>1, <3>2 DEF PushInv
  <2> QED BY <1>2, <2>1, <2>2 DEF Next, Step, PushInv
<1> QED BY <1>1, <1>2, ListInvariant, PTL DEF Spec

\* LinkedList: as long as nothing is removed, pushes that overlap (main.c:84 pushes
\* without the mutex) lose nodes, but no operation uses a bad pointer and a walk ends.
THEOREM OverlapOnlyLoses == Spec => []PushesOnlyLose
<1>1. ASSUME ListInv, PushInv PROVE PushesOnlyLose
  <2>1. SUFFICES ASSUME ~ removed
                 PROVE  fault = "none" /\ After(head, next, Cardinality(Nodes)) = NULL
    BY DEF PushesOnlyLose
  <2>2. CASE use = "peers"
    <3>1. fault = "none" /\ \E o \in Seq(Nodes) : InOrder(o)
      BY <1>1, <2>1, <2>2 DEF PushInv, PushSafe
    <3> QED BY <1>1, <3>1, WalkEnds DEF ListInv
  <2>3. CASE use = "guarded"
    <3>1. ~ overlap
      BY <1>1, <2>3 DEF ListInv, Exclusive
    <3> QED BY <1>1, <3>1, QuietListEnds
  <2> QED BY <1>1, <2>2, <2>3 DEF ListInv, TypeOK
<1> QED BY <1>1, ListInvariant, PushInvariant, PTL
=============================================================================
