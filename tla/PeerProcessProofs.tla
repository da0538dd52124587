--------------------------- MODULE PeerProcessProofs ---------------------------
(* Proofs about PeerProcess for every finite set of connections. *)
EXTENDS PeerProcess, FiniteSetTheorems, SequenceTheorems, TLAPS

\* What Append and Tail do to a queue, element by element.
LEMMA AppendFacts ==
  ASSUME NEW S, NEW s \in Seq(S), NEW x \in S
  PROVE  /\ Append(s, x) \in Seq(S) /\ Append(s, x) # <<>>
         /\ Len(s) \in Nat /\ Len(Append(s, x)) = Len(s) + 1
         /\ \A i \in 1..Len(s) : Append(s, x)[i] = s[i]
         /\ Append(s, x)[Len(s) + 1] = x
OBVIOUS

LEMMA TailFacts ==
  ASSUME NEW S, NEW s \in Seq(S), s # <<>>
  PROVE  /\ Tail(s) \in Seq(S)
         /\ Len(s) \in Nat \ {0} /\ Len(Tail(s)) = Len(s) - 1
         /\ \A i \in 1..Len(Tail(s)) : Tail(s)[i] = s[i + 1]
<1>1. Tail(s) \in Seq(S) /\ Len(Tail(s)) = Len(s) - 1 /\ \A i \in 1..Len(Tail(s)) : Tail(s)[i] = s[i + 1]
  BY HeadTailProperties
<1>2. Len(s) \in Nat \ {0}
  BY EmptySeq
<1> QED BY <1>1, <1>2

\* Before the collector is set up nothing is queued.
LEMMA QueueEmptyEarly ==
  ASSUME PeerInv, serverPc \in {"off", "start", "bind"}
  PROVE  trash = <<>> /\ head = NULL
<1>1. \A i \in 1..Len(trash) : FALSE
  BY DEF PeerInv, TypeOK, Early, Elements
<1>2. trash = <<>>
  BY <1>1, EmptySeq DEF PeerInv, TypeOK
<1> QED BY <1>2 DEF PeerInv, Linked

\* Every variable keeps its type.
LEMMA TypeStep == PeerInv /\ [Next]_vars => TypeOK'
<1> SUFFICES ASSUME PeerInv, [Next]_vars
             PROVE  TypeOK'
  BY DEF PeerInv
<1> USE PeerAssumption DEF PeerInv, TypeOK, Pointers, Goto
<1>0. CASE UNCHANGED vars
  BY <1>0 DEF vars, shellVars, gcVars, queueVars
<1>1. ASSUME CreateThreads PROVE TypeOK'
  BY <1>1 DEF CreateThreads, shellVars, gcVars, queueVars
<1>2. ASSUME StartClient PROVE TypeOK'
  BY <1>2 DEF StartClient, shellVars, gcVars, queueVars
<1>3. ASSUME ExitCommand PROVE TypeOK'
  BY <1>3 DEF ExitCommand, shellVars, gcVars, queueVars
<1>4. ASSUME JoinClient PROVE TypeOK'
  BY <1>4 DEF JoinClient, shellVars, gcVars, queueVars
<1>5. ASSUME JoinServer PROVE TypeOK'
  BY <1>5 DEF JoinServer, shellVars, gcVars, queueVars
<1>6. ASSUME StartServer PROVE TypeOK'
  BY <1>6 DEF StartServer, shellVars, gcVars, queueVars
<1>7. ASSUME Bind PROVE TypeOK'
  BY <1>7 DEF Bind, shellVars, gcVars, queueVars
<1>8. ASSUME NEW c \in Conns, Accept(c) PROVE TypeOK'
  BY <1>8 DEF Accept, shellVars, gcVars, queueVars
<1>9. ASSUME AcceptFails PROVE TypeOK'
  BY <1>9 DEF AcceptFails, shellVars, gcVars, queueVars
<1>10. ASSUME NEW c \in Conns, Serve(c) PROVE TypeOK'
  BY <1>10 DEF Serve, shellVars, gcVars, queueVars
<1>11. ASSUME NEW c \in Conns, Allocate(c) PROVE TypeOK'
  BY <1>11 DEF Allocate, shellVars, gcVars, queueVars
<1>12. ASSUME NEW c \in Conns, PushTrash(c) PROVE TypeOK'
  <2>1. trash' \in Seq(Conns)
    BY <1>12, AppendFacts DEF PushTrash
  <2> QED BY <1>12, <2>1 DEF PushTrash, shellVars, gcVars
<1>13. ASSUME NEW c \in Conns, PostGarbage(c) PROVE TypeOK'
  BY <1>13 DEF PostGarbage, shellVars, gcVars, queueVars
<1>14. ASSUME WaitGarbage PROVE TypeOK'
  BY <1>14 DEF WaitGarbage, shellVars, gcVars, queueVars
<1>15. ASSUME PopTrash PROVE TypeOK'
  <2>1. CASE head = NULL
    BY <1>15, <2>1 DEF PopTrash, shellVars
  <2>2. CASE head # NULL
    <3>1. trash # <<>>
      BY <2>2 DEF Linked
    <3>2. trash' \in Seq(Conns)
      BY <1>15, <2>2, <3>1, TailFacts DEF PopTrash
    <3> QED BY <1>15, <2>2, <3>2 DEF PopTrash, shellVars
  <2> QED BY <2>1, <2>2
<1>16. ASSUME FreeElement PROVE TypeOK'
  BY <1>16 DEF FreeElement, shellVars, gcVars, queueVars
<1>17. ASSUME JoinSubThread PROVE TypeOK'
  <2>1. arg \in Conns
    BY <1>17 DEF JoinSubThread, Elements
  <2> QED BY <1>17, <2>1 DEF JoinSubThread, shellVars, queueVars
<1> QED
  BY <1>0, <1>1, <1>2, <1>3, <1>4, <1>5, <1>6, <1>7, <1>8, <1>9, <1>10, <1>11,
     <1>12, <1>13, <1>14, <1>15, <1>16, <1>17
  DEF Next, MainThread, ServerThread, ServerSubThread, GarbageCollector, Outside

\* Nothing is accepted before the collector runs.
LEMMA EarlyStep == PeerInv /\ [Next]_vars => Early'
<1> SUFFICES ASSUME PeerInv, pc \in [Conns -> {"absent", "serve", "alloc", "link", "post", "ended"}], Early, [Next]_vars
             PROVE  Early'
  BY DEF PeerInv, TypeOK
<1> USE DEF Early, Goto
<1>0. CASE UNCHANGED vars
  BY <1>0 DEF vars, shellVars, gcVars, queueVars
<1>1. ASSUME CreateThreads PROVE Early'
  BY <1>1 DEF CreateThreads, shellVars, gcVars, queueVars
<1>2. ASSUME StartClient PROVE Early'
  BY <1>2 DEF StartClient, shellVars, gcVars, queueVars
<1>3. ASSUME ExitCommand PROVE Early'
  BY <1>3 DEF ExitCommand, shellVars, gcVars, queueVars
<1>4. ASSUME JoinClient PROVE Early'
  BY <1>4 DEF JoinClient, shellVars, gcVars, queueVars
<1>5. ASSUME JoinServer PROVE Early'
  BY <1>5 DEF JoinServer, shellVars, gcVars, queueVars
<1>6. ASSUME StartServer PROVE Early'
  BY <1>6 DEF StartServer, shellVars, gcVars, queueVars
<1>7. ASSUME Bind PROVE Early'
  BY <1>7 DEF Bind, shellVars, gcVars, queueVars
<1>8. ASSUME NEW c \in Conns, Accept(c) PROVE Early'
  BY <1>8 DEF Accept, shellVars, gcVars, queueVars
<1>9. ASSUME AcceptFails PROVE Early'
  BY <1>9 DEF AcceptFails, shellVars, gcVars, queueVars
<1>10. ASSUME NEW c \in Conns, Serve(c) PROVE Early'
  BY <1>10 DEF Serve, shellVars, gcVars, queueVars
<1>11. ASSUME NEW c \in Conns, Allocate(c) PROVE Early'
  BY <1>11 DEF Allocate, shellVars, gcVars, queueVars
<1>12. ASSUME NEW c \in Conns, PushTrash(c) PROVE Early'
  BY <1>12 DEF PushTrash, shellVars, gcVars, queueVars
<1>13. ASSUME NEW c \in Conns, PostGarbage(c) PROVE Early'
  BY <1>13 DEF PostGarbage, shellVars, gcVars, queueVars
<1>14. ASSUME WaitGarbage PROVE Early'
  BY <1>14 DEF WaitGarbage, shellVars, gcVars, queueVars
<1>15. ASSUME PopTrash PROVE Early'
  BY <1>15 DEF PopTrash, shellVars, gcVars, queueVars
<1>16. ASSUME FreeElement PROVE Early'
  BY <1>16 DEF FreeElement, shellVars, gcVars, queueVars
<1>17. ASSUME JoinSubThread PROVE Early'
  BY <1>17 DEF JoinSubThread, shellVars, gcVars, queueVars
<1> QED
  BY <1>0, <1>1, <1>2, <1>3, <1>4, <1>5, <1>6, <1>7, <1>8, <1>9, <1>10, <1>11,
     <1>12, <1>13, <1>14, <1>15, <1>16, <1>17
  DEF Next, MainThread, ServerThread, ServerSubThread, GarbageCollector, Outside

\* An element is in one place only.
LEMMA ElementsStep == PeerInv /\ [Next]_vars => Elements'
<1> SUFFICES ASSUME PeerInv, [Next]_vars
             PROVE  Elements'
  BY DEF PeerInv
<1> USE PeerAssumption DEF PeerInv, TypeOK, Pointers, Elements, Goto
<1>0. CASE UNCHANGED vars
  BY <1>0 DEF vars, shellVars, gcVars, queueVars
<1>1. ASSUME CreateThreads PROVE Elements'
  BY <1>1 DEF CreateThreads, shellVars, gcVars, queueVars
<1>2. ASSUME StartClient PROVE Elements'
  BY <1>2 DEF StartClient, shellVars, gcVars, queueVars
<1>3. ASSUME ExitCommand PROVE Elements'
  BY <1>3 DEF ExitCommand, shellVars, gcVars, queueVars
<1>4. ASSUME JoinClient PROVE Elements'
  BY <1>4 DEF JoinClient, shellVars, gcVars, queueVars
<1>5. ASSUME JoinServer PROVE Elements'
  BY <1>5 DEF JoinServer, shellVars, gcVars, queueVars
<1>6. ASSUME StartServer PROVE Elements'
  BY <1>6, QueueEmptyEarly DEF StartServer, Early
<1>7. ASSUME Bind PROVE Elements'
  BY <1>7 DEF Bind, shellVars, gcVars, queueVars
<1>8. ASSUME NEW c \in Conns, Accept(c) PROVE Elements'
  BY <1>8 DEF Accept, shellVars, gcVars, queueVars
<1>9. ASSUME AcceptFails PROVE Elements'
  BY <1>9 DEF AcceptFails, shellVars, gcVars, queueVars
<1>10. ASSUME NEW c \in Conns, Serve(c) PROVE Elements'
  BY <1>10 DEF Serve, shellVars, gcVars, queueVars
<1>11. ASSUME NEW c \in Conns, Allocate(c) PROVE Elements'
  BY <1>11 DEF Allocate, shellVars, gcVars, queueVars
<1>12. ASSUME NEW c \in Conns, PushTrash(c) PROVE Elements'
  <2>1. /\ trash' = Append(trash, c) /\ pc[c] = "link" /\ pc' = [pc EXCEPT ![c] = "post"]
        /\ UNCHANGED <<gcPc, arg, tmp, live>>
    BY <1>12 DEF PushTrash, gcVars
  <2>2. /\ Len(trash') = Len(trash) + 1 /\ Len(trash) \in Nat
        /\ \A i \in 1..Len(trash) : trash'[i] = trash[i]
        /\ trash'[Len(trash) + 1] = c
    BY <2>1, AppendFacts
  <2>3. \A i \in 1..Len(trash) : trash[i] # c
    BY <2>1
  <2>4. \A d \in Conns : pc'[d] = "link" => d \in live' /\ next'[d] = NULL
    <3> SUFFICES ASSUME NEW d \in Conns, pc'[d] = "link" PROVE d \in live' /\ next'[d] = NULL
      OBVIOUS
    <3>1. d # c /\ pc[d] = "link"
      BY <2>1
    <3>2. trash # <<>> => tail # d
      BY <3>1, EmptySeq DEF Linked
    <3>3. head # NULL => trash # <<>>
      BY DEF Linked
    <3> QED BY <1>12, <3>1, <3>2, <3>3, <2>1 DEF PushTrash
  <2>5. fault' = "none" => fault = "none"
    BY <1>12 DEF PushTrash, Running
  <2>6. /\ \A i, j \in 1..Len(trash') : trash'[i] = trash'[j] => i = j
        /\ \A i \in 1..Len(trash') : pc'[trash'[i]] \in {"post", "ended"}
    BY <2>1, <2>2, <2>3
  <2> QED BY <2>1, <2>4, <2>5, <2>6
<1>13. ASSUME NEW c \in Conns, PostGarbage(c) PROVE Elements'
  BY <1>13 DEF PostGarbage, shellVars, gcVars, queueVars
<1>14. ASSUME WaitGarbage PROVE Elements'
  BY <1>14 DEF WaitGarbage, shellVars, gcVars, queueVars
<1>15. ASSUME PopTrash PROVE Elements'
  <2>1. CASE head = NULL
    BY <1>15, <2>1 DEF PopTrash, Running
  <2>2. CASE head # NULL
    <3>1. trash # <<>> /\ head = trash[1]
      BY <2>2 DEF Linked
    <3>2. /\ trash' = Tail(trash) /\ arg' = trash[1] /\ tmp' = trash[1] /\ gcPc' = "free"
          /\ UNCHANGED <<pc, next, live>>
      BY <1>15, <2>2, <3>1 DEF PopTrash
    <3>3. /\ Len(trash') = Len(trash) - 1 /\ Len(trash) \in Nat \ {0}
          /\ \A i \in 1..Len(trash') : trash'[i] = trash[i + 1]
      BY <3>1, <3>2, TailFacts
    <3>4. trash[1] \in Conns /\ pc[trash[1]] \in {"post", "ended"}
      BY <3>3
    <3>5. /\ \A i, j \in 1..Len(trash') : trash'[i] = trash'[j] => i = j
          /\ \A i \in 1..Len(trash') : pc'[trash'[i]] \in {"post", "ended"}
      BY <3>2, <3>3
    <3> QED BY <3>2, <3>4, <3>5
  <2> QED BY <2>1, <2>2
<1>16. ASSUME FreeElement PROVE Elements'
  <2>1. /\ gcPc' = "join" /\ tmp' = NULL /\ live' = live \ {tmp}
        /\ UNCHANGED <<pc, trash, arg, next, fault>>
    BY <1>16 DEF FreeElement, queueVars
  <2>2. tmp # NULL /\ arg = tmp /\ pc[tmp] \in {"post", "ended"}
    BY <1>16 DEF FreeElement, Running
  <2>3. \A d \in Conns : pc'[d] = "link" => d \in live' /\ next'[d] = NULL
    BY <2>1, <2>2
  <2> QED BY <2>1, <2>2, <2>3
<1>17. ASSUME JoinSubThread PROVE Elements'
  BY <1>17 DEF JoinSubThread, shellVars, queueVars
<1> QED
  BY <1>0, <1>1, <1>2, <1>3, <1>4, <1>5, <1>6, <1>7, <1>8, <1>9, <1>10, <1>11,
     <1>12, <1>13, <1>14, <1>15, <1>16, <1>17
  DEF Next, MainThread, ServerThread, ServerSubThread, GarbageCollector, Outside

\* The pointers are the queue.
LEMMA LinkedStep == PeerInv /\ [Next]_vars => Linked'
<1> SUFFICES ASSUME PeerInv, [Next]_vars
             PROVE  Linked'
  BY DEF PeerInv
<1> USE PeerAssumption DEF PeerInv, TypeOK, Pointers, Goto
<1>0. CASE UNCHANGED vars
  BY <1>0 DEF vars, shellVars, gcVars, queueVars, Linked
<1>1. ASSUME CreateThreads PROVE Linked'
  BY <1>1 DEF CreateThreads, shellVars, gcVars, queueVars, Linked
<1>2. ASSUME StartClient PROVE Linked'
  BY <1>2 DEF StartClient, shellVars, gcVars, queueVars, Linked
<1>3. ASSUME ExitCommand PROVE Linked'
  BY <1>3 DEF ExitCommand, shellVars, gcVars, queueVars, Linked
<1>4. ASSUME JoinClient PROVE Linked'
  BY <1>4 DEF JoinClient, shellVars, gcVars, queueVars, Linked
<1>5. ASSUME JoinServer PROVE Linked'
  BY <1>5 DEF JoinServer, shellVars, gcVars, queueVars, Linked
<1>6. ASSUME StartServer PROVE Linked'
  <2>1. trash = <<>>
    BY <1>6, QueueEmptyEarly DEF StartServer
  <2> QED BY <1>6, <2>1 DEF StartServer, Linked
<1>7. ASSUME Bind PROVE Linked'
  BY <1>7 DEF Bind, shellVars, gcVars, queueVars, Linked
<1>8. ASSUME NEW c \in Conns, Accept(c) PROVE Linked'
  BY <1>8 DEF Accept, shellVars, gcVars, queueVars, Linked
<1>9. ASSUME AcceptFails PROVE Linked'
  BY <1>9 DEF AcceptFails, shellVars, gcVars, queueVars, Linked
<1>10. ASSUME NEW c \in Conns, Serve(c) PROVE Linked'
  BY <1>10 DEF Serve, shellVars, gcVars, queueVars, Linked
<1>11. ASSUME NEW c \in Conns, Allocate(c) PROVE Linked'
  <2>1. /\ pc[c] = "alloc" /\ live \subseteq live' /\ UNCHANGED <<head, tail, trash, tmp>>
        /\ \A d \in Conns : d # c => next'[d] = next[d]
    BY <1>11 DEF Allocate, gcVars
  <2>2. \A i \in 1..Len(trash) : trash[i] \in Conns /\ trash[i] # c
    BY <2>1 DEF Elements
  <2> QED BY <2>1, <2>2 DEF Linked
<1>12. ASSUME NEW c \in Conns, PushTrash(c) PROVE Linked'
  <2>1. /\ trash' = Append(trash, c) /\ pc[c] = "link" /\ tail' = c
        /\ UNCHANGED <<tmp, live>>
    BY <1>12 DEF PushTrash, gcVars
  <2>2. /\ Len(trash') = Len(trash) + 1 /\ Len(trash) \in Nat /\ trash' # <<>>
        /\ \A i \in 1..Len(trash) : trash'[i] = trash[i]
        /\ trash'[Len(trash) + 1] = c
    BY <2>1, AppendFacts
  <2>3. c \in live /\ next[c] = NULL /\ c # tmp
    <3>1. tmp # NULL => pc[tmp] \in {"post", "ended"}
      BY <1>12 DEF PushTrash, Elements, Running
    <3> QED BY <2>1, <3>1 DEF Elements
  <2>4. \A i \in 1..Len(trash) : trash[i] \in Conns /\ trash[i] # c
    BY <2>1 DEF Elements
  <2>5. CASE trash = <<>>
    <3>1. head' = c /\ next' = next /\ Len(trash) = 0
      BY <1>12, <2>5 DEF PushTrash, Linked
    <3> QED BY <2>1, <2>2, <2>3, <3>1 DEF Linked
  <2>6. CASE trash # <<>>
    <3>1. Len(trash) \in Nat \ {0} /\ tail = trash[Len(trash)] /\ head = trash[1]
      BY <2>6, EmptySeq DEF Linked
    <3>2. head # NULL /\ tail \in Conns
      BY <3>1
    <3>3. head' = head /\ next' = [next EXCEPT ![tail] = c]
      BY <1>12, <3>2 DEF PushTrash
    <3>4. head' = trash'[1]
      BY <2>2, <3>1, <3>3
    <3>5. tail' = trash'[Len(trash')]
      BY <2>1, <2>2
    <3>6. \A i \in 1..Len(trash') : trash'[i] \in live' /\ trash'[i] # tmp'
      BY <2>1, <2>2, <2>3 DEF Linked
    <3>7. \A i \in 1..Len(trash') : next'[trash'[i]] = IF i = Len(trash') THEN NULL ELSE trash'[i + 1]
      <4> SUFFICES ASSUME NEW i \in 1..Len(trash')
                   PROVE  next'[trash'[i]] = IF i = Len(trash') THEN NULL ELSE trash'[i + 1]
        OBVIOUS
      <4>1. CASE i = Len(trash')
        <5>1. trash'[i] = c /\ c # tail
          BY <4>1, <2>2, <2>4, <3>1
        <5> QED BY <4>1, <5>1, <3>3, <2>3
      <4>2. CASE i = Len(trash)
        <5>1. trash'[i] = tail /\ trash'[i + 1] = c /\ i # Len(trash')
          BY <4>2, <2>2, <3>1
        <5> QED BY <5>1, <3>2, <3>3
      <4>3. CASE i \in 1..(Len(trash) - 1)
        <5>1. i \in 1..Len(trash) /\ i + 1 \in 1..Len(trash) /\ i # Len(trash) /\ i # Len(trash')
          BY <4>3, <2>2, <3>1
        <5>2. trash[i] # tail
          BY <5>1, <3>1 DEF Elements
        <5>3. trash'[i] = trash[i] /\ trash'[i + 1] = trash[i + 1] /\ trash[i] \in Conns
          BY <5>1, <2>2, <2>4
        <5>4. next[trash[i]] = trash[i + 1]
          BY <5>1 DEF Linked
        <5> QED BY <5>1, <5>2, <5>3, <5>4, <3>2, <3>3
      <4> QED BY <4>1, <4>2, <4>3, <2>2, <3>1
    <3> QED BY <2>2, <3>4, <3>5, <3>6, <3>7 DEF Linked
  <2> QED BY <2>5, <2>6
<1>13. ASSUME NEW c \in Conns, PostGarbage(c) PROVE Linked'
  BY <1>13 DEF PostGarbage, shellVars, gcVars, queueVars, Linked
<1>14. ASSUME WaitGarbage PROVE Linked'
  BY <1>14 DEF WaitGarbage, shellVars, gcVars, queueVars, Linked
<1>15. ASSUME PopTrash PROVE Linked'
  <2>1. CASE head = NULL
    BY <1>15, <2>1 DEF PopTrash, Linked
  <2>2. CASE head # NULL
    <3>1. trash # <<>> /\ head = trash[1]
      BY <2>2 DEF Linked
    <3>2. trash' = Tail(trash) /\ head' = next[trash[1]] /\ tmp' = trash[1] /\ UNCHANGED <<tail, next, live>>
      BY <1>15, <2>2, <3>1 DEF PopTrash
    <3>3. /\ trash' \in Seq(Conns)
          /\ Len(trash') = Len(trash) - 1 /\ Len(trash) \in Nat \ {0}
          /\ \A i \in 1..Len(trash') : trash'[i] = trash[i + 1]
      BY <3>1, <3>2, TailFacts
    <3>4. next[trash[1]] = IF 1 = Len(trash) THEN NULL ELSE trash[2]
      BY <3>3 DEF Linked
    <3>5. trash' = <<>> <=> Len(trash) = 1
      BY <3>3, EmptySeq
    <3>6. head' = IF trash' = <<>> THEN NULL ELSE trash'[1]
      BY <3>2, <3>3, <3>4, <3>5
    <3>7. trash' # <<>> => tail' = trash'[Len(trash')]
      <4> SUFFICES ASSUME trash' # <<>> PROVE tail' = trash'[Len(trash')]
        OBVIOUS
      <4>1. Len(trash') \in 1..Len(trash') /\ Len(trash') + 1 = Len(trash)
        BY <3>3, <3>5
      <4>2. trash'[Len(trash')] = trash[Len(trash)]
        BY <3>3, <4>1
      <4>3. tail = trash[Len(trash)]
        BY <3>1 DEF Linked
      <4> QED BY <3>2, <4>2, <4>3
    <3>8. \A i \in 1..Len(trash') : /\ trash'[i] \in live' /\ trash'[i] # tmp'
                                    /\ next'[trash'[i]] = IF i = Len(trash') THEN NULL ELSE trash'[i + 1]
      <4> SUFFICES ASSUME NEW i \in 1..Len(trash')
                   PROVE  /\ trash'[i] \in live' /\ trash'[i] # tmp'
                          /\ next'[trash'[i]] = IF i = Len(trash') THEN NULL ELSE trash'[i + 1]
        OBVIOUS
      <4>1. i + 1 \in 1..Len(trash) /\ i + 1 # 1 /\ 1 \in 1..Len(trash) /\ trash'[i] = trash[i + 1]
        BY <3>3
      <4>2. trash[i + 1] \in live /\ trash[i + 1] # trash[1]
        BY <4>1 DEF Linked, Elements
      <4>3. next[trash[i + 1]] = IF i + 1 = Len(trash) THEN NULL ELSE trash[(i + 1) + 1]
        BY <4>1 DEF Linked
      <4>4. i # Len(trash') => trash'[i + 1] = trash[(i + 1) + 1]
        BY <3>3
      <4>5. i + 1 = Len(trash) <=> i = Len(trash')
        BY <3>3
      <4> QED BY <3>2, <4>1, <4>2, <4>3, <4>4, <4>5
    <3> QED BY <3>6, <3>7, <3>8 DEF Linked
  <2> QED BY <2>1, <2>2
<1>16. ASSUME FreeElement PROVE Linked'
  <2>1. tmp # NULL
    BY <1>16 DEF FreeElement, Running, Elements
  <2> QED BY <1>16, <2>1 DEF FreeElement, Linked, queueVars
<1>17. ASSUME JoinSubThread PROVE Linked'
  BY <1>17 DEF JoinSubThread, shellVars, gcVars, queueVars, Linked
<1> QED
  BY <1>0, <1>1, <1>2, <1>3, <1>4, <1>5, <1>6, <1>7, <1>8, <1>9, <1>10, <1>11,
     <1>12, <1>13, <1>14, <1>15, <1>16, <1>17
  DEF Next, MainThread, ServerThread, ServerSubThread, GarbageCollector, Outside

LEMMA PostingFinite == IsFiniteSet(Posting) /\ Cardinality(Posting) \in Nat
<1>1. Posting \in SUBSET Conns
  BY DEF Posting
<1> QED BY <1>1, PeerAssumption, FS_Subset, FS_CardinalityType

LEMMA UnqueuedFinite == IsFiniteSet(Unqueued) /\ Cardinality(Unqueued) \in Nat
<1>1. Unqueued \in SUBSET Conns
  BY DEF Unqueued
<1> QED BY <1>1, PeerAssumption, FS_Subset, FS_CardinalityType

\* A step that moves no record and takes no thread to its post.
LEMMA QueuedSame ==
  ASSUME UNCHANGED <<trash, released, arg>>,
         \A c \in Conns : pc'[c] \in {"post", "ended"} <=> pc[c] \in {"post", "ended"}
  PROVE  Queued' = Queued /\ Unqueued' = Unqueued
<1>1. Queued' = Queued
  BY DEF Queued
<1> QED BY <1>1 DEF Unqueued

\* Only a thread that is past its push has its record queued.
LEMMA QueuedPast ==
  ASSUME PeerInv, NEW c \in Conns, pc[c] \notin {"post", "ended"}
  PROVE  c \notin Queued
BY DEF PeerInv, Elements, FreedAfterUse, Queued

\* A malloc that fails adds its thread to those without a record.
LEMMA AllocateQueues ==
  ASSUME PeerInv, NEW c \in Conns, Allocate(c)
  PROVE  /\ Queued' = Queued
         /\ \/ Unqueued' = Unqueued /\ Posting' = Posting
            \/ /\ Unqueued' = Unqueued \cup {c} /\ c \notin Unqueued
               /\ Posting' = Posting \cup {c} /\ c \notin Posting
<1> USE DEF PeerInv, TypeOK, Goto
<1>1. UNCHANGED <<trash, released, arg>> /\ pc[c] = "alloc"
  BY DEF Allocate, gcVars
<1>2. Queued' = Queued
  BY <1>1 DEF Queued
<1>3. c \notin Queued
  BY <1>1, QueuedPast
<1>4. CASE pc' = [pc EXCEPT ![c] = "link"]
  BY <1>1, <1>2, <1>4 DEF Unqueued, Posting
<1>5. CASE pc' = [pc EXCEPT ![c] = "post"]
  BY <1>1, <1>2, <1>3, <1>5 DEF Unqueued, Posting
<1> QED BY <1>2, <1>4, <1>5 DEF Allocate

LEMMA PushQueues ==
  ASSUME PeerInv, NEW c \in Conns, PushTrash(c)
  PROVE  /\ Queued' = Queued \cup {c} /\ c \notin Queued
         /\ Unqueued' = Unqueued
<1> USE DEF PeerInv, TypeOK, Goto
<1>1. /\ trash' = Append(trash, c) /\ UNCHANGED <<released, arg>>
      /\ pc[c] = "link" /\ pc' = [pc EXCEPT ![c] = "post"]
  BY DEF PushTrash, gcVars
<1>2. /\ Len(trash') = Len(trash) + 1 /\ Len(trash) \in Nat
      /\ \A i \in 1..Len(trash) : trash'[i] = trash[i]
      /\ trash'[Len(trash) + 1] = c
  BY <1>1, AppendFacts
<1>3. {trash'[i] : i \in 1..Len(trash')} = {trash[i] : i \in 1..Len(trash)} \cup {c}
  BY <1>2
<1>4. Queued' = Queued \cup {c}
  BY <1>1, <1>3 DEF Queued
<1>5. c \notin Queued
  BY <1>1, QueuedPast
<1> QED BY <1>1, <1>4, <1>5 DEF Unqueued

LEMMA PopQueues ==
  ASSUME PeerInv, PopTrash
  PROVE  Queued' = Queued /\ Unqueued' = Unqueued
<1> USE DEF PeerInv, TypeOK
<1>1. UNCHANGED <<released, pc>> /\ arg = NULL
  BY DEF PopTrash, Elements
<1>2. CASE head = NULL
  BY <1>1, <1>2, QueuedSame DEF PopTrash
<1>3. CASE head # NULL
  <2>1. trash # <<>> /\ head = trash[1]
    BY <1>3 DEF Linked
  <2>2. trash' = Tail(trash) /\ arg' = trash[1]
    BY <1>3, <2>1 DEF PopTrash
  <2>3. /\ Len(trash') = Len(trash) - 1 /\ Len(trash) \in Nat \ {0}
        /\ \A i \in 1..Len(trash') : trash'[i] = trash[i + 1]
    BY <2>1, <2>2, TailFacts
  <2>4. {trash[i] : i \in 1..Len(trash)} = {trash'[i] : i \in 1..Len(trash')} \cup {trash[1]}
    <3>1. ASSUME NEW i \in 1..Len(trash), i # 1 PROVE trash[i] \in {trash'[j] : j \in 1..Len(trash')}
      <4>1. i - 1 \in 1..Len(trash') /\ trash'[i - 1] = trash[i]
        BY <2>3, <3>1
      <4> QED BY <4>1
    <3>2. ASSUME NEW i \in 1..Len(trash') PROVE trash'[i] \in {trash[j] : j \in 1..Len(trash)}
      <4>1. i + 1 \in 1..Len(trash) /\ trash'[i] = trash[i + 1]
        BY <2>3
      <4> QED BY <4>1
    <3>3. trash[1] \in {trash[j] : j \in 1..Len(trash)}
      <4>1. 1 \in 1..Len(trash)
        BY <2>3
      <4> QED BY <4>1
    <3> DEFINE before == {trash[i] : i \in 1..Len(trash)}
               after  == {trash'[i] : i \in 1..Len(trash')}
    <3>4. before \subseteq after \cup {trash[1]}
      BY <3>1
    <3>5. after \cup {trash[1]} \subseteq before
      BY <3>2, <3>3
    <3> QED BY <3>4, <3>5
  <2>5. trash[1] # NULL
    BY <2>3, PeerAssumption
  <2>6. Queued' = Queued
    BY <1>1, <2>2, <2>4, <2>5 DEF Queued
  <2> QED BY <1>1, <2>6 DEF Unqueued
<1> QED BY <1>2, <1>3

LEMMA JoinQueues ==
  ASSUME PeerInv, JoinSubThread
  PROVE  Queued' = Queued /\ Unqueued' = Unqueued
<1>1. /\ released' = released \cup {arg} /\ arg' = NULL /\ arg # NULL
      /\ UNCHANGED <<trash, pc>>
  BY DEF JoinSubThread, PeerInv, Elements, queueVars
<1>2. Queued' = Queued
  BY <1>1 DEF Queued
<1> QED BY <1>1, <1>2 DEF Unqueued

\* A step that leaves the semaphore, the queue and the posting threads alone.
LEMMA SemaphoreQuiet ==
  ASSUME SemaphoreLag, UNCHANGED <<trash, garbageSem, Posting, Unqueued>>,
         fault' = "none" => fault = "none", gcPc' = "pop" <=> gcPc = "pop"
  PROVE  SemaphoreLag'
BY DEF SemaphoreLag

\* garbageSem counts the records the collector may take.
LEMMA SemaphoreStep == PeerInv /\ [Next]_vars => SemaphoreLag'
<1> SUFFICES ASSUME PeerInv, [Next]_vars
             PROVE  SemaphoreLag'
  BY DEF PeerInv
<1> USE PeerAssumption DEF PeerInv, TypeOK, Goto
<1>0. CASE UNCHANGED vars
  BY <1>0, SemaphoreQuiet, QueuedSame DEF vars, shellVars, gcVars, queueVars, Posting
<1>1. ASSUME CreateThreads PROVE SemaphoreLag'
  BY <1>1, SemaphoreQuiet, QueuedSame DEF CreateThreads, shellVars, gcVars, queueVars, Posting
<1>2. ASSUME StartClient PROVE SemaphoreLag'
  BY <1>2, SemaphoreQuiet, QueuedSame DEF StartClient, shellVars, gcVars, queueVars, Posting
<1>3. ASSUME ExitCommand PROVE SemaphoreLag'
  BY <1>3, SemaphoreQuiet, QueuedSame DEF ExitCommand, shellVars, gcVars, queueVars, Posting
<1>4. ASSUME JoinClient PROVE SemaphoreLag'
  BY <1>4, SemaphoreQuiet, QueuedSame DEF JoinClient, shellVars, gcVars, queueVars, Posting
<1>5. ASSUME JoinServer PROVE SemaphoreLag'
  BY <1>5, SemaphoreQuiet, QueuedSame DEF JoinServer, shellVars, gcVars, queueVars, Posting
<1>6. ASSUME StartServer PROVE SemaphoreLag'
  <2>1. Len(trash) = 0 /\ \A c \in Conns : pc[c] = "absent"
    BY <1>6, QueueEmptyEarly DEF StartServer, Early
  <2>2. /\ garbageSem' = 0 /\ gcPc' = "wait"
        /\ UNCHANGED <<trash, pc, released, arg>>
    BY <1>6 DEF StartServer
  <2>3. Posting' = {} /\ Unqueued' = {}
    BY <2>1, <2>2 DEF Posting, Unqueued
  <2> QED BY <2>1, <2>2, <2>3, FS_EmptySet DEF SemaphoreLag
<1>7. ASSUME Bind PROVE SemaphoreLag'
  BY <1>7, SemaphoreQuiet, QueuedSame DEF Bind, shellVars, gcVars, queueVars, Posting
<1>8. ASSUME NEW c \in Conns, Accept(c) PROVE SemaphoreLag'
  BY <1>8, SemaphoreQuiet, QueuedSame DEF Accept, shellVars, gcVars, queueVars, Posting
<1>9. ASSUME AcceptFails PROVE SemaphoreLag'
  BY <1>9, SemaphoreQuiet, QueuedSame DEF AcceptFails, shellVars, gcVars, queueVars, Posting
<1>10. ASSUME NEW c \in Conns, Serve(c) PROVE SemaphoreLag'
  BY <1>10, SemaphoreQuiet, QueuedSame DEF Serve, shellVars, gcVars, queueVars, Posting
<1>11. ASSUME NEW c \in Conns, Allocate(c) PROVE SemaphoreLag'
  <2>1. UNCHANGED <<trash, garbageSem, gcPc, fault>>
    BY <1>11 DEF Allocate, gcVars
  <2>2. CASE Unqueued' = Unqueued /\ Posting' = Posting
    BY <2>1, <2>2, SemaphoreQuiet
  <2>3. CASE /\ Unqueued' = Unqueued \cup {c} /\ c \notin Unqueued
             /\ Posting' = Posting \cup {c} /\ c \notin Posting
    <3>1. /\ Cardinality(Posting') = Cardinality(Posting) + 1
          /\ Cardinality(Unqueued') = Cardinality(Unqueued) + 1
      BY <2>3, PostingFinite, UnqueuedFinite, FS_AddElement
    <3> QED BY <2>1, <3>1, PostingFinite, UnqueuedFinite DEF SemaphoreLag
  <2> QED BY <1>11, <2>2, <2>3, AllocateQueues
<1>12. ASSUME NEW c \in Conns, PushTrash(c) PROVE SemaphoreLag'
  <2>1. Posting' = Posting \cup {c} /\ c \notin Posting
    BY <1>12 DEF PushTrash, Posting
  <2>2. Cardinality(Posting') = Cardinality(Posting) + 1
    BY <2>1, PostingFinite, FS_AddElement
  <2>3. /\ Len(trash') = Len(trash) + 1 /\ UNCHANGED <<garbageSem, gcPc>>
        /\ fault = "none"
    BY <1>12, AppendFacts DEF PushTrash, gcVars, Running
  <2> QED BY <1>12, <2>2, <2>3, PushQueues, PostingFinite, UnqueuedFinite DEF SemaphoreLag
<1>13. ASSUME NEW c \in Conns, PostGarbage(c) PROVE SemaphoreLag'
  <2>1. Posting' = Posting \ {c} /\ c \in Posting
    BY <1>13 DEF PostGarbage, Posting
  <2>2. Cardinality(Posting') = Cardinality(Posting) - 1
    BY <2>1, PostingFinite, FS_RemoveElement
  <2>3. garbageSem' = garbageSem + 1 /\ UNCHANGED <<trash, gcPc, fault>>
    BY <1>13 DEF PostGarbage, queueVars, gcVars
  <2>4. Unqueued' = Unqueued
    BY <1>13, QueuedSame DEF PostGarbage, queueVars, gcVars
  <2> QED BY <2>2, <2>3, <2>4, PostingFinite, UnqueuedFinite DEF SemaphoreLag
<1>14. ASSUME WaitGarbage PROVE SemaphoreLag'
  <2>1. /\ trash' = trash /\ gcPc = "wait" /\ gcPc' = "pop"
        /\ garbageSem' = garbageSem - 1 /\ fault' = fault /\ Posting' = Posting
    BY <1>14 DEF WaitGarbage, Posting, queueVars
  <2>2. Unqueued' = Unqueued
    BY <1>14, QueuedSame DEF WaitGarbage, queueVars
  <2> QED BY <2>1, <2>2, PostingFinite, UnqueuedFinite DEF SemaphoreLag
<1>15. ASSUME PopTrash PROVE SemaphoreLag'
  <2>1. Posting' = Posting /\ garbageSem' = garbageSem /\ gcPc = "pop" /\ gcPc' = "free"
    BY <1>15 DEF PopTrash, Posting
  <2>2. CASE head = NULL
    BY <1>15, <2>2 DEF PopTrash, SemaphoreLag
  <2>3. CASE head # NULL
    <3>1. trash # <<>>
      BY <2>3 DEF Linked
    <3>2. Len(trash') = Len(trash) - 1 /\ Len(trash) \in Nat /\ fault' = fault
      BY <1>15, <2>3, <3>1, TailFacts DEF PopTrash
    <3> QED BY <1>15, <2>1, <3>2, PopQueues, PostingFinite, UnqueuedFinite DEF SemaphoreLag
  <2> QED BY <2>2, <2>3
<1>16. ASSUME FreeElement PROVE SemaphoreLag'
  BY <1>16, SemaphoreQuiet, QueuedSame DEF FreeElement, shellVars, gcVars, queueVars, Posting
<1>17. ASSUME JoinSubThread PROVE SemaphoreLag'
  BY <1>17, SemaphoreQuiet, JoinQueues DEF JoinSubThread, queueVars, Posting
<1> QED
  BY <1>0, <1>1, <1>2, <1>3, <1>4, <1>5, <1>6, <1>7, <1>8, <1>9, <1>10, <1>11,
     <1>12, <1>13, <1>14, <1>15, <1>16, <1>17
  DEF Next, MainThread, ServerThread, ServerSubThread, GarbageCollector, Outside

\* The collector finds a record, and the tail it appends to is allocated.
LEMMA RecordStep == PeerInv /\ [Next]_vars => RecordThere'
<1> SUFFICES ASSUME PeerInv, [Next]_vars
             PROVE  RecordThere'
  BY DEF PeerInv
<1> USE PeerAssumption DEF PeerInv, TypeOK, Pointers, RecordThere, Goto
<1>0. CASE UNCHANGED vars
  BY <1>0, QueuedSame DEF vars, shellVars, gcVars, queueVars
<1>1. ASSUME CreateThreads PROVE RecordThere'
  BY <1>1, QueuedSame DEF CreateThreads, shellVars, gcVars, queueVars
<1>2. ASSUME StartClient PROVE RecordThere'
  BY <1>2, QueuedSame DEF StartClient, shellVars, gcVars, queueVars
<1>3. ASSUME ExitCommand PROVE RecordThere'
  BY <1>3, QueuedSame DEF ExitCommand, shellVars, gcVars, queueVars
<1>4. ASSUME JoinClient PROVE RecordThere'
  BY <1>4, QueuedSame DEF JoinClient, shellVars, gcVars, queueVars
<1>5. ASSUME JoinServer PROVE RecordThere'
  BY <1>5, QueuedSame DEF JoinServer, shellVars, gcVars, queueVars
<1>6. ASSUME StartServer PROVE RecordThere'
  BY <1>6, QueuedSame DEF StartServer
<1>7. ASSUME Bind PROVE RecordThere'
  BY <1>7, QueuedSame DEF Bind, shellVars, gcVars, queueVars
<1>8. ASSUME NEW c \in Conns, Accept(c) PROVE RecordThere'
  BY <1>8, QueuedSame DEF Accept, shellVars, gcVars, queueVars
<1>9. ASSUME AcceptFails PROVE RecordThere'
  BY <1>9, QueuedSame DEF AcceptFails, shellVars, gcVars, queueVars
<1>10. ASSUME NEW c \in Conns, Serve(c) PROVE RecordThere'
  BY <1>10, QueuedSame DEF Serve, shellVars, gcVars, queueVars
<1>11. ASSUME NEW c \in Conns, Allocate(c) PROVE RecordThere'
  <2>1. UNCHANGED <<fault, gcPc, head>>
    BY <1>11 DEF Allocate, gcVars
  <2> QED BY <1>11, <2>1, AllocateQueues
<1>12. ASSUME NEW c \in Conns, PushTrash(c) PROVE RecordThere'
  <2>1. head # NULL => tail \in live
    <3> SUFFICES ASSUME head # NULL PROVE tail \in live
      OBVIOUS
    <3>1. trash # <<>>
      BY DEF Linked
    <3>2. Len(trash) \in 1..Len(trash)
      BY <3>1, EmptySeq
    <3> QED BY <3>1, <3>2 DEF Linked
  <2> QED BY <1>12, <2>1, PushQueues DEF PushTrash, gcVars
<1>13. ASSUME NEW c \in Conns, PostGarbage(c) PROVE RecordThere'
  BY <1>13, QueuedSame DEF PostGarbage, shellVars, gcVars, queueVars
<1>14. ASSUME WaitGarbage PROVE RecordThere'
  <2>1. Unqueued' = Unqueued /\ UNCHANGED <<fault, head>> /\ gcPc = "wait" /\ garbageSem > 0
    BY <1>14, QueuedSame DEF WaitGarbage, queueVars
  <2>2. Unqueued = {} => fault = "none" /\ head # NULL
    <3> SUFFICES ASSUME Unqueued = {} PROVE fault = "none" /\ head # NULL
      OBVIOUS
    <3>1. Cardinality(Unqueued) = 0
      BY FS_EmptySet
    <3>2. Len(trash) # 0
      BY <2>1, <3>1, PostingFinite DEF SemaphoreLag
    <3>3. trash # <<>> /\ 1 \in 1..Len(trash)
      BY <3>2
    <3> QED BY <3>3 DEF Linked
  <2> QED BY <2>1, <2>2
<1>15. ASSUME PopTrash PROVE RecordThere'
  BY <1>15, PopQueues DEF PopTrash, shellVars
<1>16. ASSUME FreeElement PROVE RecordThere'
  BY <1>16, QueuedSame DEF FreeElement, shellVars, gcVars, queueVars
<1>17. ASSUME JoinSubThread PROVE RecordThere'
  BY <1>17, JoinQueues DEF JoinSubThread, shellVars, queueVars
<1> QED
  BY <1>0, <1>1, <1>2, <1>3, <1>4, <1>5, <1>6, <1>7, <1>8, <1>9, <1>10, <1>11,
     <1>12, <1>13, <1>14, <1>15, <1>16, <1>17
  DEF Next, MainThread, ServerThread, ServerSubThread, GarbageCollector, Outside

\* A record is freed once, after its thread.
LEMMA FreedStep == PeerInv /\ [Next]_vars => FreedAfterUse'
<1> SUFFICES ASSUME PeerInv, [Next]_vars
             PROVE  FreedAfterUse'
  BY DEF PeerInv
<1> USE PeerAssumption DEF PeerInv, TypeOK, Pointers, FreedAfterUse, Goto
<1>0. CASE UNCHANGED vars
  BY <1>0 DEF vars, shellVars, gcVars, queueVars
<1>1. ASSUME CreateThreads PROVE FreedAfterUse'
  BY <1>1 DEF CreateThreads, shellVars, gcVars, queueVars
<1>2. ASSUME StartClient PROVE FreedAfterUse'
  BY <1>2 DEF StartClient, shellVars, gcVars, queueVars
<1>3. ASSUME ExitCommand PROVE FreedAfterUse'
  BY <1>3 DEF ExitCommand, shellVars, gcVars, queueVars
<1>4. ASSUME JoinClient PROVE FreedAfterUse'
  BY <1>4 DEF JoinClient, shellVars, gcVars, queueVars
<1>5. ASSUME JoinServer PROVE FreedAfterUse'
  BY <1>5 DEF JoinServer, shellVars, gcVars, queueVars
<1>6. ASSUME StartServer PROVE FreedAfterUse'
  BY <1>6 DEF StartServer, shellVars, gcVars, queueVars
<1>7. ASSUME Bind PROVE FreedAfterUse'
  BY <1>7 DEF Bind, shellVars, gcVars, queueVars
<1>8. ASSUME NEW c \in Conns, Accept(c) PROVE FreedAfterUse'
  BY <1>8 DEF Accept, shellVars, gcVars, queueVars
<1>9. ASSUME AcceptFails PROVE FreedAfterUse'
  BY <1>9 DEF AcceptFails, shellVars, gcVars, queueVars
<1>10. ASSUME NEW c \in Conns, Serve(c) PROVE FreedAfterUse'
  BY <1>10 DEF Serve, shellVars, gcVars, queueVars
<1>11. ASSUME NEW c \in Conns, Allocate(c) PROVE FreedAfterUse'
  BY <1>11 DEF Allocate, shellVars, gcVars, queueVars
<1>12. ASSUME NEW c \in Conns, PushTrash(c) PROVE FreedAfterUse'
  <2>1. trash' = Append(trash, c) /\ pc[c] = "link" /\ pc' = [pc EXCEPT ![c] = "post"] /\ UNCHANGED <<arg, released>>
    BY <1>12 DEF PushTrash, gcVars
  <2>2. /\ Len(trash') = Len(trash) + 1 /\ Len(trash) \in Nat
        /\ \A i \in 1..Len(trash) : trash'[i] = trash[i]
        /\ trash'[Len(trash) + 1] = c
    BY <2>1, AppendFacts
  <2>3. c \notin released /\ c # arg
    BY <2>1 DEF Elements
  <2> QED BY <2>1, <2>2, <2>3
<1>13. ASSUME NEW c \in Conns, PostGarbage(c) PROVE FreedAfterUse'
  BY <1>13 DEF PostGarbage, shellVars, gcVars, queueVars
<1>14. ASSUME WaitGarbage PROVE FreedAfterUse'
  BY <1>14 DEF WaitGarbage, shellVars, gcVars, queueVars
<1>15. ASSUME PopTrash PROVE FreedAfterUse'
  <2>1. CASE head = NULL
    BY <1>15, <2>1 DEF PopTrash
  <2>2. CASE head # NULL
    <3>1. trash # <<>> /\ head = trash[1]
      BY <2>2 DEF Linked
    <3>2. trash' = Tail(trash) /\ arg' = trash[1] /\ UNCHANGED <<pc, released>>
      BY <1>15, <2>2, <3>1 DEF PopTrash
    <3>3. /\ Len(trash') = Len(trash) - 1 /\ Len(trash) \in Nat \ {0}
          /\ \A i \in 1..Len(trash') : trash'[i] = trash[i + 1]
      BY <3>1, <3>2, TailFacts
    <3>4. \A i \in 1..Len(trash') : trash'[i] # arg'
      BY <3>2, <3>3 DEF Elements
    <3> QED BY <3>2, <3>3, <3>4
  <2> QED BY <2>1, <2>2
<1>16. ASSUME FreeElement PROVE FreedAfterUse'
  BY <1>16 DEF FreeElement, shellVars, gcVars, queueVars
<1>17. ASSUME JoinSubThread PROVE FreedAfterUse'
  <2>1. arg # NULL
    BY <1>17 DEF JoinSubThread, Elements
  <2> QED BY <1>17, <2>1 DEF JoinSubThread, queueVars
<1> QED
  BY <1>0, <1>1, <1>2, <1>3, <1>4, <1>5, <1>6, <1>7, <1>8, <1>9, <1>10, <1>11,
     <1>12, <1>13, <1>14, <1>15, <1>16, <1>17
  DEF Next, MainThread, ServerThread, ServerSubThread, GarbageCollector, Outside

\* The inductive invariant holds in every state.
LEMMA Inductive == Spec => []PeerInv
<1>1. Init => PeerInv
  <2> SUFFICES ASSUME Init PROVE PeerInv
    OBVIOUS
  <2>1. Posting = {} /\ Unqueued = {} /\ Cardinality({}) = 0
    BY FS_EmptySet DEF Init, Posting, Unqueued
  <2> QED BY <2>1, PeerAssumption
    DEF Init, PeerInv, TypeOK, Pointers, Linked, RecordThere, FreedAfterUse, Elements, SemaphoreLag, Early
<1>2. PeerInv /\ [Next]_vars => PeerInv'
  BY TypeStep, EarlyStep, ElementsStep, LinkedStep, SemaphoreStep, RecordStep, FreedStep DEF PeerInv
<1> QED BY <1>1, <1>2, PTL DEF Spec

\* PeerProcess.TypeOK, for every finite set of connections.
THEOREM TypeCorrect == Spec => []TypeOK
<1>1. PeerInv => TypeOK
  BY DEF PeerInv
<1> QED BY <1>1, Inductive, PTL

\* The head, tail and next pointers of TrashQueue.c are a queue of allocated
\* elements at every moment, although popTrash frees its element after it has
\* released the mutex and tail is left dangling by the last pop.
THEOREM QueueStaysLinked == Spec => []Linked
<1>1. PeerInv => Linked
  BY DEF PeerInv
<1> QED BY <1>1, Inductive, PTL

\* Until a malloc of pushTrash fails popTrash never returns NULL to the collector
\* and no freed element is written.
THEOREM RecordIsThere == Spec => []RecordThere
<1>1. PeerInv => RecordThere
  BY DEF PeerInv
<1> QED BY <1>1, Inductive, PTL

\* A connection's record is freed once and after its thread has ended, whether
\* malloc fails or not.
THEOREM NothingFreedInUse == Spec => []FreedAfterUse
<1>1. PeerInv => FreedAfterUse
  BY DEF PeerInv
<1> QED BY <1>1, Inductive, PTL

\* TrashQueue.c with its callers implements the queue of Fifo: every step is a
\* Put, a Take or leaves the queue alone, whatever malloc does.
THEOREM QueueIsFifo == Spec => IsFifo
<1>1. Init => Queue!Init
  BY DEF Init, Queue!Init, Queued
<1>2. PeerInv /\ [Next]_vars => [Queue!Next]_<<trash, Queued>>
  <2> SUFFICES ASSUME PeerInv, [Next]_vars PROVE [Queue!Next]_<<trash, Queued>>
    OBVIOUS
  <2> USE PeerAssumption DEF PeerInv, TypeOK, Goto
  <2>0. CASE UNCHANGED vars
    BY <2>0, QueuedSame DEF vars, queueVars, gcVars
  <2>1. ASSUME CreateThreads PROVE [Queue!Next]_<<trash, Queued>>
    BY <2>1, QueuedSame DEF CreateThreads, shellVars, gcVars, queueVars
  <2>2. ASSUME StartClient PROVE [Queue!Next]_<<trash, Queued>>
    BY <2>2, QueuedSame DEF StartClient, shellVars, gcVars, queueVars
  <2>3. ASSUME ExitCommand PROVE [Queue!Next]_<<trash, Queued>>
    BY <2>3, QueuedSame DEF ExitCommand, shellVars, gcVars, queueVars
  <2>4. ASSUME JoinClient PROVE [Queue!Next]_<<trash, Queued>>
    BY <2>4, QueuedSame DEF JoinClient, shellVars, gcVars, queueVars
  <2>5. ASSUME JoinServer PROVE [Queue!Next]_<<trash, Queued>>
    BY <2>5, QueuedSame DEF JoinServer, shellVars, gcVars, queueVars
  <2>6. ASSUME StartServer PROVE [Queue!Next]_<<trash, Queued>>
    BY <2>6, QueuedSame DEF StartServer, shellVars, gcVars, queueVars
  <2>7. ASSUME Bind PROVE [Queue!Next]_<<trash, Queued>>
    BY <2>7, QueuedSame DEF Bind, shellVars, gcVars, queueVars
  <2>8. ASSUME NEW c \in Conns, Accept(c) PROVE [Queue!Next]_<<trash, Queued>>
    BY <2>8, QueuedSame DEF Accept, shellVars, gcVars, queueVars
  <2>9. ASSUME AcceptFails PROVE [Queue!Next]_<<trash, Queued>>
    BY <2>9, QueuedSame DEF AcceptFails, shellVars, gcVars, queueVars
  <2>10. ASSUME NEW c \in Conns, Serve(c) PROVE [Queue!Next]_<<trash, Queued>>
    BY <2>10, QueuedSame DEF Serve, shellVars, gcVars, queueVars
  <2>11. ASSUME NEW c \in Conns, Allocate(c) PROVE [Queue!Next]_<<trash, Queued>>
    BY <2>11, AllocateQueues DEF Allocate
  <2>12. ASSUME NEW c \in Conns, PushTrash(c) PROVE [Queue!Next]_<<trash, Queued>>
    <3>1. trash' = Append(trash, c)
      BY <2>12 DEF PushTrash
    <3> QED BY <2>12, <3>1, PushQueues DEF Queue!Next, Queue!Put
  <2>13. ASSUME NEW c \in Conns, PostGarbage(c) PROVE [Queue!Next]_<<trash, Queued>>
    BY <2>13, QueuedSame DEF PostGarbage, shellVars, gcVars, queueVars
  <2>14. ASSUME WaitGarbage PROVE [Queue!Next]_<<trash, Queued>>
    BY <2>14, QueuedSame DEF WaitGarbage, shellVars, gcVars, queueVars
  <2>15. ASSUME PopTrash PROVE [Queue!Next]_<<trash, Queued>>
    <3>1. CASE head = NULL
      BY <2>15, <3>1, PopQueues DEF PopTrash
    <3>2. CASE head # NULL
      <4>1. trash # <<>> /\ trash' = Tail(trash)
        BY <2>15, <3>2 DEF PopTrash, Linked
      <4> QED BY <2>15, <4>1, PopQueues DEF Queue!Next, Queue!Take
    <3> QED BY <3>1, <3>2
  <2>16. ASSUME FreeElement PROVE [Queue!Next]_<<trash, Queued>>
    BY <2>16, QueuedSame DEF FreeElement, shellVars, gcVars, queueVars
  <2>17. ASSUME JoinSubThread PROVE [Queue!Next]_<<trash, Queued>>
    BY <2>17, JoinQueues DEF JoinSubThread, queueVars
  <2> QED
    BY <2>0, <2>1, <2>2, <2>3, <2>4, <2>5, <2>6, <2>7, <2>8, <2>9, <2>10, <2>11,
       <2>12, <2>13, <2>14, <2>15, <2>16, <2>17
    DEF Next, MainThread, ServerThread, ServerSubThread, GarbageCollector, Outside
<1> QED BY <1>1, <1>2, Inductive, PTL DEF Spec, IsFifo, Queue!Spec
=============================================================================
