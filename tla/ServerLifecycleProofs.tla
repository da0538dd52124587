------------------------ MODULE ServerLifecycleProofs ------------------------
(* Proofs about ServerLifecycle for every finite set of connections. *)
EXTENDS ServerLifecycle, FiniteSetTheorems, SequenceTheorems, TLAPS

\* What list_rpop leaves of a list.
LEMMA RestProperties ==
  ASSUME NEW S, NEW s \in Seq(S), s # <<>>
  PROVE  /\ Rest(s) \in Seq(S) /\ Len(Rest(s)) = Len(s) - 1
         /\ s[Len(s)] \in S
         /\ \A i \in 1..Len(Rest(s)) : Rest(s)[i] = s[i]
<1>1. Len(s) \in Nat \ {0}
  BY EmptySeq
<1>2. 1 \in Int /\ Len(s) - 1 \in Int /\ \A i \in 1..(Len(s)-1) : s[i] \in S
  BY <1>1
<1>3. /\ Rest(s) \in Seq(S)
      /\ Len(Rest(s)) = IF 1 <= Len(s) - 1 THEN Len(s) - 1 ELSE 0
      /\ \A i \in 1..(Len(s) - 1) : Rest(s)[i] = s[1 + i - 1]
  BY <1>1, <1>2, SubSeqProperties DEF Rest
<1>4. Len(Rest(s)) = Len(s) - 1
  <2> DEFINE n == Len(s)
             r == Rest(s)
  <2>1. n \in Nat \ {0} /\ Len(r) = IF 1 <= n - 1 THEN n - 1 ELSE 0
    BY <1>1, <1>3
  <2> HIDE DEF n, r
  <2>2. Len(r) = n - 1
    BY <2>1
  <2> QED BY <2>2 DEF n, r
<1>5. \A i \in 1..(Len(s) - 1) : Rest(s)[i] = s[i]
  BY <1>1, <1>3
<1> QED BY <1>1, <1>3, <1>4, <1>5

LEMMA SetsFinite ==
  /\ IsFiniteSet(CountedSet) /\ Cardinality(CountedSet) \in Nat
  /\ IsFiniteSet(PostSet) /\ Cardinality(PostSet) \in Nat
<1>1. CountedSet \in SUBSET Conns /\ PostSet \in SUBSET Conns
  BY DEF CountedSet, PostSet
<1> QED BY <1>1, ConnsFinite, FS_Subset, FS_CardinalityType

\* Every variable keeps its type.
LEMMA TypeStep == LifecycleInv /\ [Next]_vars => TypeOK'
<1> SUFFICES ASSUME LifecycleInv, [Next]_vars PROVE TypeOK'
  OBVIOUS
<1> USE ConnsFinite DEF LifecycleInv, TypeOK, MainPCs, FinisherPCs, CleanerPCs, ClientPCs, Goto
<1>0. CASE UNCHANGED vars
  BY <1>0 DEF vars, clientVars, semVars, cleanerVars
<1>1. ASSUME NEW c \in Conns, Arrive(c) PROVE TypeOK'
  BY <1>1 DEF Arrive, clientVars, semVars, cleanerVars
<1>2. ASSUME NEW c \in Conns, Send(c) PROVE TypeOK'
  BY <1>2 DEF Send, clientVars, semVars, cleanerVars
<1>3. ASSUME NEW c \in Conns, Leave(c) PROVE TypeOK'
  BY <1>3 DEF Leave, clientVars, semVars, cleanerVars
<1>4. ASSUME StartFails PROVE TypeOK'
  BY <1>4 DEF StartFails, clientVars, semVars, cleanerVars
<1>5. ASSUME StartCleaner PROVE TypeOK'
  BY <1>5 DEF StartCleaner, clientVars, semVars, cleanerVars
<1>6. ASSUME StartFinisher PROVE TypeOK'
  BY <1>6 DEF StartFinisher, clientVars, semVars, cleanerVars
<1>7. ASSUME NEW c \in Conns, Accept(c) PROVE TypeOK'
  BY <1>7 DEF Accept, clientVars, semVars, cleanerVars
<1>8. ASSUME AcceptEnds PROVE TypeOK'
  BY <1>8 DEF AcceptEnds, clientVars, semVars, cleanerVars
<1>9. ASSUME JoinFinisher PROVE TypeOK'
  BY <1>9 DEF JoinFinisher, clientVars, semVars, cleanerVars
<1>10. ASSUME PostCleanFinish PROVE TypeOK'
  BY <1>10 DEF PostCleanFinish, clientVars, semVars, cleanerVars
<1>11. ASSUME JoinCleaner PROVE TypeOK'
  BY <1>11 DEF JoinCleaner, clientVars, semVars, cleanerVars
<1>12. ASSUME Exit PROVE TypeOK'
  BY <1>12 DEF Exit, clientVars, semVars, cleanerVars
<1>13. ASSUME TryFinish PROVE TypeOK'
  BY <1>13 DEF TryFinish, clientVars, semVars, cleanerVars
<1>14. ASSUME Quit PROVE TypeOK'
  BY <1>14 DEF Quit, clientVars, semVars, cleanerVars
<1>15. ASSUME NEW c \in Conns, Enter(c) PROVE TypeOK'
  BY <1>15 DEF Enter, clientVars, semVars, cleanerVars
<1>16. ASSUME NEW c \in Conns, Receive(c) PROVE TypeOK'
  BY <1>16 DEF Receive, clientVars, semVars, cleanerVars
<1>17. ASSUME NEW c \in Conns, ReceiveEnds(c) PROVE TypeOK'
  BY <1>17 DEF ReceiveEnds, clientVars, semVars, cleanerVars
<1>18. ASSUME NEW c \in Conns, RemovePeer(c) PROVE TypeOK'
  BY <1>18 DEF RemovePeer, clientVars, semVars, cleanerVars
<1>19. ASSUME NEW c \in Conns, PushThread(c) PROVE TypeOK'
  BY <1>19 DEF PushThread, clientVars, semVars, cleanerVars
<1>20. ASSUME NEW c \in Conns, PostClean(c) PROVE TypeOK'
  BY <1>20 DEF PostClean, clientVars, semVars, cleanerVars
<1>21. ASSUME TryClean PROVE TypeOK'
  BY <1>21 DEF TryClean, clientVars, semVars, cleanerVars
<1>22. ASSUME PopThread PROVE TypeOK'
  <2>1. CASE threadList = <<>>
    BY <1>22, <2>1 DEF PopThread, clientVars, semVars
  <2>2. CASE threadList # <<>>
    <3>1. threadList' \in Seq(Conns) /\ trash' \in Conns
      BY <1>22, <2>2, RestProperties DEF PopThread
    <3> QED BY <1>22, <2>2, <3>1 DEF PopThread, clientVars, semVars
  <2> QED BY <2>1, <2>2
<1>23. ASSUME JoinThread PROVE TypeOK'
  <2>1. trash \in Conns
    BY <1>23 DEF JoinThread, Records
  <2> QED BY <1>23, <2>1 DEF JoinThread, clientVars, semVars
<1>24. ASSUME Uncount PROVE TypeOK'
  <2>1. numberOfClients = Cardinality(CountedSet) + 1
    BY <1>24 DEF Uncount, CountRight, CountedSet
  <2>2. numberOfClients' \in Nat
    BY <1>24, <2>1, SetsFinite DEF Uncount
  <2> QED BY <1>24, <2>2 DEF Uncount, clientVars, semVars
<1>25. ASSUME ReadCount PROVE TypeOK'
  BY <1>25 DEF ReadCount, clientVars, semVars, cleanerVars
<1>26. ASSUME TryCleanFinish PROVE TypeOK'
  BY <1>26 DEF TryCleanFinish, clientVars, semVars, cleanerVars
<1> QED
  BY <1>0, <1>1, <1>2, <1>3, <1>4, <1>5, <1>6, <1>7, <1>8, <1>9, <1>10, <1>11, <1>12, <1>13,
     <1>14, <1>15, <1>16, <1>17, <1>18, <1>19, <1>20, <1>21, <1>22, <1>23, <1>24, <1>25, <1>26 DEF Next, MainThread, CleanUp, Client, Outside

\* Nothing is accepted before the semaphores are initialised.
LEMMA NobodyEarlyStep == LifecycleInv /\ [Next]_vars => NobodyEarly'
<1> SUFFICES ASSUME pc \in [Conns -> ClientPCs], NobodyEarly, [Next]_vars
             PROVE  NobodyEarly'
  BY DEF LifecycleInv, TypeOK
<1> USE DEF NobodyEarly, Goto
<1>0. CASE UNCHANGED vars
  BY <1>0 DEF vars, clientVars, semVars, cleanerVars
<1>1. ASSUME NEW c \in Conns, Arrive(c) PROVE NobodyEarly'
  BY <1>1 DEF Arrive, clientVars, semVars, cleanerVars
<1>2. ASSUME NEW c \in Conns, Send(c) PROVE NobodyEarly'
  BY <1>2 DEF Send, clientVars, semVars, cleanerVars
<1>3. ASSUME NEW c \in Conns, Leave(c) PROVE NobodyEarly'
  BY <1>3 DEF Leave, clientVars, semVars, cleanerVars
<1>4. ASSUME StartFails PROVE NobodyEarly'
  BY <1>4 DEF StartFails, clientVars, semVars, cleanerVars
<1>5. ASSUME StartCleaner PROVE NobodyEarly'
  BY <1>5 DEF StartCleaner, clientVars, semVars, cleanerVars
<1>6. ASSUME StartFinisher PROVE NobodyEarly'
  BY <1>6 DEF StartFinisher, clientVars, semVars, cleanerVars
<1>7. ASSUME NEW c \in Conns, Accept(c) PROVE NobodyEarly'
  BY <1>7 DEF Accept, clientVars, semVars, cleanerVars
<1>8. ASSUME AcceptEnds PROVE NobodyEarly'
  BY <1>8 DEF AcceptEnds, clientVars, semVars, cleanerVars
<1>9. ASSUME JoinFinisher PROVE NobodyEarly'
  BY <1>9 DEF JoinFinisher, clientVars, semVars, cleanerVars
<1>10. ASSUME PostCleanFinish PROVE NobodyEarly'
  BY <1>10 DEF PostCleanFinish, clientVars, semVars, cleanerVars
<1>11. ASSUME JoinCleaner PROVE NobodyEarly'
  BY <1>11 DEF JoinCleaner, clientVars, semVars, cleanerVars
<1>12. ASSUME Exit PROVE NobodyEarly'
  BY <1>12 DEF Exit, clientVars, semVars, cleanerVars
<1>13. ASSUME TryFinish PROVE NobodyEarly'
  BY <1>13 DEF TryFinish, clientVars, semVars, cleanerVars
<1>14. ASSUME Quit PROVE NobodyEarly'
  BY <1>14 DEF Quit, clientVars, semVars, cleanerVars
<1>15. ASSUME NEW c \in Conns, Enter(c) PROVE NobodyEarly'
  BY <1>15 DEF Enter, clientVars, semVars, cleanerVars
<1>16. ASSUME NEW c \in Conns, Receive(c) PROVE NobodyEarly'
  BY <1>16 DEF Receive, clientVars, semVars, cleanerVars
<1>17. ASSUME NEW c \in Conns, ReceiveEnds(c) PROVE NobodyEarly'
  BY <1>17 DEF ReceiveEnds, clientVars, semVars, cleanerVars
<1>18. ASSUME NEW c \in Conns, RemovePeer(c) PROVE NobodyEarly'
  BY <1>18 DEF RemovePeer, clientVars, semVars, cleanerVars
<1>19. ASSUME NEW c \in Conns, PushThread(c) PROVE NobodyEarly'
  BY <1>19 DEF PushThread, clientVars, semVars, cleanerVars
<1>20. ASSUME NEW c \in Conns, PostClean(c) PROVE NobodyEarly'
  BY <1>20 DEF PostClean, clientVars, semVars, cleanerVars
<1>21. ASSUME TryClean PROVE NobodyEarly'
  BY <1>21 DEF TryClean, clientVars, semVars, cleanerVars
<1>22. ASSUME PopThread PROVE NobodyEarly'
  BY <1>22 DEF PopThread, clientVars, semVars, cleanerVars
<1>23. ASSUME JoinThread PROVE NobodyEarly'
  BY <1>23 DEF JoinThread, clientVars, semVars, cleanerVars
<1>24. ASSUME Uncount PROVE NobodyEarly'
  BY <1>24 DEF Uncount, clientVars, semVars, cleanerVars
<1>25. ASSUME ReadCount PROVE NobodyEarly'
  BY <1>25 DEF ReadCount, clientVars, semVars, cleanerVars
<1>26. ASSUME TryCleanFinish PROVE NobodyEarly'
  BY <1>26 DEF TryCleanFinish, clientVars, semVars, cleanerVars
<1> QED
  BY <1>0, <1>1, <1>2, <1>3, <1>4, <1>5, <1>6, <1>7, <1>8, <1>9, <1>10, <1>11, <1>12, <1>13,
     <1>14, <1>15, <1>16, <1>17, <1>18, <1>19, <1>20, <1>21, <1>22, <1>23, <1>24, <1>25, <1>26 DEF Next, MainThread, CleanUp, Client, Outside

\* The records of ended threads.
LEMMA RecordsStep == LifecycleInv /\ [Next]_vars => Records'
<1> SUFFICES ASSUME pc \in [Conns -> ClientPCs], threadList \in Seq(Conns), trash \in Conns \cup {NoThread},
                    joined \subseteq Conns, NobodyEarly, Records, [Next]_vars
             PROVE  Records'
  BY DEF LifecycleInv, TypeOK
<1> USE ConnsFinite DEF Records, Waiting, Goto, NobodyEarly
<1>0. CASE UNCHANGED vars
  BY <1>0 DEF vars, clientVars, semVars, cleanerVars
<1>1. ASSUME NEW c \in Conns, Arrive(c) PROVE Records'
  BY <1>1 DEF Arrive, clientVars, semVars, cleanerVars
<1>2. ASSUME NEW c \in Conns, Send(c) PROVE Records'
  BY <1>2 DEF Send, clientVars, semVars, cleanerVars
<1>3. ASSUME NEW c \in Conns, Leave(c) PROVE Records'
  BY <1>3 DEF Leave, clientVars, semVars, cleanerVars
<1>4. ASSUME StartFails PROVE Records'
  BY <1>4 DEF StartFails, clientVars, semVars, cleanerVars
<1>5. ASSUME StartCleaner PROVE Records'
  BY <1>5 DEF StartCleaner, clientVars, semVars, cleanerVars
<1>6. ASSUME StartFinisher PROVE Records'
  BY <1>6 DEF StartFinisher, clientVars, semVars, cleanerVars
<1>7. ASSUME NEW c \in Conns, Accept(c) PROVE Records'
  BY <1>7 DEF Accept, clientVars, semVars, cleanerVars
<1>8. ASSUME AcceptEnds PROVE Records'
  BY <1>8 DEF AcceptEnds, clientVars, semVars, cleanerVars
<1>9. ASSUME JoinFinisher PROVE Records'
  BY <1>9 DEF JoinFinisher, clientVars, semVars, cleanerVars
<1>10. ASSUME PostCleanFinish PROVE Records'
  BY <1>10 DEF PostCleanFinish, clientVars, semVars, cleanerVars
<1>11. ASSUME JoinCleaner PROVE Records'
  BY <1>11 DEF JoinCleaner, clientVars, semVars, cleanerVars
<1>12. ASSUME Exit PROVE Records'
  BY <1>12 DEF Exit, clientVars, semVars, cleanerVars
<1>13. ASSUME TryFinish PROVE Records'
  BY <1>13 DEF TryFinish, clientVars, semVars, cleanerVars
<1>14. ASSUME Quit PROVE Records'
  BY <1>14 DEF Quit, clientVars, semVars, cleanerVars
<1>15. ASSUME NEW c \in Conns, Enter(c) PROVE Records'
  BY <1>15 DEF Enter, clientVars, semVars, cleanerVars
<1>16. ASSUME NEW c \in Conns, Receive(c) PROVE Records'
  BY <1>16 DEF Receive, clientVars, semVars, cleanerVars
<1>17. ASSUME NEW c \in Conns, ReceiveEnds(c) PROVE Records'
  BY <1>17 DEF ReceiveEnds, clientVars, semVars, cleanerVars
<1>18. ASSUME NEW c \in Conns, RemovePeer(c) PROVE Records'
  BY <1>18 DEF RemovePeer, clientVars, semVars, cleanerVars
<1>19. ASSUME NEW c \in Conns, PushThread(c) PROVE Records'
  <2>1. /\ threadList' = Append(threadList, c) /\ pc[c] = "push" /\ pc' = [pc EXCEPT ![c] = "post"]
        /\ UNCHANGED <<joined, trash, cleanerPc>>
    BY <1>19 DEF PushThread, cleanerVars
  <2>2. ~ Waiting(c) /\ c \notin joined
    BY <2>1
  <2>3. /\ Len(threadList') = Len(threadList) + 1
        /\ \A i \in 1..Len(threadList) : threadList'[i] = threadList[i]
        /\ threadList'[Len(threadList) + 1] = c
    BY <2>1
  <2>4. Len(threadList) \in Nat
    OBVIOUS
  <2>5. \A d \in Conns : Waiting(d)' => Waiting(d) \/ d = c
    BY <2>1, <2>3, <2>4
  <2> QED BY <2>1, <2>2, <2>3, <2>4, <2>5
<1>20. ASSUME NEW c \in Conns, PostClean(c) PROVE Records'
  BY <1>20 DEF PostClean, clientVars, semVars, cleanerVars
<1>21. ASSUME TryClean PROVE Records'
  BY <1>21 DEF TryClean, clientVars, semVars, cleanerVars
<1>22. ASSUME PopThread PROVE Records'
  <2>1. CASE threadList = <<>>
    BY <1>22, <2>1 DEF PopThread, clientVars
  <2>2. CASE threadList # <<>>
    <3>1. /\ trash' = threadList[Len(threadList)] /\ cleanerPc' = "join" /\ trash = NoThread
          /\ UNCHANGED <<pc, joined>>
      BY <1>22, <2>2 DEF PopThread, clientVars
    <3>2. /\ Len(threadList') = Len(threadList) - 1 /\ trash' \in Conns
          /\ \A i \in 1..Len(threadList') : threadList'[i] = threadList[i]
      BY <1>22, <2>2, <3>1, RestProperties DEF PopThread
    <3>3. Len(threadList) \in Nat \ {0}
      BY <2>2, EmptySeq
    <3>4. \A d \in Conns : Waiting(d)' => Waiting(d)
      BY <3>1, <3>2, <3>3
    <3>5. \A i \in 1..Len(threadList') : i \in 1..Len(threadList) /\ i # Len(threadList)
      BY <3>2, <3>3
    <3>6. \A i \in 1..Len(threadList') : threadList'[i] # trash'
      BY <3>1, <3>2, <3>3, <3>5
    <3>7. \A d \in Conns : Waiting(d)' => pc'[d] \in {"post", "ended"} /\ d \notin joined'
      BY <3>1, <3>4
    <3>8. \A i, j \in 1..Len(threadList') : threadList'[i] = threadList'[j] => i = j
      BY <3>2, <3>5
    <3>9. trash' # NoThread
      BY <3>2
    <3> QED BY <3>1, <3>6, <3>7, <3>8, <3>9
  <2> QED BY <2>1, <2>2
<1>23. ASSUME JoinThread PROVE Records'
  BY <1>23 DEF JoinThread, clientVars, semVars, cleanerVars
<1>24. ASSUME Uncount PROVE Records'
  BY <1>24 DEF Uncount, clientVars, semVars, cleanerVars
<1>25. ASSUME ReadCount PROVE Records'
  BY <1>25 DEF ReadCount, clientVars, semVars, cleanerVars
<1>26. ASSUME TryCleanFinish PROVE Records'
  BY <1>26 DEF TryCleanFinish, clientVars, semVars, cleanerVars
<1> QED
  BY <1>0, <1>1, <1>2, <1>3, <1>4, <1>5, <1>6, <1>7, <1>8, <1>9, <1>10, <1>11, <1>12, <1>13,
     <1>14, <1>15, <1>16, <1>17, <1>18, <1>19, <1>20, <1>21, <1>22, <1>23, <1>24, <1>25, <1>26 DEF Next, MainThread, CleanUp, Client, Outside

\* A step that leaves the semaphore, the list and the threads at their post alone.
LEMMA SemaphoreQuiet ==
  ASSUME SemaphoreLag, UNCHANGED <<threadList, semClean, PostSet>>, cleanerPc' = "pop" <=> cleanerPc = "pop"
  PROVE  SemaphoreLag'
BY DEF SemaphoreLag

\* semClean counts the records CleanUp may take.
LEMMA SemaphoreStep == LifecycleInv /\ [Next]_vars => SemaphoreLag'
<1> SUFFICES ASSUME pc \in [Conns -> ClientPCs], threadList \in Seq(Conns), trash \in Conns \cup {NoThread},
                    semClean \in Nat, NobodyEarly, Records, SemaphoreLag, [Next]_vars
             PROVE  SemaphoreLag'
  BY DEF LifecycleInv, TypeOK
<1> USE DEF Goto
<1>0. CASE UNCHANGED vars
  BY <1>0, SemaphoreQuiet DEF vars, clientVars, semVars, cleanerVars, PostSet
<1>1. ASSUME NEW c \in Conns, Arrive(c) PROVE SemaphoreLag'
  BY <1>1, SemaphoreQuiet DEF Arrive, PostSet, clientVars, semVars, cleanerVars
<1>2. ASSUME NEW c \in Conns, Send(c) PROVE SemaphoreLag'
  BY <1>2, SemaphoreQuiet DEF Send, PostSet, clientVars, semVars, cleanerVars
<1>3. ASSUME NEW c \in Conns, Leave(c) PROVE SemaphoreLag'
  BY <1>3, SemaphoreQuiet DEF Leave, PostSet, clientVars, semVars, cleanerVars
<1>4. ASSUME StartFails PROVE SemaphoreLag'
  BY <1>4, SemaphoreQuiet DEF StartFails, PostSet, clientVars, semVars, cleanerVars
<1>5. ASSUME StartCleaner PROVE SemaphoreLag'
  BY <1>5, SemaphoreQuiet DEF StartCleaner, PostSet, NobodyEarly, clientVars, semVars, cleanerVars
<1>6. ASSUME StartFinisher PROVE SemaphoreLag'
  <2>1. threadList = <<>>
    <3>1. \A i \in 1..Len(threadList) : FALSE
      BY <1>6 DEF StartFinisher, NobodyEarly, Records, Waiting
    <3> QED BY <3>1, EmptySeq
  <2>2. semClean = 0
    BY <2>1, SetsFinite DEF SemaphoreLag
  <2> QED BY <1>6, <2>2, SemaphoreQuiet DEF StartFinisher, PostSet, clientVars, cleanerVars
<1>7. ASSUME NEW c \in Conns, Accept(c) PROVE SemaphoreLag'
  BY <1>7, SemaphoreQuiet DEF Accept, PostSet, clientVars, semVars, cleanerVars
<1>8. ASSUME AcceptEnds PROVE SemaphoreLag'
  BY <1>8, SemaphoreQuiet DEF AcceptEnds, PostSet, clientVars, semVars, cleanerVars
<1>9. ASSUME JoinFinisher PROVE SemaphoreLag'
  BY <1>9, SemaphoreQuiet DEF JoinFinisher, PostSet, clientVars, semVars, cleanerVars
<1>10. ASSUME PostCleanFinish PROVE SemaphoreLag'
  BY <1>10, SemaphoreQuiet DEF PostCleanFinish, PostSet, clientVars, semVars, cleanerVars
<1>11. ASSUME JoinCleaner PROVE SemaphoreLag'
  BY <1>11, SemaphoreQuiet DEF JoinCleaner, PostSet, clientVars, semVars, cleanerVars
<1>12. ASSUME Exit PROVE SemaphoreLag'
  BY <1>12, SemaphoreQuiet DEF Exit, PostSet, clientVars, semVars, cleanerVars
<1>13. ASSUME TryFinish PROVE SemaphoreLag'
  BY <1>13, SemaphoreQuiet DEF TryFinish, PostSet, clientVars, semVars, cleanerVars
<1>14. ASSUME Quit PROVE SemaphoreLag'
  BY <1>14, SemaphoreQuiet DEF Quit, PostSet, clientVars, semVars, cleanerVars
<1>15. ASSUME NEW c \in Conns, Enter(c) PROVE SemaphoreLag'
  BY <1>15, SemaphoreQuiet DEF Enter, PostSet, clientVars, semVars, cleanerVars
<1>16. ASSUME NEW c \in Conns, Receive(c) PROVE SemaphoreLag'
  BY <1>16, SemaphoreQuiet DEF Receive, PostSet, clientVars, semVars, cleanerVars
<1>17. ASSUME NEW c \in Conns, ReceiveEnds(c) PROVE SemaphoreLag'
  BY <1>17, SemaphoreQuiet DEF ReceiveEnds, PostSet, clientVars, semVars, cleanerVars
<1>18. ASSUME NEW c \in Conns, RemovePeer(c) PROVE SemaphoreLag'
  BY <1>18, SemaphoreQuiet DEF RemovePeer, PostSet, clientVars, semVars, cleanerVars
<1>19. ASSUME NEW c \in Conns, PushThread(c) PROVE SemaphoreLag'
  <2>1. PostSet' = PostSet \cup {c} /\ c \notin PostSet
    BY <1>19 DEF PushThread, PostSet
  <2>2. Cardinality(PostSet') = Cardinality(PostSet) + 1
    BY <2>1, SetsFinite, FS_AddElement
  <2>3. Len(threadList') = Len(threadList) + 1 /\ UNCHANGED <<semClean, cleanerPc>>
    BY <1>19 DEF PushThread, semVars, cleanerVars
  <2> QED BY <2>2, <2>3, SetsFinite DEF SemaphoreLag
<1>20. ASSUME NEW c \in Conns, PostClean(c) PROVE SemaphoreLag'
  <2>1. PostSet' = PostSet \ {c} /\ c \in PostSet
    BY <1>20 DEF PostClean, PostSet
  <2>2. Cardinality(PostSet') = Cardinality(PostSet) - 1
    BY <2>1, SetsFinite, FS_RemoveElement
  <2>3. semClean' = semClean + 1 /\ UNCHANGED <<threadList, cleanerPc>>
    BY <1>20 DEF PostClean, cleanerVars
  <2> QED BY <2>2, <2>3, SetsFinite DEF SemaphoreLag
<1>21. ASSUME TryClean PROVE SemaphoreLag'
  <2>1. PostSet' = PostSet /\ threadList' = threadList
    BY <1>21 DEF TryClean, PostSet, clientVars
  <2>2. cleanerPc = "idle" /\ IF semClean > 0 THEN semClean' = semClean - 1 /\ cleanerPc' = "pop"
                                              ELSE semClean' = semClean /\ cleanerPc' = "count"
    BY <1>21 DEF TryClean
  <2> QED BY <2>1, <2>2, SetsFinite DEF SemaphoreLag
<1>22. ASSUME PopThread PROVE SemaphoreLag'
  <2>1. threadList # <<>>
    <3>1. Len(threadList) # 0
      BY <1>22, SetsFinite DEF PopThread, SemaphoreLag
    <3> QED BY <3>1
  <2>2. Len(threadList') = Len(threadList) - 1
    BY <1>22, <2>1, RestProperties DEF PopThread
  <2>3. PostSet' = PostSet /\ semClean' = semClean
    BY <1>22 DEF PopThread, PostSet, clientVars, semVars
  <2>4. cleanerPc = "pop" /\ cleanerPc' = "join"
    BY <1>22, <2>1 DEF PopThread
  <2> QED BY <2>2, <2>3, <2>4, SetsFinite DEF SemaphoreLag
<1>23. ASSUME JoinThread PROVE SemaphoreLag'
  BY <1>23, SemaphoreQuiet DEF JoinThread, PostSet, clientVars, semVars, cleanerVars
<1>24. ASSUME Uncount PROVE SemaphoreLag'
  BY <1>24, SemaphoreQuiet DEF Uncount, PostSet, clientVars, semVars, cleanerVars
<1>25. ASSUME ReadCount PROVE SemaphoreLag'
  BY <1>25, SemaphoreQuiet DEF ReadCount, PostSet, clientVars, semVars, cleanerVars
<1>26. ASSUME TryCleanFinish PROVE SemaphoreLag'
  BY <1>26, SemaphoreQuiet DEF TryCleanFinish, PostSet, clientVars, semVars, cleanerVars
<1> QED
  BY <1>0, <1>1, <1>2, <1>3, <1>4, <1>5, <1>6, <1>7, <1>8, <1>9, <1>10, <1>11, <1>12, <1>13,
     <1>14, <1>15, <1>16, <1>17, <1>18, <1>19, <1>20, <1>21, <1>22, <1>23, <1>24, <1>25, <1>26 DEF Next, MainThread, CleanUp, Client, Outside

\* CleanUp finds a record: SemaphoreLag leaves one for it.
LEMMA RecordFound == LifecycleInv => TrashFound
<1> SUFFICES ASSUME LifecycleInv, cleanerPc = "pop" PROVE threadList # <<>>
  BY DEF TrashFound
<1>1. Len(threadList) = semClean + Cardinality(PostSet) + 1 /\ semClean \in Nat
  BY DEF LifecycleInv, SemaphoreLag, TypeOK
<1>2. Len(threadList) # 0
  BY <1>1, SetsFinite
<1> QED BY <1>2

\* A step that leaves the count and the threads it stands for alone.
LEMMA CountQuiet ==
  ASSUME CountRight, UNCHANGED <<numberOfClients, CountedSet>>, cleanerPc' = "uncount" <=> cleanerPc = "uncount"
  PROVE  CountRight'
BY DEF CountRight

\* The count follows the threads.
LEMMA CountStep == LifecycleInv /\ [Next]_vars => CountRight'
<1> SUFFICES ASSUME pc \in [Conns -> ClientPCs], trash \in Conns \cup {NoThread}, numberOfClients \in Nat,
                    NobodyEarly, Records, CountRight, LifecycleInv, [Next]_vars
             PROVE  CountRight'
  BY DEF LifecycleInv, TypeOK
<1> USE ConnsFinite DEF Goto
<1>0. CASE UNCHANGED vars
  BY <1>0, CountQuiet DEF vars, clientVars, semVars, cleanerVars, CountedSet, Counted
<1>1. ASSUME NEW c \in Conns, Arrive(c) PROVE CountRight'
  BY <1>1, CountQuiet DEF Arrive, CountedSet, Counted, clientVars, semVars, cleanerVars
<1>2. ASSUME NEW c \in Conns, Send(c) PROVE CountRight'
  BY <1>2, CountQuiet DEF Send, CountedSet, Counted, clientVars, semVars, cleanerVars
<1>3. ASSUME NEW c \in Conns, Leave(c) PROVE CountRight'
  BY <1>3, CountQuiet DEF Leave, CountedSet, Counted, clientVars, semVars, cleanerVars
<1>4. ASSUME StartFails PROVE CountRight'
  BY <1>4, CountQuiet DEF StartFails, CountedSet, Counted, clientVars, semVars, cleanerVars
<1>5. ASSUME StartCleaner PROVE CountRight'
  BY <1>5, CountQuiet DEF StartCleaner, CountedSet, NobodyEarly, Counted, clientVars, semVars, cleanerVars
<1>6. ASSUME StartFinisher PROVE CountRight'
  BY <1>6, CountQuiet DEF StartFinisher, CountedSet, Counted, clientVars, semVars, cleanerVars
<1>7. ASSUME NEW c \in Conns, Accept(c) PROVE CountRight'
  BY <1>7, CountQuiet DEF Accept, CountedSet, Counted, clientVars, semVars, cleanerVars
<1>8. ASSUME AcceptEnds PROVE CountRight'
  BY <1>8, CountQuiet DEF AcceptEnds, CountedSet, Counted, clientVars, semVars, cleanerVars
<1>9. ASSUME JoinFinisher PROVE CountRight'
  BY <1>9, CountQuiet DEF JoinFinisher, CountedSet, Counted, clientVars, semVars, cleanerVars
<1>10. ASSUME PostCleanFinish PROVE CountRight'
  BY <1>10, CountQuiet DEF PostCleanFinish, CountedSet, Counted, clientVars, semVars, cleanerVars
<1>11. ASSUME JoinCleaner PROVE CountRight'
  BY <1>11, CountQuiet DEF JoinCleaner, CountedSet, Counted, clientVars, semVars, cleanerVars
<1>12. ASSUME Exit PROVE CountRight'
  BY <1>12, CountQuiet DEF Exit, CountedSet, Counted, clientVars, semVars, cleanerVars
<1>13. ASSUME TryFinish PROVE CountRight'
  BY <1>13, CountQuiet DEF TryFinish, CountedSet, Counted, clientVars, semVars, cleanerVars
<1>14. ASSUME Quit PROVE CountRight'
  BY <1>14, CountQuiet DEF Quit, CountedSet, Counted, clientVars, semVars, cleanerVars
<1>15. ASSUME NEW c \in Conns, Enter(c) PROVE CountRight'
  <2>1. c \notin joined /\ c \notin CountedSet
    BY <1>15 DEF Enter, Records, CountedSet, Counted
  <2>2. CountedSet' = CountedSet \cup {c}
    BY <1>15, <2>1 DEF Enter, CountedSet, Counted, cleanerVars
  <2>3. Cardinality(CountedSet') = Cardinality(CountedSet) + 1
    BY <2>1, <2>2, SetsFinite, FS_AddElement
  <2>4. numberOfClients' = numberOfClients + 1 /\ cleanerPc' = cleanerPc
    BY <1>15 DEF Enter, cleanerVars
  <2> QED BY <2>3, <2>4, SetsFinite DEF CountRight
<1>16. ASSUME NEW c \in Conns, Receive(c) PROVE CountRight'
  BY <1>16, CountQuiet DEF Receive, CountedSet, Counted, clientVars, semVars, cleanerVars
<1>17. ASSUME NEW c \in Conns, ReceiveEnds(c) PROVE CountRight'
  BY <1>17, CountQuiet DEF ReceiveEnds, CountedSet, Counted, clientVars, semVars, cleanerVars
<1>18. ASSUME NEW c \in Conns, RemovePeer(c) PROVE CountRight'
  BY <1>18, CountQuiet DEF RemovePeer, CountedSet, Counted, clientVars, semVars, cleanerVars
<1>19. ASSUME NEW c \in Conns, PushThread(c) PROVE CountRight'
  BY <1>19, CountQuiet DEF PushThread, CountedSet, Counted, clientVars, semVars, cleanerVars
<1>20. ASSUME NEW c \in Conns, PostClean(c) PROVE CountRight'
  BY <1>20, CountQuiet DEF PostClean, CountedSet, Counted, clientVars, semVars, cleanerVars
<1>21. ASSUME TryClean PROVE CountRight'
  BY <1>21, CountQuiet DEF TryClean, CountedSet, Counted, clientVars, semVars, cleanerVars
<1>22. ASSUME PopThread PROVE CountRight'
  <2>1. threadList # <<>>
    BY <1>22, RecordFound DEF PopThread, TrashFound
  <2>2. cleanerPc = "pop" /\ cleanerPc' = "join" /\ UNCHANGED <<numberOfClients, CountedSet>>
    BY <1>22, <2>1 DEF PopThread, CountedSet, Counted, clientVars
  <2> QED BY <2>2, CountQuiet
<1>23. ASSUME JoinThread PROVE CountRight'
  <2>1. trash \in Conns /\ trash \in CountedSet
    BY <1>23 DEF JoinThread, Records, Waiting, CountedSet, Counted
  <2>2. CountedSet' = CountedSet \ {trash}
    BY <1>23 DEF JoinThread, CountedSet, Counted, clientVars
  <2>3. Cardinality(CountedSet') = Cardinality(CountedSet) - 1
    BY <2>1, <2>2, SetsFinite, FS_RemoveElement
  <2>4. cleanerPc = "join" /\ cleanerPc' = "uncount" /\ numberOfClients' = numberOfClients
    BY <1>23 DEF JoinThread
  <2> QED BY <2>3, <2>4, SetsFinite DEF CountRight
<1>24. ASSUME Uncount PROVE CountRight'
  <2>1. CountedSet' = CountedSet
    BY <1>24 DEF Uncount, CountedSet, Counted, clientVars
  <2>2. cleanerPc = "uncount" /\ cleanerPc' = "count" /\ numberOfClients' = numberOfClients - 1
    BY <1>24 DEF Uncount
  <2> QED BY <2>1, <2>2, SetsFinite DEF CountRight
<1>25. ASSUME ReadCount PROVE CountRight'
  BY <1>25, CountQuiet DEF ReadCount, CountedSet, Counted, clientVars, semVars, cleanerVars
<1>26. ASSUME TryCleanFinish PROVE CountRight'
  BY <1>26, CountQuiet DEF TryCleanFinish, CountedSet, Counted, clientVars, semVars, cleanerVars
<1> QED
  BY <1>0, <1>1, <1>2, <1>3, <1>4, <1>5, <1>6, <1>7, <1>8, <1>9, <1>10, <1>11, <1>12, <1>13,
     <1>14, <1>15, <1>16, <1>17, <1>18, <1>19, <1>20, <1>21, <1>22, <1>23, <1>24, <1>25, <1>26 DEF Next, MainThread, CleanUp, Client, Outside

\* Once CleanUp has read 0 only threads that have not counted themselves are left.
LEMMA LateStep == LifecycleInv /\ [Next]_vars => LateOnly'
<1> SUFFICES ASSUME pc \in [Conns -> ClientPCs], numberOfClients \in Nat, NobodyEarly, CountRight, LateOnly, [Next]_vars
             PROVE  LateOnly'
  BY DEF LifecycleInv, TypeOK
<1> USE DEF LateOnly, Counted, Goto
<1>0. CASE UNCHANGED vars
  BY <1>0 DEF vars, clientVars, semVars, cleanerVars
<1>1. ASSUME NEW c \in Conns, Arrive(c) PROVE LateOnly'
  BY <1>1 DEF Arrive, clientVars, semVars, cleanerVars
<1>2. ASSUME NEW c \in Conns, Send(c) PROVE LateOnly'
  BY <1>2 DEF Send, clientVars, semVars, cleanerVars
<1>3. ASSUME NEW c \in Conns, Leave(c) PROVE LateOnly'
  BY <1>3 DEF Leave, clientVars, semVars, cleanerVars
<1>4. ASSUME StartFails PROVE LateOnly'
  BY <1>4 DEF StartFails, clientVars, semVars, cleanerVars
<1>5. ASSUME StartCleaner PROVE LateOnly'
  BY <1>5 DEF StartCleaner, clientVars, semVars, cleanerVars
<1>6. ASSUME StartFinisher PROVE LateOnly'
  BY <1>6 DEF StartFinisher, clientVars, semVars, cleanerVars
<1>7. ASSUME NEW c \in Conns, Accept(c) PROVE LateOnly'
  BY <1>7 DEF Accept, clientVars, semVars, cleanerVars
<1>8. ASSUME AcceptEnds PROVE LateOnly'
  BY <1>8 DEF AcceptEnds, clientVars, semVars, cleanerVars
<1>9. ASSUME JoinFinisher PROVE LateOnly'
  BY <1>9 DEF JoinFinisher, clientVars, semVars, cleanerVars
<1>10. ASSUME PostCleanFinish PROVE LateOnly'
  BY <1>10 DEF PostCleanFinish, clientVars, semVars, cleanerVars
<1>11. ASSUME JoinCleaner PROVE LateOnly'
  BY <1>11 DEF JoinCleaner, clientVars, semVars, cleanerVars
<1>12. ASSUME Exit PROVE LateOnly'
  BY <1>12 DEF Exit, clientVars, semVars, cleanerVars
<1>13. ASSUME TryFinish PROVE LateOnly'
  BY <1>13 DEF TryFinish, clientVars, semVars, cleanerVars
<1>14. ASSUME Quit PROVE LateOnly'
  BY <1>14 DEF Quit, clientVars, semVars, cleanerVars
<1>15. ASSUME NEW c \in Conns, Enter(c) PROVE LateOnly'
  BY <1>15 DEF Enter, clientVars, semVars, cleanerVars
<1>16. ASSUME NEW c \in Conns, Receive(c) PROVE LateOnly'
  BY <1>16 DEF Receive, clientVars, semVars, cleanerVars
<1>17. ASSUME NEW c \in Conns, ReceiveEnds(c) PROVE LateOnly'
  BY <1>17 DEF ReceiveEnds, clientVars, semVars, cleanerVars
<1>18. ASSUME NEW c \in Conns, RemovePeer(c) PROVE LateOnly'
  BY <1>18 DEF RemovePeer, clientVars, semVars, cleanerVars
<1>19. ASSUME NEW c \in Conns, PushThread(c) PROVE LateOnly'
  BY <1>19 DEF PushThread, clientVars, semVars, cleanerVars
<1>20. ASSUME NEW c \in Conns, PostClean(c) PROVE LateOnly'
  BY <1>20 DEF PostClean, clientVars, semVars, cleanerVars
<1>21. ASSUME TryClean PROVE LateOnly'
  BY <1>21 DEF TryClean, clientVars, semVars, cleanerVars
<1>22. ASSUME PopThread PROVE LateOnly'
  BY <1>22 DEF PopThread, clientVars, semVars, cleanerVars
<1>23. ASSUME JoinThread PROVE LateOnly'
  BY <1>23 DEF JoinThread, clientVars, semVars, cleanerVars
<1>24. ASSUME Uncount PROVE LateOnly'
  BY <1>24 DEF Uncount, clientVars, semVars, cleanerVars
<1>25. ASSUME ReadCount PROVE LateOnly'
  <2>1. CASE numberOfClients # 0
    BY <1>25, <2>1 DEF ReadCount
  <2>2. CASE numberOfClients = 0
    <3>1. Cardinality(CountedSet) = 0
      BY <1>25, <2>2, SetsFinite DEF ReadCount, CountRight
    <3>2. CountedSet = {}
      BY <3>1, SetsFinite, FS_EmptySet
    <3>3. late' = {c \in Conns : ~ Counted(c)} /\ UNCHANGED <<pc, joined>>
      BY <1>25, <2>2 DEF ReadCount, clientVars
    <3> QED BY <3>2, <3>3 DEF CountedSet
  <2> QED BY <2>1, <2>2
<1>26. ASSUME TryCleanFinish PROVE LateOnly'
  BY <1>26 DEF TryCleanFinish, clientVars, semVars, cleanerVars
<1> QED
  BY <1>0, <1>1, <1>2, <1>3, <1>4, <1>5, <1>6, <1>7, <1>8, <1>9, <1>10, <1>11, <1>12, <1>13,
     <1>14, <1>15, <1>16, <1>17, <1>18, <1>19, <1>20, <1>21, <1>22, <1>23, <1>24, <1>25, <1>26 DEF Next, MainThread, CleanUp, Client, Outside

-----------------------------------------------------------------------------
LEMMA Inductive == Spec => []LifecycleInv
<1>1. Init => LifecycleInv
  <2> SUFFICES ASSUME Init PROVE LifecycleInv
    OBVIOUS
  <2> USE ConnsFinite DEF Init
  <2>1. TypeOK
    BY DEF TypeOK, MainPCs, FinisherPCs, CleanerPCs, ClientPCs
  <2>2. NobodyEarly /\ LateOnly
    BY DEF NobodyEarly, LateOnly
  <2>3. Records
    BY DEF Records, Waiting
  <2>4. PostSet = {} /\ CountedSet = {}
    BY DEF PostSet, CountedSet, Counted
  <2>5. SemaphoreLag /\ CountRight
    BY <2>4, FS_EmptySet DEF SemaphoreLag, CountRight
  <2> QED BY <2>1, <2>2, <2>3, <2>5 DEF LifecycleInv
<1>2. LifecycleInv /\ [Next]_vars => LifecycleInv'
  BY TypeStep, NobodyEarlyStep, RecordsStep, SemaphoreStep, CountStep, LateStep DEF LifecycleInv
<1> QED BY <1>1, <1>2, PTL DEF Spec

\* The unsigned counter of clients is exact and never wraps.
THEOREM CountStaysRight == Spec => [](TypeOK /\ CountRight)
<1>1. LifecycleInv => TypeOK /\ CountRight
  BY DEF LifecycleInv
<1> QED BY <1>1, Inductive, PTL

\* CleanUp never takes a record from an empty list.
THEOREM TrashAlwaysFound == Spec => []TrashFound
BY RecordFound, Inductive, PTL

\* CleanUp only waits, with threadsAccess, for threads past their last lock.
THEOREM JoinStaysSafe == Spec => []JoinSafe
<1>1. LifecycleInv => JoinSafe
  BY ConnsFinite DEF LifecycleInv, TypeOK, Records, Waiting, JoinSafe
<1> QED BY <1>1, Inductive, PTL

\* No thread is joined twice.
THEOREM NoDoubleJoin == Spec => []JoinedOnce
<1>1. LifecycleInv => JoinedOnce
  BY ConnsFinite DEF LifecycleInv, TypeOK, Records, Waiting, JoinedOnce
<1> QED BY <1>1, Inductive, PTL

\* CleanUp leaves no thread behind that had counted itself in time.
THEOREM NoneIsLeftBehind == Spec => []NoneLeftBehind
<1>1. LifecycleInv => NoneLeftBehind
  BY DEF LifecycleInv, LateOnly, NoneLeftBehind
<1> QED BY <1>1, Inductive, PTL
====
