--------------------------- MODULE ServerLifecycle ---------------------------
(***************************************************************************)
(* The threads of the central server: main with its accept loop,           *)
(* WaitForExit, CleanUp and one Client thread per connection               *)
(* (central-server/main.c, src/list_functions.c).                          *)
(*                                                                         *)
(* It is about how threads start, count themselves, are joined and how the *)
(* process ends.  What a Client thread does with a message is left out     *)
(* (module Registry has it): here a handler returns or the thread leaves   *)
(* its loop.  Time is left out too: the timeout of poll may expire at any  *)
(* moment at which its descriptor has nothing to read.                     *)
(***************************************************************************)
EXTENDS Integers, Sequences, FiniteSets

CONSTANTS Conns,     \* connections, each with its Client thread and its clientT
          NoThread

ASSUME ConnsFinite == IsFiniteSet(Conns) /\ NoThread \notin Conns

VARIABLES
  mainPc,          \* where main is
  finisherPc,      \* where WaitForExit is
  cleanerPc,       \* where CleanUp is
  pc,              \* where each Client thread is
  input,           \* what poll and recv find on each descriptor
  end_sig,
  numberOfClients, \* an unsigned int that is not expected below 0
  semFinish, semClean, semCleanFinish,
  threadList,      \* the clientT records of threads that have ended
  trash,           \* the thread CleanUp has taken from threadList
  joined,          \* threads that have been joined and whose handle is freed
  late             \* threads that had not counted themselves when CleanUp last read the count

clientVars  == <<pc, input>>
semVars     == <<semFinish, semClean, semCleanFinish>>
cleanerVars == <<cleanerPc, trash, joined, late>>
vars == <<mainPc, finisherPc, clientVars, end_sig, numberOfClients, semVars,
          threadList, cleanerVars>>

MainPCs     == {"start", "sems", "accept", "joinFinish", "postClean", "joinClean", "exit", "ended"}
FinisherPCs == {"off", "try", "getch", "ended"}
CleanerPCs  == {"off", "idle", "pop", "join", "uncount", "count", "finish", "ended"}
ClientPCs   == {"absent", "pending", "created", "receive", "cleanup", "push", "post", "ended"}

\* The increment in Client has run.
Counted(c) == pc[c] \in {"receive", "cleanup", "push", "post", "ended"}

\* The process exists: exit of main ends all threads.
Running == mainPc # "ended"

\* threadsAccess: CleanUp keeps it while it joins a thread.
ThreadsAccessFree == cleanerPc # "join"

Goto(c, label) == pc' = [pc EXCEPT ![c] = label]

Init ==
  /\ mainPc = "start" /\ finisherPc = "off" /\ cleanerPc = "off"
  /\ pc = [c \in Conns |-> "absent"] /\ input = [c \in Conns |-> "none"]
  /\ end_sig = 0 /\ numberOfClients = 0
  /\ semFinish = 0 /\ semClean = 0 /\ semCleanFinish = 0
  /\ threadList = <<>>
  /\ trash = NoThread /\ joined = {} /\ late = {}

-----------------------------------------------------------------------------
(* The clients: they connect, send and leave as they like. *)

Arrive(c) ==
  /\ mainPc \in {"accept", "joinFinish", "postClean", "joinClean"} /\ pc[c] = "absent"
  /\ Goto(c, "pending")
  /\ UNCHANGED <<mainPc, finisherPc, input, end_sig, numberOfClients, semVars, threadList, cleanerVars>>

Send(c) ==
  /\ Running /\ pc[c] \in {"pending", "created", "receive"} /\ input[c] = "none"
  /\ input' = [input EXCEPT ![c] = "data"]
  /\ UNCHANGED <<mainPc, finisherPc, pc, end_sig, numberOfClients, semVars, threadList, cleanerVars>>

Leave(c) ==
  /\ Running /\ pc[c] \in {"pending", "created", "receive"} /\ input[c] = "none"
  /\ input' = [input EXCEPT ![c] = "closed"]
  /\ UNCHANGED <<mainPc, finisherPc, pc, end_sig, numberOfClients, semVars, threadList, cleanerVars>>

-----------------------------------------------------------------------------
(* main *)

\* socket or bind fails: nothing has been created yet.
StartFails ==
  /\ mainPc = "start"
  /\ end_sig' = 1 /\ semFinish' = semFinish + 1
  /\ mainPc' = "exit"
  /\ UNCHANGED <<finisherPc, clientVars, numberOfClients, semClean, semCleanFinish, threadList, cleanerVars>>

\* CleanUp runs before the semaphores it waits for are initialised.
StartCleaner ==
  /\ mainPc = "start"
  /\ cleanerPc' = "idle" /\ mainPc' = "sems"
  /\ UNCHANGED <<finisherPc, clientVars, end_sig, numberOfClients, semVars, threadList, trash, joined, late>>

StartFinisher ==
  /\ mainPc = "sems"
  /\ semClean' = 0 /\ semCleanFinish' = 0 /\ semFinish' = 0
  /\ finisherPc' = "try" /\ mainPc' = "accept"
  /\ UNCHANGED <<clientVars, end_sig, numberOfClients, threadList, cleanerVars>>

\* The result of accept is not tested: with a descriptor of -1 poll never finds
\* anything to read.
Accept(c) ==
  /\ mainPc = "accept" /\ pc[c] = "pending"
  /\ Goto(c, "created")
  /\ input' \in {input, [input EXCEPT ![c] = "invalid"]}
  /\ UNCHANGED <<mainPc, finisherPc, end_sig, numberOfClients, semVars, threadList, cleanerVars>>

\* poll times out: only then is end_sig read.
AcceptEnds ==
  /\ mainPc = "accept" /\ end_sig = 1
  /\ \A c \in Conns : pc[c] # "pending"
  /\ mainPc' = "joinFinish"
  /\ UNCHANGED <<finisherPc, clientVars, end_sig, numberOfClients, semVars, threadList, cleanerVars>>

JoinFinisher ==
  /\ mainPc = "joinFinish" /\ finisherPc = "ended"
  /\ mainPc' = "postClean"
  /\ UNCHANGED <<finisherPc, clientVars, end_sig, numberOfClients, semVars, threadList, cleanerVars>>

\* Variant: CleanUp is not told.
PostCleanFinish_missing ==
  /\ mainPc = "postClean"
  /\ mainPc' = "joinClean"
  /\ UNCHANGED <<finisherPc, clientVars, end_sig, numberOfClients, semVars, threadList, cleanerVars>>

PostCleanFinish ==
  /\ mainPc = "postClean"
  /\ semCleanFinish' = semCleanFinish + 1
  /\ mainPc' = "joinClean"
  /\ UNCHANGED <<finisherPc, clientVars, end_sig, numberOfClients, semFinish, semClean, threadList, cleanerVars>>

JoinCleaner ==
  /\ mainPc = "joinClean" /\ cleanerPc = "ended"
  /\ mainPc' = "exit"
  /\ UNCHANGED <<finisherPc, clientVars, end_sig, numberOfClients, semVars, threadList, cleanerVars>>

\* The semaphores, mutexes and lists are destroyed and the process ends.
Exit ==
  /\ mainPc = "exit"
  /\ mainPc' = "ended"
  /\ UNCHANGED <<finisherPc, clientVars, end_sig, numberOfClients, semVars, threadList, cleanerVars>>

-----------------------------------------------------------------------------
(* WaitForExit *)

TryFinish ==
  /\ Running /\ finisherPc = "try"
  /\ IF semFinish > 0 THEN semFinish' = semFinish - 1 /\ finisherPc' = "ended"
                      ELSE finisherPc' = "getch" /\ UNCHANGED semFinish
  /\ UNCHANGED <<mainPc, clientVars, end_sig, numberOfClients, semClean, semCleanFinish, threadList, cleanerVars>>

\* The user types q; any other key starts the loop again.
Quit ==
  /\ Running /\ finisherPc = "getch"
  /\ end_sig' = 1 /\ semFinish' = semFinish + 2
  /\ finisherPc' = "try"
  /\ UNCHANGED <<mainPc, clientVars, numberOfClients, semClean, semCleanFinish, threadList, cleanerVars>>

-----------------------------------------------------------------------------
(* Client *)

\* Variant: the thread does not count itself.
Enter_uncounted(c) ==
  /\ Running /\ pc[c] = "created"
  /\ Goto(c, "receive")
  /\ UNCHANGED <<mainPc, finisherPc, input, end_sig, numberOfClients, semVars, threadList, cleanerVars>>

Enter(c) ==
  /\ Running /\ pc[c] = "created"
  /\ numberOfClients' = numberOfClients + 1
  /\ Goto(c, "receive")
  /\ UNCHANGED <<mainPc, finisherPc, input, end_sig, semVars, threadList, cleanerVars>>

\* poll reports something to read, and recv takes it: the client is gone or the
\* handler of its message fails, and the loop ends; or the message is handled.
Receive(c) ==
  /\ Running /\ pc[c] = "receive" /\ input[c] \in {"data", "closed"}
  /\ input' = [input EXCEPT ![c] = IF @ = "data" THEN "none" ELSE @]
  /\ \/ Goto(c, "cleanup")
     \/ input[c] = "data" /\ UNCHANGED pc
  /\ UNCHANGED <<mainPc, finisherPc, end_sig, numberOfClients, semVars, threadList, cleanerVars>>

\* poll times out: only then is end_sig read.
ReceiveEnds(c) ==
  /\ Running /\ pc[c] = "receive" /\ input[c] \in {"none", "invalid"} /\ end_sig = 1
  /\ Goto(c, "cleanup")
  /\ UNCHANGED <<mainPc, finisherPc, input, end_sig, numberOfClients, semVars, threadList, cleanerVars>>

\* Variant: the record is handed over before the thread is done with it.
RemovePeer_handsOver(c) ==
  /\ Running /\ pc[c] = "cleanup" /\ ThreadsAccessFree
  /\ Goto(c, "push")
  /\ threadList' = Append(threadList, c)
  /\ semClean' = semClean + 1
  /\ UNCHANGED <<mainPc, finisherPc, input, end_sig, numberOfClients, semFinish, semCleanFinish, cleanerVars>>

\* RemovePeer, CheckBlocksList and close: the registry's part of the cleanup.
RemovePeer(c) ==
  /\ Running /\ pc[c] = "cleanup"
  /\ Goto(c, "push")
  /\ UNCHANGED <<mainPc, finisherPc, input, end_sig, numberOfClients, semVars, threadList, cleanerVars>>

\* Variant: the record does not reach the list.
PushThread_lost(c) ==
  /\ Running /\ pc[c] = "push" /\ ThreadsAccessFree
  /\ Goto(c, "post")
  /\ UNCHANGED <<mainPc, finisherPc, input, end_sig, numberOfClients, semVars, threadList, cleanerVars>>

PushThread(c) ==
  /\ Running /\ pc[c] = "push" /\ ThreadsAccessFree
  /\ threadList' = Append(threadList, c)
  /\ Goto(c, "post")
  /\ UNCHANGED <<mainPc, finisherPc, input, end_sig, numberOfClients, semVars, cleanerVars>>

PostClean(c) ==
  /\ Running /\ pc[c] = "post"
  /\ semClean' = semClean + 1
  /\ Goto(c, "ended")
  /\ UNCHANGED <<mainPc, finisherPc, input, end_sig, numberOfClients, semFinish, semCleanFinish, threadList, cleanerVars>>

-----------------------------------------------------------------------------
(* CleanUp *)

TryClean ==
  /\ Running /\ cleanerPc = "idle"
  /\ IF semClean > 0 THEN semClean' = semClean - 1 /\ cleanerPc' = "pop"
                     ELSE cleanerPc' = "count" /\ UNCHANGED semClean
  /\ UNCHANGED <<mainPc, finisherPc, clientVars, end_sig, numberOfClients, semFinish, semCleanFinish, threadList, trash, joined, late>>

\* list_rpop: the record pushed last, NULL when there is none.
\* Variant: the record is read but stays in the list.
Rest_keeps(list) == list
Rest(list) == SubSeq(list, 1, Len(list) - 1)

PopThread ==
  /\ Running /\ cleanerPc = "pop"
  /\ IF threadList = <<>>
     THEN cleanerPc' = "uncount" /\ UNCHANGED <<threadList, trash>>
     ELSE /\ trash' = threadList[Len(threadList)]
          /\ threadList' = Rest(threadList)
          /\ cleanerPc' = "join"
  /\ UNCHANGED <<mainPc, finisherPc, clientVars, end_sig, numberOfClients, semVars, joined, late>>

JoinThread ==
  /\ Running /\ cleanerPc = "join" /\ pc[trash] = "ended"
  /\ joined' = joined \cup {trash} /\ trash' = NoThread
  /\ cleanerPc' = "uncount"
  /\ UNCHANGED <<mainPc, finisherPc, clientVars, end_sig, numberOfClients, semVars, threadList, late>>

Uncount ==
  /\ Running /\ cleanerPc = "uncount"
  /\ numberOfClients' = numberOfClients - 1
  /\ cleanerPc' = "count"
  /\ UNCHANGED <<mainPc, finisherPc, clientVars, end_sig, semVars, threadList, trash, joined, late>>

\* Variant: the count is not looked at.
ReadCount_ignored ==
  /\ Running /\ cleanerPc = "count"
  /\ cleanerPc' = "finish" /\ late' = {c \in Conns : ~ Counted(c)}
  /\ UNCHANGED <<mainPc, finisherPc, clientVars, end_sig, numberOfClients, semVars, threadList, trash, joined>>

\* The count is read without clientsAccess.
ReadCount ==
  /\ Running /\ cleanerPc = "count"
  /\ IF numberOfClients = 0
     THEN cleanerPc' = "finish" /\ late' = {c \in Conns : ~ Counted(c)}
     ELSE cleanerPc' = "idle" /\ UNCHANGED late
  /\ UNCHANGED <<mainPc, finisherPc, clientVars, end_sig, numberOfClients, semVars, threadList, trash, joined>>

TryCleanFinish ==
  /\ Running /\ cleanerPc = "finish"
  /\ IF semCleanFinish > 0
     THEN semCleanFinish' = semCleanFinish - 1 /\ cleanerPc' = "ended" /\ UNCHANGED late
     ELSE cleanerPc' = "idle" /\ late' = {} /\ UNCHANGED semCleanFinish
  /\ UNCHANGED <<mainPc, finisherPc, clientVars, end_sig, numberOfClients, semFinish, semClean, threadList, trash, joined>>

-----------------------------------------------------------------------------
MainThread == \/ StartFails \/ StartCleaner \/ StartFinisher \/ (\E c \in Conns : Accept(c))
              \/ AcceptEnds \/ JoinFinisher \/ PostCleanFinish \/ JoinCleaner \/ Exit

CleanUp == TryClean \/ PopThread \/ JoinThread \/ Uncount \/ ReadCount \/ TryCleanFinish

Client(c) == \/ Enter(c) \/ Receive(c) \/ ReceiveEnds(c) \/ RemovePeer(c)
             \/ PushThread(c) \/ PostClean(c)

\* What the user and the clients do.
Outside == Quit \/ \E c \in Conns : Arrive(c) \/ Send(c) \/ Leave(c)

Next == MainThread \/ CleanUp \/ TryFinish \/ (\E c \in Conns : Client(c)) \/ Outside

Spec == Init /\ [][Next]_vars

\* Every thread is scheduled and the handlers of the registry return; nothing is
\* assumed of the user and the clients.
FairSpec == /\ Spec /\ WF_vars(MainThread) /\ WF_vars(CleanUp) /\ WF_vars(TryFinish)
            /\ \A c \in Conns : WF_vars(Client(c))

-----------------------------------------------------------------------------
(* Properties *)

TypeOK ==
  /\ mainPc \in MainPCs /\ finisherPc \in FinisherPCs /\ cleanerPc \in CleanerPCs
  /\ pc \in [Conns -> ClientPCs] /\ input \in [Conns -> {"none", "data", "closed", "invalid"}]
  /\ end_sig \in {0, 1} /\ numberOfClients \in Nat
  /\ semFinish \in Nat /\ semClean \in Nat /\ semCleanFinish \in Nat
  /\ threadList \in Seq(Conns)
  /\ trash \in Conns \cup {NoThread} /\ joined \subseteq Conns /\ late \subseteq Conns

\* numberOfClients is the number of threads that have counted themselves and
\* that CleanUp has not yet uncounted, whatever order they end and are joined
\* in: the unsigned counter never wraps and reaches 0 when all are joined.
CountedSet == {c \in Conns : Counted(c)} \ joined
CountRight == numberOfClients = Cardinality(CountedSet) + (IF cleanerPc = "uncount" THEN 1 ELSE 0)

\* CleanUp finds a record for each time it gets semClean: it never uncounts a
\* thread it has not joined.
TrashFound == cleanerPc = "pop" => threadList # <<>>

\* A thread that CleanUp joins, keeping threadsAccess, will not need that mutex
\* again, although it need not be the thread whose post woke CleanUp up.
JoinSafe == cleanerPc = "join" => trash \in Conns /\ pc[trash] \in {"post", "ended"}

\* No thread is joined, and no handle freed, twice.
JoinedOnce ==
  /\ trash \notin joined
  /\ \A i \in 1..Len(threadList) : threadList[i] \notin joined \cup {trash}

\* When CleanUp has ended, and main can destroy the lists and the mutexes, each
\* thread that had counted itself at CleanUp's last look has ended and been
\* joined.  A thread that was created but slow to count itself can be left.
NoneLeftBehind ==
  cleanerPc = "ended" => \A c \in Conns : Counted(c) => c \in joined \cup late

-----------------------------------------------------------------------------
(* The inductive invariant behind them *)

\* Every record in threadList or in CleanUp's hands is of a thread that has
\* pushed it; the others that did have been joined.
Waiting(c) == c = trash \/ \E i \in 1..Len(threadList) : threadList[i] = c
Records ==
  /\ \A c \in Conns : Waiting(c) => pc[c] \in {"post", "ended"} /\ c \notin joined
  /\ \A c \in joined : pc[c] = "ended"
  /\ \A i, j \in 1..Len(threadList) : threadList[i] = threadList[j] => i = j
  /\ \A i \in 1..Len(threadList) : threadList[i] # trash
  /\ cleanerPc = "join" <=> trash # NoThread

\* semClean lags behind threadList by the threads between push and post, and
\* by the record CleanUp is about to take.
PostSet == {c \in Conns : pc[c] = "post"}
SemaphoreLag ==
  Len(threadList) = semClean + Cardinality(PostSet) + (IF cleanerPc = "pop" THEN 1 ELSE 0)

\* From the moment CleanUp has read 0 only late threads can be left over.
LateOnly ==
  cleanerPc \in {"finish", "ended"} =>
    \A c \in Conns : IF Counted(c) THEN c \in joined \cup late ELSE c \in late

\* main resets the semaphores before it accepts anything.
NobodyEarly == /\ mainPc \in {"start", "sems"} => \A c \in Conns : pc[c] = "absent"
               /\ mainPc = "start" => cleanerPc = "off"

LifecycleInv == TypeOK /\ NobodyEarly /\ Records /\ SemaphoreLag /\ CountRight /\ LateOnly

-----------------------------------------------------------------------------
(* Liveness *)

\* A connection that has ended is cleaned up: its thread is joined, unless the
\* process ends first.
EveryThreadJoined == \A c \in Conns : pc[c] = "cleanup" ~> c \in joined \/ ~ Running

\* A thread in its receive loop finds a message on its socket.
KeptBusy == \E c \in Conns : pc[c] = "receive" /\ input[c] = "data"

\* Once q has been typed the process ends, provided that the clients whose threads
\* are in their receive loops stop sending at some time (main.c:191).  Threads whose
\* handler failed, and clients that were never accepted, do not keep the server.
QuietShutdown == <>[](~ KeptBusy) => (end_sig = 1 ~> mainPc = "ended")
=============================================================================
