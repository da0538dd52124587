----------------------------- MODULE PeerProcess -----------------------------
(***************************************************************************)
(* The threads of the p2p client: main, ClientThread, ServerThread with a  *)
(* ServerSubThread per connection, and GarbageCollectorThread, which joins *)
(* and frees what the trash queue hands it (p2p-client/main.c,             *)
(* src/server_thread.c, src/TrashQueue.c).                                 *)
(*                                                                         *)
(* The queue is the linked list of the code: head, tail and the next       *)
(* pointers of its elements.  A connection's thread pushes one element, so *)
(* the element is named by the connection.  What a ServerSubThread sends   *)
(* is in module Transfer, what ClientThread does for a command is not      *)
(* here.  exit() of any thread ends the process.                           *)
(***************************************************************************)
EXTENDS Integers, Sequences, FiniteSets

CONSTANTS Conns,  \* connections of other peers
          NULL

ASSUME PeerAssumption == IsFiniteSet(Conns) /\ NULL \notin Conns

VARIABLES
  mainPc, clientPc, serverPc, gcPc, \* where the threads are
  pc,         \* where each ServerSubThread is
  head, tail, \* of the trash queue
  next,       \* tmp->next of each element
  live,       \* elements that are allocated
  trash,      \* the elements from head to tail (history: the code has the pointers)
  garbageSem,
  arg,        \* the record GarbageCollectorThread works on
  tmp,        \* popTrash's element, still to be freed
  released,   \* connections whose record has been freed
  exitCode,   \* -1 while the process runs
  fault

queueVars == <<head, tail, next, trash>>
gcVars    == <<gcPc, arg, tmp, released>>
shellVars == <<mainPc, clientPc, serverPc, exitCode>>
vars == <<shellVars, gcVars, pc, queueVars, live, garbageSem, fault>>

Running == exitCode = -1 /\ fault = "none"
Goto(c, label) == pc' = [pc EXCEPT ![c] = label]

Init ==
  /\ mainPc = "init" /\ clientPc = "off" /\ serverPc = "off" /\ gcPc = "off"
  /\ pc = [c \in Conns |-> "absent"]
  /\ head = NULL /\ tail = NULL /\ next = [c \in Conns |-> NULL]
  /\ live = {} /\ trash = <<>> /\ garbageSem = 0
  /\ arg = NULL /\ tmp = NULL /\ released = {}
  /\ exitCode = -1 /\ fault = "none"

-----------------------------------------------------------------------------
(* main and ClientThread *)

\* InitGlobalVar exits with 1 for a bad address and 3 without memory.
CreateThreads ==
  /\ Running /\ mainPc = "init"
  /\ \/ mainPc' = "joinClient" /\ clientPc' = "start" /\ serverPc' = "start" /\ UNCHANGED exitCode
     \/ exitCode' \in {1, 3} /\ UNCHANGED <<mainPc, clientPc, serverPc>>
  /\ UNCHANGED <<gcVars, pc, queueVars, live, garbageSem, fault>>

\* ClientThread connects and says hello; it returns when it cannot connect, and
\* exits with 2 or 3 when the downloads directory cannot be read.
StartClient ==
  /\ Running /\ clientPc = "start"
  /\ \/ clientPc' \in {"command", "unconnected"} /\ UNCHANGED exitCode
     \/ exitCode' \in {2, 3} /\ UNCHANGED clientPc
  /\ UNCHANGED <<mainPc, serverPc, gcVars, pc, queueVars, live, garbageSem, fault>>

\* The user types exit.
ExitCommand ==
  /\ Running /\ clientPc = "command"
  /\ clientPc' = "exited"
  /\ UNCHANGED <<mainPc, serverPc, exitCode, gcVars, pc, queueVars, live, garbageSem, fault>>

JoinClient ==
  /\ Running /\ mainPc = "joinClient" /\ clientPc \in {"unconnected", "exited"}
  /\ mainPc' = "joinServer"
  /\ UNCHANGED <<clientPc, serverPc, exitCode, gcVars, pc, queueVars, live, garbageSem, fault>>

JoinServer ==
  /\ Running /\ mainPc = "joinServer" /\ serverPc = "ended"
  /\ mainPc' = "ended" /\ exitCode' = 0
  /\ UNCHANGED <<clientPc, serverPc, gcVars, pc, queueVars, live, garbageSem, fault>>

-----------------------------------------------------------------------------
(* ServerThread *)

\* initTrashQueue, the semaphore and GarbageCollectorThread come first.
StartServer ==
  /\ Running /\ serverPc = "start"
  /\ head' = NULL /\ tail' = NULL /\ garbageSem' = 0
  /\ gcPc' = "wait" /\ serverPc' = "bind"
  /\ UNCHANGED <<mainPc, clientPc, exitCode, arg, tmp, released, pc, next, trash, live, fault>>

Bind ==
  /\ Running /\ serverPc = "bind"
  /\ \/ serverPc' = "accept" /\ UNCHANGED exitCode
     \/ exitCode' \in {21, 22} /\ UNCHANGED serverPc
  /\ UNCHANGED <<mainPc, clientPc, gcVars, pc, queueVars, live, garbageSem, fault>>

Accept(c) ==
  /\ Running /\ serverPc = "accept" /\ pc[c] = "absent"
  /\ Goto(c, "serve")
  /\ UNCHANGED <<shellVars, gcVars, queueVars, live, garbageSem, fault>>

\* A failing accept ends the loop and the thread.
AcceptFails ==
  /\ Running /\ serverPc = "accept"
  /\ serverPc' = "ended"
  /\ UNCHANGED <<mainPc, clientPc, exitCode, gcVars, pc, queueVars, live, garbageSem, fault>>

-----------------------------------------------------------------------------
(* ServerSubThread and pushTrash *)

\* Variant: an error return does not go through the trash queue.
Serve_returns(c) ==
  /\ Running /\ pc[c] = "serve"
  /\ Goto(c, "alloc") \/ Goto(c, "ended")
  /\ UNCHANGED <<shellVars, gcVars, queueVars, live, garbageSem, fault>>

\* The connection ends, or one of the error returns is taken.
Serve(c) ==
  /\ Running /\ pc[c] = "serve"
  /\ Goto(c, "alloc")
  /\ UNCHANGED <<shellVars, gcVars, queueVars, live, garbageSem, fault>>

\* malloc may fail at any time.  pushTrash's result is not looked at: without
\* memory the record is not queued but its semaphore is posted all the same.
Allocate(c) ==
  /\ Running /\ pc[c] = "alloc"
  /\ \/ live' = live \cup {c} /\ next' = [next EXCEPT ![c] = NULL] /\ Goto(c, "link")
     \/ Goto(c, "post") /\ UNCHANGED <<live, next>>
  /\ UNCHANGED <<shellVars, gcVars, head, tail, trash, garbageSem, fault>>

\* Variant: the thread is the last to write the tail but the link is lost.
PushTrash_unlinked(c) ==
  /\ Running /\ pc[c] = "link"
  /\ head' = (IF head = NULL THEN c ELSE head) /\ tail' = c /\ UNCHANGED <<next, fault>>
  /\ trash' = Append(trash, c)
  /\ Goto(c, "post")
  /\ UNCHANGED <<shellVars, gcVars, live, garbageSem>>

PushTrash(c) ==
  /\ Running /\ pc[c] = "link"
  /\ IF head = NULL
     THEN head' = c /\ tail' = c /\ UNCHANGED <<next, fault>>
     ELSE /\ fault' = IF tail \in live THEN "none" ELSE "use_after_free"
          /\ next' = [next EXCEPT ![tail] = c]
          /\ tail' = c /\ UNCHANGED head
  /\ trash' = Append(trash, c)
  /\ Goto(c, "post")
  /\ UNCHANGED <<shellVars, gcVars, live, garbageSem>>

PostGarbage(c) ==
  /\ Running /\ pc[c] = "post"
  /\ garbageSem' = garbageSem + 1
  /\ Goto(c, "ended")
  /\ UNCHANGED <<shellVars, gcVars, queueVars, live, fault>>

-----------------------------------------------------------------------------
(* GarbageCollectorThread and popTrash *)

WaitGarbage ==
  /\ Running /\ gcPc = "wait" /\ garbageSem > 0
  /\ garbageSem' = garbageSem - 1
  /\ gcPc' = "pop"
  /\ UNCHANGED <<shellVars, arg, tmp, released, pc, queueVars, live, fault>>

\* Variant: the tail is taken, as from a stack.
PopTrash_last ==
  /\ Running /\ gcPc = "pop" /\ head # NULL
  /\ arg' = tail /\ tmp' = tail
  /\ head' = IF head = tail THEN NULL ELSE head
  /\ trash' = SubSeq(trash, 1, Len(trash) - 1)
  /\ gcPc' = "free"
  /\ UNCHANGED <<shellVars, released, pc, tail, next, live, garbageSem, fault>>

\* popTrash returns NULL when nothing is queued, and it is dereferenced.
PopTrash ==
  /\ Running /\ gcPc = "pop"
  /\ IF head = NULL
     THEN fault' = "null_record" /\ UNCHANGED <<arg, tmp, head, trash>>
     ELSE /\ arg' = head /\ tmp' = head
          /\ head' = next[head]
          /\ trash' = Tail(trash)
          /\ UNCHANGED fault
  /\ gcPc' = "free"
  /\ UNCHANGED <<shellVars, released, pc, tail, next, live, garbageSem>>

\* free(tmp), after the mutex has been released.
FreeElement ==
  /\ Running /\ gcPc = "free"
  /\ live' = live \ {tmp} /\ tmp' = NULL
  /\ gcPc' = "join"
  /\ UNCHANGED <<shellVars, arg, released, pc, queueVars, garbageSem, fault>>

\* Variant: the thread is not waited for.
JoinSubThread_detached ==
  /\ Running /\ gcPc = "join"
  /\ released' = released \cup {arg} /\ arg' = NULL
  /\ gcPc' = "wait"
  /\ UNCHANGED <<shellVars, tmp, pc, queueVars, live, garbageSem, fault>>

\* The thread is joined and its record is freed.
JoinSubThread ==
  /\ Running /\ gcPc = "join" /\ pc[arg] = "ended"
  /\ released' = released \cup {arg} /\ arg' = NULL
  /\ gcPc' = "wait"
  /\ UNCHANGED <<shellVars, tmp, pc, queueVars, live, garbageSem, fault>>

-----------------------------------------------------------------------------
MainThread == CreateThreads \/ JoinClient \/ JoinServer
ServerThread == StartServer \/ Bind
ServerSubThread(c) == Serve(c) \/ Allocate(c) \/ PushTrash(c) \/ PostGarbage(c)
GarbageCollector == WaitGarbage \/ PopTrash \/ FreeElement \/ JoinSubThread
Outside == ExitCommand \/ AcceptFails \/ \E c \in Conns : Accept(c)

Next == \/ MainThread \/ StartClient \/ ServerThread \/ GarbageCollector \/ Outside
        \/ \E c \in Conns : ServerSubThread(c)

Spec == Init /\ [][Next]_vars

\* All threads are scheduled; a connection may last as long as the other peer
\* likes, the user may type nothing and accept need not fail.
FairSpec ==
  /\ Spec /\ WF_vars(MainThread) /\ WF_vars(StartClient) /\ WF_vars(ServerThread)
  /\ WF_vars(GarbageCollector)
  /\ \A c \in Conns : WF_vars(Allocate(c) \/ PushTrash(c) \/ PostGarbage(c))

-----------------------------------------------------------------------------
(* Properties *)

Pointers == Conns \cup {NULL}

TypeOK ==
  /\ mainPc \in {"init", "joinClient", "joinServer", "ended"}
  /\ clientPc \in {"off", "start", "command", "unconnected", "exited"}
  /\ serverPc \in {"off", "start", "bind", "accept", "ended"}
  /\ gcPc \in {"off", "wait", "pop", "free", "join"}
  /\ pc \in [Conns -> {"absent", "serve", "alloc", "link", "post", "ended"}]
  /\ head \in Pointers /\ tail \in Pointers /\ next \in [Conns -> Pointers]
  /\ live \subseteq Conns /\ trash \in Seq(Conns) /\ garbageSem \in Nat
  /\ arg \in Pointers /\ tmp \in Pointers /\ released \subseteq Conns
  /\ exitCode \in {-1, 0, 1, 2, 3, 21, 22}
  /\ fault \in {"none", "null_record", "use_after_free"}

\* The pointers are the queue: from head the next pointers lead through its
\* elements in order, the last of them is tail, and none has been freed, although
\* tail keeps pointing to a freed element while the queue is empty and free runs
\* outside the mutex.
Linked ==
  /\ head = IF trash = <<>> THEN NULL ELSE trash[1]
  /\ trash # <<>> => tail = trash[Len(trash)]
  /\ \A i \in 1..Len(trash) :
       /\ trash[i] \in live /\ trash[i] # tmp
       /\ next[trash[i]] = IF i = Len(trash) THEN NULL ELSE trash[i + 1]

\* The threads whose record is in the queue or has been taken out of it.
Queued == {trash[i] : i \in 1..Len(trash)} \cup released \cup ({arg} \ {NULL})

\* The threads whose record a failing malloc has kept out of the queue.
Unqueued == {c \in Conns : pc[c] \in {"post", "ended"} /\ c \notin Queued}

\* As long as no malloc of pushTrash has failed there is a record for each
\* semaphore and the element popTrash reads is allocated: its result needs no
\* test then.  One failure is enough for the collector to meet a missing record.
RecordThere == Unqueued = {} => fault = "none" /\ (gcPc = "pop" => head # NULL)

\* A thread's record, with its socket and its handle, is freed once, and only
\* when the thread has ended.
FreedAfterUse ==
  /\ \A c \in released : pc[c] = "ended"
  /\ arg \notin released
  /\ \A i \in 1..Len(trash) : trash[i] \notin released \cup {arg}

\* The queue hands the records over in the order in which they were pushed, each
\* once, whatever malloc does.
Queue == INSTANCE Fifo WITH Items <- Conns, queue <- trash, used <- Queued
IsFifo == Queue!Spec

-----------------------------------------------------------------------------
(* The inductive invariant behind them *)

\* An element is in one place only.
Elements ==
  /\ \A i, j \in 1..Len(trash) : trash[i] = trash[j] => i = j
  /\ \A i \in 1..Len(trash) : pc[trash[i]] \in {"post", "ended"}
  /\ \A c \in Conns : pc[c] = "link" => c \in live /\ next[c] = NULL
  /\ gcPc = "free" /\ fault = "none" => tmp # NULL /\ arg = tmp
  /\ gcPc # "free" => tmp = NULL
  /\ arg # NULL => gcPc \in {"free", "join"} /\ pc[arg] \in {"post", "ended"}
  /\ gcPc \in {"off", "wait", "pop"} => arg = NULL
  /\ gcPc = "join" => arg # NULL

\* garbageSem lags behind the queue by the threads between push and post, and
\* by the record the collector is about to take; it runs ahead of it by the
\* records that were not queued.
Posting == {c \in Conns : pc[c] = "post"}
SemaphoreLag ==
  fault = "none" =>
    Len(trash) + Cardinality(Unqueued) = garbageSem + Cardinality(Posting) + (IF gcPc = "pop" THEN 1 ELSE 0)

\* main creates ServerThread, which accepts nothing before it has set up the
\* collector.
Early == /\ serverPc \in {"off", "start", "bind"} => \A c \in Conns : pc[c] = "absent"
         /\ serverPc \in {"off", "start"} => gcPc = "off"
         /\ mainPc = "init" => serverPc = "off"

PeerInv == TypeOK /\ Linked /\ RecordThere /\ FreedAfterUse /\ Elements /\ SemaphoreLag /\ Early

-----------------------------------------------------------------------------
(* Liveness *)

\* A thread that has ended is joined and its record freed, as long as the
\* process lasts.
EveryThreadReleased == \A c \in Conns : pc[c] = "ended" ~> c \in released \/ ~ Running
=============================================================================
