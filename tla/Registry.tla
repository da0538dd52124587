------------------------------ MODULE Registry ------------------------------
(***************************************************************************)
(* The central server's registry: the global lists of peers, blocks and    *)
(* files, and the Client threads that change them                          *)
(* (central-server/main.c, src/jsonFunctions.c, src/list_functions.c).     *)
(*                                                                         *)
(* One thread serves one connection.  An action is what a thread does      *)
(* between two points where another thread can get in: a critical section  *)
(* of blocksAccess or filesAccess, one of peersAccess (which no thread     *)
(* holds while it waits, so it needs no variable), or a run of code that   *)
(* reads or writes the lists without a lock.  filesAccess and blocksAccess *)
(* are variables because two handlers keep one while they wait for the     *)
(* other.                                                                  *)
(*                                                                         *)
(* The order of the block and file lists does not reach any result, so     *)
(* they are sets; the peers list is a sequence, its first and last         *)
(* elements matter; a block's peers list is a bag, because list_find       *)
(* removes one occurrence and the same peer may be in it twice.            *)
(*                                                                         *)
(* Undefined behaviour ends a behaviour of the model: `fault` names it and *)
(* no action is enabled any more.  Nothing is claimed about what follows.  *)
(***************************************************************************)
EXTENDS Integers, Sequences, FiniteSets

LOCAL INSTANCE Functions

CONSTANTS
  Conns,      \* connections, each with its Client thread and its peerT
  Main,       \* those of a client's ClientThread; the others belong to DownloadFile
  OwnerOf,    \* [Conns -> Main]: the main connection of the same client process
  Ip,         \* [Conns -> address] the client's address
  PortOf,     \* [Main -> port] "pearListeningSocket" of the hello message
  Files, Blocks,
  FileOf,     \* [Blocks -> Files] the block's parentFile
  AnnFiles,   \* [Main -> SUBSET Files] "files" of the hello message
  AnnBlocks,  \* [Main -> SUBSET Blocks] "blocks" of the hello message
  NumOf,      \* [Main -> [Files -> Nat]] "numOfBlocks" of those files
  Wants,      \* [Conns -> Files] the file a download connection is opened for
  Attempts,   \* ATTEMPTS: how often GetPeerInfo draws an entry
  NoConn, NoBlock, NoPort

ASSUME ConnsAssumption == /\ Main \subseteq Conns
                          /\ OwnerOf \in [Conns -> Main]
                          /\ NoConn \notin Conns
ASSUME DataAssumption  == /\ FileOf \in [Blocks -> Files]
                          /\ AnnFiles \in [Main -> SUBSET Files]
                          /\ AnnBlocks \in [Main -> SUBSET Blocks]
                          /\ NumOf \in [Main -> [Files -> Nat]]
                          /\ Wants \in [Conns -> Files]
                          /\ NoBlock \notin Blocks

ASSUME AttemptsAssumption == Attempts \in Nat \ {0}

\* A client connects from one address, for its downloads as well.
ASSUME AddressAssumption == \A c \in Conns \ Main : Ip[c] = Ip[OwnerOf[c]]

\* A client reads its blocks and its files from the same metadata files.
ASSUME HelloAssumption == \A m \in Main : \A b \in AnnBlocks[m] : FileOf[b] \in AnnFiles[m]

VARIABLES
  pc,             \* where each Client thread is; see PCs
  peersList,      \* globalPeersList
  blocksList,     \* globalBlocksList
  holders,        \* block->peers of each listed block: occurrences of each peer
  filesList,      \* globalFilesList
  fileBlocks,     \* file->blocks
  numberOfBlocks, \* file->numberOfBlocks
  isComplete,     \* file->isComplete
  blocksLock,     \* owner of blocksAccess or NoConn
  filesLock,      \* owner of filesAccess or NoConn
  port,           \* peer->listeningSocket; uninitialised memory until AddPeer
  held,           \* the thread's block pointer (requested_block, block)
  gone,           \* TRUE once the block that pointer names has been freed
  found,          \* fPeer of AddPeerToBlock: {} when NULL
  draw,           \* GetPeerInfo's draw of an entry; see Draws
  todo,           \* files of the hello message GetFiles has still to add
  started,        \* main connections that have sent their hello message
  seen,           \* the files of the last ls reply of each main connection
  dl,             \* what a download connection knows of each block
  fault           \* the undefined behaviour met, or "none"

threadVars == <<pc, port, held, gone, found, draw, todo>>
clientVars == <<started, seen, dl>>
fileVars   == <<filesList, fileBlocks, numberOfBlocks, isComplete>>
blockVars  == <<blocksList, holders>>
lockVars   == <<blocksLock, filesLock>>
vars == <<threadVars, clientVars, fileVars, blockVars, lockVars, peersList, fault>>

PCs == {"off", "idle", "AddBlocks", "GetFiles", "MakeBlocksList", "GetPeerInfo",
        "list_at", "ReadPeer", "AddPeerToBlock", "push", "RemoveFromGlobal", "RemoveFromBlocks", "FreePeer",
        "CheckBlocksList", "check", "RemoveFromParentFile", "FreeBlock", "done"}
DlStates == {"wanted", "named", "lost", "reported"}
Faults == {"none", "use_after_free", "division_by_zero", "null_pointer", "list_race"}

-----------------------------------------------------------------------------
Goto(c, label) == pc' = [pc EXCEPT ![c] = label]

\* The handler that looked the block up returns.
DropBlock(c) == held' = [held EXCEPT ![c] = NoBlock] /\ gone' = [gone EXCEPT ![c] = FALSE]

\* Variant: the file names are not compared.
BlocksOf_any(f) == Blocks
BlocksOf(f) == {b \in Blocks : FileOf[b] = f}

\* Variant: a block is taken for empty when one peer is left.
NobodyHolds_offByOne(b) == Cardinality({m \in Main : holders[b][m] > 0}) <= 1
NobodyHolds(b) == \A m \in Main : holders[b][m] = 0

\* file->blocks after MakeBlocksList.
\* Variant: only a file that is new gets its blocks.
ListBlocks_onlyNew(f) == IF f \in filesList THEN fileBlocks[f] ELSE blocksList \cap BlocksOf(f)
ListBlocks(f) == fileBlocks[f] \cup (blocksList \cap BlocksOf(f))

\* file->isComplete once the file has these blocks.
\* Variant: the flag is set but never cleared.
CompleteWith_sticky(f, blocks, number) == isComplete[f] \/ Cardinality(blocks) = number
CompleteWith(f, blocks, number) == Cardinality(blocks) = number

\* RemoveFromParentFile takes a file out of the list with its last block.
\* Variant: it leaves it there.
Emptied_never(blocks) == FALSE
Emptied(blocks) == blocks = {}

\* list_find and list_remove on a bag: one occurrence, if there is one.
\* Variant: the result of list_find is not tested.
OneLess_unchecked(n) == n - 1
OneLess(n) == IF n > 0 THEN n - 1 ELSE n

\* free(peer) has run: the entries that still point to m dangle.
Freed(m) == pc[m] \in {"CheckBlocksList", "check", "RemoveFromParentFile", "FreeBlock", "done"}

\* What malloc may leave in the listeningSocket of a new peerT.
StalePorts == {NoPort} \cup {PortOf[m] : m \in {n \in Main \cap started : Freed(n)}}

\* MatchPeer against the i-th entry, as list_find stops at it.
\* Variant: the search does not stop before the last entry.
FirstMatch_last(i, ip, p) == i = Len(peersList) /\ i > 0
FirstMatch(i, ip, p) ==
  /\ i \in 1..Len(peersList)
  /\ Ip[peersList[i]] = ip /\ port[peersList[i]] = p
  /\ \A j \in 1..(i-1) : ~ (Ip[peersList[j]] = ip /\ port[peersList[j]] = p)

NoMatch(ip, p) == \A i \in 1..Len(peersList) : ~ (Ip[peersList[i]] = ip /\ port[peersList[i]] = p)

\* A search that reads the first n entries of the peers list reads freed memory.
ReadsFreed(n) == \E i \in 1..n : Freed(peersList[i])

\* AddPeerToBlock pushes without blocksAccess: while a thread is at its push,
\* any other access to the peers list of that block may overlap with it.
PushPending(c, bs) ==
  \E d \in Conns \ {c} : pc[d] = "push" /\ found[d] # {} /\ held[d] \in bs /\ ~ gone[d]

\* GetPeerInfo walks the peers list of its block without it as well.
WalkPending(c, bs) ==
  \E d \in Conns \ {c} : pc[d] = "list_at" /\ held[d] \in bs /\ ~ gone[d]

\* The outcomes of an access to the peers lists of these blocks, for a reader
\* and for a writer.
FaultAt(c, bs, freed) ==
  fault' \in (IF freed THEN {"use_after_free"} ELSE {"none"})
             \cup (IF PushPending(c, bs) THEN {"list_race"} ELSE {})
ChangeAt(c, bs, freed) ==
  FaultAt(c, bs, freed) \/ (WalkPending(c, bs) /\ fault' = "list_race")

\* What GetPeerInfo has of its draw: the peers of the block when it read the
\* length of their list, the attempts left, and the peer of the entry list_at
\* returned.
Draws == [peers : [Main -> Nat], left : Nat \ {0}, peer : SUBSET Main]
NoDraw == [peers |-> [m \in Main |-> 0], left |-> Attempts, peer |-> {}]

\* The list has fewer entries than those: an index drawn from them may be past
\* its end.
Shrunk(now, then) == FoldFunction(+, 0, now) < FoldFunction(+, 0, then)

Init ==
  /\ pc = [c \in Conns |-> "off"]
  /\ peersList = <<>>
  /\ blocksList = {} /\ holders = [b \in Blocks |-> [m \in Main |-> 0]]
  /\ filesList = {} /\ fileBlocks = [f \in Files |-> {}]
  /\ numberOfBlocks = [f \in Files |-> 0] /\ isComplete = [f \in Files |-> FALSE]
  /\ blocksLock = NoConn /\ filesLock = NoConn
  /\ port = [c \in Conns |-> NoPort]
  /\ held = [c \in Conns |-> NoBlock] /\ gone = [c \in Conns |-> FALSE]
  /\ found = [c \in Conns |-> {}] /\ todo = [c \in Conns |-> {}]
  /\ draw = [c \in Conns |-> NoDraw]
  /\ started = {} /\ seen = [m \in Main |-> {}]
  /\ dl = [c \in Conns |-> [b \in Blocks |-> "wanted"]]
  /\ fault = "none"

-----------------------------------------------------------------------------
(* The clients: a connection is accepted, or ends. *)

\* main() creates the Client thread and the thread its peerT.  A download
\* connection is opened for a file the client's last ls reply contains.
Connect(c) ==
  /\ fault = "none" /\ pc[c] = "off"
  /\ c \notin Main => Wants[c] \in seen[OwnerOf[c]]
  /\ \E p \in StalePorts : port' = [port EXCEPT ![c] = p]
  /\ Goto(c, "idle")
  /\ UNCHANGED <<held, gone, found, draw, todo, clientVars, fileVars, blockVars, lockVars, peersList, fault>>

\* recv returns 0 or an error, a reply cannot be sent, or end_sig is seen: the
\* receive loop ends.
Disconnect(c) ==
  /\ fault = "none" /\ pc[c] = "idle"
  /\ Goto(c, "RemoveFromGlobal")
  /\ UNCHANGED <<port, held, gone, found, draw, todo, clientVars, fileVars, blockVars, lockVars, peersList, fault>>

-----------------------------------------------------------------------------
(* START: AddPeer, AddBlocks, GetFiles *)

AddPeer(c) ==
  /\ fault = "none" /\ pc[c] = "idle" /\ c \in Main \ started
  /\ started' = started \cup {c}
  /\ port' = [port EXCEPT ![c] = PortOf[c]]
  /\ peersList' = Append(peersList, c)
  /\ Goto(c, "AddBlocks")
  /\ UNCHANGED <<held, gone, found, draw, todo, seen, dl, fileVars, blockVars, lockVars, fault>>

AddBlocks(c) ==
  /\ fault = "none" /\ pc[c] = "AddBlocks" /\ blocksLock = NoConn
  /\ blocksList' = blocksList \cup AnnBlocks[c]
  /\ holders' = [b \in Blocks |-> IF b \in AnnBlocks[c]
                                  THEN [holders[b] EXCEPT ![c] = @ + 1] ELSE holders[b]]
  /\ ChangeAt(c, AnnBlocks[c], FALSE)
  /\ Goto(c, "GetFiles")
  /\ UNCHANGED <<port, held, gone, found, draw, todo, clientVars, fileVars, lockVars, peersList>>

GetFiles(c) ==
  /\ fault = "none" /\ pc[c] = "GetFiles" /\ filesLock = NoConn
  /\ filesLock' = c
  /\ todo' = [todo EXCEPT ![c] = AnnFiles[c]]
  /\ Goto(c, "MakeBlocksList")
  /\ UNCHANGED <<port, held, gone, found, draw, clientVars, fileVars, blockVars, blocksLock, peersList, fault>>

\* One turn of GetFiles' loop: the file is found or created, and every listed
\* block of it enters its list, under blocksAccess, with filesAccess kept.
MakeBlocksList(c) ==
  /\ fault = "none" /\ pc[c] = "MakeBlocksList" /\ blocksLock = NoConn
  /\ \E f \in todo[c] :
       LET blocks == ListBlocks(f)
           number == IF f \in filesList THEN numberOfBlocks[f] ELSE NumOf[c][f]
       IN /\ filesList' = filesList \cup {f}
          /\ fileBlocks' = [fileBlocks EXCEPT ![f] = blocks]
          /\ numberOfBlocks' = [numberOfBlocks EXCEPT ![f] = number]
          /\ isComplete' = [isComplete EXCEPT ![f] = CompleteWith(f, blocks, number)]
          /\ todo' = [todo EXCEPT ![c] = @ \ {f}]
  /\ UNCHANGED <<pc, port, held, gone, found, draw, clientVars, blockVars, lockVars, peersList, fault>>

\* Variant: filesAccess is not released (as on the error returns of the loop).
GetFilesReturn_locked(c) ==
  /\ fault = "none" /\ pc[c] = "MakeBlocksList" /\ todo[c] = {}
  /\ Goto(c, "idle")
  /\ UNCHANGED <<port, held, gone, found, draw, todo, clientVars, fileVars, blockVars, lockVars, peersList, fault>>

GetFilesReturn(c) ==
  /\ fault = "none" /\ pc[c] = "MakeBlocksList" /\ todo[c] = {}
  /\ filesLock' = NoConn
  /\ Goto(c, "idle")
  /\ UNCHANGED <<port, held, gone, found, draw, todo, clientVars, fileVars, blockVars, blocksLock, peersList, fault>>

-----------------------------------------------------------------------------
(* LS, REQUEST and RECEIVE_SUCCESS *)

SendFilesList(c) ==
  /\ fault = "none" /\ pc[c] = "idle" /\ c \in started /\ filesLock = NoConn
  /\ seen' = [seen EXCEPT ![c] = {f \in filesList : isComplete[f]}]
  /\ UNCHANGED <<threadVars, started, dl, fileVars, blockVars, lockVars, peersList, fault>>

\* A block thread of the client asks for block b; GetBlockInfo looks it up.
\* When it is not listed the reply names no peer.
ProcessBlockRequest(c) ==
  /\ fault = "none" /\ pc[c] = "idle" /\ c \notin Main /\ blocksLock = NoConn
  /\ \E b \in BlocksOf(Wants[c]) :
       /\ dl[c][b] = "wanted"
       /\ IF b \in blocksList
          THEN /\ held' = [held EXCEPT ![c] = b] /\ gone' = [gone EXCEPT ![c] = FALSE]
               /\ Goto(c, "GetPeerInfo") /\ UNCHANGED dl
          ELSE /\ dl' = [dl EXCEPT ![c][b] = "lost"]
               /\ UNCHANGED <<pc, held, gone>>
  /\ UNCHANGED <<port, found, draw, todo, started, seen, fileVars, blockVars, lockVars, peersList, fault>>

\* A random entry of the block's peers list, read without any lock through the
\* pointer GetBlockInfo returned: first the length, by which an index is drawn.
\* An empty list divides by zero.
GetPeerInfo(c) ==
  LET b == held[c] IN
  /\ fault = "none" /\ pc[c] = "GetPeerInfo"
  /\ \/ gone[c] /\ fault' = "use_after_free"
     \/ ~ gone[c] /\ NobodyHolds(b) /\ fault' = "division_by_zero"
     \/ ~ gone[c] /\ ~ NobodyHolds(b) /\ FaultAt(c, {b}, FALSE)
  /\ draw' = [draw EXCEPT ![c].peers = holders[b]]
  /\ Goto(c, "list_at")
  /\ UNCHANGED <<port, held, gone, found, todo, clientVars, fileVars, blockVars, lockVars, peersList>>

\* Then the walk to that index.  When the list has shrunk the index may be past
\* its end: another is drawn, and after ATTEMPTS of them GetPeerInfo returns
\* NULL, whose length ProcessBlockRequest takes.
ListAt(c) ==
  LET b == held[c] IN
  /\ fault = "none" /\ pc[c] = "list_at"
  /\ \/ /\ gone[c]
        /\ fault' = "use_after_free" /\ UNCHANGED <<pc, draw>>
     \/ /\ ~ gone[c] /\ Shrunk(holders[b], draw[c].peers)
        /\ IF draw[c].left = 1 THEN fault' = "null_pointer" /\ UNCHANGED <<pc, draw>>
           ELSE /\ draw' = [draw EXCEPT ![c].left = @ - 1]
                /\ Goto(c, "GetPeerInfo") /\ UNCHANGED fault
     \/ /\ ~ gone[c] /\ FaultAt(c, {b}, FALSE)
        /\ \E m \in Main : holders[b][m] > 0 /\ draw' = [draw EXCEPT ![c].peer = {m}]
        /\ Goto(c, "ReadPeer")
  /\ UNCHANGED <<port, held, gone, found, todo, clientVars, fileVars, blockVars, lockVars, peersList>>

\* Last the entry and its peer, either of which may be freed by now: the entry
\* once RemoveFromBlocks has been through for its peer.  A second entry of that
\* peer is still there, and readable until the peer itself is freed.
ReadPeer(c) ==
  LET b == held[c] IN
  /\ fault = "none" /\ pc[c] = "ReadPeer"
  /\ \E m \in draw[c].peer :
       \/ (gone[c] \/ pc[m] = "FreePeer" \/ Freed(m)) /\ fault' = "use_after_free"
       \/ ~ gone[c] /\ holders[b][m] > 0 /\ ~ Freed(m) /\ UNCHANGED fault
  /\ dl' = [dl EXCEPT ![c][b] = "named"]
  /\ draw' = [draw EXCEPT ![c] = NoDraw]
  /\ Goto(c, "idle") /\ DropBlock(c)
  /\ UNCHANGED <<port, found, todo, started, seen, fileVars, blockVars, lockVars, peersList>>

\* The client has the block; AddPeerToBlock looks the block up.  When it is not
\* listed the thread thanks the client and leaves its loop.
ReceiveSuccess(c) ==
  /\ fault = "none" /\ pc[c] = "idle" /\ c \notin Main /\ blocksLock = NoConn
  /\ \E b \in BlocksOf(Wants[c]) :
       /\ dl[c][b] = "named"
       /\ dl' = [dl EXCEPT ![c][b] = "reported"]
       /\ IF b \in blocksList
          THEN /\ held' = [held EXCEPT ![c] = b] /\ gone' = [gone EXCEPT ![c] = FALSE]
               /\ Goto(c, "AddPeerToBlock")
          ELSE /\ Goto(c, "RemoveFromGlobal")
               /\ UNCHANGED <<held, gone>>
  /\ UNCHANGED <<port, found, draw, todo, started, seen, fileVars, blockVars, lockVars, peersList, fault>>

\* The peer that reported the block: the first entry with the address of the
\* connection and the port of the message, else the last entry of the list.
AddPeerToBlock(c) ==
  LET ip == Ip[c]
      p  == PortOf[OwnerOf[c]]
      n  == Len(peersList)
  IN
  /\ fault = "none" /\ pc[c] = "AddPeerToBlock"
  /\ \/ \E i \in 1..n : /\ FirstMatch(i, ip, p)
                        /\ found' = [found EXCEPT ![c] = {peersList[i]}]
                        /\ FaultAt(c, {}, ReadsFreed(i))
     \/ /\ NoMatch(ip, p)
        /\ found' = [found EXCEPT ![c] = IF n = 0 THEN {} ELSE {peersList[n]}]
        /\ FaultAt(c, {}, ReadsFreed(n))
  /\ Goto(c, "push")
  /\ UNCHANGED <<port, held, gone, draw, todo, clientVars, fileVars, blockVars, lockVars, peersList>>

PushPeer(c) ==
  LET b == held[c] IN
  /\ fault = "none" /\ pc[c] = "push"
  /\ holders' = IF gone[c] THEN holders
                ELSE [holders EXCEPT ![b] = [m \in Main |-> IF m \in found[c] THEN @[m] + 1 ELSE @[m]]]
  /\ ChangeAt(c, IF found[c] = {} THEN {} ELSE {b}, gone[c] /\ found[c] # {})
  /\ found' = [found EXCEPT ![c] = {}]
  /\ Goto(c, "idle") /\ DropBlock(c)
  /\ UNCHANGED <<port, draw, todo, clientVars, blocksList, fileVars, lockVars, peersList>>

-----------------------------------------------------------------------------
(* After the receive loop: RemovePeer, free(peer), CheckBlocksList, close *)

RemoveFromGlobal(c) ==
  LET n == Len(peersList) IN
  /\ fault = "none" /\ pc[c] = "RemoveFromGlobal"
  /\ \/ \E i \in 1..n : /\ FirstMatch(i, Ip[c], port[c])
                        /\ peersList' = SubSeq(peersList, 1, i-1) \o SubSeq(peersList, i+1, n)
                        /\ FaultAt(c, {}, ReadsFreed(i))
     \/ /\ NoMatch(Ip[c], port[c])
        /\ UNCHANGED peersList
        /\ FaultAt(c, {}, ReadsFreed(n))
  /\ Goto(c, "RemoveFromBlocks")
  /\ UNCHANGED <<port, held, gone, found, draw, todo, clientVars, fileVars, blockVars, lockVars>>

\* The lists of peers have no match function: list_find compares pointers and
\* one occurrence is removed from each block.
RemoveFromBlocks(c) ==
  /\ fault = "none" /\ pc[c] = "RemoveFromBlocks" /\ blocksLock = NoConn
  /\ holders' = [b \in Blocks |-> IF c \in Main THEN [holders[b] EXCEPT ![c] = OneLess(@)] ELSE holders[b]]
  /\ \/ FaultAt(c, blocksList, FALSE)
     \/ ChangeAt(c, {b \in blocksList : holders[b] # holders'[b]}, FALSE)
  /\ Goto(c, "FreePeer")
  /\ UNCHANGED <<port, held, gone, found, draw, todo, clientVars, blocksList, fileVars, lockVars, peersList>>

FreePeer(c) ==
  /\ fault = "none" /\ pc[c] = "FreePeer"
  /\ Goto(c, "CheckBlocksList")
  /\ UNCHANGED <<port, held, gone, found, draw, todo, clientVars, fileVars, blockVars, lockVars, peersList, fault>>

CheckBlocksList(c) ==
  /\ fault = "none" /\ pc[c] = "CheckBlocksList" /\ blocksLock = NoConn
  /\ blocksLock' = c
  /\ Goto(c, "check")
  /\ UNCHANGED <<port, held, gone, found, draw, todo, clientVars, fileVars, blockVars, filesLock, peersList, fault>>

CheckNextBlock(c) ==
  /\ fault = "none" /\ pc[c] = "check"
  /\ \E b \in blocksList : /\ NobodyHolds(b)
                           /\ held' = [held EXCEPT ![c] = b]
                           /\ FaultAt(c, {b}, FALSE)
  /\ gone' = [gone EXCEPT ![c] = FALSE]
  /\ Goto(c, "RemoveFromParentFile")
  /\ UNCHANGED <<port, found, draw, todo, clientVars, fileVars, blockVars, lockVars, peersList>>

RemoveFromParentFile(c) ==
  LET b == held[c]
      f == FileOf[b]
      blocks == fileBlocks[f] \ {b}
  IN
  /\ fault = "none" /\ pc[c] = "RemoveFromParentFile" /\ filesLock = NoConn
  /\ IF f \notin filesList THEN UNCHANGED fileVars
     ELSE /\ fileBlocks' = [fileBlocks EXCEPT ![f] = blocks]
          /\ filesList' = IF Emptied(blocks) THEN filesList \ {f} ELSE filesList
          /\ numberOfBlocks' = [numberOfBlocks EXCEPT ![f] = IF Emptied(blocks) THEN 0 ELSE @]
          /\ isComplete' = [isComplete EXCEPT ![f] =
               /\ ~ Emptied(blocks)
               /\ IF b \in fileBlocks[f] THEN CompleteWith(f, blocks, numberOfBlocks[f]) ELSE @]
  /\ Goto(c, "FreeBlock")
  /\ UNCHANGED <<port, held, gone, found, draw, todo, clientVars, blockVars, lockVars, peersList, fault>>

FreeBlock(c) ==
  LET b == held[c] IN
  /\ fault = "none" /\ pc[c] = "FreeBlock"
  /\ blocksList' = blocksList \ {b}
  /\ holders' = [holders EXCEPT ![b] = [m \in Main |-> 0]]
  /\ held' = [held EXCEPT ![c] = NoBlock]
  /\ gone' = [d \in Conns |-> d # c /\ (gone[d] \/ held[d] = b)]
  /\ ChangeAt(c, {b}, FALSE)
  /\ Goto(c, "check")
  /\ UNCHANGED <<port, found, draw, todo, clientVars, fileVars, lockVars, peersList>>

\* Variant: the scan goes on past the block that follows a removed one.
CheckBlocksReturn_skips(c) ==
  /\ fault = "none" /\ pc[c] = "check"
  /\ FaultAt(c, blocksList, FALSE)
  /\ blocksLock' = NoConn
  /\ Goto(c, "done")
  /\ UNCHANGED <<port, held, gone, found, draw, todo, clientVars, fileVars, blockVars, filesLock, peersList>>

\* Variant: blocksAccess is not released.
CheckBlocksReturn_locked(c) ==
  /\ fault = "none" /\ pc[c] = "check"
  /\ \A b \in blocksList : ~ NobodyHolds(b)
  /\ FaultAt(c, blocksList, FALSE)
  /\ Goto(c, "done")
  /\ UNCHANGED <<port, held, gone, found, draw, todo, clientVars, fileVars, blockVars, lockVars, peersList>>

\* No empty block is left: the lock is released, the socket closed and the
\* connection's record handed to CleanUp.
CheckBlocksReturn(c) ==
  /\ fault = "none" /\ pc[c] = "check"
  /\ \A b \in blocksList : ~ NobodyHolds(b)
  /\ FaultAt(c, blocksList, FALSE)
  /\ blocksLock' = NoConn
  /\ Goto(c, "done")
  /\ UNCHANGED <<port, held, gone, found, draw, todo, clientVars, fileVars, blockVars, filesLock, peersList>>

-----------------------------------------------------------------------------
\* The steps a Client thread takes on its own, between two messages.
Serve(c) ==
  \/ AddBlocks(c) \/ GetFiles(c) \/ MakeBlocksList(c) \/ GetFilesReturn(c)
  \/ GetPeerInfo(c) \/ ListAt(c) \/ ReadPeer(c) \/ AddPeerToBlock(c) \/ PushPeer(c)
  \/ RemoveFromGlobal(c) \/ RemoveFromBlocks(c) \/ FreePeer(c)
  \/ CheckBlocksList(c) \/ CheckNextBlock(c) \/ RemoveFromParentFile(c)
  \/ FreeBlock(c) \/ CheckBlocksReturn(c)

\* What a client makes happen: a message of its protocol, or its end.
Client(c) ==
  \/ Connect(c) \/ Disconnect(c) \/ AddPeer(c) \/ SendFilesList(c)
  \/ ProcessBlockRequest(c) \/ ReceiveSuccess(c)

Next == \E c \in Conns : Client(c) \/ Serve(c)

Spec == Init /\ [][Next]_vars

\* The threads are scheduled, and a mutex that is free long enough is obtained;
\* nothing is assumed of the clients.
FairSpec == Spec /\ \A c \in Conns : WF_vars(Serve(c))

-----------------------------------------------------------------------------
(* Properties *)

TypeOK ==
  /\ pc \in [Conns -> PCs]
  /\ peersList \in Seq(Main)
  /\ blocksList \subseteq Blocks /\ holders \in [Blocks -> [Main -> Nat]]
  /\ filesList \subseteq Files /\ fileBlocks \in [Files -> SUBSET Blocks]
  /\ numberOfBlocks \in [Files -> Nat] /\ isComplete \in [Files -> BOOLEAN]
  /\ blocksLock \in Conns \cup {NoConn} /\ filesLock \in Conns \cup {NoConn}
  /\ port \in [Conns -> {PortOf[m] : m \in Main} \cup {NoPort}]
  /\ held \in [Conns -> Blocks \cup {NoBlock}] /\ gone \in [Conns -> BOOLEAN]
  /\ found \in [Conns -> SUBSET Main]
  /\ draw \in [Conns -> Draws]
  /\ todo \in [Conns -> SUBSET Files]
  /\ started \subseteq Main /\ seen \in [Main -> SUBSET Files]
  /\ dl \in [Conns -> [Blocks -> DlStates]]
  /\ fault \in Faults

\* The peers whose announced blocks are in the global list: from the end of
\* AddBlocks to RemoveFromBlocks.
Serving(m) == m \in started /\ pc[m] \in {"GetFiles", "MakeBlocksList", "idle", "RemoveFromGlobal",
                                          "RemoveFromBlocks"}

\* Every block pointer in the blocks list of a listed file is to a block that
\* has not been freed, at every moment and not only while filesAccess is free:
\* CheckBlocksList takes a block out of its parent file before it frees it and
\* GetFiles cannot put it back in between.
FileBlocksLive == \A f \in filesList : fileBlocks[f] \subseteq blocksList

\* As long as a peer serves, each block it announced can be found and lists it,
\* whatever the other peers' arrivals, downloads and disconnections do.
AnnouncedFindable ==
  \A m \in Main : Serving(m) => \A b \in AnnBlocks[m] : b \in blocksList /\ holders[b][m] > 0

\* GenerateFilesListMessage reads isComplete under filesAccess: whenever that
\* mutex is free the flag agrees with the blocks list of the file.
CompleteFlagRight ==
  filesLock = NoConn =>
    \A f \in filesList : isComplete[f] <=> Cardinality(fileBlocks[f]) = numberOfBlocks[f]

\* A listed block is in the blocks list of its file, except while the peer that
\* announced it is still on its way through GetFiles or the thread that found
\* it empty is about to free it.
InFile(b)   == FileOf[b] \in filesList /\ b \in fileBlocks[FileOf[b]]
Arriving(b) == \E m \in Main : b \in AnnBlocks[m] /\
                 (pc[m] = "GetFiles" \/ (pc[m] = "MakeBlocksList" /\ FileOf[b] \in todo[m]))
Leaving(b)  == \E c \in Conns : pc[c] = "FreeBlock" /\ held[c] = b
ListedBlockInFile == \A b \in blocksList : InFile(b) \/ Arriving(b) \/ Leaving(b)

\* A block that nobody holds stays listed (and its file may stay complete) only
\* until the thread that removed its last peer has been through
\* CheckBlocksList.
EmptyBlockIsTransient ==
  \A b \in blocksList : NobodyHolds(b) =>
    \E c \in Conns : pc[c] \in {"FreePeer", "CheckBlocksList", "check", "RemoveFromParentFile", "FreeBlock"}

\* A file without blocks is listed only when a hello message announced it
\* without any (the metadata of a download that got no block).
EmptyFileWasAnnounced ==
  filesLock = NoConn =>
    \A f \in filesList : fileBlocks[f] = {} =>
      \E m \in started : f \in AnnFiles[m] /\ AnnBlocks[m] \cap BlocksOf(f) = {}

\* A peer listed for a block has announced it or reported its download.  The
\* exception is a report whose own client had no entry in the peers list, since
\* it had left or since a connection from its address had closed with a stale
\* port: it is booked to the last peer of the list.
Reported(d, b) == d \in Conns \ Main /\ dl[d][b] = "reported"
Downloaded(m, b) == \E d \in Conns : Reported(d, b) /\ Ip[d] = Ip[m] /\ PortOf[OwnerOf[d]] = PortOf[m]
Closing(c) == pc[c] \in {"RemoveFromBlocks", "FreePeer", "CheckBlocksList", "check",
                         "RemoveFromParentFile", "FreeBlock", "done"}
EntryLost(d) == \E c \in Conns : Closing(c) /\ Ip[c] = Ip[d] /\ port[c] = PortOf[OwnerOf[d]]
HolderIsHonest ==
  \A b \in blocksList, m \in Main :
    holders[b][m] > 0 => \/ b \in AnnBlocks[m]
                         \/ Downloaded(m, b)
                         \/ \E d \in Conns : Reported(d, b) /\ EntryLost(d)

\* The cycle of the two mutexes: GetFiles keeps filesAccess and waits for
\* blocksAccess, CheckBlocksList keeps blocksAccess and waits for filesAccess.
LockCycle ==
  \E c, d \in Conns : /\ pc[c] = "MakeBlocksList" /\ filesLock = c /\ todo[c] # {}
                      /\ pc[d] = "RemoveFromParentFile" /\ blocksLock = d

\* Once a client is gone its thread gets to the end of the cleanup, unless two
\* threads close the lock cycle or undefined behaviour ends the run: no other
\* wait of the handlers can last.
CleanupEnds == \A c \in Conns :
  pc[c] = "RemoveFromGlobal" ~> pc[c] = "done" \/ LockCycle \/ fault # "none"

\* A hello message is taken in completely, with the same two exceptions.
HelloEnds == \A c \in Main :
  pc[c] = "AddBlocks" ~> (pc[c] # "AddBlocks" /\ pc[c] # "GetFiles" /\ pc[c] # "MakeBlocksList")
                         \/ LockCycle \/ fault # "none"

-----------------------------------------------------------------------------
(* The inductive invariant behind the safety properties *)

\* Which connections can be where, and what they point to there.
Roles ==
  \A c \in Conns :
    /\ pc[c] = "off" => c \notin started
    /\ pc[c] \in {"AddBlocks", "GetFiles", "MakeBlocksList"} => c \in started
    /\ pc[c] = "MakeBlocksList" => todo[c] \subseteq AnnFiles[c]
    /\ pc[c] \in {"GetPeerInfo", "list_at", "ReadPeer", "AddPeerToBlock", "push"} => c \notin Main /\ held[c] \in Blocks

\* The two mutexes are held by the threads in their critical sections only.
LockOwners ==
  \A c \in Conns :
    /\ filesLock = c <=> pc[c] = "MakeBlocksList"
    /\ blocksLock = c <=> pc[c] \in {"check", "RemoveFromParentFile", "FreeBlock"}

\* The block CheckBlocksList is about to free is listed, nobody that serves has
\* announced it, and once RemoveFromParentFile has run no file points to it.
VictimIsFree ==
  \A c \in Conns :
    /\ pc[c] \in {"RemoveFromParentFile", "FreeBlock"} =>
         /\ held[c] \in blocksList
         /\ \A m \in Main : Serving(m) => held[c] \notin AnnBlocks[m]
    /\ pc[c] = "FreeBlock" => held[c] \notin fileBlocks[FileOf[held[c]]]

FileListsWellFormed ==
  \A f \in Files : /\ fileBlocks[f] \subseteq blocksList \cap BlocksOf(f)
                   /\ f \notin filesList => fileBlocks[f] = {}
                   /\ f \in filesList =>
                        (isComplete[f] <=> Cardinality(fileBlocks[f]) = numberOfBlocks[f])

\* A pointer that GetBlockInfo returned and that is not marked gone is to a
\* listed block.
PointersTracked == \A c \in Conns : held[c] # NoBlock /\ ~ gone[c] => held[c] \in blocksList

RegistryInv == /\ TypeOK /\ Roles /\ LockOwners /\ VictimIsFree /\ FileListsWellFormed
               /\ PointersTracked /\ AnnouncedFindable /\ EmptyBlockIsTransient

-----------------------------------------------------------------------------
(* What the comments of the code say *)

\* main.c:288-291, "Remove the client from all peers lists.  Update block and
\* file availability.": the thread of a client that left completes both.
CleanupCompletes == \A c \in Conns : pc[c] = "RemoveFromGlobal" ~> pc[c] = "done" \/ fault # "none"

\* list_functions.h:34, "For every block in global blocks list, remove
\* disconnected peer from the block's peer list": when the peer has been
\* removed and freed no list points to it.
DisconnectedIsInNoBlock == \A m \in Main, b \in Blocks : Freed(m) => holders[b][m] = 0

\* list_functions.h:43, "Check block lists to see if peer list is empty to
\* remove the block": no block is removed while a peer is in its list.
OnlyEmptyBlocksRemoved == [][\A b \in blocksList \ blocksList' : NobodyHolds(b)]_vars
=============================================================================
