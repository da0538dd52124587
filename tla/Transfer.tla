------------------------------- MODULE Transfer -------------------------------
(***************************************************************************)
(* One download of a file: DownloadFile and its DownloadBlock threads      *)
(* (p2p-client/src/ClientTrheadSrc/DownloadFile.c), the ServerSubThread    *)
(* that serves each of them at another peer (src/server_thread.c), and the *)
(* central server as they see it.                                          *)
(*                                                                         *)
(* The threads share the socket to the central server, the stream of the   *)
(* part file and the metadata file, each with a mutex.  A byte of the file *)
(* is its position: the part file holds position p at place p when it is   *)
(* right.                                                                  *)
(*                                                                         *)
(* `Failures` names what may go wrong outside the threads:                 *)
(*   "short"   recv returns less than the peer's send sent                 *)
(*   "part"    a named peer may have the file as .part only                *)
(*   "peer"    a peer cannot be reached, or goes away                      *)
(*   "lost"    the server does not know a block any more                   *)
(*   "server"  the server closes the connection                            *)
(*   "kill"    the process is killed (Ctrl+C is how the README ends it)    *)
(* Undefined behaviour ends a behaviour of the model and is named in       *)
(* `fault`.                                                                *)
(***************************************************************************)
EXTENDS Integers, Sequences, FiniteSets

CONSTANTS
  Size,        \* bytes of the file
  NumOfBlocks,
  MaxMessage,  \* MAX_MESSAGE_LENGTH
  Peers,       \* the peers the central server may name
  Failures,
  Nobody,      \* the owner of a free mutex
  Hole         \* what a place of the part file holds that was never written

ASSUME SizesAssumption == /\ Size \in Nat \ {0} /\ NumOfBlocks \in Nat \ {0}
                          /\ MaxMessage \in Nat \ {0}
ASSUME NamesAssumption == Nobody \notin Nat /\ Hole \notin Nat /\ Peers # {}

CeilDiv(n, d) == IF n % d # 0 THEN n \div d + 1 ELSE n \div d

Blocks    == 0..(NumOfBlocks - 1)
Places    == 0..(Size - 1)
BlockSize == CeilDiv(Size, NumOfBlocks)
\* Variant: one sub-block more is always counted for the rest.
SubBlocks_oneMore == BlockSize \div MaxMessage + 1
SubBlocks == CeilDiv(BlockSize, MaxMessage)
BytesOf(b) == {p \in Places : b * BlockSize <= p /\ p < b * BlockSize + BlockSize}

VARIABLES
  mainPc,    \* where DownloadFile is
  created,   \* block threads created so far
  pc,        \* where each block thread is
  sub,       \* i of the thread's loop over sub-blocks
  chunk,     \* what its last recv from the peer returned
  copy,      \* the metadata it has parsed
  answer,    \* the server's reply it works with
  socketMutex, fileMutex, metaFileMutex,
  disk,      \* the part file as the operating system has it
  buffer,    \* the last fwrite, which stdio may still keep
  position,  \* the file position of the stream
  meta,      \* "blocks" of the metadata file
  asked,     \* messages on their way to the server
  replies,   \* replies on their way back
  central,   \* the server's end of the connection
  reported,  \* blocks whose success message the server has handled
  serving,   \* where the ServerSubThread of each block is
  left,      \* its counter: bytes still to send
  stream,    \* bytes on their way from it
  finished,  \* the peers that have the file under its final name
  result,    \* what DownloadFile prints at its end
  fault

mutexVars  == <<socketMutex, fileMutex, metaFileMutex>>
fileVars   == <<disk, buffer, position>>
serverVars == <<asked, replies, central, reported>>
peerVars   == <<serving, left, stream, finished>>
threadVars == <<pc, sub, chunk, copy, answer>>
mainVars   == <<mainPc, created, result>>
vars == <<mainVars, threadVars, mutexVars, fileVars, meta, serverVars, peerVars, fault>>

Owners  == Blocks \cup {Nobody}
PCs == {"new", "ask", "askRecv", "connect", "recv", "seek", "write", "list", "relist",
        "rewrite", "tell", "tellRecv", "ended", "failed"}
Over(b) == pc[b] \in {"ended", "failed"}
Kinds == {"none", "peer", "echo", "thanks"}
NoAnswer == [to |-> Nobody, kind |-> "none", peer |-> Nobody]

\* The process exists and has met no undefined behaviour.
Running == mainPc \notin {"killed", "done"} /\ fault = "none"

Goto(b, label) == pc' = [pc EXCEPT ![b] = label]

\* Data written at a place of a file.
Overlay(f, at, data) ==
  [p \in Places |-> IF p \in at..(at + Len(data) - 1) THEN data[p - at + 1] ELSE f[p]]

\* Everything the process has written, flushed or not.
Content == Overlay(disk, buffer.at, buffer.data)
Empty == [at |-> 0, data |-> <<>>]

Init ==
  /\ mainPc = "create" /\ created = 0 /\ result = "none"
  /\ pc = [b \in Blocks |-> "new"] /\ sub = [b \in Blocks |-> 0]
  /\ chunk = [b \in Blocks |-> <<>>] /\ copy = [b \in Blocks |-> {}]
  /\ answer = [b \in Blocks |-> NoAnswer]
  /\ socketMutex = Nobody /\ fileMutex = Nobody /\ metaFileMutex = Nobody
  /\ disk = [p \in Places |-> Hole] /\ buffer = Empty /\ position = Size
  /\ meta = {}
  /\ asked = <<>> /\ replies = <<>> /\ central = "up" /\ reported = {}
  /\ serving = [b \in Blocks |-> "none"] /\ left = [b \in Blocks |-> 0]
  /\ stream = [b \in Blocks |-> <<>>]
  /\ finished \in (IF "part" \in Failures THEN SUBSET Peers ELSE {Peers})
  /\ fault = "none"

-----------------------------------------------------------------------------
(* DownloadFile *)

CreateThread ==
  /\ Running /\ mainPc = "create"
  /\ IF created < NumOfBlocks
     THEN /\ created' = created + 1 /\ Goto(created, "ask") /\ UNCHANGED mainPc
     ELSE /\ mainPc' = "join" /\ UNCHANGED <<created, pc>>
  /\ UNCHANGED <<result, sub, chunk, copy, answer, mutexVars, fileVars, meta, serverVars, peerVars, fault>>

\* Variant: the stream is not closed before the file is read.
JoinThreads_unclosed ==
  /\ Running /\ mainPc = "join" /\ \A b \in Blocks : Over(b)
  /\ mainPc' = "rename"
  /\ UNCHANGED <<created, result, threadVars, mutexVars, fileVars, meta, serverVars, peerVars, fault>>

\* All threads are joined, whatever they returned; the stream is closed.
JoinThreads ==
  /\ Running /\ mainPc = "join" /\ \A b \in Blocks : Over(b)
  /\ disk' = Content /\ buffer' = Empty
  /\ mainPc' = "rename"
  /\ UNCHANGED <<created, result, threadVars, mutexVars, position, meta, serverVars, peerVars, fault>>

\* The part file gets its final name and is compared with the checksum.
Rename ==
  /\ Running /\ mainPc = "rename"
  /\ result' = IF \A p \in Places : disk[p] = p THEN "ready" ELSE "error"
  /\ mainPc' = "done"
  /\ UNCHANGED <<created, threadVars, mutexVars, fileVars, meta, serverVars, peerVars, fault>>

\* The process dies: of the last fwrite only a part has reached the file, and
\* what stdio still had is gone.
Die ==
  /\ mainPc' = "killed"
  /\ \E n \in 0..Len(buffer.data) : disk' = Overlay(disk, buffer.at, SubSeq(buffer.data, 1, n))
  /\ buffer' = Empty
  /\ UNCHANGED <<created, result, threadVars, mutexVars, position, meta, serverVars, peerVars, fault>>

Kill == "kill" \in Failures /\ Running /\ Die

-----------------------------------------------------------------------------
(* DownloadBlock: the server is asked for a peer *)

\* A message to the server.
SendServer(b, kind) ==
  /\ asked' = IF central = "up" THEN Append(asked, [by |-> b, kind |-> kind]) ELSE asked
  /\ UNCHANGED <<replies, central, reported>>

\* Variant: the socket is used without its mutex.
Ask_unlocked(b) ==
  /\ Running /\ pc[b] = "ask"
  /\ Goto(b, "askRecv") /\ SendServer(b, "request")
  /\ UNCHANGED <<mainVars, sub, chunk, copy, answer, mutexVars, fileVars, meta, peerVars, fault>>

Ask(b) ==
  /\ Running /\ pc[b] = "ask" /\ socketMutex = Nobody
  /\ socketMutex' = b
  /\ Goto(b, "askRecv") /\ SendServer(b, "request")
  /\ UNCHANGED <<mainVars, sub, chunk, copy, answer, fileMutex, metaFileMutex, fileVars, meta, peerVars, fault>>

\* The reply names a peer.  Without an "IP" member inet_addr gets NULL.
RecvAnswer(b) ==
  /\ Running /\ pc[b] = "askRecv" /\ replies # <<>>
  /\ answer' = [answer EXCEPT ![b] = Head(replies)]
  /\ replies' = Tail(replies)
  /\ socketMutex' = Nobody
  /\ fault' = IF Head(replies).kind = "peer" THEN "none" ELSE "no_address"
  /\ Goto(b, "connect")
  /\ UNCHANGED <<mainVars, sub, chunk, copy, fileMutex, metaFileMutex, fileVars, meta, asked, central, reported, peerVars>>

\* The server is gone: recv returns 0 and the thread ends with the mutex, or -1
\* and what it takes for a reply is uninitialised memory.
RecvNoAnswer(b) ==
  /\ Running /\ pc[b] = "askRecv" /\ replies = <<>> /\ central = "closed"
  /\ \/ Goto(b, "failed") /\ UNCHANGED <<socketMutex, fault>>
     \/ Goto(b, "connect") /\ socketMutex' = Nobody /\ fault' = "no_address"
  /\ UNCHANGED <<mainVars, sub, chunk, copy, answer, fileMutex, metaFileMutex, fileVars, meta, serverVars, peerVars>>

\* The server has reset the connection: send raises SIGPIPE.
BrokenPipe(b) ==
  /\ Running /\ pc[b] \in {"ask", "tell"} /\ socketMutex = Nobody /\ central = "closed"
  /\ Die

-----------------------------------------------------------------------------
(* DownloadBlock: the block is received and written *)

Connect(b) ==
  /\ Running /\ pc[b] = "connect"
  /\ \/ Goto(b, "recv") /\ serving' = [serving EXCEPT ![b] = "recv"]
     \/ "peer" \in Failures /\ Goto(b, "failed") /\ UNCHANGED serving
  /\ UNCHANGED <<mainVars, sub, chunk, copy, answer, mutexVars, fileVars, meta, serverVars, left, stream, finished, fault>>

\* The lengths a recv of at most MaxMessage may return when n bytes are there.
LeastOf(m, n) == IF m <= n THEN m ELSE n
Lengths(n) == IF "short" \in Failures THEN 1..LeastOf(MaxMessage, n) ELSE {LeastOf(MaxMessage, n)}

RecvChunk(b) ==
  /\ Running /\ pc[b] = "recv" /\ stream[b] # <<>>
  /\ \E n \in Lengths(Len(stream[b])) :
       /\ chunk' = [chunk EXCEPT ![b] = SubSeq(stream[b], 1, n)]
       /\ stream' = [stream EXCEPT ![b] = SubSeq(@, n + 1, Len(@))]
  /\ Goto(b, "seek")
  /\ UNCHANGED <<mainVars, sub, copy, answer, mutexVars, fileVars, meta, serverVars, serving, left, finished, fault>>

\* The peer is gone: recv returns 0, or -1, which fwrite takes for a length.
RecvNoChunk(b) ==
  /\ Running /\ pc[b] = "recv" /\ stream[b] = <<>> /\ serving[b] = "shut"
  /\ \/ Goto(b, "failed") /\ UNCHANGED fault
     \/ Goto(b, "write") /\ fault' = "bad_length"
  /\ UNCHANGED <<mainVars, sub, chunk, copy, answer, mutexVars, fileVars, meta, serverVars, peerVars>>

\* The place of the thread's next sub-block.
\* Variant: the sub-block is not counted in bytes.
PlaceOf_unscaled(b) == b * BlockSize + sub[b]
PlaceOf(b) == b * BlockSize + sub[b] * MaxMessage

\* Variant: the stream is used without its mutex.
Seek_unlocked(b) ==
  /\ Running /\ pc[b] = "seek"
  /\ disk' = Content /\ buffer' = Empty /\ position' = PlaceOf(b)
  /\ Goto(b, "write")
  /\ UNCHANGED <<mainVars, sub, chunk, copy, answer, mutexVars, meta, serverVars, peerVars, fault>>

\* fseek writes out what the stream has buffered.
Seek(b) ==
  /\ Running /\ pc[b] = "seek" /\ fileMutex = Nobody
  /\ fileMutex' = b
  /\ disk' = Content /\ buffer' = Empty /\ position' = PlaceOf(b)
  /\ Goto(b, "write")
  /\ UNCHANGED <<mainVars, sub, chunk, copy, answer, socketMutex, metaFileMutex, meta, serverVars, peerVars, fault>>

LastSub(b) == sub[b] + 1 >= SubBlocks

\* After the last sub-block the connection is closed and the serving thread
\* sees its end.
Write(b) ==
  /\ Running /\ pc[b] = "write"
  /\ buffer' = [at |-> position, data |-> chunk[b]]
  /\ disk' = Content
  /\ position' = position + Len(chunk[b])
  /\ fileMutex' = Nobody
  /\ chunk' = [chunk EXCEPT ![b] = <<>>]
  /\ sub' = [sub EXCEPT ![b] = @ + 1]
  /\ IF LastSub(b)
     THEN /\ Goto(b, "list")
          /\ stream' = [stream EXCEPT ![b] = <<>>]
          /\ serving' = [serving EXCEPT ![b] = "shut"]
     ELSE Goto(b, "recv") /\ UNCHANGED <<stream, serving>>
  /\ UNCHANGED <<mainVars, copy, answer, socketMutex, metaFileMutex, meta, serverVars, left, finished, fault>>

-----------------------------------------------------------------------------
(* DownloadBlock: the block is listed in the metadata and reported *)

\* Variant: the metadata file is used without its mutex.
ReadMeta_unlocked(b) ==
  /\ Running /\ pc[b] = "list"
  /\ copy' = [copy EXCEPT ![b] = meta]
  /\ Goto(b, "relist")
  /\ UNCHANGED <<mainVars, sub, chunk, answer, mutexVars, fileVars, meta, serverVars, peerVars, fault>>

ReadMeta(b) ==
  /\ Running /\ pc[b] = "list" /\ metaFileMutex = Nobody
  /\ metaFileMutex' = b
  /\ copy' = [copy EXCEPT ![b] = meta]
  /\ Goto(b, "relist")
  /\ UNCHANGED <<mainVars, sub, chunk, answer, socketMutex, fileMutex, fileVars, meta, serverVars, peerVars, fault>>

\* The metadata file is opened for writing, which empties it.
OpenMeta(b) ==
  /\ Running /\ pc[b] = "relist"
  /\ meta' = {}
  /\ Goto(b, "rewrite")
  /\ UNCHANGED <<mainVars, sub, chunk, copy, answer, mutexVars, fileVars, serverVars, peerVars, fault>>

\* Variant: the mutex of the metadata file is not released.
WriteMeta_locked(b) ==
  /\ Running /\ pc[b] = "rewrite"
  /\ meta' = copy[b] \cup {b}
  /\ copy' = [copy EXCEPT ![b] = {}]
  /\ Goto(b, "tell")
  /\ UNCHANGED <<mainVars, sub, chunk, answer, mutexVars, fileVars, serverVars, peerVars, fault>>

\* The text is written.  A part of it, of a process that was killed, lists
\* nothing, like the empty file.
WriteMeta(b) ==
  /\ Running /\ pc[b] = "rewrite"
  /\ meta' = copy[b] \cup {b}
  /\ copy' = [copy EXCEPT ![b] = {}]
  /\ metaFileMutex' = Nobody
  /\ Goto(b, "tell")
  /\ UNCHANGED <<mainVars, sub, chunk, answer, socketMutex, fileMutex, fileVars, serverVars, peerVars, fault>>

Tell(b) ==
  /\ Running /\ pc[b] = "tell" /\ socketMutex = Nobody
  /\ socketMutex' = b
  /\ Goto(b, "tellRecv") /\ SendServer(b, "success")
  /\ UNCHANGED <<mainVars, sub, chunk, copy, answer, fileMutex, metaFileMutex, fileVars, meta, peerVars, fault>>

RecvThanks(b) ==
  /\ Running /\ pc[b] = "tellRecv" /\ replies # <<>>
  /\ answer' = [answer EXCEPT ![b] = Head(replies)]
  /\ replies' = Tail(replies)
  /\ socketMutex' = Nobody
  /\ Goto(b, "ended")
  /\ UNCHANGED <<mainVars, sub, chunk, copy, fileMutex, metaFileMutex, fileVars, meta, asked, central, reported, peerVars, fault>>

\* recv returns 0: the thread ends with the mutex; or -1: it goes on.
RecvNoThanks(b) ==
  /\ Running /\ pc[b] = "tellRecv" /\ replies = <<>> /\ central = "closed"
  /\ \/ Goto(b, "failed") /\ UNCHANGED socketMutex
     \/ Goto(b, "ended") /\ socketMutex' = Nobody
  /\ UNCHANGED <<mainVars, sub, chunk, copy, answer, fileMutex, metaFileMutex, fileVars, meta, serverVars, peerVars, fault>>

-----------------------------------------------------------------------------
(* ServerSubThread of the peer a block thread is connected to *)

\* The thread has the request.  When the file cannot be opened it ends and
\* leaves the connection open.
PeerOpen(b) ==
  /\ Running /\ serving[b] = "recv"
  /\ IF answer[b].peer \in finished
     THEN /\ serving' = [serving EXCEPT ![b] = "send"]
          /\ left' = [left EXCEPT ![b] = BlockSize]
     ELSE /\ serving' = [serving EXCEPT ![b] = "silent"]
          /\ UNCHANGED left
  /\ UNCHANGED <<mainVars, threadVars, mutexVars, fileVars, meta, serverVars, stream, finished, fault>>

\* What fread returns for n bytes at a place: less at the end of the file.
\* Variant: the end of the file is not heeded.
ReadAt_beyond(at, n) == [i \in 1..n |-> at + i - 1]
ReadAt(at, n) == [i \in 1..LeastOf(n, IF at < Size THEN Size - at ELSE 0) |-> at + i - 1]

PeerSend(b) ==
  LET n == LeastOf(MaxMessage, left[b]) IN
  /\ Running /\ serving[b] = "send"
  /\ stream' = [stream EXCEPT ![b] = @ \o ReadAt(b * BlockSize + BlockSize - left[b], n)]
  /\ left' = [left EXCEPT ![b] = @ - n]
  /\ serving' = [serving EXCEPT ![b] = IF left[b] = n THEN "served" ELSE "send"]
  /\ UNCHANGED <<mainVars, threadVars, mutexVars, fileVars, meta, serverVars, finished, fault>>

\* The peer goes away, with or without what it has sent.
PeerDies(b) ==
  /\ "peer" \in Failures /\ Running /\ serving[b] \in {"recv", "send", "served", "silent"}
  /\ serving' = [serving EXCEPT ![b] = "shut"]
  /\ stream' \in {stream, [stream EXCEPT ![b] = <<>>]}
  /\ UNCHANGED <<mainVars, threadVars, mutexVars, fileVars, meta, serverVars, left, finished, fault>>

\* The peer's own download of the file gets to its rename.
PeerRenames(p) ==
  /\ Running /\ p \notin finished
  /\ finished' = finished \cup {p}
  /\ UNCHANGED <<mainVars, threadVars, mutexVars, fileVars, meta, serverVars, serving, left, stream, fault>>

-----------------------------------------------------------------------------
(* The central server's Client thread for this connection *)

\* ProcessBlockRequest: a peer that is listed for the block, or the request
\* itself when the block is not listed.
AnswerRequest ==
  /\ Running /\ central = "up" /\ asked # <<>> /\ Head(asked).kind = "request"
  /\ \/ \E p \in Peers : replies' = Append(replies, [to |-> Head(asked).by, kind |-> "peer", peer |-> p])
     \/ /\ "lost" \in Failures
        /\ replies' = Append(replies, [to |-> Head(asked).by, kind |-> "echo", peer |-> Nobody])
  /\ asked' = Tail(asked)
  /\ UNCHANGED <<mainVars, threadVars, mutexVars, fileVars, meta, central, reported, peerVars, fault>>

\* AddPeerToBlock: the client is thanked, and when the block is not listed the
\* connection is closed.
AnswerSuccess ==
  /\ Running /\ central = "up" /\ asked # <<>> /\ Head(asked).kind = "success"
  /\ reported' = reported \cup {Head(asked).by}
  /\ replies' = Append(replies, [to |-> Head(asked).by, kind |-> "thanks", peer |-> Nobody])
  /\ central' \in (IF "lost" \in Failures THEN {"up", "closed"} ELSE {"up"})
  /\ asked' = Tail(asked)
  /\ UNCHANGED <<mainVars, threadVars, mutexVars, fileVars, meta, peerVars, fault>>

CentralCloses ==
  /\ "server" \in Failures /\ Running /\ central = "up"
  /\ central' = "closed" /\ asked' = <<>>
  /\ UNCHANGED <<mainVars, threadVars, mutexVars, fileVars, meta, replies, reported, peerVars, fault>>

-----------------------------------------------------------------------------
DownloadFile == CreateThread \/ JoinThreads \/ Rename

DownloadBlock(b) ==
  \/ Ask(b) \/ RecvAnswer(b) \/ RecvNoAnswer(b) \/ Connect(b)
  \/ RecvChunk(b) \/ RecvNoChunk(b) \/ Seek(b) \/ Write(b)
  \/ ReadMeta(b) \/ OpenMeta(b) \/ WriteMeta(b) \/ Tell(b) \/ RecvThanks(b) \/ RecvNoThanks(b)

ServerSubThread(b) == PeerOpen(b) \/ PeerSend(b)

CentralServer == AnswerRequest \/ AnswerSuccess

\* What nobody in the program decides.
Outside == \/ Kill \/ CentralCloses
           \/ \E b \in Blocks : BrokenPipe(b) \/ PeerDies(b)
           \/ \E p \in Peers : PeerRenames(p)

Next == \/ DownloadFile \/ CentralServer \/ Outside
        \/ \E b \in Blocks : DownloadBlock(b) \/ ServerSubThread(b)

Spec == Init /\ [][Next]_vars

\* The threads of the client, of the peers and of the server are scheduled;
\* nothing is assumed of what is outside.
FairSpec == /\ Spec /\ WF_vars(DownloadFile) /\ WF_vars(CentralServer)
            /\ \A b \in Blocks : WF_vars(DownloadBlock(b)) /\ WF_vars(ServerSubThread(b))

-----------------------------------------------------------------------------
(* Properties *)

Bytes == Seq(Places)

MainTypes ==
  /\ mainPc \in {"create", "join", "rename", "done", "killed"} /\ created \in 0..NumOfBlocks
  /\ result \in {"none", "ready", "error"} /\ fault \in {"none", "no_address", "bad_length"}
ThreadTypes ==
  /\ pc \in [Blocks -> PCs] /\ sub \in [Blocks -> 0..SubBlocks]
  /\ chunk \in [Blocks -> Bytes] /\ copy \in [Blocks -> SUBSET Blocks]
  /\ answer \in [Blocks -> [to : Owners, kind : Kinds, peer : Peers \cup {Nobody}]]
MutexTypes == socketMutex \in Owners /\ fileMutex \in Owners /\ metaFileMutex \in Owners
FileTypes ==
  /\ disk \in [Places -> Places \cup {Hole}]
  /\ buffer \in [at : Nat, data : Bytes] /\ position \in Nat
  /\ meta \subseteq Blocks
ServerTypes ==
  /\ asked \in Seq([by : Blocks, kind : {"request", "success"}])
  /\ replies \in Seq([to : Blocks, kind : Kinds, peer : Peers \cup {Nobody}])
  /\ central \in {"up", "closed"} /\ reported \subseteq Blocks
PeerTypes ==
  /\ serving \in [Blocks -> {"none", "recv", "send", "served", "silent", "shut"}]
  /\ left \in [Blocks -> 0..BlockSize] /\ stream \in [Blocks -> Bytes]
  /\ finished \subseteq Peers

TypeOK == MainTypes /\ ThreadTypes /\ MutexTypes /\ FileTypes /\ ServerTypes /\ PeerTypes

Stored(b) == \A p \in BytesOf(b) : Content[p] = p

\* DownloadFile.c:108, "TODO write response to file on right position": whatever a
\* thread has written is the byte of the file that belongs at its place.
WrittenInPlace == \A p \in Places : Content[p] \in {Hole, p}

\* A reply is used by the thread that asked for it, although all threads read
\* the same socket.
AnswerIsMine == \A b \in Blocks : answer[b].to \in {b, Nobody}

\* The whole file: DownloadFile says "ready" at its end exactly when every byte
\* that was sent has reached the file under its final name.
ReadyIffStored == mainPc = "done" => (result = "ready" <=> \A b \in Blocks : Stored(b))

\* When the process is killed, at most one of the listed blocks is damaged on
\* disk: the one the stream still had in its buffer.
Damaged == {b \in meta : \E p \in BytesOf(b) : disk[p] # p}
OneBlockAtRisk == mainPc = "killed" => Cardinality(Damaged) <= 1

\* The blocks in the memory of the thread that has emptied the metadata file.
Rewritten == UNION {copy[b] : b \in {k \in Blocks : pc[k] = "rewrite"}}
Kept == IF mainPc = "killed" THEN {} ELSE Rewritten

\* The promise of BlockByBlock, read off the part file, the metadata and the
\* success messages, while the threads run and through a kill
\* (DownloadFile.c:98-148): the rewriting of the metadata loses no block that was
\* listed unless the process is killed in the middle of it, and a kill takes at
\* most one stored block, the one in the buffer of the stream.
Promise == INSTANCE BlockByBlock WITH
  stored <- {b \in Blocks : Stored(b)}, listed <- meta, kept <- Kept, told <- reported,
  alive <- mainPc # "killed"
KeepsPromise == Promise!Spec

-----------------------------------------------------------------------------
(* Liveness *)

\* A thread that ended while it had the socket's mutex.
MutexKept == \E b \in Blocks : pc[b] = "failed" /\ socketMutex = b

\* A thread waits for a peer that will send no more and keeps the connection.
WaitsInVain(b) == pc[b] = "recv" /\ stream[b] = <<>> /\ serving[b] \in {"silent", "served"}
SilentPeer == \E b \in Blocks : WaitsInVain(b)

\* DownloadFile gets through its joins, unless one of these two waits is met,
\* undefined behaviour or a kill: no other wait of the threads can last.
DownloadEnds == mainPc = "create" ~> mainPc \in {"done", "killed"} \/ MutexKept \/ SilentPeer \/ fault # "none"

\* The last message of every block has a byte in the file.
LastMessageHasByte == \A b \in Blocks :
  b * BlockSize + (CeilDiv(BlockSize, MaxMessage) - 1) * MaxMessage < Size

\* A thread waits for bytes that never come only from a peer that could not open
\* the file, or where the division into blocks leaves a message empty: the count
\* of sub-blocks agrees with what the other side sends.
SilenceExplained ==
  LastMessageHasByte => \A b \in Blocks : WaitsInVain(b) => serving[b] = "silent"
=============================================================================
