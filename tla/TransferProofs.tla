----------------------------- MODULE TransferProofs -----------------------------
(***************************************************************************)
(* Proofs about Transfer, for every size of the file, number of blocks,    *)
(* size of messages, set of peers and set of failures.                     *)
(***************************************************************************)
EXTENDS Transfer, SequenceTheorems, FiniteSetTheorems, TLAPS

-----------------------------------------------------------------------------
(* The inductive invariants *)

\* The threads there are, and what is over when DownloadFile renames the file.
Creation ==
  /\ \A b \in Blocks : pc[b] = "new" <=> b >= created
  /\ mainPc \in {"rename", "done"} => buffer.data = <<>> /\ \A b \in Blocks : Over(b)

\* The socket has one message on its way, forth or back, and that of the owner
\* of its mutex.
Conversation ==
  /\ \A b \in Blocks : pc[b] \in {"askRecv", "tellRecv"} => socketMutex = b
  /\ \A b \in Blocks : socketMutex = b => pc[b] \in {"askRecv", "tellRecv", "failed"}
  /\ central = "closed" => asked = <<>>
  /\ asked # <<>> =>
       /\ socketMutex \in Blocks /\ replies = <<>>
       /\ \/ asked = <<[by |-> socketMutex, kind |-> "request"]>> /\ pc[socketMutex] = "askRecv"
          \/ asked = <<[by |-> socketMutex, kind |-> "success"]>> /\ pc[socketMutex] = "tellRecv"
  /\ replies # <<>> =>
       /\ socketMutex \in Blocks /\ Len(replies) = 1 /\ replies[1].to = socketMutex
       /\ pc[socketMutex] \in {"askRecv", "tellRecv"}

\* The blocks the metadata lists, or will list again when it is rewritten.
Known == meta \cup Rewritten

\* A block is listed by its thread, in the metadata as it is, and reported once.
\* The thread that rewrites the metadata file has its mutex.
Listing ==
  /\ \A b \in Blocks : pc[b] \in {"relist", "rewrite"} <=> metaFileMutex = b
  /\ \A b \in Blocks : pc[b] = "relist" => copy[b] = meta
  /\ \A b \in Blocks : pc[b] = "rewrite" => meta = {}
  /\ \A b \in Blocks : pc[b] \in {"tell", "tellRecv", "ended"} => b \in Known
  /\ \A b \in Known : pc[b] \in {"tell", "tellRecv", "ended", "failed"}
  /\ reported \subseteq Known
  /\ \A b \in reported : pc[b] \in {"tellRecv", "ended", "failed"} /\ (pc[b] = "tellRecv" => asked = <<>>)

\* The stream of the part file stands where the owner of its mutex has put it.
StreamOwner ==
  /\ \A b \in Blocks : fileMutex = b => pc[b] = "write" /\ position = PlaceOf(b)
  /\ fault = "none" => \A b \in Blocks : pc[b] = "write" => fileMutex = b

\* The loop over sub-blocks.
Counting ==
  \A b \in Blocks :
    /\ pc[b] \in {"new", "ask", "askRecv", "connect"} =>
         sub[b] = 0 /\ serving[b] = "none"
    /\ pc[b] \in {"recv", "seek", "write"} => sub[b] < SubBlocks
    /\ pc[b] \in {"list", "relist", "rewrite"} \/ b \in Known => sub[b] = SubBlocks
    /\ serving[b] \in {"none", "recv", "silent"} => sub[b] = 0 /\ stream[b] = <<>> /\ chunk[b] = <<>>
    /\ serving[b] \in {"recv", "silent"} => pc[b] = "recv"
    /\ serving[b] = "send" => left[b] > 0
    /\ pc[b] \in {"seek", "write"} /\ fault = "none" => chunk[b] # <<>>
    /\ chunk[b] # <<>> => pc[b] \in {"seek", "write"}

ControlInv == TypeOK /\ AnswerIsMine /\ Creation /\ Conversation /\ Listing /\ StreamOwner /\ Counting

-----------------------------------------------------------------------------
(* Arithmetic of blocks and sub-blocks *)

\* Division of naturals.
LEMMA DivMod ==
  ASSUME NEW n \in Nat, NEW d \in Nat \ {0}
  PROVE  /\ n \div d \in Nat /\ n % d \in 0..(d - 1)
         /\ n = ((n \div d) * d) + (n % d)
OBVIOUS

\* The multiples of a number lie at least that number apart.
LEMMA MultiplesApart ==
  ASSUME NEW a \in Nat, NEW b \in Nat, NEW m \in Nat, a < b
  PROVE  a * m + m <= b * m
OBVIOUS

\* CeilDiv is the number of pieces of d bytes that n bytes take.
LEMMA CeilDivFacts ==
  ASSUME NEW n \in Nat \ {0}, NEW d \in Nat \ {0}
  PROVE  /\ CeilDiv(n, d) \in Nat \ {0}
         /\ n <= CeilDiv(n, d) * d
         /\ (CeilDiv(n, d) - 1) * d < n
BY DivMod DEF CeilDiv

\* The sizes that follow from the constants.
LEMMA Sizes ==
  /\ BlockSize \in Nat \ {0} /\ SubBlocks \in Nat \ {0} /\ MaxMessage \in Nat \ {0}
  /\ Size \in Nat \ {0} /\ NumOfBlocks \in Nat \ {0}
  /\ Size <= BlockSize * NumOfBlocks
  /\ BlockSize <= SubBlocks * MaxMessage /\ (SubBlocks - 1) * MaxMessage < BlockSize
  /\ Blocks \subseteq Nat /\ Nobody \notin Blocks /\ Hole \notin Places
<1>1. BlockSize \in Nat \ {0} /\ Size <= BlockSize * NumOfBlocks
  BY CeilDivFacts, SizesAssumption DEF BlockSize
<1>2. /\ SubBlocks \in Nat \ {0}
      /\ BlockSize <= SubBlocks * MaxMessage /\ (SubBlocks - 1) * MaxMessage < BlockSize
  BY <1>1, CeilDivFacts, SizesAssumption DEF SubBlocks
<1>3. Blocks \subseteq Nat /\ Nobody \notin Blocks /\ Hole \notin Places
  BY SizesAssumption, NamesAssumption DEF Blocks, Places
<1> QED BY <1>1, <1>2, <1>3, SizesAssumption

\* Places are natural numbers, and the next sub-block is MaxMessage further.
LEMMA PlaceFacts ==
  ASSUME NEW b \in Blocks, NEW s \in Nat
  PROVE  /\ b * BlockSize \in Nat /\ s * MaxMessage \in Nat
         /\ (s + 1) * MaxMessage = s * MaxMessage + MaxMessage
BY Sizes

\* Two blocks have no byte in common.
LEMMA BlocksApart ==
  ASSUME NEW b \in Blocks, NEW c \in Blocks, b # c
  PROVE  BytesOf(b) \cap BytesOf(c) = {}
<1> SUFFICES ASSUME NEW p \in BytesOf(b), p \in BytesOf(c) PROVE FALSE
  OBVIOUS
<1>1. /\ b \in Nat /\ c \in Nat /\ BlockSize \in Nat /\ p \in Nat
      /\ b * BlockSize \in Nat /\ c * BlockSize \in Nat
  BY Sizes, PlaceFacts DEF BytesOf, Places
<1>2. /\ b * BlockSize <= p /\ p < b * BlockSize + BlockSize
      /\ c * BlockSize <= p /\ p < c * BlockSize + BlockSize
  BY DEF BytesOf
<1>3. CASE b < c
  <2>1. b * BlockSize + BlockSize <= c * BlockSize
    BY <1>1, <1>3, MultiplesApart
  <2> QED BY <1>1, <1>2, <2>1
<1>4. CASE c < b
  <2>1. c * BlockSize + BlockSize <= b * BlockSize
    BY <1>1, <1>4, MultiplesApart
  <2> QED BY <1>1, <1>2, <2>1
<1> QED BY <1>1, <1>3, <1>4

\* The blocks cover the file.
LEMMA BlocksCover ==
  ASSUME NEW p \in Places
  PROVE  \E b \in Blocks : p \in BytesOf(b)
<1>1. p \in Nat /\ p < Size /\ BlockSize \in Nat \ {0} /\ NumOfBlocks \in Nat
  BY Sizes DEF Places
<1>2. PICK b \in Nat : b * BlockSize <= p /\ p < b * BlockSize + BlockSize
  <2> DEFINE q == p \div BlockSize
  <2>1. q \in Nat /\ q * BlockSize <= p /\ p < q * BlockSize + BlockSize
    <3>1. p = q * BlockSize + (p % BlockSize) /\ q \in Nat /\ p % BlockSize \in 0..(BlockSize - 1)
      BY <1>1, DivMod
    <3>2. q * BlockSize \in Nat
      BY <3>1, <1>1
    <3> QED BY <3>1, <3>2, <1>1
  <2> QED BY <2>1
<1>3. b < NumOfBlocks
  <2> SUFFICES ASSUME NumOfBlocks <= b PROVE FALSE
    BY <1>1, <1>2
  <2>1. PICK d \in Nat : b = NumOfBlocks + d
    <3>1. b - NumOfBlocks \in Nat /\ b = NumOfBlocks + (b - NumOfBlocks)
      BY <1>1
    <3> QED BY <3>1
  <2>2. b * BlockSize = NumOfBlocks * BlockSize + d * BlockSize /\ d * BlockSize \in Nat
    BY <1>1, <2>1
  <2> QED BY <1>1, <1>2, <2>2, Sizes
<1> QED BY <1>2, <1>3, <1>1 DEF Blocks, BytesOf

\* The last sub-block ends at the end of the block or beyond it.
LEMMA LastSubEnds ==
  ASSUME NEW b \in Blocks, NEW s \in Nat, s >= SubBlocks
  PROVE  b * BlockSize + BlockSize <= b * BlockSize + s * MaxMessage
<1>1. SubBlocks * MaxMessage <= s * MaxMessage
  BY Sizes
<1> QED BY <1>1, Sizes, PlaceFacts

\* Each sub-block begins inside the block.
LEMMA SubBegins ==
  ASSUME NEW b \in Blocks, NEW s \in Nat, s < SubBlocks
  PROVE  /\ s * MaxMessage <= (SubBlocks - 1) * MaxMessage
         /\ b * BlockSize + s * MaxMessage < b * BlockSize + BlockSize
<1>1. s * MaxMessage <= (SubBlocks - 1) * MaxMessage
  BY Sizes
<1> QED BY <1>1, Sizes, PlaceFacts

-----------------------------------------------------------------------------
(* Who changes what *)

\* What a step leaves alone, but for the actions that change it.
LEMMA Frames ==
  ASSUME [Next]_vars
  PROVE  /\ UNCHANGED <<mainPc, created, result>>
            \/ CreateThread \/ JoinThreads \/ Rename \/ Kill \/ \E b \in Blocks : BrokenPipe(b)
         /\ UNCHANGED fault \/ \E b \in Blocks : RecvAnswer(b) \/ RecvNoAnswer(b) \/ RecvNoChunk(b)
         /\ UNCHANGED pc \/ CreateThread \/ \E b \in Blocks : DownloadBlock(b)
         /\ UNCHANGED sub \/ \E b \in Blocks : Write(b)
         /\ UNCHANGED chunk \/ \E b \in Blocks : RecvChunk(b) \/ Write(b)
         /\ UNCHANGED copy \/ \E b \in Blocks : ReadMeta(b) \/ WriteMeta(b)
         /\ UNCHANGED answer \/ \E b \in Blocks : RecvAnswer(b) \/ RecvThanks(b)
         /\ UNCHANGED socketMutex
            \/ \E b \in Blocks : \/ Ask(b) \/ RecvAnswer(b) \/ RecvNoAnswer(b)
                                 \/ Tell(b) \/ RecvThanks(b) \/ RecvNoThanks(b)
         /\ UNCHANGED <<fileMutex, position>> \/ \E b \in Blocks : Seek(b) \/ Write(b)
         /\ UNCHANGED metaFileMutex \/ \E b \in Blocks : ReadMeta(b) \/ WriteMeta(b)
         /\ UNCHANGED <<disk, buffer>>
            \/ JoinThreads \/ Kill \/ \E b \in Blocks : BrokenPipe(b) \/ Seek(b) \/ Write(b)
         /\ UNCHANGED meta \/ \E b \in Blocks : OpenMeta(b) \/ WriteMeta(b)
         /\ UNCHANGED <<asked, replies, central>>
            \/ AnswerRequest \/ AnswerSuccess \/ CentralCloses
            \/ \E b \in Blocks : Ask(b) \/ RecvAnswer(b) \/ Tell(b) \/ RecvThanks(b)
         /\ UNCHANGED reported \/ AnswerSuccess
         /\ UNCHANGED <<serving, stream>>
            \/ \E b \in Blocks : \/ Connect(b) \/ RecvChunk(b) \/ Write(b)
                                 \/ PeerOpen(b) \/ PeerSend(b) \/ PeerDies(b)
         /\ UNCHANGED left \/ \E b \in Blocks : PeerOpen(b) \/ PeerSend(b)
         /\ UNCHANGED finished \/ \E p \in Peers : PeerRenames(p)
<1>1. UNCHANGED <<mainPc, created, result>>
      \/ CreateThread \/ JoinThreads \/ Rename \/ Kill \/ \E b \in Blocks : BrokenPipe(b)
  <2>1. ASSUME NEW b \in Blocks, DownloadBlock(b) PROVE UNCHANGED <<mainPc, created, result>>
    BY <2>1 DEF DownloadBlock, mainVars, Ask, RecvAnswer, RecvNoAnswer, Connect, RecvChunk, RecvNoChunk,
                Seek, Write, ReadMeta, OpenMeta, WriteMeta, Tell, RecvThanks, RecvNoThanks
  <2>2. ASSUME NEW b \in Blocks, ServerSubThread(b) \/ PeerDies(b) PROVE UNCHANGED <<mainPc, created, result>>
    BY <2>2 DEF ServerSubThread, mainVars, PeerOpen, PeerSend, PeerDies
  <2>3. ASSUME NEW p \in Peers, PeerRenames(p) PROVE UNCHANGED <<mainPc, created, result>>
    BY <2>3 DEF PeerRenames, mainVars
  <2>4. CASE CentralServer \/ CentralCloses \/ UNCHANGED vars
    BY <2>4 DEF CentralServer, AnswerRequest, AnswerSuccess, CentralCloses, vars, mainVars
  <2> QED BY <2>1, <2>2, <2>3, <2>4 DEF Next, DownloadFile, Outside
<1> USE DEF Next, DownloadFile, DownloadBlock, ServerSubThread, CentralServer, Outside,
           vars, mainVars, threadVars, mutexVars, fileVars, serverVars, peerVars
<1>2. UNCHANGED fault \/ \E b \in Blocks : RecvAnswer(b) \/ RecvNoAnswer(b) \/ RecvNoChunk(b)
  BY ZenonT(60) DEF CreateThread, JoinThreads, Rename, Kill, Die, BrokenPipe, Ask, Connect, RecvChunk, Seek,
         Write, ReadMeta, OpenMeta, WriteMeta, Tell, RecvThanks, RecvNoThanks, SendServer, PeerOpen, PeerSend,
         PeerDies, PeerRenames, AnswerRequest, AnswerSuccess, CentralCloses
<1>3. UNCHANGED pc \/ CreateThread \/ \E b \in Blocks : DownloadBlock(b)
  BY ZenonT(60) DEF JoinThreads, Rename, Kill, Die, BrokenPipe, PeerOpen, PeerSend, PeerDies, PeerRenames,
         AnswerRequest, AnswerSuccess, CentralCloses
<1>4. UNCHANGED sub \/ \E b \in Blocks : Write(b)
  BY ZenonT(60) DEF CreateThread, JoinThreads, Rename, Kill, Die, BrokenPipe, Ask, RecvAnswer, RecvNoAnswer,
         Connect, RecvChunk, RecvNoChunk, Seek, ReadMeta, OpenMeta, WriteMeta, Tell, RecvThanks, RecvNoThanks,
         SendServer, PeerOpen, PeerSend, PeerDies, PeerRenames, AnswerRequest, AnswerSuccess,
         CentralCloses
<1>5. UNCHANGED chunk \/ \E b \in Blocks : RecvChunk(b) \/ Write(b)
  BY ZenonT(60) DEF CreateThread, JoinThreads, Rename, Kill, Die, BrokenPipe, Ask, RecvAnswer, RecvNoAnswer,
         Connect, RecvNoChunk, Seek, ReadMeta, OpenMeta, WriteMeta, Tell, RecvThanks, RecvNoThanks, SendServer,
         PeerOpen, PeerSend, PeerDies, PeerRenames, AnswerRequest, AnswerSuccess, CentralCloses
<1>6. UNCHANGED copy \/ \E b \in Blocks : ReadMeta(b) \/ WriteMeta(b)
  BY ZenonT(60) DEF CreateThread, JoinThreads, Rename, Kill, Die, BrokenPipe, Ask, RecvAnswer, RecvNoAnswer,
         Connect, RecvChunk, RecvNoChunk, Seek, Write, OpenMeta, Tell, RecvThanks, RecvNoThanks, SendServer,
         PeerOpen, PeerSend, PeerDies, PeerRenames, AnswerRequest, AnswerSuccess, CentralCloses
<1>7. UNCHANGED answer \/ \E b \in Blocks : RecvAnswer(b) \/ RecvThanks(b)
  BY ZenonT(60) DEF CreateThread, JoinThreads, Rename, Kill, Die, BrokenPipe, Ask, RecvNoAnswer, Connect,
         RecvChunk, RecvNoChunk, Seek, Write, ReadMeta, OpenMeta, WriteMeta, Tell, RecvNoThanks, SendServer,
         PeerOpen, PeerSend, PeerDies, PeerRenames, AnswerRequest, AnswerSuccess, CentralCloses
<1>8. UNCHANGED socketMutex
      \/ \E b \in Blocks : \/ Ask(b) \/ RecvAnswer(b) \/ RecvNoAnswer(b)
                           \/ Tell(b) \/ RecvThanks(b) \/ RecvNoThanks(b)
  BY ZenonT(60) DEF CreateThread, JoinThreads, Rename, Kill, Die, BrokenPipe, Connect, RecvChunk, RecvNoChunk,
         Seek, Write, ReadMeta, OpenMeta, WriteMeta, PeerOpen, PeerSend, PeerDies, PeerRenames, AnswerRequest,
         AnswerSuccess, CentralCloses
<1>9. UNCHANGED <<fileMutex, position>> \/ \E b \in Blocks : Seek(b) \/ Write(b)
  BY ZenonT(60) DEF CreateThread, JoinThreads, Rename, Kill, Die, BrokenPipe, Ask, RecvAnswer, RecvNoAnswer,
         Connect, RecvChunk, RecvNoChunk, ReadMeta, OpenMeta, WriteMeta, Tell, RecvThanks, RecvNoThanks,
         SendServer, PeerOpen, PeerSend, PeerDies, PeerRenames, AnswerRequest, AnswerSuccess,
         CentralCloses
<1>10. UNCHANGED metaFileMutex \/ \E b \in Blocks : ReadMeta(b) \/ WriteMeta(b)
  BY ZenonT(60) DEF CreateThread, JoinThreads, Rename, Kill, Die, BrokenPipe, Ask, RecvAnswer, RecvNoAnswer,
         Connect, RecvChunk, RecvNoChunk, Seek, Write, OpenMeta, Tell, RecvThanks, RecvNoThanks, SendServer,
         PeerOpen, PeerSend, PeerDies, PeerRenames, AnswerRequest, AnswerSuccess, CentralCloses
<1>11. UNCHANGED <<disk, buffer>>
      \/ JoinThreads \/ Kill \/ \E b \in Blocks : BrokenPipe(b) \/ Seek(b) \/ Write(b)
  BY ZenonT(60) DEF CreateThread, Rename, Ask, RecvAnswer, RecvNoAnswer, Connect, RecvChunk, RecvNoChunk,
         ReadMeta, OpenMeta, WriteMeta, Tell, RecvThanks, RecvNoThanks, SendServer, PeerOpen, PeerSend,
         PeerDies, PeerRenames, AnswerRequest, AnswerSuccess, CentralCloses
<1>12. UNCHANGED meta \/ \E b \in Blocks : OpenMeta(b) \/ WriteMeta(b)
  BY ZenonT(60) DEF CreateThread, JoinThreads, Rename, Kill, Die, BrokenPipe, Ask, RecvAnswer, RecvNoAnswer,
         Connect, RecvChunk, RecvNoChunk, Seek, Write, ReadMeta, Tell, RecvThanks, RecvNoThanks,
         SendServer, PeerOpen, PeerSend, PeerDies, PeerRenames, AnswerRequest, AnswerSuccess,
         CentralCloses
<1>13. UNCHANGED <<asked, replies, central>>
      \/ AnswerRequest \/ AnswerSuccess \/ CentralCloses
      \/ \E b \in Blocks : Ask(b) \/ RecvAnswer(b) \/ Tell(b) \/ RecvThanks(b)
  BY ZenonT(60) DEF CreateThread, JoinThreads, Rename, Kill, Die, BrokenPipe, RecvNoAnswer, Connect, RecvChunk,
         RecvNoChunk, Seek, Write, ReadMeta, OpenMeta, WriteMeta, RecvNoThanks, PeerOpen, PeerSend, PeerDies,
         PeerRenames
<1>14. UNCHANGED reported \/ AnswerSuccess
  BY ZenonT(60) DEF CreateThread, JoinThreads, Rename, Kill, Die, BrokenPipe, Ask, RecvAnswer, RecvNoAnswer,
         Connect, RecvChunk, RecvNoChunk, Seek, Write, ReadMeta, OpenMeta, WriteMeta, Tell, RecvThanks,
         RecvNoThanks, SendServer, PeerOpen, PeerSend, PeerDies, PeerRenames, AnswerRequest,
         CentralCloses
<1>15. UNCHANGED <<serving, stream>>
      \/ \E b \in Blocks : \/ Connect(b) \/ RecvChunk(b) \/ Write(b)
                           \/ PeerOpen(b) \/ PeerSend(b) \/ PeerDies(b)
  BY ZenonT(60) DEF CreateThread, JoinThreads, Rename, Kill, Die, BrokenPipe, Ask, RecvAnswer, RecvNoAnswer,
         RecvNoChunk, Seek, ReadMeta, OpenMeta, WriteMeta, Tell, RecvThanks, RecvNoThanks, SendServer,
         PeerRenames, AnswerRequest, AnswerSuccess, CentralCloses
<1>16. UNCHANGED left \/ \E b \in Blocks : PeerOpen(b) \/ PeerSend(b)
  BY ZenonT(60) DEF CreateThread, JoinThreads, Rename, Kill, Die, BrokenPipe, Ask, RecvAnswer, RecvNoAnswer,
         Connect, RecvChunk, RecvNoChunk, Seek, Write, ReadMeta, OpenMeta, WriteMeta, Tell, RecvThanks,
         RecvNoThanks, SendServer, PeerDies, PeerRenames, AnswerRequest, AnswerSuccess, CentralCloses
<1>17. UNCHANGED finished \/ \E p \in Peers : PeerRenames(p)
  BY ZenonT(60) DEF CreateThread, JoinThreads, Rename, Kill, Die, BrokenPipe, Ask, RecvAnswer, RecvNoAnswer,
         Connect, RecvChunk, RecvNoChunk, Seek, Write, ReadMeta, OpenMeta, WriteMeta, Tell, RecvThanks,
         RecvNoThanks, SendServer, PeerOpen, PeerSend, PeerDies, AnswerRequest, AnswerSuccess,
         CentralCloses
<1> QED
  BY <1>1, <1>2, <1>3, <1>4, <1>5, <1>6, <1>7, <1>8, <1>9, <1>10,
     <1>11, <1>12, <1>13, <1>14, <1>15, <1>16, <1>17

-----------------------------------------------------------------------------
(* Types *)

\* Data written over a file, place by place.
LEMMA OverlayFacts ==
  ASSUME NEW f \in [Places -> Places \cup {Hole}], NEW at \in Nat, NEW data \in Bytes
  PROVE  /\ Overlay(f, at, data) \in [Places -> Places \cup {Hole}]
         /\ Len(data) \in Nat
         /\ \A p \in Places : Overlay(f, at, data)[p] =
              IF at <= p /\ p < at + Len(data) THEN data[p - at + 1] ELSE f[p]
<1>1. Len(data) \in Nat /\ \A i \in 1..Len(data) : data[i] \in Places
  BY DEF Bytes
<1>2. \A p \in Places : p \in Nat
  BY Sizes DEF Places
<1>3. \A p \in Places : p \in at..(at + Len(data) - 1) <=> at <= p /\ p < at + Len(data)
  BY <1>1, <1>2
<1>4. \A p \in Places : p \in at..(at + Len(data) - 1) => data[p - at + 1] \in Places
  BY <1>1, <1>2
<1> QED BY <1>1, <1>3, <1>4 DEF Overlay

\* What a peer reads are the bytes of the file from a place on.
LEMMA ReadAtFacts ==
  ASSUME NEW at \in Nat, NEW n \in Nat
  PROVE  /\ ReadAt(at, n) \in Bytes
         /\ Len(ReadAt(at, n)) = LeastOf(n, IF at < Size THEN Size - at ELSE 0)
         /\ \A i \in 1..Len(ReadAt(at, n)) : ReadAt(at, n)[i] = at + i - 1 /\ at + i - 1 \in Places
<1> DEFINE m == LeastOf(n, IF at < Size THEN Size - at ELSE 0)
<1>1. m \in Nat /\ \A i \in 1..m : at + i - 1 \in Places
  BY Sizes DEF LeastOf, Places
<1>2. ReadAt(at, n) = [i \in 1..m |-> at + i - 1]
  BY DEF ReadAt
<1> HIDE DEF m
<1>3. Len(ReadAt(at, n)) = m /\ ReadAt(at, n) \in Seq(Places)
  BY <1>1, <1>2
<1> QED BY <1>1, <1>2, <1>3 DEF Bytes, m

\* A piece of some bytes.
LEMMA PieceFacts ==
  ASSUME NEW S, NEW data \in Seq(S), NEW m \in Nat \ {0}, NEW n \in Nat, n <= Len(data)
  PROVE  /\ SubSeq(data, m, n) \in Seq(S)
         /\ Len(SubSeq(data, m, n)) = IF m <= n THEN n - m + 1 ELSE 0
         /\ \A i \in 1..Len(SubSeq(data, m, n)) : SubSeq(data, m, n)[i] = data[m + i - 1]
<1>1. \A i \in m..n : data[i] \in S
  OBVIOUS
<1> QED BY <1>1, SubSeqProperties

\* What the process has written is a file.
LEMMA ContentType == FileTypes => Content \in [Places -> Places \cup {Hole}]
BY OverlayFacts DEF FileTypes, Content

\* A step keeps the types of what DownloadFile keeps.
LEMMA MainTypesStep == TypeOK /\ [Next]_vars => MainTypes'
<1> SUFFICES ASSUME MainTypes, [Next]_vars PROVE MainTypes'
  BY DEF TypeOK
<1>1. fault' \in {"none", "no_address", "bad_length"}
  BY Frames DEF MainTypes, RecvAnswer, RecvNoAnswer, RecvNoChunk
<1>2. /\ mainPc' \in {"create", "join", "rename", "done", "killed"} /\ created' \in 0..NumOfBlocks
      /\ result' \in {"none", "ready", "error"}
  BY Frames, Sizes DEF MainTypes, CreateThread, JoinThreads, Rename, Kill, Die, BrokenPipe
<1> QED BY <1>1, <1>2 DEF MainTypes

\* A step keeps the types of the owners of the mutexes.
LEMMA MutexTypesStep == TypeOK /\ [Next]_vars => MutexTypes'
<1> SUFFICES ASSUME MutexTypes, [Next]_vars PROVE MutexTypes'
  BY DEF TypeOK
<1>1. socketMutex' \in Owners
  BY Frames DEF MutexTypes, Owners, Ask, RecvAnswer, RecvNoAnswer, Tell, RecvThanks, RecvNoThanks
<1>2. fileMutex' \in Owners
  BY Frames DEF MutexTypes, Owners, Seek, Write
<1>3. metaFileMutex' \in Owners
  BY Frames DEF MutexTypes, Owners, ReadMeta, WriteMeta
<1> QED BY <1>1, <1>2, <1>3 DEF MutexTypes

\* A step keeps the types of what the block threads keep: no thread counts more
\* sub-blocks than there are.
LEMMA ThreadTypesStep == TypeOK /\ Counting /\ [Next]_vars => ThreadTypes'
<1> SUFFICES ASSUME TypeOK, Counting, [Next]_vars PROVE ThreadTypes'
  OBVIOUS
<1> USE DEF TypeOK, ThreadTypes
<1>1. pc' \in [Blocks -> PCs]
  <2>1. CASE UNCHANGED pc
    BY <2>1
  <2>2. CASE CreateThread
    BY <2>2 DEF CreateThread, Goto, PCs
  <2>3. ASSUME NEW b \in Blocks, DownloadBlock(b) PROVE pc' \in [Blocks -> PCs]
    BY ZenonT(30), <2>3 DEF DownloadBlock, Goto, PCs, Ask, RecvAnswer, RecvNoAnswer, Connect, RecvChunk, RecvNoChunk,
                Seek, Write, ReadMeta, OpenMeta, WriteMeta, Tell, RecvThanks, RecvNoThanks
  <2> QED BY <2>1, <2>2, <2>3, Frames
<1>2. sub' \in [Blocks -> 0..SubBlocks]
  <2>1. ASSUME NEW b \in Blocks, Write(b) PROVE sub' \in [Blocks -> 0..SubBlocks]
    <3>1. sub[b] < SubBlocks /\ sub[b] \in 0..SubBlocks /\ SubBlocks \in Nat
      BY <2>1, Sizes DEF Write, Counting
    <3> QED BY <2>1, <3>1 DEF Write
  <2> QED BY <2>1, Frames
<1>3. chunk' \in [Blocks -> Bytes]
  <2>1. ASSUME NEW b \in Blocks, RecvChunk(b) PROVE chunk' \in [Blocks -> Bytes]
    <3>1. stream[b] \in Seq(Places) /\ Len(stream[b]) \in Nat
      BY DEF PeerTypes, Bytes
    <3>2. \A n \in Lengths(Len(stream[b])) : n \in Nat /\ n <= Len(stream[b])
      BY <3>1, Sizes DEF Lengths, LeastOf
    <3>3. \A n \in Lengths(Len(stream[b])) : SubSeq(stream[b], 1, n) \in Bytes
      BY <3>1, <3>2, PieceFacts DEF Bytes
    <3> QED BY <2>1, <3>3 DEF RecvChunk
  <2>2. ASSUME NEW b \in Blocks, Write(b) PROVE chunk' \in [Blocks -> Bytes]
    BY <2>2 DEF Write, Bytes
  <2> QED BY <2>1, <2>2, Frames
<1>4. copy' \in [Blocks -> SUBSET Blocks]
  BY Frames DEF ReadMeta, WriteMeta, FileTypes
<1>5. answer' \in [Blocks -> [to : Owners, kind : Kinds, peer : Peers \cup {Nobody}]]
  <2>1. replies # <<>> => Head(replies) \in [to : Owners, kind : Kinds, peer : Peers \cup {Nobody}]
    <3>1. replies # <<>> => Head(replies) \in [to : Blocks, kind : Kinds, peer : Peers \cup {Nobody}]
      BY HeadTailProperties DEF ServerTypes
    <3> QED BY <3>1 DEF Owners
  <2> QED BY ZenonT(30), <2>1, Frames DEF RecvAnswer, RecvThanks
<1> QED BY <1>1, <1>2, <1>3, <1>4, <1>5

\* A step keeps the types of the part file, its stream and the metadata.
LEMMA FileTypesStep == TypeOK /\ [Next]_vars => FileTypes'
<1> SUFFICES ASSUME TypeOK, [Next]_vars PROVE FileTypes'
  OBVIOUS
<1> USE DEF TypeOK, FileTypes
<1>1. Content \in [Places -> Places \cup {Hole}]
  BY ContentType
<1>2. Empty \in [at : Nat, data : Bytes]
  BY DEF Empty, Bytes
<1>3. \A b \in Blocks : PlaceOf(b) \in Nat /\ Len(chunk[b]) \in Nat
  <2>1. \A b \in Blocks : sub[b] \in Nat /\ Len(chunk[b]) \in Nat
    BY Sizes DEF ThreadTypes, Bytes
  <2>2. \A b \in Blocks : b * BlockSize \in Nat /\ sub[b] * MaxMessage \in Nat
    BY <2>1, PlaceFacts
  <2> QED BY <2>1, <2>2 DEF PlaceOf
<1>4. disk' \in [Places -> Places \cup {Hole}] /\ buffer' \in [at : Nat, data : Bytes]
  <2>1. ASSUME Die PROVE disk' \in [Places -> Places \cup {Hole}] /\ buffer' = Empty
    <3>1. Len(buffer.data) \in Nat /\ \A n \in 0..Len(buffer.data) : SubSeq(buffer.data, 1, n) \in Bytes
      BY PieceFacts DEF Bytes
    <3>2. \A n \in 0..Len(buffer.data) :
            Overlay(disk, buffer.at, SubSeq(buffer.data, 1, n)) \in [Places -> Places \cup {Hole}]
      BY <3>1, OverlayFacts
    <3> QED BY <2>1, <3>2 DEF Die
  <2>2. ASSUME NEW b \in Blocks, Write(b)
        PROVE  disk' \in [Places -> Places \cup {Hole}] /\ buffer' \in [at : Nat, data : Bytes]
    BY <2>2, <1>1 DEF Write, ThreadTypes
  <2> QED BY <1>1, <1>2, <2>1, <2>2, Frames DEF JoinThreads, Kill, BrokenPipe, Seek
<1>5. position' \in Nat
  BY <1>3, Frames DEF Seek, Write
<1>6. meta' \subseteq Blocks
  BY Frames DEF OpenMeta, WriteMeta, ThreadTypes
<1> QED BY <1>4, <1>5, <1>6

\* A step keeps the types of the messages to the server and of its replies.
LEMMA ServerTypesStep == TypeOK /\ [Next]_vars => ServerTypes'
<1> SUFFICES ASSUME TypeOK, [Next]_vars PROVE ServerTypes'
  OBVIOUS
<1> DEFINE Asked == [by : Blocks, kind : {"request", "success"}]
           Replies == [to : Blocks, kind : Kinds, peer : Peers \cup {Nobody}]
<1>1. asked \in Seq(Asked) /\ replies \in Seq(Replies) /\ central \in {"up", "closed"} /\ reported \subseteq Blocks
  BY DEF TypeOK, ServerTypes
<1>2. asked # <<>> => Head(asked) \in Asked /\ Tail(asked) \in Seq(Asked)
  BY <1>1, HeadTailProperties
<1>3. replies # <<>> => Tail(replies) \in Seq(Replies)
  BY <1>1, HeadTailProperties
<1>4. ASSUME NEW b \in Blocks, NEW kind \in {"request", "success"}
      PROVE  Append(asked, [by |-> b, kind |-> kind]) \in Seq(Asked)
  BY <1>1
<1>5. ASSUME NEW r \in Replies PROVE Append(replies, r) \in Seq(Replies)
  BY <1>1
<1>6. asked' \in Seq(Asked)
  <2>1. ASSUME NEW b \in Blocks, NEW kind \in {"request", "success"}, SendServer(b, kind)
        PROVE  asked' \in Seq(Asked)
    BY <2>1, <1>1, <1>4 DEF SendServer
  <2>2. ASSUME NEW b \in Blocks, Ask(b) \/ Tell(b) PROVE asked' \in Seq(Asked)
    BY <2>2, <2>1 DEF Ask, Tell
  <2>3. CASE AnswerRequest \/ AnswerSuccess
    BY <2>3, <1>2 DEF AnswerRequest, AnswerSuccess
  <2>4. CASE CentralCloses
    BY <2>4 DEF CentralCloses
  <2>5. ASSUME NEW b \in Blocks, RecvAnswer(b) \/ RecvThanks(b) PROVE asked' \in Seq(Asked)
    BY <2>5, <1>1 DEF RecvAnswer, RecvThanks
  <2> QED BY <1>1, <2>2, <2>3, <2>4, <2>5, Frames
<1>7. replies' \in Seq(Replies)
  <2>1. CASE AnswerRequest
    <3>1. Head(asked).by \in Blocks
      BY <2>1, <1>2 DEF AnswerRequest
    <3> QED BY <2>1, <3>1, <1>5 DEF AnswerRequest, Kinds
  <2>2. CASE AnswerSuccess
    <3>1. Head(asked).by \in Blocks
      BY <2>2, <1>2 DEF AnswerSuccess
    <3> QED BY <2>2, <3>1, <1>5 DEF AnswerSuccess, Kinds
  <2> QED BY <2>1, <2>2, <1>1, <1>3, Frames
     DEF Ask, Tell, SendServer, RecvAnswer, RecvThanks, CentralCloses
<1>8. central' \in {"up", "closed"} /\ reported' \subseteq Blocks
  <2>1. AnswerSuccess => central' \in {"up", "closed"} /\ Head(asked).by \in Blocks
    BY <1>2 DEF AnswerSuccess
  <2> QED BY <2>1, <1>1, Frames
     DEF Ask, Tell, SendServer, RecvAnswer, RecvThanks, AnswerRequest, AnswerSuccess, CentralCloses
<1> QED BY <1>6, <1>7, <1>8 DEF ServerTypes

\* A step keeps the types of what the serving threads keep: none sends more bytes
\* than it has left.
LEMMA PeerTypesStep == TypeOK /\ [Next]_vars => PeerTypes'
<1> SUFFICES ASSUME TypeOK, [Next]_vars PROVE PeerTypes'
  OBVIOUS
<1> USE DEF TypeOK, PeerTypes
<1>1. serving' \in [Blocks -> {"none", "recv", "send", "served", "silent", "shut"}]
  <2>1. ASSUME NEW b \in Blocks, Connect(b) \/ RecvChunk(b) \/ Write(b)
        PROVE  serving' \in [Blocks -> {"none", "recv", "send", "served", "silent", "shut"}]
    BY <2>1 DEF Connect, RecvChunk, Write
  <2>2. ASSUME NEW b \in Blocks, PeerOpen(b) \/ PeerSend(b) \/ PeerDies(b)
        PROVE  serving' \in [Blocks -> {"none", "recv", "send", "served", "silent", "shut"}]
    BY <2>2 DEF PeerOpen, PeerSend, PeerDies
  <2> QED BY <2>1, <2>2, Frames
<1>2. left' \in [Blocks -> 0..BlockSize]
  <2>1. ASSUME NEW b \in Blocks, PeerSend(b) PROVE left' \in [Blocks -> 0..BlockSize]
    <3>1. left[b] - LeastOf(MaxMessage, left[b]) \in 0..BlockSize
      BY Sizes DEF LeastOf
    <3> QED BY <2>1, <3>1 DEF PeerSend
  <2> QED BY <2>1, Sizes, Frames DEF PeerOpen
<1>3. stream' \in [Blocks -> Bytes]
  <2>1. ASSUME NEW b \in Blocks, RecvChunk(b) PROVE stream' \in [Blocks -> Bytes]
    <3>1. stream[b] \in Seq(Places) /\ Len(stream[b]) \in Nat
      BY DEF Bytes
    <3>2. \A n \in Lengths(Len(stream[b])) : n \in Nat
      BY <3>1, Sizes DEF Lengths, LeastOf
    <3>3. \A n \in Lengths(Len(stream[b])) : SubSeq(stream[b], n + 1, Len(stream[b])) \in Bytes
      BY <3>1, <3>2, PieceFacts DEF Bytes
    <3> QED BY <2>1, <3>3 DEF RecvChunk
  <2>2. ASSUME NEW b \in Blocks, PeerSend(b) PROVE stream' \in [Blocks -> Bytes]
    <3> DEFINE n == LeastOf(MaxMessage, left[b])
               data == ReadAt(b * BlockSize + BlockSize - left[b], n)
    <3>1. n \in Nat /\ b * BlockSize + BlockSize - left[b] \in Nat
      BY Sizes, PlaceFacts DEF LeastOf
    <3>2. data \in Bytes
      BY <3>1, ReadAtFacts
    <3>3. stream[b] \o data \in Bytes
      BY <3>2, ConcatProperties DEF Bytes
    <3> QED BY <2>2, <3>3 DEF PeerSend
  <2>3. <<>> \in Bytes
    BY DEF Bytes
  <2> QED BY <2>1, <2>2, <2>3, Frames DEF Connect, Write, PeerOpen, PeerDies
<1>4. finished' \subseteq Peers
  BY Frames DEF PeerRenames
<1> QED BY <1>1, <1>2, <1>3, <1>4

\* A step keeps all types.
LEMMA TypeStep == TypeOK /\ Counting /\ [Next]_vars => TypeOK'
BY MainTypesStep, ThreadTypesStep, MutexTypesStep, FileTypesStep, ServerTypesStep, PeerTypesStep DEF TypeOK

-----------------------------------------------------------------------------
(* Threads, mutexes and the conversation with the server *)

\* A step of a block thread moves that thread only, and not one that has ended.
LEMMA ThreadMoves ==
  ASSUME ThreadTypes, NEW b \in Blocks, DownloadBlock(b)
  PROVE  /\ Running /\ ~Over(b) /\ pc[b] # "new" /\ pc'[b] # "new"
         /\ \A c \in Blocks \ {b} : pc'[c] = pc[c]
BY DEF ThreadTypes, DownloadBlock, Goto, Over, Ask, RecvAnswer, RecvNoAnswer, Connect, RecvChunk, RecvNoChunk,
       Seek, Write, ReadMeta, OpenMeta, WriteMeta, Tell, RecvThanks, RecvNoThanks

\* The thread that DownloadFile creates is a new one.
LEMMA ThreadCreated ==
  ASSUME TypeOK, Creation, CreateThread, pc' # pc
  PROVE  /\ created \in Blocks /\ pc[created] = "new" /\ created' = created + 1
         /\ pc' = [pc EXCEPT ![created] = "ask"]
<1>1. created \in 0..NumOfBlocks /\ created < NumOfBlocks /\ created' = created + 1
      /\ pc' = [pc EXCEPT ![created] = "ask"]
  BY DEF TypeOK, MainTypes, CreateThread, Goto
<1>2. created \in Blocks
  BY <1>1, Sizes DEF Blocks
<1> QED BY <1>1, <1>2 DEF Creation

\* A step keeps Creation: a thread is created once, and none runs when the file
\* has been closed.
LEMMA CreationStep == TypeOK /\ Creation /\ [Next]_vars => Creation'
<1> SUFFICES ASSUME TypeOK, Creation, [Next]_vars PROVE Creation'
  OBVIOUS
<1>1. \A b \in Blocks : pc'[b] = "new" <=> b >= created'
  <2>1. created' # created => CreateThread /\ pc' # pc
    <3>1. CASE CreateThread
      <4>1. CASE created < NumOfBlocks
        <5>1. created \in Blocks /\ created \in Nat
          BY <4>1, Sizes DEF TypeOK, MainTypes, Blocks
        <5>2. pc[created] = "new" /\ pc'[created] = "ask"
          BY <3>1, <4>1, <5>1 DEF CreateThread, Goto, Creation, TypeOK, ThreadTypes
        <5> QED BY <3>1, <5>2
      <4> QED BY <3>1, <4>1 DEF CreateThread
    <3>2. CASE JoinThreads \/ Rename \/ Kill \/ \E b \in Blocks : BrokenPipe(b)
      BY <3>2 DEF JoinThreads, Rename, Kill, Die, BrokenPipe
    <3> QED BY <3>1, <3>2, Frames
  <2>2. CASE pc' = pc
    BY <2>1, <2>2 DEF Creation
  <2>3. CASE CreateThread /\ pc' # pc
    <3>1. \A b \in Blocks : b \in Nat /\ created \in Nat
      BY Sizes DEF TypeOK, MainTypes
    <3> QED BY <2>3, <3>1, ThreadCreated DEF Creation, TypeOK, ThreadTypes
  <2>4. ASSUME NEW c \in Blocks, DownloadBlock(c) PROVE \A b \in Blocks : pc'[b] = "new" <=> b >= created'
    <3>1. created' = created
      BY <2>1, <2>4 DEF CreateThread, DownloadBlock, Ask, RecvAnswer, RecvNoAnswer, Connect, RecvChunk, RecvNoChunk,
       Seek, Write, ReadMeta, OpenMeta, WriteMeta, Tell, RecvThanks, RecvNoThanks, mainVars
    <3> QED BY <2>4, <3>1, ThreadMoves DEF Creation, TypeOK
  <2> QED BY <2>2, <2>3, <2>4, Frames
<1>2. ASSUME mainPc' \in {"rename", "done"}
      PROVE  buffer'.data = <<>> /\ \A b \in Blocks : Over(b)'
  <2>1. CASE JoinThreads
    BY <2>1 DEF JoinThreads, Empty, Over, threadVars
  <2>2. CASE ~JoinThreads
    <3>1. mainPc \in {"rename", "done"}
      BY <1>2, <2>2, Frames DEF CreateThread, Rename, Kill, Die, BrokenPipe, MainTypes, TypeOK
    <3>2. buffer.data = <<>> /\ \A b \in Blocks : Over(b)
      BY <3>1 DEF Creation
    <3>3. UNCHANGED pc
      BY <3>1, <3>2, ThreadMoves, Frames DEF CreateThread, TypeOK
    <3>4. UNCHANGED buffer
      <4>1. ~Kill /\ \A b \in Blocks : ~BrokenPipe(b) /\ ~Seek(b) /\ ~Write(b)
        BY <1>2, <3>2 DEF Kill, BrokenPipe, Die, Seek, Write, Over
      <4> QED BY <2>2, <4>1, Frames
    <3> QED BY <3>2, <3>3, <3>4 DEF Over
  <2> QED BY <2>1, <2>2
<1> QED BY <1>1, <1>2 DEF Creation

\* A queue of one element.
LEMMA OneElement ==
  ASSUME NEW S, NEW s \in Seq(S), Len(s) = 1
  PROVE  s # <<>> /\ Head(s) = s[1] /\ Tail(s) = <<>>
<1>1. s # <<>>
  OBVIOUS
<1>2. Tail(s) \in Seq(S) /\ Len(Tail(s)) = 0
  BY <1>1, HeadTailProperties
<1>3. Tail(s) = <<>>
  BY <1>2, EmptySeq
<1>4. Head(s) = s[1]
  OBVIOUS
<1> QED BY <1>1, <1>3, <1>4

\* The part of Conversation that is about the messages.
OneMessage ==
  /\ central = "closed" => asked = <<>>
  /\ asked # <<>> =>
       /\ socketMutex \in Blocks /\ replies = <<>>
       /\ \/ asked = <<[by |-> socketMutex, kind |-> "request"]>> /\ pc[socketMutex] = "askRecv"
          \/ asked = <<[by |-> socketMutex, kind |-> "success"]>> /\ pc[socketMutex] = "tellRecv"
  /\ replies # <<>> =>
       /\ socketMutex \in Blocks /\ Len(replies) = 1 /\ replies[1].to = socketMutex
       /\ pc[socketMutex] \in {"askRecv", "tellRecv"}

\* Who waits for a reply has the mutex.
LEMMA OwnersStep ==
  ASSUME TypeOK, Creation, Conversation, [Next]_vars
  PROVE  /\ \A b \in Blocks : pc'[b] \in {"askRecv", "tellRecv"} => socketMutex' = b
         /\ \A b \in Blocks : socketMutex' = b => pc'[b] \in {"askRecv", "tellRecv", "failed"}
<1> DEFINE Owned == /\ \A b \in Blocks : pc'[b] \in {"askRecv", "tellRecv"} => socketMutex' = b
                    /\ \A b \in Blocks : socketMutex' = b => pc'[b] \in {"askRecv", "tellRecv", "failed"}
<1>1. CASE UNCHANGED pc
  <2>1. UNCHANGED socketMutex
    BY <1>1, Frames DEF Ask, RecvAnswer, RecvNoAnswer, Tell, RecvThanks, RecvNoThanks, Goto, TypeOK, ThreadTypes
  <2> QED BY <1>1, <2>1 DEF Conversation
<1>2. CASE CreateThread /\ pc' # pc
  <2>1. UNCHANGED socketMutex
    BY <1>2 DEF CreateThread, mutexVars
  <2> QED BY <1>2, <2>1, ThreadCreated DEF Conversation, TypeOK, ThreadTypes
<1>3. ASSUME NEW c \in Blocks, DownloadBlock(c) PROVE Owned
  <2> USE Sizes DEF TypeOK, ThreadTypes, Goto, Conversation
  <2>1. CASE Ask(c) \/ Tell(c)
    BY <2>1 DEF Ask, Tell
  <2>2. CASE RecvAnswer(c) \/ RecvNoAnswer(c)
    BY <2>2 DEF RecvAnswer, RecvNoAnswer
  <2>3. CASE RecvThanks(c) \/ RecvNoThanks(c)
    BY <2>3 DEF RecvThanks, RecvNoThanks
  <2>4. CASE Connect(c) \/ RecvChunk(c) \/ RecvNoChunk(c) \/ Seek(c) \/ Write(c)
    BY <2>4 DEF Connect, RecvChunk, RecvNoChunk, Seek, Write, mutexVars
  <2>5. CASE ReadMeta(c) \/ OpenMeta(c) \/ WriteMeta(c)
    BY <2>5 DEF ReadMeta, OpenMeta, WriteMeta, mutexVars
  <2> QED BY <1>3, <2>1, <2>2, <2>3, <2>4, <2>5 DEF DownloadBlock
<1> QED BY <1>1, <1>2, <1>3, Frames

\* One message at a time.
LEMMA OneMessageStep ==
  ASSUME TypeOK, Creation, Conversation, [Next]_vars
  PROVE  OneMessage'
<1> DEFINE Asked == [by : Blocks, kind : {"request", "success"}]
           Replies == [to : Blocks, kind : Kinds, peer : Peers \cup {Nobody}]
<1>1. asked \in Seq(Asked) /\ replies \in Seq(Replies) /\ pc \in [Blocks -> PCs]
  BY DEF TypeOK, ServerTypes, ThreadTypes
<1>2. OneMessage
  BY DEF Conversation, OneMessage
<1>3. asked # <<>> => Tail(asked) = <<>> /\ Head(asked) = asked[1]
  BY <1>2, <1>1, OneElement DEF OneMessage
<1>4. replies # <<>> => Tail(replies) = <<>> /\ Head(replies) = replies[1]
  BY <1>2, <1>1, OneElement DEF OneMessage
<1>5. ASSUME NEW b \in Blocks, Ask(b) \/ Tell(b) PROVE OneMessage'
  <2>1. socketMutex = Nobody /\ asked = <<>> /\ replies = <<>>
    BY <1>5, <1>2, Sizes DEF Ask, Tell, OneMessage
  <2>2. Ask(b) => asked' \in {<<>>, <<[by |-> b, kind |-> "request"]>>} /\ pc'[b] = "askRecv"
    BY <2>1, <1>1 DEF Ask, SendServer, Goto
  <2>3. Tell(b) => asked' \in {<<>>, <<[by |-> b, kind |-> "success"]>>} /\ pc'[b] = "tellRecv"
    BY <2>1, <1>1 DEF Tell, SendServer, Goto
  <2>4. socketMutex' = b /\ replies' = <<>> /\ central' = central /\ (central = "closed" => asked' = <<>>)
    BY <1>5, <2>1 DEF Ask, Tell, SendServer
  <2> QED BY <1>5, <2>2, <2>3, <2>4 DEF OneMessage
<1>6. ASSUME NEW b \in Blocks, RecvAnswer(b) \/ RecvThanks(b) PROVE OneMessage'
  <2>1. asked = <<>> /\ replies' = <<>> /\ asked' = asked /\ central' = central
    BY <1>6, <1>2, <1>4 DEF RecvAnswer, RecvThanks, OneMessage
  <2> QED BY <2>1 DEF OneMessage
<1>7. ASSUME NEW b \in Blocks, RecvNoAnswer(b) \/ RecvNoThanks(b) PROVE OneMessage'
  <2>1. replies' = <<>> /\ asked' = <<>> /\ central' = central
    BY <1>7, <1>2 DEF RecvNoAnswer, RecvNoThanks, serverVars, OneMessage
  <2> QED BY <2>1 DEF OneMessage
<1>8. ASSUME AnswerRequest \/ AnswerSuccess PROVE OneMessage'
  <2>1. asked # <<>> /\ asked' = <<>> /\ replies = <<>> /\ UNCHANGED <<pc, socketMutex>>
    BY <1>8, <1>2, <1>3 DEF AnswerRequest, AnswerSuccess, OneMessage, threadVars, mutexVars
  <2>2. socketMutex \in Blocks /\ pc[socketMutex] \in {"askRecv", "tellRecv"} /\ Head(asked).by = socketMutex
    BY <2>1, <1>2, <1>3 DEF OneMessage
  <2>3. \E kind, peer : replies' = <<[to |-> socketMutex, kind |-> kind, peer |-> peer]>>
    BY <1>8, <2>1, <2>2, <1>1 DEF AnswerRequest, AnswerSuccess
  <2> QED BY <2>1, <2>2, <2>3 DEF OneMessage
<1>9. ASSUME CentralCloses PROVE OneMessage'
  BY <1>9, <1>2 DEF CentralCloses, OneMessage, threadVars, mutexVars
<1>10. ASSUME UNCHANGED <<asked, replies, central, socketMutex>>,
              \A b \in Blocks : pc[b] \in {"askRecv", "tellRecv"} => pc'[b] = pc[b]
       PROVE  OneMessage'
  BY <1>10, <1>2 DEF OneMessage
<1>11. CASE UNCHANGED pc
  <2>1. UNCHANGED socketMutex
    BY <1>11, <1>1, Frames DEF Ask, RecvAnswer, RecvNoAnswer, Tell, RecvThanks, RecvNoThanks, Goto
  <2>2. UNCHANGED <<asked, replies, central>> \/ AnswerRequest \/ AnswerSuccess \/ CentralCloses
    BY <1>11, <1>1, Frames DEF Ask, RecvAnswer, Tell, RecvThanks, Goto
  <2> QED BY <1>8, <1>9, <1>10, <1>11, <2>1, <2>2
<1>12. CASE CreateThread /\ pc' # pc
  BY <1>1, <1>12, <1>10, ThreadCreated DEF CreateThread, mutexVars, serverVars
<1>13. ASSUME NEW c \in Blocks,
              \/ Connect(c) \/ RecvChunk(c) \/ RecvNoChunk(c) \/ Seek(c) \/ Write(c)
              \/ ReadMeta(c) \/ OpenMeta(c) \/ WriteMeta(c)
       PROVE  OneMessage'
  BY <1>1, <1>10, <1>13
  DEF Connect, RecvChunk, RecvNoChunk, Seek, Write, ReadMeta, OpenMeta, WriteMeta, Goto, mutexVars, serverVars
<1> QED BY <1>5, <1>6, <1>7, <1>11, <1>12, <1>13, Frames DEF DownloadBlock

\* A step keeps Conversation: the mutex of the socket is kept from the request to
\* the reply.
LEMMA ConversationStep == TypeOK /\ Creation /\ Conversation /\ [Next]_vars => Conversation'
BY OwnersStep, OneMessageStep DEF Conversation, OneMessage

\* A reply is taken by the thread that has the mutex, which is the one it is for.
LEMMA AnswerIsMineStep == TypeOK /\ Conversation /\ AnswerIsMine /\ [Next]_vars => AnswerIsMine'
<1> SUFFICES ASSUME TypeOK, Conversation, AnswerIsMine, [Next]_vars PROVE AnswerIsMine'
  OBVIOUS
<1>1. ASSUME NEW b \in Blocks, RecvAnswer(b) \/ RecvThanks(b) PROVE AnswerIsMine'
  <2>1. replies # <<>> /\ Len(replies) = 1 /\ socketMutex = b /\ replies[1].to = b
    BY <1>1 DEF RecvAnswer, RecvThanks, Conversation
  <2>2. Head(replies).to = b
    BY <2>1, OneElement DEF TypeOK, ServerTypes
  <2>3. answer' = [answer EXCEPT ![b] = Head(replies)]
    BY <1>1 DEF RecvAnswer, RecvThanks
  <2> QED BY <2>2, <2>3 DEF AnswerIsMine, TypeOK, ThreadTypes
<1> QED BY <1>1, Frames DEF AnswerIsMine

\* The server hears of a block from the thread that waits for its thanks.
LEMMA ReportedWaits ==
  ASSUME TypeOK, Conversation, AnswerSuccess
  PROVE  /\ Head(asked).by \in Blocks /\ pc[Head(asked).by] = "tellRecv" /\ asked' = <<>>
         /\ reported' = reported \cup {Head(asked).by}
<1>1. asked # <<>> /\ Head(asked).kind = "success" /\ asked' = Tail(asked)
      /\ reported' = reported \cup {Head(asked).by}
  BY DEF AnswerSuccess
<1>2. Len(asked) = 1 /\ asked \in Seq([by : Blocks, kind : {"request", "success"}])
  BY <1>1 DEF Conversation, TypeOK, ServerTypes
<1>3. Head(asked) = asked[1] /\ asked' = <<>>
  BY <1>1, <1>2, OneElement
<1>4. asked[1].by = socketMutex /\ (asked[1].kind = "success" => pc[socketMutex] = "tellRecv") /\ socketMutex \in Blocks
  BY <1>1 DEF Conversation
<1> QED BY <1>1, <1>3, <1>4

\* The metadata is rewritten by one thread at a time: it is emptied, its blocks
\* are in the memory of that thread, and come back with the thread's own.
LEMMA KnownStep ==
  ASSUME TypeOK, Creation, Listing, [Next]_vars
  PROVE  /\ (meta' = meta /\ Rewritten' = Rewritten) \/ \E b \in Blocks : OpenMeta(b) \/ WriteMeta(b)
         /\ \A b \in Blocks : OpenMeta(b) => Rewritten = {} /\ Rewritten' = meta /\ meta' = {}
         /\ \A b \in Blocks : WriteMeta(b) => meta = {} /\ Rewritten' = {} /\ meta' = Rewritten \cup {b}
<1>1. pc \in [Blocks -> PCs] /\ copy \in [Blocks -> SUBSET Blocks] /\ meta \subseteq Blocks
  BY DEF TypeOK, ThreadTypes, FileTypes
<1>2. ASSUME \A b \in Blocks : pc'[b] = "rewrite" <=> pc[b] = "rewrite",
             \A b \in Blocks : pc[b] = "rewrite" => copy'[b] = copy[b]
      PROVE  Rewritten' = Rewritten
  BY <1>2 DEF Rewritten
<1>3. ASSUME NEW b \in Blocks, OpenMeta(b) PROVE Rewritten = {} /\ Rewritten' = meta /\ meta' = {}
  <2>1. /\ pc[b] = "relist" /\ pc' = [pc EXCEPT ![b] = "rewrite"] /\ UNCHANGED copy /\ meta' = {}
        /\ copy[b] = meta
    BY <1>3 DEF OpenMeta, Goto, Listing
  <2>2. \A c \in Blocks : pc[c] # "rewrite"
    BY <2>1 DEF Listing
  <2>3. \A c \in Blocks : pc'[c] = "rewrite" <=> c = b
    BY <1>1, <2>1, <2>2
  <2> QED BY <2>1, <2>2, <2>3 DEF Rewritten
<1>4. ASSUME NEW b \in Blocks, WriteMeta(b) PROVE meta = {} /\ Rewritten' = {} /\ meta' = Rewritten \cup {b}
  <2>1. pc[b] = "rewrite" /\ pc' = [pc EXCEPT ![b] = "tell"] /\ meta' = copy[b] \cup {b} /\ meta = {}
    BY <1>4 DEF WriteMeta, Goto, Listing
  <2>2. \A c \in Blocks : pc[c] = "rewrite" <=> c = b
    BY <2>1 DEF Listing
  <2>3. \A c \in Blocks : pc'[c] # "rewrite"
    BY <1>1, <2>1, <2>2
  <2> QED BY <2>1, <2>2, <2>3 DEF Rewritten
<1>5. ASSUME ~\E b \in Blocks : OpenMeta(b) \/ WriteMeta(b) PROVE meta' = meta /\ Rewritten' = Rewritten
  <2>1. meta' = meta
    BY <1>5, Frames
  <2>2. \A b \in Blocks : pc'[b] = "rewrite" <=> pc[b] = "rewrite"
    <3>1. ASSUME NEW c \in Blocks, DownloadBlock(c)
          PROVE  pc[c] # "rewrite" /\ \E l \in PCs \ {"rewrite"} : pc' = [pc EXCEPT ![c] = l]
      BY <1>5, <3>1
      DEF DownloadBlock, Goto, PCs, Ask, RecvAnswer, RecvNoAnswer, Connect, RecvChunk, RecvNoChunk,
          Seek, Write, ReadMeta, Tell, RecvThanks, RecvNoThanks
    <3>2. CASE CreateThread /\ pc' # pc
      BY <1>1, <3>2, ThreadCreated
    <3> QED BY <1>1, <3>1, <3>2, Frames
  <2>3. \A b \in Blocks : pc[b] = "rewrite" => copy'[b] = copy[b]
    BY <1>1, <1>5, Frames DEF ReadMeta
  <2> QED BY <1>2, <2>1, <2>2, <2>3
<1> QED BY <1>3, <1>4, <1>5

\* A step keeps Listing: the metadata is read and written under its mutex.
LEMMA ListingStep == TypeOK /\ Creation /\ Conversation /\ Listing /\ [Next]_vars => Listing'
<1> SUFFICES ASSUME TypeOK, Creation, Conversation, Listing, [Next]_vars PROVE Listing'
  OBVIOUS
<1>1. pc \in [Blocks -> PCs] /\ copy \in [Blocks -> SUBSET Blocks] /\ meta \subseteq Blocks
      /\ reported \subseteq Blocks /\ Nobody \notin Blocks
  BY Sizes DEF TypeOK, ThreadTypes, FileTypes, ServerTypes
<1>5. Known \subseteq Blocks
  BY <1>1 DEF Known, Rewritten
<1>0. UNCHANGED <<meta, Known>> \/ \E b \in Blocks : OpenMeta(b) \/ WriteMeta(b)
  BY KnownStep DEF Known
<1>2. CASE UNCHANGED pc
  <2>0. \A b \in Blocks : ~ReadMeta(b) /\ ~OpenMeta(b) /\ ~WriteMeta(b)
    BY <1>1, <1>2 DEF ReadMeta, OpenMeta, WriteMeta, Goto
  <2>1. UNCHANGED <<copy, metaFileMutex, meta, Known>>
    BY <1>0, <2>0, Frames
  <2>2. asked' = asked \/ asked' = <<>>
    <3>1. CASE AnswerRequest \/ AnswerSuccess
      <4>1. Len(asked) = 1 /\ asked \in Seq([by : Blocks, kind : {"request", "success"}])
        BY <3>1 DEF AnswerRequest, AnswerSuccess, Conversation, TypeOK, ServerTypes
      <4> QED BY <3>1, <4>1, OneElement DEF AnswerRequest, AnswerSuccess
    <3>2. CASE CentralCloses
      BY <3>2 DEF CentralCloses
    <3> QED BY <1>1, <1>2, <3>1, <3>2, Frames DEF Ask, RecvAnswer, Tell, RecvThanks, Goto
  <2>3. CASE UNCHANGED reported
    BY <1>2, <2>1, <2>2, <2>3 DEF Listing
  <2>4. CASE AnswerSuccess
    BY <1>2, <2>1, <2>4, ReportedWaits DEF Listing
  <2> QED BY <2>3, <2>4, Frames
<1>3. CASE CreateThread /\ pc' # pc
  <2>1. UNCHANGED <<copy, metaFileMutex, meta, reported, asked>>
    BY <1>3 DEF CreateThread, mutexVars, serverVars
  <2>2. UNCHANGED Rewritten
    BY <1>1, <1>3, <2>1, ThreadCreated DEF Rewritten
  <2>3. UNCHANGED Known
    BY <2>1, <2>2 DEF Known
  <2>4. /\ created \in Blocks /\ pc[created] = "new" /\ pc' = [pc EXCEPT ![created] = "ask"]
        /\ meta' = meta
    BY <1>3, <2>1, ThreadCreated DEF CreateThread
  <2>5. created \notin Known /\ created \notin reported
    BY <2>4 DEF Listing
  <2>6. /\ \A b \in Blocks \ {created} : pc'[b] = pc[b]
        /\ pc'[created] = "ask"
    BY <1>1, <2>4
  <2> QED BY <1>1, <1>5, <2>1, <2>3, <2>4, <2>5, <2>6 DEF Listing
<1>4. ASSUME NEW c \in Blocks, DownloadBlock(c) PROVE Listing'
  <2> USE <1>1 DEF Listing, Goto
  <2>0. (UNCHANGED <<meta, Known>>) \/ OpenMeta(c) \/ WriteMeta(c)
    <3>1. ASSUME NEW b \in Blocks, OpenMeta(b) \/ WriteMeta(b), b # c PROVE FALSE
      <4>1. pc'[b] # pc[b]
        BY <3>1 DEF OpenMeta, WriteMeta
      <4> QED BY <1>4, <3>1, <4>1, ThreadMoves DEF TypeOK
    <3> QED BY <1>0, <3>1
  <2>1. CASE Ask(c)
    <3>1. UNCHANGED <<meta, Known>>
      BY <2>0, <2>1 DEF Ask, OpenMeta, WriteMeta
    <3> QED BY <2>1, <3>1 DEF Ask, SendServer, Conversation
  <2>2. CASE RecvAnswer(c) \/ RecvNoAnswer(c)
    <3>1. UNCHANGED <<meta, Known>>
      BY <2>0, <2>2 DEF RecvAnswer, RecvNoAnswer, OpenMeta, WriteMeta
    <3>2. UNCHANGED <<copy, metaFileMutex, reported, asked>>
      BY <2>2 DEF RecvAnswer, RecvNoAnswer, serverVars
    <3>3. pc[c] = "askRecv" /\ \E l \in {"connect", "failed"} : pc' = [pc EXCEPT ![c] = l]
      BY <2>2 DEF RecvAnswer, RecvNoAnswer
    <3> QED BY <3>1, <3>2, <3>3
  <2>3. CASE Connect(c) \/ RecvChunk(c) \/ RecvNoChunk(c) \/ Seek(c) \/ Write(c)
    <3>1. UNCHANGED <<copy, metaFileMutex, meta, reported, asked>>
      BY <2>3 DEF Connect, RecvChunk, RecvNoChunk, Seek, Write, mutexVars, serverVars
    <3>2. /\ pc[c] \in {"connect", "recv", "seek", "write"}
          /\ \E l \in {"failed", "recv", "seek", "write", "list"} : pc' = [pc EXCEPT ![c] = l]
      BY <2>3 DEF Connect, RecvChunk, RecvNoChunk, Seek, Write
    <3>3. UNCHANGED Known
      BY <2>0, <3>2 DEF OpenMeta, WriteMeta
    <3> QED BY <3>1, <3>2, <3>3
  <2>4. CASE ReadMeta(c)
    <3>1. UNCHANGED <<meta, Known>>
      BY <2>0, <2>4 DEF ReadMeta, OpenMeta, WriteMeta
    <3> QED BY <2>4, <3>1 DEF ReadMeta, serverVars
  <2>5. CASE OpenMeta(c)
    <3>1. Known' = Known /\ meta' = {}
      BY <2>5, KnownStep DEF Known
    <3> QED BY <2>5, <3>1 DEF OpenMeta, mutexVars, serverVars
  <2>6. CASE WriteMeta(c)
    <3>1. Known' = Known \cup {c}
      BY <2>6, KnownStep DEF Known
    <3> QED BY <2>6, <3>1 DEF WriteMeta, serverVars
  <2>7. CASE Tell(c)
    <3>1. UNCHANGED <<meta, Known>>
      BY <2>0, <2>7 DEF Tell, OpenMeta, WriteMeta
    <3> QED BY <2>7, <3>1 DEF Tell, SendServer, Conversation
  <2>8. CASE RecvThanks(c) \/ RecvNoThanks(c)
    <3>1. UNCHANGED <<meta, Known>>
      BY <2>0, <2>8 DEF RecvThanks, RecvNoThanks, OpenMeta, WriteMeta
    <3>2. UNCHANGED <<copy, metaFileMutex, reported, asked>>
      BY <2>8 DEF RecvThanks, RecvNoThanks, serverVars
    <3>3. pc[c] = "tellRecv" /\ \E l \in {"ended", "failed"} : pc' = [pc EXCEPT ![c] = l]
      BY <2>8 DEF RecvThanks, RecvNoThanks
    <3> QED BY <3>1, <3>2, <3>3
  <2> QED BY <1>4, <2>1, <2>2, <2>3, <2>4, <2>5, <2>6, <2>7, <2>8 DEF DownloadBlock
<1> QED BY <1>2, <1>3, <1>4, Frames

\* A step keeps StreamOwner: nobody moves the stream between a thread's fseek and
\* its fwrite.
LEMMA StreamOwnerStep == TypeOK /\ Creation /\ StreamOwner /\ [Next]_vars => StreamOwner'
<1> SUFFICES ASSUME TypeOK, Creation, StreamOwner, [Next]_vars PROVE StreamOwner'
  OBVIOUS
<1>1. pc \in [Blocks -> PCs] /\ Nobody \notin Blocks /\ sub \in [Blocks -> 0..SubBlocks]
  BY Sizes DEF TypeOK, ThreadTypes
<1>2. ASSUME UNCHANGED <<fileMutex, position, sub>>, fault' = "none" => fault = "none",
             \A b \in Blocks : pc'[b] = "write" <=> pc[b] = "write"
      PROVE  StreamOwner'
  BY <1>2 DEF StreamOwner, PlaceOf
<1>3. UNCHANGED fault \/ fault = "none"
  BY Frames DEF RecvAnswer, RecvNoAnswer, RecvNoChunk, Running
<1>4. CASE UNCHANGED pc
  <2>1. UNCHANGED <<fileMutex, position, sub>>
    BY <1>1, <1>4, Frames DEF Seek, Write, Goto
  <2> QED BY <1>2, <1>3, <1>4, <2>1
<1>5. CASE CreateThread /\ pc' # pc
  <2>1. UNCHANGED <<fileMutex, position, sub>>
    BY <1>5 DEF CreateThread, mutexVars, fileVars
  <2> QED BY <1>1, <1>2, <1>3, <1>5, <2>1, ThreadCreated
<1>6. ASSUME NEW c \in Blocks, DownloadBlock(c) PROVE StreamOwner'
  <2> USE DEF Goto
  <2>1. CASE Seek(c)
    BY <1>1, <2>1 DEF Seek, StreamOwner, PlaceOf, Running
  <2>2. CASE Write(c)
    BY <1>1, <2>2 DEF Write, StreamOwner, PlaceOf, Running
  <2>3. CASE RecvNoChunk(c)
    <3>1. CASE pc' = [pc EXCEPT ![c] = "failed"]
      BY <1>1, <1>2, <1>3, <2>3, <3>1 DEF RecvNoChunk, mutexVars, fileVars
    <3>2. CASE pc' = [pc EXCEPT ![c] = "write"] /\ fault' = "bad_length"
      BY <1>1, <2>3, <3>2 DEF RecvNoChunk, mutexVars, fileVars, StreamOwner, PlaceOf
    <3> QED BY <2>3, <3>1, <3>2 DEF RecvNoChunk
  <2>4. CASE Ask(c) \/ RecvAnswer(c) \/ RecvNoAnswer(c) \/ Connect(c) \/ RecvChunk(c) \/ ReadMeta(c)
             \/ OpenMeta(c) \/ WriteMeta(c) \/ Tell(c) \/ RecvThanks(c) \/ RecvNoThanks(c)
    <3>1. UNCHANGED <<fileMutex, position, sub>>
      BY <2>4 DEF Ask, RecvAnswer, RecvNoAnswer, Connect, RecvChunk, ReadMeta, OpenMeta, WriteMeta, Tell,
                  RecvThanks, RecvNoThanks, mutexVars, fileVars
    <3>2. /\ pc[c] # "write"
          /\ \E l \in PCs \ {"write"} : pc' = [pc EXCEPT ![c] = l]
      BY <2>4 DEF Ask, RecvAnswer, RecvNoAnswer, Connect, RecvChunk, ReadMeta, OpenMeta, WriteMeta, Tell,
                  RecvThanks, RecvNoThanks, PCs
    <3> QED BY <1>1, <1>2, <1>3, <3>1, <3>2
  <2> QED BY <1>6, <2>1, <2>2, <2>3, <2>4 DEF DownloadBlock
<1> QED BY <1>4, <1>5, <1>6, Frames

\* What a recv from a peer takes off the stream.
LEMMA ChunkTaken ==
  ASSUME TypeOK, NEW b \in Blocks, RecvChunk(b)
  PROVE  \E n \in Nat \ {0} :
           /\ n <= Len(stream[b]) /\ n <= MaxMessage
           /\ "short" \notin Failures => n = LeastOf(MaxMessage, Len(stream[b]))
           /\ chunk' = [chunk EXCEPT ![b] = SubSeq(stream[b], 1, n)]
           /\ stream' = [stream EXCEPT ![b] = SubSeq(stream[b], n + 1, Len(stream[b]))]
           /\ Len(SubSeq(stream[b], 1, n)) = n
           /\ Len(SubSeq(stream[b], n + 1, Len(stream[b]))) = Len(stream[b]) - n
           /\ \A i \in 1..n : SubSeq(stream[b], 1, n)[i] = stream[b][i]
           /\ \A i \in 1..(Len(stream[b]) - n) : SubSeq(stream[b], n + 1, Len(stream[b]))[i] = stream[b][n + i]
<1>1. stream \in [Blocks -> Bytes] /\ stream[b] \in Seq(Places) /\ Len(stream[b]) \in Nat \ {0}
  BY DEF TypeOK, PeerTypes, Bytes, RecvChunk
<1>2. PICK n \in Lengths(Len(stream[b])) :
        /\ chunk' = [chunk EXCEPT ![b] = SubSeq(stream[b], 1, n)]
        /\ stream' = [stream EXCEPT ![b] = SubSeq(@, n + 1, Len(@))]
  BY DEF RecvChunk
<1>3. /\ n \in Nat \ {0} /\ n <= Len(stream[b]) /\ n <= MaxMessage
      /\ "short" \notin Failures => n = LeastOf(MaxMessage, Len(stream[b]))
  BY <1>1, Sizes DEF Lengths, LeastOf
<1>4. /\ Len(SubSeq(stream[b], 1, n)) = n
      /\ \A i \in 1..n : SubSeq(stream[b], 1, n)[i] = stream[b][i]
  BY <1>1, <1>3, PieceFacts
<1>5. /\ Len(SubSeq(stream[b], n + 1, Len(stream[b]))) = Len(stream[b]) - n
      /\ \A i \in 1..(Len(stream[b]) - n) :
           SubSeq(stream[b], n + 1, Len(stream[b]))[i] = stream[b][n + 1 + i - 1]
  BY <1>1, <1>3, PieceFacts
<1>6. \A i \in 1..(Len(stream[b]) - n) : n + 1 + i - 1 = n + i
  BY SMTT(20), <1>1, <1>3
<1> QED BY <1>1, <1>2, <1>3, <1>4, <1>5, <1>6

\* A step keeps Counting: the loop over sub-blocks and its peer keep in step.
LEMMA CountingStep == TypeOK /\ Creation /\ Listing /\ Counting /\ [Next]_vars => Counting'
<1> SUFFICES ASSUME TypeOK, Creation, Listing, Counting, [Next]_vars PROVE Counting'
  OBVIOUS
<1>1. /\ pc \in [Blocks -> PCs] /\ sub \in [Blocks -> 0..SubBlocks] /\ SubBlocks \in Nat \ {0}
      /\ stream \in [Blocks -> Bytes] /\ chunk \in [Blocks -> Bytes]
      /\ left \in [Blocks -> 0..BlockSize] /\ BlockSize \in Nat \ {0} /\ MaxMessage \in Nat \ {0}
      /\ serving \in [Blocks -> {"none", "recv", "send", "served", "silent", "shut"}]
      /\ copy \in [Blocks -> SUBSET Blocks]
  BY Sizes DEF TypeOK, ThreadTypes, PeerTypes
<1> USE DEF Goto
<1>0. ASSUME \A b \in Blocks : pc[b] = "rewrite" => pc'[b] = "rewrite"
      PROVE  Known' = Known
  BY <1>0, <1>1, KnownStep DEF Known, WriteMeta
<1>2. ASSUME UNCHANGED <<sub, chunk, stream, serving, left, Known>>, fault' = "none" => fault = "none",
             \A b \in Blocks : \/ pc'[b] = pc[b]
                               \/ pc[b] = "new" /\ pc'[b] = "ask"
                               \/ pc[b] = "ask" /\ pc'[b] = "askRecv"
                               \/ pc[b] = "askRecv" /\ pc'[b] \in {"connect", "failed"}
                               \/ pc[b] = "connect" /\ pc'[b] = "failed"
                               \/ pc[b] = "seek" /\ pc'[b] = "write"
                               \/ pc[b] = "list" /\ pc'[b] = "relist"
                               \/ pc[b] = "relist" /\ pc'[b] = "rewrite"
                               \/ pc[b] = "tell" /\ pc'[b] = "tellRecv"
                               \/ pc[b] = "tellRecv" /\ pc'[b] \in {"ended", "failed"}
      PROVE  Counting'
  BY ZenonT(30), <1>1, <1>2 DEF Counting
<1>3. UNCHANGED fault \/ fault = "none"
  BY Frames DEF RecvAnswer, RecvNoAnswer, RecvNoChunk, Running
<1>4. ASSUME NEW b \in Blocks, PeerOpen(b) PROVE Counting'
  <2>0. Known' = Known
    BY <1>0, <1>4 DEF PeerOpen, threadVars
  <2>1. /\ UNCHANGED <<pc, sub, chunk, Known, fault, stream>> /\ serving[b] = "recv"
        /\ \/ /\ serving' = [serving EXCEPT ![b] = "send"]
              /\ left' = [left EXCEPT ![b] = BlockSize]
           \/ /\ serving' = [serving EXCEPT ![b] = "silent"]
              /\ UNCHANGED left
    BY <1>4, <2>0 DEF PeerOpen, threadVars
  <2>2. pc[b] = "recv" /\ BlockSize > 0
    BY <1>1, <2>1 DEF Counting
  <2> QED BY ZenonT(30), <1>1, <2>1, <2>2 DEF Counting
<1>5. ASSUME NEW b \in Blocks, PeerSend(b) PROVE Counting'
  <2> DEFINE n == LeastOf(MaxMessage, left[b])
  <2>1. n \in Nat /\ n <= left[b] /\ left[b] - n \in Nat
    BY <1>1 DEF LeastOf
  <2>0. Known' = Known
    BY <1>0, <1>5 DEF PeerSend, threadVars
  <2>2. /\ serving[b] = "send" /\ UNCHANGED <<pc, sub, chunk, Known, fault>>
        /\ left' = [left EXCEPT ![b] = left[b] - n]
        /\ serving' = [serving EXCEPT ![b] = IF left[b] = n THEN "served" ELSE "send"]
        /\ \A c \in Blocks \ {b} : stream'[c] = stream[c]
    BY <1>1, <1>5, <2>0 DEF PeerSend, threadVars
  <2> HIDE DEF n
  <2> QED BY <1>1, <2>1, <2>2 DEF Counting
<1>6. ASSUME NEW b \in Blocks, PeerDies(b) PROVE Counting'
  <2>0. Known' = Known
    BY <1>0, <1>6 DEF PeerDies, threadVars
  <2>1. /\ UNCHANGED <<pc, sub, chunk, Known, fault, left>> /\ serving' = [serving EXCEPT ![b] = "shut"]
        /\ serving[b] # "none"
        /\ \A c \in Blocks \ {b} : stream'[c] = stream[c]
    BY <1>1, <1>6, <2>0 DEF PeerDies, threadVars
  <2> QED BY <1>1, <2>1 DEF Counting
<1>7. ASSUME NEW b \in Blocks, Write(b) PROVE Counting'
  <2>0. Known' = Known
    BY <1>0, <1>1, <1>7 DEF Write
  <2>1. /\ pc[b] = "write" /\ fault = "none" /\ UNCHANGED <<Known, fault, left>>
        /\ chunk' = [chunk EXCEPT ![b] = <<>>] /\ sub' = [sub EXCEPT ![b] = sub[b] + 1]
        /\ \/ /\ sub[b] + 1 >= SubBlocks /\ pc' = [pc EXCEPT ![b] = "list"]
              /\ serving' = [serving EXCEPT ![b] = "shut"] /\ stream' = [stream EXCEPT ![b] = <<>>]
           \/ /\ ~(sub[b] + 1 >= SubBlocks) /\ pc' = [pc EXCEPT ![b] = "recv"]
              /\ UNCHANGED <<serving, stream>>
    BY <1>1, <1>7, <2>0 DEF Write, LastSub, Running
  <2>2. sub[b] < SubBlocks /\ b \notin Known /\ serving[b] \notin {"none", "recv", "silent"}
    BY <2>1 DEF Counting, Listing
  <2>3. CASE sub[b] + 1 >= SubBlocks
    <3>1. sub[b] + 1 = SubBlocks
      BY <1>1, <2>2, <2>3
    <3> QED BY <1>1, <2>1, <2>2, <2>3, <3>1 DEF Counting
  <2>4. CASE ~(sub[b] + 1 >= SubBlocks)
    BY <1>1, <2>1, <2>2, <2>4 DEF Counting
  <2> QED BY <2>3, <2>4
<1>8. ASSUME NEW b \in Blocks, RecvChunk(b) PROVE Counting'
  <2>0. Known' = Known
    BY <1>0, <1>1, <1>8 DEF RecvChunk
  <2>1. PICK n \in Nat \ {0} :
          /\ chunk' = [chunk EXCEPT ![b] = SubSeq(stream[b], 1, n)]
          /\ Len(SubSeq(stream[b], 1, n)) = n
          /\ stream' = [stream EXCEPT ![b] = SubSeq(stream[b], n + 1, Len(stream[b]))]
    BY <1>8, ChunkTaken
  <2>2. /\ chunk'[b] # <<>> /\ \A c \in Blocks \ {b} : chunk'[c] = chunk[c] /\ stream'[c] = stream[c]
    BY <1>1, <2>1
  <2>3. /\ pc[b] = "recv" /\ pc' = [pc EXCEPT ![b] = "seek"] /\ stream[b] # <<>>
        /\ UNCHANGED <<sub, Known, fault, serving, left>>
    BY <1>8, <2>0 DEF RecvChunk
  <2> QED BY <1>1, <2>2, <2>3 DEF Counting
<1>9. ASSUME NEW b \in Blocks, Connect(b) PROVE Counting'
  <2>0. Known' = Known
    BY <1>0, <1>1, <1>9 DEF Connect
  <2>1. UNCHANGED <<sub, chunk, stream, left, Known, fault>>
    BY <1>9, <2>0 DEF Connect
  <2>2. pc[b] = "connect"
    BY <1>9 DEF Connect
  <2>3. CASE pc' = [pc EXCEPT ![b] = "recv"] /\ serving' = [serving EXCEPT ![b] = "recv"]
    BY <1>1, <2>1, <2>2, <2>3 DEF Counting
  <2>4. CASE pc' = [pc EXCEPT ![b] = "failed"] /\ UNCHANGED serving
    BY <1>1, <1>2, <2>1, <2>2, <2>4
  <2> QED BY <1>9, <2>3, <2>4 DEF Connect
<1>10. ASSUME NEW b \in Blocks, RecvNoChunk(b) PROVE Counting'
  <2>0. Known' = Known
    BY <1>0, <1>1, <1>10 DEF RecvNoChunk
  <2>1. /\ pc[b] = "recv" /\ serving[b] = "shut" /\ UNCHANGED <<sub, chunk, stream, serving, left, Known>>
        /\ \/ pc' = [pc EXCEPT ![b] = "failed"] /\ fault' = fault
           \/ pc' = [pc EXCEPT ![b] = "write"] /\ fault' = "bad_length"
    BY <1>10, <2>0 DEF RecvNoChunk, peerVars
  <2>2. chunk[b] = <<>>
    BY <2>1 DEF Counting
  <2> QED BY <1>1, <2>1, <2>2 DEF Counting
<1>11. ASSUME NEW b \in Blocks, WriteMeta(b) PROVE Counting'
  <2>1. /\ pc[b] = "rewrite" /\ pc' = [pc EXCEPT ![b] = "tell"]
        /\ UNCHANGED <<sub, chunk, stream, serving, left, fault>>
    BY <1>11 DEF WriteMeta, peerVars
  <2>2. Known' = Known \cup {b}
    BY <1>11, KnownStep DEF Known
  <2> QED BY <1>1, <2>1, <2>2 DEF Counting
<1>12. CASE UNCHANGED pc
  <2>1. UNCHANGED <<sub, chunk, Known>>
    BY <1>0, <1>1, <1>12, Frames DEF Write, RecvChunk
  <2>2. \/ UNCHANGED <<serving, stream, left>> \/ \E b \in Blocks : PeerOpen(b) \/ PeerSend(b) \/ PeerDies(b)
    BY <1>1, <1>12, Frames DEF Connect, RecvChunk, Write
  <2> QED BY <1>2, <1>3, <1>4, <1>5, <1>6, <1>12, <2>1, <2>2
<1>13. CASE CreateThread /\ pc' # pc
  <2>0. Known' = Known
    BY <1>0, <1>1, <1>13, ThreadCreated
  <2>1. UNCHANGED <<sub, chunk, stream, serving, left, Known, fault>>
    BY <1>13, <2>0 DEF CreateThread, peerVars
  <2> QED BY <1>1, <1>2, <1>13, <2>1, ThreadCreated
<1>14. ASSUME NEW c \in Blocks,
              Ask(c) \/ RecvAnswer(c) \/ RecvNoAnswer(c) \/ Seek(c) \/ ReadMeta(c) \/ OpenMeta(c)
              \/ Tell(c) \/ RecvThanks(c) \/ RecvNoThanks(c)
       PROVE  Counting'
  <2>1. UNCHANGED <<sub, chunk, stream, serving, left>>
    BY <1>14 DEF Ask, RecvAnswer, RecvNoAnswer, Seek, ReadMeta, OpenMeta, Tell, RecvThanks, RecvNoThanks, peerVars
  <2>2. \/ pc[c] = "ask" /\ pc' = [pc EXCEPT ![c] = "askRecv"]
        \/ pc[c] = "askRecv" /\ pc' = [pc EXCEPT ![c] = "connect"]
        \/ pc[c] = "askRecv" /\ pc' = [pc EXCEPT ![c] = "failed"]
        \/ pc[c] = "seek" /\ pc' = [pc EXCEPT ![c] = "write"]
        \/ pc[c] = "list" /\ pc' = [pc EXCEPT ![c] = "relist"]
        \/ pc[c] = "relist" /\ pc' = [pc EXCEPT ![c] = "rewrite"]
        \/ pc[c] = "tell" /\ pc' = [pc EXCEPT ![c] = "tellRecv"]
        \/ pc[c] = "tellRecv" /\ pc' = [pc EXCEPT ![c] = "ended"]
        \/ pc[c] = "tellRecv" /\ pc' = [pc EXCEPT ![c] = "failed"]
    BY <1>14 DEF Ask, RecvAnswer, RecvNoAnswer, Seek, ReadMeta, OpenMeta, Tell, RecvThanks, RecvNoThanks
  <2>3. \A b \in Blocks \ {c} : pc'[b] = pc[b]
    BY <1>1, <2>2
  <2>4. Known' = Known
    BY <1>0, <1>1, <2>2
  <2> QED BY <1>1, <1>2, <1>3, <2>1, <2>2, <2>3, <2>4
<1> QED BY <1>7, <1>8, <1>9, <1>10, <1>11, <1>12, <1>13, <1>14, Frames DEF DownloadBlock

-----------------------------------------------------------------------------
(* Theorems *)

\* The control invariant holds at first.
LEMMA ControlInit == Init => ControlInv
<1> SUFFICES ASSUME Init PROVE ControlInv
  OBVIOUS
<1> USE Sizes DEF Init
<1>1. MainTypes /\ MutexTypes /\ ServerTypes
  BY DEF MainTypes, MutexTypes, ServerTypes, Owners
<1>2. ThreadTypes
  BY DEF ThreadTypes, Bytes, PCs, Kinds, NoAnswer, Owners
<1>3. FileTypes
  BY DEF FileTypes, Bytes, Empty
<1>4. PeerTypes
  BY DEF PeerTypes, Bytes
<1>5. Creation /\ Conversation /\ AnswerIsMine
  BY DEF Creation, Conversation, AnswerIsMine, NoAnswer, Blocks
<1>6. Known = {}
  BY DEF Known, Rewritten
<1>7. Listing
  BY <1>6 DEF Listing
<1>8. StreamOwner /\ Counting
  BY <1>6 DEF StreamOwner, Counting
<1> QED BY <1>1, <1>2, <1>3, <1>4, <1>5, <1>7, <1>8 DEF ControlInv, TypeOK

\* A step keeps the control invariant.
LEMMA ControlStep == ControlInv /\ [Next]_vars => ControlInv'
BY TypeStep, AnswerIsMineStep, CreationStep, ConversationStep, ListingStep, StreamOwnerStep, CountingStep
DEF ControlInv

\* The control invariant of a download, for every set of failures: who may run,
\* which mutex is whose, what is on its way and how far each thread has counted.
THEOREM Control == Spec => []ControlInv
BY ControlInit, ControlStep, PTL DEF Spec

\* The state of a download keeps its types, whatever fails.
THEOREM TypeCorrect == Spec => []TypeOK
<1>1. ControlInv => TypeOK
  BY DEF ControlInv
<1> QED BY <1>1, Control, PTL

\* All threads read the same socket, and yet a thread never takes a reply meant
\* for another one: the mutex is kept from send to recv (DownloadFile.c).
THEOREM AnswersAreMine == Spec => []AnswerIsMine
<1>1. ControlInv => AnswerIsMine
  BY DEF ControlInv
<1> QED BY <1>1, Control, PTL
===============================================================================
