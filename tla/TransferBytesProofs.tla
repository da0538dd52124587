-------------------------- MODULE TransferBytesProofs --------------------------
(***************************************************************************)
(* Proofs about the bytes of a download: where they are, that a listed     *)
(* block has them all, and that Transfer keeps the promise of BlockByBlock.*)
(***************************************************************************)
EXTENDS TransferProofs

-----------------------------------------------------------------------------
(* The inductive invariant *)

\* The place after a block's last byte, the place its peer sends from next, and
\* the place after the last byte that has left the peer.
End(b)   == LeastOf(b * BlockSize + BlockSize, Size)
From(b)  == b * BlockSize + BlockSize - left[b]
Front(b) == PlaceOf(b) + Len(chunk[b]) + Len(stream[b])

Multiple(n) == \E k \in 0..n : n = k * MaxMessage

\* The bytes under way are those of the block, in their order and without a gap,
\* in whole messages except for the last.
InOrder(b) ==
  /\ Len(chunk[b]) <= MaxMessage
  /\ \A i \in 1..Len(chunk[b]) : chunk[b][i] = PlaceOf(b) + i - 1 /\ chunk[b][i] \in BytesOf(b)
  /\ \A i \in 1..Len(stream[b]) :
       stream[b][i] = PlaceOf(b) + Len(chunk[b]) + i - 1 /\ stream[b][i] \in BytesOf(b)
  /\ chunk[b] # <<>> => Len(chunk[b]) = MaxMessage \/ PlaceOf(b) + Len(chunk[b]) >= End(b)
  /\ Multiple(Len(stream[b])) \/ Front(b) >= End(b)
  /\ serving[b] = "send" => IF From(b) < Size THEN Front(b) = From(b) ELSE Front(b) >= Size
  /\ serving[b] = "served" => Front(b) >= End(b)

\* What stdio keeps is of one block.
Buffered ==
  buffer.data # <<>> => \E b \in Blocks : \A i \in 1..Len(buffer.data) :
                          buffer.data[i] = buffer.at + i - 1 /\ buffer.data[i] \in BytesOf(b)

OnDisk == \A p \in Places : disk[p] \in {Hole, p}

\* Every byte before a thread's place is in the file.
Written(b) == \A p \in BytesOf(b) : p < PlaceOf(b) => Content[p] = p

BytesInv ==
  /\ \A b \in Blocks : InOrder(b)
  /\ Buffered /\ OnDisk
  /\ mainPc # "killed" => \A b \in Blocks : Written(b)
  /\ mainPc = "killed" => \E c \in Blocks : Damaged \subseteq {c}

-----------------------------------------------------------------------------
(* Bytes *)

\* Whole messages.
LEMMA MultipleFacts ==
  /\ Multiple(0)
  /\ \A n \in Nat : Multiple(n) => Multiple(n + MaxMessage)
  /\ \A n \in Nat : Multiple(n) /\ n > 0 => n >= MaxMessage /\ Multiple(n - MaxMessage)
<1>1. Multiple(0)
  BY Sizes DEF Multiple
<1>2. ASSUME NEW n \in Nat, Multiple(n) PROVE Multiple(n + MaxMessage)
  <2>1. PICK k \in 0..n : n = k * MaxMessage
    BY <1>2 DEF Multiple
  <2>2. k + 1 \in 0..(n + MaxMessage) /\ n + MaxMessage = (k + 1) * MaxMessage
    BY <2>1, Sizes
  <2> QED BY <2>2 DEF Multiple
<1>3. ASSUME NEW n \in Nat, Multiple(n), n > 0 PROVE n >= MaxMessage /\ Multiple(n - MaxMessage)
  <2>1. PICK k \in 0..n : n = k * MaxMessage
    BY <1>3 DEF Multiple
  <2>2. k \in Nat \ {0} /\ k - 1 \in Nat
    BY <1>3, <2>1, Sizes
  <2>3. n = (k - 1) * MaxMessage + MaxMessage /\ (k - 1) * MaxMessage \in Nat /\ k - 1 <= (k - 1) * MaxMessage
    BY <2>1, <2>2, Sizes
  <2>4. n - MaxMessage = (k - 1) * MaxMessage /\ k - 1 \in 0..(n - MaxMessage) /\ n >= MaxMessage
    BY <2>2, <2>3, Sizes
  <2> QED BY <2>4 DEF Multiple
<1> QED BY <1>1, <1>2, <1>3

\* Where the bytes of a block are, and where those under way begin.
LEMMA BlockFacts ==
  ASSUME TypeOK, NEW b \in Blocks
  PROVE  /\ b * BlockSize \in Nat /\ PlaceOf(b) \in Nat /\ b * BlockSize <= PlaceOf(b)
         /\ Len(chunk[b]) \in Nat /\ Len(stream[b]) \in Nat
         /\ chunk[b] \in Bytes /\ stream[b] \in Bytes
         /\ Front(b) \in Nat /\ Front(b) = PlaceOf(b) + Len(chunk[b]) + Len(stream[b])
         /\ left[b] \in Nat /\ left[b] <= BlockSize /\ From(b) \in Nat
         /\ From(b) = b * BlockSize + BlockSize - left[b]
         /\ End(b) \in Nat /\ End(b) <= Size /\ End(b) <= b * BlockSize + BlockSize
         /\ \A p : p \in BytesOf(b) <=> p \in Nat /\ b * BlockSize <= p /\ p < End(b)
<1>1. /\ chunk[b] \in Bytes /\ stream[b] \in Bytes /\ left[b] \in 0..BlockSize
      /\ sub[b] \in Nat
  BY Sizes DEF TypeOK, ThreadTypes, PeerTypes
<1>2. Len(chunk[b]) \in Nat /\ Len(stream[b]) \in Nat
  BY <1>1 DEF Bytes
<1>3. b * BlockSize \in Nat /\ sub[b] * MaxMessage \in Nat /\ PlaceOf(b) = b * BlockSize + sub[b] * MaxMessage
  BY <1>1, PlaceFacts DEF PlaceOf
<1>4. PlaceOf(b) \in Nat /\ b * BlockSize <= PlaceOf(b)
  BY <1>3
<1>5. left[b] \in Nat /\ left[b] <= BlockSize /\ BlockSize \in Nat /\ Size \in Nat
  BY <1>1, Sizes
<1>6. /\ Front(b) \in Nat /\ Front(b) = PlaceOf(b) + Len(chunk[b]) + Len(stream[b])
  BY <1>2, <1>4 DEF Front
<1>7. From(b) \in Nat /\ From(b) = b * BlockSize + BlockSize - left[b]
  BY <1>3, <1>5 DEF From
<1>8. End(b) \in Nat /\ End(b) <= Size /\ End(b) <= b * BlockSize + BlockSize
  BY <1>3, <1>5 DEF End, LeastOf
<1>9. \A p : p \in BytesOf(b) <=> p \in Nat /\ b * BlockSize <= p /\ p < End(b)
  BY <1>3, <1>5 DEF End, LeastOf, BytesOf, Places
<1> QED BY <1>1, <1>2, <1>3, <1>4, <1>5, <1>6, <1>7, <1>8, <1>9

\* What the process has written, place by place.
LEMMA ContentFacts ==
  ASSUME TypeOK
  PROVE  /\ Len(buffer.data) \in Nat /\ buffer.at \in Nat
         /\ \A p \in Places : Content[p] =
              IF buffer.at <= p /\ p < buffer.at + Len(buffer.data)
              THEN buffer.data[p - buffer.at + 1] ELSE disk[p]
BY OverlayFacts DEF TypeOK, FileTypes, Content

\* A place in the buffer has the byte that belongs there.
LEMMA BufferFacts ==
  ASSUME TypeOK, Buffered, NEW p \in Places, buffer.at <= p, p < buffer.at + Len(buffer.data)
  PROVE  /\ buffer.data[p - buffer.at + 1] = p
         /\ \E b \in Blocks : \A q \in Places :
              buffer.at <= q /\ q < buffer.at + Len(buffer.data) => q \in BytesOf(b)
<1>1. buffer.at \in Nat /\ Len(buffer.data) \in Nat /\ \A q \in Places : q \in Nat
  BY ContentFacts, Sizes DEF Places
<1>2. buffer.data # <<>>
  BY <1>1
<1>3. PICK b \in Blocks : \A i \in 1..Len(buffer.data) :
                          buffer.data[i] = buffer.at + i - 1 /\ buffer.data[i] \in BytesOf(b)
  BY <1>2 DEF Buffered
<1>4. ASSUME NEW q \in Places, buffer.at <= q, q < buffer.at + Len(buffer.data)
      PROVE  buffer.data[q - buffer.at + 1] = q /\ q \in BytesOf(b)
  <2>1. q - buffer.at + 1 \in 1..Len(buffer.data) /\ buffer.at + (q - buffer.at + 1) - 1 = q
    BY SMTT(20), <1>1, <1>4
  <2> QED BY <1>3, <2>1
<1> QED BY <1>3, <1>4

\* What has been written is the byte that belongs at its place.
LEMMA ContentRight ==
  ASSUME TypeOK, Buffered, OnDisk
  PROVE  WrittenInPlace
BY ContentFacts, BufferFacts DEF WrittenInPlace, OnDisk

\* The bytes of a block whose thread has counted all sub-blocks are written.
LEMMA CountedStored ==
  ASSUME TypeOK, NEW b \in Blocks, Written(b), sub[b] = SubBlocks
  PROVE  Stored(b)
<1>1. b * BlockSize + BlockSize <= PlaceOf(b)
  BY LastSubEnds, Sizes DEF PlaceOf
<1>2. \A p \in BytesOf(b) : p < PlaceOf(b)
  BY <1>1, BlockFacts, Sizes
<1> QED BY <1>2 DEF Written, Stored

\* A thread and a peer that do not move keep the order of their bytes.
LEMMA InOrderFrame ==
  ASSUME NEW b \in Blocks, InOrder(b),
         sub'[b] = sub[b], chunk'[b] = chunk[b], stream'[b] = stream[b], left'[b] = left[b],
         serving'[b] = serving[b] \/ serving'[b] \in {"recv", "silent", "shut"}
  PROVE  InOrder(b)'
BY DEF InOrder, PlaceOf, Front, From, End

\* The order of the bytes of a block, after a step.
LEMMA InOrderNext ==
  ASSUME NEW b \in Blocks
  PROVE  /\ PlaceOf(b)' = b * BlockSize + (sub'[b] * MaxMessage)
         /\ From(b)' = b * BlockSize + BlockSize - left'[b]
         /\ End(b)' = End(b)
         /\ Front(b)' = PlaceOf(b)' + Len(chunk'[b]) + Len(stream'[b])
BY DEF PlaceOf, From, End, Front

\* A recv takes the next sub-block off the stream whole, unless it is the last of
\* the block.
LEMMA InOrderRecvChunk ==
  ASSUME TypeOK, Counting, "short" \notin Failures, NEW b \in Blocks, InOrder(b), RecvChunk(b)
  PROVE  InOrder(b)'
<1>1. PICK n \in Nat \ {0} :
           /\ n <= Len(stream[b]) /\ n <= MaxMessage
           /\ "short" \notin Failures => n = LeastOf(MaxMessage, Len(stream[b]))
           /\ chunk' = [chunk EXCEPT ![b] = SubSeq(stream[b], 1, n)]
           /\ stream' = [stream EXCEPT ![b] = SubSeq(stream[b], n + 1, Len(stream[b]))]
           /\ Len(SubSeq(stream[b], 1, n)) = n
           /\ Len(SubSeq(stream[b], n + 1, Len(stream[b]))) = Len(stream[b]) - n
           /\ \A i \in 1..n : SubSeq(stream[b], 1, n)[i] = stream[b][i]
           /\ \A i \in 1..(Len(stream[b]) - n) : SubSeq(stream[b], n + 1, Len(stream[b]))[i] = stream[b][n + i]
  BY ChunkTaken
<1> DEFINE L == Len(stream[b])
           P == PlaceOf(b)
<1>2. /\ L \in Nat /\ P \in Nat /\ MaxMessage \in Nat \ {0} /\ End(b) \in Nat /\ Front(b) \in Nat
      /\ Front(b) = P + Len(chunk[b]) + L
  BY BlockFacts, Sizes
<1>3. chunk[b] = <<>> /\ Len(chunk[b]) = 0
  BY DEF RecvChunk, Counting
<1>4. /\ Len(chunk'[b]) = n /\ Len(stream'[b]) = L - n
      /\ \A i \in 1..n : chunk'[b][i] = stream[b][i]
      /\ \A i \in 1..(L - n) : stream'[b][i] = stream[b][n + i]
  BY <1>1 DEF TypeOK, ThreadTypes, PeerTypes
<1>5. UNCHANGED <<sub, serving, left>>
  BY DEF RecvChunk
<1>6. PlaceOf(b)' = P /\ From(b)' = From(b) /\ End(b)' = End(b) /\ Front(b)' = Front(b)
  BY <1>1, <1>2, <1>3, <1>4, <1>5 DEF PlaceOf, From, End, Front
<1>7. /\ n \in Nat \ {0} /\ n <= L /\ n <= MaxMessage /\ n = LeastOf(MaxMessage, L)
      /\ Front(b) = P + L
  BY <1>1, <1>2, <1>3
<1>8. \A i \in 1..L : stream[b][i] = P + i - 1 /\ stream[b][i] \in BytesOf(b)
  <2>1. P + Len(chunk[b]) = P
    BY <1>2, <1>3
  <2> QED BY <2>1 DEF InOrder
<1>9. Multiple(L) \/ Front(b) >= End(b)
  BY DEF InOrder
<1> HIDE DEF L, P
<1>10. \A i \in 1..n : chunk'[b][i] = P + i - 1 /\ chunk'[b][i] \in BytesOf(b)
  <2>1. \A i \in 1..n : i \in 1..L
    BY <1>2, <1>7
  <2> QED BY <1>4, <1>8, <2>1
<1>11. \A i \in 1..(L - n) : stream'[b][i] = P + n + i - 1 /\ stream'[b][i] \in BytesOf(b)
  <2> SUFFICES ASSUME NEW i \in 1..(L - n)
               PROVE  stream'[b][i] = P + n + i - 1 /\ stream'[b][i] \in BytesOf(b)
    OBVIOUS
  <2>1. n + i \in 1..L /\ P + (n + i) - 1 = P + n + i - 1
    BY SMTT(20), <1>2, <1>7
  <2>2. stream'[b][i] = stream[b][n + i]
    BY <1>4
  <2>3. stream[b][n + i] = P + (n + i) - 1 /\ stream[b][n + i] \in BytesOf(b)
    BY <1>8, <2>1
  <2> QED BY <2>1, <2>2, <2>3
<1>12. n = MaxMessage \/ P + n >= End(b)
  <2> SUFFICES ASSUME n # MaxMessage PROVE P + n >= End(b)
    OBVIOUS
  <2>1. n = L /\ L < MaxMessage /\ L > 0
    BY <1>2, <1>7 DEF LeastOf
  <2>2. ~Multiple(L)
    BY <1>2, <2>1, MultipleFacts
  <2> QED BY <1>7, <1>9, <2>1, <2>2
<1>13. Multiple(L - n) \/ Front(b) >= End(b)
  <2>1. CASE n = MaxMessage
    <3>1. Multiple(L) => Multiple(L - n)
      BY <1>2, <1>7, <2>1, MultipleFacts
    <3> QED BY <3>1, <1>9
  <2>2. CASE n # MaxMessage
    <3>1. L - n = 0
      BY <1>2, <1>7, <2>2 DEF LeastOf
    <3> QED BY <3>1, MultipleFacts
  <2> QED BY <2>1, <2>2
<1>14. InOrder(b) => /\ serving'[b] = "send" => IF From(b)' < Size THEN Front(b)' = From(b)' ELSE Front(b)' >= Size
                     /\ serving'[b] = "served" => Front(b)' >= End(b)'
  BY <1>5, <1>6 DEF InOrder
<1> QED BY <1>4, <1>6, <1>7, <1>10, <1>11, <1>12, <1>13, <1>14 DEF InOrder

\* A send of the peer puts the next bytes of the block on the stream, whole
\* messages until the last.
LEMMA InOrderPeerSend ==
  ASSUME TypeOK, Counting, NEW b \in Blocks, InOrder(b), PeerSend(b)
  PROVE  InOrder(b)'
<1> DEFINE n == LeastOf(MaxMessage, left[b])
           F == From(b)
           r == ReadAt(F, n)
           L == Len(stream[b])
           M == Len(r)
           B == b * BlockSize
<1>1. /\ left[b] \in Nat \ {0} /\ left[b] <= BlockSize /\ BlockSize \in Nat /\ MaxMessage \in Nat \ {0}
      /\ B \in Nat /\ F = B + BlockSize - left[b] /\ F \in Nat
      /\ Size \in Nat /\ L \in Nat /\ End(b) = LeastOf(B + BlockSize, Size) /\ Front(b) \in Nat
  BY BlockFacts, Sizes DEF PeerSend, Counting, End
<1>2. /\ PlaceOf(b) \in Nat /\ Len(chunk[b]) \in Nat /\ End(b) \in Nat
      /\ Front(b) = PlaceOf(b) + Len(chunk[b]) + L
      /\ \A p : p \in BytesOf(b) <=> p \in Nat /\ B <= p /\ p < End(b)
  BY BlockFacts
<1>3. /\ r \in Bytes /\ M = LeastOf(n, IF F < Size THEN Size - F ELSE 0)
      /\ \A i \in 1..M : r[i] = F + i - 1 /\ F + i - 1 \in Places
  <2>1. n \in Nat
    BY <1>1 DEF LeastOf
  <2> QED BY <1>1, <2>1, ReadAtFacts
<1>4. /\ stream' = [stream EXCEPT ![b] = stream[b] \o r]
      /\ left' = [left EXCEPT ![b] = left[b] - n]
      /\ serving' = [serving EXCEPT ![b] = IF left[b] = n THEN "served" ELSE "send"]
      /\ UNCHANGED <<sub, chunk>> /\ serving[b] = "send"
  BY DEF PeerSend, From, threadVars
<1>5. IF F < Size THEN Front(b) = F ELSE Front(b) >= Size
  BY <1>4 DEF InOrder
<1> HIDE DEF n, F, B
<1>6. /\ n \in Nat \ {0} /\ n <= left[b] /\ M \in Nat /\ F \in Nat
      /\ F < Size => Front(b) < End(b)
      /\ F >= Size => Front(b) >= End(b)
      /\ M > 0 => Front(b) = F /\ B <= F /\ F + M <= B + BlockSize
      /\ M = MaxMessage \/ Front(b) + M >= End(b)
      /\ IF F + n < Size THEN Front(b) + M = F + n ELSE Front(b) + M >= Size
      /\ left[b] = n => Front(b) + M >= End(b)
  <2>1. n = LeastOf(MaxMessage, left[b])
    BY DEF n
  <2>2. /\ B \in Nat /\ BlockSize \in Nat /\ left[b] \in Nat \ {0} /\ left[b] <= BlockSize
        /\ MaxMessage \in Nat \ {0} /\ Size \in Nat /\ Front(b) \in Nat
        /\ F = B + BlockSize - left[b] /\ End(b) = LeastOf(B + BlockSize, Size)
        /\ M = LeastOf(n, IF F < Size THEN Size - F ELSE 0)
    BY <1>1, <1>3
  <2> HIDE DEF M
  <2> QED BY <1>5, <2>1, <2>2 DEF LeastOf
<1>7. /\ Len(stream'[b]) = L + M
      /\ \A i \in 1..L : stream'[b][i] = stream[b][i]
      /\ \A i \in 1..M : stream'[b][L + i] = r[i]
  <2>1. stream[b] \in Seq(Places) /\ r \in Seq(Places) /\ stream'[b] = stream[b] \o r
    BY <1>3, <1>4 DEF TypeOK, PeerTypes, Bytes
  <2> HIDE DEF r
  <2> QED BY <2>1
<1> HIDE DEF L, M, r
<1>8. /\ left'[b] = left[b] - n /\ chunk'[b] = chunk[b] /\ sub'[b] = sub[b]
      /\ serving'[b] = IF left[b] = n THEN "served" ELSE "send"
  BY <1>4 DEF TypeOK, PeerTypes
<1>9. PlaceOf(b)' = PlaceOf(b) /\ End(b)' = End(b)
  BY <1>8 DEF PlaceOf, End
<1>10. From(b)' = F + n
  BY <1>1, <1>6, <1>8 DEF From, B
<1>11. Front(b)' = Front(b) + M
  BY <1>1, <1>2, <1>6, <1>7, <1>8, <1>9 DEF Front
<1>12. ASSUME NEW i \in 1..(L + M)
       PROVE  stream'[b][i] = PlaceOf(b) + Len(chunk[b]) + i - 1 /\ stream'[b][i] \in BytesOf(b)
  <2>1. CASE i <= L
    <3>1. i \in 1..L
      BY <1>1, <1>6, <2>1
    <3>2. stream[b][i] = PlaceOf(b) + Len(chunk[b]) + i - 1 /\ stream[b][i] \in BytesOf(b)
      BY <3>1 DEF InOrder, L
    <3> QED BY <1>7, <3>1, <3>2
  <2>2. CASE i > L
    <3>1. i - L \in 1..M /\ i = L + (i - L) /\ M > 0
      BY <1>1, <1>6, <2>2
    <3>2. stream'[b][L + (i - L)] = r[i - L]
      BY <1>7, <3>1
    <3>3. r[i - L] = F + (i - L) - 1 /\ F + (i - L) - 1 \in Places
      BY <1>3, <3>1
    <3>4. Front(b) = F /\ B <= F /\ F + M <= B + BlockSize
      BY <1>6, <3>1
    <3>5. F + (i - L) - 1 = PlaceOf(b) + Len(chunk[b]) + i - 1
      <4>1. PlaceOf(b) + Len(chunk[b]) + L = F
        BY <1>2, <3>4
      <4>2. PlaceOf(b) \in Nat /\ Len(chunk[b]) \in Nat /\ L \in Nat /\ i \in Nat
        BY <1>1, <1>2, <1>6
      <4> HIDE DEF F
      <4> QED BY <4>1, <4>2
    <3>6. B <= F + (i - L) - 1 /\ F + (i - L) - 1 < B + BlockSize
      BY <1>1, <1>6, <3>1, <3>4
    <3> QED BY <3>1, <3>2, <3>3, <3>5, <3>6 DEF BytesOf, B
  <2> QED BY <1>1, <1>6, <2>1, <2>2
<1>13. Multiple(L + M) \/ Front(b) + M >= End(b)
  <2>1. Multiple(L) \/ Front(b) >= End(b)
    BY DEF InOrder, L
  <2>2. CASE Front(b) >= End(b)
    <3>1. Front(b) \in Nat /\ End(b) \in Nat /\ M \in Nat
      BY <1>1, <1>2, <1>6
    <3> QED BY <2>2, <3>1
  <2>3. CASE Multiple(L) /\ M = MaxMessage
    BY <1>1, <2>3, MultipleFacts
  <2> QED BY <1>6, <2>1, <2>2, <2>3
<1>14. /\ Len(chunk[b]) <= MaxMessage
       /\ \A i \in 1..Len(chunk[b]) : chunk[b][i] = PlaceOf(b) + i - 1 /\ chunk[b][i] \in BytesOf(b)
       /\ chunk[b] # <<>> => Len(chunk[b]) = MaxMessage \/ PlaceOf(b) + Len(chunk[b]) >= End(b)
  BY DEF InOrder
<1>15. /\ serving'[b] = "send" => IF F + n < Size THEN Front(b) + M = F + n ELSE Front(b) + M >= Size
       /\ serving'[b] = "served" => Front(b) + M >= End(b)
  BY <1>6, <1>8
<1> QED BY <1>7, <1>8, <1>9, <1>10, <1>11, <1>12, <1>13, <1>14, <1>15 DEF InOrder

\* What a thread writes, and where.
LEMMA WriteFacts ==
  ASSUME TypeOK, StreamOwner, Counting, NEW b \in Blocks, InOrder(b), Write(b)
  PROVE  /\ position = PlaceOf(b) /\ buffer' = [at |-> PlaceOf(b), data |-> chunk[b]] /\ disk' = Content
         /\ chunk[b] # <<>> /\ Len(chunk[b]) \in Nat \ {0} /\ Len(chunk[b]) <= MaxMessage
         /\ \A i \in 1..Len(chunk[b]) : chunk[b][i] = PlaceOf(b) + i - 1 /\ chunk[b][i] \in BytesOf(b)
         /\ Len(chunk[b]) # MaxMessage => PlaceOf(b) + Len(chunk[b]) >= End(b)
         /\ PlaceOf(b)' = PlaceOf(b) + MaxMessage /\ PlaceOf(b) \in Nat
         /\ \A c \in Blocks \ {b} : PlaceOf(c)' = PlaceOf(c)
         /\ sub[b] < SubBlocks
<1>1. pc[b] = "write" /\ fault = "none"
  BY DEF Write, Running
<1>2. position = PlaceOf(b) /\ chunk[b] # <<>> /\ sub[b] < SubBlocks
  BY <1>1 DEF StreamOwner, Counting
<1>3. buffer' = [at |-> PlaceOf(b), data |-> chunk[b]] /\ disk' = Content
  BY <1>2 DEF Write
<1>4. Len(chunk[b]) \in Nat \ {0}
  BY <1>2 DEF TypeOK, ThreadTypes, Bytes
<1>5. sub' = [sub EXCEPT ![b] = sub[b] + 1] /\ sub \in [Blocks -> 0..SubBlocks] /\ sub[b] \in Nat
  BY Sizes DEF Write, TypeOK, ThreadTypes
<1>6. PlaceOf(b)' = PlaceOf(b) + MaxMessage
  BY <1>5, PlaceFacts, Sizes DEF PlaceOf
<1>7. \A c \in Blocks \ {b} : PlaceOf(c)' = PlaceOf(c)
  BY <1>5 DEF PlaceOf
<1>8. PlaceOf(b) \in Nat
  BY BlockFacts
<1> QED BY <1>2, <1>3, <1>4, <1>6, <1>7, <1>8 DEF InOrder

\* After a write the next bytes on the stream are those of the next sub-block.
LEMMA InOrderWrite ==
  ASSUME TypeOK, StreamOwner, Counting, NEW b \in Blocks, InOrder(b), Write(b)
  PROVE  InOrder(b)'
<1> DEFINE C == Len(chunk[b])
           L == Len(stream[b])
           P == PlaceOf(b)
           M == Len(stream'[b])
<1>1. /\ C \in Nat \ {0} /\ L \in Nat /\ P \in Nat /\ End(b) \in Nat /\ From(b) \in Nat /\ Front(b) \in Nat
      /\ MaxMessage \in Nat \ {0} /\ C <= MaxMessage /\ Front(b) = P + C + L
      /\ C # MaxMessage => P + C >= End(b)
      /\ End(b) <= Size /\ Size \in Nat
  BY BlockFacts, WriteFacts, Sizes
<1>2. /\ chunk'[b] = <<>> /\ Len(chunk'[b]) = 0 /\ left' = left
      /\ \/ stream'[b] = <<>> /\ serving'[b] = "shut"
         \/ stream'[b] = stream[b] /\ serving'[b] = serving[b]
  BY DEF Write, TypeOK, ThreadTypes, PeerTypes
<1>3. M \in Nat /\ (M = 0 \/ (stream'[b] = stream[b] /\ M = L))
  <2>1. CASE stream'[b] = <<>>
    <3>1. M = 0
      BY <2>1
    <3> HIDE DEF M
    <3> QED BY <3>1
  <2>2. CASE stream'[b] = stream[b]
    <3>1. M = L
      BY <2>2
    <3> QED BY <1>1, <2>2, <3>1
  <2> QED BY <1>2, <2>1, <2>2
<1>4. PlaceOf(b)' = P + MaxMessage /\ End(b)' = End(b) /\ From(b)' = From(b)
  BY <1>2, WriteFacts DEF End, From
<1>5. Front(b)' = P + MaxMessage + M
  BY <1>1, <1>2, <1>3, <1>4 DEF Front
<1>6. \A i \in 1..L : stream[b][i] = P + C + i - 1 /\ stream[b][i] \in BytesOf(b)
  BY DEF InOrder
<1>7. serving[b] = "send" => From(b) < End(b) \/ From(b) >= Size
  <2> SUFFICES ASSUME serving[b] = "send", From(b) < Size PROVE From(b) < End(b)
    BY <1>1
  <2>1. left[b] > 0 /\ left[b] \in Nat
    BY BlockFacts DEF Counting
  <2>2. From(b) < b * BlockSize + BlockSize
    <3>1. From(b) = b * BlockSize + BlockSize - left[b] /\ b * BlockSize \in Nat
      BY BlockFacts
    <3>2. BlockSize \in Nat
      BY Sizes
    <3> DEFINE x == b * BlockSize
    <3> HIDE DEF x
    <3> QED BY <2>1, <3>1, <3>2 DEF x
  <2> QED BY <2>2 DEF End, LeastOf
<1>8. L > 0 => C = MaxMessage
  <2> SUFFICES ASSUME L > 0 PROVE P + C < End(b)
    BY <1>1
  <2>1. 1 \in 1..L
    BY <1>1
  <2>2. stream[b][1] = P + C + 1 - 1 /\ stream[b][1] \in BytesOf(b)
    BY <1>6, <2>1
  <2>3. stream[b][1] = P + C
    BY <1>1, <2>2
  <2>4. stream[b][1] < End(b)
    BY <2>2, BlockFacts
  <2> QED BY <2>3, <2>4
<1> HIDE DEF C, L, P, M
<1>9. \A i \in 1..M : stream'[b][i] = P + MaxMessage + i - 1 /\ stream'[b][i] \in BytesOf(b)
  <2> SUFFICES ASSUME NEW i \in 1..M
               PROVE  stream'[b][i] = P + MaxMessage + i - 1 /\ stream'[b][i] \in BytesOf(b)
    OBVIOUS
  <2>1. stream'[b] = stream[b] /\ M = L /\ C = MaxMessage
    BY <1>1, <1>3, <1>8
  <2> QED BY <1>6, <2>1
<1>10. Multiple(M) \/ P + MaxMessage + M >= End(b)
  <2>1. Multiple(L) \/ P + C + L >= End(b)
    BY <1>1 DEF InOrder, L
  <2>2. M = 0 => Multiple(M)
    BY MultipleFacts
  <2> QED BY <1>1, <1>3, <2>1, <2>2
<1>11. serving'[b] = "send" =>
         IF From(b) < Size THEN P + MaxMessage + M = From(b) ELSE P + MaxMessage + M >= Size
  <2> SUFFICES ASSUME serving'[b] = "send"
               PROVE  IF From(b) < Size THEN P + MaxMessage + M = From(b) ELSE P + MaxMessage + M >= Size
    OBVIOUS
  <2>1. serving[b] = "send" /\ M = L
    BY <1>2, <1>3 DEF M, L
  <2>2. IF From(b) < Size THEN P + C + L = From(b) ELSE P + C + L >= Size
    BY <1>1, <2>1 DEF InOrder
  <2>3. From(b) < Size => C = MaxMessage
    BY <1>1, <1>7, <2>1, <2>2
  <2> QED BY <1>1, <2>1, <2>2, <2>3
<1>12. serving'[b] = "served" => P + MaxMessage + M >= End(b)
  <2> SUFFICES ASSUME serving'[b] = "served" PROVE P + MaxMessage + M >= End(b)
    OBVIOUS
  <2>1. serving[b] = "served" /\ M = L
    BY <1>2, <1>3 DEF M, L
  <2>2. P + C + L >= End(b)
    BY <1>1, <2>1 DEF InOrder
  <2> QED BY <1>1, <2>1, <2>2
<1>13. Len(chunk'[b]) <= MaxMessage /\ \A i \in 1..Len(chunk'[b]) : FALSE
  BY <1>1, <1>2
<1>14. P + MaxMessage = P + MaxMessage + Len(chunk'[b])
  BY <1>1, <1>2
<1> QED
  BY <1>2, <1>4, <1>5, <1>9, <1>10, <1>11, <1>12, <1>13, <1>14 DEF InOrder, M

\* A step keeps the bytes of each block in their order.
LEMMA InOrderStep ==
  ASSUME TypeOK, StreamOwner, Counting, "short" \notin Failures, [Next]_vars, NEW b \in Blocks, InOrder(b)
  PROVE  InOrder(b)'
<1>1. /\ sub \in [Blocks -> 0..SubBlocks] /\ chunk \in [Blocks -> Bytes] /\ stream \in [Blocks -> Bytes]
      /\ left \in [Blocks -> 0..BlockSize]
      /\ serving \in [Blocks -> {"none", "recv", "send", "served", "silent", "shut"}]
  BY DEF TypeOK, ThreadTypes, PeerTypes
<1>2. ASSUME NEW c \in Blocks, Write(c) PROVE InOrder(b)'
  <2>1. CASE c # b
    BY <1>1, <1>2, <2>1, InOrderFrame DEF Write
  <2> QED BY <1>2, <2>1, InOrderWrite
<1>3. ASSUME NEW c \in Blocks, RecvChunk(c) PROVE InOrder(b)'
  <2>1. CASE c # b
    BY <1>1, <1>3, <2>1, InOrderFrame DEF RecvChunk
  <2> QED BY <1>3, <2>1, InOrderRecvChunk
<1>4. ASSUME NEW c \in Blocks, PeerSend(c) PROVE InOrder(b)'
  <2>1. CASE c # b
    BY <1>1, <1>4, <2>1, InOrderFrame DEF PeerSend, threadVars
  <2> QED BY <1>4, <2>1, InOrderPeerSend
<1>5. ASSUME NEW c \in Blocks, Connect(c) PROVE InOrder(b)'
  BY <1>1, <1>5, InOrderFrame DEF Connect
<1>6. ASSUME NEW c \in Blocks, PeerOpen(c) PROVE InOrder(b)'
  <2>1. CASE c # b \/ answer[c].peer \notin finished
    BY <1>1, <1>6, <2>1, InOrderFrame DEF PeerOpen, threadVars
  <2>2. CASE c = b /\ answer[b].peer \in finished
    <3>1. /\ sub[b] = 0 /\ stream[b] = <<>> /\ chunk[b] = <<>> /\ UNCHANGED <<sub, stream, chunk>>
          /\ serving'[b] = "send" /\ left'[b] = BlockSize
      BY <1>1, <1>6, <2>2 DEF PeerOpen, threadVars, Counting
    <3>2. b * BlockSize \in Nat /\ BlockSize \in Nat /\ MaxMessage \in Nat /\ Size \in Nat
      BY PlaceFacts, Sizes
    <3>3. From(b)' = b * BlockSize /\ PlaceOf(b)' = b * BlockSize /\ Front(b)' = b * BlockSize
      BY <3>1, <3>2 DEF From, PlaceOf, Front
    <3>4. Len(stream'[b]) = 0 /\ Len(chunk'[b]) = 0 /\ Multiple(0)
      BY <3>1, MultipleFacts
    <3> QED BY <3>1, <3>2, <3>3, <3>4 DEF InOrder
  <2> QED BY <2>1, <2>2
<1>7. ASSUME NEW c \in Blocks, PeerDies(c) PROVE InOrder(b)'
  <2>1. /\ UNCHANGED <<sub, chunk, left>> /\ serving' = [serving EXCEPT ![c] = "shut"]
        /\ stream' = stream \/ stream' = [stream EXCEPT ![c] = <<>>]
    BY <1>7 DEF PeerDies, threadVars
  <2>2. CASE stream'[b] = stream[b]
    BY <1>1, <2>1, <2>2, InOrderFrame
  <2>3. CASE c = b /\ stream'[b] = <<>>
    <3>1. serving'[b] = "shut" /\ Len(stream'[b]) = 0 /\ Multiple(0)
      BY <1>1, <2>1, <2>3, MultipleFacts
    <3>2. PlaceOf(b)' = PlaceOf(b) /\ End(b)' = End(b)
      BY <2>1 DEF PlaceOf, End
    <3> QED BY <2>1, <2>3, <3>1, <3>2 DEF InOrder
  <2> QED BY <1>1, <2>1, <2>2, <2>3
<1>8. CASE UNCHANGED <<sub, chunk, stream, serving, left>>
  BY <1>8, InOrderFrame
<1> QED BY <1>2, <1>3, <1>4, <1>5, <1>6, <1>7, <1>8, Frames

\* A file is known from its places.
LEMMA SameFile ==
  ASSUME NEW f \in [Places -> Places \cup {Hole}], NEW g \in [Places -> Places \cup {Hole}],
         \A p \in Places : f[p] = g[p]
  PROVE  f = g
OBVIOUS

\* To write nothing changes nothing.
LEMMA OverlayNothing ==
  ASSUME NEW f \in [Places -> Places \cup {Hole}]
  PROVE  Overlay(f, Empty.at, Empty.data) = f
<1>1. Empty.at = 0 /\ Empty.data = <<>> /\ <<>> \in Bytes /\ Len(<<>>) = 0
  BY DEF Empty, Bytes
<1>2. /\ Overlay(f, 0, <<>>) \in [Places -> Places \cup {Hole}]
      /\ \A p \in Places : Overlay(f, 0, <<>>)[p] = IF 0 <= p /\ p < 0 + 0 THEN <<>>[p - 0 + 1] ELSE f[p]
  BY <1>1, OverlayFacts
<1>3. \A p \in Places : p \in Nat
  BY Sizes DEF Places
<1> QED BY <1>1, <1>2, <1>3, SameFile

\* To write a part of some bytes and then all of them is to write them.
LEMMA OverlayTwice ==
  ASSUME NEW f \in [Places -> Places \cup {Hole}], NEW at \in Nat, NEW data \in Bytes, NEW n \in 0..Len(data)
  PROVE  /\ Overlay(f, at, SubSeq(data, 1, n)) \in [Places -> Places \cup {Hole}]
         /\ \A p \in Places : Overlay(f, at, SubSeq(data, 1, n))[p] =
              IF at <= p /\ p < at + n THEN data[p - at + 1] ELSE f[p]
         /\ Overlay(Overlay(f, at, SubSeq(data, 1, n)), at, data) = Overlay(f, at, data)
<1> DEFINE part == SubSeq(data, 1, n)
           g == Overlay(f, at, part)
<1>1. Len(data) \in Nat /\ n \in Nat /\ n <= Len(data) /\ \A p \in Places : p \in Nat
  BY Sizes DEF Bytes, Places
<1>2. part \in Bytes /\ Len(part) = n /\ \A i \in 1..n : part[i] = data[i]
  BY <1>1, PieceFacts DEF Bytes
<1> HIDE DEF part
<1>3. /\ g \in [Places -> Places \cup {Hole}]
      /\ \A p \in Places : g[p] = IF at <= p /\ p < at + n THEN part[p - at + 1] ELSE f[p]
  <2>1. /\ g \in [Places -> Places \cup {Hole}]
        /\ \A p \in Places : g[p] = IF at <= p /\ p < at + Len(part) THEN part[p - at + 1] ELSE f[p]
    BY <1>2, OverlayFacts
  <2> QED BY <1>2, <2>1
<1>4. \A p \in Places : g[p] = IF at <= p /\ p < at + n THEN data[p - at + 1] ELSE f[p]
  BY <1>1, <1>2, <1>3
<1> HIDE DEF g
<1>5. /\ Overlay(g, at, data) \in [Places -> Places \cup {Hole}]
      /\ \A p \in Places : Overlay(g, at, data)[p] = IF at <= p /\ p < at + Len(data) THEN data[p - at + 1] ELSE g[p]
  BY <1>3, OverlayFacts
<1>6. /\ Overlay(f, at, data) \in [Places -> Places \cup {Hole}]
      /\ \A p \in Places : Overlay(f, at, data)[p] = IF at <= p /\ p < at + Len(data) THEN data[p - at + 1] ELSE f[p]
  BY OverlayFacts
<1>7. \A p \in Places : Overlay(g, at, data)[p] = Overlay(f, at, data)[p]
  BY <1>1, <1>4, <1>5, <1>6
<1>8. Overlay(g, at, data) = Overlay(f, at, data)
  BY <1>5, <1>6, <1>7, SameFile
<1> QED BY <1>3, <1>4, <1>8 DEF g, part

\* What the process has written changes with a write only, unless it is killed.
LEMMA ContentUnlessWrite ==
  ASSUME TypeOK, [Next]_vars, ~\E b \in Blocks : Write(b), ~Die
  PROVE  Content' = Content
<1>1. /\ Content \in [Places -> Places \cup {Hole}] /\ disk \in [Places -> Places \cup {Hole}]
      /\ buffer.at \in Nat /\ buffer.data \in Bytes
  BY ContentType DEF TypeOK, FileTypes
<1>2. CASE UNCHANGED <<disk, buffer>>
  BY <1>2 DEF Content
<1>3. CASE JoinThreads \/ \E b \in Blocks : Seek(b)
  <2>1. disk' = Content /\ buffer' = Empty
    BY <1>3 DEF JoinThreads, Seek
  <2>2. Content' = Overlay(disk', buffer'.at, buffer'.data)
    BY DEF Content
  <2> QED BY <1>1, <2>1, <2>2, OverlayNothing
<1> QED BY <1>2, <1>3, Frames DEF Kill, BrokenPipe

\* A killed process takes no step.
LEMMA KilledStays ==
  ASSUME [Next]_vars, mainPc = "killed"
  PROVE  UNCHANGED vars
<1>1. Next => Running
  BY DEF Next, DownloadFile, DownloadBlock, ServerSubThread, CentralServer, Outside, CreateThread,
         JoinThreads, Rename, Kill, BrokenPipe, Ask, RecvAnswer, RecvNoAnswer, Connect, RecvChunk,
         RecvNoChunk, Seek, Write, ReadMeta, OpenMeta, WriteMeta, Tell, RecvThanks, RecvNoThanks,
         PeerOpen, PeerSend, PeerDies, PeerRenames, AnswerRequest, AnswerSuccess, CentralCloses
<1> QED BY <1>1 DEF Running

\* A step that does not kill the process leaves it alive.
LEMMA AliveStays ==
  ASSUME [Next]_vars, mainPc # "killed", ~Die
  PROVE  mainPc' # "killed"
BY Frames DEF CreateThread, JoinThreads, Rename, Kill, BrokenPipe

\* What a kill takes from the file is in the buffer of the stream, the bytes of
\* one block.
LEMMA Lost ==
  ASSUME TypeOK, Buffered, Die
  PROVE  /\ Content' = disk'
         /\ \A p \in Places : disk'[p] = p => Content[p] = p
         /\ \E c \in Blocks : \A p \in Places \ BytesOf(c) : disk'[p] = Content[p]
<1>1. PICK n \in 0..Len(buffer.data) : disk' = Overlay(disk, buffer.at, SubSeq(buffer.data, 1, n))
  BY DEF Die
<1>2. /\ disk \in [Places -> Places \cup {Hole}] /\ buffer.at \in Nat /\ buffer.data \in Bytes
      /\ Len(buffer.data) \in Nat /\ \A p \in Places : p \in Nat
  BY Sizes DEF TypeOK, FileTypes, Bytes, Places
<1>3. /\ disk' \in [Places -> Places \cup {Hole}]
      /\ \A p \in Places : disk'[p] = IF buffer.at <= p /\ p < buffer.at + n
                                       THEN buffer.data[p - buffer.at + 1] ELSE disk[p]
  BY <1>1, <1>2, OverlayTwice
<1>4. Content' = disk'
  <2>1. Content' = Overlay(disk', buffer'.at, buffer'.data) /\ buffer' = Empty
    BY DEF Content, Die
  <2> QED BY <1>3, <2>1, OverlayNothing
<1>5. \A p \in Places : ~(buffer.at <= p /\ p < buffer.at + Len(buffer.data)) => disk'[p] = Content[p]
  BY <1>1, <1>2, <1>3, ContentFacts
<1>6. \A p \in Places : disk'[p] = p => Content[p] = p
  <2> SUFFICES ASSUME NEW p \in Places, disk'[p] = p PROVE Content[p] = p
    OBVIOUS
  <2>1. CASE buffer.at <= p /\ p < buffer.at + Len(buffer.data)
    BY <2>1, BufferFacts, ContentFacts
  <2> QED BY <1>5, <2>1
<1>7. \E c \in Blocks : \A p \in Places \ BytesOf(c) : disk'[p] = Content[p]
  <2>1. CASE \E p \in Places : buffer.at <= p /\ p < buffer.at + Len(buffer.data)
    <3>1. PICK c \in Blocks : \A q \in Places :
                buffer.at <= q /\ q < buffer.at + Len(buffer.data) => q \in BytesOf(c)
      BY <2>1, BufferFacts
    <3> QED BY <1>5, <3>1
  <2>2. CASE ~\E p \in Places : buffer.at <= p /\ p < buffer.at + Len(buffer.data)
    <3>1. 0 \in Blocks
      BY Sizes DEF Blocks
    <3> QED BY <1>5, <2>2, <3>1
  <2> QED BY <2>1, <2>2
<1> QED BY <1>4, <1>6, <1>7

\* A write puts the bytes of a sub-block at their places.
LEMMA ContentAfterWrite ==
  ASSUME TypeOK, StreamOwner, Counting, NEW b \in Blocks, InOrder(b), Write(b)
  PROVE  /\ \A p \in Places : PlaceOf(b) <= p /\ p < PlaceOf(b) + Len(chunk[b]) =>
                                 Content'[p] = p /\ p \in BytesOf(b)
         /\ \A p \in Places : ~(PlaceOf(b) <= p /\ p < PlaceOf(b) + Len(chunk[b])) =>
                                 Content'[p] = Content[p]
<1> DEFINE P == PlaceOf(b)
           C == Len(chunk[b])
<1>1. Content \in [Places -> Places \cup {Hole}] /\ P \in Nat /\ chunk[b] \in Bytes /\ C \in Nat
  BY ContentType, BlockFacts DEF TypeOK
<1>2. Content' = Overlay(Content, P, chunk[b])
  <2>1. Content' = Overlay(disk', buffer'.at, buffer'.data)
    BY DEF Content
  <2> QED BY <2>1, WriteFacts
<1>3. \A p \in Places : Content'[p] = IF P <= p /\ p < P + C THEN chunk[b][p - P + 1] ELSE Content[p]
  BY <1>1, <1>2, OverlayFacts
<1>4. \A i \in 1..C : chunk[b][i] = P + i - 1 /\ chunk[b][i] \in BytesOf(b)
  BY WriteFacts
<1> HIDE DEF P, C
<1>5. ASSUME NEW p \in Places, P <= p, p < P + C PROVE chunk[b][p - P + 1] = p /\ p \in BytesOf(b)
  <2>1. p \in Nat
    BY Sizes DEF Places
  <2>2. p - P + 1 \in 1..C /\ P + (p - P + 1) - 1 = p
    BY <1>1, <1>5, <2>1
  <2> QED BY <1>4, <2>2
<1> QED BY <1>3, <1>5 DEF P, C

\* A step keeps what was written before a thread's place.
LEMMA WrittenStep ==
  ASSUME TypeOK, StreamOwner, Counting, [Next]_vars, \A c \in Blocks : InOrder(c),
         ~Die, NEW b \in Blocks, Written(b)
  PROVE  Written(b)'
<1>1. ASSUME NEW c \in Blocks, Write(c) PROVE Written(b)'
  <2> SUFFICES ASSUME NEW p \in BytesOf(b), p < PlaceOf(b)' PROVE Content'[p] = p
    BY DEF Written
  <2>1. p \in Places /\ p \in Nat
    BY Sizes DEF BytesOf, Places
  <2>2. CASE PlaceOf(c) <= p /\ p < PlaceOf(c) + Len(chunk[c])
    BY <1>1, <2>1, <2>2, ContentAfterWrite
  <2>3. CASE ~(PlaceOf(c) <= p /\ p < PlaceOf(c) + Len(chunk[c]))
    <3>1. Content'[p] = Content[p]
      BY <1>1, <2>1, <2>3, ContentAfterWrite
    <3>2. p < PlaceOf(b)
      <4>1. CASE b # c
        BY <1>1, <4>1, WriteFacts
      <4>2. CASE b = c
        <5>1. /\ PlaceOf(b)' = PlaceOf(b) + MaxMessage /\ PlaceOf(b) \in Nat /\ MaxMessage \in Nat
              /\ Len(chunk[b]) \in Nat
              /\ Len(chunk[b]) # MaxMessage => PlaceOf(b) + Len(chunk[b]) >= End(b)
          BY <1>1, <4>2, WriteFacts, Sizes
        <5>2. p < End(b) /\ End(b) \in Nat
          BY BlockFacts
        <5> QED BY <2>1, <2>3, <4>2, <5>1, <5>2
      <4> QED BY <4>1, <4>2
    <3> QED BY <3>1, <3>2 DEF Written
  <2> QED BY <2>2, <2>3
<1>2. CASE ~\E c \in Blocks : Write(c)
  <2>1. Content' = Content
    BY <1>2, ContentUnlessWrite
  <2>2. PlaceOf(b)' = PlaceOf(b)
    BY <1>2, Frames DEF PlaceOf
  <2> QED BY <2>1, <2>2 DEF Written
<1> QED BY <1>1, <1>2

\* A step keeps every byte of the part file at its place.
LEMMA FileStep ==
  ASSUME TypeOK, StreamOwner, Counting, [Next]_vars, \A c \in Blocks : InOrder(c), Buffered, OnDisk
  PROVE  Buffered' /\ OnDisk'
<1>1. WrittenInPlace
  BY ContentRight
<1>2. ASSUME NEW b \in Blocks, Write(b) PROVE Buffered' /\ OnDisk'
  <2>1. /\ buffer' = [at |-> PlaceOf(b), data |-> chunk[b]] /\ disk' = Content
        /\ \A i \in 1..Len(chunk[b]) : chunk[b][i] = PlaceOf(b) + i - 1 /\ chunk[b][i] \in BytesOf(b)
    BY <1>2, WriteFacts
  <2>2. buffer'.at = PlaceOf(b) /\ buffer'.data = chunk[b]
    BY <2>1
  <2>3. Buffered'
    BY <2>1, <2>2 DEF Buffered
  <2> QED BY <1>1, <2>1, <2>3 DEF OnDisk, WrittenInPlace
<1>3. CASE JoinThreads \/ \E b \in Blocks : Seek(b)
  <2>1. disk' = Content /\ buffer'.data = <<>>
    BY <1>3 DEF JoinThreads, Seek, Empty
  <2> QED BY <1>1, <2>1 DEF OnDisk, WrittenInPlace, Buffered
<1>4. CASE Die
  <2>1. PICK n \in 0..Len(buffer.data) :
          disk' = Overlay(disk, buffer.at, SubSeq(buffer.data, 1, n)) /\ buffer'.data = <<>>
    BY <1>4 DEF Die, Empty
  <2>2. /\ disk \in [Places -> Places \cup {Hole}] /\ buffer.at \in Nat /\ buffer.data \in Bytes
        /\ Len(buffer.data) \in Nat
    BY DEF TypeOK, FileTypes, Bytes
  <2>3. \A p \in Places : disk'[p] = IF buffer.at <= p /\ p < buffer.at + n
                                     THEN buffer.data[p - buffer.at + 1] ELSE disk[p]
    BY <2>1, <2>2, OverlayTwice
  <2>4. \A p \in Places : disk'[p] \in {Hole, p}
    <3> SUFFICES ASSUME NEW p \in Places PROVE disk'[p] \in {Hole, p}
      OBVIOUS
    <3>1. CASE buffer.at <= p /\ p < buffer.at + n
      <4>1. p < buffer.at + Len(buffer.data)
        BY <2>1, <2>2, <3>1, Sizes DEF Places
      <4> QED BY <2>3, <3>1, <4>1, BufferFacts
    <3>2. CASE ~(buffer.at <= p /\ p < buffer.at + n)
      BY <2>3, <3>2 DEF OnDisk
    <3> QED BY <3>1, <3>2
  <2> QED BY <2>1, <2>4 DEF OnDisk, Buffered
<1>5. CASE UNCHANGED <<disk, buffer>>
  BY <1>5 DEF OnDisk, Buffered
<1> QED BY <1>2, <1>3, <1>4, <1>5, Frames DEF Kill, BrokenPipe

-----------------------------------------------------------------------------
(* Theorems *)

\* What DownloadFile announces is what it has found in the file.
Announced == mainPc = "done" => (result = "ready" <=> \A p \in Places : disk[p] = p)

\* A step keeps what was announced true of the file: nobody writes to it after.
LEMMA AnnouncedStep == Announced /\ [Next]_vars => Announced'
<1> SUFFICES ASSUME Announced, [Next]_vars, mainPc' = "done"
             PROVE  result' = "ready" <=> \A p \in Places : disk'[p] = p
  BY DEF Announced
<1>1. CASE Rename
  <2>1. UNCHANGED disk /\ result' = IF \A p \in Places : disk[p] = p THEN "ready" ELSE "error"
    BY <1>1 DEF Rename, fileVars
  <2> QED BY <2>1
<1>2. CASE ~Rename
  <2>1. UNCHANGED <<mainPc, result>>
    BY <1>2, Frames DEF CreateThread, JoinThreads, Kill, BrokenPipe, Die
  <2>2. UNCHANGED disk
    BY <2>1, Frames DEF JoinThreads, Kill, BrokenPipe, Seek, Write, Running
  <2> QED BY <2>1, <2>2 DEF Announced
<1> QED BY <1>1, <1>2

\* The control invariant, with what DownloadFile announces at its end.
THEOREM Download == Spec => [](ControlInv /\ Announced)
<1>1. Init => Announced
  BY DEF Init, Announced
<1> QED BY <1>1, ControlInit, ControlStep, AnnouncedStep, PTL DEF Spec

\* DownloadFile says "ready" at its end exactly when every byte written by its
\* threads has reached the file, for every set of failures: the stream is closed
\* before the checksum is taken (DownloadFile.c).
THEOREM ReadyMeansStored == Spec => []ReadyIffStored
<1>1. ASSUME ControlInv, Announced, mainPc = "done"
      PROVE  result = "ready" <=> \A b \in Blocks : Stored(b)
  <2>1. buffer.data = <<>> /\ TypeOK /\ (result = "ready" <=> \A p \in Places : disk[p] = p)
    BY <1>1 DEF ControlInv, Creation, Announced
  <2>2. \A p \in Places : Content[p] = disk[p]
    <3>1. Len(buffer.data) = 0
      BY <2>1
    <3>2. \A p \in Places : p \in Nat
      BY Sizes DEF Places
    <3> QED BY <2>1, <3>1, <3>2, ContentFacts
  <2>3. (\A p \in Places : Content[p] = p) <=> \A b \in Blocks : Stored(b)
    BY BlocksCover DEF Stored, BytesOf
  <2> QED BY <2>1, <2>2, <2>3
<1>2. ControlInv /\ Announced => ReadyIffStored
  BY <1>1 DEF ReadyIffStored
<1> QED BY <1>2, Download, PTL

\* The invariant about bytes holds at first.
LEMMA BytesInit == Init => BytesInv
<1> SUFFICES ASSUME Init PROVE BytesInv
  OBVIOUS
<1>1. buffer.data = <<>> /\ OnDisk
  BY DEF Init, Empty, OnDisk
<1>2. Buffered
  BY <1>1 DEF Buffered
<1>3. ASSUME NEW b \in Blocks PROVE InOrder(b) /\ Written(b)
  <2>1. sub[b] = 0 /\ chunk[b] = <<>> /\ stream[b] = <<>> /\ serving[b] = "none"
    BY DEF Init
  <2>2. Len(chunk[b]) = 0 /\ Len(stream[b]) = 0 /\ Multiple(0) /\ MaxMessage \in Nat
    BY <2>1, MultipleFacts, Sizes
  <2>3. PlaceOf(b) = b * BlockSize
    BY <2>1, PlaceFacts, Sizes DEF PlaceOf
  <2>4. \A p \in BytesOf(b) : ~(p < PlaceOf(b))
    BY <2>3, PlaceFacts DEF BytesOf, Places
  <2> QED BY <2>1, <2>2, <2>4 DEF InOrder, Written
<1> QED BY <1>1, <1>2, <1>3 DEF BytesInv, Init

\* While the process lives, a block whose thread is past its last write, and one
\* the metadata lists or will list again, is stored.
LEMMA ListedStored ==
  ASSUME ControlInv, BytesInv, mainPc # "killed",
         NEW b \in Blocks, pc[b] \in {"relist", "rewrite"} \/ b \in Known
  PROVE  Stored(b)
BY CountedStored DEF ControlInv, BytesInv, Counting

\* A step leaves at most one listed block damaged, when the process is killed.
LEMMA DamageStep ==
  ASSUME ControlInv, BytesInv, [Next]_vars, mainPc' = "killed"
  PROVE  (\E c \in Blocks : Damaged \subseteq {c})'
<1>1. CASE mainPc = "killed"
  <2>1. UNCHANGED <<disk, meta>>
    BY <1>1, KilledStays DEF vars, fileVars
  <2> QED BY <1>1, <2>1 DEF BytesInv, Damaged
<1>2. CASE mainPc # "killed"
  <2>1. Die /\ TypeOK /\ Buffered /\ meta \subseteq Blocks
    BY <1>2, AliveStays DEF ControlInv, BytesInv, TypeOK, FileTypes
  <2>2. meta' = meta
    BY <2>1 DEF Die
  <2>3. PICK c \in Blocks : \A p \in Places \ BytesOf(c) : disk'[p] = Content[p]
    BY <2>1, Lost
  <2>4. ASSUME NEW b \in meta \ {c}, NEW p \in BytesOf(b) PROVE disk'[p] = p
    <3>1. p \in Places /\ p \notin BytesOf(c) /\ b \in Blocks
      BY <2>1, BlocksApart DEF BytesOf
    <3>2. Content[p] = p
      BY <1>2, <3>1, ListedStored DEF Stored, Known
    <3> QED BY <2>3, <3>1, <3>2
  <2> QED BY <2>2, <2>4 DEF Damaged
<1> QED BY <1>1, <1>2

\* A step keeps the invariant about bytes, if a recv returns whole messages.
LEMMA BytesStep ==
  ASSUME "short" \notin Failures
  PROVE  ControlInv /\ BytesInv /\ [Next]_vars => BytesInv'
<1> SUFFICES ASSUME ControlInv, BytesInv, [Next]_vars PROVE BytesInv'
  OBVIOUS
<1>1. TypeOK /\ StreamOwner /\ Counting /\ Buffered /\ OnDisk /\ \A b \in Blocks : InOrder(b)
  BY DEF ControlInv, BytesInv
<1>2. \A b \in Blocks : InOrder(b)'
  BY <1>1, InOrderStep
<1>3. Buffered' /\ OnDisk'
  BY <1>1, FileStep
<1>4. ASSUME mainPc' # "killed", NEW b \in Blocks PROVE Written(b)'
  <2>1. mainPc # "killed" /\ ~Die
    BY <1>4, KilledStays DEF vars, mainVars, Die
  <2> QED BY <1>1, <2>1, WrittenStep DEF BytesInv
<1> QED BY <1>2, <1>3, <1>4, DamageStep DEF BytesInv

\* The invariant about bytes, unless recv returns less than was sent: the run
\* transfer_short shows what happens then.
THEOREM BytesInPlace ==
  ASSUME "short" \notin Failures
  PROVE  Spec => [](ControlInv /\ BytesInv)
BY ControlInit, ControlStep, BytesInit, BytesStep, PTL DEF Spec

\* "write response to file on right position" (DownloadFile.c): whatever the
\* threads have written is the byte of the file that belongs at its place, with
\* any number of threads on one stream, unless recv returns less than was sent.
THEOREM EveryByteInItsPlace ==
  ASSUME "short" \notin Failures
  PROVE  Spec => []WrittenInPlace
<1>1. ControlInv /\ BytesInv => WrittenInPlace
  BY ContentRight DEF ControlInv, BytesInv
<1> QED BY <1>1, BytesInPlace, PTL

\* Killed at any moment, the client finds at most one of the blocks its metadata
\* lists damaged on disk: the one stdio still had in its buffer.
THEOREM OneListedBlockAtRisk ==
  ASSUME "short" \notin Failures
  PROVE  Spec => []OneBlockAtRisk
<1>1. BytesInv => OneBlockAtRisk
  <2> SUFFICES ASSUME BytesInv, mainPc = "killed" PROVE Cardinality(Damaged) <= 1
    BY DEF OneBlockAtRisk
  <2>1. PICK c \in Blocks : Damaged \subseteq {c}
    BY DEF BytesInv
  <2>2. Damaged = {} \/ Damaged = {c}
    BY <2>1
  <2>3. Cardinality({}) = 0 /\ Cardinality({c}) = 1
    BY FS_EmptySet, FS_Singleton
  <2> QED BY <2>2, <2>3
<1> QED BY <1>1, BytesInPlace, PTL

\* A thread waits for bytes that never come only from a peer that could not open
\* the file: both sides count the same messages, where each has a byte.
THEOREM SilenceIsExplained ==
  ASSUME "short" \notin Failures
  PROVE  Spec => []SilenceExplained
<1>1. ASSUME ControlInv, BytesInv, LastMessageHasByte, NEW b \in Blocks, WaitsInVain(b)
      PROVE  serving[b] = "silent"
  <2> SUFFICES ASSUME serving[b] = "served" PROVE FALSE
    BY <1>1 DEF WaitsInVain
  <2>1. TypeOK /\ sub[b] < SubBlocks /\ chunk[b] = <<>> /\ stream[b] = <<>> /\ Front(b) >= End(b)
    BY <1>1 DEF ControlInv, BytesInv, Counting, WaitsInVain, InOrder
  <2>2. Front(b) = PlaceOf(b) /\ PlaceOf(b) \in Nat /\ sub[b] \in Nat
    <3>1. Len(chunk[b]) = 0 /\ Len(stream[b]) = 0
      BY <2>1
    <3>2. PlaceOf(b) \in Nat /\ Front(b) = PlaceOf(b) + Len(chunk[b]) + Len(stream[b])
      BY <2>1, BlockFacts
    <3>3. sub[b] \in Nat
      BY <2>1, Sizes DEF TypeOK, ThreadTypes
    <3> QED BY <3>1, <3>2, <3>3
  <2>3. PlaceOf(b) < b * BlockSize + BlockSize
    BY <2>1, <2>2, SubBegins DEF PlaceOf
  <2>4. PlaceOf(b) < Size
    <3>1. sub[b] * MaxMessage <= (SubBlocks - 1) * MaxMessage
      BY <2>1, <2>2, SubBegins
    <3>2. b * BlockSize + ((SubBlocks - 1) * MaxMessage) < Size
      BY <1>1 DEF LastMessageHasByte, SubBlocks
    <3>3. b * BlockSize \in Nat /\ sub[b] * MaxMessage \in Nat /\ (SubBlocks - 1) * MaxMessage \in Nat
      BY <2>2, PlaceFacts, Sizes
    <3> DEFINE x == b * BlockSize
               y == sub[b] * MaxMessage
               z == (SubBlocks - 1) * MaxMessage
    <3>4. PlaceOf(b) = x + y
      BY DEF PlaceOf
    <3> HIDE DEF x, y, z
    <3> QED BY <3>1, <3>2, <3>3, <3>4, Sizes DEF x, y, z
  <2>5. PlaceOf(b) < End(b) /\ End(b) \in Nat
    BY <2>1, <2>3, <2>4, BlockFacts DEF End, LeastOf
  <2> QED BY <2>1, <2>2, <2>5
<1>2. ControlInv /\ BytesInv => SilenceExplained
  BY <1>1 DEF SilenceExplained
<1> QED BY <1>2, BytesInPlace, PTL

-----------------------------------------------------------------------------
(* The promise *)

\* A write leaves the other blocks as they are, and its own stored if it was.
LEMMA StoredAfterWrite ==
  ASSUME TypeOK, StreamOwner, Counting, NEW b \in Blocks, InOrder(b), Write(b)
  PROVE  /\ \A c \in Blocks \ {b} : Stored(c)' <=> Stored(c)
         /\ Stored(b) => Stored(b)'
<1>1. ASSUME NEW c \in Blocks \ {b}, NEW p \in BytesOf(c) PROVE Content'[p] = Content[p]
  <2>1. p \notin BytesOf(b) /\ p \in Places
    BY BlocksApart DEF BytesOf
  <2> QED BY <2>1, ContentAfterWrite
<1>2. ASSUME NEW p \in BytesOf(b), Content[p] = p PROVE Content'[p] = p
  <2>1. p \in Places
    BY DEF BytesOf
  <2> QED BY <1>2, <2>1, ContentAfterWrite
<1> QED BY <1>1, <1>2 DEF Stored

\* What the promise is read off.
PromiseVars == <<{b \in Blocks : Stored(b)}, meta, Kept, reported, mainPc # "killed">>

\* A step of a download is a step of the promise, or none.
LEMMA PromiseStep ==
  ASSUME ControlInv, BytesInv, [Next]_vars
  PROVE  [Promise!Next]_PromiseVars
<1> DEFINE stored == {b \in Blocks : Stored(b)}
<1>1. /\ TypeOK /\ Creation /\ Listing /\ Conversation /\ StreamOwner /\ Counting /\ Buffered
      /\ meta \subseteq Blocks /\ \A b \in Blocks : InOrder(b)
  BY DEF ControlInv, BytesInv, TypeOK, FileTypes
<1>2. CASE mainPc = "killed"
  <2>1. UNCHANGED <<disk, buffer, meta, pc, copy, reported, mainPc>>
    BY <1>2, KilledStays DEF vars, mainVars, fileVars, threadVars, serverVars
  <2>2. stored' = stored /\ Kept' = Kept
    BY <2>1 DEF Stored, Content, Kept, Rewritten
  <2> QED BY <2>1, <2>2 DEF PromiseVars
<1>3. CASE mainPc # "killed" /\ Die
  <2>1. mainPc' = "killed" /\ UNCHANGED <<meta, reported>> /\ Kept' = {}
    BY <1>3 DEF Die, Kept, serverVars
  <2>2. PICK c \in Blocks : \A p \in Places \ BytesOf(c) : disk'[p] = Content[p]
    BY <1>1, <1>3, Lost
  <2>3. Content' = disk' /\ \A p \in Places : disk'[p] = p => Content[p] = p
    BY <1>1, <1>3, Lost
  <2>4. ASSUME NEW b \in Blocks PROVE Stored(b)' => Stored(b)
    BY <2>3 DEF Stored, BytesOf
  <2>5. ASSUME NEW b \in Blocks \ {c} PROVE Stored(b) => Stored(b)'
    <3>1. \A p \in BytesOf(b) : p \in Places \ BytesOf(c)
      BY BlocksApart DEF BytesOf
    <3> QED BY <2>2, <2>3, <3>1 DEF Stored
  <2>6. stored' = stored \/ (c \in stored /\ stored' = stored \ {c})
    BY <2>4, <2>5
  <2>7. \E lost \in {{}} \cup {{b} : b \in stored} : stored' = stored \ lost
    BY <2>6
  <2> QED BY <1>3, <2>1, <2>7 DEF Promise!Next, Promise!Die
<1>4. CASE mainPc # "killed" /\ ~Die
  <2>1. mainPc' # "killed" /\ Kept = Rewritten /\ Kept' = Rewritten'
    BY <1>4, AliveStays DEF Kept
  <2>2. (meta' = meta /\ Kept' = Kept) \/ \E b \in Blocks : OpenMeta(b) \/ WriteMeta(b)
    BY <1>1, <2>1, KnownStep
  <2>3. ASSUME NEW b \in Blocks, Write(b) PROVE [Promise!Next]_PromiseVars
    <3>1. UNCHANGED <<meta, reported>> /\ pc[b] = "write" /\ \E l \in {"list", "recv"} : pc' = [pc EXCEPT ![b] = l]
      BY <2>3 DEF Write, Goto, serverVars
    <3>2. \A c \in Blocks : ~OpenMeta(c) /\ ~WriteMeta(c)
      BY <1>1, <3>1 DEF OpenMeta, WriteMeta, Goto, TypeOK, ThreadTypes
    <3>3. Kept' = Kept
      BY <2>2, <3>2
    <3>4. stored' = stored \/ (b \notin stored /\ stored' = stored \cup {b})
      BY <1>1, <2>3, StoredAfterWrite
    <3> QED BY <1>4, <2>1, <3>1, <3>3, <3>4 DEF PromiseVars, Promise!Next, Promise!Store
  <2>4. CASE ~\E b \in Blocks : Write(b)
    <3>1. stored' = stored
      BY <1>1, <1>4, <2>4, ContentUnlessWrite DEF Stored
    <3>2. ASSUME NEW b \in Blocks, OpenMeta(b) PROVE [Promise!Next]_PromiseVars
      <4>1. Kept = {} /\ Kept' = meta /\ meta' = {} /\ UNCHANGED reported
        BY <1>1, <2>1, <3>2, KnownStep DEF OpenMeta, serverVars
      <4> QED BY <1>4, <2>1, <3>1, <4>1 DEF Promise!Next, Promise!Open
    <3>3. ASSUME NEW b \in Blocks, WriteMeta(b) PROVE [Promise!Next]_PromiseVars
      <4>1. meta = {} /\ Kept' = {} /\ meta' = Kept \cup {b} /\ UNCHANGED reported /\ pc[b] = "rewrite"
        BY <1>1, <2>1, <3>3, KnownStep DEF WriteMeta, serverVars
      <4>2. b \in stored /\ b \notin Kept
        BY <1>1, <1>4, <2>1, <4>1, ListedStored DEF Listing, Known
      <4> QED BY <1>4, <2>1, <3>1, <4>1, <4>2 DEF Promise!Next, Promise!List
    <3>4. CASE AnswerSuccess
      <4>1. UNCHANGED <<meta, Kept>> /\ reported' = reported \cup {Head(asked).by}
        BY <2>1, <3>4 DEF AnswerSuccess, threadVars, Rewritten
      <4>2. Head(asked).by \in meta \cup Kept
        BY <1>1, <2>1, <3>4, ReportedWaits DEF Listing, Known
      <4>3. CASE Head(asked).by \in reported
        BY <1>4, <2>1, <3>1, <4>1, <4>3 DEF PromiseVars
      <4>4. CASE Head(asked).by \notin reported
        BY <1>4, <2>1, <3>1, <4>1, <4>2, <4>4 DEF Promise!Next, Promise!Tell
      <4> QED BY <4>3, <4>4
    <3>5. CASE UNCHANGED <<meta, Kept, reported>>
      BY <1>4, <2>1, <3>1, <3>5 DEF PromiseVars
    <3> QED BY <2>2, <3>2, <3>3, <3>4, <3>5, Frames
  <2> QED BY <2>3, <2>4
<1> QED BY <1>2, <1>3, <1>4

\* A download keeps the promise of BlockByBlock.  While the process lives, blocks
\* are stored one at a time, one is listed when it is stored, reported when it was
\* listed, and what was listed is listed again when the metadata has been
\* rewritten.  A kill takes at most one stored block, the one in the buffer of the
\* stream, and the blocks listed before if it comes while the metadata is
\* rewritten (DownloadFile.c).
THEOREM DownloadKeepsPromise ==
  ASSUME "short" \notin Failures
  PROVE  Spec => KeepsPromise
<1>1. Init => Promise!Init
  BY DEF Init, Promise!Init, Kept, Rewritten
<1>2. ControlInv /\ BytesInv /\ [Next]_vars => [Promise!Next]_PromiseVars
  BY PromiseStep
<1>3. Spec => Promise!Spec
  BY <1>1, <1>2, BytesInPlace, PTL DEF Spec, Promise!Spec, PromiseVars
<1> QED BY <1>3 DEF KeepsPromise
===============================================================================
