--------------------------- MODULE MessagesProofs ----------------------------
(***************************************************************************)
(* Proofs about Messages for any size of the buffer, any hello messages    *)
(* and number of messages, and any library that reads what it has written  *)
(* and nothing shorter (JsonAssumption): which messages the receive loops  *)
(* find, and which requests their replies belong to.                       *)
(***************************************************************************)
EXTENDS Messages, SequenceTheorems, WellFoundedInduction, TLAPS

(* The inductive invariant *)

\* A sequence, of whatever elements.
IsSeq(s) == s \in Seq({s[i] : i \in DOMAIN s})

\* The types, and the sizes of the buffers.
Typed ==
  /\ conn \in {"commands", "download", "block"} /\ hello \in Hellos
  /\ IsSeq(toServer) /\ IsSeq(message) /\ IsSeq(handled) /\ IsSeq(answers)
  /\ counter \in Nat /\ (conn = "block" => counter = 0 /\ sent <= 1)
  /\ torn \in BOOLEAN /\ early \in BOOLEAN /\ cut \in BOOLEAN
  /\ client = "waiting" => Len(answers) < sent
  /\ TypeOK

\* What FoundInOrder takes as given: what the two ends have done to each other up to now.
InOrder == Orderly /\ (cut => conn = "commands")

\* What the server has taken for messages are the first of the messages.
HandledInOrder == Len(handled) <= sent /\ \A k \in DOMAIN handled : handled[k] = Sent(k)

\* The text of the k-th message.
Message(k) == Text(Sent(k))

\* The length of the full reads in the buffer.
Full == counter * BufLen

\* The p-th token of what the server has not handled: it is in the buffer, or still under way.
Unhandled(p) == IF p <= Full THEN message[p] ELSE toServer[p - Full]

\* The buffer begins with the message after the first j, and the messages sent since then follow
\* each other there and on the connection.
FramedAt(j) ==
  /\ EndOf[sent] - Len(toServer) - Full = EndOf[j]
  /\ Len(handled) <= j /\ (conn # "commands" => Len(handled) = j)
  /\ \A k \in (j + 1)..sent : \A i \in 1..Len(Message(k)) :
       Unhandled(EndOf[k - 1] - EndOf[j] + i) = Message(k)[i]
Framed == \E j \in 0..sent : FramedAt(j)

\* No command is sent before the hello message was handled.
HelloFirst == conn = "commands" /\ handled = <<>> => sent <= 1

\* The client reads its replies whole, and its requests are for replies.
Whole == ~ cut /\ conn # "block"

\* While replies are read whole there is one request at a time, and its reply is on the
\* connection once the server has handled it.
Turn ==
  /\ client = "ready" => /\ toClient = <<>>
                         /\ Len(handled) = sent \/ (conn = "commands" /\ sent = 1 /\ handled = <<>>)
  /\ client = "waiting" => /\ sent >= 1 /\ NeedsReply(sent)
                           /\ \/ Len(handled) = sent /\ \E reply \in RepliesTo(sent) : toClient = Text(reply)
                              \/ Len(handled) = sent - 1 /\ toClient = <<>>
  /\ Len(handled) + 1 >= sent

\* The number of replies the client has asked for.
Asked == IF conn = "commands" /\ sent > 0 THEN sent - 1 ELSE sent
\* The client has the replies to its requests, but for the one it waits for.
Answered ==
  /\ client = "ready" => Len(answers) = Asked
  /\ client = "waiting" => Len(answers) + 1 = Asked
  /\ \A i \in DOMAIN answers : answers[i] \in RepliesTo(IF conn = "commands" THEN i + 1 ELSE i)

\* The server has met nothing that it could not handle, and handled the messages in order.
Handled == InOrder => server # "crashed" /\ HandledInOrder

\* While it serves the connection what it finds next is the next message, and the replies match.
Serving ==
  InOrder /\ server = "serving" =>
    /\ Framed /\ HelloFirst
    /\ IsSeq(toClient) /\ IsSeq(response)
    /\ Whole => Turn /\ Answered

MessagesInv == Typed /\ Handled /\ Serving

-----------------------------------------------------------------------------
(* Sequences of whatever elements *)

LEMMA SeqIsSeq ==
  ASSUME NEW S, NEW s \in Seq(S)
  PROVE  IsSeq(s)
<1>1. Len(s) \in Nat /\ DOMAIN s = 1..Len(s) /\ s \in [1..Len(s) -> S]
  BY LenProperties
<1>2. s \in [1..Len(s) -> {s[i] : i \in DOMAIN s}]
  BY <1>1
<1> QED BY <1>1, <1>2, SeqDef DEF IsSeq

LEMMA IsSeqLen ==
  ASSUME NEW s, IsSeq(s)
  PROVE  Len(s) \in Nat /\ DOMAIN s = 1..Len(s)
BY LenProperties DEF IsSeq

\* Two of them are sequences of the same kind of elements.
LEMMA CommonSeq ==
  ASSUME NEW s, NEW t, IsSeq(s), IsSeq(t)
  PROVE  \E S : s \in Seq(S) /\ t \in Seq(S)
<1> DEFINE S == {s[i] : i \in DOMAIN s} \cup {t[i] : i \in DOMAIN t}
<1>1. s \in Seq(S)
  <2>1. s \in Seq({s[i] : i \in DOMAIN s}) /\ {s[i] : i \in DOMAIN s} \subseteq S
    BY DEF IsSeq
  <2> HIDE DEF S
  <2> QED BY <2>1, SeqMonotonic
<1>2. t \in Seq(S)
  <2>1. t \in Seq({t[i] : i \in DOMAIN t}) /\ {t[i] : i \in DOMAIN t} \subseteq S
    BY DEF IsSeq
  <2> HIDE DEF S
  <2> QED BY <2>1, SeqMonotonic
<1> HIDE DEF S
<1> QED BY <1>1, <1>2

LEMMA ConcatIsSeq ==
  ASSUME NEW s, NEW t, IsSeq(s), IsSeq(t)
  PROVE  /\ IsSeq(s \o t) /\ Len(s \o t) = Len(s) + Len(t)
         /\ \A i \in 1..(Len(s) + Len(t)) : (s \o t)[i] = IF i <= Len(s) THEN s[i] ELSE t[i - Len(s)]
<1>1. PICK S : s \in Seq(S) /\ t \in Seq(S)
  BY CommonSeq
<1> QED BY <1>1, ConcatProperties, SeqIsSeq

LEMMA AppendIsSeq ==
  ASSUME NEW s, NEW e, IsSeq(s)
  PROVE  /\ IsSeq(Append(s, e)) /\ Len(Append(s, e)) = Len(s) + 1
         /\ \A i \in 1..Len(s) : Append(s, e)[i] = s[i]
         /\ Append(s, e)[Len(s) + 1] = e
         /\ DOMAIN Append(s, e) = 1..(Len(s) + 1)
         /\ Append(s, e) # <<>>
<1> DEFINE S == {s[i] : i \in DOMAIN s} \cup {e}
<1>1. s \in Seq(S) /\ e \in S
  <2>1. s \in Seq({s[i] : i \in DOMAIN s}) /\ {s[i] : i \in DOMAIN s} \subseteq S /\ e \in S
    BY DEF IsSeq
  <2> HIDE DEF S
  <2> QED BY <2>1, SeqMonotonic
<1> HIDE DEF S
<1>2. Append(s, e) \in Seq(S) /\ Len(Append(s, e)) = Len(s) + 1
      /\ (\A i \in 1..Len(s) : Append(s, e)[i] = s[i]) /\ Append(s, e)[Len(s) + 1] = e
  BY <1>1, AppendProperties
<1>3. IsSeq(Append(s, e)) /\ DOMAIN Append(s, e) = 1..(Len(s) + 1)
  BY <1>2, SeqIsSeq, LenProperties
<1>4. Len(s) \in Nat /\ Len(<<>>) = 0
  BY IsSeqLen, EmptySeq
<1>5. Append(s, e) # <<>>
  BY <1>2, <1>4
<1> QED BY <1>2, <1>3, <1>5

\* The first k elements.
LEMMA HeadIsSeq ==
  ASSUME NEW s, IsSeq(s), NEW k \in 0..Len(s)
  PROVE  /\ IsSeq(SubSeq(s, 1, k)) /\ Len(SubSeq(s, 1, k)) = k
         /\ \A i \in 1..k : SubSeq(s, 1, k)[i] = s[i]
<1> DEFINE S == {s[i] : i \in DOMAIN s}
<1>1. Len(s) \in Nat /\ DOMAIN s = 1..Len(s) /\ k \in Int /\ 0 <= k /\ k <= Len(s)
  BY IsSeqLen
<1>2. \A i \in 1..k : s[i] \in S
  BY <1>1
<1> HIDE DEF S
<1>3. /\ SubSeq(s, 1, k) \in Seq(S) /\ Len(SubSeq(s, 1, k)) = IF 1 <= k THEN k - 1 + 1 ELSE 0
      /\ \A i \in 1..(k - 1 + 1) : SubSeq(s, 1, k)[i] = s[1 + i - 1]
  BY <1>1, <1>2, SubSeqProperties
<1>4. IsSeq(SubSeq(s, 1, k))
  BY <1>3, SeqIsSeq
<1>5. \A i \in 1..k : 1 + i - 1 = i /\ i \in 1..(k - 1 + 1)
  BY <1>1
<1> QED BY <1>1, <1>3, <1>4, <1>5

\* What follows the first k elements.
LEMMA TailIsSeq ==
  ASSUME NEW s, IsSeq(s), NEW k \in Nat
  PROVE  /\ IsSeq(SubSeq(s, k + 1, Len(s)))
         /\ Len(SubSeq(s, k + 1, Len(s))) = IF k <= Len(s) THEN Len(s) - k ELSE 0
         /\ \A i \in 1..(Len(s) - k) : SubSeq(s, k + 1, Len(s))[i] = s[k + i]
<1> DEFINE S == {s[i] : i \in DOMAIN s}
<1>1. Len(s) \in Nat /\ DOMAIN s = 1..Len(s) /\ k + 1 \in Int
  BY IsSeqLen
<1>2. \A i \in (k + 1)..Len(s) : s[i] \in S
  BY <1>1
<1> HIDE DEF S
<1> DEFINE t == SubSeq(s, k + 1, Len(s))
<1>3. /\ t \in Seq(S) /\ Len(t) = IF k + 1 <= Len(s) THEN Len(s) - (k + 1) + 1 ELSE 0
      /\ \A i \in 1..(Len(s) - (k + 1) + 1) : t[i] = s[k + 1 + i - 1]
  BY <1>1, <1>2, SubSeqProperties
<1>4. IsSeq(t)
  BY <1>3, SeqIsSeq
<1> HIDE DEF t
<1>5. \A i \in 1..(Len(s) - k) : k + 1 + i - 1 = k + i /\ i \in 1..(Len(s) - (k + 1) + 1)
  BY <1>1
<1>6. \A i \in 1..(Len(s) - k) : t[i] = s[k + i]
  BY <1>3, <1>5
<1>7. Len(t) = IF k <= Len(s) THEN Len(s) - k ELSE 0
  <2>1. Len(t) = IF k + 1 <= Len(s) THEN Len(s) - (k + 1) + 1 ELSE 0
    BY <1>3
  <2>2. Len(s) \in Nat
    BY <1>1
  <2> HIDE DEF t
  <2>3. CASE k + 1 <= Len(s)
    <3>1. Len(t) = Len(s) - (k + 1) + 1
      BY <2>1, <2>3
    <3>2. Len(s) - (k + 1) + 1 = Len(s) - k /\ k <= Len(s)
      BY <2>2, <2>3
    <3> QED BY <3>1, <3>2
  <2>4. CASE ~ (k + 1 <= Len(s))
    <3>1. Len(t) = 0
      BY <2>1, <2>4
    <3>2. k <= Len(s) => Len(s) - k = 0
      BY <2>2, <2>4
    <3> QED BY <3>1, <3>2
  <2> QED BY <2>3, <2>4
<1> QED BY <1>4, <1>6, <1>7 DEF t

LEMMA SameSeq ==
  ASSUME NEW s, NEW t, IsSeq(s), IsSeq(t), Len(s) = Len(t), \A i \in 1..Len(s) : s[i] = t[i]
  PROVE  s = t
<1>1. PICK S : s \in Seq(S) /\ t \in Seq(S)
  BY CommonSeq
<1> QED BY <1>1, SeqEqual

LEMMA EmptyIsSeq == IsSeq(<<>>) /\ Len(<<>>) = 0 /\ (\A s : IsSeq(s) /\ Len(s) = 0 => s = <<>>)
<1>1. IsSeq(<<>>) /\ Len(<<>>) = 0
  <2>1. <<>> \in Seq({}) /\ Len(<<>>) = 0
    BY EmptySeq
  <2> QED BY <2>1, SeqIsSeq
<1>2. ASSUME NEW s, IsSeq(s), Len(s) = 0 PROVE s = <<>>
  <2>1. \A i \in 1..Len(s) : s[i] = <<>>[i]
    BY <1>2
  <2> QED BY <1>1, <1>2, <2>1, SameSeq
<1> QED BY <1>1, <1>2

-----------------------------------------------------------------------------
(* Memory *)

LEMMA BlankFacts ==
  ASSUME NEW n \in Nat
  PROVE  IsSeq(Blank(n)) /\ Len(Blank(n)) = n
<1>1. Blank(n) \in [1..n -> {Junk}]
  BY DEF Blank
<1>2. Blank(n) \in Seq({Junk})
  BY <1>1, SeqDef
<1>3. DOMAIN Blank(n) = 1..n
  BY DEF Blank
<1>4. Len(Blank(n)) \in Nat /\ 1..Len(Blank(n)) = 1..n
  BY <1>2, <1>3, LenProperties
<1>5. Len(Blank(n)) = n
  <2>1. CASE n = 0
    BY <1>4, <2>1
  <2>2. CASE n > 0
    <3>1. n \in 1..Len(Blank(n)) /\ (Len(Blank(n)) > 0 => Len(Blank(n)) \in 1..n)
      BY <1>4, <2>2
    <3> QED BY <1>4, <2>2, <3>1
  <2> QED BY <2>1, <2>2
<1> QED BY <1>2, <1>5, SeqIsSeq

LEMMA MallocFacts ==
  ASSUME NEW n \in Nat, NEW old, IsSeq(old), NEW m \in Malloc(n, old)
  PROVE  IsSeq(m) /\ Len(m) = n
<1>1. m = Blank(n) \/ (Len(old) >= n /\ m = SubSeq(old, 1, n))
  BY DEF Malloc
<1>2. CASE m = Blank(n)
  BY <1>2, BlankFacts
<1>3. CASE Len(old) >= n /\ m = SubSeq(old, 1, n)
  BY <1>3, IsSeqLen, HeadIsSeq
<1> QED BY <1>1, <1>2, <1>3

\* A copy into the memory leaves its length.
LEMMA CopiedFacts ==
  ASSUME NEW memory, NEW at \in Nat, NEW bytes, IsSeq(memory), IsSeq(bytes), at + Len(bytes) <= Len(memory)
  PROVE  /\ IsSeq(Copied(memory, at, bytes)) /\ Len(Copied(memory, at, bytes)) = Len(memory)
         /\ \A i \in 1..at : Copied(memory, at, bytes)[i] = memory[i]
         /\ \A i \in 1..Len(bytes) : Copied(memory, at, bytes)[at + i] = bytes[i]
<1> DEFINE s == SubSeq(memory, 1, at)
           k == at + Len(bytes)
           t == SubSeq(memory, k + 1, Len(memory))
<1>1. Len(memory) \in Nat /\ Len(bytes) \in Nat /\ at \in 0..Len(memory) /\ k \in Nat /\ k <= Len(memory)
  BY IsSeqLen
<1>2. IsSeq(s) /\ Len(s) = at /\ \A i \in 1..at : s[i] = memory[i]
  BY <1>1, HeadIsSeq
<1>3. IsSeq(t) /\ Len(t) = Len(memory) - k
  <2> HIDE DEF k
  <2>1. IsSeq(t) /\ Len(t) = IF k <= Len(memory) THEN Len(memory) - k ELSE 0
    BY <1>1, TailIsSeq
  <2> QED BY <1>1, <2>1
<1> HIDE DEF s, t
<1>4. /\ IsSeq(s \o bytes) /\ Len(s \o bytes) = at + Len(bytes)
      /\ \A i \in 1..(at + Len(bytes)) : (s \o bytes)[i] = IF i <= at THEN s[i] ELSE bytes[i - at]
  BY <1>2, ConcatIsSeq
<1>5. /\ IsSeq((s \o bytes) \o t) /\ Len((s \o bytes) \o t) = Len(s \o bytes) + Len(t)
      /\ \A i \in 1..(Len(s \o bytes) + Len(t)) :
           ((s \o bytes) \o t)[i] = IF i <= Len(s \o bytes) THEN (s \o bytes)[i] ELSE t[i - Len(s \o bytes)]
  BY <1>3, <1>4, ConcatIsSeq
<1>6. Copied(memory, at, bytes) = (s \o bytes) \o t
  BY DEF Copied, s, t
<1>7. ASSUME NEW i \in 1..at PROVE ((s \o bytes) \o t)[i] = memory[i]
  <2>1. i \in 1..(at + Len(bytes)) /\ i <= at /\ i \in 1..(Len(s \o bytes) + Len(t)) /\ i <= Len(s \o bytes)
    BY <1>1, <1>3, <1>4
  <2> QED BY <1>2, <1>4, <1>5, <2>1
<1>8. ASSUME NEW i \in 1..Len(bytes) PROVE ((s \o bytes) \o t)[at + i] = bytes[i]
  <2>1. /\ at + i \in 1..(at + Len(bytes)) /\ ~ (at + i <= at) /\ at + i - at = i
        /\ at + i \in 1..(Len(s \o bytes) + Len(t)) /\ at + i <= Len(s \o bytes)
    BY <1>1, <1>3, <1>4
  <2> QED BY <1>4, <1>5, <2>1
<1>9. Len((s \o bytes) \o t) = Len(memory)
  <2>1. Len((s \o bytes) \o t) = Len(s \o bytes) + Len(t)
    BY <1>5
  <2>2. Len(s \o bytes) = k /\ Len(t) = Len(memory) - k
    BY <1>3, <1>4
  <2> HIDE DEF k
  <2> QED BY <1>1, <2>1, <2>2
<1> QED BY <1>5, <1>6, <1>7, <1>8, <1>9

\* A copy to its begin may be longer than the memory.
LEMMA CopiedIsSeq ==
  ASSUME NEW memory, NEW bytes, IsSeq(memory), IsSeq(bytes)
  PROVE  IsSeq(Copied(memory, 0, bytes)) /\ Len(Copied(memory, 0, bytes)) >= Len(memory)
<1> DEFINE s == SubSeq(memory, 1, 0)
           k == 0 + Len(bytes)
           t == SubSeq(memory, k + 1, Len(memory))
<1>1. Len(memory) \in Nat /\ Len(bytes) \in Nat /\ 0 \in 0..Len(memory) /\ k \in Nat
  BY IsSeqLen
<1>2. IsSeq(s) /\ Len(s) = 0
  BY <1>1, HeadIsSeq
<1>3. IsSeq(t) /\ Len(t) = IF k <= Len(memory) THEN Len(memory) - k ELSE 0
  <2> HIDE DEF k
  <2> QED BY <1>1, TailIsSeq
<1>4. Copied(memory, 0, bytes) = (s \o bytes) \o t
  BY DEF Copied
<1> HIDE DEF s, t
<1>5. IsSeq(s \o bytes) /\ Len(s \o bytes) = Len(bytes)
  <2>1. IsSeq(s \o bytes) /\ Len(s \o bytes) = Len(s) + Len(bytes)
    BY <1>2, ConcatIsSeq
  <2> QED BY <1>1, <1>2, <2>1
<1>6. IsSeq((s \o bytes) \o t) /\ Len((s \o bytes) \o t) = Len(bytes) + Len(t)
  BY <1>3, <1>5, ConcatIsSeq
<1>7. Len(bytes) + Len(t) >= Len(memory)
  BY <1>1, <1>3
<1> QED BY <1>4, <1>6, <1>7

\* What a read takes and what it leaves.
LEMMA ReadFacts ==
  ASSUME NEW stream, NEW n \in Nat, IsSeq(stream), NEW read \in Reads(stream, n)
  PROVE  /\ IsSeq(read) /\ Len(read) >= 1 /\ Len(read) <= n /\ Len(read) <= Len(stream) /\ Len(read) \in Nat
         /\ \A i \in 1..Len(read) : read[i] = stream[i]
         /\ IsSeq(Rest(stream, read)) /\ Len(Rest(stream, read)) = Len(stream) - Len(read)
         /\ \A i \in 1..(Len(stream) - Len(read)) : Rest(stream, read)[i] = stream[Len(read) + i]
<1>1. Len(stream) \in Nat
  BY IsSeqLen
<1>2. PICK k \in 1..(IF Len(stream) < n THEN Len(stream) ELSE n) : read = SubSeq(stream, 1, k)
  BY DEF Reads
<1>3. k \in 0..Len(stream) /\ k >= 1 /\ k <= n /\ k \in Nat
  BY <1>1, <1>2
<1>4. IsSeq(read) /\ Len(read) = k /\ \A i \in 1..k : read[i] = stream[i]
  BY <1>2, <1>3, HeadIsSeq
<1>5. /\ IsSeq(Rest(stream, read)) /\ Len(Rest(stream, read)) = IF k <= Len(stream) THEN Len(stream) - k ELSE 0
      /\ \A i \in 1..(Len(stream) - k) : Rest(stream, read)[i] = stream[k + i]
  BY <1>3, <1>4, TailIsSeq DEF Rest
<1> QED BY <1>1, <1>3, <1>4, <1>5

-----------------------------------------------------------------------------
(* Induction *)

\* A set with 0 that is closed under successor has every natural number.
LEMMA Naturals ==
  ASSUME NEW S \in SUBSET Nat, 0 \in S, \A n \in S : n + 1 \in S
  PROVE  S = Nat
<1> SUFFICES ASSUME S # Nat PROVE FALSE
  OBVIOUS
<1> DEFINE T == Nat \ S
<1>1. PICK x \in T : \A y \in T : ~ (<<y, x>> \in OpToRel(<, Nat))
  BY WFMin, NatLessThanWellFounded
<1>2. \A y \in T : ~ (y < x)
  BY <1>1 DEF OpToRel
<1>3. x # 0 /\ x - 1 \in Nat /\ x - 1 \notin T
  BY <1>2
<1> QED BY <1>3

-----------------------------------------------------------------------------
(* The messages *)

LEMMA Bounds == BufLen \in Nat /\ BufLen > 1 /\ MaxSent \in Nat /\ MaxSent >= 1
BY MessagesAssumption

LEMMA StringFacts ==
  /\ \A name : StringOf(Command(name), "command") = name
  /\ StringOf(BlockRequest, "parentFileName") = "f"
  /\ StringOf(PeerInfo, "IP") = "ip"
<1>1. ASSUME NEW name PROVE StringOf(Command(name), "command") = name
  <2> DEFINE members == << <<"command", String(name)>> >>
  <2>1. DOMAIN members = {1} /\ members[1][1] = "command" /\ members[1][2] = String(name)
    OBVIOUS
  <2>2. Command(name) = <<"object", members>> /\ Command(name) # NoValue
    BY DEF Command, Object, NoValue
  <2> HIDE DEF members
  <2>3. Member(Command(name), "command") = members[1][2]
    BY <2>1, <2>2 DEF Member, HasName
  <2>4. String(name) # NoValue /\ String(name)[1] = "string" /\ String(name)[2] = name
    BY DEF String, NoValue
  <2> QED BY <2>1, <2>3, <2>4 DEF StringOf
<1>2. StringOf(BlockRequest, "parentFileName") = "f"
  <2> DEFINE members == << <<"parentFileName", String("f")>> >>
  <2>1. DOMAIN members = {1} /\ members[1][1] = "parentFileName" /\ members[1][2] = String("f")
    OBVIOUS
  <2>2. BlockRequest = <<"object", members>> /\ BlockRequest # NoValue
    BY DEF BlockRequest, Object, NoValue
  <2> HIDE DEF members
  <2>3. Member(BlockRequest, "parentFileName") = members[1][2]
    BY <2>1, <2>2 DEF Member, HasName
  <2>4. String("f") # NoValue /\ String("f")[1] = "string" /\ String("f")[2] = "f"
    BY DEF String, NoValue
  <2> QED BY <2>1, <2>3, <2>4 DEF StringOf
<1>3. StringOf(PeerInfo, "IP") = "ip"
  <2> DEFINE members == << <<"IP", String("ip")>>, <<"socket", Number(1)>> >>
  <2>1. DOMAIN members = {1, 2} /\ members[1][1] = "IP" /\ members[2][1] = "socket" /\ members[1][2] = String("ip")
    OBVIOUS
  <2>2. PeerInfo = <<"object", members>> /\ PeerInfo # NoValue
    BY DEF PeerInfo, Object, NoValue
  <2> HIDE DEF members
  <2>3. (CHOOSE i \in DOMAIN members : members[i][1] = "IP") = 1
    BY <2>1
  <2>4. Member(PeerInfo, "IP") = members[1][2]
    BY <2>1, <2>2, <2>3 DEF Member, HasName
  <2>5. String("ip") # NoValue /\ String("ip")[1] = "string" /\ String("ip")[2] = "ip"
    BY DEF String, NoValue
  <2> QED BY <2>1, <2>4, <2>5 DEF StringOf
<1> QED BY <1>1, <1>2, <1>3

\* What the server looks at first in the messages of a connection.
LEMMA CommandFacts ==
  /\ GetCommand(FileList) = "fileList" /\ GetCommand(Request) = "download" /\ GetCommand(Success) = "success"
  /\ \A h \in Hellos : GetCommand(h) = "clientFilesAndBlocks"
  /\ getBlockInfo(BlockRequest) = "f"
BY StringFacts, HelloAssumption DEF GetCommand, getBlockInfo, FileList, Request, Success

\* The library's part.
LEMMA KnownTexts ==
  ASSUME NEW v \in Known
  PROVE  /\ IsSeq(Text(v)) /\ Len(Text(v)) \in Nat /\ Len(Text(v)) >= 1
         /\ Value(Text(v)) = v
         /\ \A k \in 1..(Len(Text(v)) - 1) : Value(SubSeq(Text(v), 1, k)) = NoValue
<1>1. /\ Text(v) # <<>> /\ IsSeq(Text(v)) /\ Value(Text(v)) = v
      /\ \A k \in 1..(Len(Text(v)) - 1) : Value(SubSeq(Text(v), 1, k)) = NoValue
  BY JsonAssumption DEF IsSeq
<1>2. Len(Text(v)) \in Nat /\ Len(Text(v)) # 0
  BY <1>1, IsSeqLen, EmptyIsSeq
<1> QED BY <1>1, <1>2

LEMMA KnownIsValue ==
  ASSUME NEW v \in Known
  PROVE  v # NoValue
<1>1. CASE v \in Hellos
  <2>1. StringOf(v, "command") = "clientFilesAndBlocks"
    BY <1>1, HelloAssumption
  <2>2. StringOf(NoValue, "command") = "(null)"
    BY DEF StringOf, Member, NoValue, NoString
  <2> QED BY <2>1, <2>2
<1>2. CASE v \notin Hellos
  <2>1. \E members : v = Object(members)
    BY <1>2 DEF Known, FileList, Request, Success, BlockRequest, PeerInfo, ThankYou, OutOfMemory, FilesMessage,
                Command
  <2> QED BY <2>1 DEF Object, NoValue
<1> QED BY <1>1, <1>2

\* A text that begins with that of a value is read as the value.
LEMMA ParseStart ==
  ASSUME NEW v \in Known, NEW memory, IsSeq(memory), Len(Text(v)) <= Len(memory),
         \A i \in 1..Len(Text(v)) : memory[i] = Text(v)[i]
  PROVE  Parse(memory) = v
<1> DEFINE n == Len(Text(v))
           starts == {SubSeq(memory, 1, k) : k \in DOMAIN memory}
           whole == {r \in {[length |-> Len(start), value |-> Value(start)] : start \in starts} : r.value # NoValue}
           first == CHOOSE r \in whole : \A other \in whole : r.length <= other.length
           it == [length |-> n, value |-> v]
<1>1. n \in Nat /\ n >= 1 /\ Len(memory) \in Nat /\ n <= Len(memory) /\ DOMAIN memory = 1..Len(memory)
  BY KnownTexts, IsSeqLen
<1>2. ASSUME NEW k \in 1..n PROVE SubSeq(memory, 1, k) = SubSeq(Text(v), 1, k)
  <2>1. k \in 0..Len(memory) /\ k \in 0..n /\ IsSeq(Text(v))
    BY <1>1, KnownTexts
  <2>2. /\ IsSeq(SubSeq(memory, 1, k)) /\ Len(SubSeq(memory, 1, k)) = k
        /\ \A i \in 1..k : SubSeq(memory, 1, k)[i] = memory[i]
    BY <2>1, HeadIsSeq
  <2>3. /\ IsSeq(SubSeq(Text(v), 1, k)) /\ Len(SubSeq(Text(v), 1, k)) = k
        /\ \A i \in 1..k : SubSeq(Text(v), 1, k)[i] = Text(v)[i]
    BY <2>1, HeadIsSeq
  <2>4. \A i \in 1..k : i \in 1..n
    BY <2>1
  <2> QED BY <2>2, <2>3, <2>4, SameSeq
<1>3. SubSeq(Text(v), 1, n) = Text(v)
  <2>1. n \in 0..n /\ IsSeq(Text(v))
    BY <1>1, KnownTexts
  <2>2. /\ IsSeq(SubSeq(Text(v), 1, n)) /\ Len(SubSeq(Text(v), 1, n)) = n
        /\ \A i \in 1..n : SubSeq(Text(v), 1, n)[i] = Text(v)[i]
    BY <2>1, HeadIsSeq
  <2> QED BY <2>1, <2>2, SameSeq
<1>4. it \in whole
  <2>1. SubSeq(memory, 1, n) \in starts /\ SubSeq(memory, 1, n) = Text(v)
    BY <1>1, <1>2, <1>3
  <2>2. Value(Text(v)) = v /\ v # NoValue
    BY KnownTexts, KnownIsValue
  <2> HIDE DEF starts
  <2> QED BY <2>1, <2>2
<1>5. ASSUME NEW r \in whole PROVE r.length \in Nat /\ r.length >= n /\ (r.length = n => r.value = v)
  <2>1. PICK k \in DOMAIN memory : r.length = Len(SubSeq(memory, 1, k)) /\ r.value = Value(SubSeq(memory, 1, k))
    <3>1. PICK start \in starts : r = [length |-> Len(start), value |-> Value(start)]
      OBVIOUS
    <3> QED BY <3>1
  <2>2. r.value # NoValue
    OBVIOUS
  <2>3. k \in 0..Len(memory) /\ k >= 1
    BY <1>1
  <2>4. r.length = k
    BY <2>1, <2>3, HeadIsSeq
  <2>5. k >= n
    <3>1. SUFFICES ASSUME k < n PROVE FALSE
      BY <1>1, <2>3
    <3>2. k \in 1..(n - 1) /\ k \in 1..n
      BY <1>1, <2>3, <3>1
    <3>3. Value(SubSeq(Text(v), 1, k)) = NoValue
      BY <3>2, KnownTexts
    <3> QED BY <1>2, <2>1, <2>2, <3>2, <3>3
  <2>6. k = n => r.value = v
    <3>1. n \in 1..n
      BY <1>1
    <3> HIDE DEF n
    <3> QED BY <1>2, <1>3, <2>1, <3>1, KnownTexts
  <2> QED BY <2>3, <2>4, <2>5, <2>6
<1>6. Parse(memory) = IF whole = {} THEN NoValue ELSE first.value
  BY DEF Parse
<1> HIDE DEF whole
<1>7. \E r \in whole : \A other \in whole : r.length <= other.length
  BY <1>4, <1>5
<1>8. first \in whole /\ \A other \in whole : first.length <= other.length
  BY <1>7
<1> HIDE DEF first
<1>9. first.length \in Nat /\ first.length >= n /\ first.length <= n
  BY <1>4, <1>5, <1>8
<1>10. first.value = v
  BY <1>1, <1>5, <1>8, <1>9
<1> QED BY <1>4, <1>6, <1>10

\* The messages of a connection are known to the library.
LEMMA SentIsKnown ==
  ASSUME conn \in {"commands", "download", "block"}, hello \in Hellos
  PROVE  \A k \in Nat : Sent(k) \in Known
BY DEF Sent, Known

\* The replies to them are.
LEMMA ReplyIsKnown ==
  ASSUME conn \in {"commands", "download"}
  PROVE  \A k \in 1..MaxSent : RepliesTo(k) \subseteq Known
BY DEF RepliesTo, RequestReplies, Known

-----------------------------------------------------------------------------
(* The places in the stream *)

\* f holds the first n places.
Ends(f, len, n) == f = [k \in 0..n |-> IF k = 0 THEN 0 ELSE f[k - 1] + len[k]]

LEMMA EndsExist ==
  ASSUME NEW len, NEW n \in Nat
  PROVE  \E f : Ends(f, len, n)
<1> DEFINE S == {m \in Nat : \E f : Ends(f, len, m)}
<1>1. 0 \in S
  <2> DEFINE f == [k \in 0..0 |-> 0]
  <2>1. f = [k \in 0..0 |-> IF k = 0 THEN 0 ELSE f[k - 1] + len[k]]
    OBVIOUS
  <2> QED BY <2>1 DEF Ends
<1>2. ASSUME NEW m \in S PROVE m + 1 \in S
  <2>1. PICK f : Ends(f, len, m)
    OBVIOUS
  <2> DEFINE g == [k \in 0..(m + 1) |-> IF k <= m THEN f[k] ELSE f[m] + len[m + 1]]
             h == [k \in 0..(m + 1) |-> IF k = 0 THEN 0 ELSE g[k - 1] + len[k]]
  <2>2. \A k \in 0..m : f[k] = IF k = 0 THEN 0 ELSE f[k - 1] + len[k]
    BY <2>1 DEF Ends
  <2>3. ASSUME NEW k \in 0..(m + 1) PROVE g[k] = h[k]
    <3>1. CASE k = 0
      BY <2>2, <3>1
    <3>2. CASE k # 0 /\ k <= m
      <4>1. k - 1 \in 0..(m + 1) /\ k - 1 <= m /\ k \in 0..m
        BY <3>2
      <4>2. g[k] = f[k] /\ g[k - 1] = f[k - 1]
        BY <3>2, <4>1
      <4> QED BY <2>2, <3>2, <4>1, <4>2
    <3>3. CASE k = m + 1
      <4>1. k - 1 = m /\ k # 0 /\ ~ (k <= m) /\ m \in 0..(m + 1)
        BY <3>3
      <4>2. g[m] = f[m] /\ g[k] = f[m] + len[k]
        BY <3>3, <4>1
      <4> QED BY <4>1, <4>2
    <3> QED BY <3>1, <3>2, <3>3
  <2>4. g = h
    BY <2>3
  <2>5. Ends(g, len, m + 1)
    BY <2>4 DEF Ends
  <2> QED BY <2>5
<1>3. S = Nat
  <2> HIDE DEF S
  <2> QED BY <1>1, <1>2, Naturals DEF S
<1> QED BY <1>3

\* The messages lie in the stream one after the other.
LEMMA Places ==
  ASSUME conn \in {"commands", "download", "block"}, hello \in Hellos
  PROVE  /\ EndOf[0] = 0
         /\ \A k \in 0..MaxSent : EndOf[k] \in Nat
         /\ \A k \in 1..MaxSent : EndOf[k] = EndOf[k - 1] + Len(Message(k))
         /\ \A k \in Nat : IsSeq(Message(k)) /\ Len(Message(k)) \in Nat /\ Len(Message(k)) >= 1
         /\ \A j \in 0..MaxSent : \A k \in 0..MaxSent :
              j < k => j + 1 \in 1..MaxSent /\ EndOf[j] + Len(Message(j + 1)) <= EndOf[k]
<1> DEFINE len == [k \in 1..MaxSent |-> Len(Text(Sent(k)))]
<1>1. MaxSent \in Nat
  BY Bounds
<1>2. \E f : f = [k \in 0..MaxSent |-> IF k = 0 THEN 0 ELSE f[k - 1] + Len(Text(Sent(k)))]
  <2>1. PICK f : Ends(f, len, MaxSent)
    BY <1>1, EndsExist
  <2>2. [k \in 0..MaxSent |-> IF k = 0 THEN 0 ELSE f[k - 1] + len[k]]
      = [k \in 0..MaxSent |-> IF k = 0 THEN 0 ELSE f[k - 1] + Len(Text(Sent(k)))]
    <3>1. \A k \in 0..MaxSent : k # 0 => len[k] = Len(Text(Sent(k)))
      BY <1>1
    <3> HIDE DEF len
    <3> QED BY <3>1
  <2> QED BY <2>1, <2>2 DEF Ends
<1>3. EndOf = [k \in 0..MaxSent |-> IF k = 0 THEN 0 ELSE EndOf[k - 1] + Len(Text(Sent(k)))]
  BY <1>2 DEF EndOf
<1>4. EndOf[0] = 0 /\ \A k \in 1..MaxSent : EndOf[k] = EndOf[k - 1] + Len(Message(k))
  <2>1. 0 \in 0..MaxSent /\ \A k \in 1..MaxSent : k \in 0..MaxSent /\ k # 0
    BY <1>1
  <2> QED BY <1>3, <2>1 DEF Message
<1>5. ASSUME NEW k \in Nat PROVE IsSeq(Message(k)) /\ Len(Message(k)) \in Nat /\ Len(Message(k)) >= 1
  BY SentIsKnown, KnownTexts DEF Message
<1>6. \A k \in 0..MaxSent : EndOf[k] \in Nat
  <2> DEFINE S == {k \in Nat : k <= MaxSent => EndOf[k] \in Nat}
  <2>1. 0 \in S
    BY <1>4
  <2>2. ASSUME NEW k \in S PROVE k + 1 \in S
    <3>1. SUFFICES ASSUME k + 1 <= MaxSent PROVE EndOf[k + 1] \in Nat
      OBVIOUS
    <3>2. k + 1 \in 1..MaxSent /\ (k + 1) - 1 = k /\ EndOf[k] \in Nat
      BY <1>1, <3>1
    <3>3. Len(Message(k + 1)) \in Nat /\ EndOf[k + 1] = EndOf[k] + Len(Message(k + 1))
      <4>1. EndOf[k + 1] = EndOf[(k + 1) - 1] + Len(Message(k + 1))
        BY <1>4, <3>2
      <4>2. k + 1 \in Nat
        OBVIOUS
      <4> QED BY <1>5, <3>2, <4>1, <4>2
    <3> HIDE DEF S
    <3> QED BY <3>2, <3>3
  <2>3. S = Nat
    <3> HIDE DEF S
    <3> QED BY <2>1, <2>2, Naturals DEF S
  <2> QED BY <1>1, <2>3
<1>7. ASSUME NEW j \in 0..MaxSent
      PROVE  \A k \in 0..MaxSent : j < k => EndOf[j] + Len(Message(j + 1)) <= EndOf[k]
  <2> DEFINE S == {k \in Nat : k <= MaxSent /\ j < k => EndOf[j] + Len(Message(j + 1)) <= EndOf[k]}
  <2>0. EndOf[j] \in Nat /\ Len(Message(j + 1)) \in Nat
    BY <1>5, <1>6
  <2>1. 0 \in S
    OBVIOUS
  <2>2. ASSUME NEW k \in S PROVE k + 1 \in S
    <3>1. SUFFICES ASSUME k + 1 <= MaxSent, j < k + 1 PROVE EndOf[j] + Len(Message(j + 1)) <= EndOf[k + 1]
      OBVIOUS
    <3>2. k + 1 \in 1..MaxSent /\ (k + 1) - 1 = k /\ k \in 0..MaxSent
      BY <1>1, <3>1
    <3>3. EndOf[k] \in Nat /\ Len(Message(k + 1)) \in Nat /\ EndOf[k + 1] = EndOf[k] + Len(Message(k + 1))
      <4>1. EndOf[k + 1] = EndOf[(k + 1) - 1] + Len(Message(k + 1))
        BY <1>4, <3>2
      <4>2. k + 1 \in Nat
        OBVIOUS
      <4> QED BY <1>5, <1>6, <3>2, <4>1, <4>2
    <3>4. CASE j = k
      BY <3>3, <3>4
    <3>5. CASE j # k
      <4>1. j < k /\ k <= MaxSent
        BY <3>1, <3>2, <3>5
      <4>2. EndOf[j] + Len(Message(j + 1)) <= EndOf[k]
        BY <4>1
      <4> HIDE DEF S
      <4> QED BY <2>0, <3>3, <4>2
    <3> QED BY <3>4, <3>5
  <2>3. S = Nat
    <3> HIDE DEF S
    <3> QED BY <2>1, <2>2, Naturals DEF S
  <2> QED BY <1>1, <2>3
<1>8. \A j \in 0..MaxSent : \A k \in 0..MaxSent : j < k => j + 1 \in 1..MaxSent
  BY <1>1
<1> QED BY <1>4, <1>5, <1>6, <1>7, <1>8

\* The messages of a connection stay the same.
LEMMA SameMessages ==
  ASSUME conn' = conn, hello' = hello
  PROVE  /\ \A k : Sent(k)' = Sent(k) /\ Message(k)' = Message(k) /\ RepliesTo(k)' = RepliesTo(k)
         /\ EndOf' = EndOf
<1>1. ASSUME NEW k PROVE Sent(k)' = Sent(k) /\ Message(k)' = Message(k) /\ RepliesTo(k)' = RepliesTo(k)
  BY DEF Sent, Message, RepliesTo
<1>2. EndOf' = EndOf
  BY DEF EndOf, Sent
<1> QED BY <1>1, <1>2

-----------------------------------------------------------------------------
(* The types *)

LEMMA BufferSizes ==
  ASSUME NEW n \in Nat
  PROVE  /\ n * BufLen \in Nat /\ (n + 1) * BufLen = n * BufLen + BufLen
         /\ BufLen * (n + 1) = n * BufLen + BufLen
         /\ BufLen * ((n + 1) + 1) = n * BufLen + BufLen + BufLen
         /\ 0 * BufLen = 0 /\ BufLen * (0 + 1) = BufLen
BY Bounds

\* The buffer after a read.
LEMMA ReadInBuffer ==
  ASSUME Typed, NEW read, IsSeq(read), Len(read) <= BufLen
  PROVE  LET memory == Copied(message, counter * BufLen, read)
         IN  /\ IsSeq(memory) /\ Len(memory) = counter * BufLen + BufLen
             /\ \A i \in 1..(counter * BufLen) : memory[i] = message[i]
             /\ \A i \in 1..Len(read) : memory[counter * BufLen + i] = read[i]
<1>1. counter * BufLen \in Nat /\ Len(message) = counter * BufLen + BufLen /\ IsSeq(message)
  BY BufferSizes DEF Typed, TypeOK
<1>2. counter * BufLen + Len(read) <= Len(message)
  BY <1>1, Bounds, IsSeqLen
<1> HIDE DEF Typed
<1> QED BY <1>1, <1>2, CopiedFacts

LEMMA TypedInit == Init => Typed
<1> SUFFICES ASSUME Init PROVE Typed
  OBVIOUS
<1>1. IsSeq(<<>>) /\ Len(<<>>) = 0 /\ IsSeq(Blank(BufLen)) /\ Len(Blank(BufLen)) = BufLen
  BY EmptyIsSeq, BlankFacts, Bounds
<1>2. 0 \in Nat /\ BufLen * (0 + 1) = BufLen
  BY BufferSizes
<1>3. Len(message) = BufLen * (counter + 1) /\ Len(answers) <= sent
  BY <1>1, <1>2 DEF Init
<1>4. TypeOK
  BY <1>3, Bounds DEF Init, TypeOK
<1>5. IsSeq(toServer) /\ IsSeq(message) /\ IsSeq(handled) /\ IsSeq(answers)
  BY <1>1 DEF Init
<1>6. counter \in Nat /\ sent = 0 /\ client # "waiting"
  BY DEF Init
<1>7. torn \in BOOLEAN /\ early \in BOOLEAN /\ cut \in BOOLEAN
  BY DEF Init
<1>8. conn \in {"commands", "download", "block"} /\ hello \in Hellos /\ (conn = "block" => counter = 0 /\ sent <= 1)
  BY DEF Init
<1> QED BY <1>4, <1>5, <1>6, <1>7, <1>8 DEF Typed

LEMMA TypedSend ==
  ASSUME Typed, Send
  PROVE  Typed'
<1>1. sent' = sent + 1 /\ sent \in 0..MaxSent /\ sent + 1 \in 0..MaxSent /\ (conn = "block" => sent + 1 <= 1)
  BY Bounds DEF Typed, TypeOK, Send, MaySend
<1>2. IsSeq(toServer')
  <2>1. conn' = conn /\ hello' = hello /\ toServer' = toServer \o Text(Sent(sent'))
    BY DEF Send
  <2>2. IsSeq(Text(Sent(sent')))
    <3>1. Sent(sent') \in Known
      BY <1>1, SentIsKnown DEF Typed
    <3> QED BY <3>1, KnownTexts
  <2> QED BY <2>1, <2>2, ConcatIsSeq DEF Typed
<1>3. Len(answers) \in Nat /\ Len(answers) < sent + 1
  BY <1>1, IsSeqLen DEF Typed, TypeOK
<1>4. client' \in {"ready", "waiting"} /\ early' \in BOOLEAN
      /\ UNCHANGED <<conn, hello, answers, cut, server, message, counter, handled, torn>>
  BY DEF Send, serverVars, Typed
<1>5. TypeOK'
  BY <1>1, <1>3, <1>4 DEF Typed, TypeOK
<1>6. IsSeq(message)' /\ IsSeq(handled)' /\ IsSeq(answers)'
  BY <1>4 DEF Typed, IsSeq
<1> QED BY <1>1, <1>2, <1>3, <1>4, <1>5, <1>6 DEF Typed

LEMMA TypedSendToNobody ==
  ASSUME Typed, SendToNobody
  PROVE  Typed'
<1>1. sent' = sent + 1 /\ sent \in 0..MaxSent /\ sent + 1 \in 0..MaxSent /\ (conn = "block" => sent + 1 <= 1)
  BY Bounds DEF Typed, TypeOK, SendToNobody, MaySend
<1>2. Len(answers) \in Nat /\ Len(answers) < sent + 1
  BY <1>1, IsSeqLen DEF Typed, TypeOK
<1> QED BY <1>1, <1>2 DEF SendToNobody, Typed, TypeOK, serverVars, IsSeq

LEMMA TypedReceiveReply ==
  ASSUME Typed, ReceiveReply
  PROVE  Typed'
<1>1. PICK value : answers' = Append(answers, value)
  BY DEF ReceiveReply
<1>2. IsSeq(answers') /\ Len(answers') = Len(answers) + 1
  BY <1>1, AppendIsSeq DEF Typed
<1>3. client = "waiting" /\ client' \in {"ready", "crashed"} /\ cut' \in BOOLEAN
  BY DEF ReceiveReply
<1>4. Len(answers) \in Nat /\ Len(answers) < sent /\ sent \in 0..MaxSent
  BY <1>3, IsSeqLen DEF Typed, TypeOK
<1>5. UNCHANGED <<conn, hello, toServer, sent, early, server, message, counter, handled, torn>>
  BY DEF ReceiveReply, serverVars
<1>6. Len(answers') <= sent
  BY <1>2, <1>4, Bounds
<1> QED BY <1>2, <1>3, <1>5, <1>6 DEF Typed, TypeOK, IsSeq

LEMMA TypedReceiveEnd ==
  ASSUME Typed, ReceiveEnd
  PROVE  Typed'
BY DEF ReceiveEnd, Typed, TypeOK, serverVars, IsSeq

LEMMA TypedClose ==
  ASSUME Typed, Close
  PROVE  Typed'
BY DEF Close, Typed, TypeOK, serverVars, IsSeq

LEMMA TypedReceiveFull ==
  ASSUME Typed, ReceiveFull
  PROVE  Typed'
<1> DEFINE read == SubSeq(toServer, 1, BufLen)
           memory == Copied(message, counter * BufLen, read)
<1>1. /\ conn # "block" /\ counter' = counter + 1 /\ toServer' = Rest(toServer, read)
      /\ message' = memory \o Blank(BufLen)
      /\ UNCHANGED <<conn, hello, client, sent, response, answers, cut, early, server, handled, torn>>
  BY DEF ReceiveFull, clientVars
<1>2. read \in Reads(toServer, BufLen)
  <2>1. Len(toServer) >= BufLen /\ Len(toServer) \in Nat
    BY IsSeqLen DEF ReceiveFull, Typed
  <2>2. BufLen \in 1..(IF Len(toServer) < BufLen THEN Len(toServer) ELSE BufLen)
    BY <2>1, Bounds
  <2> QED BY <2>2 DEF Reads
<1>3. IsSeq(read) /\ Len(read) <= BufLen /\ IsSeq(Rest(toServer, read))
  BY <1>2, Bounds, ReadFacts DEF Typed
<1> HIDE DEF read
<1>4. IsSeq(memory) /\ Len(memory) = counter * BufLen + BufLen
  BY <1>3, ReadInBuffer
<1> HIDE DEF memory
<1>5. IsSeq(Blank(BufLen)) /\ Len(Blank(BufLen)) = BufLen
  BY Bounds, BlankFacts
<1>6. IsSeq(message') /\ Len(message') = Len(memory) + BufLen
  BY <1>1, <1>4, <1>5, ConcatIsSeq
<1>7. counter \in Nat /\ counter' \in Nat
  BY <1>1 DEF Typed
<1>8. Len(message') = BufLen * (counter' + 1)
  <2>1. counter * BufLen \in Nat /\ BufLen * ((counter + 1) + 1) = counter * BufLen + BufLen + BufLen
    BY <1>7, BufferSizes
  <2> QED BY <1>1, <1>4, <1>6, <2>1
<1> QED BY <1>1, <1>3, <1>6, <1>7, <1>8 DEF Typed, TypeOK, IsSeq

LEMMA TypedOutOfMemory ==
  ASSUME Typed, ReceiveFullOutOfMemory
  PROVE  Typed'
<1> DEFINE read == SubSeq(toServer, 1, BufLen)
<1>1. /\ server' = "closed" /\ toServer' = Rest(toServer, read)
      /\ UNCHANGED <<conn, hello, client, sent, response, answers, cut, early, message, counter, handled, torn>>
  BY DEF ReceiveFullOutOfMemory, clientVars
<1>2. read \in Reads(toServer, BufLen)
  <2>1. Len(toServer) >= BufLen /\ Len(toServer) \in Nat
    BY IsSeqLen DEF ReceiveFullOutOfMemory, Typed
  <2>2. BufLen \in 1..(IF Len(toServer) < BufLen THEN Len(toServer) ELSE BufLen)
    BY <2>1, Bounds
  <2> QED BY <2>2 DEF Reads
<1>3. IsSeq(Rest(toServer, read))
  BY <1>2, Bounds, ReadFacts DEF Typed
<1> HIDE DEF read
<1> QED BY <1>1, <1>3 DEF Typed, TypeOK, IsSeq

\* The buffer for the next message.
LEMMA TypedReset ==
  ASSUME NEW memory, IsSeq(memory), NEW value, Reset(Left(memory, value))
  PROVE  counter' = 0 /\ IsSeq(message') /\ Len(message') = BufLen
<1>1. IsSeq(Left(memory, value))
  <2>1. ThankYou \in Known
    BY DEF Known
  <2>2. IsSeq(Copied(memory, 0, Text(ThankYou)))
    BY <2>1, KnownTexts, CopiedIsSeq
  <2> QED BY <2>2 DEF Left
<1> QED BY <1>1, Bounds, MallocFacts DEF Reset

LEMMA TypedReceiveLast ==
  ASSUME Typed, ReceiveLast
  PROVE  Typed'
<1>1. PICK read \in Reads(toServer, BufLen - 1) :
        \E value \in {Parse(Copied(message, counter * BufLen, read))} :
          /\ toServer' = Rest(toServer, read)
          /\ torn' = (torn \/ Torn(read))
          /\ \/ server' = "crashed" /\ UNCHANGED <<message, counter, handled>>
             \/ /\ handled' = Append(handled, value)
                /\ Reset(Left(Copied(message, counter * BufLen, read), value))
                /\ server' \in {"serving", "closed"}
  BY DEF ReceiveLast
<1> DEFINE memory == Copied(message, counter * BufLen, read)
<1>2. PICK value \in {Parse(memory)} :
          /\ toServer' = Rest(toServer, read)
          /\ torn' = (torn \/ Torn(read))
          /\ \/ server' = "crashed" /\ UNCHANGED <<message, counter, handled>>
             \/ /\ handled' = Append(handled, value)
                /\ Reset(Left(memory, value))
                /\ server' \in {"serving", "closed"}
  BY <1>1
<1>3. conn # "block" /\ UNCHANGED <<conn, hello, client, sent, response, answers, cut, early>>
  BY DEF ReceiveLast, clientVars
<1>4. IsSeq(read) /\ Len(read) <= BufLen /\ IsSeq(Rest(toServer, read))
  <2>1. BufLen - 1 \in Nat /\ IsSeq(toServer)
    BY Bounds DEF Typed
  <2>2. IsSeq(read) /\ Len(read) <= BufLen - 1 /\ Len(read) \in Nat /\ IsSeq(Rest(toServer, read))
    BY <2>1, ReadFacts
  <2> QED BY <2>2, Bounds
<1>5. IsSeq(memory)
  BY <1>4, ReadInBuffer
<1> HIDE DEF memory
<1>6. IsSeq(message') /\ Len(message') = BufLen * (counter' + 1) /\ counter' \in Nat /\ IsSeq(handled')
  <2>1. CASE UNCHANGED <<message, counter, handled>>
    BY <2>1 DEF Typed, TypeOK, IsSeq
  <2>2. CASE handled' = Append(handled, value) /\ Reset(Left(memory, value))
    <3>1. counter' = 0 /\ IsSeq(message') /\ Len(message') = BufLen
      BY <1>5, <2>2, TypedReset
    <3>2. BufLen * (0 + 1) = BufLen
      BY BufferSizes
    <3>3. IsSeq(handled')
      BY <2>2, AppendIsSeq DEF Typed
    <3> QED BY <3>1, <3>2, <3>3
  <2> QED BY <1>2, <2>1, <2>2
<1>7. torn' \in BOOLEAN /\ server' \in {"serving", "closed", "left", "crashed"}
  BY <1>2
<1> QED BY <1>2, <1>3, <1>4, <1>6, <1>7 DEF Typed, TypeOK, IsSeq

LEMMA TypedReceiveNothing ==
  ASSUME Typed, ReceiveNothing
  PROVE  Typed'
BY DEF ReceiveNothing, Typed, TypeOK, clientVars, IsSeq

LEMMA TypedServeBlock ==
  ASSUME Typed, ServeBlock
  PROVE  Typed'
<1>1. PICK read \in Reads(toServer, BufLen - 1) :
        \E value \in {Parse(Copied(message, 0, read))} :
          /\ toServer' = Rest(toServer, read)
          /\ torn' = (torn \/ Torn(read))
          /\ \/ server' = "crashed" /\ UNCHANGED <<message, handled>>
             \/ /\ handled' = Append(handled, value)
                /\ message' = Copied(message, 0, read)
                /\ server' \in {server, "left"}
  BY DEF ServeBlock
<1>2. conn = "block" /\ UNCHANGED <<conn, hello, client, sent, response, answers, cut, early, counter>>
  BY DEF ServeBlock, clientVars
<1>3. counter = 0 /\ 0 * BufLen = 0 /\ counter * BufLen + BufLen = BufLen /\ BufLen * (0 + 1) = BufLen
  BY <1>2, BufferSizes, Bounds DEF Typed
<1>4. IsSeq(read) /\ Len(read) <= BufLen /\ IsSeq(Rest(toServer, read))
  <2>1. BufLen - 1 \in Nat /\ IsSeq(toServer)
    BY Bounds DEF Typed
  <2>2. IsSeq(read) /\ Len(read) <= BufLen - 1 /\ Len(read) \in Nat /\ IsSeq(Rest(toServer, read))
    BY <2>1, ReadFacts
  <2> QED BY <2>2, Bounds
<1>5. IsSeq(Copied(message, 0, read)) /\ Len(Copied(message, 0, read)) = BufLen
  <2>1. LET memory == Copied(message, counter * BufLen, read)
        IN  IsSeq(memory) /\ Len(memory) = counter * BufLen + BufLen
    BY <1>4, ReadInBuffer
  <2> QED BY <1>3, <2>1
<1>6. IsSeq(message') /\ Len(message') = BufLen * (counter' + 1) /\ IsSeq(handled')
  <2>1. CASE UNCHANGED <<message, handled>>
    BY <1>2, <2>1 DEF Typed, TypeOK, IsSeq
  <2>2. CASE message' = Copied(message, 0, read) /\ \E value : handled' = Append(handled, value)
    <3>1. IsSeq(handled')
      BY <2>2, AppendIsSeq DEF Typed
    <3> QED BY <1>2, <1>3, <1>5, <2>2, <3>1
  <2> QED BY <1>1, <2>1, <2>2
<1>7. torn' \in BOOLEAN /\ server' \in {"serving", "closed", "left", "crashed"}
  BY <1>1 DEF Typed, TypeOK
<1> QED BY <1>1, <1>2, <1>4, <1>6, <1>7 DEF Typed, TypeOK, IsSeq

LEMMA TypedStep ==
  ASSUME Typed, [Next]_vars
  PROVE  Typed'
<1>1. CASE UNCHANGED vars
  BY <1>1 DEF vars, clientVars, serverVars, Typed, TypeOK, IsSeq
<1> QED
  BY <1>1, TypedSend, TypedSendToNobody, TypedReceiveReply, TypedReceiveEnd, TypedClose, TypedReceiveFull,
     TypedOutOfMemory, TypedReceiveLast, TypedReceiveNothing, TypedServeBlock DEF Next

-----------------------------------------------------------------------------
(* The order of the messages *)

\* A message ends no sooner than one before it.
LEMMA PlacesGrow ==
  ASSUME Typed
  PROVE  \A j \in 0..MaxSent : \A k \in 0..MaxSent : j <= k => EndOf[j] <= EndOf[k]
<1> SUFFICES ASSUME NEW j \in 0..MaxSent, NEW k \in 0..MaxSent, j <= k
             PROVE  EndOf[j] <= EndOf[k]
  OBVIOUS
<1>1. EndOf[j] \in Nat /\ EndOf[k] \in Nat /\ Len(Message(j + 1)) \in Nat
      /\ (j < k => EndOf[j] + Len(Message(j + 1)) <= EndOf[k])
  <2>1. conn \in {"commands", "download", "block"} /\ hello \in Hellos /\ j + 1 \in Nat
    BY DEF Typed
  <2> QED BY <2>1, Places
<1>2. CASE j = k
  BY <1>1, <1>2
<1>3. CASE j < k
  BY <1>1, <1>3
<1> QED BY <1>2, <1>3, Bounds

\* The parts of the types that the order needs.
LEMMA TypeFacts ==
  ASSUME Typed
  PROVE  /\ sent \in 0..MaxSent /\ sent \in Nat
         /\ Full \in Nat
         /\ Len(message) = Full + BufLen
         /\ IsSeq(toServer) /\ Len(toServer) \in Nat
         /\ IsSeq(message) /\ IsSeq(handled) /\ Len(handled) \in Nat /\ DOMAIN handled = 1..Len(handled)
         /\ IsSeq(answers) /\ Len(answers) \in Nat /\ DOMAIN answers = 1..Len(answers)
         /\ (handled = <<>> <=> Len(handled) = 0)
         /\ \A k \in 0..MaxSent : EndOf[k] \in Nat
         /\ \A k \in 1..MaxSent : EndOf[k] = EndOf[k - 1] + Len(Message(k))
         /\ \A k \in Nat : IsSeq(Message(k)) /\ Len(Message(k)) \in Nat /\ Len(Message(k)) >= 1
<1>1. conn \in {"commands", "download", "block"} /\ hello \in Hellos /\ counter \in Nat /\ sent \in 0..MaxSent
      /\ IsSeq(toServer) /\ IsSeq(message) /\ IsSeq(handled) /\ IsSeq(answers)
      /\ Len(message) = BufLen * (counter + 1)
  BY DEF Typed, TypeOK
<1>2. Full \in Nat /\ Len(message) = Full + BufLen
  BY <1>1, BufferSizes DEF Full
<1>3. handled = <<>> <=> Len(handled) = 0
  BY <1>1, EmptyIsSeq
<1>4. sent \in Nat
  BY <1>1, Bounds
<1> QED BY <1>1, <1>2, <1>3, <1>4, Places, IsSeqLen

LEMMA Between ==
  \A a \in Nat, b \in Nat, i \in Nat, c \in Nat : b <= a /\ i >= 1 /\ a + i <= b + c => a - b + i \in 1..c
OBVIOUS

\* Every token of a message that is not handled is in the buffer or under way.
LEMMA UnhandledPlaces ==
  ASSUME Typed, NEW j \in 0..sent, EndOf[sent] - Len(toServer) - Full = EndOf[j],
         NEW k \in (j + 1)..sent, NEW i \in 1..Len(Message(k))
  PROVE  EndOf[k - 1] - EndOf[j] + i \in 1..(Full + Len(toServer))
<1>1. sent \in Nat /\ sent <= MaxSent /\ MaxSent \in Nat
  BY TypeFacts, Bounds
<1>2. /\ j \in 0..MaxSent /\ k \in 1..MaxSent /\ k \in 0..MaxSent /\ k - 1 \in 0..MaxSent /\ sent \in 0..MaxSent
      /\ j <= k - 1 /\ k <= sent /\ k \in Nat
  BY <1>1
<1>3. /\ EndOf[k] = EndOf[k - 1] + Len(Message(k)) /\ Len(Message(k)) \in Nat
      /\ EndOf[j] \in Nat /\ EndOf[k] \in Nat /\ EndOf[k - 1] \in Nat /\ EndOf[sent] \in Nat
      /\ Full \in Nat /\ Len(toServer) \in Nat
  BY <1>2, TypeFacts
<1>4. EndOf[j] <= EndOf[k - 1] /\ EndOf[k] <= EndOf[sent]
  BY <1>2, PlacesGrow
<1>5. i \in Nat /\ 1 <= i /\ i <= Len(Message(k))
  BY <1>3
<1>6. EndOf[sent] = EndOf[j] + (Full + Len(toServer))
  BY <1>3
<1>7. EndOf[k - 1] + i <= EndOf[j] + (Full + Len(toServer))
  BY <1>3, <1>4, <1>5, <1>6
<1>8. Full + Len(toServer) \in Nat /\ EndOf[k - 1] \in Nat /\ EndOf[j] \in Nat
  BY <1>3
<1> QED BY <1>4, <1>5, <1>7, <1>8, Between

\* What has been out of order stays so, and the connection is the same.
LEMMA StaysOut ==
  ASSUME Typed, [Next]_vars
  PROVE  /\ conn' = conn /\ hello' = hello
         /\ InOrder' => InOrder
         /\ Whole' => Whole
<1> DEFINE Stays == conn' = conn /\ hello' = hello /\ (torn => torn') /\ (early => early') /\ (cut => cut')
<1>1. Stays
  <2>1. CASE Send
    BY <2>1 DEF Send, serverVars
  <2>2. CASE ReceiveReply
    BY <2>2 DEF ReceiveReply, serverVars
  <2>3. CASE SendToNobody \/ ReceiveEnd \/ Close
    BY <2>3 DEF SendToNobody, ReceiveEnd, Close, serverVars
  <2>4. CASE ReceiveFull \/ ReceiveFullOutOfMemory \/ ReceiveNothing
    BY <2>4 DEF ReceiveFull, ReceiveFullOutOfMemory, ReceiveNothing, clientVars
  <2>5. CASE ReceiveLast
    BY <2>5 DEF ReceiveLast, clientVars
  <2>6. CASE ServeBlock
    BY <2>6 DEF ServeBlock, clientVars
  <2>7. CASE UNCHANGED vars
    BY <2>7 DEF vars, clientVars, serverVars
  <2> HIDE DEF Stays
  <2> QED BY <2>1, <2>2, <2>3, <2>4, <2>5, <2>6, <2>7 DEF Next
<1>2. HelloEndsShort' = HelloEndsShort
  BY <1>1 DEF HelloEndsShort
<1> QED BY <1>1, <1>2 DEF InOrder, Orderly, Whole

\* Steps of the client leave what the server has handled.
LEMMA HandledByClient ==
  ASSUME MessagesInv, [Next]_vars, UNCHANGED <<server, handled>>, sent' \in Nat, sent <= sent'
  PROVE  Handled'
<1>1. Typed /\ Handled /\ conn' = conn /\ hello' = hello /\ (InOrder' => InOrder)
  BY StaysOut DEF MessagesInv
<1>2. SUFFICES ASSUME InOrder' PROVE (server # "crashed" /\ HandledInOrder)'
  BY DEF Handled
<1>3. server # "crashed" /\ Len(handled) <= sent /\ \A k \in DOMAIN handled : handled[k] = Sent(k)
  BY <1>1, <1>2 DEF Handled, HandledInOrder
<1>4. Len(handled) \in Nat /\ sent \in Nat
  BY <1>1, TypeFacts
<1>5. Len(handled') <= sent' /\ server' # "crashed"
  BY <1>3, <1>4
<1>6. \A k : Sent(k)' = Sent(k)
  BY <1>1, SameMessages
<1> QED BY <1>3, <1>5, <1>6 DEF HandledInOrder

\* The messages that are not handled stay where they are when neither the buffer nor the stream changes.
LEMMA FramedSame ==
  ASSUME Framed, UNCHANGED <<conn, hello, toServer, message, counter, handled, sent>>
  PROVE  Framed'
<1>1. EndOf' = EndOf /\ \A k : Message(k)' = Message(k)
  BY SameMessages
<1>2. PICK j \in 0..sent : FramedAt(j)
  BY DEF Framed
<1>3. FramedAt(j)'
  BY <1>1, <1>2 DEF FramedAt, Unhandled, Full
<1> QED BY <1>2, <1>3 DEF Framed

-----------------------------------------------------------------------------
(* The client sends *)

LEMMA FramedSend ==
  ASSUME Typed, Framed, Send
  PROVE  Framed'
<1> DEFINE new == sent + 1
<1>1. /\ UNCHANGED <<conn, hello, server, message, counter, handled>>
      /\ sent' = new /\ sent < MaxSent
  <2>1. sent \in Nat /\ sent < (IF conn = "block" THEN 1 ELSE MaxSent)
    BY TypeFacts DEF Send, MaySend
  <2>2. sent < MaxSent
    BY <2>1, Bounds
  <2> QED BY <2>2 DEF Send, serverVars
<1>2. EndOf' = EndOf /\ (\A k : Message(k)' = Message(k) /\ Sent(k)' = Sent(k)) /\ Full' = Full
  BY <1>1, SameMessages DEF Full
<1>3. new \in 1..MaxSent /\ new \in Nat /\ new - 1 = sent /\ sent \in Nat
  <2>1. sent \in Nat
    BY TypeFacts
  <2> QED BY <1>1, <2>1, Bounds
<1>4. /\ EndOf[new] = EndOf[sent] + Len(Message(new)) /\ IsSeq(Message(new)) /\ Len(Message(new)) \in Nat
      /\ EndOf[sent] \in Nat /\ Len(toServer) \in Nat /\ IsSeq(toServer) /\ Full \in Nat
  <2>1. EndOf[new] = EndOf[new - 1] + Len(Message(new))
    BY <1>3, TypeFacts
  <2>2. sent \in 0..MaxSent
    BY TypeFacts
  <2> QED BY <1>3, <2>1, <2>2, TypeFacts
<1>5. toServer' = toServer \o Message(new)
  BY <1>1, <1>2 DEF Send, Message
<1>6. /\ Len(toServer') = Len(toServer) + Len(Message(new))
      /\ \A i \in 1..(Len(toServer) + Len(Message(new))) :
           toServer'[i] = IF i <= Len(toServer) THEN toServer[i] ELSE Message(new)[i - Len(toServer)]
  BY <1>4, <1>5, ConcatIsSeq
<1>7. PICK j \in 0..sent : FramedAt(j)
  BY DEF Framed
<1>8. EndOf[j] \in Nat /\ EndOf[sent] - Len(toServer) - Full = EndOf[j] /\ j \in Nat
  <2>1. j \in 0..MaxSent /\ j \in Nat
    BY <1>1, <1>3, Bounds
  <2>2. EndOf[j] \in Nat
    BY <2>1, TypeFacts
  <2> QED BY <1>7, <2>1, <2>2 DEF FramedAt
<1>9. EndOf[new] - Len(toServer') - Full = EndOf[j]
  <2> HIDE DEF new
  <2> QED BY <1>4, <1>6, <1>8
<1>10. ASSUME NEW k \in (j + 1)..new, NEW i \in 1..Len(Message(k))
       PROVE  Unhandled(EndOf[k - 1] - EndOf[j] + i)' = Message(k)[i]
  <2> DEFINE p == EndOf[k - 1] - EndOf[j] + i
  <2>1. CASE k # new
    <3>1. k \in (j + 1)..sent
      BY <1>3, <1>8, <2>1
    <3>2. p \in 1..(Full + Len(toServer)) /\ Unhandled(p) = Message(k)[i]
      BY <1>7, <1>8, <3>1, UnhandledPlaces DEF FramedAt
    <3> HIDE DEF p
    <3>3. Unhandled(p)' = IF p <= Full THEN message[p] ELSE toServer'[p - Full]
      <4>1. p' = p
        BY <1>2 DEF p
      <4> QED BY <1>1, <1>2, <4>1 DEF Unhandled
    <3>4. ~ (p <= Full) => p - Full \in 1..(Len(toServer) + Len(Message(new))) /\ p - Full <= Len(toServer)
      BY <1>4, <3>2
    <3>5. Unhandled(p)' = Unhandled(p)
      BY <1>6, <3>3, <3>4 DEF Unhandled
    <3>6. p' = p
      BY <1>2 DEF p
    <3> QED BY <3>2, <3>5 DEF p
  <2>2. CASE k = new
    <3>1. k - 1 = sent /\ i \in Nat /\ i >= 1 /\ i <= Len(Message(new))
      BY <1>3, <1>4, <2>2
    <3>2. p = Full + Len(toServer) + i
      BY <1>4, <1>8, <3>1
    <3>3. p' = p
      BY <1>2
    <3> HIDE DEF p, new
    <3>4. Unhandled(p)' = IF p <= Full THEN message[p] ELSE toServer'[p - Full]
      BY <1>1, <1>2, <3>3 DEF Unhandled
    <3>5. ~ (p <= Full) /\ p - Full = Len(toServer) + i
      BY <1>4, <3>1, <3>2
    <3>6. /\ Len(toServer) + i \in 1..(Len(toServer) + Len(Message(new)))
          /\ ~ (Len(toServer) + i <= Len(toServer)) /\ Len(toServer) + i - Len(toServer) = i
      BY <1>4, <3>1
    <3>7. Unhandled(p)' = Message(k)[i]
      BY <1>6, <2>2, <3>4, <3>5, <3>6
    <3> QED BY <3>7 DEF p
  <2> QED BY <2>1, <2>2
<1>11. j \in 0..new
  BY <1>3, <1>7, <1>8
<1>12. Len(handled) <= j /\ (conn # "commands" => Len(handled) = j)
  BY <1>7 DEF FramedAt
<1> HIDE DEF new
<1>13. FramedAt(j)'
  <2>1. /\ EndOf'[sent'] - Len(toServer') - Full' = EndOf'[j]
        /\ Len(handled') <= j /\ (conn' # "commands" => Len(handled') = j)
    BY <1>1, <1>2, <1>9, <1>12
  <2>2. \A k \in (j + 1)..sent' : \A i \in 1..Len(Message(k)') :
          Unhandled(EndOf[k - 1] - EndOf[j] + i)' = Message(k)'[i]
    BY <1>1, <1>2, <1>10
  <2> QED BY <2>1, <2>2 DEF FramedAt
<1> QED BY <1>1, <1>11, <1>13 DEF Framed

LEMMA OrderSend ==
  ASSUME MessagesInv, Send
  PROVE  Handled' /\ Serving'
<1>1. Typed /\ [Next]_vars /\ (InOrder' => InOrder) /\ (Whole' => Whole) /\ conn' = conn /\ hello' = hello
  <2>1. Typed /\ [Next]_vars
    BY DEF MessagesInv, Next
  <2> QED BY <2>1, StaysOut
<1>2. sent' = sent + 1 /\ sent \in Nat /\ Len(handled) \in Nat /\ Len(answers) \in Nat
      /\ (handled = <<>> <=> Len(handled) = 0)
  BY <1>1, TypeFacts DEF Send
<1>3. UNCHANGED <<server, message, counter, handled, toClient, response, answers, cut>>
  BY DEF Send, serverVars
<1>4. Handled'
  BY <1>1, <1>2, <1>3, HandledByClient
<1>5. SUFFICES ASSUME InOrder', server' = "serving"
               PROVE  (/\ Framed /\ HelloFirst /\ IsSeq(toClient) /\ IsSeq(response)
                       /\ Whole => Turn /\ Answered)'
  BY <1>4 DEF Serving
<1>6. /\ Framed /\ HelloFirst /\ IsSeq(toClient) /\ IsSeq(response)
      /\ Whole => Turn /\ Answered
  BY <1>1, <1>3, <1>5 DEF MessagesInv, Serving
<1>7. Framed'
  BY <1>1, <1>6, FramedSend
<1>8. conn = "commands" /\ handled = <<>> => sent' <= 1
  <2>1. ~ early'
    BY <1>5 DEF InOrder, Orderly
  <2>2. ~ (conn = "commands" /\ sent' > 1 /\ handled = <<>>)
    BY <2>1 DEF Send
  <2> QED BY <1>2, <2>2
<1>9. HelloFirst'
  BY <1>1, <1>3, <1>8 DEF HelloFirst
<1>10. IsSeq(toClient)' /\ IsSeq(response)'
  BY <1>3, <1>6 DEF IsSeq
<1>11. ASSUME Whole' PROVE Turn' /\ Answered'
  <2>1. Turn /\ Answered /\ client = "ready"
    BY <1>1, <1>6, <1>11 DEF Send
  <2>2. toClient = <<>> /\ Len(answers) = Asked
        /\ (Len(handled) = sent \/ (conn = "commands" /\ sent = 1 /\ handled = <<>>))
    BY <2>1 DEF Turn, Answered
  <2>3. Len(handled) = sent
    BY <1>2, <1>8, <2>2
  <2>4. NeedsReply(sent') <=> ~ (conn = "commands" /\ sent = 0)
    BY <1>2 DEF NeedsReply
  <2>6. client' = IF NeedsReply(sent') THEN "waiting" ELSE "ready"
    BY DEF Send
  <2>7. Turn'
    <3>1. CASE NeedsReply(sent')
      <4>1. client' = "waiting" /\ sent' >= 1 /\ Len(handled') = sent' - 1 /\ toClient' = <<>> /\ Len(handled') + 1 >= sent'
        BY <1>2, <1>3, <2>2, <2>3, <2>6, <3>1
      <4>2. NeedsReply(sent)'
        BY <1>1, <3>1 DEF NeedsReply
      <4> QED BY <4>1, <4>2 DEF Turn
    <3>2. CASE ~ NeedsReply(sent')
      <4>1. client' = "ready" /\ conn' = "commands" /\ sent' = 1 /\ handled' = <<>> /\ toClient' = <<>>
            /\ Len(handled') + 1 >= sent'
        BY <1>1, <1>2, <1>3, <2>2, <2>3, <2>4, <2>6, <3>2
      <4> QED BY <4>1 DEF Turn
    <3> QED BY <3>1, <3>2
  <2>8. Answered'
    <3>1. \A i \in DOMAIN answers' : answers'[i] \in RepliesTo(IF conn = "commands" THEN i + 1 ELSE i)'
      <4>1. ASSUME NEW i PROVE RepliesTo(IF conn = "commands" THEN i + 1 ELSE i)' = RepliesTo(IF conn = "commands" THEN i + 1 ELSE i)
        BY <1>1 DEF RepliesTo
      <4> QED BY <1>3, <2>1, <4>1 DEF Answered
    <3>2. Asked = IF conn = "commands" /\ sent > 0 THEN sent - 1 ELSE sent
      BY DEF Asked
    <3>3. Asked' = IF conn = "commands" /\ sent' > 0 THEN sent' - 1 ELSE sent'
      BY <1>1 DEF Asked
    <3>4. IF NeedsReply(sent') THEN Len(answers) + 1 = Asked' ELSE Len(answers) = Asked'
      BY <1>2, <2>2, <2>4, <3>2, <3>3
    <3>5. (client' = "ready" => Len(answers') = Asked') /\ (client' = "waiting" => Len(answers') + 1 = Asked')
      BY <1>3, <2>6, <3>4
    <3> QED BY <1>1, <3>1, <3>5 DEF Answered
  <2> QED BY <2>7, <2>8
<1> QED BY <1>7, <1>9, <1>10, <1>11

-----------------------------------------------------------------------------
(* The client's other steps *)

LEMMA OrderSendToNobody ==
  ASSUME MessagesInv, SendToNobody
  PROVE  Handled' /\ Serving'
<1>1. Typed /\ [Next]_vars
  BY DEF MessagesInv, Next
<1>2. sent' = sent + 1 /\ sent \in Nat
  BY <1>1, TypeFacts DEF SendToNobody
<1>3. UNCHANGED <<server, handled>> /\ server # "serving"
  BY DEF SendToNobody, serverVars
<1>4. Handled'
  BY <1>1, <1>2, <1>3, HandledByClient
<1> QED BY <1>3, <1>4 DEF Serving

LEMMA OrderReceiveReply ==
  ASSUME MessagesInv, ReceiveReply
  PROVE  Handled' /\ Serving'
<1>1. Typed /\ [Next]_vars /\ (InOrder' => InOrder) /\ (Whole' => Whole) /\ conn' = conn /\ hello' = hello
  <2>1. Typed /\ [Next]_vars
    BY DEF MessagesInv, Next
  <2> QED BY <2>1, StaysOut
<1>2. UNCHANGED <<toServer, sent, server, message, counter, handled>> /\ client = "waiting"
  BY DEF ReceiveReply, serverVars
<1>3. Handled'
  <2>1. sent' \in Nat /\ sent <= sent'
    BY <1>1, <1>2, TypeFacts
  <2> QED BY <1>1, <1>2, <2>1, HandledByClient
<1>4. SUFFICES ASSUME InOrder', server' = "serving"
               PROVE  (/\ Framed /\ HelloFirst /\ IsSeq(toClient) /\ IsSeq(response)
                       /\ Whole => Turn /\ Answered)'
  BY <1>3 DEF Serving
<1>5. /\ Framed /\ HelloFirst /\ IsSeq(toClient) /\ IsSeq(response)
      /\ Whole => Turn /\ Answered
  BY <1>1, <1>2, <1>4 DEF MessagesInv, Serving
<1>6. Framed' /\ HelloFirst'
  BY <1>1, <1>2, <1>5, FramedSame DEF HelloFirst
<1>7. PICK read \in Reads(toClient, Len(toClient)), old \in {<<>>, response} :
        \E text \in {read \o Rest(old, read)} : \E value \in {Parse(text)} :
          /\ response' = text /\ toClient' = Rest(toClient, read)
          /\ cut' = (cut \/ (conn # "block" /\ toClient' # <<>>))
          /\ answers' = Append(answers, value)
          /\ client' = IF conn = "download" /\ sent % 2 = 1 /\ StringOf(value, "IP") = NoString
                       THEN "crashed" ELSE "ready"
  <2>1. Replied = Reads(toClient, Len(toClient))
    BY <1>2, <1>4 DEF Replied
  <2> QED BY <2>1 DEF ReceiveReply
<1> DEFINE text == read \o Rest(old, read)
<1>8. /\ response' = text /\ toClient' = Rest(toClient, read)
      /\ cut' = (cut \/ (conn # "block" /\ toClient' # <<>>))
      /\ answers' = Append(answers, Parse(text))
      /\ client' \in {"ready", "crashed"}
  BY <1>7
<1>9. /\ IsSeq(read) /\ Len(read) \in Nat /\ Len(read) >= 1 /\ Len(toClient) \in Nat /\ Len(read) <= Len(toClient)
      /\ \A i \in 1..Len(read) : read[i] = toClient[i]
      /\ IsSeq(toClient') /\ Len(toClient') = Len(toClient) - Len(read)
  BY <1>5, <1>8, IsSeqLen, ReadFacts
<1>10. IsSeq(text) /\ Len(text) >= Len(read) /\ \A i \in 1..Len(read) : text[i] = read[i]
  <2>1. IsSeq(old)
    BY <1>5, EmptyIsSeq
  <2>2. IsSeq(Rest(old, read)) /\ Len(Rest(old, read)) \in Nat
    <3>1. IsSeq(Rest(old, read))
      BY <1>9, <2>1, TailIsSeq DEF Rest
    <3> QED BY <3>1, IsSeqLen
  <2>3. /\ IsSeq(text) /\ Len(text) = Len(read) + Len(Rest(old, read))
        /\ \A i \in 1..(Len(read) + Len(Rest(old, read))) :
             text[i] = IF i <= Len(read) THEN read[i] ELSE Rest(old, read)[i - Len(read)]
    BY <1>9, <2>2, ConcatIsSeq
  <2> HIDE DEF text
  <2>4. \A i \in 1..Len(read) : i \in 1..(Len(read) + Len(Rest(old, read))) /\ i <= Len(read)
    BY <1>9, <2>2
  <2> QED BY <1>9, <2>2, <2>3, <2>4
<1>11. IsSeq(response)' /\ IsSeq(toClient)'
  BY <1>8, <1>9, <1>10 DEF IsSeq
<1> HIDE DEF text
<1>12. ASSUME Whole' PROVE Turn' /\ Answered'
  <2>1. Turn /\ Answered /\ conn # "block" /\ ~ cut'
    BY <1>1, <1>5, <1>12 DEF Whole
  <2>2. toClient' = <<>>
    BY <1>8, <2>1
  <2>3. Len(read) = Len(toClient)
    BY <1>9, <2>2, EmptyIsSeq
  <2>4. toClient # <<>>
    BY <1>9, EmptyIsSeq
  <2>5. PICK reply \in RepliesTo(sent) :
          Len(handled) = sent /\ toClient = Text(reply) /\ sent >= 1 /\ NeedsReply(sent)
    BY <1>2, <2>1, <2>4 DEF Turn
  <2>6. sent \in 1..MaxSent /\ sent \in Nat /\ Len(answers) \in Nat
    <3>1. sent \in 0..MaxSent /\ sent \in Nat /\ Len(answers) \in Nat
      BY <1>1, TypeFacts
    <3> QED BY <2>5, <3>1, Bounds
  <2>7. reply \in Known
    BY <1>1, <2>1, <2>6, ReplyIsKnown DEF Typed
  <2>8. Parse(text) = reply
    <3>1. Len(Text(reply)) <= Len(text) /\ \A i \in 1..Len(Text(reply)) : text[i] = Text(reply)[i]
      BY <1>9, <1>10, <2>3, <2>5
    <3> QED BY <1>10, <2>7, <3>1, ParseStart
  <2>9. Turn'
    BY <1>2, <1>8, <2>2, <2>5, <2>6 DEF Turn
  <2>10. Len(answers) + 1 = Asked /\ \A i \in DOMAIN answers : answers[i] \in RepliesTo(IF conn = "commands" THEN i + 1 ELSE i)
    BY <1>2, <2>1 DEF Answered
  <2>11. sent = IF conn = "commands" THEN (Len(answers) + 1) + 1 ELSE Len(answers) + 1
    BY <2>5, <2>6, <2>10 DEF Asked
  <2>12. /\ Len(answers') = Len(answers) + 1 /\ DOMAIN answers' = 1..(Len(answers) + 1)
         /\ DOMAIN answers = 1..Len(answers)
         /\ \A i \in 1..Len(answers) : answers'[i] = answers[i]
         /\ answers'[Len(answers) + 1] \in RepliesTo(sent)
    BY <1>1, <1>8, <2>8, AppendIsSeq, TypeFacts
  <2>13. ASSUME NEW i \in DOMAIN answers' PROVE answers'[i] \in RepliesTo(IF conn = "commands" THEN i + 1 ELSE i)
    <3>1. CASE i \in 1..Len(answers)
      BY <2>10, <2>12, <3>1
    <3>2. CASE i = Len(answers) + 1
      BY <2>11, <2>12, <3>2
    <3> QED BY <2>6, <2>12, <3>1, <3>2
  <2>14. ASSUME NEW k PROVE RepliesTo(IF conn = "commands" THEN k + 1 ELSE k)' = RepliesTo(IF conn = "commands" THEN k + 1 ELSE k)
    BY <1>1 DEF RepliesTo
  <2>15. Len(answers') = Asked' /\ client' # "waiting"
    BY <1>1, <1>2, <1>8, <2>10, <2>12 DEF Asked
  <2> QED BY <2>9, <2>13, <2>14, <2>15 DEF Answered
<1> QED BY <1>6, <1>11, <1>12

\* A step that leaves the connection and the server as they are.
LEMMA OrderSame ==
  ASSUME MessagesInv, [Next]_vars, client' \in {client, "closed"},
         UNCHANGED <<toServer, toClient, sent, response, answers, cut, early, server, message, counter, handled, torn>>
  PROVE  Handled' /\ Serving'
<1>1. Typed /\ (InOrder' => InOrder) /\ (Whole' => Whole) /\ conn' = conn /\ hello' = hello
  BY StaysOut DEF MessagesInv
<1>2. Handled'
  <2>1. sent' \in Nat /\ sent <= sent'
    BY <1>1, TypeFacts
  <2> QED BY <2>1, HandledByClient
<1>3. SUFFICES ASSUME InOrder', server' = "serving"
               PROVE  (/\ Framed /\ HelloFirst /\ IsSeq(toClient) /\ IsSeq(response)
                       /\ Whole => Turn /\ Answered)'
  BY <1>2 DEF Serving
<1>4. /\ Framed /\ HelloFirst /\ IsSeq(toClient) /\ IsSeq(response)
      /\ Whole => Turn /\ Answered
  BY <1>1, <1>3 DEF MessagesInv, Serving
<1>5. Framed' /\ HelloFirst' /\ IsSeq(toClient)' /\ IsSeq(response)'
  BY <1>1, <1>4, FramedSame DEF HelloFirst, IsSeq
<1>6. ASSUME Whole' PROVE Turn' /\ Answered'
  <2>1. Turn /\ Answered
    BY <1>1, <1>4, <1>6
  <2>2. RepliesTo(sent)' = RepliesTo(sent) /\ NeedsReply(sent)' = NeedsReply(sent) /\ Asked' = Asked
    BY <1>1 DEF RepliesTo, NeedsReply, Asked
  <2>3. ASSUME NEW k PROVE RepliesTo(IF conn = "commands" THEN k + 1 ELSE k)' = RepliesTo(IF conn = "commands" THEN k + 1 ELSE k)
    BY <1>1 DEF RepliesTo
  <2>4. Turn'
    BY <1>1, <2>1, <2>2 DEF Turn
  <2>5. Answered'
    BY <1>1, <2>1, <2>2, <2>3 DEF Answered
  <2> QED BY <2>4, <2>5
<1> QED BY <1>5, <1>6

\* A step after which the server no longer serves the connection.
LEMMA OrderEnds ==
  ASSUME MessagesInv, [Next]_vars, UNCHANGED <<sent, handled>>, server' \in {"closed", "left"}, server = "serving"
  PROVE  Handled' /\ Serving'
<1>1. Typed /\ (InOrder' => InOrder) /\ conn' = conn /\ hello' = hello
  BY StaysOut DEF MessagesInv
<1>2. ASSUME InOrder' PROVE HandledInOrder'
  <2>1. HandledInOrder
    BY <1>1, <1>2 DEF MessagesInv, Handled
  <2>2. \A k : Sent(k)' = Sent(k)
    BY <1>1, SameMessages
  <2> QED BY <2>1, <2>2 DEF HandledInOrder
<1> QED BY <1>2 DEF Handled, Serving

LEMMA OrderClient ==
  ASSUME MessagesInv, SendToNobody \/ ReceiveReply \/ ReceiveEnd \/ Close \/ UNCHANGED vars
  PROVE  Handled' /\ Serving'
<1>1. CASE ReceiveEnd
  <2>1. [Next]_vars /\ UNCHANGED <<sent, server, handled>> /\ server # "serving"
    BY <1>1 DEF ReceiveEnd, Next, serverVars
  <2>2. sent' \in Nat /\ sent <= sent'
    BY <2>1, TypeFacts DEF MessagesInv
  <2>3. Handled'
    BY <2>1, <2>2, HandledByClient
  <2> QED BY <2>1, <2>3 DEF Serving
<1>2. CASE Close
  <2>1. [Next]_vars /\ client' \in {client, "closed"} /\
        UNCHANGED <<toServer, toClient, sent, response, answers, cut, early, server, message, counter, handled, torn>>
    BY <1>2 DEF Close, Next, serverVars
  <2> QED BY <2>1, OrderSame
<1>3. CASE UNCHANGED vars
  <2>1. [Next]_vars /\ client' \in {client, "closed"} /\
        UNCHANGED <<toServer, toClient, sent, response, answers, cut, early, server, message, counter, handled, torn>>
    BY <1>3 DEF vars, clientVars, serverVars
  <2> QED BY <2>1, OrderSame
<1> QED BY <1>1, <1>2, <1>3, OrderSendToNobody, OrderReceiveReply

-----------------------------------------------------------------------------
(* The server reads *)

LEMMA Further ==
  \A a \in Nat, b \in Nat, e \in Nat, i \in Nat, n \in Nat :
    b = a + n /\ b <= e /\ i >= 1 => e - b + i \in Nat /\ e - b + i >= 1 /\ (e - b + i) + n = e - a + i
OBVIOUS

\* What the server has not handled yet is found after a read where it was, behind what has moved
\* into the buffer.
LEMMA FramedFull ==
  ASSUME Typed, Framed, ReceiveFull
  PROVE  Framed'
<1> DEFINE read == SubSeq(toServer, 1, BufLen)
           memory == Copied(message, Full, read)
<1>1. /\ toServer' = Rest(toServer, read) /\ message' = memory \o Blank(BufLen) /\ counter' = counter + 1
      /\ UNCHANGED <<conn, hello, sent, handled>>
  BY DEF ReceiveFull, clientVars, Full
<1>2. EndOf' = EndOf /\ (\A k : Message(k)' = Message(k))
  BY <1>1, SameMessages
<1>3. Full \in Nat /\ Full' = Full + BufLen /\ BufLen \in Nat /\ Len(toServer) \in Nat /\ sent \in Nat
  <2>1. counter \in Nat
    BY DEF Typed
  <2> QED BY <1>1, <2>1, BufferSizes, Bounds, TypeFacts DEF Full
<1>4. read \in Reads(toServer, BufLen) /\ Len(read) = BufLen
  <2>1. Len(toServer) >= BufLen
    BY DEF ReceiveFull
  <2>2. BufLen \in 1..(IF Len(toServer) < BufLen THEN Len(toServer) ELSE BufLen) /\ BufLen \in 0..Len(toServer)
    BY <1>3, <2>1, Bounds
  <2> QED BY <2>2, HeadIsSeq, TypeFacts DEF Reads
<1>5. /\ IsSeq(read)
      /\ \A i \in 1..BufLen : read[i] = toServer[i]
      /\ Len(toServer') = Len(toServer) - BufLen /\ BufLen <= Len(toServer)
      /\ \A i \in 1..(Len(toServer) - BufLen) : toServer'[i] = toServer[BufLen + i]
  <2>1. IsSeq(toServer)
    BY TypeFacts
  <2> HIDE DEF read
  <2> QED BY <1>1, <1>3, <1>4, <2>1, ReadFacts
<1> HIDE DEF read
<1>6. /\ IsSeq(memory) /\ Len(memory) = Full + BufLen
      /\ \A i \in 1..Full : memory[i] = message[i]
      /\ \A i \in 1..BufLen : memory[Full + i] = read[i]
  <2>1. Len(read) <= BufLen
    BY <1>3, <1>4
  <2> QED BY <1>4, <1>5, <2>1, ReadInBuffer DEF Full
<1>7. \A i \in 1..(Full + BufLen) : message'[i] = memory[i]
  <2>1. IsSeq(Blank(BufLen)) /\ Len(Blank(BufLen)) = BufLen
    BY <1>3, BlankFacts
  <2> HIDE DEF memory
  <2>2. \A i \in 1..(Full + BufLen + BufLen) : message'[i] = IF i <= Full + BufLen THEN memory[i] ELSE Blank(BufLen)[i - Len(memory)]
    BY <1>1, <1>6, <2>1, ConcatIsSeq
  <2>3. \A i \in 1..(Full + BufLen) : i \in 1..(Full + BufLen + BufLen) /\ i <= Full + BufLen
    BY <1>3
  <2> QED BY <2>2, <2>3
<1> HIDE DEF memory
<1>8. ASSUME NEW p \in 1..(Full + Len(toServer)), p' = p
      PROVE  Unhandled(p)' = Unhandled(p)
  <2>1. Unhandled(p)' = IF p <= Full + BufLen THEN message'[p] ELSE toServer'[p - (Full + BufLen)]
    BY <1>3, <1>8 DEF Unhandled
  <2>2. CASE p <= Full
    <3>1. p \in 1..Full /\ p \in 1..(Full + BufLen) /\ p <= Full + BufLen
      BY <1>3, <2>2
    <3> QED BY <1>6, <1>7, <2>1, <2>2, <3>1 DEF Unhandled
  <2>3. CASE ~ (p <= Full) /\ p <= Full + BufLen
    <3>1. p - Full \in 1..BufLen /\ p \in 1..(Full + BufLen) /\ Full + (p - Full) = p
      BY <1>3, <2>3
    <3>2. message'[p] = memory[Full + (p - Full)]
      BY <1>7, <3>1
    <3>3. message'[p] = toServer[p - Full]
      BY <1>5, <1>6, <3>1, <3>2
    <3> QED BY <2>1, <2>3, <3>3 DEF Unhandled
  <2>4. CASE ~ (p <= Full + BufLen)
    <3>1. ~ (p <= Full) /\ p - (Full + BufLen) \in 1..(Len(toServer) - BufLen)
          /\ BufLen + (p - (Full + BufLen)) = p - Full
      BY <1>3, <2>4
    <3>2. toServer'[p - (Full + BufLen)] = toServer[p - Full]
      BY <1>5, <3>1
    <3> QED BY <2>1, <2>4, <3>1, <3>2 DEF Unhandled
  <2> QED BY <2>2, <2>3, <2>4
<1>9. PICK j \in 0..sent : FramedAt(j)
  BY DEF Framed
<1>10. FramedAt(j)'
  <2>1. EndOf'[sent'] - Len(toServer') - Full' = EndOf'[j]
    <3>1. EndOf[sent] - Len(toServer) - Full = EndOf[j] /\ EndOf[sent] \in Nat
      BY <1>9, TypeFacts DEF FramedAt
    <3> QED BY <1>1, <1>2, <1>3, <1>5, <3>1
  <2>2. ASSUME NEW k \in (j + 1)..sent, NEW i \in 1..Len(Message(k))
        PROVE  Unhandled(EndOf[k - 1] - EndOf[j] + i)' = Message(k)[i]
    <3> DEFINE p == EndOf[k - 1] - EndOf[j] + i
    <3>1. p \in 1..(Full + Len(toServer)) /\ Unhandled(p) = Message(k)[i]
      BY <1>9, UnhandledPlaces DEF FramedAt
    <3>2. p' = p
      BY <1>2
    <3> HIDE DEF p
    <3>3. Unhandled(p)' = Unhandled(p)
      BY <1>8, <3>1, <3>2
    <3> QED BY <3>1, <3>3 DEF p
  <2> QED BY <1>1, <1>2, <1>9, <2>1, <2>2 DEF FramedAt
<1> QED BY <1>1, <1>9, <1>10 DEF Framed

\* A last read that is not torn ends with a message, and the buffer begins with the next one.
LEMMA FoundNext ==
  ASSUME Typed, NEW j \in 0..sent, FramedAt(j), NEW read \in Reads(toServer, BufLen - 1), ~ Torn(read)
  PROVE  /\ \E k \in (j + 1)..sent : EndOf[k] = EndOf[j] + (Full + Len(read))
         /\ j + 1 \in 1..sent
         /\ Parse(Copied(message, Full, read)) = Sent(j + 1)
<1> DEFINE memory == Copied(message, Full, read)
<1>1. /\ sent \in Nat /\ j \in Nat /\ j \in 0..MaxSent /\ sent \in 0..MaxSent /\ Full \in Nat
      /\ Len(toServer) \in Nat /\ IsSeq(toServer)
  <2>1. sent \in Nat /\ sent \in 0..MaxSent
    BY TypeFacts
  <2> QED BY <2>1, TypeFacts, Bounds
<1>2. EndOf[sent] - Len(toServer) - Full = EndOf[j] /\ EndOf[sent] \in Nat /\ EndOf[j] \in Nat
  BY <1>1, TypeFacts DEF FramedAt
<1>3. /\ IsSeq(read) /\ Len(read) \in Nat /\ Len(read) >= 1 /\ Len(read) <= BufLen /\ Len(read) <= Len(toServer)
      /\ \A i \in 1..Len(read) : read[i] = toServer[i]
  <2>1. BufLen - 1 \in Nat
    BY Bounds
  <2>2. /\ IsSeq(read) /\ Len(read) \in Nat /\ Len(read) >= 1 /\ Len(read) <= BufLen - 1 /\ Len(read) <= Len(toServer)
        /\ \A i \in 1..Len(read) : read[i] = toServer[i]
    BY <1>1, <2>1, ReadFacts
  <2> QED BY <2>2, Bounds
<1>4. PICK k \in 1..sent : EndOf[sent] - Len(toServer) + Len(read) = EndOf[k]
  BY DEF Torn
<1>5. k \in 0..MaxSent /\ k \in Nat /\ EndOf[k] \in Nat
  <2>1. k \in 0..MaxSent /\ k \in Nat
    BY <1>1, Bounds
  <2> QED BY <2>1, TypeFacts
<1>6. EndOf[k] = EndOf[j] + (Full + Len(read))
  BY <1>1, <1>2, <1>3, <1>4, <1>5
<1>7. j < k
  <2>1. ~ (EndOf[k] <= EndOf[j])
    BY <1>1, <1>2, <1>3, <1>5, <1>6
  <2>2. ~ (k <= j)
    BY <1>1, <1>5, <2>1, PlacesGrow
  <2> QED BY <1>1, <1>5, <2>2
<1>8. k \in (j + 1)..sent /\ j + 1 \in 1..sent /\ j + 1 \in Nat /\ j + 1 \in (j + 1)..sent /\ (j + 1) - 1 = j
  BY <1>1, <1>5, <1>7
<1>9. Len(Message(j + 1)) \in Nat /\ Len(Message(j + 1)) <= Full + Len(read)
  <2>1. EndOf[j] + Len(Message(j + 1)) <= EndOf[k] /\ Len(Message(j + 1)) \in Nat
    BY <1>1, <1>5, <1>7, <1>8, Places DEF Typed
  <2> QED BY <1>1, <1>2, <1>3, <1>6, <2>1
<1>10. /\ IsSeq(memory) /\ Len(memory) = Full + BufLen
       /\ \A i \in 1..Full : memory[i] = message[i]
       /\ \A i \in 1..Len(read) : memory[Full + i] = read[i]
  BY <1>3, ReadInBuffer DEF Full
<1> HIDE DEF memory
<1>11. ASSUME NEW i \in 1..Len(Message(j + 1)) PROVE memory[i] = Message(j + 1)[i]
  <2>1. Unhandled(EndOf[j] - EndOf[j] + i) = Message(j + 1)[i]
    BY <1>8 DEF FramedAt
  <2>2. EndOf[j] - EndOf[j] + i = i /\ i \in Nat /\ i >= 1 /\ i <= Full + Len(read)
    BY <1>1, <1>2, <1>3, <1>9
  <2>3. Unhandled(i) = Message(j + 1)[i]
    BY <2>1, <2>2
  <2>4. CASE i <= Full
    <3>1. i \in 1..Full
      BY <1>1, <2>2, <2>4
    <3> QED BY <1>10, <2>3, <2>4, <3>1 DEF Unhandled
  <2>5. CASE ~ (i <= Full)
    <3>1. i - Full \in 1..Len(read) /\ Full + (i - Full) = i
      BY <1>1, <1>3, <2>2, <2>5
    <3>2. memory[Full + (i - Full)] = toServer[i - Full]
      BY <1>3, <1>10, <3>1
    <3> QED BY <2>3, <2>5, <3>1, <3>2 DEF Unhandled
  <2> QED BY <2>4, <2>5
<1>12. Sent(j + 1) \in Known
  BY <1>8, SentIsKnown DEF Typed
<1>13. Parse(memory) = Sent(j + 1)
  <2>1. Len(Text(Sent(j + 1))) <= Len(memory) /\ \A i \in 1..Len(Text(Sent(j + 1))) : memory[i] = Text(Sent(j + 1))[i]
    <3>1. Len(Message(j + 1)) <= Len(memory)
      BY <1>1, <1>3, <1>9, <1>10, Bounds
    <3> QED BY <1>11, <3>1 DEF Message
  <2> QED BY <1>10, <1>12, <2>1, ParseStart
<1> QED BY <1>6, <1>8, <1>13 DEF memory

\* After such a read the buffer is that of the message after it.
LEMMA FramedLast ==
  ASSUME Typed, NEW j \in 0..sent, FramedAt(j), NEW k \in (j + 1)..sent, NEW read \in Reads(toServer, BufLen - 1),
         EndOf[k] = EndOf[j] + (Full + Len(read)),
         UNCHANGED <<conn, hello, sent>>, toServer' = Rest(toServer, read), counter' = 0,
         Len(handled') <= k, conn # "commands" => Len(handled') = k
  PROVE  Framed'
<1>1. EndOf' = EndOf /\ (\A m : Message(m)' = Message(m)) /\ Full' = 0
  <2>1. Full' = 0 * BufLen /\ 0 * BufLen = 0
    BY BufferSizes DEF Full
  <2> QED BY <2>1, SameMessages
<1>2. /\ sent \in Nat /\ sent \in 0..MaxSent /\ Full \in Nat /\ Len(toServer) \in Nat /\ IsSeq(toServer)
  BY TypeFacts
<1>3. j \in Nat /\ k \in Nat /\ j \in 0..MaxSent /\ k \in 0..MaxSent /\ k \in 0..sent /\ j < k
  BY <1>2, Bounds
<1>4. EndOf[sent] - Len(toServer) - Full = EndOf[j] /\ EndOf[sent] \in Nat /\ EndOf[j] \in Nat /\ EndOf[k] \in Nat
  BY <1>2, <1>3, TypeFacts DEF FramedAt
<1>5. /\ Len(read) \in Nat /\ Len(read) <= Len(toServer)
      /\ Len(toServer') = Len(toServer) - Len(read)
      /\ \A i \in 1..(Len(toServer) - Len(read)) : toServer'[i] = toServer[Len(read) + i]
  <2>1. BufLen - 1 \in Nat
    BY Bounds
  <2> QED BY <1>2, <2>1, ReadFacts
<1>6. EndOf[sent] - Len(toServer') - 0 = EndOf[k]
  BY <1>2, <1>4, <1>5
<1>7. ASSUME NEW m \in (k + 1)..sent, NEW i \in 1..Len(Message(m))
      PROVE  Unhandled(EndOf[m - 1] - EndOf[k] + i)' = Message(m)[i]
  <2> DEFINE p == EndOf[m - 1] - EndOf[k] + i
             q == EndOf[m - 1] - EndOf[j] + i
  <2>1. m \in (j + 1)..sent /\ m \in Nat /\ m - 1 \in 0..MaxSent /\ k <= m - 1
    BY <1>2, <1>3, Bounds
  <2>2. q \in 1..(Full + Len(toServer)) /\ Unhandled(q) = Message(m)[i]
    BY <1>4, <2>1, UnhandledPlaces DEF FramedAt
  <2>3. EndOf[m - 1] \in Nat /\ EndOf[m - 1] >= EndOf[k] /\ i \in Nat /\ i >= 1
    <3>1. EndOf[k] <= EndOf[m - 1]
      BY <1>3, <2>1, PlacesGrow
    <3>2. EndOf[m - 1] \in Nat /\ Len(Message(m)) \in Nat
      BY <2>1, TypeFacts
    <3> QED BY <1>4, <3>1, <3>2
  <2>4. p + (Full + Len(read)) = q /\ p \in Nat /\ p >= 1
    <3>1. Full + Len(read) \in Nat
      BY <1>2, <1>5
    <3>2. /\ EndOf[m - 1] - EndOf[k] + i \in Nat /\ EndOf[m - 1] - EndOf[k] + i >= 1
          /\ (EndOf[m - 1] - EndOf[k] + i) + (Full + Len(read)) = EndOf[m - 1] - EndOf[j] + i
      <4> HIDE DEF p, q
      <4>1. PICK n \in Nat : n = Full + Len(read)
        BY <3>1
      <4>2. EndOf[k] = EndOf[j] + n
        BY <4>1
      <4>3. /\ EndOf[m - 1] - EndOf[k] + i \in Nat /\ EndOf[m - 1] - EndOf[k] + i >= 1
            /\ (EndOf[m - 1] - EndOf[k] + i) + n = EndOf[m - 1] - EndOf[j] + i
        <5>1. EndOf[k] <= EndOf[m - 1]
          BY <2>3
        <5>2. PICK a \in Nat, b \in Nat, e \in Nat : a = EndOf[j] /\ b = EndOf[k] /\ e = EndOf[m - 1]
          BY <1>4, <2>3
        <5>3. b = a + n /\ b <= e /\ i \in Nat /\ i >= 1
          BY <2>3, <4>2, <5>1, <5>2
        <5>4. e - b + i \in Nat /\ e - b + i >= 1 /\ (e - b + i) + n = e - a + i
          BY <5>3, Further
        <5> QED BY <5>2, <5>4
      <4> QED BY <4>1, <4>3
    <3> QED BY <3>2
  <2>5. p' = p
    BY <1>1
  <2> HIDE DEF p, q
  <2>6. Unhandled(p)' = toServer'[p]
    <3>1. Unhandled(p)' = IF p <= 0 THEN message'[p] ELSE toServer'[p - 0]
      BY <1>1, <2>5 DEF Unhandled
    <3> QED BY <2>4, <3>1
  <2>7. p \in 1..(Len(toServer) - Len(read)) /\ ~ (q <= Full) /\ q - Full = Len(read) + p
    <3>1. q = p + (Full + Len(read)) /\ q <= Full + Len(toServer)
      BY <2>2, <2>4
    <3> QED BY <1>2, <1>5, <2>4, <3>1
  <2>8. toServer'[p] = Unhandled(q)
    BY <1>5, <2>7 DEF Unhandled
  <2>9. Unhandled(p)' = Message(m)[i]
    BY <2>2, <2>6, <2>8
  <2> QED BY <2>9 DEF p
<1>8. FramedAt(k)'
  <2>1. EndOf'[sent'] - Len(toServer') - Full' = EndOf'[k]
    BY <1>1, <1>6
  <2>2. \A m \in (k + 1)..sent' : \A i \in 1..Len(Message(m)') :
          Unhandled(EndOf[m - 1] - EndOf[k] + i)' = Message(m)'[i]
    BY <1>1, <1>7
  <2> QED BY <2>1, <2>2 DEF FramedAt
<1> QED BY <1>3, <1>8 DEF Framed

LEMMA OrderReceiveFull ==
  ASSUME MessagesInv, ReceiveFull
  PROVE  Handled' /\ Serving'
<1>1. Typed /\ [Next]_vars /\ (InOrder' => InOrder) /\ (Whole' => Whole) /\ conn' = conn /\ hello' = hello
  <2>1. Typed /\ [Next]_vars
    BY DEF MessagesInv, Next
  <2> QED BY <2>1, StaysOut
<1>2. UNCHANGED <<toClient, client, sent, response, answers, cut, early, server, handled, torn>>
  BY DEF ReceiveFull, clientVars
<1>3. Handled'
  <2>1. sent' \in Nat /\ sent <= sent'
    BY <1>1, <1>2, TypeFacts
  <2> QED BY <1>1, <1>2, <2>1, HandledByClient
<1>4. SUFFICES ASSUME InOrder', server' = "serving"
               PROVE  (/\ Framed /\ HelloFirst /\ IsSeq(toClient) /\ IsSeq(response)
                       /\ Whole => Turn /\ Answered)'
  BY <1>3 DEF Serving
<1>5. /\ Framed /\ HelloFirst /\ IsSeq(toClient) /\ IsSeq(response)
      /\ Whole => Turn /\ Answered
  BY <1>1, <1>2, <1>4 DEF MessagesInv, Serving
<1>6. Framed'
  BY <1>1, <1>5, FramedFull
<1>7. HelloFirst' /\ IsSeq(toClient)' /\ IsSeq(response)'
  BY <1>1, <1>2, <1>5 DEF HelloFirst, IsSeq
<1>8. ASSUME Whole' PROVE Turn' /\ Answered'
  <2>1. Turn /\ Answered
    BY <1>1, <1>5, <1>8
  <2>2. RepliesTo(sent)' = RepliesTo(sent) /\ NeedsReply(sent)' = NeedsReply(sent) /\ Asked' = Asked
    BY <1>1, <1>2 DEF RepliesTo, NeedsReply, Asked
  <2>3. ASSUME NEW k PROVE RepliesTo(IF conn = "commands" THEN k + 1 ELSE k)' = RepliesTo(IF conn = "commands" THEN k + 1 ELSE k)
    BY <1>1 DEF RepliesTo
  <2>4. Turn'
    BY <1>1, <1>2, <2>1, <2>2 DEF Turn
  <2>5. Answered'
    BY <1>1, <1>2, <2>1, <2>2, <2>3 DEF Answered
  <2> QED BY <2>4, <2>5
<1> QED BY <1>3, <1>6, <1>7, <1>8

\* The next message is the one that HandledInOrder wants next, and says what it is.
LEMMA NextMessage ==
  ASSUME Typed, NEW j \in 0..sent, FramedAt(j), HelloFirst, j + 1 \in 1..sent
  PROVE  Sent(j + 1) = Sent(Len(handled) + 1)
<1>1. sent \in Nat /\ Len(handled) \in Nat /\ (handled = <<>> <=> Len(handled) = 0) /\ j \in Nat
  BY TypeFacts
<1>2. Len(handled) <= j /\ (conn # "commands" => Len(handled) = j)
  BY DEF FramedAt
<1>3. CASE conn # "commands" \/ handled = <<>>
  <2>1. Len(handled) = j
    BY <1>1, <1>2, <1>3 DEF HelloFirst
  <2> QED BY <2>1
<1>4. CASE conn = "commands" /\ handled # <<>>
  BY <1>1, <1>2, <1>4 DEF Sent
<1> QED BY <1>3, <1>4

\* One more message is handled, the next one.
LEMMA HandledNext ==
  ASSUME Typed, HandledInOrder, handled' = Append(handled, Sent(Len(handled) + 1)), Len(handled) + 1 <= sent,
         UNCHANGED <<conn, hello, sent>>
  PROVE  HandledInOrder' /\ Len(handled') = Len(handled) + 1 /\ handled' # <<>>
<1>1. IsSeq(handled) /\ Len(handled) \in Nat /\ DOMAIN handled = 1..Len(handled)
  BY TypeFacts
<1>2. /\ Len(handled') = Len(handled) + 1 /\ handled' # <<>>
      /\ DOMAIN handled' = 1..(Len(handled) + 1)
      /\ \A i \in 1..Len(handled) : handled'[i] = handled[i]
      /\ handled'[Len(handled) + 1] = Sent(Len(handled) + 1)
  BY <1>1, AppendIsSeq
<1>3. ASSUME NEW k \in DOMAIN handled' PROVE handled'[k] = Sent(k)
  <2>1. CASE k \in 1..Len(handled)
    BY <1>1, <1>2, <2>1 DEF HandledInOrder
  <2>2. CASE k = Len(handled) + 1
    BY <1>2, <2>2
  <2> QED BY <1>1, <1>2, <2>1, <2>2
<1>4. \A k : Sent(k)' = Sent(k)
  BY SameMessages
<1> QED BY <1>2, <1>3, <1>4 DEF HandledInOrder

LEMMA OrderReceiveLast ==
  ASSUME MessagesInv, ReceiveLast
  PROVE  Handled' /\ Serving'
<1>1. Typed /\ [Next]_vars /\ (InOrder' => InOrder) /\ (Whole' => Whole) /\ conn' = conn /\ hello' = hello
  <2>1. Typed /\ [Next]_vars
    BY DEF MessagesInv, Next
  <2> QED BY <2>1, StaysOut
<1>2. UNCHANGED <<client, sent, response, answers, cut, early>> /\ conn # "block" /\ server = "serving"
  BY DEF ReceiveLast, clientVars
<1>3. SUFFICES ASSUME InOrder'
               PROVE  /\ server' # "crashed" /\ HandledInOrder'
                      /\ server' = "serving" =>
                           (/\ Framed /\ HelloFirst /\ IsSeq(toClient) /\ IsSeq(response)
                            /\ Whole => Turn /\ Answered)'
  BY DEF Handled, Serving
<1>4. /\ HandledInOrder /\ Framed /\ HelloFirst /\ IsSeq(toClient) /\ IsSeq(response)
      /\ Whole => Turn /\ Answered
  BY <1>1, <1>2, <1>3 DEF MessagesInv, Handled, Serving
<1>5. PICK read \in Reads(toServer, BufLen - 1) :
        \E memory \in {Copied(message, Full, read)} : \E value \in {Parse(memory)} :
          /\ toServer' = Rest(toServer, read)
          /\ torn' = (torn \/ Torn(read))
          /\ IF GetCommand(value) = NoString
             THEN server' = "crashed" /\ UNCHANGED <<toClient, message, counter, handled>>
             ELSE /\ handled' = Append(handled, value)
                  /\ Reset(Left(memory, value))
                  /\ \/ \E reply \in Replies(value) : toClient' = toClient \o reply /\ server' = "serving"
                     \/ server' = "closed" /\ toClient' = toClient \o LastReply(value)
  BY DEF ReceiveLast, Full
<1>6. ~ Torn(read)
  BY <1>3, <1>5 DEF InOrder, Orderly
<1>7. PICK j \in 0..sent : FramedAt(j)
  BY <1>4 DEF Framed
<1>8. PICK k \in (j + 1)..sent : EndOf[k] = EndOf[j] + (Full + Len(read))
  BY <1>1, <1>6, <1>7, FoundNext
<1>9. j + 1 \in 1..sent /\ Parse(Copied(message, Full, read)) = Sent(j + 1)
  BY <1>1, <1>6, <1>7, FoundNext
<1> DEFINE next == Len(handled) + 1
           value == Sent(next)
<1>10. /\ sent \in Nat /\ Len(handled) \in Nat /\ j \in Nat /\ k \in Nat /\ (handled = <<>> <=> Len(handled) = 0)
       /\ sent <= MaxSent /\ Len(handled) <= j /\ (conn # "commands" => Len(handled) = j)
  <2>1. sent \in Nat /\ sent \in 0..MaxSent /\ Len(handled) \in Nat /\ (handled = <<>> <=> Len(handled) = 0)
    BY <1>1, TypeFacts
  <2> QED BY <1>7, <1>8, <2>1, Bounds DEF FramedAt
<1>11. Parse(Copied(message, Full, read)) = value
  BY <1>1, <1>4, <1>7, <1>9, NextMessage
<1>12. next \in Nat /\ next >= 1 /\ next <= sent /\ next \in 1..MaxSent /\ next <= k
  BY <1>8, <1>9, <1>10, Bounds
<1>13. /\ GetCommand(value) \in {"clientFilesAndBlocks", "fileList", "download", "success"}
       /\ value = IF conn = "commands" THEN IF next = 1 THEN hello ELSE FileList
                  ELSE IF next % 2 = 1 THEN Request ELSE Success
  <2>1. conn \in {"commands", "download"} /\ hello \in Hellos
    BY <1>1, <1>2 DEF Typed
  <2> HIDE DEF next
  <2>2. value = IF conn = "commands" THEN IF next = 1 THEN hello ELSE FileList
                ELSE IF next % 2 = 1 THEN Request ELSE Success
    BY <2>1 DEF Sent
  <2> QED BY <2>1, <2>2, CommandFacts
<1>14. GetCommand(value) # NoString
  BY <1>13 DEF NoString
<1> HIDE DEF value
<1>15. /\ toServer' = Rest(toServer, read)
       /\ handled' = Append(handled, value)
       /\ counter' = 0
       /\ \/ \E reply \in Replies(value) : toClient' = toClient \o reply /\ server' = "serving"
          \/ server' = "closed" /\ toClient' = toClient \o LastReply(value)
  BY <1>5, <1>11, <1>14 DEF Reset
<1>16. HandledInOrder' /\ Len(handled') = next /\ handled' # <<>>
  BY <1>1, <1>2, <1>4, <1>12, <1>15, HandledNext DEF value
<1>17. server' # "crashed"
  BY <1>15
<1>18. SUFFICES ASSUME server' = "serving"
                PROVE  (/\ Framed /\ HelloFirst /\ IsSeq(toClient) /\ IsSeq(response)
                        /\ Whole => Turn /\ Answered)'
  BY <1>16, <1>17
<1>19. PICK reply \in Replies(value) : toClient' = toClient \o reply
  BY <1>15, <1>18
<1>20. conn # "commands" => Whole /\ Turn
  <2>1. conn # "commands" => ~ cut
    BY <1>1, <1>3 DEF InOrder
  <2> QED BY <1>2, <1>4, <2>1 DEF Whole
<1>21. Framed'
  <2>1. conn # "commands" => k = next
    <3>1. conn # "commands" => next >= sent
      BY <1>20 DEF Turn
    <3> QED BY <1>8, <1>10, <1>12, <3>1
  <2>2. Len(handled') <= k /\ (conn # "commands" => Len(handled') = k)
    BY <1>12, <1>16, <2>1
  <2> HIDE DEF next
  <2> QED BY <1>1, <1>2, <1>7, <1>8, <1>15, <2>2, FramedLast
<1>22. HelloFirst'
  BY <1>16 DEF HelloFirst
<1>23. value # hello \/ conn # "commands" \/ next = 1
  <2>1. ASSUME value = hello, conn = "commands" PROVE next = 1
    BY <1>1, <1>13, <2>1, CommandFacts DEF Typed
  <2> QED BY <2>1
<1>24. IF conn = "commands" /\ next = 1 THEN reply = <<>>
       ELSE \E answer \in RepliesTo(next) : reply = Text(answer)
  <2>1. CASE conn = "commands" /\ next = 1
    <3>1. GetCommand(value) = "clientFilesAndBlocks"
      BY <1>1, <1>13, <2>1, CommandFacts DEF Typed
    <3> QED BY <1>19, <2>1, <3>1 DEF Replies
  <2>2. CASE conn = "commands" /\ next # 1
    <3>1. GetCommand(value) = "fileList" /\ RepliesTo(next) = {FilesMessage(next)}
      BY <1>13, <2>2, CommandFacts DEF RepliesTo
    <3> QED BY <1>19, <2>2, <3>1 DEF Replies
  <2>3. CASE conn = "download" /\ next % 2 = 1
    <3>1. GetCommand(value) = "download" /\ RepliesTo(next) = RequestReplies
      BY <1>13, <2>3, CommandFacts DEF RepliesTo
    <3> QED BY <1>19, <2>3, <3>1 DEF Replies
  <2>4. CASE conn = "download" /\ next % 2 # 1
    <3>1. GetCommand(value) = "success" /\ RepliesTo(next) = {ThankYou}
      BY <1>13, <2>4, CommandFacts DEF RepliesTo
    <3> QED BY <1>19, <2>4, <3>1 DEF Replies
  <2> QED BY <1>1, <1>2, <2>1, <2>2, <2>3, <2>4 DEF Typed
<1>25. IsSeq(reply)
  <2>1. conn \in {"commands", "download"}
    BY <1>1, <1>2 DEF Typed
  <2>2. RepliesTo(next) \subseteq Known
    BY <1>12, <2>1, ReplyIsKnown
  <2> QED BY <1>24, <2>2, KnownTexts, EmptyIsSeq
<1>26. IsSeq(toClient)' /\ IsSeq(response)'
  <2>1. IsSeq(toClient')
    BY <1>4, <1>19, <1>25, ConcatIsSeq
  <2> QED BY <1>2, <1>4, <2>1 DEF IsSeq
<1>27. ASSUME Whole' PROVE Turn' /\ Answered'
  <2>1. Turn /\ Answered
    BY <1>1, <1>4, <1>27
  <2>2. client \in {"ready", "waiting"} => toClient = <<>>
    <3>1. Len(handled) # sent
      BY <1>10, <1>12
    <3> QED BY <2>1, <3>1 DEF Turn
  <2>3. ASSUME NEW r PROVE RepliesTo(r)' = RepliesTo(r) /\ NeedsReply(r)' = NeedsReply(r)
    BY <1>1 DEF RepliesTo, NeedsReply
  <2>4. Turn'
    <3>1. CASE client = "ready"
      <4>1. conn = "commands" /\ sent = 1 /\ handled = <<>>
        BY <1>10, <1>12, <2>1, <3>1 DEF Turn
      <4>2. next = 1 /\ reply = <<>>
        BY <1>10, <1>24, <4>1
      <4>3. toClient' = <<>>
        <5>1. <<>> \o <<>> = <<>>
          BY EmptySeq, ConcatEmptySeq
        <5> QED BY <1>19, <2>2, <3>1, <4>2, <5>1
      <4> QED BY <1>2, <1>16, <3>1, <4>1, <4>2, <4>3 DEF Turn
    <3>2. CASE client = "waiting"
      <4>1. sent >= 1 /\ NeedsReply(sent) /\ Len(handled) = sent - 1
        BY <1>10, <1>12, <2>1, <3>2 DEF Turn
      <4>2. next = sent /\ ~ (conn = "commands" /\ sent = 1)
        BY <1>10, <4>1 DEF NeedsReply
      <4>3. PICK answer \in RepliesTo(sent) : reply = Text(answer)
        BY <1>24, <4>2
      <4>4. toClient' = Text(answer)
        <5>1. <<>> \o reply = reply
          BY <1>25, ConcatEmptySeq DEF IsSeq
        <5> QED BY <1>19, <2>2, <3>2, <4>3, <5>1
      <4>5. RepliesTo(sent)' = RepliesTo(sent) /\ NeedsReply(sent)'
        BY <1>1, <1>2, <4>1 DEF RepliesTo, NeedsReply
      <4> QED BY <1>2, <1>10, <1>16, <3>2, <4>1, <4>2, <4>4, <4>5 DEF Turn
    <3>3. CASE client \notin {"ready", "waiting"}
      <4>1. Len(handled) + 1 >= sent
        BY <2>1 DEF Turn
      <4> QED BY <1>2, <1>10, <1>16, <3>3, <4>1 DEF Turn
    <3> QED BY <3>1, <3>2, <3>3
  <2>5. Answered'
    <3>1. Asked' = Asked
      BY <1>1, <1>2 DEF Asked
    <3>2. ASSUME NEW r PROVE RepliesTo(IF conn = "commands" THEN r + 1 ELSE r)' = RepliesTo(IF conn = "commands" THEN r + 1 ELSE r)
      BY <1>1 DEF RepliesTo
    <3> QED BY <1>1, <1>2, <2>1, <3>1, <3>2 DEF Answered
  <2> QED BY <2>4, <2>5
<1> QED BY <1>21, <1>22, <1>26, <1>27

LEMMA OrderServeBlock ==
  ASSUME MessagesInv, ServeBlock
  PROVE  Handled' /\ Serving'
<1>1. Typed /\ [Next]_vars /\ (InOrder' => InOrder) /\ conn' = conn /\ hello' = hello
  <2>1. Typed /\ [Next]_vars
    BY DEF MessagesInv, Next
  <2> QED BY <2>1, StaysOut
<1>2. UNCHANGED <<client, sent, response, answers, cut, early, counter>> /\ conn = "block" /\ server = "serving"
  BY DEF ServeBlock, clientVars
<1>3. SUFFICES ASSUME InOrder'
               PROVE  /\ server' # "crashed" /\ HandledInOrder'
                      /\ server' = "serving" =>
                           (/\ Framed /\ HelloFirst /\ IsSeq(toClient) /\ IsSeq(response)
                            /\ Whole => Turn /\ Answered)'
  BY DEF Handled, Serving
<1>4. HandledInOrder /\ Framed /\ HelloFirst /\ IsSeq(toClient) /\ IsSeq(response)
  BY <1>1, <1>2, <1>3 DEF MessagesInv, Handled, Serving
<1>5. PICK read \in Reads(toServer, BufLen - 1) :
        \E memory \in {Copied(message, 0, read)} : \E value \in {Parse(memory)} :
          /\ toServer' = Rest(toServer, read)
          /\ torn' = (torn \/ Torn(read))
          /\ IF handled # <<>> \/ getBlockInfo(value) = NoString
             THEN server' = "crashed" /\ UNCHANGED <<toClient, message, handled>>
             ELSE /\ handled' = Append(handled, value)
                  /\ message' = memory
                  /\ \/ toClient' = toClient \o BlockBytes /\ UNCHANGED server
                     \/ server' = "left" /\ UNCHANGED toClient
  BY DEF ServeBlock
<1>6. ~ Torn(read)
  BY <1>3, <1>5 DEF InOrder, Orderly
<1>7. PICK j \in 0..sent : FramedAt(j)
  BY <1>4 DEF Framed
<1>8. PICK k \in (j + 1)..sent : EndOf[k] = EndOf[j] + (Full + Len(read))
  BY <1>1, <1>6, <1>7, FoundNext
<1>9. j + 1 \in 1..sent /\ Parse(Copied(message, Full, read)) = Sent(j + 1)
  BY <1>1, <1>6, <1>7, FoundNext
<1>10. counter = 0 /\ sent <= 1 /\ sent \in Nat /\ Full = 0 /\ Len(handled) \in Nat
       /\ (handled = <<>> <=> Len(handled) = 0) /\ Len(handled) = j
  <2>1. counter = 0 /\ sent <= 1 /\ Full = 0
    BY <1>1, <1>2, BufferSizes DEF Typed, Full
  <2>2. sent \in Nat /\ Len(handled) \in Nat /\ (handled = <<>> <=> Len(handled) = 0)
    BY <1>1, TypeFacts
  <2> QED BY <1>2, <1>7, <2>1, <2>2 DEF FramedAt
<1>11. handled = <<>> /\ Len(handled) = 0 /\ j = 0 /\ k = 1 /\ sent = 1
  BY <1>8, <1>9, <1>10
<1>12. Parse(Copied(message, 0, read)) = BlockRequest /\ Sent(Len(handled) + 1) = BlockRequest
  BY <1>2, <1>9, <1>10, <1>11 DEF Sent
<1>13. getBlockInfo(BlockRequest) # NoString
  BY CommandFacts DEF NoString
<1>14. /\ toServer' = Rest(toServer, read)
       /\ handled' = Append(handled, BlockRequest)
       /\ \/ toClient' = toClient \o BlockBytes /\ UNCHANGED server
          \/ server' = "left" /\ UNCHANGED toClient
  BY <1>5, <1>11, <1>12, <1>13
<1>15. HandledInOrder' /\ Len(handled') = Len(handled) + 1 /\ handled' # <<>>
  <2>1. Len(handled) + 1 <= sent
    BY <1>11
  <2> QED BY <1>1, <1>2, <1>4, <1>12, <1>14, <2>1, HandledNext
<1>16. server' # "crashed"
  BY <1>2, <1>14
<1>17. Framed'
  <2>1. counter' = 0 /\ Len(handled') = k
    BY <1>2, <1>10, <1>11, <1>15
  <2>2. k \in Nat /\ Len(handled') <= k
    BY <1>11, <2>1
  <2> QED BY <1>1, <1>2, <1>7, <1>8, <1>14, <2>1, <2>2, FramedLast
<1>18. HelloFirst'
  BY <1>15 DEF HelloFirst
<1>19. IsSeq(toClient)' /\ IsSeq(response)'
  <2>1. BlockBytes \in Seq({BlockBytes[1], BlockBytes[2]})
    BY DEF BlockBytes
  <2>2. IsSeq(BlockBytes)
    BY <2>1, SeqIsSeq
  <2>3. IsSeq(toClient')
    BY <1>4, <1>14, <2>2, ConcatIsSeq
  <2> QED BY <1>2, <1>4, <2>3 DEF IsSeq
<1>20. ~ Whole'
  BY <1>1, <1>2 DEF Whole
<1> QED BY <1>15, <1>16, <1>17, <1>18, <1>19, <1>20

LEMMA OrderServer ==
  ASSUME MessagesInv, ReceiveFull \/ ReceiveFullOutOfMemory \/ ReceiveLast \/ ReceiveNothing \/ ServeBlock
  PROVE  Handled' /\ Serving'
<1>1. CASE ReceiveFullOutOfMemory \/ ReceiveNothing
  <2>1. [Next]_vars /\ UNCHANGED <<sent, handled>> /\ server' \in {"closed", "left"} /\ server = "serving"
    BY <1>1 DEF ReceiveFullOutOfMemory, ReceiveNothing, Next, clientVars
  <2> QED BY <2>1, OrderEnds
<1> QED BY <1>1, OrderReceiveFull, OrderReceiveLast, OrderServeBlock

-----------------------------------------------------------------------------
(* The theorems *)

LEMMA MessagesInit == Init => MessagesInv
<1> SUFFICES ASSUME Init PROVE MessagesInv
  OBVIOUS
<1>1. Typed
  BY TypedInit
<1>2. IsSeq(<<>>) /\ Len(<<>>) = 0 /\ DOMAIN <<>> = 1..Len(<<>>)
  BY EmptyIsSeq, IsSeqLen
<1>3. handled = <<>> /\ sent = 0 /\ toServer = <<>> /\ counter = 0 /\ toClient = <<>> /\ response = <<>>
      /\ answers = <<>> /\ client = "ready" /\ server = "serving"
  BY DEF Init
<1>4. HandledInOrder
  BY <1>2, <1>3 DEF HandledInOrder
<1>5. Framed
  <2>1. EndOf[0] = 0 /\ Full = 0
    BY <1>1, <1>3, Places, BufferSizes DEF Typed, Full
  <2>2. (0 + 1)..0 = {} /\ 0 - 0 - 0 = 0
    OBVIOUS
  <2>3. FramedAt(0)
    <3>1. EndOf[sent] - Len(toServer) - Full = EndOf[0]
      BY <1>2, <1>3, <2>1, <2>2
    <3>2. Len(handled) <= 0 /\ Len(handled) = 0
      BY <1>2, <1>3
    <3>3. \A k \in (0 + 1)..sent : \A i \in 1..Len(Message(k)) :
            Unhandled(EndOf[k - 1] - EndOf[0] + i) = Message(k)[i]
      BY <1>3, <2>2
    <3> QED BY <3>1, <3>2, <3>3 DEF FramedAt
  <2> QED BY <1>3, <2>3 DEF Framed
<1>6. HelloFirst /\ Turn
  BY <1>2, <1>3 DEF HelloFirst, Turn
<1>7. Answered
  BY <1>2, <1>3 DEF Answered, Asked
<1> QED BY <1>1, <1>2, <1>3, <1>4, <1>5, <1>6, <1>7 DEF MessagesInv, Handled, Serving

LEMMA MessagesStep == MessagesInv /\ [Next]_vars => MessagesInv'
<1> SUFFICES ASSUME MessagesInv, [Next]_vars PROVE MessagesInv'
  OBVIOUS
<1>1. Typed'
  BY TypedStep DEF MessagesInv
<1>2. CASE Send
  BY <1>1, <1>2, OrderSend DEF MessagesInv
<1>3. CASE SendToNobody \/ ReceiveReply \/ ReceiveEnd \/ Close \/ UNCHANGED vars
  BY <1>1, <1>3, OrderClient DEF MessagesInv
<1>4. CASE ReceiveFull \/ ReceiveFullOutOfMemory \/ ReceiveLast \/ ReceiveNothing \/ ServeBlock
  BY <1>1, <1>4, OrderServer DEF MessagesInv
<1> QED BY <1>2, <1>3, <1>4 DEF Next

LEMMA MessagesInvariant == Spec => []MessagesInv
<1> QED BY MessagesInit, MessagesStep, PTL DEF Spec

\* The program counters have their values, and the buffer of a message always has the size that the
\* server reads and reallocates by (main.c:201-218): no read goes behind its end.
THEOREM TypeCorrect == Spec => []TypeOK
<1>1. MessagesInv => TypeOK
  BY DEF MessagesInv, Typed
<1> QED BY <1>1, MessagesInvariant, PTL

\* As long as no read is torn, no command follows the hello message too soon and that does not fill its
\* last read, both receive loops (main.c:197-268, server_thread.c:124-201) handle each message once and
\* in order, whatever pieces the stream arrives in and whatever the reused memory holds.
THEOREM MessagesAreFound == Spec => []FoundInOrder
<1>1. MessagesInv => FoundInOrder
  BY DEF MessagesInv, Handled, HandledInOrder, InOrder, FoundInOrder
<1> QED BY <1>1, MessagesInvariant, PTL

\* A client that has read its replies whole, each with one recv (client_thread.c:146, DownloadFile.c:43),
\* has taken for the reply to each request a reply to that request.
THEOREM AnswersMatch == Spec => []AnswerIsForRequest
<1>1. MessagesInv => AnswerIsForRequest
  <2> SUFFICES ASSUME MessagesInv, Orderly, ~ cut, server = "serving", conn # "block"
               PROVE  \A i \in DOMAIN answers : answers[i] \in RepliesTo(IF conn = "commands" THEN i + 1 ELSE i)
    BY DEF AnswerIsForRequest
  <2>1. InOrder /\ Whole
    BY DEF InOrder, Whole
  <2> QED BY <2>1 DEF MessagesInv, Serving, Answered
<1> QED BY <1>1, MessagesInvariant, PTL
==============================================================================
