-------------------------- MODULE LocalFilesProofs ---------------------------
(***************************************************************************)
(* Proofs about LocalFiles for any finite set of names, any number of      *)
(* blocks of a file, and any library that reads the metadata it has        *)
(* written (JsonAssumption): the types, the sections of ll, and the        *)
(* metadata that a client announces.                                       *)
(***************************************************************************)
EXTENDS LocalFiles, SequenceTheorems, FiniteSetTheorems, WellFoundedInduction, TLAPS

\* A sequence, of whatever elements.
IsSeq(s) == s \in Seq({s[i] : i \in DOMAIN s})

MetaText(n, number, indexes) == Text(ValueOf(MetaWith(n, number, indexes), Root))

AllNames == Names \cup UNION {Misread(n) : n \in Names}

\* The records of ll, and the state of the write that Ctrl+C may interrupt.
Typed ==
  /\ TypeOK
  /\ regular = [n \in Names |-> regular[n]] /\ part = [n \in Names |-> part[n]] /\ meta = [n \in Names |-> meta[n]]
  /\ entries \subseteq Names \X {"", "part", "json"}
  /\ list \in Seq([name : AllNames, state : States])
  /\ loose # {} => pc \in {"downloading", "ended"} /\ Exists(part[name])
  /\ arrived # {} => pc \in {"downloading", "ended"}

\* The entries readdir has returned.
Read == Directory \ entries

\* What a record says is what ll has read of the name.
Fits(record, read) ==
  LET Has(extension) == <<record.name, extension>> \in read
  IN  /\ record.state = "META_ONLY"         => Has("json") /\ ~Has("part") /\ ~Has("")
      /\ record.state = "FILE_WITHOUT_META" => Has("") /\ ~Has("json")
      /\ record.state = "FILE_WITH_META"    => Has("") /\ Has("json")
      /\ record.state = "PART_WITHOUT_META" => Has("part") /\ ~Has("json")
      /\ record.state = "PART_WITH_META"    => Has("part") /\ Has("json")

\* One record for each name that something was read of.
Recorded(records, read) ==
  /\ \A i, j \in DOMAIN records : records[i].name = records[j].name => i = j
  /\ \A i \in DOMAIN records : records[i].name \in Names /\ Fits(records[i], read)
  /\ \A e \in read : \E i \in DOMAIN records : records[i].name = e[1]

\* While ll reads the directory.
Listing == pc = "list" /\ ~misread => entries \subseteq Directory /\ Recorded(list, Read)

ListInv == Typed /\ Listing /\ ListedOnceAndRight

\* The metadata of the download was written whole.  The blocks it lists, and those that are still to
\* be listed, are in the part file, unless a recv was short.
Written ==
  pc = "downloading" =>
    \E s \in Indexes : /\ meta[name] = MetaText(name, total, s) /\ arrived \cap ToSet(s) = {}
                       /\ excuse[name] = "none" => ToSet(s) \cup arrived \subseteq part[name][2]

\* The block in the buffer of the stream is the only one that can be lost.
Buffered ==
  loose # {} => /\ \E b \in loose : loose = {b}
                /\ excuse[name] = "none" => ToSet(Listed(meta[name])) \subseteq part[name][2]

\* A file with missing blocks has metadata, so create does not make any for it.
Partial == \A n \in Names : Exists(regular[n]) /\ regular[n] # Whole => Exists(meta[n])

Bounded == \A n \in Names : \/ \E b \in 0..MaxBlocks : Overstated(n) \subseteq {b}
                            \/ excuse[n] # "none"

HonestInv == Typed /\ Written /\ Buffered /\ Partial /\ Bounded

-----------------------------------------------------------------------------
(* Sequences of whatever elements *)

LEMMA SeqIsSeq ==
  ASSUME NEW S, NEW s \in Seq(S)
  PROVE  IsSeq(s)
<1>1. Len(s) \in Nat /\ DOMAIN s = 1..Len(s) /\ s \in [1..Len(s) -> S]
  BY LenProperties
<1>2. s \in [1..Len(s) -> {s[i] : i \in DOMAIN s}]
  BY <1>1
<1> QED BY <1>1, <1>2, SeqDef DEF IsSeq

LEMMA IsSeqLen ==
  ASSUME NEW s, IsSeq(s)
  PROVE  Len(s) \in Nat /\ DOMAIN s = 1..Len(s)
BY LenProperties DEF IsSeq

\* Two of them are sequences of the same kind of elements.
LEMMA CommonSeq ==
  ASSUME NEW s, NEW t, IsSeq(s), IsSeq(t)
  PROVE  \E S : s \in Seq(S) /\ t \in Seq(S)
<1> DEFINE S == {s[i] : i \in DOMAIN s} \cup {t[i] : i \in DOMAIN t}
<1>1. s \in Seq(S)
  <2>1. s \in Seq({s[i] : i \in DOMAIN s}) /\ {s[i] : i \in DOMAIN s} \subseteq S
    BY DEF IsSeq
  <2> HIDE DEF S
  <2> QED BY <2>1, SeqMonotonic
<1>2. t \in Seq(S)
  <2>1. t \in Seq({t[i] : i \in DOMAIN t}) /\ {t[i] : i \in DOMAIN t} \subseteq S
    BY DEF IsSeq
  <2> HIDE DEF S
  <2> QED BY <2>1, SeqMonotonic
<1> HIDE DEF S
<1> QED BY <1>1, <1>2

LEMMA AppendIsSeq ==
  ASSUME NEW s, NEW e, IsSeq(s)
  PROVE  /\ IsSeq(Append(s, e)) /\ Len(Append(s, e)) = Len(s) + 1
         /\ \A i \in 1..Len(s) : Append(s, e)[i] = s[i]
         /\ Append(s, e)[Len(s) + 1] = e
         /\ DOMAIN Append(s, e) = 1..(Len(s) + 1)
         /\ Append(s, e) # <<>>
<1> DEFINE S == {s[i] : i \in DOMAIN s} \cup {e}
<1>1. s \in Seq(S) /\ e \in S
  <2>1. s \in Seq({s[i] : i \in DOMAIN s}) /\ {s[i] : i \in DOMAIN s} \subseteq S /\ e \in S
    BY DEF IsSeq
  <2> HIDE DEF S
  <2> QED BY <2>1, SeqMonotonic
<1> HIDE DEF S
<1>2. Append(s, e) \in Seq(S) /\ Len(Append(s, e)) = Len(s) + 1
      /\ (\A i \in 1..Len(s) : Append(s, e)[i] = s[i]) /\ Append(s, e)[Len(s) + 1] = e
  BY <1>1, AppendProperties
<1>3. IsSeq(Append(s, e)) /\ DOMAIN Append(s, e) = 1..(Len(s) + 1)
  BY <1>2, SeqIsSeq, LenProperties
<1>4. Len(s) \in Nat /\ Len(<<>>) = 0
  BY IsSeqLen, EmptySeq
<1>5. Append(s, e) # <<>>
  BY <1>2, <1>4
<1> QED BY <1>2, <1>3, <1>5

\* The first k elements.
LEMMA HeadIsSeq ==
  ASSUME NEW s, IsSeq(s), NEW k \in 0..Len(s)
  PROVE  /\ IsSeq(SubSeq(s, 1, k)) /\ Len(SubSeq(s, 1, k)) = k
         /\ \A i \in 1..k : SubSeq(s, 1, k)[i] = s[i]
<1> DEFINE S == {s[i] : i \in DOMAIN s}
<1>1. Len(s) \in Nat /\ DOMAIN s = 1..Len(s) /\ k \in Int /\ 0 <= k /\ k <= Len(s)
  BY IsSeqLen
<1>2. \A i \in 1..k : s[i] \in S
  BY <1>1
<1> HIDE DEF S
<1>3. /\ SubSeq(s, 1, k) \in Seq(S) /\ Len(SubSeq(s, 1, k)) = IF 1 <= k THEN k - 1 + 1 ELSE 0
      /\ \A i \in 1..(k - 1 + 1) : SubSeq(s, 1, k)[i] = s[1 + i - 1]
  BY <1>1, <1>2, SubSeqProperties
<1>4. IsSeq(SubSeq(s, 1, k))
  BY <1>3, SeqIsSeq
<1>5. \A i \in 1..k : 1 + i - 1 = i /\ i \in 1..(k - 1 + 1)
  BY <1>1
<1> QED BY <1>1, <1>3, <1>4, <1>5

LEMMA SameSeq ==
  ASSUME NEW s, NEW t, IsSeq(s), IsSeq(t), Len(s) = Len(t), \A i \in 1..Len(s) : s[i] = t[i]
  PROVE  s = t
<1>1. PICK S : s \in Seq(S) /\ t \in Seq(S)
  BY CommonSeq
<1> QED BY <1>1, SeqEqual

LEMMA EmptyIsSeq == IsSeq(<<>>) /\ Len(<<>>) = 0 /\ (\A s : IsSeq(s) /\ Len(s) = 0 => s = <<>>)
<1>1. IsSeq(<<>>) /\ Len(<<>>) = 0
  <2>1. <<>> \in Seq({}) /\ Len(<<>>) = 0
    BY EmptySeq
  <2> QED BY <2>1, SeqIsSeq
<1>2. ASSUME NEW s, IsSeq(s), Len(s) = 0 PROVE s = <<>>
  <2>1. \A i \in 1..Len(s) : s[i] = <<>>[i]
    BY <1>2
  <2> QED BY <1>1, <1>2, <2>1, SameSeq
<1> QED BY <1>1, <1>2

-----------------------------------------------------------------------------
(* Induction *)

\* A set with 0 that is closed under successor has every natural number.
LEMMA Naturals ==
  ASSUME NEW S \in SUBSET Nat, 0 \in S, \A n \in S : n + 1 \in S
  PROVE  S = Nat
<1> SUFFICES ASSUME S # Nat PROVE FALSE
  OBVIOUS
<1> DEFINE T == Nat \ S
<1>1. PICK x \in T : \A y \in T : ~ (<<y, x>> \in OpToRel(<, Nat))
  BY WFMin, NatLessThanWellFounded
<1>2. \A y \in T : ~ (y < x)
  BY <1>1 DEF OpToRel
<1>3. x # 0 /\ x - 1 \in Nat /\ x - 1 \notin T
  BY <1>2
<1> QED BY <1>3

-----------------------------------------------------------------------------
(* Types *)

LEMMA SmallestNat ==
  ASSUME NEW S \in SUBSET Nat, NEW s \in S
  PROVE  \E min \in S : \A x \in S : min <= x
<1>1. PICK min \in S : \A x \in S : <<x, min>> \notin OpToRel(<, Nat)
  BY WFMin, NatLessThanWellFounded
<1>2. \A x \in S : ~ (x < min)
  BY <1>1 DEF OpToRel
<1>3. min \in Nat /\ \A x \in S : x \in Nat
  OBVIOUS
<1> QED BY <1>2, <1>3

LEMMA FileStates ==
  /\ Whole # Absent /\ Len(Whole) = 1
  /\ \A b : Some(b) # Absent /\ Some(b) # Whole /\ Some(b)[2] = b /\ Len(Some(b)) = 2
BY DEF Some, Whole, Absent

\* A part file that exists is of some blocks.
LEMMA PartFile ==
  ASSUME NEW n \in Names, TypeOK, Exists(part[n])
  PROVE  part[n] = Some(part[n][2]) /\ part[n][2] \in SUBSET (0..(MaxBlocks - 1))
<1>1. PICK b \in SUBSET (0..(MaxBlocks - 1)) : part[n] = Some(b)
  BY DEF TypeOK, Exists
<1> QED BY <1>1, FileStates

\* list_find: a record of the name, or 0 if there is none.
LEMMA FindFacts ==
  ASSUME NEW R, list \in Seq(R), NEW n
  PROVE  /\ Find(n) # 0 => Find(n) \in DOMAIN list /\ list[Find(n)].name = n
         /\ Find(n) = 0 => \A i \in DOMAIN list : list[i].name # n
<1>1. DOMAIN list \subseteq Nat /\ 0 \notin DOMAIN list
  BY LenProperties
<1> DEFINE T == {k \in DOMAIN list : list[k].name = n}
<1>2. CASE T = {}
  BY <1>2 DEF Find
<1>3. CASE T # {}
  <2>1. PICK k \in T : \A l \in T : k <= l
    <3>1. T \in SUBSET Nat /\ \E k \in T : TRUE
      BY <1>1, <1>3
    <3> HIDE DEF T
    <3> QED BY <3>1, SmallestNat
  <2>2. \A l \in 1..(k - 1) : list[l].name # n
    BY <1>1, <2>1, LenProperties
  <2>3. Find(n) \in DOMAIN list /\ list[Find(n)].name = n
    BY <2>1, <2>2 DEF Find
  <2> QED BY <1>1, <2>3
<1> QED BY <1>2, <1>3

\* The list after a directory entry.
LEMMA RecordTyped ==
  ASSUME NEW n \in AllNames, NEW new \in States, NEW states,
         \A s \in DOMAIN states : states[s] \in States,
         list \in Seq([name : AllNames, state : States]), Record(n, states, new)
  PROVE  list' \in Seq([name : AllNames, state : States])
<1> DEFINE i == Find(n)
           R == [name : AllNames, state : States]
<1>1. i # 0 => i \in DOMAIN list
  BY FindFacts
<1> HIDE DEF i
<1>2. CASE i = 0
  BY <1>2 DEF Record, i
<1>3. CASE i # 0 /\ list[i].state \in DOMAIN states
  <2>1. list' = [list EXCEPT ![i] = [name |-> n, state |-> states[list[i].state]]]
    BY <1>3 DEF Record, i
  <2>2. states[list[i].state] \in States
    BY <1>3
  <2>3. [name |-> n, state |-> states[list[i].state]] \in R
    BY <2>2
  <2> QED BY <1>1, <1>3, <2>1, <2>3
<1>4. CASE i # 0 /\ list[i].state \notin DOMAIN states
  BY <1>4 DEF Record, i
<1> QED BY <1>2, <1>3, <1>4

LEMMA InitTyped == Init => Typed
<1> SUFFICES ASSUME Init PROVE Typed
  OBVIOUS
<1>1. TypeOK
  <2>1. MaxBlocks \in Nat \ {0}
    BY LocalFilesAssumption
  <2>2. excuse \in [Names -> Excuses]
    <3>1. \A n \in Names : (IF Exists(meta[n]) /\ ~Exists(regular[n]) THEN "deleted" ELSE "none") \in Excuses
      BY DEF Excuses
    <3> QED BY <3>1 DEF Init
  <2> QED BY <2>1, <2>2 DEF Init, TypeOK
<1>2. meta = [n \in Names |-> meta[n]] /\ regular = [n \in Names |-> regular[n]] /\ part = [n \in Names |-> part[n]]
  BY DEF Init
<1>3. list \in Seq([name : AllNames, state : States]) /\ arrived = {} /\ loose = {} /\ entries = {}
  BY DEF Init
<1> QED BY <1>1, <1>2, <1>3 DEF Typed

\* json_serialize_to_file_pretty changes the metadata of one name.
LEMMA OneWritten ==
  ASSUME NEW n, NEW h, NEW next, meta = [k \in Names |-> meta[k]], WriteMeta(n, h, next)
  PROVE  /\ meta' = [k \in Names |-> meta'[k]] /\ pc' \in {next, "ended"}
         /\ \A k \in Names : k # n => meta'[k] = meta[k]
<1>1. PICK text : meta' = [meta EXCEPT ![n] = text]
  BY DEF WriteMeta
<1>2. pc' \in {next, "ended"}
  BY DEF WriteMeta
<1> QED BY <1>1, <1>2

LEMMA RecordStates ==
  ASSUME NEW l \in Seq([name : AllNames, state : States])
  PROVE  \A i \in DOMAIN l : l[i].state \in States
<1>1. \A i \in DOMAIN l : l[i] \in [name : AllNames, state : States]
  BY LenProperties
<1> QED BY <1>1

\* The actions that leave the list alone, and those that leave the files alone.
LEMMA FilesKept ==
  ASSUME Typed, UNCHANGED <<regular, part, name, total, loose>>,
         arrived' \subseteq 0..(total - 1), excuse' \in [Names -> Excuses],
         UNCHANGED meta \/ (\E n \in Names : \E h, next : WriteMeta(n, h, next)),
         list' \in Seq([name : AllNames, state : States]), entries' \subseteq Names \X {"", "part", "json"},
         pc' \in {"off", "hello", "prompt", "list", "listed", "opened", "downloading", "ended"},
         pc' \in {"opened", "downloading"} => Exists(part[name]),
         loose # {} => pc' \in {"downloading", "ended"}, arrived' # {} => pc' \in {"downloading", "ended"}
  PROVE  Typed'
<1>1. meta' = [k \in Names |-> meta'[k]]
  BY OneWritten DEF Typed
<1>2. \A i \in DOMAIN list' : list'[i].state \in States
  BY RecordStates
<1>3. TypeOK'
  BY <1>2 DEF Typed, TypeOK, Exists
<1> QED BY <1>1, <1>3 DEF Typed, Exists

LEMMA EntriesTyped == Directory \subseteq Names \X {"", "part", "json"}
<1>1. ASSUME NEW e \in Directory PROVE e \in Names \X {"", "part", "json"}
  <2>1. PICK n \in Names, extension \in {"", "part", "json"} : e = <<n, extension>>
    BY DEF Directory
  <2>2. <<n, extension>> \in Names \X {"", "part", "json"}
    OBVIOUS
  <2> QED BY <2>1, <2>2, Zenon
<1> QED BY <1>1

LEMMA HelloTyped ==
  ASSUME Typed, BeginHello \/ AnnounceFile \/ SendHello
  PROVE  Typed'
<1>1. UNCHANGED <<regular, part, name, total, arrived, loose, meta, list, excuse>> /\ pc' \in {"hello", "prompt"}
      /\ pc \in {"off", "hello"}
  BY DEF BeginHello, AnnounceFile, SendHello, disk, downloadVars, listVars
<1>2. list' \in Seq([name : AllNames, state : States]) /\ loose = {} /\ arrived = {}
      /\ arrived \subseteq 0..(total - 1) /\ excuse \in [Names -> Excuses]
  BY <1>1 DEF Typed, TypeOK
<1>3. entries' \subseteq Names \X {"", "part", "json"}
  <2>1. CASE BeginHello
    <3>1. ASSUME NEW e \in entries' PROVE e \in Names \X {"", "part", "json"}
      <4>1. PICK n \in Names : e = <<n, "json">>
        BY <2>1 DEF BeginHello
      <4>2. <<n, "json">> \in Names \X {"", "part", "json"}
        OBVIOUS
      <4> QED BY <4>1, <4>2, Zenon
    <3> QED BY <3>1
  <2>2. CASE AnnounceFile \/ SendHello
    BY <2>2 DEF AnnounceFile, SendHello, Typed
  <2> QED BY <2>1, <2>2
<1> QED BY <1>1, <1>2, <1>3, FilesKept

LEMMA EntryName ==
  ASSUME NEW n \in Names, NEW read \in {n} \cup Misread(n)
  PROVE  n \in AllNames /\ read \in AllNames
BY DEF AllNames

LEMMA ListTyped ==
  ASSUME Typed, BeginList \/ ListEntry \/ PrintList \/ EndList
  PROVE  Typed'
<1>1. UNCHANGED <<regular, part, name, total, arrived, loose, meta, excuse>> /\ pc' \in {"list", "listed", "prompt"}
      /\ pc \in {"prompt", "list", "listed"}
  BY DEF BeginList, ListEntry, PrintList, EndList, disk, downloadVars
<1>2. list \in Seq([name : AllNames, state : States]) /\ loose = {} /\ arrived = {}
      /\ arrived \subseteq 0..(total - 1) /\ excuse \in [Names -> Excuses]
  BY <1>1 DEF Typed, TypeOK
<1>3. list' \in Seq([name : AllNames, state : States])
  <2>1. CASE BeginList \/ PrintList \/ EndList
    <3>1. list' \in {<<>>, list}
      <4>1. CASE BeginList
        BY <4>1 DEF BeginList
      <4>2. CASE PrintList
        BY <4>2 DEF PrintList
      <4>3. CASE EndList
        BY <4>3 DEF EndList
      <4> QED BY <2>1, <4>1, <4>2, <4>3
    <3> DEFINE R == [name : AllNames, state : States]
    <3>2. list \in Seq(R) /\ <<>> \in Seq(R)
      BY <1>2
    <3> HIDE DEF R
    <3>3. list' \in Seq(R)
      BY <3>1, <3>2
    <3> QED BY <3>3 DEF R
  <2>2. CASE ListEntry
    <3>1. PICK e \in entries : CASE e[2] = "json" -> AddMetaFile(e[1])
                                 [] e[2] = "part" -> AddPartFile(e[1])
                                 [] e[2] = ""     -> AddRegularFile(e[1])
      BY <2>2 DEF ListEntry
    <3>2. e[1] \in Names /\ e[2] \in {"", "part", "json"}
      BY DEF Typed
    <3>3. PICK n, new, states :
            /\ n \in AllNames /\ new \in States
            /\ Record(n, states, new) /\ \A s \in DOMAIN states : states[s] \in States
      <4>1. CASE e[2] = "json"
        <5> DEFINE states == [PART_WITHOUT_META |-> "PART_WITH_META", FILE_WITHOUT_META |-> "FILE_WITH_META"]
        <5>1. AddMetaFile(e[1])
          BY <3>1, <4>1
        <5>2. PICK read \in {e[1]} \cup Misread(e[1]) : Record(read, states, "META_ONLY")
          BY <5>1 DEF AddMetaFile
        <5>3. \A s \in DOMAIN states : states[s] \in States
          BY DEF States
        <5>4. read \in AllNames /\ "META_ONLY" \in States
          BY <3>2, EntryName DEF States
        <5> HIDE DEF states
        <5> QED BY <5>2, <5>3, <5>4
      <4>2. CASE e[2] = "part"
        <5> DEFINE states == [META_ONLY |-> "PART_WITH_META"]
        <5>1. AddPartFile(e[1])
          BY <3>1, <4>2
        <5>2. PICK read \in {e[1]} \cup Misread(e[1]) : Record(read, states, "PART_WITHOUT_META")
          BY <5>1 DEF AddPartFile
        <5>3. \A s \in DOMAIN states : states[s] \in States
          BY DEF States
        <5>4. read \in AllNames /\ "PART_WITHOUT_META" \in States
          BY <3>2, EntryName DEF States
        <5> HIDE DEF states
        <5> QED BY <5>2, <5>3, <5>4
      <4>3. CASE e[2] = ""
        <5> DEFINE states == [META_ONLY |-> "FILE_WITH_META"]
        <5>1. AddRegularFile(e[1])
          BY <3>1, <4>3
        <5>2. PICK read \in {e[1]} \cup Misread(e[1]) : Record(read, states, "FILE_WITHOUT_META")
          BY <5>1 DEF AddRegularFile
        <5>3. \A s \in DOMAIN states : states[s] \in States
          BY DEF States
        <5>4. read \in AllNames /\ "FILE_WITHOUT_META" \in States
          BY <3>2, EntryName DEF States
        <5> HIDE DEF states
        <5> QED BY <5>2, <5>3, <5>4
      <4> QED BY <3>2, <4>1, <4>2, <4>3
    <3> QED BY <1>2, <3>3, RecordTyped
  <2> QED BY <2>1, <2>2
<1>4. entries' \subseteq Names \X {"", "part", "json"}
  <2>1. CASE BeginList
    BY <2>1, EntriesTyped DEF BeginList
  <2>2. CASE ListEntry \/ PrintList \/ EndList
    BY <2>2 DEF ListEntry, PrintList, EndList, Typed
  <2> QED BY <2>1, <2>2
<1> QED BY <1>1, <1>2, <1>3, <1>4, FilesKept

LEMMA NamesWanted == ASSUME Typed PROVE name \in Names /\ Wanted \subseteq Names
BY LocalFilesAssumption DEF Typed, TypeOK

\* A history of the known kinds stays one.
LEMMA ExcuseTyped ==
  ASSUME excuse \in [Names -> Excuses], NEW n, NEW why \in Excuses, Excuse(n, why)
  PROVE  /\ excuse' \in [Names -> Excuses]
         /\ n \in Names => excuse'[n] = why
         /\ \A k \in Names : k # n => excuse'[k] = excuse[k]
BY DEF Excuse

LEMMA WriteTyped ==
  ASSUME Typed, Create \/ ResetMeta \/ ListBlock
  PROVE  Typed'
<1>1. UNCHANGED <<regular, part, name, total, loose, list, entries>>
  BY DEF Create, ResetMeta, ListBlock, downloadVars, listVars
<1>5. excuse' \in [Names -> Excuses]
  <2>1. excuse \in [Names -> Excuses] /\ "none" \in Excuses
    BY DEF Typed, TypeOK, Excuses
  <2> QED BY <2>1, ExcuseTyped DEF Create, ResetMeta, ListBlock
<1>6. arrived' \subseteq 0..(total - 1)
  <2>1. arrived \subseteq 0..(total - 1)
    BY DEF Typed, TypeOK
  <2> QED BY <2>1 DEF Create, ResetMeta, ListBlock, downloadVars
<1>2. \E n \in Names : \E h, next :
         WriteMeta(n, h, next) /\ next \in {"prompt", "downloading"} /\ (next = "downloading" => Exists(part[name]))
  <2>1. CASE Create
    <3>1. PICK n, number : n \in Wanted /\ WriteMeta(n, FullMeta(n, number), "prompt")
      BY <2>1 DEF Create
    <3> QED BY <3>1, NamesWanted
  <2>2. CASE ResetMeta
    BY <2>2, NamesWanted DEF ResetMeta, Typed, TypeOK
  <2>3. CASE ListBlock
    <3>1. PICK h : WriteMeta(name, h, "downloading")
      BY <2>3 DEF ListBlock
    <3>2. name \in Names /\ Exists(part[name])
      BY <2>3, NamesWanted DEF ListBlock, Typed, TypeOK
    <3> QED BY <3>1, <3>2
  <2> QED BY <2>1, <2>2, <2>3
<1>3. meta = [k \in Names |-> meta[k]] /\ (loose # {} \/ arrived # {} => ListBlock)
  BY DEF Typed, Create, ResetMeta
<1>4. /\ pc' \in {"prompt", "downloading", "ended"} /\ (pc' = "downloading" => Exists(part[name]))
      /\ loose # {} \/ arrived' # {} => pc' \in {"downloading", "ended"}
  <2>1. /\ pc' \in {"prompt", "downloading", "ended"} /\ (pc' = "downloading" => Exists(part[name]))
    BY <1>2, <1>3, OneWritten
  <2>2. ListBlock => pc' \in {"downloading", "ended"}
    BY <1>3, OneWritten DEF ListBlock
  <2>3. arrived' # {} => arrived # {}
    BY DEF Create, ResetMeta, ListBlock, downloadVars
  <2> QED BY <1>3, <2>1, <2>2, <2>3
<1> QED BY <1>1, <1>2, <1>3, <1>4, <1>5, <1>6, FilesKept DEF Typed

\* What FilesKept leaves over: the files of one name change.
LEMMA FilesChanged ==
  ASSUME Typed, NEW n \in Names, meta' = [k \in Names |-> meta'[k]],
         regular' = [regular EXCEPT ![n] = regular'[n]], part' = [part EXCEPT ![n] = part'[n]],
         regular'[n] \in {Absent, Whole} \cup {Some(b) : b \in SUBSET (0..(MaxBlocks - 1))},
         part'[n] \in {Absent} \cup {Some(b) : b \in SUBSET (0..(MaxBlocks - 1))},
         list' \in Seq([name : AllNames, state : States]), entries' \subseteq Names \X {"", "part", "json"},
         pc' \in {"off", "hello", "prompt", "list", "listed", "opened", "downloading", "ended"},
         name' \in Wanted, total' \in 1..MaxBlocks, loose' \subseteq 0..(total' - 1),
         arrived' \subseteq 0..(total' - 1), excuse' \in [Names -> Excuses],
         pc' \in {"opened", "downloading"} => Exists(part'[name']),
         loose' # {} => pc' \in {"downloading", "ended"} /\ Exists(part'[name']),
         arrived' # {} => pc' \in {"downloading", "ended"}
  PROVE  Typed'
<1>1. \A i \in DOMAIN list' : list'[i].state \in States
  BY RecordStates
<1>2. \A k \in Names : /\ regular'[k] \in {Absent, Whole} \cup {Some(b) : b \in SUBSET (0..(MaxBlocks - 1))}
                       /\ part'[k] \in {Absent} \cup {Some(b) : b \in SUBSET (0..(MaxBlocks - 1))}
  BY DEF Typed, TypeOK
<1>3. regular' = [k \in Names |-> regular'[k]] /\ part' = [k \in Names |-> part'[k]]
  BY DEF Typed
<1>4. TypeOK'
  BY <1>1, <1>2 DEF TypeOK, Exists
<1> QED BY <1>3, <1>4 DEF Typed, Exists

LEMMA OpenTyped == ASSUME Typed, OpenPart PROVE Typed'
<1>1. PICK n \in Wanted, number \in 1..MaxBlocks :
        /\ name' = n /\ total' = number /\ arrived' = {} /\ loose' = {}
        /\ part' = [part EXCEPT ![n] = Some({})] /\ Excuse(n, "emptied")
  BY DEF OpenPart
<1>7. excuse' \in [Names -> Excuses]
  <2>1. excuse \in [Names -> Excuses] /\ "emptied" \in Excuses
    BY DEF Typed, TypeOK, Excuses
  <2> QED BY <1>1, <2>1, ExcuseTyped
<1>2. n \in Names /\ UNCHANGED <<regular, meta, list, entries>> /\ pc' = "opened"
  BY NamesWanted DEF OpenPart, listVars
<1>3. part'[n] = Some({}) /\ Exists(part'[n])
  BY <1>1, <1>2, FileStates DEF Typed, Exists
<1>4. regular' = [regular EXCEPT ![n] = regular'[n]] /\ part' = [part EXCEPT ![n] = part'[n]]
  BY <1>1, <1>2, <1>3 DEF Typed
<1>5. Some({}) \in {Some(b) : b \in SUBSET (0..(MaxBlocks - 1))}
  OBVIOUS
<1>6. regular'[n] \in {Absent, Whole} \cup {Some(b) : b \in SUBSET (0..(MaxBlocks - 1))}
  BY <1>2 DEF Typed, TypeOK
<1> QED BY <1>1, <1>2, <1>3, <1>4, <1>5, <1>6, <1>7, FilesChanged DEF Typed

LEMMA ReceiveTyped == ASSUME Typed, ReceiveBlock PROVE Typed'
<1>1. PICK b, missing :
        /\ b \in 0..(total - 1)
        /\ part' = [part EXCEPT ![name] = Some((@[2] \cup {b}) \ missing)]
        /\ arrived' = arrived \cup {b} /\ loose' = {b} \ missing
        /\ UNCHANGED excuse \/ Excuse(name, "short")
  BY DEF ReceiveBlock
<1>2. name \in Names /\ UNCHANGED <<regular, meta, pc, name, total, list, entries>> /\ pc = "downloading"
  BY NamesWanted DEF ReceiveBlock, listVars
<1>12. excuse' \in [Names -> Excuses]
  <2>1. excuse \in [Names -> Excuses] /\ "short" \in Excuses
    BY DEF Typed, TypeOK, Excuses
  <2> QED BY <1>1, <2>1, ExcuseTyped
<1>3. Exists(part[name]) /\ total \in 1..MaxBlocks /\ name \in Wanted /\ MaxBlocks \in Nat
      /\ arrived \subseteq 0..(total - 1)
  BY <1>2, LocalFilesAssumption DEF Typed, TypeOK
<1>4. part[name][2] \in SUBSET (0..(MaxBlocks - 1))
  BY <1>2, <1>3, PartFile DEF Typed
<1>5. (part[name][2] \cup {b}) \ missing \in SUBSET (0..(MaxBlocks - 1))
  BY <1>1, <1>3, <1>4
<1>6. part'[name] = Some((part[name][2] \cup {b}) \ missing) /\ Exists(part'[name])
  BY <1>1, <1>2, FileStates DEF Typed, Exists
<1>7. regular' = [regular EXCEPT ![name] = regular'[name]] /\ part' = [part EXCEPT ![name] = part'[name]]
  BY <1>1, <1>2, <1>6 DEF Typed
<1>8. regular'[name] \in {Absent, Whole} \cup {Some(k) : k \in SUBSET (0..(MaxBlocks - 1))}
  BY <1>2 DEF Typed, TypeOK
<1>9. meta' = [k \in Names |-> meta'[k]]
  BY <1>2 DEF Typed
<1>10. part'[name] \in {Some(k) : k \in SUBSET (0..(MaxBlocks - 1))}
  BY <1>5, <1>6
<1>11. /\ loose' \subseteq 0..(total' - 1) /\ arrived' \subseteq 0..(total' - 1)
       /\ total' \in 1..MaxBlocks /\ name' \in Wanted /\ name' = name
  BY <1>1, <1>2, <1>3
<1> QED BY <1>2, <1>6, <1>7, <1>8, <1>9, <1>10, <1>11, <1>12, FilesChanged DEF Typed

LEMMA FinishTyped == ASSUME Typed, FinishDownload PROVE Typed'
<1>1. /\ regular' = [regular EXCEPT ![name] = IF part[name] = Some(0..(total - 1)) THEN Whole ELSE part[name]]
      /\ part' = [part EXCEPT ![name] = Absent] /\ loose' = {} /\ pc' = "prompt"
      /\ UNCHANGED <<meta, name, total, arrived, list, entries, excuse>> /\ arrived = {}
  BY DEF FinishDownload, listVars
<1>2. /\ name \in Names /\ name \in Wanted /\ total \in 1..MaxBlocks
      /\ arrived \subseteq 0..(total - 1) /\ excuse \in [Names -> Excuses]
  BY NamesWanted DEF Typed, TypeOK
<1>3. part'[name] = Absent /\ part' = [part EXCEPT ![name] = part'[name]]
  BY <1>1, <1>2 DEF Typed
<1>4. regular'[name] \in {Whole, part[name]} /\ regular' = [regular EXCEPT ![name] = regular'[name]]
  BY <1>1, <1>2 DEF Typed
<1>5. part[name] \in {Absent} \cup {Some(b) : b \in SUBSET (0..(MaxBlocks - 1))}
  BY <1>2 DEF Typed, TypeOK
<1>6. regular'[name] \in {Absent, Whole} \cup {Some(b) : b \in SUBSET (0..(MaxBlocks - 1))}
  BY <1>4, <1>5
<1> QED BY <1>1, <1>2, <1>3, <1>4, <1>6, FilesChanged DEF Typed

LEMMA EndTyped == ASSUME Typed, End PROVE Typed'
<1>1. /\ pc' = "off" /\ arrived' = {} /\ loose' = {} /\ entries' = {} /\ list' = <<>>
      /\ UNCHANGED <<regular, meta, name, total, excuse>>
  BY DEF End
<1>2. PICK lost \in {{}, loose} : part' = IF lost = {} THEN part ELSE [part EXCEPT ![name] = Some(@[2] \ lost)]
  BY DEF End
<1>3. name \in Names /\ name \in Wanted /\ total \in 1..MaxBlocks /\ excuse \in [Names -> Excuses]
  BY NamesWanted DEF Typed, TypeOK
<1>4. part'[name] \in {Absent} \cup {Some(b) : b \in SUBSET (0..(MaxBlocks - 1))}
  <2>1. CASE lost = {}
    BY <1>2, <1>3, <2>1 DEF Typed, TypeOK
  <2>2. CASE lost # {}
    <3>1. part[name][2] \in SUBSET (0..(MaxBlocks - 1))
      BY <1>2, <1>3, <2>2, PartFile DEF Typed
    <3>2. part'[name] = Some(part[name][2] \ lost)
      BY <1>2, <1>3, <2>2 DEF Typed
    <3>3. part[name][2] \ lost \in SUBSET (0..(MaxBlocks - 1))
      BY <3>1
    <3> QED BY <3>2, <3>3
  <2> QED BY <2>1, <2>2
<1>5. part' = [part EXCEPT ![name] = part'[name]] /\ regular' = [regular EXCEPT ![name] = regular'[name]]
  BY <1>1, <1>2, <1>3 DEF Typed
<1>6. regular'[name] \in {Absent, Whole} \cup {Some(b) : b \in SUBSET (0..(MaxBlocks - 1))}
  BY <1>1, <1>3 DEF Typed, TypeOK
<1>7. list' \in Seq([name : AllNames, state : States])
  <2> DEFINE R == [name : AllNames, state : States]
  <2> HIDE DEF R
  <2>1. list' \in Seq(R)
    BY <1>1
  <2> QED BY <2>1 DEF R
<1> QED BY <1>1, <1>3, <1>4, <1>5, <1>6, <1>7, FilesChanged DEF Typed

LEMMA UserTyped == ASSUME Typed, CopyIn \/ Delete PROVE Typed'
<1>1. UNCHANGED <<meta, pc, name, total, arrived, loose, list, entries>> /\ pc \in {"off", "prompt"} /\ loose = {} /\ arrived = {}
  BY DEF CopyIn, Delete, downloadVars, listVars, Typed
<1>2. PICK n \in Names : \/ regular' = [regular EXCEPT ![n] = Whole] /\ part' = part
                         \/ regular' = [regular EXCEPT ![n] = Absent] /\ part' = [part EXCEPT ![n] = Absent]
  BY NamesWanted DEF CopyIn, Delete
<1>3. /\ regular' = [regular EXCEPT ![n] = regular'[n]] /\ part' = [part EXCEPT ![n] = part'[n]]
      /\ regular'[n] \in {Absent, Whole} /\ part'[n] \in {Absent, part[n]}
  BY <1>2 DEF Typed
<1>4. part'[n] \in {Absent} \cup {Some(b) : b \in SUBSET (0..(MaxBlocks - 1))}
  BY <1>3 DEF Typed, TypeOK
<1>5. name \in Wanted /\ total \in 1..MaxBlocks /\ arrived \subseteq 0..(total - 1)
  BY DEF Typed, TypeOK
<1>6. excuse' \in [Names -> Excuses]
  <2>1. excuse \in [Names -> Excuses] /\ "none" \in Excuses /\ "deleted" \in Excuses
    BY DEF Typed, TypeOK, Excuses
  <2> QED BY <2>1, ExcuseTyped DEF CopyIn, Delete
<1> QED BY <1>1, <1>3, <1>4, <1>5, <1>6, FilesChanged DEF Typed

LEMMA StepTyped == ASSUME Typed, [Next]_vars PROVE Typed'
<1>1. CASE UNCHANGED vars
  <2>1. UNCHANGED <<regular, part, name, total, arrived, loose, meta, list, entries, pc, excuse>>
    BY <1>1 DEF vars, disk, downloadVars, listVars
  <2> QED BY <2>1 DEF Typed, TypeOK, Exists
<1>2. CASE Next
  BY <1>2, HelloTyped, ListTyped, WriteTyped, OpenTyped, ReceiveTyped, FinishTyped, EndTyped, UserTyped DEF Next
<1> QED BY <1>1, <1>2

LEMMA AlwaysTyped == Spec => []Typed
<1>1. Typed /\ [Next]_vars => Typed'
  BY StepTyped
<1> QED BY <1>1, InitTyped, PTL DEF Spec

\* The files, the records of ll and the state of a download are of the right kinds, and a download
\* has its part file from the moment it was opened (DownloadFile.c:189-207).
THEOREM TypeCorrect == Spec => []TypeOK
BY AlwaysTyped, PTL DEF Typed

-----------------------------------------------------------------------------
(* ll *)

\* What a directory entry does to the list: a new record, or a new state of the record of the name.
Effect(n, states, new) ==
  /\ \A i, j \in DOMAIN list' : list'[i].name = list'[j].name => i = j
  /\ \A i \in DOMAIN list' : list'[i].name # n => i \in DOMAIN list /\ list'[i] = list[i]
  /\ \A i \in DOMAIN list : \E j \in DOMAIN list' : list'[j].name = list[i].name
  /\ \E i \in DOMAIN list' : list'[i].name = n
  /\ \A i \in DOMAIN list' :
       list'[i].name = n =>
         \/ list'[i] = [name |-> n, state |-> new] /\ \A j \in DOMAIN list : list[j].name # n
         \/ /\ i \in DOMAIN list /\ list[i].name = n /\ list[i].state \in DOMAIN states
            /\ list'[i] = [name |-> n, state |-> states[list[i].state]]
         \/ /\ i \in DOMAIN list /\ list[i].name = n /\ list[i].state \notin DOMAIN states
            /\ list'[i] = list[i]

LEMMA RecordEffect ==
  ASSUME Typed, NEW n \in AllNames, NEW new \in States, NEW states,
         \A s \in DOMAIN states : states[s] \in States, Record(n, states, new),
         \A i, j \in DOMAIN list : list[i].name = list[j].name => i = j
  PROVE  Effect(n, states, new)
<1> DEFINE f == Find(n)
           R == [name : AllNames, state : States]
<1>1. /\ f # 0 => f \in DOMAIN list /\ list[f].name = n
      /\ f = 0 => \A i \in DOMAIN list : list[i].name # n
  BY FindFacts DEF Typed
<1>2. list \in Seq(R)
  BY DEF Typed
<1> HIDE DEF f
<1>3. CASE f = 0
  <2> DEFINE new0 == [name |-> n, state |-> new]
  <2>1. list' = Append(list, new0)
    BY <1>3 DEF Record, f
  <2>2. new0 \in R /\ new0.name = n
    OBVIOUS
  <2> HIDE DEF R, new0
  <2>3. /\ Len(list) \in Nat /\ DOMAIN list = 1..Len(list) /\ DOMAIN list' = 1..(Len(list) + 1)
        /\ list'[Len(list) + 1] = new0 /\ \A i \in 1..Len(list) : list'[i] = list[i]
    BY <1>2, <2>1, <2>2, LenProperties, AppendProperties
  <2>4. \A i \in DOMAIN list' : i \in DOMAIN list \/ i = Len(list) + 1
    BY <2>3
  <2>5. Len(list) + 1 \in DOMAIN list' /\ Len(list) + 1 \notin DOMAIN list /\ \A i \in DOMAIN list : i \in DOMAIN list'
    BY <2>3
  <2>6. \A i \in DOMAIN list : list'[i] = list[i] /\ list[i].name # n
    BY <1>1, <1>3, <2>3
  <2> QED BY <2>2, <2>3, <2>4, <2>5, <2>6 DEF new0, Effect
<1>4. CASE f # 0 /\ list[f].state \in DOMAIN states
  <2> DEFINE changed == [name |-> n, state |-> states[list[f].state]]
  <2>1. list' = [list EXCEPT ![f] = changed]
    BY <1>4 DEF Record, f
  <2>2. changed.name = n
    OBVIOUS
  <2> HIDE DEF changed
  <2>3. DOMAIN list' = DOMAIN list /\ list'[f] = changed /\ \A i \in DOMAIN list : i # f => list'[i] = list[i]
    BY <1>1, <1>4, <2>1
  <2> QED BY <1>1, <1>4, <2>2, <2>3 DEF changed, Effect
<1>5. CASE f # 0 /\ list[f].state \notin DOMAIN states
  <2>1. list' = list
    BY <1>5 DEF Record, f
  <2> QED BY <1>1, <1>5, <2>1 DEF Effect
<1> QED BY <1>3, <1>4, <1>5

\* A record of another name fits as before.
LEMMA FitsOther ==
  ASSUME NEW r, NEW read, NEW n, NEW extension, r.name # n, Fits(r, read)
  PROVE  Fits(r, read \cup {<<n, extension>>})
<1>1. \A x : <<r.name, x>> \in read \cup {<<n, extension>>} <=> <<r.name, x>> \in read
  OBVIOUS
<1> QED BY <1>1 DEF Fits

\* A new record fits: nothing of the name was read before.
LEMMA FitsNew ==
  ASSUME NEW read, NEW n, NEW extension, \A x : <<n, x>> \notin read,
         NEW s, \/ extension = "json" /\ s = "META_ONLY"
                \/ extension = "part" /\ s = "PART_WITHOUT_META"
                \/ extension = "" /\ s = "FILE_WITHOUT_META"
  PROVE  Fits([name |-> n, state |-> s], read \cup {<<n, extension>>})
<1>1. \A x : <<n, x>> \in read \cup {<<n, extension>>} <=> x = extension
  OBVIOUS
<1> QED BY <1>1 DEF Fits

\* A record with a new state fits.
LEMMA FitsChanged ==
  ASSUME NEW r, NEW read, NEW extension, <<r.name, extension>> \notin read, Fits(r, read),
         NEW s, \/ extension = "json" /\ r.state = "PART_WITHOUT_META" /\ s = "PART_WITH_META"
                \/ extension = "json" /\ r.state = "FILE_WITHOUT_META" /\ s = "FILE_WITH_META"
                \/ extension = "part" /\ r.state = "META_ONLY" /\ s = "PART_WITH_META"
                \/ extension = "" /\ r.state = "META_ONLY" /\ s = "FILE_WITH_META"
  PROVE  Fits([name |-> r.name, state |-> s], read \cup {<<r.name, extension>>})
<1>1. \A x : <<r.name, x>> \in read \cup {<<r.name, extension>>} <=> x = extension \/ <<r.name, x>> \in read
  OBVIOUS
<1> QED BY <1>1 DEF Fits

\* A record that keeps its state fits.
LEMMA FitsKept ==
  ASSUME NEW r, NEW read, NEW extension, <<r.name, extension>> \notin read, Fits(r, read), r.state \in States,
         \/ extension = "json" /\ r.state \notin {"PART_WITHOUT_META", "FILE_WITHOUT_META"}
         \/ extension \in {"part", ""} /\ r.state # "META_ONLY"
  PROVE  Fits(r, read \cup {<<r.name, extension>>})
<1>1. \A x : <<r.name, x>> \in read \cup {<<r.name, extension>>} <=> x = extension \/ <<r.name, x>> \in read
  OBVIOUS
<1> QED BY <1>1 DEF Fits, States

LEMMA PairOf == ASSUME NEW S, NEW T, NEW p \in S \X T PROVE \E a \in S, b \in T : p = <<a, b>>
OBVIOUS

\* What ListEntry does with an entry of each kind, if it reads the name rightly.
Listed_as(n, extension) ==
  CASE extension = "json" ->
         Record(n, [PART_WITHOUT_META |-> "PART_WITH_META", FILE_WITHOUT_META |-> "FILE_WITH_META"], "META_ONLY")
    [] extension = "part" -> Record(n, [META_ONLY |-> "PART_WITH_META"], "PART_WITHOUT_META")
    [] extension = ""     -> Record(n, [META_ONLY |-> "FILE_WITH_META"], "FILE_WITHOUT_META")

LEMMA EntryRecord ==
  ASSUME Typed, ListEntry, ~misread'
  PROVE  /\ ~misread
         /\ \E n \in Names, extension \in {"", "part", "json"} :
              <<n, extension>> \in entries /\ entries' = entries \ {<<n, extension>>} /\ Listed_as(n, extension)
<1>1. PICK e \in entries : /\ entries' = entries \ {e}
                           /\ CASE e[2] = "json" -> AddMetaFile(e[1])
                                [] e[2] = "part" -> AddPartFile(e[1])
                                [] e[2] = ""     -> AddRegularFile(e[1])
  BY DEF ListEntry
<1>2. PICK n \in Names, extension \in {"", "part", "json"} : e = <<n, extension>>
  <2>1. e \in Names \X {"", "part", "json"}
    BY DEF Typed
  <2> DEFINE Extensions == {"", "part", "json"}
  <2> HIDE DEF Extensions
  <2>2. e \in Names \X Extensions
    BY <2>1 DEF Extensions
  <2>3. \E n \in Names, x \in Extensions : e = <<n, x>>
    BY <2>2, PairOf
  <2> QED BY <2>3 DEF Extensions
<1>3. e[1] = n /\ e[2] = extension
  BY <1>2
<1>4. CASE extension = "json"
  <2>1. AddMetaFile(n)
    BY <1>1, <1>3, <1>4
  <2>2. PICK read \in {n} \cup Misread(n) :
          /\ Record(read, [PART_WITHOUT_META |-> "PART_WITH_META", FILE_WITHOUT_META |-> "FILE_WITH_META"], "META_ONLY")
          /\ misread' = (misread \/ read # n)
    BY <2>1 DEF AddMetaFile
  <2>3. read = n /\ ~misread
    BY <2>2
  <2>4. Listed_as(n, extension)
    BY <1>4, <2>2, <2>3 DEF Listed_as
  <2> QED BY <1>1, <1>2, <2>3, <2>4
<1>5. CASE extension = "part"
  <2>1. AddPartFile(n)
    BY <1>1, <1>3, <1>5
  <2>2. Listed_as(n, extension) /\ ~misread
    BY <1>5, <2>1 DEF AddPartFile, Listed_as
  <2> QED BY <1>1, <1>2, <2>2
<1>6. CASE extension = ""
  <2>1. AddRegularFile(n)
    BY <1>1, <1>3, <1>6
  <2>2. Listed_as(n, extension) /\ ~misread
    BY <1>6, <2>1 DEF AddRegularFile, Listed_as
  <2> QED BY <1>1, <1>2, <2>2
<1> QED BY <1>4, <1>5, <1>6

\* The records fit after an entry.
LEMMA EntryFits ==
  ASSUME Typed, NEW n \in Names, NEW extension \in {"", "part", "json"}, NEW read, <<n, extension>> \notin read,
         Listed_as(n, extension),
         Recorded(list, read)
  PROVE  Recorded(list', read \cup {<<n, extension>>})
<1> DEFINE now == read \cup {<<n, extension>>}
           states == CASE extension = "json" -> [PART_WITHOUT_META |-> "PART_WITH_META", FILE_WITHOUT_META |-> "FILE_WITH_META"]
                       [] extension = "part" -> [META_ONLY |-> "PART_WITH_META"]
                       [] extension = ""     -> [META_ONLY |-> "FILE_WITH_META"]
           new == CASE extension = "json" -> "META_ONLY"
                    [] extension = "part" -> "PART_WITHOUT_META"
                    [] extension = ""     -> "FILE_WITHOUT_META"
<1>1. Record(n, states, new) /\ new \in States /\ n \in AllNames
  BY EntryName DEF Listed_as, States
<1>2. /\ extension = "json" => /\ DOMAIN states = {"PART_WITHOUT_META", "FILE_WITHOUT_META"}
                               /\ states["PART_WITHOUT_META"] = "PART_WITH_META"
                               /\ states["FILE_WITHOUT_META"] = "FILE_WITH_META"
      /\ extension = "part" => DOMAIN states = {"META_ONLY"} /\ states["META_ONLY"] = "PART_WITH_META"
      /\ extension = "" => DOMAIN states = {"META_ONLY"} /\ states["META_ONLY"] = "FILE_WITH_META"
  OBVIOUS
<1>3. \/ extension = "json" /\ new = "META_ONLY"
      \/ extension = "part" /\ new = "PART_WITHOUT_META"
      \/ extension = "" /\ new = "FILE_WITHOUT_META"
  OBVIOUS
<1> HIDE DEF states, new
<1>4. \A s \in DOMAIN states : states[s] \in States
  BY <1>2 DEF States
<1>5. Effect(n, states, new)
  <2>1. \A i, j \in DOMAIN list : list[i].name = list[j].name => i = j
    BY DEF Recorded
  <2> QED BY <1>1, <1>4, <2>1, RecordEffect
<1>a. \A i \in DOMAIN list : list[i].name \in Names /\ Fits(list[i], read)
  BY DEF Recorded
<1>b. \A e \in read : \E i \in DOMAIN list : list[i].name = e[1]
  BY DEF Recorded
<1> HIDE DEF now
<1>6. ASSUME NEW i \in DOMAIN list' PROVE list'[i].name \in Names /\ Fits(list'[i], now)
  <2>1. CASE list'[i].name # n
    <3>1. i \in DOMAIN list /\ list'[i] = list[i] /\ list[i].name # n
      BY <1>5, <2>1 DEF Effect
    <3>2. Fits(list[i], read) /\ list[i].name \in Names
      BY <1>a, <3>1
    <3>3. Fits(list[i], now)
      BY <3>1, <3>2, FitsOther DEF now
    <3> QED BY <3>1, <3>2, <3>3
  <2>2. CASE list'[i].name = n
    <3>1. CASE list'[i] = [name |-> n, state |-> new] /\ \A j \in DOMAIN list : list[j].name # n
      <4>1. ASSUME NEW x, <<n, x>> \in read PROVE FALSE
        <5>1. \E j \in DOMAIN list : list[j].name = <<n, x>>[1]
          BY <1>b, <4>1
        <5> QED BY <3>1, <5>1
      <4>2. Fits([name |-> n, state |-> new], now)
        BY <1>3, <4>1, FitsNew DEF now
      <4> QED BY <2>2, <3>1, <4>2
    <3>2. CASE /\ i \in DOMAIN list /\ list[i].name = n /\ list[i].state \in DOMAIN states
               /\ list'[i] = [name |-> n, state |-> states[list[i].state]]
      <4>1. Fits(list[i], read) /\ list[i].name = n
        BY <1>a, <3>2
      <4>2. \/ extension = "json" /\ list[i].state = "PART_WITHOUT_META" /\ states[list[i].state] = "PART_WITH_META"
            \/ extension = "json" /\ list[i].state = "FILE_WITHOUT_META" /\ states[list[i].state] = "FILE_WITH_META"
            \/ extension = "part" /\ list[i].state = "META_ONLY" /\ states[list[i].state] = "PART_WITH_META"
            \/ extension = "" /\ list[i].state = "META_ONLY" /\ states[list[i].state] = "FILE_WITH_META"
        BY <1>2, <3>2
      <4>3. Fits([name |-> n, state |-> states[list[i].state]], now)
        BY <4>1, <4>2, FitsChanged DEF now
      <4> QED BY <2>2, <3>2, <4>3
    <3>3. CASE /\ i \in DOMAIN list /\ list[i].name = n /\ list[i].state \notin DOMAIN states
               /\ list'[i] = list[i]
      <4>1. Fits(list[i], read) /\ list[i].name = n
        BY <1>a, <3>3
      <4>2. list[i].state \in States
        BY <3>3, RecordStates DEF Typed
      <4>3. \/ extension = "json" /\ list[i].state \notin {"PART_WITHOUT_META", "FILE_WITHOUT_META"}
            \/ extension \in {"part", ""} /\ list[i].state # "META_ONLY"
        BY <1>2, <3>3
      <4>4. Fits(list[i], now)
        BY <4>1, <4>2, <4>3, FitsKept DEF now
      <4> QED BY <2>2, <3>3, <4>4
    <3> QED BY <1>5, <2>2, <3>1, <3>2, <3>3 DEF Effect
  <2> QED BY <2>1, <2>2
<1>7. ASSUME NEW e \in now PROVE \E i \in DOMAIN list' : list'[i].name = e[1]
  <2>1. CASE e \in read
    <3>1. PICK j \in DOMAIN list : list[j].name = e[1]
      BY <1>b, <2>1
    <3>2. PICK i \in DOMAIN list' : list'[i].name = list[j].name
      BY <1>5 DEF Effect
    <3> QED BY <3>1, <3>2
  <2>2. CASE e = <<n, extension>>
    <3>1. e[1] = n
      BY <2>2
    <3>2. PICK i \in DOMAIN list' : list'[i].name = n
      BY <1>5 DEF Effect
    <3> QED BY <3>1, <3>2
  <2> QED BY <2>1, <2>2 DEF now
<1>8. \A i, j \in DOMAIN list' : list'[i].name = list'[j].name => i = j
  BY <1>5 DEF Effect
<1>9. Recorded(list', now)
  BY <1>6, <1>7, <1>8 DEF Recorded
<1> QED BY <1>9 DEF now

LEMMA ListingStep ==
  ASSUME ListInv, [Next]_vars
  PROVE  Listing'
<1> SUFFICES ASSUME pc' = "list", ~misread' PROVE Listing'
  BY DEF Listing
<1>1. CASE BeginList
  <2>1. entries' = Directory /\ Directory' = Directory /\ list' = <<>>
    BY <1>1 DEF BeginList, disk, Directory
  <2>2. Read' = {} /\ DOMAIN list' = {}
    BY <2>1 DEF Read
  <2> QED BY <2>1, <2>2 DEF Listing, Recorded
<1>2. CASE ListEntry
  <2>1. ~misread /\ Typed
    BY <1>2, EntryRecord DEF ListInv
  <2>2. PICK n \in Names, extension \in {"", "part", "json"} :
          <<n, extension>> \in entries /\ entries' = entries \ {<<n, extension>>} /\ Listed_as(n, extension)
    BY <1>2, <2>1, EntryRecord
  <2>3. pc = "list" /\ Directory' = Directory
    BY <1>2 DEF ListEntry, disk, Directory
  <2>4. entries \subseteq Directory /\ Recorded(list, Read)
    BY <2>1, <2>3 DEF ListInv, Listing
  <2>5. Read' = Read \cup {<<n, extension>>} /\ <<n, extension>> \notin Read /\ entries' \subseteq Directory'
    BY <2>2, <2>3, <2>4 DEF Read
  <2>6. Recorded(list', Read')
    BY <2>1, <2>2, <2>4, <2>5, EntryFits
  <2> QED BY <2>5, <2>6 DEF Listing
<1>3. CASE UNCHANGED vars
  <2>1. UNCHANGED <<pc, misread, list, entries>> /\ Directory' = Directory
    BY <1>3 DEF vars, disk, downloadVars, listVars, Directory
  <2>2. Read' = Read
    BY <2>1 DEF Read
  <2>3. Recorded(list, Read)' = Recorded(list, Read)
    BY <2>1, <2>2 DEF Recorded
  <2> QED BY <2>1, <2>2, <2>3 DEF ListInv, Listing
<1>4. CASE Next /\ ~BeginList /\ ~ListEntry
  <2>1. pc' # "list"
    <3>1. CASE BeginHello \/ AnnounceFile \/ SendHello \/ PrintList \/ EndList
      BY <3>1 DEF BeginHello, AnnounceFile, SendHello, PrintList, EndList
    <3>2. CASE Create \/ ResetMeta \/ ReceiveBlock \/ ListBlock
      BY <3>2 DEF Create, ResetMeta, ReceiveBlock, ListBlock, WriteMeta
    <3>3. CASE OpenPart \/ FinishDownload \/ End \/ CopyIn \/ Delete
      BY <3>3 DEF OpenPart, FinishDownload, End, CopyIn, Delete
    <3> QED BY <1>4, <3>1, <3>2, <3>3 DEF Next
  <2> QED BY <2>1
<1> QED BY <1>1, <1>2, <1>3, <1>4

LEMMA ListedStep ==
  ASSUME ListInv, [Next]_vars
  PROVE  ListedOnceAndRight'
<1> SUFFICES ASSUME pc' = "listed", ~misread' PROVE ListedOnceAndRight'
  BY DEF ListedOnceAndRight
<1>1. CASE PrintList
  <2>1. /\ pc = "list" /\ ~misread /\ entries = {} /\ UNCHANGED <<regular, part, meta>>
        /\ sections' = [s \in States |-> [i \in {j \in DOMAIN list : list[j].state = s} |-> list[i].name]]
    BY <1>1 DEF PrintList, disk
  <2>2. Recorded(list, Directory) /\ Typed
    <3>1. Read = Directory
      BY <2>1 DEF Read
    <3> QED BY <2>1, <3>1 DEF ListInv, Listing
  <2>3. SUFFICES ASSUME NEW n \in Names
                 PROVE  LET shown == {s \in States : \E i \in DOMAIN sections'[s] : sections'[s][i] = n}
                        IN  IF Right(n) = {} THEN shown = {}
                            ELSE /\ Cardinality(shown) = 1 /\ shown \subseteq Right(n)
                                 /\ \A s \in shown : Cardinality({i \in DOMAIN sections'[s] : sections'[s][i] = n}) = 1
    <3>1. \A n \in Names : Right(n)' = Right(n)
      BY <2>1 DEF Right
    <3> QED BY <3>1 DEF ListedOnceAndRight
  <2> DEFINE shown == {s \in States : \E i \in DOMAIN sections'[s] : sections'[s][i] = n}
  <2>4. \A s \in States : /\ DOMAIN sections'[s] = {j \in DOMAIN list : list[j].state = s}
                          /\ \A i \in DOMAIN sections'[s] : sections'[s][i] = list[i].name
    BY <2>1
  <2>5. shown = {s \in States : \E i \in DOMAIN list : list[i].state = s /\ list[i].name = n}
    BY <2>4
  <2>6. \A x : /\ <<n, "">> \in Directory <=> Exists(regular[n])
               /\ <<n, "part">> \in Directory <=> Exists(part[n])
               /\ <<n, "json">> \in Directory <=> Exists(meta[n])
    BY DEF Directory
  <2>7. CASE \A i \in DOMAIN list : list[i].name # n
    <3>1. \A e \in Directory : e[1] # n
      BY <2>2, <2>7 DEF Recorded
    <3>2. ~Exists(regular[n]) /\ ~Exists(part[n]) /\ ~Exists(meta[n])
      BY <2>6, <3>1
    <3>3. Right(n) = {}
      BY <3>2 DEF Right, States
    <3>4. shown = {}
      BY <2>5, <2>7
    <3> QED BY <3>3, <3>4
  <2>8. CASE \E i \in DOMAIN list : list[i].name = n
    <3>1. PICK i \in DOMAIN list : list[i].name = n
      BY <2>8
    <3>2. \A j \in DOMAIN list : list[j].name = n => j = i
      BY <2>2, <3>1 DEF Recorded
    <3>3. list[i].state \in States
      BY <2>2, RecordStates DEF Typed
    <3>4. Fits(list[i], Directory)
      BY <2>2 DEF Recorded
    <3>5. list[i].state \in Right(n)
      BY <2>6, <3>1, <3>3, <3>4 DEF Fits, Right, States
    <3>6. shown = {list[i].state}
      BY <2>5, <3>1, <3>2, <3>3
    <3>7. {j \in DOMAIN sections'[list[i].state] : sections'[list[i].state][j] = n} = {i}
      BY <2>4, <3>1, <3>2, <3>3
    <3> HIDE DEF shown
    <3>8. Cardinality(shown) = 1 /\ Cardinality({j \in DOMAIN sections'[list[i].state] : sections'[list[i].state][j] = n}) = 1
      BY <3>6, <3>7, FS_Singleton
    <3> QED BY <3>5, <3>6, <3>8 DEF shown
  <2> QED BY <2>7, <2>8
<1>2. CASE UNCHANGED vars
  <2>1. UNCHANGED <<pc, misread, sections, regular, part, meta>>
    BY <1>2 DEF vars, disk, downloadVars, listVars
  <2>2. \A n \in Names : Right(n)' = Right(n)
    BY <2>1 DEF Right
  <2> QED BY <2>1, <2>2 DEF ListInv, ListedOnceAndRight
<1>3. CASE Next /\ ~PrintList
  <2>1. pc' # "listed"
    <3>1. CASE BeginHello \/ AnnounceFile \/ SendHello \/ BeginList \/ ListEntry \/ EndList
      BY <3>1 DEF BeginHello, AnnounceFile, SendHello, BeginList, ListEntry, EndList
    <3>2. CASE Create \/ ResetMeta \/ ReceiveBlock \/ ListBlock
      BY <3>2 DEF Create, ResetMeta, ReceiveBlock, ListBlock, WriteMeta
    <3>3. CASE OpenPart \/ FinishDownload \/ End \/ CopyIn \/ Delete
      BY <3>3 DEF OpenPart, FinishDownload, End, CopyIn, Delete
    <3> QED BY <1>3, <3>1, <3>2, <3>3 DEF Next
  <2> QED BY <2>1
<1> QED BY <1>1, <1>2, <1>3

\* ll shows every name that has a file once, in the section that its files say, in whatever order
\* readdir returns them (FillListWithFiles and printFileList, ListLocalFiles.c:38-219), unless strncpy
\* has left more than the name of a metadata file in its record (:152).
THEOREM ListIsRight == Spec => []ListedOnceAndRight
<1>1. Init => ListInv
  BY InitTyped DEF Init, ListInv, Listing, ListedOnceAndRight
<1>2. ListInv /\ [Next]_vars => ListInv'
  BY StepTyped, ListingStep, ListedStep DEF ListInv
<1>3. ListInv => ListedOnceAndRight
  BY DEF ListInv
<1> QED BY <1>1, <1>2, <1>3, PTL DEF Spec

-----------------------------------------------------------------------------
(* JSON values in memory *)

LEMMA FunctionIsSeq ==
  ASSUME NEW n \in Nat, NEW s, s = [i \in 1..n |-> s[i]]
  PROVE  IsSeq(s) /\ Len(s) = n /\ DOMAIN s = 1..n
<1>1. s \in [1..n -> {s[i] : i \in DOMAIN s}]
  OBVIOUS
<1>2. s \in Seq({s[i] : i \in DOMAIN s})
  BY <1>1, SeqDef
<1>3. DOMAIN s = 1..n
  OBVIOUS
<1>4. Len(s) \in Nat /\ DOMAIN s = 1..Len(s)
  BY <1>2, LenProperties
<1>5. Len(s) = n
  BY <1>3, <1>4
<1> QED BY <1>2, <1>3, <1>5 DEF IsSeq

Cell(kind, names, kids, parent) ==
  [kind |-> kind, names |-> names, kids |-> kids, parent |-> parent, frees |-> 0]

NewName(names, member) == \A i \in 1..Len(names) : names[i] # member

\* The member of a name: none, or the only one.
LEMMA GetNone ==
  ASSUME NEW h, NEW o, NEW member, NewName(h[o].names, member)
  PROVE  Get_value(h, o, member) = Null
BY DEF Get_value, SelectInSeq, NewName

LEMMA GetOnly ==
  ASSUME NEW h, NEW o, NEW member, Len(h[o].names) \in Nat, NEW i \in 1..Len(h[o].names), h[o].names[i] = member,
         \A j \in 1..Len(h[o].names) : h[o].names[j] = member => j = i
  PROVE  Get_value(h, o, member) = h[o].kids[i]
<1>1. {j \in 1..Len(h[o].names) : h[o].names[j] = member} = {i}
  OBVIOUS
<1>2. (CHOOSE x \in {i} : \A y \in {i} : x =< y) = i /\ i # 0
  OBVIOUS
<1>3. SelectInSeq(h[o].names, LAMBDA other : other = member) = i
  BY <1>1, <1>2 DEF SelectInSeq, Min
<1> QED BY <1>2, <1>3 DEF Get_value

\* json_object_addn, as an update of the heap.
LEMMA Adopted ==
  ASSUME NEW n \in Nat, NEW g, DOMAIN g = 1..n, NEW o \in 1..n, NEW id \in 1..n, o # id, NEW member,
         g[o] = [kind |-> g[o].kind, names |-> g[o].names, kids |-> g[o].kids, parent |-> g[o].parent, frees |-> g[o].frees],
         NEW r, r = [g EXCEPT ![id].parent = o, ![o].names = Append(@, member), ![o].kids = Append(@, id)]
  PROVE  r[o] = [kind |-> g[o].kind, names |-> Append(g[o].names, member), kids |-> Append(g[o].kids, id),
                 parent |-> g[o].parent, frees |-> g[o].frees]
OBVIOUS

\* A new value under a new name.
IsCell(c) == c = Cell(c.kind, c.names, c.kids, c.parent)

LEMMA CellFields ==
  ASSUME NEW kind, NEW names, NEW kids, NEW parent
  PROVE  LET c == Cell(kind, names, kids, parent)
         IN  c.kind = kind /\ c.names = names /\ c.kids = kids /\ c.parent = parent /\ IsCell(c)
BY DEF Cell, IsCell

LEMMA SetNew ==
  ASSUME NEW h, IsSeq(h), NEW o \in DOMAIN h, IsCell(h[o]), NEW member, NewName(h[o].names, member), NEW atom,
         NEW r, r = Set_value(Append(h, NewCell(atom)), o, member, Len(h) + 1)
  PROVE  /\ IsSeq(r) /\ Len(r) = Len(h) + 1
         /\ \A i \in 1..Len(h) : i # o => r[i] = h[i]
         /\ r[o] = Cell(h[o].kind, Append(h[o].names, member), Append(h[o].kids, Len(h) + 1), h[o].parent)
         /\ r[Len(h) + 1] = Cell(atom, <<>>, <<>>, o)
<1> DEFINE n == Len(h)
           g == Append(h, NewCell(atom))
           kind == h[o].kind
           names == h[o].names
           kids == h[o].kids
           parent == h[o].parent
           u == [g EXCEPT ![n + 1].parent = o, ![o].names = Append(@, member), ![o].kids = Append(@, n + 1)]
<1>1. n \in Nat /\ DOMAIN h = 1..n /\ o \in 1..n /\ o # n + 1 /\ n + 1 \in 1..(n + 1)
  BY IsSeqLen
<1>2. /\ DOMAIN g = 1..(n + 1) /\ g[n + 1] = NewCell(atom) /\ \A i \in 1..n : g[i] = h[i]
      /\ IsSeq(g)
  BY AppendIsSeq
<1> HIDE DEF g, n
<1>3. g[o] = Cell(kind, names, kids, parent) /\ g[n + 1].parent = Null
  BY <1>1, <1>2 DEF NewCell, IsCell
<1>4. Get_value(g, o, member) = Null
  <2>1. g[o].names = names
    BY <1>3 DEF Cell
  <2> QED BY <2>1, GetNone
<1>5. Set_value(g, o, member, n + 1) = u
  BY <1>3, <1>4 DEF Set_value, Object_add
<1>6. DOMAIN u = 1..(n + 1) /\ u = [i \in 1..(n + 1) |-> u[i]]
  BY <1>1, <1>2
<1>7. \A i \in 1..n : i # o => u[i] = h[i]
  BY <1>1, <1>2
<1>8. u[n + 1] = Cell(atom, <<>>, <<>>, o)
  BY <1>1, <1>2 DEF Cell, NewCell
<1>9. u[o] = Cell(kind, Append(names, member), Append(kids, n + 1), parent)
  <2>1. /\ g[o].kind = kind /\ g[o].names = names /\ g[o].kids = kids /\ g[o].parent = parent /\ g[o].frees = 0
        /\ g[o] = [kind |-> g[o].kind, names |-> g[o].names, kids |-> g[o].kids, parent |-> g[o].parent, frees |-> g[o].frees]
    BY <1>3 DEF Cell
  <2>2. u[o] = [kind |-> g[o].kind, names |-> Append(g[o].names, member), kids |-> Append(g[o].kids, n + 1),
                parent |-> g[o].parent, frees |-> g[o].frees]
    <3>1. n + 1 \in Nat /\ o \in 1..(n + 1) /\ n + 1 \in 1..(n + 1) /\ o # n + 1 /\ DOMAIN g = 1..(n + 1)
      BY <1>1, <1>2
    <3>2. u = [g EXCEPT ![n + 1].parent = o, ![o].names = Append(@, member), ![o].kids = Append(@, n + 1)]
      OBVIOUS
    <3> HIDE DEF u
    <3> QED BY <2>1, <3>1, <3>2, Adopted
  <2> HIDE DEF u
  <2> QED BY <2>1, <2>2 DEF Cell
<1> HIDE DEF u
<1>10. IsSeq(u) /\ Len(u) = n + 1
  BY <1>1, <1>6, FunctionIsSeq
<1> QED BY <1>5, <1>7, <1>8, <1>9, <1>10 DEF g, n

\* A value without an owner goes to an array.
LEMMA AppendValue ==
  ASSUME NEW h, IsSeq(h), NEW a \in DOMAIN h, NEW id \in DOMAIN h, a # id,
         IsCell(h[a]), IsCell(h[id]), h[id].parent = Null,
         NEW r, r = Append_value(h, a, id)
  PROVE  /\ IsSeq(r) /\ Len(r) = Len(h)
         /\ \A i \in 1..Len(h) : i # a /\ i # id => r[i] = h[i]
         /\ r[a] = Cell(h[a].kind, h[a].names, Append(h[a].kids, id), h[a].parent)
         /\ r[id] = Cell(h[id].kind, h[id].names, h[id].kids, a)
<1> DEFINE n == Len(h)
           kids == h[a].kids
<1>1. n \in Nat /\ DOMAIN h = 1..n
  BY IsSeqLen
<1>2. r = [h EXCEPT ![id].parent = a, ![a].kids = Append(@, id)]
  BY DEF Append_value
<1>3. DOMAIN r = 1..n /\ r = [i \in 1..n |-> r[i]]
  BY <1>1, <1>2
<1>4. \A i \in 1..n : i # a /\ i # id => r[i] = h[i]
  BY <1>1, <1>2
<1>5. r[id] = [h[id] EXCEPT !.parent = a]
  BY <1>1, <1>2
<1>6. r[a] = [h[a] EXCEPT !.kids = Append(h[a].kids, id)]
  BY <1>1, <1>2
<1>7. IsSeq(r) /\ Len(r) = n
  BY <1>1, <1>3, FunctionIsSeq
<1>8. ASSUME NEW c, IsCell(c), NEW x
      PROVE  /\ [c EXCEPT !.parent = x] = Cell(c.kind, c.names, c.kids, x)
             /\ [c EXCEPT !.kids = x] = Cell(c.kind, c.names, x, c.parent)
  BY <1>8 DEF IsCell, Cell
<1> QED BY <1>4, <1>5, <1>6, <1>7, <1>8

\* The metadata of a file in memory: the object with its name, number and list, and three values for
\* each of the first m blocks of s.
IsMeta(h, n, number, s, m) ==
  /\ IsSeq(h) /\ Len(h) = 3 * m + 4
  /\ h[1] = Cell(<<"object">>, <<"fileName", "numOfBlocks", "blocks">>, <<2, 3, 4>>, Null)
  /\ h[2] = Cell(String(n), <<>>, <<>>, 1)
  /\ h[3] = Cell(Number(number), <<>>, <<>>, 1)
  /\ h[4] = Cell(<<"array">>, <<>>, [k \in 1..m |-> 3 * k + 2], 1)
  /\ \A k \in 1..m : /\ h[3 * k + 2] = Cell(<<"object">>, <<"parentFile", "index">>, <<3 * k + 3, 3 * k + 4>>, 4)
                     /\ h[3 * k + 3] = Cell(String(n), <<>>, <<>>, 3 * k + 2)
                     /\ h[3 * k + 4] = Cell(Number(s[k]), <<>>, <<>>, 3 * k + 2)

LEMMA Tuples ==
  /\ \A a : Append(<<>>, a) = <<a>>
  /\ \A a, b : Append(<<a>>, b) = <<a, b>>
  /\ \A a, b, c : Append(<<a, b>>, c) = <<a, b, c>>
  /\ \A a : Len(<<a>>) = 1
  /\ \A a, b : Len(<<a, b>>) = 2
  /\ \A a, b, c : Len(<<a, b, c>>) = 3
<1>1. \A a : Append(<<>>, a) = <<a>>
  OBVIOUS
<1>2. ASSUME NEW a, NEW b PROVE Append(<<a>>, b) = <<a, b>>
  <2>1. IsSeq(<<a>>) /\ Len(<<a>>) = 1
    <3>1. <<a>> = [i \in 1..1 |-> <<a>>[i]]
      OBVIOUS
    <3> QED BY <3>1, FunctionIsSeq
  <2>2. IsSeq(<<a, b>>) /\ Len(<<a, b>>) = 2
    <3>1. <<a, b>> = [i \in 1..2 |-> <<a, b>>[i]]
      OBVIOUS
    <3> QED BY <3>1, FunctionIsSeq
  <2>3. IsSeq(Append(<<a>>, b)) /\ Len(Append(<<a>>, b)) = 2 /\ Append(<<a>>, b)[1] = a /\ Append(<<a>>, b)[2] = b
    <3>1. /\ IsSeq(Append(<<a>>, b)) /\ Len(Append(<<a>>, b)) = Len(<<a>>) + 1
          /\ \A i \in 1..Len(<<a>>) : Append(<<a>>, b)[i] = <<a>>[i]
          /\ Append(<<a>>, b)[Len(<<a>>) + 1] = b
      BY <2>1, AppendIsSeq
    <3> QED BY <2>1, <3>1
  <2>4. \A i \in 1..2 : Append(<<a>>, b)[i] = <<a, b>>[i]
    BY <2>3
  <2> QED BY <2>2, <2>3, <2>4, SameSeq
<1>3. ASSUME NEW a, NEW b, NEW c PROVE Append(<<a, b>>, c) = <<a, b, c>>
  <2>1. IsSeq(<<a, b>>) /\ Len(<<a, b>>) = 2
    <3>1. <<a, b>> = [i \in 1..2 |-> <<a, b>>[i]]
      OBVIOUS
    <3> QED BY <3>1, FunctionIsSeq
  <2>2. IsSeq(<<a, b, c>>) /\ Len(<<a, b, c>>) = 3
    <3>1. <<a, b, c>> = [i \in 1..3 |-> <<a, b, c>>[i]]
      OBVIOUS
    <3> QED BY <3>1, FunctionIsSeq
  <2>3. /\ IsSeq(Append(<<a, b>>, c)) /\ Len(Append(<<a, b>>, c)) = 3
        /\ Append(<<a, b>>, c)[1] = a /\ Append(<<a, b>>, c)[2] = b /\ Append(<<a, b>>, c)[3] = c
    <3>1. /\ IsSeq(Append(<<a, b>>, c)) /\ Len(Append(<<a, b>>, c)) = Len(<<a, b>>) + 1
          /\ \A i \in 1..Len(<<a, b>>) : Append(<<a, b>>, c)[i] = <<a, b>>[i]
          /\ Append(<<a, b>>, c)[Len(<<a, b>>) + 1] = c
      BY <2>1, AppendIsSeq
    <3> QED BY <2>1, <3>1
  <2>4. \A i \in 1..3 : Append(<<a, b>>, c)[i] = <<a, b, c>>[i]
    BY <2>3
  <2> QED BY <2>2, <2>3, <2>4, SameSeq
<1>4. \A a : Len(<<a>>) = 1
  OBVIOUS
<1>5. \A a, b : Len(<<a, b>>) = 2
  OBVIOUS
<1>6. \A a, b, c : Len(<<a, b, c>>) = 3
  OBVIOUS
<1> QED BY <1>1, <1>2, <1>3, <1>4, <1>5, <1>6

LEMMA NewMetaIsMeta ==
  ASSUME NEW n, NEW number, NEW s
  PROVE  IsMeta(NewMeta(n, number), n, number, s, 0)
<1> DEFINE g1 == Init_object(<<>>)
           g2 == Set_atom(g1, Root, "fileName", String(n))
           g3 == Set_atom(g2, Root, "numOfBlocks", Number(number))
           g4 == Set_array(g3, Root, "blocks")
<1>1. IsSeq(g1) /\ Len(g1) = 1 /\ DOMAIN g1 = 1..1 /\ g1[1] = Cell(<<"object">>, <<>>, <<>>, Null)
  <2>1. IsSeq(<<>>) /\ Len(<<>>) = 0
    BY EmptyIsSeq
  <2>2. /\ IsSeq(g1) /\ Len(g1) = 0 + 1 /\ DOMAIN g1 = 1..(0 + 1) /\ g1[0 + 1] = NewCell(<<"object">>)
    BY <2>1, AppendIsSeq DEF Init_object
  <2> QED BY <2>2 DEF Cell, NewCell
<1> HIDE DEF g1
<1>2. /\ IsSeq(g2) /\ Len(g2) = 2
      /\ g2[1] = Cell(<<"object">>, <<"fileName">>, <<2>>, Null) /\ g2[2] = Cell(String(n), <<>>, <<>>, 1)
  <2>1. g2 = Set_value(Append(g1, NewCell(String(n))), 1, "fileName", Len(g1) + 1)
    BY <1>1 DEF Set_atom, Init_atom, Root
  <2>2. 1 \in DOMAIN g1 /\ NewName(<<>>, "fileName")
    BY <1>1, IsSeqLen, Tuples, EmptyIsSeq DEF NewName
  <2>3. /\ g1[1].kind = <<"object">> /\ g1[1].names = <<>> /\ g1[1].kids = <<>> /\ g1[1].parent = Null
        /\ IsCell(g1[1])
    BY <1>1, CellFields
  <2> HIDE DEF g2
  <2>4. /\ IsSeq(g2) /\ Len(g2) = Len(g1) + 1 /\ (\A i \in 1..Len(g1) : i # 1 => g2[i] = g1[i])
        /\ g2[1] = Cell(g1[1].kind, Append(g1[1].names, "fileName"), Append(g1[1].kids, Len(g1) + 1), g1[1].parent)
        /\ g2[Len(g1) + 1] = Cell(String(n), <<>>, <<>>, 1)
    <3>1. IsSeq(g1) /\ 1 \in DOMAIN g1 /\ IsCell(g1[1]) /\ NewName(g1[1].names, "fileName")
      BY <1>1, <2>2, <2>3
    <3> QED BY <2>1, <3>1, SetNew
  <2> QED BY <1>1, <2>3, <2>4, Tuples
<1> HIDE DEF g2
<1>3. /\ IsSeq(g3) /\ Len(g3) = 3
      /\ g3[1] = Cell(<<"object">>, <<"fileName", "numOfBlocks">>, <<2, 3>>, Null)
      /\ g3[2] = Cell(String(n), <<>>, <<>>, 1) /\ g3[3] = Cell(Number(number), <<>>, <<>>, 1)
  <2>1. g3 = Set_value(Append(g2, NewCell(Number(number))), 1, "numOfBlocks", Len(g2) + 1)
    BY <1>2 DEF Set_atom, Init_atom, Root
  <2>2. 1 \in DOMAIN g2 /\ NewName(<<"fileName">>, "numOfBlocks")
    BY <1>2, IsSeqLen, Tuples, EmptyIsSeq DEF NewName
  <2>3. /\ g2[1].kind = <<"object">> /\ g2[1].names = <<"fileName">> /\ g2[1].kids = <<2>> /\ g2[1].parent = Null
        /\ IsCell(g2[1])
    BY <1>2, CellFields
  <2> HIDE DEF g3
  <2>4. /\ IsSeq(g3) /\ Len(g3) = Len(g2) + 1 /\ (\A i \in 1..Len(g2) : i # 1 => g3[i] = g2[i])
        /\ g3[1] = Cell(g2[1].kind, Append(g2[1].names, "numOfBlocks"), Append(g2[1].kids, Len(g2) + 1), g2[1].parent)
        /\ g3[Len(g2) + 1] = Cell(Number(number), <<>>, <<>>, 1)
    <3>1. IsSeq(g2) /\ 1 \in DOMAIN g2 /\ IsCell(g2[1]) /\ NewName(g2[1].names, "numOfBlocks")
      BY <1>2, <2>2, <2>3
    <3> QED BY <2>1, <3>1, SetNew
  <2>5. Append(g2[1].names, "numOfBlocks") = <<"fileName", "numOfBlocks">>
    BY <2>3, Tuples
  <2>6. Append(g2[1].kids, Len(g2) + 1) = <<2, 3>>
    <3>1. g2[1].kids = <<2>> /\ Len(g2) + 1 = 3
      BY <1>2, <2>3
    <3> QED BY <3>1, Tuples
  <2>7. g3[1] = Cell(<<"object">>, <<"fileName", "numOfBlocks">>, <<2, 3>>, Null)
    BY <2>3, <2>4, <2>5, <2>6
  <2>8. Len(g3) = 3 /\ (\A i \in 2..2 : g3[i] = g2[i]) /\ g3[3] = g3[Len(g2) + 1]
    BY <1>2, <2>4
  <2> QED BY <1>2, <2>4, <2>7, <2>8
<1> HIDE DEF g3
<1>4. /\ IsSeq(g4) /\ Len(g4) = 4
      /\ g4[1] = Cell(<<"object">>, <<"fileName", "numOfBlocks", "blocks">>, <<2, 3, 4>>, Null)
      /\ g4[2] = Cell(String(n), <<>>, <<>>, 1) /\ g4[3] = Cell(Number(number), <<>>, <<>>, 1)
      /\ g4[4] = Cell(<<"array">>, <<>>, <<>>, 1)
  <2>1. g4 = Set_value(Append(g3, NewCell(<<"array">>)), 1, "blocks", Len(g3) + 1)
    BY <1>3 DEF Set_array, Init_array, Root
  <2>2. 1 \in DOMAIN g3 /\ NewName(<<"fileName", "numOfBlocks">>, "blocks")
    BY <1>3, IsSeqLen, Tuples, EmptyIsSeq DEF NewName
  <2>3. /\ g3[1].kind = <<"object">> /\ g3[1].names = <<"fileName", "numOfBlocks">> /\ g3[1].kids = <<2, 3>> /\ g3[1].parent = Null
        /\ IsCell(g3[1])
    BY <1>3, CellFields
  <2> HIDE DEF g4
  <2>4. /\ IsSeq(g4) /\ Len(g4) = Len(g3) + 1 /\ (\A i \in 1..Len(g3) : i # 1 => g4[i] = g3[i])
        /\ g4[1] = Cell(g3[1].kind, Append(g3[1].names, "blocks"), Append(g3[1].kids, Len(g3) + 1), g3[1].parent)
        /\ g4[Len(g3) + 1] = Cell(<<"array">>, <<>>, <<>>, 1)
    <3>1. IsSeq(g3) /\ 1 \in DOMAIN g3 /\ IsCell(g3[1]) /\ NewName(g3[1].names, "blocks")
      BY <1>3, <2>2, <2>3
    <3> QED BY <2>1, <3>1, SetNew
  <2>5. Append(g3[1].names, "blocks") = <<"fileName", "numOfBlocks", "blocks">>
    BY <2>3, Tuples
  <2>6. Append(g3[1].kids, Len(g3) + 1) = <<2, 3, 4>>
    <3>1. g3[1].kids = <<2, 3>> /\ Len(g3) + 1 = 4
      BY <1>3, <2>3
    <3> QED BY <3>1, Tuples
  <2>7. g4[1] = Cell(<<"object">>, <<"fileName", "numOfBlocks", "blocks">>, <<2, 3, 4>>, Null)
    BY <2>3, <2>4, <2>5, <2>6
  <2>8. Len(g4) = 4 /\ (\A i \in 2..3 : g4[i] = g3[i]) /\ g4[4] = g4[Len(g3) + 1]
    BY <1>3, <2>4
  <2> QED BY <1>3, <2>4, <2>7, <2>8
<1>5. NewMeta(n, number) = g4
  BY DEF NewMeta, g1, g2, g3, g4
<1> HIDE DEF g4
<1>6. <<>> = [k \in 1..0 |-> 3 * k + 2]
  OBVIOUS
<1> QED BY <1>4, <1>5, <1>6 DEF IsMeta

\* NewBlock adds three values.
LEMMA NewBlockCells ==
  ASSUME NEW h, IsSeq(h), NEW n, NEW index, NEW r, r = NewBlock(h, n, index), NEW o, o = Len(h) + 1
  PROVE  /\ IsSeq(r) /\ Len(r) = o + 2
         /\ \A i \in 1..Len(h) : r[i] = h[i]
         /\ r[o] = Cell(<<"object">>, <<"parentFile", "index">>, <<o + 1, o + 2>>, Null)
         /\ r[o + 1] = Cell(String(n), <<>>, <<>>, o)
         /\ r[o + 2] = Cell(Number(index), <<>>, <<>>, o)
<1> DEFINE g1 == Init_object(h)
           g2 == Set_atom(g1, o, "parentFile", String(n))
<1>1. Len(h) \in Nat /\ o \in Nat
  BY IsSeqLen
<1>2. /\ IsSeq(g1) /\ Len(g1) = o /\ DOMAIN g1 = 1..o /\ (\A i \in 1..Len(h) : g1[i] = h[i])
      /\ g1[o] = Cell(<<"object">>, <<>>, <<>>, Null)
  <2>1. g1[o] = NewCell(<<"object">>)
    BY AppendIsSeq DEF Init_object
  <2> QED BY <2>1, AppendIsSeq DEF Init_object, Cell, NewCell
<1> HIDE DEF g1
<1>3. /\ IsSeq(g2) /\ Len(g2) = o + 1 /\ (\A i \in 1..Len(h) : g2[i] = h[i])
      /\ g2[o] = Cell(<<"object">>, <<"parentFile">>, <<o + 1>>, Null)
      /\ g2[o + 1] = Cell(String(n), <<>>, <<>>, o)
  <2>1. g2 = Set_value(Append(g1, NewCell(String(n))), o, "parentFile", Len(g1) + 1)
    BY <1>2 DEF Set_atom, Init_atom
  <2>2. o \in DOMAIN g1 /\ NewName(<<>>, "parentFile")
    BY <1>1, <1>2, EmptyIsSeq DEF NewName
  <2>3. /\ g1[o].kind = <<"object">> /\ g1[o].names = <<>> /\ g1[o].kids = <<>> /\ g1[o].parent = Null
        /\ IsCell(g1[o])
    BY <1>2, CellFields
  <2> HIDE DEF g2
  <2>4. /\ IsSeq(g2) /\ Len(g2) = Len(g1) + 1 /\ (\A i \in 1..Len(g1) : i # o => g2[i] = g1[i])
        /\ g2[o] = Cell(g1[o].kind, Append(g1[o].names, "parentFile"), Append(g1[o].kids, Len(g1) + 1), g1[o].parent)
        /\ g2[Len(g1) + 1] = Cell(String(n), <<>>, <<>>, o)
    <3>1. IsSeq(g1) /\ o \in DOMAIN g1 /\ IsCell(g1[o]) /\ NewName(g1[o].names, "parentFile")
      BY <1>2, <2>2, <2>3
    <3> QED BY <2>1, <3>1, SetNew
  <2>5. Append(g1[o].names, "parentFile") = <<"parentFile">> /\ Append(g1[o].kids, Len(g1) + 1) = <<o + 1>>
    BY <1>2, <2>3, Tuples
  <2>6. g2[o] = Cell(<<"object">>, <<"parentFile">>, <<o + 1>>, Null)
    BY <2>3, <2>4, <2>5
  <2>7. \A i \in 1..Len(h) : i \in 1..Len(g1) /\ i # o
    BY <1>1, <1>2
  <2> QED BY <1>2, <2>4, <2>6, <2>7
<1> HIDE DEF g2
<1>4. /\ IsSeq(r) /\ Len(r) = o + 2 /\ (\A i \in 1..Len(h) : r[i] = h[i])
      /\ r[o] = Cell(<<"object">>, <<"parentFile", "index">>, <<o + 1, o + 2>>, Null)
      /\ r[o + 1] = Cell(String(n), <<>>, <<>>, o)
      /\ r[o + 2] = Cell(Number(index), <<>>, <<>>, o)
  <2>1. r = Set_value(Append(g2, NewCell(Number(index))), o, "index", Len(g2) + 1)
    BY <1>3 DEF NewBlock, Set_atom, Init_atom, g1, g2
  <2>2. o \in DOMAIN g2 /\ NewName(<<"parentFile">>, "index")
    BY <1>1, <1>3, IsSeqLen, Tuples DEF NewName
  <2>3. /\ g2[o].kind = <<"object">> /\ g2[o].names = <<"parentFile">> /\ g2[o].kids = <<o + 1>> /\ g2[o].parent = Null
        /\ IsCell(g2[o])
    BY <1>3, CellFields
  <2>4. /\ IsSeq(r) /\ Len(r) = Len(g2) + 1 /\ (\A i \in 1..Len(g2) : i # o => r[i] = g2[i])
        /\ r[o] = Cell(g2[o].kind, Append(g2[o].names, "index"), Append(g2[o].kids, Len(g2) + 1), g2[o].parent)
        /\ r[Len(g2) + 1] = Cell(Number(index), <<>>, <<>>, o)
    <3>1. IsSeq(g2) /\ o \in DOMAIN g2 /\ IsCell(g2[o]) /\ NewName(g2[o].names, "index")
      BY <1>3, <2>2, <2>3
    <3> QED BY <2>1, <3>1, SetNew
  <2>5. Append(g2[o].names, "index") = <<"parentFile", "index">>
    BY <2>3, Tuples
  <2>6. Append(g2[o].kids, Len(g2) + 1) = <<o + 1, o + 2>>
    <3>1. g2[o].kids = <<o + 1>> /\ Len(g2) + 1 = o + 2
      BY <1>1, <1>3, <2>3
    <3> QED BY <3>1, Tuples
  <2>7. r[o] = Cell(<<"object">>, <<"parentFile", "index">>, <<o + 1, o + 2>>, Null)
    BY <2>3, <2>4, <2>5, <2>6
  <2>8. (\A i \in 1..Len(h) : i \in 1..Len(g2) /\ i # o) /\ o + 1 \in 1..Len(g2) /\ o + 1 # o /\ Len(g2) + 1 = o + 2
    BY <1>1, <1>3
  <2> QED BY <1>3, <2>4, <2>7, <2>8
<1> QED BY <1>4

LEMMA KidsGrow ==
  ASSUME NEW m \in Nat
  PROVE  Append([k \in 1..m |-> 3 * k + 2], 3 * m + 5) = [k \in 1..(m + 1) |-> 3 * k + 2]
<1> DEFINE f == [k \in 1..m |-> 3 * k + 2]
           g == [k \in 1..(m + 1) |-> 3 * k + 2]
<1>1. IsSeq(f) /\ Len(f) = m /\ (\A k \in 1..m : f[k] = 3 * k + 2)
  <2>1. f = [k \in 1..m |-> f[k]]
    OBVIOUS
  <2> QED BY <2>1, FunctionIsSeq
<1>2. IsSeq(g) /\ Len(g) = m + 1 /\ (\A k \in 1..(m + 1) : g[k] = 3 * k + 2)
  <2>1. g = [k \in 1..(m + 1) |-> g[k]] /\ m + 1 \in Nat
    OBVIOUS
  <2> QED BY <2>1, FunctionIsSeq
<1> HIDE DEF f, g
<1>3. /\ IsSeq(Append(f, 3 * m + 5)) /\ Len(Append(f, 3 * m + 5)) = m + 1
      /\ (\A k \in 1..m : Append(f, 3 * m + 5)[k] = f[k]) /\ Append(f, 3 * m + 5)[m + 1] = 3 * m + 5
  BY <1>1, AppendIsSeq
<1>4. \A k \in 1..(m + 1) : Append(f, 3 * m + 5)[k] = g[k]
  <2>1. ASSUME NEW k \in 1..(m + 1) PROVE Append(f, 3 * m + 5)[k] = g[k]
    <3>1. CASE k \in 1..m
      BY <1>1, <1>2, <1>3, <3>1
    <3>2. CASE k = m + 1
      BY <1>2, <1>3, <3>2
    <3>3. k \in 1..m \/ k = m + 1
      OBVIOUS
    <3> QED BY <3>1, <3>2, <3>3
  <2> QED BY <2>1
<1>5. Append(f, 3 * m + 5) = g
  BY <1>2, <1>3, <1>4, SameSeq
<1> QED BY <1>5 DEF f, g

LEMMA AppendBlockIsMeta ==
  ASSUME NEW h, NEW n, NEW number, NEW s, NEW m \in Nat, IsMeta(h, n, number, s, m)
  PROVE  IsMeta(AppendBlock(h, n, s[m + 1]), n, number, s, m + 1)
<1> DEFINE L == 3 * m + 4
           o == 3 * m + 5
           b == NewBlock(h, n, s[m + 1])
           r == AppendBlock(h, n, s[m + 1])
<1>1. IsSeq(h) /\ Len(h) = L /\ L \in Nat /\ L + 1 = o
  BY DEF IsMeta
<1>2. Get_value(h, Root, "blocks") = 4
  <2>1. /\ h[1].names = <<"fileName", "numOfBlocks", "blocks">> /\ h[1].kids = <<2, 3, 4>>
    BY CellFields DEF IsMeta
  <2>2. Len(h[1].names) = 3 /\ h[1].names[1] # "blocks" /\ h[1].names[2] # "blocks" /\ h[1].names[3] = "blocks"
    BY <2>1, Tuples
  <2>3. h[1].kids[3] = 4
    BY <2>1
  <2>4. \A j \in 1..Len(h[1].names) : h[1].names[j] = "blocks" => j = 3
    <3>1. \A j \in 1..3 : j = 1 \/ j = 2 \/ j = 3
      OBVIOUS
    <3> QED BY <2>2, <3>1
  <2>5. Get_value(h, 1, "blocks") = h[1].kids[3]
    <3>1. 3 \in 1..Len(h[1].names) /\ Len(h[1].names) \in Nat
      BY <2>2
    <3> QED BY <2>2, <2>4, <3>1, GetOnly
  <2> QED BY <2>3, <2>5 DEF Root
<1>3. /\ IsSeq(b) /\ Len(b) = L + 3
      /\ \A i \in 1..L : b[i] = h[i]
      /\ b[o] = Cell(<<"object">>, <<"parentFile", "index">>, <<o + 1, o + 2>>, Null)
      /\ b[o + 1] = Cell(String(n), <<>>, <<>>, o)
      /\ b[o + 2] = Cell(Number(s[m + 1]), <<>>, <<>>, o)
  <2> HIDE DEF b
  <2>1. b = NewBlock(h, n, s[m + 1]) /\ o = Len(h) + 1 /\ L + 3 = o + 2 /\ L = Len(h)
    BY <1>1 DEF b
  <2> HIDE DEF o, L
  <2>2. IsSeq(h)
    BY <1>1
  <2>3. /\ IsSeq(b) /\ Len(b) = o + 2
        /\ \A i \in 1..Len(h) : b[i] = h[i]
        /\ b[o] = Cell(<<"object">>, <<"parentFile", "index">>, <<o + 1, o + 2>>, Null)
        /\ b[o + 1] = Cell(String(n), <<>>, <<>>, o)
        /\ b[o + 2] = Cell(Number(s[m + 1]), <<>>, <<>>, o)
    BY <2>1, <2>2, NewBlockCells, SMTT(60)
  <2> QED BY <2>1, <2>3
<1>4. r = Append_value(b, 4, o)
  BY <1>1, <1>2 DEF AppendBlock
<1>5. /\ b[4] = Cell(<<"array">>, <<>>, [k \in 1..m |-> 3 * k + 2], 1)
  BY <1>1, <1>3 DEF IsMeta
<1> HIDE DEF b, r
<1>6. /\ IsSeq(r) /\ Len(r) = L + 3
      /\ \A i \in 1..(L + 3) : i # 4 /\ i # o => r[i] = b[i]
      /\ r[4] = Cell(<<"array">>, <<>>, Append([k \in 1..m |-> 3 * k + 2], o), 1)
      /\ r[o] = Cell(<<"object">>, <<"parentFile", "index">>, <<o + 1, o + 2>>, 4)
  <2>1. /\ b[4].kind = <<"array">> /\ b[4].names = <<>> /\ b[4].kids = [k \in 1..m |-> 3 * k + 2] /\ b[4].parent = 1
        /\ IsCell(b[4])
    BY <1>5, CellFields
  <2>2. /\ b[o].kind = <<"object">> /\ b[o].names = <<"parentFile", "index">> /\ b[o].kids = <<o + 1, o + 2>>
        /\ b[o].parent = Null /\ IsCell(b[o])
    BY <1>3, CellFields
  <2>3. 4 \in DOMAIN b /\ o \in DOMAIN b /\ 4 # o
    BY <1>1, <1>3, IsSeqLen
  <2> HIDE DEF o
  <2>4. /\ IsSeq(r) /\ Len(r) = Len(b)
        /\ \A i \in 1..Len(b) : i # 4 /\ i # o => r[i] = b[i]
        /\ r[4] = Cell(b[4].kind, b[4].names, Append(b[4].kids, o), b[4].parent)
        /\ r[o] = Cell(b[o].kind, b[o].names, b[o].kids, 4)
    <3>1. IsSeq(b) /\ IsCell(b[4]) /\ IsCell(b[o]) /\ b[o].parent = Null
      BY <1>3, <2>1, <2>2
    <3> QED BY <1>4, <2>3, <3>1, AppendValue
  <2> QED BY <1>3, <2>1, <2>2, <2>4
<1>7. /\ \A i \in 1..L : i # 4 => r[i] = h[i]
      /\ r[o + 1] = Cell(String(n), <<>>, <<>>, o) /\ r[o + 2] = Cell(Number(s[m + 1]), <<>>, <<>>, o)
  <2>1. \A i \in 1..L : i \in 1..(L + 3) /\ i # o
    BY <1>1
  <2>2. o + 1 \in 1..(L + 3) /\ o + 2 \in 1..(L + 3) /\ o + 1 # 4 /\ o + 2 # 4 /\ o + 1 # o /\ o + 2 # o
    BY <1>1
  <2> QED BY <1>3, <1>6, <2>1, <2>2
<1>8. Len(r) = 3 * (m + 1) + 4 /\ IsSeq(r)
  BY <1>6
<1>9. r[1] = h[1] /\ r[2] = h[2] /\ r[3] = h[3]
  <2>1. 1 \in 1..L /\ 2 \in 1..L /\ 3 \in 1..L
    BY <1>1
  <2> QED BY <1>7, <2>1
<1>10. r[4] = Cell(<<"array">>, <<>>, [k \in 1..(m + 1) |-> 3 * k + 2], 1)
  BY <1>6, KidsGrow
<1>11. ASSUME NEW k \in 1..(m + 1)
       PROVE  /\ r[3 * k + 2] = Cell(<<"object">>, <<"parentFile", "index">>, <<3 * k + 3, 3 * k + 4>>, 4)
              /\ r[3 * k + 3] = Cell(String(n), <<>>, <<>>, 3 * k + 2)
              /\ r[3 * k + 4] = Cell(Number(s[k]), <<>>, <<>>, 3 * k + 2)
  <2>1. CASE k \in 1..m
    <3>1. /\ 3 * k + 2 \in 1..L /\ 3 * k + 3 \in 1..L /\ 3 * k + 4 \in 1..L
          /\ 3 * k + 2 # 4 /\ 3 * k + 3 # 4 /\ 3 * k + 4 # 4
      BY <2>1
    <3>2. r[3 * k + 2] = h[3 * k + 2] /\ r[3 * k + 3] = h[3 * k + 3] /\ r[3 * k + 4] = h[3 * k + 4]
      BY <1>7, <3>1
    <3> QED BY <2>1, <3>2 DEF IsMeta
  <2>2. CASE k = m + 1
    <3>1. 3 * k + 2 = o /\ 3 * k + 3 = o + 1 /\ 3 * k + 4 = o + 2
      BY <2>2
    <3> HIDE DEF o
    <3> QED BY <1>6, <1>7, <2>2, <3>1
  <2>3. k \in 1..m \/ k = m + 1
    OBVIOUS
  <2> QED BY <2>1, <2>2, <2>3
<1>12. /\ h[1] = Cell(<<"object">>, <<"fileName", "numOfBlocks", "blocks">>, <<2, 3, 4>>, Null)
       /\ h[2] = Cell(String(n), <<>>, <<>>, 1) /\ h[3] = Cell(Number(number), <<>>, <<>>, 1)
  BY DEF IsMeta
<1>13. IsMeta(r, n, number, s, m + 1)
  BY <1>8, <1>9, <1>10, <1>11, <1>12 DEF IsMeta
<1> QED BY <1>13 DEF r

\* The steps in which metadata with the first m blocks of s is made.
Grows(f, n, number, s, m) ==
  f = [i \in 0..m |-> IF i = 0 THEN NewMeta(n, number) ELSE AppendBlock(f[i - 1], n, s[i])]

LEMMA GrowsStep ==
  ASSUME NEW f, NEW n, NEW number, NEW s, NEW m \in Nat, Grows(f, n, number, s, m)
  PROVE  /\ f[0] = NewMeta(n, number)
         /\ \A i \in 0..(m - 1) : f[i + 1] = AppendBlock(f[i], n, s[i + 1])
<1>1. \A i \in 0..m : f[i] = IF i = 0 THEN NewMeta(n, number) ELSE AppendBlock(f[i - 1], n, s[i])
  BY DEF Grows
<1>2. f[0] = NewMeta(n, number)
  BY <1>1
<1>3. ASSUME NEW i \in 0..(m - 1) PROVE f[i + 1] = AppendBlock(f[i], n, s[i + 1])
  <2>1. i + 1 \in 0..m /\ i + 1 # 0 /\ (i + 1) - 1 = i
    OBVIOUS
  <2> QED BY <1>1, <2>1
<1> QED BY <1>2, <1>3

LEMMA GrowsExists ==
  ASSUME NEW n, NEW number, NEW s, NEW m \in Nat
  PROVE  \E f : Grows(f, n, number, s, m)
<1> DEFINE S == {k \in Nat : \E f : Grows(f, n, number, s, k)}
<1>1. 0 \in S
  <2> DEFINE f == [i \in 0..0 |-> NewMeta(n, number)]
  <2>1. f = [i \in 0..0 |-> IF i = 0 THEN NewMeta(n, number) ELSE AppendBlock(f[i - 1], n, s[i])]
    OBVIOUS
  <2> HIDE DEF f
  <2>2. Grows(f, n, number, s, 0)
    BY <2>1 DEF Grows
  <2> QED BY <2>2
<1>2. ASSUME NEW k \in S PROVE k + 1 \in S
  <2>1. PICK f : Grows(f, n, number, s, k)
    OBVIOUS
  <2> DEFINE g == [i \in 0..(k + 1) |-> IF i <= k THEN f[i] ELSE AppendBlock(f[k], n, s[k + 1])]
             h == [i \in 0..(k + 1) |-> IF i = 0 THEN NewMeta(n, number) ELSE AppendBlock(g[i - 1], n, s[i])]
  <2>2. \A i \in 0..k : f[i] = IF i = 0 THEN NewMeta(n, number) ELSE AppendBlock(f[i - 1], n, s[i])
    BY <2>1 DEF Grows
  <2>3. ASSUME NEW i \in 0..(k + 1) PROVE g[i] = h[i]
    <3>1. CASE i = 0
      BY <2>2, <3>1
    <3>2. CASE i # 0 /\ i <= k
      <4>1. i - 1 \in 0..(k + 1) /\ i - 1 <= k /\ i \in 0..k
        BY <3>2
      <4>2. g[i] = f[i] /\ g[i - 1] = f[i - 1]
        BY <3>2, <4>1
      <4> QED BY <2>2, <3>2, <4>1, <4>2
    <3>3. CASE i = k + 1
      <4>1. i - 1 = k /\ k \in 0..(k + 1) /\ ~ (i <= k) /\ i # 0
        BY <3>3
      <4> QED BY <3>3, <4>1
    <3> QED BY <3>1, <3>2, <3>3
  <2>4. g = h
    <3>1. g = [i \in 0..(k + 1) |-> g[i]] /\ h = [i \in 0..(k + 1) |-> h[i]]
      OBVIOUS
    <3> HIDE DEF g, h
    <3>2. [i \in 0..(k + 1) |-> g[i]] = [i \in 0..(k + 1) |-> h[i]]
      BY <2>3
    <3> QED BY <3>1, <3>2
  <2>5. Grows(g, n, number, s, k + 1)
    <3>1. g = [i \in 0..(k + 1) |-> IF i = 0 THEN NewMeta(n, number) ELSE AppendBlock(g[i - 1], n, s[i])]
      BY <2>4
    <3> HIDE DEF g
    <3> QED BY <3>1 DEF Grows
  <2> HIDE DEF g
  <2> QED BY <2>5
<1>3. S = Nat
  <2>1. S \in SUBSET Nat
    OBVIOUS
  <2> HIDE DEF S
  <2> QED BY <1>1, <1>2, <2>1, Naturals
<1> QED BY <1>3

LEMMA MetaWithGrows ==
  ASSUME NEW n, NEW number, NEW s, Len(s) \in Nat
  PROVE  \E f : Grows(f, n, number, s, Len(s)) /\ MetaWith(n, number, s) = f[Len(s)]
<1> DEFINE F == CHOOSE f : f = [i \in 0..Len(s) |-> IF i = 0 THEN NewMeta(n, number) ELSE AppendBlock(f[i - 1], n, s[i])]
<1>1. \E f : f = [i \in 0..Len(s) |-> IF i = 0 THEN NewMeta(n, number) ELSE AppendBlock(f[i - 1], n, s[i])]
  <2>1. \E f : Grows(f, n, number, s, Len(s))
    BY GrowsExists
  <2> QED BY <2>1 DEF Grows
<1>2. F = [i \in 0..Len(s) |-> IF i = 0 THEN NewMeta(n, number) ELSE AppendBlock(F[i - 1], n, s[i])]
  BY <1>1
<1>3. MetaWith(n, number, s) = F[Len(s)]
  BY DEF MetaWith
<1> HIDE DEF F
<1>4. Grows(F, n, number, s, Len(s))
  BY <1>2 DEF Grows
<1> QED BY <1>3, <1>4

LEMMA GrowsSame ==
  ASSUME NEW n, NEW number, NEW f, NEW s, NEW m \in Nat, NEW g, NEW t, NEW k \in Nat, m <= k,
         Grows(f, n, number, s, m), Grows(g, n, number, t, k), \A i \in 1..m : s[i] = t[i]
  PROVE  f[m] = g[m]
<1> DEFINE S == {i \in Nat : i <= m => f[i] = g[i]}
<1>1. 0 \in S
  BY GrowsStep
<1>2. ASSUME NEW i \in S PROVE i + 1 \in S
  <2>1. SUFFICES ASSUME i + 1 <= m PROVE f[i + 1] = g[i + 1]
    OBVIOUS
  <2>2. i \in 0..(m - 1) /\ i \in 0..(k - 1) /\ i + 1 \in 1..m /\ f[i] = g[i]
    BY <2>1
  <2>3. f[i + 1] = AppendBlock(f[i], n, s[i + 1]) /\ g[i + 1] = AppendBlock(g[i], n, t[i + 1])
    BY <2>2, GrowsStep
  <2> QED BY <2>2, <2>3
<1>3. S = Nat
  <2>1. S \in SUBSET Nat
    OBVIOUS
  <2> HIDE DEF S
  <2> QED BY <1>1, <1>2, <2>1, Naturals
<1> QED BY <1>3

LEMMA MetaStructure ==
  ASSUME NEW n, NEW number, NEW s, Len(s) \in Nat
  PROVE  IsMeta(MetaWith(n, number, s), n, number, s, Len(s))
<1>1. PICK f : Grows(f, n, number, s, Len(s)) /\ MetaWith(n, number, s) = f[Len(s)]
  BY MetaWithGrows
<1> DEFINE S == {i \in Nat : i <= Len(s) => IsMeta(f[i], n, number, s, i)}
<1>2. 0 \in S
  BY <1>1, GrowsStep, NewMetaIsMeta
<1>3. ASSUME NEW i \in S PROVE i + 1 \in S
  <2>1. SUFFICES ASSUME i + 1 <= Len(s) PROVE IsMeta(f[i + 1], n, number, s, i + 1)
    OBVIOUS
  <2>2. i \in 0..(Len(s) - 1) /\ IsMeta(f[i], n, number, s, i)
    BY <2>1
  <2>3. f[i + 1] = AppendBlock(f[i], n, s[i + 1])
    BY <1>1, <2>2, GrowsStep
  <2> QED BY <2>2, <2>3, AppendBlockIsMeta
<1>4. S = Nat
  <2>1. S \in SUBSET Nat
    OBVIOUS
  <2> HIDE DEF S
  <2> QED BY <1>2, <1>3, <2>1, Naturals
<1>5. Len(s) \in S
  BY <1>4
<1> QED BY <1>1, <1>5

\* A block that arrives: the metadata with one more block, as if it had been made so.
LEMMA MetaAppend ==
  ASSUME NEW n, NEW number, NEW s, IsSeq(s), NEW b
  PROVE  AppendBlock(MetaWith(n, number, s), n, b) = MetaWith(n, number, Append(s, b))
<1> DEFINE t == Append(s, b)
<1>1. Len(s) \in Nat /\ Len(t) = Len(s) + 1 /\ (\A i \in 1..Len(s) : s[i] = t[i]) /\ t[Len(s) + 1] = b
  BY IsSeqLen, AppendIsSeq
<1> HIDE DEF t
<1>2. PICK f : Grows(f, n, number, s, Len(s)) /\ MetaWith(n, number, s) = f[Len(s)]
  BY <1>1, MetaWithGrows
<1>3. PICK g : Grows(g, n, number, t, Len(t)) /\ MetaWith(n, number, t) = g[Len(t)]
  BY <1>1, MetaWithGrows
<1>4. f[Len(s)] = g[Len(s)]
  <2>1. Len(t) \in Nat /\ Len(s) <= Len(t)
    BY <1>1
  <2> QED BY <1>1, <1>2, <1>3, <2>1, GrowsSame
<1>5. g[Len(s) + 1] = AppendBlock(g[Len(s)], n, t[Len(s) + 1])
  <2>1. Len(t) \in Nat /\ Len(s) \in 0..(Len(t) - 1)
    BY <1>1
  <2> QED BY <1>3, <2>1, GrowsStep
<1> QED BY <1>1, <1>2, <1>3, <1>4, <1>5 DEF t

LEMMA MetaEmpty ==
  ASSUME NEW n, NEW number
  PROVE  NewMeta(n, number) = MetaWith(n, number, <<>>)
<1>1. Len(<<>>) \in Nat /\ Len(<<>>) = 0
  BY EmptyIsSeq
<1>2. PICK f : Grows(f, n, number, <<>>, Len(<<>>)) /\ MetaWith(n, number, <<>>) = f[Len(<<>>)]
  BY <1>1, MetaWithGrows
<1>3. f[0] = NewMeta(n, number)
  BY <1>1, <1>2, GrowsStep
<1> QED BY <1>1, <1>2, <1>3

-----------------------------------------------------------------------------
(* The value of metadata *)

\* The only member of a name.
LEMMA MemberAt ==
  ASSUME NEW members, NEW i \in DOMAIN members, NEW member, NEW v, members[i] = <<member, v>>,
         \A j \in DOMAIN members : members[j][1] = member => j = i
  PROVE  Member(Object(members), member) = v
<1>1. Object(members) # NoValue /\ Object(members)[1] = "object" /\ Object(members)[2] = members
  BY DEF Object, NoValue
<1>2. members[i][1] = member /\ members[i][2] = v
  OBVIOUS
<1>3. (CHOOSE j \in DOMAIN members : members[j][1] = member) = i
  BY <1>2
<1>4. HasName(members, member)
  BY <1>2 DEF HasName
<1> QED BY <1>1, <1>2, <1>3, <1>4 DEF Member

\* Where the values of metadata are.
LEMMA Places ==
  ASSUME NEW m \in Nat, NEW i \in 5..(3 * m + 4)
  PROVE  \E k \in 1..m : i \in {3 * k + 2, 3 * k + 3, 3 * k + 4}
<1> DEFINE S == {j \in Nat : \A x \in 5..(3 * j + 4) : \E k \in 1..j : x \in {3 * k + 2, 3 * k + 3, 3 * k + 4}}
<1>1. 0 \in S
  OBVIOUS
<1>2. ASSUME NEW j \in S PROVE j + 1 \in S
  <2>1. ASSUME NEW x \in 5..(3 * (j + 1) + 4)
        PROVE  \E k \in 1..(j + 1) : x \in {3 * k + 2, 3 * k + 3, 3 * k + 4}
    <3>1. CASE x \in 5..(3 * j + 4)
      <4>1. PICK k \in 1..j : x \in {3 * k + 2, 3 * k + 3, 3 * k + 4}
        BY <3>1
      <4>2. k \in 1..(j + 1)
        BY <4>1
      <4> QED BY <4>1, <4>2
    <3>2. CASE x \in {3 * (j + 1) + 2, 3 * (j + 1) + 3, 3 * (j + 1) + 4}
      <4>1. j + 1 \in 1..(j + 1)
        OBVIOUS
      <4> QED BY <3>2, <4>1
    <3>3. x \in 5..(3 * j + 4) \/ x \in {3 * (j + 1) + 2, 3 * (j + 1) + 3, 3 * (j + 1) + 4}
      OBVIOUS
    <3> QED BY <3>1, <3>2, <3>3
  <2> QED BY <2>1
<1>3. S = Nat
  <2>1. S \in SUBSET Nat
    OBVIOUS
  <2> HIDE DEF S
  <2> QED BY <1>1, <1>2, <2>1, Naturals
<1> QED BY <1>3

\* The equation of ValueOf: what is at a place, from what is at the places of its members or items.
Values(h, v) ==
  [i \in DOMAIN h |->
     CASE h[i].kind = <<"object">> ->
            Object([k \in DOMAIN h[i].kids |-> <<h[i].names[k], v[h[i].kids[k]]>>])
       [] h[i].kind = <<"array">> -> Array([k \in DOMAIN h[i].kids |-> v[h[i].kids[k]]])
       [] OTHER -> h[i].kind]

LEMMA Kinds ==
  /\ <<"object">> # <<"array">>
  /\ \A x : String(x) # <<"object">> /\ String(x) # <<"array">> /\ Number(x) # <<"object">> /\ Number(x) # <<"array">>
BY DEF String, Number

\* It has a solution for metadata.
LEMMA MetaValues ==
  ASSUME NEW h, NEW n, NEW number, NEW s, NEW m \in Nat, IsMeta(h, n, number, s, m)
  PROVE  \E v : v = Values(h, v)
<1> DEFINE D == 1..(3 * m + 4)
           Atom(i) == h[i].kind # <<"object">> /\ h[i].kind # <<"array">>
<1>1. DOMAIN h = D
  BY IsSeqLen DEF IsMeta
<1>2. \A k \in 1..m : /\ h[3 * k + 2].kind = <<"object">> /\ h[3 * k + 2].kids = <<3 * k + 3, 3 * k + 4>>
                      /\ h[3 * k + 3].kind = String(n) /\ h[3 * k + 4].kind = Number(s[k])
  <2>1. ASSUME NEW k \in 1..m
        PROVE  /\ h[3 * k + 2].kind = <<"object">> /\ h[3 * k + 2].kids = <<3 * k + 3, 3 * k + 4>>
               /\ h[3 * k + 3].kind = String(n) /\ h[3 * k + 4].kind = Number(s[k])
    <3>1. /\ h[3 * k + 2] = Cell(<<"object">>, <<"parentFile", "index">>, <<3 * k + 3, 3 * k + 4>>, 4)
          /\ h[3 * k + 3] = Cell(String(n), <<>>, <<>>, 3 * k + 2)
          /\ h[3 * k + 4] = Cell(Number(s[k]), <<>>, <<>>, 3 * k + 2)
      BY DEF IsMeta
    <3> QED BY <3>1, CellFields
  <2> QED BY <2>1
<1>3. /\ h[1].kind = <<"object">> /\ h[1].kids = <<2, 3, 4>> /\ h[2].kind = String(n) /\ h[3].kind = Number(number)
      /\ h[4].kind = <<"array">> /\ h[4].kids = [k \in 1..m |-> 3 * k + 2]
  BY CellFields DEF IsMeta
<1>4. ASSUME NEW u, NEW w, NEW i \in D, \A k \in DOMAIN h[i].kids : u[h[i].kids[k]] = w[h[i].kids[k]]
      PROVE  Values(h, u)[i] = Values(h, w)[i]
  <2>1. /\ [k \in DOMAIN h[i].kids |-> <<h[i].names[k], u[h[i].kids[k]]>>]
             = [k \in DOMAIN h[i].kids |-> <<h[i].names[k], w[h[i].kids[k]]>>]
        /\ [k \in DOMAIN h[i].kids |-> u[h[i].kids[k]]] = [k \in DOMAIN h[i].kids |-> w[h[i].kids[k]]]
    BY <1>4
  <2> QED BY <1>1, <2>1 DEF Values
<1>5. ASSUME NEW u, NEW i \in D, Atom(i) PROVE Values(h, u)[i] = h[i].kind
  BY <1>1, <1>5 DEF Values
<1>6. ASSUME NEW k \in 1..m
      PROVE  /\ 3 * k + 2 \in D /\ 3 * k + 3 \in D /\ 3 * k + 4 \in D
             /\ Atom(3 * k + 3) /\ Atom(3 * k + 4)
  <2>1. 3 * k + 2 \in D /\ 3 * k + 3 \in D /\ 3 * k + 4 \in D
    OBVIOUS
  <2>2. h[3 * k + 3].kind = String(n) /\ h[3 * k + 4].kind = Number(s[k])
    BY <1>2
  <2> HIDE DEF D
  <2> QED BY <2>1, <2>2, Kinds
<1>7. 1 \in D /\ 2 \in D /\ 3 \in D /\ 4 \in D /\ Atom(2) /\ Atom(3)
  BY <1>3, Kinds
<1> HIDE DEF D, Atom
\* Blocks have their values after two steps, the list after three, the object after four.
<1>8. \A u, w, k : k \in 1..m => Values(h, Values(h, u))[3 * k + 2] = Values(h, Values(h, w))[3 * k + 2]
  <2>1. ASSUME NEW u, NEW w, NEW k \in 1..m
        PROVE  Values(h, Values(h, u))[3 * k + 2] = Values(h, Values(h, w))[3 * k + 2]
    <3>1. ASSUME NEW j \in DOMAIN h[3 * k + 2].kids
          PROVE  Values(h, u)[h[3 * k + 2].kids[j]] = Values(h, w)[h[3 * k + 2].kids[j]]
      <4>1. h[3 * k + 2].kids[j] \in {3 * k + 3, 3 * k + 4}
        BY <1>2
      <4> QED BY <1>5, <1>6, <4>1
    <3> QED BY <1>4, <1>6, <3>1
  <2> QED BY <2>1
<1>9. \A u, w : Values(h, Values(h, Values(h, u)))[4] = Values(h, Values(h, Values(h, w)))[4]
  <2>1. ASSUME NEW u, NEW w
        PROVE  Values(h, Values(h, Values(h, u)))[4] = Values(h, Values(h, Values(h, w)))[4]
    <3> DEFINE a == Values(h, Values(h, u))
               b == Values(h, Values(h, w))
    <3>1. \A k \in 1..m : a[3 * k + 2] = b[3 * k + 2]
      BY <1>8
    <3> HIDE DEF a, b
    <3>3. ASSUME NEW k \in DOMAIN h[4].kids PROVE a[h[4].kids[k]] = b[h[4].kids[k]]
      <4>1. k \in 1..m /\ h[4].kids[k] = 3 * k + 2
        BY <1>3
      <4> QED BY <3>1, <4>1
    <3>2. Values(h, a)[4] = Values(h, b)[4]
      BY <1>4, <1>7, <3>3
    <3> QED BY <3>2 DEF a, b
  <2> QED BY <2>1
<1>10. \A u, w : Values(h, Values(h, Values(h, Values(h, u))))[1] = Values(h, Values(h, Values(h, Values(h, w))))[1]
  <2>1. ASSUME NEW u, NEW w
        PROVE  Values(h, Values(h, Values(h, Values(h, u))))[1] = Values(h, Values(h, Values(h, Values(h, w))))[1]
    <3> DEFINE a == Values(h, Values(h, Values(h, u)))
               b == Values(h, Values(h, Values(h, w)))
    <3>1. a[2] = b[2] /\ a[3] = b[3]
      BY <1>5, <1>7
    <3>2. a[4] = b[4]
      BY <1>9
    <3> HIDE DEF a, b
    <3>3. ASSUME NEW k \in DOMAIN h[1].kids PROVE a[h[1].kids[k]] = b[h[1].kids[k]]
      <4>1. h[1].kids[k] \in {2, 3, 4}
        BY <1>3
      <4> QED BY <3>1, <3>2, <4>1
    <3>4. Values(h, a)[1] = Values(h, b)[1]
      BY <1>4, <1>7, <3>3
    <3> QED BY <3>4 DEF a, b
  <2> QED BY <2>1
<1> DEFINE x == <<>>
           v == Values(h, Values(h, Values(h, Values(h, x))))
<1>11. ASSUME NEW i \in D PROVE v[i] = Values(h, v)[i]
  <2>1. i \in {1, 2, 3, 4} \/ i \in 5..(3 * m + 4)
    BY DEF D
  <2>2. CASE i = 1
    BY <1>10, <2>2
  <2>3. CASE i = 4
    BY <1>9, <2>3
  <2>4. CASE Atom(i)
    BY <1>5, <2>4
  <2>5. CASE i \in 5..(3 * m + 4)
    <3>1. PICK k \in 1..m : i \in {3 * k + 2, 3 * k + 3, 3 * k + 4}
      BY <2>5, Places
    <3>2. CASE i = 3 * k + 2
      BY <1>8, <3>2
    <3>3. CASE Atom(i)
      BY <2>4, <3>3
    <3> QED BY <1>6, <3>1, <3>2, <3>3
  <2> QED BY <1>7, <2>1, <2>2, <2>3, <2>4, <2>5
<1>12. \A u : Values(h, u) = [i \in D |-> Values(h, u)[i]]
  BY <1>1 DEF Values
<1>13. v = Values(h, v)
  <2>1. v = [i \in D |-> v[i]] /\ Values(h, v) = [i \in D |-> Values(h, v)[i]]
    BY <1>12
  <2> HIDE DEF v
  <2>2. [i \in D |-> v[i]] = [i \in D |-> Values(h, v)[i]]
    BY <1>11
  <2> QED BY <2>1, <2>2
<1> HIDE DEF v
<1> QED BY <1>13

LEMMA IndexesAreSeqs ==
  ASSUME NEW s \in Indexes
  PROVE  /\ IsSeq(s) /\ Len(s) \in 0..MaxBlocks /\ s \in [1..Len(s) -> 0..(MaxBlocks - 1)]
         /\ \A i, j \in 1..Len(s) : s[i] = s[j] => i = j
<1>1. PICK k \in 0..MaxBlocks : s \in [1..k -> 0..(MaxBlocks - 1)]
  BY DEF Indexes
<1>2. k \in Nat /\ s = [i \in 1..k |-> s[i]]
  BY <1>1, LocalFilesAssumption
<1>3. IsSeq(s) /\ Len(s) = k /\ DOMAIN s = 1..k
  BY <1>2, FunctionIsSeq
<1>4. \A i, j \in DOMAIN s : s[i] = s[j] => i = j
  BY DEF Indexes
<1> QED BY <1>1, <1>3, <1>4

\* Reading metadata that was written whole finds its blocks.
LEMMA ListedOfMeta ==
  ASSUME NEW n \in Wanted, NEW number \in 1..MaxBlocks, NEW s \in Indexes
  PROVE  Listed(MetaText(n, number, s)) = s
<1> DEFINE h == MetaWith(n, number, s)
           m == Len(s)
           w == CHOOSE v : v = Values(h, v)
<1>1. m \in Nat /\ s = [i \in 1..m |-> s[i]]
  <2>1. m \in 0..MaxBlocks /\ MaxBlocks \in Nat /\ s \in [1..m -> 0..(MaxBlocks - 1)]
    BY IndexesAreSeqs, LocalFilesAssumption
  <2> QED BY <2>1
<1>2. IsMeta(h, n, number, s, m)
  BY <1>1, MetaStructure
<1>3. Parse(MetaText(n, number, s)) = ValueOf(h, Root)
  BY JsonAssumption DEF MetaText
<1> HIDE DEF h, m
<1>4. w = Values(h, w)
  <2>1. \E v : v = Values(h, v)
    BY <1>1, <1>2, MetaValues
  <2> QED BY <2>1
<1>5. ValueOf(h, Root) = w[1]
  BY DEF ValueOf, Values, Root
<1> HIDE DEF w
<1>6. DOMAIN h = 1..(3 * m + 4)
  BY <1>2, IsSeqLen DEF IsMeta
<1>7. /\ h[1].kind = <<"object">> /\ h[1].names = <<"fileName", "numOfBlocks", "blocks">> /\ h[1].kids = <<2, 3, 4>>
      /\ h[4].kind = <<"array">> /\ h[4].kids = [k \in 1..m |-> 3 * k + 2]
  BY <1>2, CellFields DEF IsMeta
<1>8. ASSUME NEW k \in 1..m
      PROVE  /\ h[3 * k + 2].kind = <<"object">> /\ h[3 * k + 2].names = <<"parentFile", "index">>
             /\ h[3 * k + 2].kids = <<3 * k + 3, 3 * k + 4>> /\ h[3 * k + 4].kind = Number(s[k])
  <2>1. /\ h[3 * k + 2] = Cell(<<"object">>, <<"parentFile", "index">>, <<3 * k + 3, 3 * k + 4>>, 4)
        /\ h[3 * k + 4] = Cell(Number(s[k]), <<>>, <<>>, 3 * k + 2)
    BY <1>2 DEF IsMeta
  <2> QED BY <2>1, CellFields
\* The values, one by one.
<1>9. ASSUME NEW i \in DOMAIN h
      PROVE  /\ h[i].kind = <<"object">> =>
                  w[i] = Object([k \in DOMAIN h[i].kids |-> <<h[i].names[k], w[h[i].kids[k]]>>])
             /\ h[i].kind = <<"array">> => w[i] = Array([k \in DOMAIN h[i].kids |-> w[h[i].kids[k]]])
             /\ h[i].kind # <<"object">> /\ h[i].kind # <<"array">> => w[i] = h[i].kind
  <2>1. w[i] = CASE h[i].kind = <<"object">> ->
                      Object([k \in DOMAIN h[i].kids |-> <<h[i].names[k], w[h[i].kids[k]]>>])
                 [] h[i].kind = <<"array">> -> Array([k \in DOMAIN h[i].kids |-> w[h[i].kids[k]]])
                 [] OTHER -> h[i].kind
    BY <1>4 DEF Values
  <2> QED BY <2>1, Kinds
<1>10. Member(w[1], "blocks") = w[4]
  <2> DEFINE members == [k \in DOMAIN h[1].kids |-> <<h[1].names[k], w[h[1].kids[k]]>>]
  <2>0. 1 \in DOMAIN h
    BY <1>1, <1>6
  <2>1. w[1] = Object(members)
    <3>1. h[1].kind = <<"object">>
      BY <1>7
    <3> QED BY <1>9, <2>0, <3>1
  <2>2. DOMAIN members = {1, 2, 3}
    BY <1>7
  <2>3. members[1] = <<"fileName", w[2]>> /\ members[2] = <<"numOfBlocks", w[3]>> /\ members[3] = <<"blocks", w[4]>>
    BY <1>7
  <2> HIDE DEF members
  <2>4. members[1][1] = "fileName" /\ members[2][1] = "numOfBlocks"
    BY <2>3
  <2>5. \A j \in DOMAIN members : members[j][1] = "blocks" => j = 3
    BY <2>2, <2>4
  <2>6. 3 \in DOMAIN members
    BY <2>2
  <2> QED BY <2>1, <2>3, <2>5, <2>6, MemberAt
<1>11. w[4] = Array([k \in 1..m |-> w[3 * k + 2]])
  <2>0. 4 \in DOMAIN h
    BY <1>1, <1>6
  <2>1. w[4] = Array([k \in DOMAIN h[4].kids |-> w[h[4].kids[k]]])
    <3>1. h[4].kind = <<"array">>
      BY <1>7
    <3> QED BY <1>9, <2>0, <3>1
  <2>2. [k \in DOMAIN h[4].kids |-> w[h[4].kids[k]]] = [k \in 1..m |-> w[3 * k + 2]]
    BY <1>7
  <2> QED BY <2>1, <2>2
<1>12. ASSUME NEW k \in 1..m PROVE Member(w[3 * k + 2], "index") = Number(s[k])
  <2> DEFINE b == 3 * k + 2
             members == [j \in DOMAIN h[b].kids |-> <<h[b].names[j], w[h[b].kids[j]]>>]
  <2>1. b \in DOMAIN h /\ 3 * k + 4 \in DOMAIN h
    BY <1>1, <1>6
  <2>2. w[b] = Object(members)
    BY <1>8, <1>9, <2>1
  <2>3. DOMAIN members = {1, 2}
    BY <1>8
  <2>4. members[1] = <<"parentFile", w[3 * k + 3]>> /\ members[2] = <<"index", w[3 * k + 4]>>
    BY <1>8
  <2>5. w[3 * k + 4] = Number(s[k])
    BY <1>8, <1>9, <2>1, Kinds
  <2> HIDE DEF members
  <2>6. members[1][1] = "parentFile"
    BY <2>4
  <2>7. \A j \in DOMAIN members : members[j][1] = "index" => j = 2
    BY <2>3, <2>6
  <2>8. 2 \in DOMAIN members
    BY <2>3
  <2> QED BY <2>2, <2>4, <2>5, <2>7, <2>8, MemberAt
<1>13. Listed(MetaText(n, number, s)) = [i \in 1..m |-> Member(w[3 * i + 2], "index")[2]]
  <2>1. Member(Parse(MetaText(n, number, s)), "blocks") = Array([k \in 1..m |-> w[3 * k + 2]])
    BY <1>3, <1>5, <1>10, <1>11
  <2> DEFINE a == [k \in 1..m |-> w[3 * k + 2]]
  <2>2. Array(a) # NoValue /\ Array(a)[2] = a
    BY DEF Array, NoValue
  <2>3. Listed(MetaText(n, number, s)) = [i \in DOMAIN a |-> Member(a[i], "index")[2]]
    <3> HIDE DEF a
    <3>1. Member(Parse(MetaText(n, number, s)), "blocks") = Array(a)
      BY <2>1 DEF a
    <3> QED BY <2>2, <3>1 DEF Listed
  <2> QED BY <2>3
<1>14. \A i \in 1..m : Member(w[3 * i + 2], "index")[2] = s[i]
  BY <1>12 DEF Number
<1> QED BY <1>1, <1>13, <1>14

\* A part of the text is no metadata.
LEMMA ListedOfTorn ==
  ASSUME NEW n \in Wanted, NEW number \in 1..MaxBlocks, NEW s \in Indexes,
         NEW length \in {1, Len(MetaText(n, number, s)) - 1}
  PROVE  Listed(SubSeq(MetaText(n, number, s), 1, length)) = <<>>
<1> DEFINE text == MetaText(n, number, s)
<1>1. IsSeq(text) /\ Len(text) > 1 /\ \A k \in 0..(Len(text) - 1) : Parse(SubSeq(text, 1, k)) = NoValue
  BY JsonAssumption DEF MetaText, IsSeq
<1>2. length \in 1..(Len(text) - 1)
  BY <1>1, IsSeqLen
<1>3. Parse(SubSeq(text, 1, length)) = NoValue
  BY <1>1, <1>2
<1> QED BY <1>3 DEF Listed, Member

LEMMA TextsExist ==
  ASSUME NEW n \in Wanted, NEW number \in 1..MaxBlocks, NEW s \in Indexes
  PROVE  /\ Exists(MetaText(n, number, s))
         /\ \A length \in {1, Len(MetaText(n, number, s)) - 1} : Exists(SubSeq(MetaText(n, number, s), 1, length))
<1> DEFINE text == MetaText(n, number, s)
<1>1. IsSeq(text) /\ Len(text) > 1
  BY JsonAssumption DEF MetaText, IsSeq
<1> HIDE DEF text
<1>2. text # <<>>
  BY <1>1, EmptyIsSeq
<1>3. ASSUME NEW length \in {1, Len(text) - 1} PROVE SubSeq(text, 1, length) # <<>>
  <2>1. length \in 0..Len(text) /\ length # 0
    BY <1>1, IsSeqLen
  <2> QED BY <1>1, <2>1, HeadIsSeq, EmptyIsSeq
<1> QED BY <1>2, <1>3 DEF text, Exists, Absent

\* One more block fits into the metadata.
LEMMA OneMoreIndex ==
  ASSUME NEW s \in Indexes, NEW b \in 0..(MaxBlocks - 1), b \notin ToSet(s)
  PROVE  Append(s, b) \in Indexes /\ ToSet(Append(s, b)) = ToSet(s) \cup {b}
<1> DEFINE t == Append(s, b)
           m == Len(s)
<1>1. /\ IsSeq(s) /\ m \in 0..MaxBlocks /\ s \in [1..m -> 0..(MaxBlocks - 1)]
      /\ \A i, j \in 1..m : s[i] = s[j] => i = j
  BY IndexesAreSeqs
<1>2. MaxBlocks \in Nat
  BY LocalFilesAssumption
<1>3. \A i \in 1..m : s[i] # b
  BY <1>1 DEF ToSet
<1>4. DOMAIN t = 1..(m + 1) /\ (\A i \in 1..m : t[i] = s[i]) /\ t[m + 1] = b /\ m \in Nat /\ IsSeq(t)
  BY <1>1, <1>2, AppendIsSeq
<1> HIDE DEF t, m
<1>5. \A i \in 1..(m + 1) : i \in 1..m \/ i = m + 1
  BY <1>4
<1>6. t \in [1..(m + 1) -> 0..(MaxBlocks - 1)]
  <2>1. t = [i \in 1..(m + 1) |-> t[i]]
    <3>1. IsSeq(t) /\ DOMAIN t = 1..(m + 1)
      BY <1>4
    <3>2. t = [i \in DOMAIN t |-> t[i]]
      <4>1. t \in Seq({t[i] : i \in DOMAIN t})
        BY <1>4 DEF IsSeq
      <4> QED BY <4>1, LenProperties
    <3> QED BY <3>1, <3>2
  <2>2. \A i \in 1..(m + 1) : t[i] \in 0..(MaxBlocks - 1)
    BY <1>1, <1>4, <1>5
  <2> QED BY <2>1, <2>2
<1>7. ASSUME NEW i \in 1..(m + 1), NEW j \in 1..(m + 1), t[i] = t[j] PROVE i = j
  BY <1>1, <1>3, <1>4, <1>5, <1>7
<1>8. m + 1 <= MaxBlocks
  <2> SUFFICES ASSUME ~ (m + 1 <= MaxBlocks) PROVE FALSE
    OBVIOUS
  <2> DEFINE S == 1..(m + 1)
             T == 0..(MaxBlocks - 1)
  <2>1. IsFiniteSet(S) /\ Cardinality(S) = m + 1
    <3>1. 1 \in Int /\ m + 1 \in Int /\ ~ (1 > m + 1) /\ (m + 1) - 1 + 1 = m + 1
      BY <1>4
    <3> QED BY <3>1, FS_Interval
  <2>2. IsFiniteSet(T) /\ Cardinality(T) <= MaxBlocks
    <3>1. 0 \in Int /\ MaxBlocks - 1 \in Int /\ (MaxBlocks - 1) - 0 + 1 = MaxBlocks
      BY <1>2
    <3>2. IsFiniteSet(T) /\ Cardinality(T) = IF 0 > MaxBlocks - 1 THEN 0 ELSE (MaxBlocks - 1) - 0 + 1
      BY <3>1, FS_Interval
    <3> QED BY <1>2, <3>1, <3>2
  <2>3. Cardinality(T) \in Nat
    BY <2>2, FS_CardinalityType
  <2>4. Cardinality(T) < Cardinality(S)
    BY <1>2, <1>4, <2>1, <2>2, <2>3
  <2>5. t \in [S -> T]
    BY <1>6
  <2> HIDE DEF S, T
  <2>6. \E x, y \in S : x # y /\ t[x] = t[y]
    BY <2>1, <2>2, <2>4, <2>5, FS_PigeonHole
  <2> QED BY <1>7, <2>6 DEF S
<1>9. t \in Indexes
  <2>1. m + 1 \in 0..MaxBlocks
    BY <1>2, <1>4, <1>8
  <2>2. t \in UNION {[1..k -> 0..(MaxBlocks - 1)] : k \in 0..MaxBlocks}
    BY <1>6, <2>1
  <2> QED BY <1>4, <1>7, <2>2 DEF Indexes
<1>10. ToSet(t) = ToSet(s) \cup {b}
  <2>1. DOMAIN s = 1..m
    BY <1>1
  <2>2. \A x : x \in ToSet(t) <=> \E i \in 1..(m + 1) : x = t[i]
    BY <1>4 DEF ToSet
  <2>3. \A x : x \in ToSet(s) <=> \E i \in 1..m : x = s[i]
    BY <2>1 DEF ToSet
  <2>4. m + 1 \in 1..(m + 1) /\ \A i \in 1..m : i \in 1..(m + 1)
    BY <1>4
  <2> QED BY <1>4, <1>5, <2>2, <2>3, <2>4
<1> QED BY <1>9, <1>10 DEF t

-----------------------------------------------------------------------------
(* The metadata is honest *)

\* The listed blocks that files with these contents do not hold.
Over(r, p, text) ==
  {b \in ToSet(Listed(text)) : ~Holds(r, b) /\ ~Holds(p, b)}

AtMostOne(r, p, text) == \E b \in 0..MaxBlocks : Over(r, p, text) \subseteq {b}

Excused(n) == excuse[n] # "none"

LEMMA OverFacts ==
  ASSUME NEW r, NEW p, NEW text
  PROVE  /\ r = Whole \/ Listed(text) = <<>> => Over(r, p, text) = {}
         /\ \A blocks : r = Some(blocks) \/ p = Some(blocks) =>
              /\ ToSet(Listed(text)) \subseteq blocks => Over(r, p, text) = {}
              /\ \A b : ToSet(Listed(text)) \subseteq blocks \cup {b} => Over(r, p, text) \subseteq {b}
<1>1. Listed(text) = <<>> => ToSet(Listed(text)) = {}
  BY DEF ToSet
<1>2. \A blocks, b : b \in blocks => Holds(Some(blocks), b)
  BY FileStates DEF Holds
<1>3. \A b : Holds(Whole, b)
  BY DEF Holds
<1> QED BY <1>1, <1>2, <1>3 DEF Over

LEMMA NoneIsAtMostOne ==
  ASSUME NEW r, NEW p, NEW text, Over(r, p, text) = {}
  PROVE  AtMostOne(r, p, text)
<1>1. 0 \in 0..MaxBlocks
  BY LocalFilesAssumption
<1> QED BY <1>1 DEF AtMostOne

LEMMA BoundedFacts ==
  /\ Bounded <=> \A n \in Names : AtMostOne(regular[n], part[n], meta[n]) \/ Excused(n)
  /\ Bounded' <=> \A n \in Names : AtMostOne(regular'[n], part'[n], meta'[n]) \/ Excused(n)'
BY DEF Bounded, AtMostOne, Excused, Over, Overstated

LEMMA EmptyIndexes == <<>> \in Indexes /\ ToSet(<<>>) = {}
<1>1. <<>> \in [1..0 -> 0..(MaxBlocks - 1)] /\ 0 \in 0..MaxBlocks /\ DOMAIN <<>> = {}
  BY LocalFilesAssumption
<1> QED BY <1>1 DEF Indexes, ToSet

\* All blocks of a file, as create lists them.
LEMMA AllIndexes ==
  ASSUME NEW number \in 1..MaxBlocks
  PROVE  [i \in 1..number |-> i - 1] \in Indexes
<1> DEFINE s == [i \in 1..number |-> i - 1]
<1>1. number \in 0..MaxBlocks /\ MaxBlocks \in Nat
  BY LocalFilesAssumption
<1>2. s \in [1..number -> 0..(MaxBlocks - 1)]
  BY <1>1
<1>3. \A i, j \in DOMAIN s : s[i] = s[j] => i = j
  OBVIOUS
<1>4. s \in UNION {[1..k -> 0..(MaxBlocks - 1)] : k \in 0..MaxBlocks}
  BY <1>1, <1>2
<1> HIDE DEF s
<1> QED BY <1>3, <1>4 DEF Indexes, s

\* Writing metadata leaves what was to be written, or a text that lists nothing.
LEMMA WriteEffect ==
  ASSUME NEW n \in Wanted, NEW number \in 1..MaxBlocks, NEW s \in Indexes, NEW next,
         WriteMeta(n, MetaWith(n, number, s), next)
  PROVE  \E text : /\ meta' = [meta EXCEPT ![n] = text] /\ Exists(text)
                   /\ \/ pc' = next /\ text = MetaText(n, number, s) /\ Listed(text) = s
                      \/ pc' = "ended" /\ Listed(text) = <<>>
<1>1. CASE meta' = [meta EXCEPT ![n] = MetaText(n, number, s)] /\ pc' = next
  BY <1>1, TextsExist, ListedOfMeta
<1>2. CASE /\ \E length \in {1, Len(MetaText(n, number, s)) - 1} :
                meta' = [meta EXCEPT ![n] = SubSeq(MetaText(n, number, s), 1, length)]
           /\ pc' = "ended"
  <2>1. PICK length \in {1, Len(MetaText(n, number, s)) - 1} :
               meta' = [meta EXCEPT ![n] = SubSeq(MetaText(n, number, s), 1, length)]
    BY <1>2
  <2>2. Exists(SubSeq(MetaText(n, number, s), 1, length)) /\ Listed(SubSeq(MetaText(n, number, s), 1, length)) = <<>>
    BY <2>1, TextsExist, ListedOfTorn
  <2> QED BY <1>2, <2>1, <2>2
<1> QED BY <1>1, <1>2 DEF WriteMeta, MetaText

\* A read metadata text with one block more.
LEMMA ReadAgain ==
  ASSUME NEW n \in Wanted, NEW number \in 1..MaxBlocks, NEW s \in Indexes, NEW b
  PROVE  AppendBlock(Built(<<>>, Parse(MetaText(n, number, s))), n, b) = MetaWith(n, number, Append(s, b))
<1>1. Built(<<>>, Parse(MetaText(n, number, s))) = MetaWith(n, number, s)
  BY JsonAssumption DEF MetaText
<1>2. IsSeq(s)
  BY IndexesAreSeqs
<1> QED BY <1>1, <1>2, MetaAppend

\* There is nothing to read where no metadata is.
LEMMA ListedOfNone ==
  ASSUME NEW n \in Wanted
  PROVE  Listed(Absent) = <<>>
<1> DEFINE text == MetaText(n, MaxBlocks, <<>>)
<1>1. IsSeq(text) /\ Len(text) > 1 /\ \A k \in 0..(Len(text) - 1) : Parse(SubSeq(text, 1, k)) = NoValue
  <2>1. MaxBlocks \in 1..MaxBlocks /\ <<>> \in Indexes
    BY LocalFilesAssumption, EmptyIndexes
  <2> QED BY <2>1, JsonAssumption DEF MetaText, IsSeq
<1> HIDE DEF text
<1>2. 0 \in 0..Len(text) /\ 0 \in 0..(Len(text) - 1)
  BY <1>1, IsSeqLen
<1>3. SubSeq(text, 1, 0) = Absent
  BY <1>1, <1>2, HeadIsSeq, EmptyIsSeq DEF Absent
<1>4. Parse(Absent) = NoValue
  BY <1>1, <1>2, <1>3
<1> QED BY <1>4 DEF Listed, Member

Honest == Written /\ Buffered /\ Partial /\ Bounded

LEMMA InitHonest == Init => HonestInv
<1> SUFFICES ASSUME Init PROVE HonestInv
  OBVIOUS
<1>1. Typed /\ pc = "off" /\ loose = {} /\ name \in Wanted
  BY InitTyped DEF Init
<1>2. \A n \in Names : regular[n] \in {Absent, Whole} /\ part[n] = Absent
  BY DEF Init
<1>3. ASSUME NEW n \in Names PROVE AtMostOne(regular[n], part[n], meta[n]) \/ Excused(n)
  <2>1. CASE Exists(meta[n]) /\ ~Exists(regular[n])
    <3>1. excuse[n] = "deleted"
      BY <2>1 DEF Init
    <3> QED BY <3>1 DEF Excused
  <2>2. CASE ~Exists(meta[n])
    <3>1. Listed(meta[n]) = <<>>
      BY <1>1, <2>2, ListedOfNone DEF Exists
    <3> QED BY <3>1, OverFacts, NoneIsAtMostOne
  <2>3. CASE regular[n] = Whole
    BY <2>3, OverFacts, NoneIsAtMostOne
  <2> QED BY <1>2, <2>1, <2>2, <2>3 DEF Exists
<1>4. Bounded
  BY <1>3, BoundedFacts
<1>5. Partial
  BY <1>2 DEF Partial, Exists
<1> QED BY <1>1, <1>4, <1>5 DEF HonestInv, Written, Buffered

\* Actions that leave the directory alone, outside of a download.
LEMMA QuietHonest ==
  ASSUME HonestInv, UNCHANGED <<regular, part, meta, name, total, arrived, loose, excuse>>,
         pc' # "downloading" \/ pc' = pc
  PROVE  Honest'
<1>1. Written' /\ Buffered' /\ Partial'
  BY DEF HonestInv, Written, Buffered, Partial, Listed
<1>2. Bounded'
  BY BoundedFacts DEF HonestInv, Excused
<1> QED BY <1>1, <1>2 DEF Honest

\* A change of the files of one name, outside of a download.
LEMMA OneNameHonest ==
  ASSUME HonestInv, NEW n \in Names,
         \A k \in Names : k # n => regular'[k] = regular[k] /\ part'[k] = part[k] /\ meta'[k] = meta[k],
         pc' # "downloading", loose' = {}, \A k \in Names : k # n => excuse'[k] = excuse[k],
         AtMostOne(regular'[n], part'[n], meta'[n]) \/ Excused(n)',
         Exists(regular'[n]) /\ regular'[n] # Whole => Exists(meta'[n])
  PROVE  Honest'
<1>1. Written' /\ Buffered' /\ Partial'
  BY DEF HonestInv, Written, Buffered, Partial
<1>2. ASSUME NEW k \in Names PROVE AtMostOne(regular'[k], part'[k], meta'[k]) \/ Excused(k)'
  <2>1. AtMostOne(regular[k], part[k], meta[k]) \/ Excused(k)
    BY BoundedFacts DEF HonestInv
  <2>2. CASE k # n
    <3>1. regular'[k] = regular[k] /\ part'[k] = part[k] /\ meta'[k] = meta[k] /\ excuse'[k] = excuse[k]
      BY <2>2
    <3> QED BY <2>1, <3>1 DEF Excused
  <2> QED BY <2>2
<1>3. Bounded'
  BY <1>2, BoundedFacts
<1> QED BY <1>1, <1>3 DEF Honest

LEMMA QuietActions ==
  ASSUME HonestInv, BeginHello \/ AnnounceFile \/ SendHello \/ BeginList \/ ListEntry \/ PrintList \/ EndList
  PROVE  Honest'
<1>1. UNCHANGED <<regular, part, meta, name, total, arrived, loose, excuse>> /\ pc' # "downloading"
  BY DEF BeginHello, AnnounceFile, SendHello, BeginList, ListEntry, PrintList, EndList, disk, downloadVars
<1> QED BY <1>1, QuietHonest

\* create finds no metadata, so the file is whole.
LEMMA CreateHonest == ASSUME HonestInv, Create PROVE Honest'
<1>1. PICK n \in Wanted, number \in 1..MaxBlocks :
        Exists(regular[n]) /\ ~Exists(meta[n]) /\ WriteMeta(n, FullMeta(n, number), "prompt")
  <2>1. PICK n \in Wanted, number \in 0..MaxBlocks :
          Exists(regular[n]) /\ ~Exists(meta[n]) /\ number # 0 /\ WriteMeta(n, FullMeta(n, number), "prompt")
    BY DEF Create
  <2>2. number \in 1..MaxBlocks
    BY <2>1, LocalFilesAssumption
  <2> QED BY <2>1, <2>2
<1>2. UNCHANGED <<regular, part, loose, excuse>> /\ pc = "prompt"
  BY DEF Create, downloadVars
<1>3. n \in Names /\ loose = {} /\ meta = [k \in Names |-> meta[k]]
  BY <1>2, LocalFilesAssumption DEF HonestInv, Typed
<1>4. regular[n] = Whole
  BY <1>1, <1>3 DEF HonestInv, Partial
<1>5. PICK text : meta' = [meta EXCEPT ![n] = text] /\ pc' \in {"prompt", "ended"}
  <2>1. [i \in 1..number |-> i - 1] \in Indexes
    BY AllIndexes
  <2> QED BY <1>1, <2>1, WriteEffect DEF FullMeta
<1>6. AtMostOne(regular'[n], part'[n], meta'[n])
  <2>1. Over(Whole, part'[n], meta'[n]) = {}
    BY OverFacts
  <2> QED BY <1>2, <1>4, <2>1, NoneIsAtMostOne
<1>7. \A k \in Names : k # n => meta'[k] = meta[k]
  BY <1>3, <1>5
<1> QED BY <1>2, <1>3, <1>4, <1>5, <1>6, <1>7, OneNameHonest

\* The part file is emptied before the metadata is.
LEMMA OpenHonest == ASSUME HonestInv, OpenPart PROVE Honest'
<1>1. PICK n \in Wanted : loose' = {} /\ part' = [part EXCEPT ![n] = Some({})] /\ Excuse(n, "emptied")
  BY DEF OpenPart
<1>2. UNCHANGED <<regular, meta>> /\ pc' = "opened"
  BY DEF OpenPart
<1>3. n \in Names /\ part = [k \in Names |-> part[k]]
  BY LocalFilesAssumption DEF HonestInv, Typed
<1>7. excuse'[n] = "emptied" /\ \A k \in Names : k # n => excuse'[k] = excuse[k]
  <2>1. excuse \in [Names -> Excuses] /\ "emptied" \in Excuses
    BY DEF HonestInv, Typed, TypeOK, Excuses
  <2> QED BY <1>1, <1>3, <2>1, ExcuseTyped
<1>4. Excused(n)'
  BY <1>7 DEF Excused
<1>5. \A k \in Names : k # n => part'[k] = part[k]
  BY <1>1, <1>3
<1>6. Exists(regular'[n]) /\ regular'[n] # Whole => Exists(meta'[n])
  BY <1>2, <1>3 DEF HonestInv, Partial
<1> QED BY <1>1, <1>2, <1>3, <1>4, <1>5, <1>6, <1>7, OneNameHonest

\* The metadata of the download is rewritten, and the part file has the blocks it lists, unless a
\* recv was short.
LEMMA WrittenHonest ==
  ASSUME HonestInv, NEW s \in Indexes, NEW blocks, NEW text,
         meta' = [meta EXCEPT ![name] = text], Exists(text), part[name] = Some(blocks),
         \/ pc' = "downloading" /\ text = MetaText(name, total, s) /\ Listed(text) = s
         \/ pc' = "ended" /\ Listed(text) = <<>>,
         arrived' \cap ToSet(s) = {}, excuse'[name] = "none" => ToSet(s) \cup arrived' \subseteq blocks,
         UNCHANGED <<regular, part, name, total, loose>>, \A k \in Names : k # name => excuse'[k] = excuse[k]
  PROVE  Honest'
<1>1. name \in Names /\ part = [k \in Names |-> part[k]] /\ meta = [k \in Names |-> meta[k]]
  BY LocalFilesAssumption DEF HonestInv, Typed, TypeOK
<1>2. part'[name] = Some(blocks) /\ part'[name][2] = blocks /\ meta'[name] = text
  BY <1>1, FileStates
<1>3. excuse'[name] = "none" => ToSet(Listed(text)) \subseteq blocks
  BY EmptyIndexes
<1>4. Written'
  BY <1>2 DEF Written, MetaText
<1>5. Buffered'
  <2>1. excuse'[name] = "none" => ToSet(Listed(meta'[name])) \subseteq part'[name][2]
    BY <1>2, <1>3
  <2>2. loose' # {} => \E b \in loose' : loose' = {b}
    BY DEF HonestInv, Buffered
  <2> QED BY <2>1, <2>2 DEF Buffered
<1>6. \A k \in Names : k # name => meta'[k] = meta[k] /\ part'[k] = part[k]
  BY <1>1
<1>7. Partial'
  BY <1>2, <1>6 DEF HonestInv, Partial
<1>8. Bounded'
  <2>1. ASSUME NEW k \in Names PROVE AtMostOne(regular'[k], part'[k], meta'[k]) \/ Excused(k)'
    <3>1. CASE k = name /\ excuse'[k] = "none"
      <4>1. Over(regular'[k], part'[k], meta'[k]) = {}
        BY <1>2, <1>3, <3>1, OverFacts
      <4> QED BY <4>1, NoneIsAtMostOne
    <3>2. CASE k # name
      <4>1. AtMostOne(regular[k], part[k], meta[k]) \/ Excused(k)
        BY BoundedFacts DEF HonestInv
      <4>2. meta'[k] = meta[k] /\ part'[k] = part[k] /\ regular'[k] = regular[k] /\ excuse'[k] = excuse[k]
        BY <1>6, <3>2
      <4> QED BY <4>1, <4>2 DEF Excused
    <3> QED BY <3>1, <3>2 DEF Excused
  <2> QED BY <2>1, BoundedFacts
<1> QED BY <1>4, <1>5, <1>7, <1>8 DEF Honest

LEMMA ResetHonest == ASSUME HonestInv, ResetMeta PROVE Honest'
<1>1. /\ WriteMeta(name, NewMeta(name, total), "downloading") /\ pc = "opened"
      /\ UNCHANGED <<regular, part, name, total, arrived, loose>> /\ Excuse(name, "none")
  BY DEF ResetMeta, downloadVars
<1>2. name \in Wanted /\ name \in Names /\ total \in 1..MaxBlocks /\ Exists(part[name]) /\ TypeOK
      /\ excuse \in [Names -> Excuses]
  BY <1>1, LocalFilesAssumption DEF HonestInv, Typed, TypeOK
<1>3. NewMeta(name, total) = MetaWith(name, total, <<>>)
  BY MetaEmpty
<1>4. PICK text : /\ meta' = [meta EXCEPT ![name] = text] /\ Exists(text)
                  /\ \/ pc' = "downloading" /\ text = MetaText(name, total, <<>>) /\ Listed(text) = <<>>
                     \/ pc' = "ended" /\ Listed(text) = <<>>
  BY <1>1, <1>2, <1>3, EmptyIndexes, WriteEffect
<1> DEFINE blocks == part[name][2]
<1>5. part[name] = Some(blocks)
  BY <1>2, PartFile
<1> HIDE DEF blocks
<1>6. ToSet(<<>>) = {} /\ <<>> \in Indexes /\ arrived' = {}
  BY <1>1, EmptyIndexes DEF HonestInv, Typed
<1>7. \A k \in Names : k # name => excuse'[k] = excuse[k]
  <2>1. "none" \in Excuses
    BY DEF Excuses
  <2> QED BY <1>1, <1>2, <2>1, ExcuseTyped
<1> QED BY <1>1, <1>4, <1>5, <1>6, <1>7, WrittenHonest

\* The block is in the part file, or a recv was short.
LEMMA ReceiveHonest == ASSUME HonestInv, ReceiveBlock PROVE Honest'
<1>1. PICK b, missing :
        /\ b \in (0..(total - 1)) \ (arrived \cup ToSet(Listed(meta[name])))
        /\ part' = [part EXCEPT ![name] = Some((@[2] \cup {b}) \ missing)]
        /\ arrived' = arrived \cup {b} /\ loose' = {b} \ missing
        /\ IF missing = {} THEN UNCHANGED excuse ELSE Excuse(name, "short")
  BY DEF ReceiveBlock
<1>2. pc = "downloading" /\ UNCHANGED <<regular, meta, pc, name, total>>
  BY DEF ReceiveBlock
<1>3. /\ name \in Wanted /\ name \in Names /\ total \in 1..MaxBlocks /\ part = [k \in Names |-> part[k]]
      /\ excuse \in [Names -> Excuses]
  BY LocalFilesAssumption DEF HonestInv, Typed, TypeOK
<1>4. PICK s \in Indexes :
        /\ meta[name] = MetaText(name, total, s) /\ arrived \cap ToSet(s) = {}
        /\ excuse[name] = "none" => ToSet(s) \cup arrived \subseteq part[name][2]
  BY <1>2 DEF HonestInv, Written
<1>5. Listed(meta[name]) = s
  BY <1>3, <1>4, ListedOfMeta
<1> DEFINE blocks == (part[name][2] \cup {b}) \ missing
<1>6. part'[name] = Some(blocks) /\ \A k \in Names : k # name => part'[k] = part[k]
  BY <1>1, <1>3
<1>7. \/ missing = {} /\ UNCHANGED excuse
      \/ excuse'[name] = "short" /\ \A k \in Names : k # name => excuse'[k] = excuse[k]
  <2>1. "short" \in Excuses
    BY DEF Excuses
  <2> QED BY <1>1, <1>3, <2>1, ExcuseTyped
<1>8. excuse'[name] = "none" => ToSet(s) \cup arrived' \subseteq blocks
  BY <1>1, <1>4, <1>7
<1> HIDE DEF blocks
<1>9. part'[name][2] = blocks
  BY <1>6, FileStates
<1>10. Written'
  <2>1. meta'[name'] = MetaText(name', total', s) /\ arrived' \cap ToSet(s) = {}
    BY <1>1, <1>2, <1>4, <1>5 DEF MetaText
  <2> QED BY <1>2, <1>8, <1>9, <2>1 DEF Written, MetaText
<1>11. Buffered'
  <2>1. loose' # {} => \E x \in loose' : loose' = {x}
    BY <1>1
  <2> QED BY <1>2, <1>5, <1>8, <1>9, <2>1 DEF Buffered
<1>12. Partial'
  BY <1>2 DEF HonestInv, Partial
<1>13. Bounded'
  <2>1. ASSUME NEW k \in Names PROVE AtMostOne(regular'[k], part'[k], meta'[k]) \/ Excused(k)'
    <3>1. CASE k = name /\ excuse'[k] = "none"
      <4>1. ToSet(Listed(meta'[k])) \subseteq blocks /\ part'[k] = Some(blocks)
        BY <1>2, <1>5, <1>6, <1>8, <3>1
      <4>2. Over(regular'[k], part'[k], meta'[k]) = {}
        BY <4>1, OverFacts
      <4> QED BY <4>2, NoneIsAtMostOne
    <3>2. CASE k # name
      <4>1. AtMostOne(regular[k], part[k], meta[k]) \/ Excused(k)
        BY BoundedFacts DEF HonestInv
      <4>2. meta'[k] = meta[k] /\ part'[k] = part[k] /\ regular'[k] = regular[k] /\ excuse'[k] = excuse[k]
        BY <1>2, <1>6, <1>7, <3>2
      <4> QED BY <4>1, <4>2 DEF Excused
    <3> QED BY <3>1, <3>2 DEF Excused
  <2> QED BY <2>1, BoundedFacts
<1> QED BY <1>10, <1>11, <1>12, <1>13 DEF Honest

\* What is listed has arrived.
LEMMA ListHonest == ASSUME HonestInv, ListBlock PROVE Honest'
<1>1. PICK b \in arrived :
        /\ arrived' = arrived \ {b}
        /\ WriteMeta(name, AppendBlock(Built(<<>>, Parse(meta[name])), name, b), "downloading")
  BY DEF ListBlock
<1>2. pc = "downloading" /\ UNCHANGED <<regular, part, name, total, loose, excuse>>
  BY DEF ListBlock
<1>3. /\ name \in Wanted /\ name \in Names /\ total \in 1..MaxBlocks /\ MaxBlocks \in Nat /\ TypeOK
      /\ arrived \subseteq 0..(total - 1) /\ Exists(part[name])
  BY <1>2, LocalFilesAssumption DEF HonestInv, Typed, TypeOK
<1>4. PICK s \in Indexes :
        /\ meta[name] = MetaText(name, total, s) /\ arrived \cap ToSet(s) = {}
        /\ excuse[name] = "none" => ToSet(s) \cup arrived \subseteq part[name][2]
  BY <1>2 DEF HonestInv, Written
<1>5. AppendBlock(Built(<<>>, Parse(meta[name])), name, b) = MetaWith(name, total, Append(s, b))
  BY <1>3, <1>4, ReadAgain
<1>6. Append(s, b) \in Indexes /\ ToSet(Append(s, b)) = ToSet(s) \cup {b}
  <2>1. b \in 0..(MaxBlocks - 1) /\ b \notin ToSet(s)
    BY <1>1, <1>3, <1>4
  <2> QED BY <2>1, OneMoreIndex
<1> DEFINE t == Append(s, b)
           blocks == part[name][2]
<1>7. t \in Indexes /\ ToSet(t) = ToSet(s) \cup {b}
  BY <1>6
<1>8. WriteMeta(name, MetaWith(name, total, t), "downloading")
  BY <1>1, <1>5
<1> HIDE DEF t
<1>9. PICK text : /\ meta' = [meta EXCEPT ![name] = text] /\ Exists(text)
                  /\ \/ pc' = "downloading" /\ text = MetaText(name, total, t) /\ Listed(text) = t
                     \/ pc' = "ended" /\ Listed(text) = <<>>
  BY <1>3, <1>7, <1>8, WriteEffect
<1>10. part[name] = Some(blocks)
  BY <1>3, PartFile
<1>11. arrived' \cap ToSet(t) = {} /\ (excuse'[name] = "none" => ToSet(t) \cup arrived' \subseteq blocks)
  BY <1>1, <1>2, <1>4, <1>7
<1> HIDE DEF blocks
<1> QED BY <1>2, <1>7, <1>9, <1>10, <1>11, WrittenHonest

\* The part file becomes the file, with what it has.
LEMMA FinishHonest == ASSUME HonestInv, FinishDownload PROVE Honest'
<1>1. /\ regular' = [regular EXCEPT ![name] = IF part[name] = Some(0..(total - 1)) THEN Whole ELSE part[name]]
      /\ part' = [part EXCEPT ![name] = Absent] /\ loose' = {} /\ pc = "downloading" /\ pc' = "prompt"
      /\ UNCHANGED <<meta, excuse>>
  BY DEF FinishDownload
<1>2. /\ name \in Wanted /\ name \in Names /\ total \in 1..MaxBlocks /\ Exists(part[name]) /\ TypeOK
      /\ part = [k \in Names |-> part[k]] /\ regular = [k \in Names |-> regular[k]]
  BY <1>1, LocalFilesAssumption DEF HonestInv, Typed, TypeOK
<1>3. PICK s \in Indexes :
        /\ meta[name] = MetaText(name, total, s)
        /\ excuse[name] = "none" => ToSet(s) \subseteq part[name][2]
  BY <1>1 DEF HonestInv, Written
<1>4. Listed(meta[name]) = s /\ Exists(meta[name])
  BY <1>2, <1>3, ListedOfMeta, TextsExist
<1>5. part[name] = Some(part[name][2])
  BY <1>2, PartFile
<1>6. regular'[name] \in {Whole, part[name]}
  BY <1>1, <1>2
<1>7. excuse[name] = "none" => Over(regular'[name], part'[name], meta'[name]) = {}
  <2> SUFFICES ASSUME excuse[name] = "none" PROVE Over(regular'[name], part'[name], meta'[name]) = {}
    OBVIOUS
  <2>1. CASE regular'[name] = Whole
    BY <2>1, OverFacts
  <2>2. CASE regular'[name] = part[name]
    <3>1. regular'[name] = Some(part[name][2]) /\ ToSet(Listed(meta'[name])) \subseteq part[name][2]
      BY <1>1, <1>3, <1>4, <1>5, <2>2
    <3> QED BY <3>1, OverFacts
  <2> QED BY <1>6, <2>1, <2>2
<1>8. AtMostOne(regular'[name], part'[name], meta'[name]) \/ excuse'[name] # "none"
  BY <1>1, <1>7, NoneIsAtMostOne
<1>9. \A k \in Names : k # name => regular'[k] = regular[k] /\ part'[k] = part[k] /\ meta'[k] = meta[k]
  BY <1>1, <1>2
<1>10. pc' # "downloading" /\ Exists(meta'[name]) /\ loose' = {} /\ excuse' = excuse
  BY <1>1, <1>4
<1> QED BY <1>2, <1>8, <1>9, <1>10, OneNameHonest DEF Excused

\* At the end of the client at most the block in the buffer is lost.
LEMMA EndHonest == ASSUME HonestInv, End PROVE Honest'
<1>1. PICK lost \in {{}, loose} : part' = IF lost = {} THEN part ELSE [part EXCEPT ![name] = Some(@[2] \ lost)]
  BY DEF End
<1>2. pc' = "off" /\ loose' = {} /\ UNCHANGED <<regular, meta, name, excuse>>
  BY DEF End
<1>3. /\ name \in Names /\ part = [k \in Names |-> part[k]] /\ loose \subseteq 0..(total - 1)
      /\ total \in 1..MaxBlocks /\ MaxBlocks \in Nat
  BY LocalFilesAssumption DEF HonestInv, Typed, TypeOK
<1>4. Written' /\ Buffered' /\ Partial'
  BY <1>2 DEF HonestInv, Written, Buffered, Partial
<1>5. ASSUME NEW k \in Names PROVE AtMostOne(regular'[k], part'[k], meta'[k]) \/ Excused(k)'
  <2>1. CASE lost = {} \/ k # name
    <3>1. part'[k] = part[k] /\ regular'[k] = regular[k] /\ meta'[k] = meta[k]
      BY <1>1, <1>2, <1>3, <2>1
    <3>2. AtMostOne(regular[k], part[k], meta[k]) \/ Excused(k)
      BY BoundedFacts DEF HonestInv
    <3> QED BY <1>2, <3>1, <3>2 DEF Excused
  <2>2. CASE lost # {} /\ k = name /\ excuse[name] = "none"
    <3>1. lost = loose /\ loose # {}
      BY <1>1, <2>2
    <3>2. PICK b \in loose : loose = {b}
      BY <3>1 DEF HonestInv, Buffered
    <3>3. ToSet(Listed(meta[name])) \subseteq part[name][2]
      BY <2>2, <3>1 DEF HonestInv, Buffered
    <3>4. part'[name] = Some(part[name][2] \ {b})
      BY <1>1, <1>3, <2>2, <3>1, <3>2
    <3> DEFINE blocks == part[name][2] \ {b}
    <3>5. ToSet(Listed(meta'[name])) \subseteq blocks \cup {b}
      BY <1>2, <3>3
    <3>6. part'[name] = Some(blocks)
      BY <3>4
    <3> HIDE DEF blocks
    <3>7. Over(regular'[name], part'[name], meta'[name]) \subseteq {b}
      BY <3>5, <3>6, OverFacts
    <3>8. b \in 0..MaxBlocks
      BY <1>3
    <3> QED BY <2>2, <3>7, <3>8 DEF AtMostOne
  <2>3. CASE k = name /\ excuse[name] # "none"
    BY <1>2, <2>3 DEF Excused
  <2> QED BY <2>1, <2>2, <2>3
<1>6. Bounded'
  BY <1>5, BoundedFacts
<1> QED BY <1>4, <1>6 DEF Honest

LEMMA UserHonest == ASSUME HonestInv, CopyIn \/ Delete PROVE Honest'
<1>1. PICK n \in Wanted :
        \/ regular' = [regular EXCEPT ![n] = Whole] /\ UNCHANGED part /\ Excuse(n, "none")
        \/ /\ regular' = [regular EXCEPT ![n] = Absent] /\ part' = [part EXCEPT ![n] = Absent]
           /\ Excuse(n, "deleted")
  BY DEF CopyIn, Delete
<1>2. UNCHANGED <<meta, pc, loose>> /\ pc \in {"off", "prompt"}
  BY DEF CopyIn, Delete, downloadVars
<1>3. /\ n \in Names /\ loose = {} /\ part = [k \in Names |-> part[k]] /\ regular = [k \in Names |-> regular[k]]
      /\ excuse \in [Names -> Excuses]
  BY <1>2, LocalFilesAssumption DEF HonestInv, Typed, TypeOK
<1>4. PICK why \in {"none", "deleted"} :
        Excuse(n, why) /\ (regular'[n] = Whole \/ (~Exists(regular'[n]) /\ why = "deleted"))
  BY <1>1, <1>3 DEF Exists
<1>5. excuse'[n] = why /\ \A k \in Names : k # n => excuse'[k] = excuse[k]
  <2>1. why \in Excuses
    BY DEF Excuses
  <2> QED BY <1>3, <1>4, <2>1, ExcuseTyped
<1>6. AtMostOne(regular'[n], part'[n], meta'[n]) \/ Excused(n)'
  <2>1. regular'[n] = Whole => Over(regular'[n], part'[n], meta'[n]) = {}
    BY OverFacts
  <2> QED BY <1>4, <1>5, <2>1, NoneIsAtMostOne DEF Excused
<1>7. \A k \in Names : k # n => regular'[k] = regular[k] /\ part'[k] = part[k] /\ meta'[k] = meta[k]
  BY <1>1, <1>2, <1>3
<1>8. pc' # "downloading" /\ loose' = {} /\ (Exists(regular'[n]) /\ regular'[n] # Whole => Exists(meta'[n]))
  BY <1>2, <1>3, <1>4
<1> QED BY <1>3, <1>5, <1>6, <1>7, <1>8, OneNameHonest

LEMMA HonestStep == ASSUME HonestInv, [Next]_vars PROVE HonestInv'
<1>1. Typed'
  BY StepTyped DEF HonestInv
<1>2. CASE UNCHANGED vars
  <2>1. UNCHANGED <<regular, part, meta, name, total, arrived, loose, excuse, pc>>
    BY <1>2 DEF vars, disk, downloadVars
  <2>2. Honest'
    BY <2>1, QuietHonest
  <2> QED BY <1>1, <2>2 DEF Honest, HonestInv
<1>3. CASE Next
  <2>1. Honest'
    BY <1>3, QuietActions, CreateHonest, OpenHonest, ResetHonest, ReceiveHonest, ListHonest, FinishHonest, EndHonest, UserHonest DEF Next
  <2> QED BY <1>1, <2>1 DEF Honest, HonestInv
<1> QED BY <1>2, <1>3

LEMMA BoundedIsHonest == HonestInv => MetadataHonest
<1> SUFFICES ASSUME HonestInv, NEW n \in Names, NEW b, Overstated(n) \subseteq {b}
             PROVE  Cardinality(Overstated(n)) <= 1
  BY DEF HonestInv, Bounded, MetadataHonest
<1>1. Overstated(n) = {} \/ Overstated(n) = {b}
  OBVIOUS
<1>2. Cardinality({}) = 0 /\ Cardinality({b}) = 1
  BY FS_EmptySet, FS_Singleton
<1> QED BY <1>1, <1>2

\* The metadata of a file, which the client announces at its next start, lists at most one block that
\* is not there, the one in the buffer of the stream, through failed and repeated downloads and Ctrl+C
\* at any time (DownloadFile.c:108-134, 189-207), with the three exceptions that excuse remembers: the
\* part file was emptied and the metadata not yet rewritten, the user deleted the file, a recv was short.
THEOREM MetadataIsHonest == Spec => []MetadataHonest
<1>1. HonestInv /\ [Next]_vars => HonestInv'
  BY HonestStep
<1>2. Spec => []HonestInv
  BY <1>1, InitHonest, PTL DEF Spec
<1> QED BY <1>2, BoundedIsHonest, PTL
==============================================================================
