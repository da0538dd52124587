------------------------------ MODULE LocalFiles ------------------------------
(***************************************************************************)
(* The downloads directory of a client and the commands of ClientThread    *)
(* that work on it: the hello message made from the metadata files at the  *)
(* start, ll, create and download, with the client being ended by Ctrl+C   *)
(* at any time and started again.                                          *)
(*                                                                         *)
(* A file name has up to three files: the file itself, its .part file      *)
(* while it is downloaded, and its metadata (.json), which is a JSON text. *)
(* Of the contents only the blocks are kept.  readdir returns the files in *)
(* any order.  A download appears here with its effects on the directory;  *)
(* Transfer has its threads, connections and bytes.  The texts of JSON     *)
(* values are parameters; JsonText is parson's way with them.              *)
(***************************************************************************)
EXTENDS JsonTree, FiniteSets

CONSTANTS
  Names,      \* names of files
  Wanted,     \* the names the user gives in commands
  MaxBlocks,  \* bound: blocks of a file
  Text(_),    \* the text of a value
  Parse(_),   \* the value of a text, or NoValue
  Built(_, _),\* the heap with a value that was read; it is the first of the new ones
  Misread(_)  \* what strncpy may leave in a name besides its own characters (ListLocalFiles.c:152)

ASSUME LocalFilesAssumption == IsFiniteSet(Names) /\ Wanted \subseteq Names /\ MaxBlocks \in Nat \ {0}

VARIABLES
  regular, part, \* of each name: Absent, Whole, or Some(blocks)
  meta,          \* of each name: Absent or a text
  pc,            \* of ClientThread; "ended" by Ctrl+C in the middle of a write, "off" when the client does not run
  name, total,   \* the file of the download and its number of blocks
  arrived,       \* blocks whose threads have written them and not yet listed them
  loose,         \* blocks whose last bytes are in the buffer of the part file's stream
  entries,       \* what readdir has still to return
  list,          \* fileList of ll: records of a name and a state
  sections,      \* what ll has printed
  heap,          \* JSON values of the operation under way
  misread,       \* ll has read a name wrongly (history)
  excuse         \* of each name: why its metadata may list what is not there, or "none" (history)

disk == <<regular, part, meta>>
downloadVars == <<name, total, arrived, loose>>
listVars == <<list, sections, misread>>
vars == <<disk, pc, downloadVars, entries, listVars, heap, excuse>>

Absent == <<>>
Whole == <<"whole">>
Some(blocks) == <<"some", blocks>>
Exists(file) == file # Absent
Holds(file, b) == file = Whole \/ (Len(file) = 2 /\ b \in file[2])

(* Metadata *)

Root == 1
\* A block object, as CreateMetaFile and DownloadBlock make it; it is the first new value.
NewBlock(h, n, index) ==
  LET object == Len(h) + 1
  IN  Set_atom(Set_atom(Init_object(h), object, "parentFile", String(n)), object, "index", Number(index))

\* A metadata object without blocks, as CreateMetaFile and DownloadFile make it.
NewMeta(n, number) ==
  LET named == Set_atom(Init_object(<<>>), Root, "fileName", String(n))
  IN  Set_array(Set_atom(named, Root, "numOfBlocks", Number(number)), Root, "blocks")

AppendBlock(h, n, index) == Append_value(NewBlock(h, n, index), Get_value(h, Root, "blocks"), Len(h) + 1)

\* Metadata with these blocks.
MetaWith(n, number, indexes) ==
  LET upTo[i \in 0..Len(indexes)] ==
        IF i = 0 THEN NewMeta(n, number) ELSE AppendBlock(upTo[i - 1], n, indexes[i])
  IN  upTo[Len(indexes)]

\* CreateMetaFile: all blocks.
FullMeta(n, number) == MetaWith(n, number, [i \in 1..number |-> i - 1])

\* The blocks that metadata may list, in any order.
Indexes == {s \in UNION {[1..k -> 0..(MaxBlocks - 1)] : k \in 0..MaxBlocks} :
              \A i, j \in DOMAIN s : s[i] = s[j] => i = j}

\* The library reads the metadata it has written, as the same values in the same places, and makes
\* nothing of a part of the text.
ASSUME JsonAssumption ==
  \A n \in Wanted, number \in 1..MaxBlocks, indexes \in Indexes :
    LET made == MetaWith(n, number, indexes)
        value == ValueOf(made, Root)
        text == Text(value)
    IN  /\ text \in Seq({text[i] : i \in DOMAIN text}) /\ Len(text) > 1
        /\ Parse(text) = value /\ Built(<<>>, value) = made
        /\ \A k \in 0..(Len(text) - 1) : Parse(SubSeq(text, 1, k)) = NoValue

\* Why metadata may list more than is there: a download begun again has emptied the part file and
\* not yet rewritten the metadata, the user has deleted the file, or a recv of the download was short.
Excuses == {"none", "emptied", "deleted", "short"}
Excuse(n, why) == excuse' = [excuse EXCEPT ![n] = why]

\* json_serialize_to_file_pretty and json_value_free.  The file is emptied before it is written,
\* and Ctrl+C in between leaves nothing or a part of the text.
WriteMeta(n, h, next) ==
  LET text == Text(ValueOf(h, Root))
  IN  \/ meta' = [meta EXCEPT ![n] = text] /\ heap' = Value_free(h, Root) /\ pc' = next
      \/ /\ \E length \in {1, Len(text) - 1} : meta' = [meta EXCEPT ![n] = SubSeq(text, 1, length)]
         /\ heap' = <<>> /\ pc' = "ended"

Init ==
  /\ regular \in [Names -> {Absent, Whole}]
  /\ part = [n \in Names |-> Absent]
  /\ meta \in {m \in [Names -> {Absent} \cup {Text(ValueOf(FullMeta(n, MaxBlocks), Root)) : n \in Names}] :
                 \A n \in Names : m[n] \in {Absent, Text(ValueOf(FullMeta(n, MaxBlocks), Root))}}
  /\ pc = "off" /\ name \in Wanted /\ total = MaxBlocks /\ arrived = {} /\ loose = {}
  /\ entries = {} /\ list = <<>> /\ sections = <<>> /\ heap = <<>>
  /\ misread = FALSE
  /\ excuse = [n \in Names |-> IF Exists(meta[n]) /\ ~Exists(regular[n]) THEN "deleted" ELSE "none"]

(* The hello message *)

Files  == Get_value(heap, Root, "files")
Blocks == Get_value(heap, Root, "blocks")

\* GenerateC2SHelloMessage, up to the directory.
BeginHello ==
  /\ pc = "off" /\ pc' = "hello"
  /\ LET hello == Set_atom(Init_object(<<>>), Root, "command", String("clientFilesAndBlocks"))
         port  == Set_atom(hello, Root, "pearListeningSocket", Number(1))
     IN  heap' = Set_array(Set_array(port, Root, "files"), Root, "blocks")
  /\ entries' = {<<n, "json">> : n \in {n \in Names : Exists(meta[n])}}
  /\ UNCHANGED <<disk, downloadVars, listVars, excuse>>

\* Variant: the block itself, which has an owner.
CopyBlock_itself(h, block, fileName) ==
  Append_value(Set_atom(h, block, "fileName", String(fileName)), Blocks, block)

\* A block of a metadata file gets the name of the file, and a copy of it, made by writing and
\* reading it, is appended to the message.
CopyBlock(h, block, fileName) ==
  LET named == Set_atom(h, block, "fileName", String(fileName))
      copy  == Built(named, Parse(Text(ValueOf(named, block))))
  IN  Append_value(copy, Blocks, Len(named) + 1)

CopyBlocks(h, blocks, fileName) ==
  LET upTo[i \in 0..Len(h[blocks].kids)] ==
        IF i = 0 THEN h ELSE CopyBlock(upTo[i - 1], h[blocks].kids[i], fileName)
  IN  upTo[Len(h[blocks].kids)]

\* Variant: json_value_free(file_value) after all.
Announced_freed(value) ==
  LET file   == Len(heap) + 1
      read   == Built(heap, value)
      blocks == Get_value(read, file, "blocks")
      copied == CopyBlocks(read, blocks, StringOf(value, "fileName"))
  IN  Value_free(Append_value(Object_remove(copied, file, "blocks"), Files, file), file)

\* A metadata file that was read: its blocks are copied, and the rest becomes a file of the message.
Announced(value) ==
  LET file   == Len(heap) + 1
      read   == Built(heap, value)
      blocks == Get_value(read, file, "blocks")
      copied == CopyBlocks(read, blocks, StringOf(value, "fileName"))
  IN  Append_value(Object_remove(copied, file, "blocks"), Files, file)

\* GetFilesAndBlocksJsonFrom, one metadata file; one that cannot be read is skipped.
AnnounceFile ==
  /\ pc = "hello"
  /\ \E e \in entries :
       /\ entries' = entries \ {e}
       /\ LET value == Parse(meta[e[1]]) IN heap' = IF value = NoValue THEN heap ELSE Announced(value)
  /\ UNCHANGED <<disk, pc, downloadVars, listVars, excuse>>

SendHello ==
  /\ pc = "hello" /\ entries = {}
  /\ heap' = Value_free(heap, Root)
  /\ pc' = "prompt"
  /\ UNCHANGED <<disk, downloadVars, entries, listVars, excuse>>

(* ll *)

Directory == {<<n, "">> : n \in {n \in Names : Exists(regular[n])}}
             \cup {<<n, "part">> : n \in {n \in Names : Exists(part[n])}}
             \cup {<<n, "json">> : n \in {n \in Names : Exists(meta[n])}}

BeginList ==
  /\ pc = "prompt" /\ pc' = "list"
  /\ entries' = Directory /\ list' = <<>> /\ misread' = FALSE
  /\ UNCHANGED <<disk, downloadVars, sections, heap, excuse>>

\* list_find with LocalFilesListCompare: the first record of the name, or 0.
Find(n) == IF \E i \in DOMAIN list : list[i].name = n
           THEN CHOOSE i \in DOMAIN list : list[i].name = n /\ \A j \in 1..(i - 1) : list[j].name # n
           ELSE 0

\* A record that is there changes its state as `states` says; else one is appended.
Record(n, states, new) ==
  LET i == Find(n)
  IN  list' = IF i = 0 THEN Append(list, [name |-> n, state |-> new])
              ELSE IF list[i].state \in DOMAIN states THEN [list EXCEPT ![i] = [name |-> n, state |-> states[@.state]]]
              ELSE list

\* strncpy copies the name without the extension and no terminator.
AddMetaFile(n) ==
  \E read \in {n} \cup Misread(n) :
    /\ Record(read, [PART_WITHOUT_META |-> "PART_WITH_META", FILE_WITHOUT_META |-> "FILE_WITH_META"], "META_ONLY")
    /\ misread' = (misread \/ read # n)
AddPartFile(n) == Record(n, [META_ONLY |-> "PART_WITH_META"], "PART_WITHOUT_META") /\ UNCHANGED misread
\* Variant: metadata that came first is forgotten.
AddRegularFile_forgets(n) ==
  Record(n, [META_ONLY |-> "FILE_WITHOUT_META"], "FILE_WITHOUT_META") /\ UNCHANGED misread
AddRegularFile(n) == Record(n, [META_ONLY |-> "FILE_WITH_META"], "FILE_WITHOUT_META") /\ UNCHANGED misread

\* FillListWithFiles, one directory entry.
ListEntry ==
  /\ pc = "list"
  /\ \E e \in entries :
       /\ entries' = entries \ {e}
       /\ CASE e[2] = "json" -> AddMetaFile(e[1])
            [] e[2] = "part" -> AddPartFile(e[1])
            [] e[2] = ""     -> AddRegularFile(e[1])
  /\ UNCHANGED <<disk, pc, downloadVars, sections, heap, excuse>>

States == {"PART_WITHOUT_META", "PART_WITH_META", "META_ONLY", "FILE_WITHOUT_META", "FILE_WITH_META"}

\* printFileList walks the list once for each section, and prints the names of its records with their
\* places; then the list is freed.
PrintList ==
  /\ pc = "list" /\ entries = {}
  /\ sections' = [s \in States |-> [i \in {j \in DOMAIN list : list[j].state = s} |-> list[i].name]]
  /\ list' = <<>> /\ pc' = "listed"
  /\ UNCHANGED <<disk, downloadVars, entries, misread, heap, excuse>>

EndList ==
  /\ pc = "listed" /\ pc' = "prompt"
  /\ sections' = <<>> /\ misread' = FALSE
  /\ UNCHANGED <<disk, downloadVars, entries, list, heap, excuse>>

(* create *)

\* HandleCreateMetaFile: the network's number of blocks goes before the user's.
Create ==
  /\ pc = "prompt"
  /\ \E n \in Wanted, asked \in 0..MaxBlocks, known \in 0..MaxBlocks :
       LET number == IF known # 0 THEN known ELSE asked
       IN  /\ Exists(regular[n]) /\ ~Exists(meta[n]) /\ number # 0
           /\ WriteMeta(n, FullMeta(n, number), "prompt")
  /\ UNCHANGED <<regular, part, downloadVars, entries, listVars, excuse>>

(* download *)

\* Variant: the number of blocks is one too small.
OpenPart_oneLess ==
  /\ pc = "prompt" /\ pc' = "opened"
  /\ \E n \in Wanted, number \in 1..MaxBlocks :
       /\ name' = n /\ total' = number - 1 /\ arrived' = {} /\ loose' = {}
       /\ part' = [part EXCEPT ![n] = Some({})] /\ Excuse(n, "emptied")
  /\ UNCHANGED <<regular, meta, entries, listVars, heap>>

\* DownloadFile of a file the network has empties the part file.
OpenPart ==
  /\ pc = "prompt" /\ pc' = "opened"
  /\ \E n \in Wanted, number \in 1..MaxBlocks :
       /\ name' = n /\ total' = number /\ arrived' = {} /\ loose' = {}
       /\ part' = [part EXCEPT ![n] = Some({})] /\ Excuse(n, "emptied")
  /\ UNCHANGED <<regular, meta, entries, listVars, heap>>

\* Variant: metadata that is there is kept.
ResetMeta_keeps ==
  /\ pc = "opened"
  /\ IF Exists(meta[name]) THEN pc' = "downloading" /\ UNCHANGED <<meta, heap>>
     ELSE WriteMeta(name, NewMeta(name, total), "downloading")
  /\ Excuse(name, "none")
  /\ UNCHANGED <<regular, part, downloadVars, entries, listVars>>

\* ... and then writes metadata without blocks.
ResetMeta ==
  /\ pc = "opened"
  /\ WriteMeta(name, NewMeta(name, total), "downloading")
  /\ Excuse(name, "none")
  /\ UNCHANGED <<regular, part, downloadVars, entries, listVars>>

\* The indexes of the blocks a metadata text lists, in their order; none if it cannot be read.
Listed(text) ==
  LET blocks == Member(Parse(text), "blocks")
  IN  IF blocks = NoValue THEN <<>> ELSE [i \in DOMAIN blocks[2] |-> Member(blocks[2][i], "index")[2]]

\* The last recv and fwrite of a block.  When a recv was short, bytes of the block are missing and
\* those behind them are written past their places, into the next block perhaps.
ReceiveBlock ==
  /\ pc = "downloading"
  /\ \E b \in (0..(total - 1)) \ (arrived \cup ToSet(Listed(meta[name]))) :
       \E missing \in {{}, {b}, {b, b + 1}} :
         /\ part' = [part EXCEPT ![name] = Some((@[2] \cup {b}) \ missing)]
         /\ arrived' = arrived \cup {b} /\ loose' = {b} \ missing
         /\ IF missing = {} THEN UNCHANGED excuse ELSE Excuse(name, "short")
  /\ UNCHANGED <<regular, meta, pc, name, total, entries, listVars, heap>>

\* Its thread reads, extends and writes the metadata file.
ListBlock ==
  /\ pc = "downloading"
  /\ \E b \in arrived :
       /\ arrived' = arrived \ {b}
       /\ WriteMeta(name, AppendBlock(Built(<<>>, Parse(meta[name])), name, b), "downloading")
  /\ UNCHANGED <<regular, part, name, total, loose, entries, listVars, excuse>>

\* All block threads have ended, some perhaps without their block: the part file gets the file's name.
FinishDownload ==
  /\ pc = "downloading" /\ arrived = {} /\ pc' = "prompt"
  /\ regular' = [regular EXCEPT ![name] = IF part[name] = Some(0..(total - 1)) THEN Whole ELSE part[name]]
  /\ part' = [part EXCEPT ![name] = Absent]
  /\ loose' = {}
  /\ UNCHANGED <<meta, name, total, arrived, entries, listVars, heap, excuse>>

\* Ctrl+C, or exit at the prompt.  What is in the buffer of the stream may not reach the disk.
End ==
  /\ pc # "off" /\ pc' = "off"
  /\ \E lost \in {{}, loose} :
       part' = IF lost = {} THEN part ELSE [part EXCEPT ![name] = Some(@[2] \ lost)]
  /\ arrived' = {} /\ loose' = {} /\ entries' = {} /\ list' = <<>> /\ sections' = <<>> /\ heap' = <<>> /\ misread' = FALSE
  /\ UNCHANGED <<regular, meta, name, total, excuse>>

(* The user at the directory *)

CopyIn ==
  /\ pc \in {"off", "prompt"}
  /\ \E n \in Wanted : /\ ~Exists(regular[n]) /\ ~Exists(part[n])
                       /\ regular' = [regular EXCEPT ![n] = Whole] /\ Excuse(n, "none")
  /\ UNCHANGED <<part, meta, pc, downloadVars, entries, listVars, heap>>

\* A file and its part file; the metadata stays.
Delete ==
  /\ pc \in {"off", "prompt"}
  /\ \E n \in Wanted : /\ Exists(regular[n]) \/ Exists(part[n])
                       /\ regular' = [regular EXCEPT ![n] = Absent]
                       /\ part' = [part EXCEPT ![n] = Absent] /\ Excuse(n, "deleted")
  /\ UNCHANGED <<meta, pc, downloadVars, entries, listVars, heap>>

Next == \/ BeginHello \/ AnnounceFile \/ SendHello
        \/ BeginList \/ ListEntry \/ PrintList \/ EndList
        \/ Create \/ OpenPart \/ ResetMeta \/ ReceiveBlock \/ ListBlock \/ FinishDownload
        \/ End \/ CopyIn \/ Delete

Spec == Init /\ [][Next]_vars

(* Properties *)

\* The type invariant: files and records of the right kinds, and a part file while a download runs.
TypeOK ==
  /\ \A n \in Names : /\ regular[n] \in {Absent, Whole} \cup {Some(b) : b \in SUBSET (0..(MaxBlocks - 1))}
                      /\ part[n] \in {Absent} \cup {Some(b) : b \in SUBSET (0..(MaxBlocks - 1))}
  /\ pc \in {"off", "hello", "prompt", "list", "listed", "opened", "downloading", "ended"}
  /\ name \in Wanted /\ total \in 1..MaxBlocks
  /\ arrived \subseteq 0..(total - 1) /\ loose \subseteq 0..(total - 1)
  /\ excuse \in [Names -> Excuses]
  /\ \A i \in DOMAIN list : list[i].state \in States
  /\ pc \in {"opened", "downloading"} => Exists(part[name])

\* What the hello message says is what the metadata files say (GetFilesAndBlocksJsonFrom): as the
\* server reads it back, every block of a readable metadata file once, every such file once and
\* without its blocks, and nothing else, in whatever order the files were read.
HelloIsMetadata ==
  pc = "hello" /\ entries = {} =>
    LET hello   == Parse(Text(ValueOf(heap, Root)))
        files   == Member(hello, "files")[2]
        blocks  == Member(hello, "blocks")[2]
        readable == {n \in Names : Exists(meta[n]) /\ Parse(meta[n]) # NoValue}
    IN  /\ {<<StringOf(blocks[i], "parentFile"), Member(blocks[i], "index")[2]>> : i \in DOMAIN blocks}
             = UNION {{<<n, b>> : b \in ToSet(Listed(meta[n]))} : n \in readable}
        /\ \A i, j \in DOMAIN blocks : blocks[i] = blocks[j] => i = j
        /\ {StringOf(files[i], "fileName") : i \in DOMAIN files} = readable
        /\ Len(files) = Cardinality(readable)
        /\ \A i \in DOMAIN files : Member(files[i], "blocks") = NoValue

\* Memory of JSON values (jsonFunctions.c:59-61, 87, CreateMetaFile.c:48, DownloadFile.c:133): a value
\* has one owner that lists it once, the message holds no freed value, and when an operation has
\* ended every value was freed exactly once.
ValuesOwned ==
  /\ \A v \in DOMAIN heap :
       heap[v].frees = 0 /\ heap[v].parent # Null =>
         \E i \in DOMAIN heap[heap[v].parent].kids :
           /\ heap[heap[v].parent].kids[i] = v
           /\ \A w \in DOMAIN heap : \A j \in DOMAIN heap[w].kids :
                heap[w].frees = 0 /\ heap[w].kids[j] = v => w = heap[v].parent /\ j = i
  /\ pc = "hello" => \A v \in Tree(heap, Root) : heap[v].frees = 0
  /\ pc # "hello" => \A v \in DOMAIN heap : heap[v].frees = 1

\* The section a name with these files belongs to; a name with both a file and a part file may be in either.
Right(n) ==
  {s \in States :
     \/ s = "FILE_WITH_META"    /\ Exists(regular[n]) /\ Exists(meta[n])
     \/ s = "FILE_WITHOUT_META" /\ Exists(regular[n]) /\ ~Exists(meta[n])
     \/ s = "PART_WITH_META"    /\ Exists(part[n]) /\ Exists(meta[n])
     \/ s = "PART_WITHOUT_META" /\ Exists(part[n]) /\ ~Exists(meta[n])
     \/ s = "META_ONLY"         /\ Exists(meta[n]) /\ ~Exists(regular[n]) /\ ~Exists(part[n])}

\* ll shows each name that has a file once and in the right section, in whatever order readdir returns
\* a file and its metadata (ListLocalFiles.c:149-219), unless it has misread the name of a metadata file.
ListedOnceAndRight ==
  pc = "listed" /\ ~misread =>
    \A n \in Names :
      LET shown == {s \in States : \E i \in DOMAIN sections[s] : sections[s][i] = n}
      IN  IF Right(n) = {} THEN shown = {}
          ELSE /\ Cardinality(shown) = 1 /\ shown \subseteq Right(n)
               /\ \A s \in shown : Cardinality({i \in DOMAIN sections[s] : sections[s][i] = n}) = 1

\* The blocks that the metadata of a name lists although no file of that name has them.
Overstated(n) == {b \in ToSet(Listed(meta[n])) : ~Holds(regular[n], b) /\ ~Holds(part[n], b)}

\* The metadata, which the client announces at its next start, lists at most one block that is not
\* there, the one that was in the buffer of the stream, through failed and repeated downloads and
\* Ctrl+C at any time (DownloadFile.c:108-134, 189-207).  There are three exceptions, each of which
\* only a new download or a file put in its place ends: the client was ended, or still is, between
\* emptying the part file and rewriting the metadata; the user deleted the file, and its metadata
\* stays; a recv of the download was short, and the blocks it spoiled are listed like the others.
MetadataHonest == \A n \in Names : Cardinality(Overstated(n)) <= 1 \/ excuse[n] # "none"
=============================================================================
