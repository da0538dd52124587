# Formal models of the peer-to-peer file sharing system

The repository holds a central server (`central-server/`), which knows who has which block of which
file, and a client (`p2p-client/`), which shares the files of one directory, downloads files from other
clients block by block, and serves blocks to them. Both are multi-threaded C programs that talk JSON over
TCP. This directory models both in TLA+, checks the models with TLC on small instances and proves the
safety properties of all seven models, but for two invariants about the heap of JSON values, for every instance
with TLAPS.

Paths below are relative to the repository's root.

## 1. The system

### Central server

| Component | State | Operations |
|---|---|---|
| **Registry** (`main.c:71-145`, `src/jsonFunctions.c`, `src/list_functions.c`) | `globalPeersList`, `globalBlocksList` with a list of peers per block, `globalFilesList` with a list of blocks and an `isComplete` flag per file; the mutexes `peersAccess`, `blocksAccess`, `filesAccess`; the `peerT` of each connection | one handler per message: START (`AddPeer`, `GetBlocks`, `GetFiles`/`MakeBlocksList`), LS (`GenerateFilesListMessage`), REQUEST (`ProcessBlockRequest`: `GetBlockInfo`, `GetPeerInfo`), RECEIVE_SUCCESS (`AddPeerToBlock`); and the cleanup when a connection ends (`RemovePeer`, `free`, `CheckBlocksList`/`RemoveFromParentFile`) |
| **Thread life cycle** (`main.c:148-471`, `list_functions.c:130-165`) | `end_sig`, `numberOfClients`, the semaphores `semFinish`, `semClean`, `semCleanFinish`, the list `threadList` with `threadsAccess` | start, accept loop, `Client` (count, receive, clean up, hand over), `CleanUp` (join and uncount), `WaitForExit` (q), shutdown |
| **Framing** (`main.c:188-268`; in the client `server_thread.c:124-201` and the single reads of `client_thread.c` and `DownloadFile.c`) | the two directions of a connection, the buffer a message is put together in, the count of full reads | appending 1200-byte reads, deciding when a message is complete, parsing it, replying |
| **Linked lists** (`src/list*.c`) | nodes with `prev`/`next`, `head`, `tail`, `len` | push, pop, find, at, remove, iterate, destroy |
| **JSON library** (`include/parson.c`, in both programs) | values in memory, each with its owner | parse, serialize, get, set, append, remove, free |
| `getch` | - | terminal I/O |

### Client

| Component | State | Operations |
|---|---|---|
| **Download** (`src/ClientTrheadSrc/DownloadFile.c`) | the part file and its stream, the metadata file, the socket to the server, with the mutexes `fileMutex`, `metaFileMutex`, `socketMutex` | `DownloadFile` creates one `DownloadBlock` thread per block, joins them, renames the part file and compares the checksum; a block thread asks the server for a peer, receives the block from it, writes it, lists it in the metadata and reports it |
| **Serving** (`src/server_thread.c:90-221`) | a socket, the bytes still to send | `ServerSubThread` receives a request, opens the file and sends the block |
| **Process and threads** (`main.c`, `src/server_thread.c:15-88`, `src/TrashQueue.c`) | the trash queue (`head`, `tail`, `next`), `garbageSem`, the records of the connections | `ClientThread`, `ServerThread`'s accept loop, `ServerSubThread`'s hand-over, `GarbageCollectorThread` |
| **Commands** (`src/client_thread.c`) | the connection to the server | `create`, `download`, `ll`, `ls`, `exit` |
| **Local files and metadata** (`ListLocalFiles.c`, `CreateMetaFile.c`, `src/jsonFunctions.c`) | the downloads directory: files, `.part` files, metadata; the list of `ll`; the JSON values of the hello message | scan of the directory, hello message, new metadata, what a download leaves behind |

### How they interact

- One connection from `ClientThread` to the server lasts as long as the client; a hello message opens it.
  `DownloadFile` opens a second connection of its own, on which no hello message is sent. The server gives
  both a `Client` thread and a `peerT`.
- The handlers of all `Client` threads share the three lists. Some accesses are under a mutex, some are not
  (`AddPeerToBlock` pushes to a block's list, and `GetPeerInfo` reads it, after `GetBlockInfo` has released
  `blocksAccess`), and two handlers keep one mutex while they wait for another.
- `Client` threads hand themselves to `CleanUp` through `threadList` and `semClean`;
  `ServerSubThread`s hand themselves to `GarbageCollectorThread` through the trash queue and `garbageSem`.
- The block threads of a download share one socket, one stream and one metadata file, and each talks to a
  `ServerSubThread` of another client.

### What is hard in it, and what makes it correct

| Where | What is hard | What makes it correct |
|---|---|---|
| Registry | two mutexes taken in both orders; accesses without one; pointers kept after an unlock; a peer listed twice; connections that never say hello | what a serving peer announced can be found; no list points to freed memory; files, blocks and flags agree; handlers end |
| Thread life cycle | threads count themselves; records are taken in another order than they are announced; the end is only seen at a timeout | the count is exact; every thread is joined once, and before the lists go; q ends the server |
| Download | three shared resources; replies of all threads on one socket; recv of a byte stream; a kill at any moment; many failure exits | bytes get to their place; what the metadata lists is stored; no update is lost; the download ends |
| Client process | `tail` dangles while the queue is empty; free outside the mutex; malloc fails | the queue is first in first out; a record is freed once and after its thread |
| Framing | messages have no mark of their end; reads return any part of a stream; buffers are reused memory | every message is found once and in order; a reply belongs to its request; requests are answered |
| Linked lists | two of the operations on a block's list of peers run without its mutex; a push is several reads and writes | a list whose operations run one at a time is a sequence; overlapping pushes never lead to a bad pointer |
| Local files | the order of `readdir`; names that begin alike; Ctrl+C between two writes; JSON values with one owner | the hello message is what the metadata says; `ll` shows each name once and rightly; what the metadata lists is there, but for the cases `MetadataHonest` names |

`PROJECT.json` lists each hazard at its line with the properties that address it.

## 2. The modules

| Module | Models | Extends or implements |
|---|---|---|
| `Registry` | the handlers of the server's `Client` threads and their shared lists | |
| `ServerLifecycle` | the threads of the server | |
| `Transfer` | a download with the serving threads and the server as it sees them | implements `BlockByBlock` |
| `PeerProcess` | the threads of the client and the trash queue | implements `Fifo` |
| `LinkedList` | `list.c` with the threads that use a list, access by access | a sequence, as its invariant |
| `JsonValue` | JSON values and how the programs look at them | |
| `JsonTree` | parson's values in memory and who owns them | extends `JsonValue` |
| `JsonText` | parson's parser and serializer, on tokens | extends `JsonTree`; gives `Messages` and `LocalFiles` their library |
| `Messages` | the receive loops on one connection | extends `JsonValue`; the library is a parameter |
| `LocalFiles` | the downloads directory with hello, `ll`, `create` and `download` | extends `JsonTree` |

`MCX` holds the constants TLC needs for `X`; `XProofs` holds the proofs about `X`, and
`TransferBytesProofs` those that build on `TransferProofs`. The modules meet at what
one takes from another as given: `Registry` and `Transfer` take messages as records, `Messages` shows when the
stream yields them; `Registry` takes what a client announces as constants, `LocalFiles` shows what the hello
message contains; `Registry` takes lists as sequences, sets and bags, `LinkedList` shows when they are.

Conventions shared by all of them:

- An action is what a thread does between two points where another thread can get in. A critical section no
  thread waits inside is one action and its mutex no variable (`peersAccess`, `clientsAccess`, the trash
  queue's mutex); a mutex held across a wait is a variable, or follows from a program counter
  (`threadsAccess` while `CleanUp` joins).
- `pc` is where a thread is, named for the function or step that comes next.
- Undefined behaviour sets `fault` and ends the behaviour. Nothing is claimed about what follows it.
- Time is left out: the timeout of `poll` may expire whenever there is nothing to read.
- An operator `X_something` before `X`, with the comment "Variant", is the code with a plausible bug. Each
  checked property fails when the variant `PROJECT.json` names for it takes the place of the original, so
  that no property holds by the shape of the model alone.

### Registry

State: `peersList` is `globalPeersList` (a sequence, its first match and its last element matter);
`blocksList` and `filesList` are sets, because the order of these lists does not reach a result; `holders` is
`block->peers` as a bag, because `list_find` and `list_remove` take out one occurrence and a peer may be in
the list twice; `fileBlocks`, `numberOfBlocks` and `isComplete` are the fields of a `fileT`; `held` and `gone`
are the block pointer a handler keeps and whether the block has been freed since; `port` is
`peer->listeningSocket`, which is what `malloc` left there until a hello message sets it.

The actions carry the names of the functions: `AddPeer`, `AddBlocks` (`GetBlocks`), `GetFiles`, `MakeBlocksList` (one
turn of `GetFiles`' loop), `GetFilesReturn`, `SendFilesList`, `ProcessBlockRequest`, `GetPeerInfo`, `ListAt`,
`ReadPeer`, `ReceiveSuccess`, `AddPeerToBlock`, `PushPeer`, `RemoveFromGlobal`, `RemoveFromBlocks`, `FreePeer`,
`CheckBlocksList`, `CheckNextBlock`, `RemoveFromParentFile`, `FreeBlock`, `CheckBlocksReturn`. `Connect` and
`Disconnect` are the two ends of a connection. The function `GetPeerInfo` is three steps, since it has no lock: it
reads the length of the list (`GetPeerInfo`), walks to the entry it has drawn (`ListAt`, which finds nothing when the
list has become shorter, and then draws again), and reads the peer (`ReadPeer`). `draw` is what it carries from one to
the next, `Attempts` the number of draws (`ATTEMPTS` of `includes.h:14`, which is 5).

`fault` is one of `use_after_free`, `division_by_zero` (`rand() % 0` on an empty list), `null_pointer` (no draw found
an entry, and the caller takes the length of the NULL it gets) and `list_race` (a push or a walk without
`blocksAccess` overlaps with another access to the same list, `PushPending` and `WalkPending`).

What a client sends follows the client's code: a hello once and first, `ls` on the same connection, a
download connection only for a file the last `ls` reply named, for each block a request and then a report.

### ServerLifecycle

`main`, `WaitForExit`, `CleanUp` and one `Client` thread per connection. The handlers' work is left to `Registry`: a
handler returns or the thread leaves its loop, and in both cases the message has been read (`Receive`). `input` is
what `poll` and `recv` would find on a descriptor; `invalid` is the descriptor -1 of a failed `accept`, whose result
`main` does not test. `trash` is the thread `CleanUp` has popped, `joined` the threads it has joined. `late` is a
history variable: the threads that had not counted themselves when `CleanUp` last read the count. `KeptBusy` says that
a thread in its receive loop finds a message, so that its `poll` does not time out and it does not look at `end_sig`.

### Transfer, BlockByBlock

One `DownloadFile` with its threads, the `ServerSubThread` behind each connection, and the server as they see it. A
byte of the file is its position: the part file is right when place p holds p, and a place that was never written
holds `Hole`. `disk` is what the operating system has; `buffer` is the last `fwrite`, which stdio may still keep; a
kill writes any prefix of it and loses the rest (`Die`). The metadata file is read, emptied and written by a block
thread in three steps (`ReadMeta`, `OpenMeta`, `WriteMeta`), and between the last two it lists nothing: a kill there
leaves an empty file, or the beginning of a text, which lists nothing either. `sub` is the loop variable `i`, `left`
the sender's counter. Sizes are computed as in the code (`CeilDiv`), in unbounded integers. `Failures` says which
failures an instance has. `BlockByBlock` is the promise: blocks are stored one at a time, listed when they are stored,
and reported when they were listed. `kept` are the blocks listed before, while the file is rewritten (`Open`, `List`);
a kill (`Die`) takes at most one stored block, and what is in `kept`. `stored` is mapped to the blocks whose bytes the
process has written, and after a kill to those whose bytes are on disk.

### PeerProcess, Fifo

All threads of the client process with their exits and exit codes. The queue is the linked list of the code
with `head`, `tail` and `next`; `live` are its allocated elements; `trash`, a history variable, is the sequence
the pointers should form. `popTrash`'s unlink and its `free` outside the mutex are two actions. `malloc` in
`pushTrash` may fail at any time. `Fifo` is a queue that takes each item once.

### LinkedList

One list. In the two operations that run without a mutex every access to memory another thread can reach is a step:
`list_rpush` is `TestLen`, then `SetPrev`, `ReadTail`, `LinkLast`, `SetTail`, or for an empty list `SetFirst`,
`SetHead`, `ClearNext`, `ClearPrev`, and then `ReadLen`, `WriteLen`, since `++self->len` reads and writes; `list_at`
is `CheckIndex`, `NewIterator` and `Walk`. What a push does to its node before the node is in the list shares a step,
and so do accesses of a removal, which runs under the mutex and whose overlap with a push ends both properties. `use`
chooses between the two ways the server uses its lists: "guarded", every operation under the list's mutex, and
"peers", the list of a block's peers, where `AddPeerToBlock` pushes (`main.c:84`) and `GetPeerInfo` reads
(`jsonFunctions.c:255`) without it. A node is allocated once, so an access to a freed one shows; it ends the behaviour
(`fault`). `items`, `overlap` and `removed` are history variables. `list_rpop` and `list_destroy` are only used on
guarded lists and are one step each. The module is also the reason why `Registry` may stop at the fault `list_race`:
what may come after it is here.

### JsonValue, JsonTree, JsonText

`JsonValue` has the values and the lookup of a member. `JsonTree` is the heap that parson builds: a cell per value,
with the value that owns it and the number of times it was freed. A value that has an owner is not appended or set
a second time (`Append_value`, `Set_value`), removing a member puts the last one in its place (`Object_remove`).
`JsonText` writes a value as a sequence of tokens and reads the first value of a text back (`Serialize`,
`Parse_string`), or finds that there is none: an incomplete text has no value, and what follows a complete one is not
looked at; `Build` is what the parser puts on the heap. These three follow a value downwards, and no theorem can be
proved in a module that reaches them. So `Messages` and `LocalFiles` have the library as constant operators (`Text`,
`Value`; `Text`, `Parse`, `Built`) with an assumption on what it does (`JsonAssumption`); the MC modules extend
`JsonText`, the cfg files name its operators as the constants, and every run has TLC evaluate the assumption for
them.

### Messages

One connection of one of three kinds (`conn`): ClientThread's commands, a download's requests, a block's request.
`toServer` and `toClient` are what is under way; a read returns any prefix of it, at most a buffer. A token stands for
a byte and the buffer has `BufLen` of them. `message` is the buffer of `main.c:180` with what `malloc` left in it,
`counter` the full reads in it; the server appends a full read (`ReceiveFull`), takes any other for the end of a
message (`ReceiveLast`), parses, replies and starts over with fresh memory (`Reset`), which may be the old one. The
reply to a request is a peer, or the request itself when the block is not listed (`RequestReplies`, `main.c:115`); a
handler that fails sends none, except for the thanks, which go out before the loop ends (`LastReply`). The client
takes one read for the reply (`ReceiveReply`). `torn`, `early` and `cut` are history variables that record what the
stream did: a read ended inside a message, a command was sent before the hello message was handled, a reply was taken
in part. The properties say what holds in spite of everything else; each of the three is needed for them.
`FoundInOrder` needs `cut` on a download's connection only: a thread that took the rest of an earlier reply for its
own may send on top of a request that is not handled yet. That takes more messages than the run's three.

### LocalFiles

`regular`, `part` and `meta` are the files of each name; a file is the set of its blocks (`Some`) or `Whole`, and the
metadata is a text, which Ctrl+C in the middle of a write leaves cut off (`WriteMeta`). The hello message is made file
by file, in any order (`BeginHello`, `AnnounceFile`, `SendHello`), in `heap`. `ll` takes the directory entry by entry,
in any order (`ListEntry` with `AddMetaFile`, `AddPartFile`, `AddRegularFile`), and prints its sections (`PrintList`).
`create` is one action with the reply of the server as a choice; a download is `OpenPart`, `ResetMeta`, for each block
`ReceiveBlock` (its last bytes are written) and `ListBlock` (its thread lists it), the blocks in any order and any
number of them between the two (`arrived`), and `FinishDownload` whatever has arrived. A short `recv` in
`ReceiveBlock` leaves the block incomplete, and may spoil the next one, into which the bytes that follow are written;
it is listed all the same. `End` is Ctrl+C at any of these points, after which the client starts again; what stdio
still had in its buffer may be lost (`loose`). `excuse` is a history variable: why the metadata of a name may list
more than is there. `CopyIn` and `Delete` are the user at the directory. `Misread` says what `strncpy` without a
terminator (`ListLocalFiles.c:152`) may leave behind a name; the cfg gives it a name that is another file's.

## 3. What the runs check

| Run | Instance | What it shows |
|---|---|---|
| `registry_download` | a seeder, a downloader with its download connection, a bystander; one block | announced blocks stay findable (`AnnouncedFindable`); a block nobody has is listed only while its cleanup is on the way (`EmptyBlockIsTransient`); a listed peer has announced or reported the block, or the report of a client without an entry was booked to the last peer of the list (`HolderIsHonest`) |
| `registry_seeders` | three clients, two files, two blocks; two clients have metadata of the second file but no block of it | files point to listed blocks only (`FileBlocksLive`), listed blocks are in their files except on the way in or out (`ListedBlockInFile`), `isComplete` is right whenever `filesAccess` is free (`CompleteFlagRight`), a file without blocks was announced like that (`EmptyFileWasAnnounced`); hello and cleanup end unless the lock cycle closes (`HelloEnds`, `CleanupEnds`) |
| `lifecycle` | two connections | the count is exact (`CountRight`), `CleanUp` joins only threads past their use of `threadsAccess` (`JoinSafe`), each once (`JoinedOnce`), and leaves none behind that was counted in time (`NoneLeftBehind`); ended threads are joined (`EveryThreadJoined`), and q ends the server provided that from some time on no thread in its receive loop finds a message (`QuietShutdown`); threads whose handlers failed, and clients that were never accepted, do not keep it |
| `transfer` | 7 bytes, 2 blocks of two messages, the last one short; 2 peers; every failure but short reads | bytes are in place (`WrittenInPlace`), "ready" is printed exactly when all are stored (`ReadyIffStored`), a kill costs at most one listed block (`OneBlockAtRisk`), a thread waits for bytes that never come only from a peer that could not open the file, or where the division leaves a message empty (`SilenceExplained`), replies reach the thread that asked (`AnswerIsMine`); `KeepsPromise`: it implements `BlockByBlock`, so no block is reported before it was listed nor listed before it is stored, no update of the metadata is lost while the process lives, and a kill takes at most one stored block, and the list only if it comes while the metadata is rewritten; the download ends unless a thread kept the socket's mutex, a peer keeps silent, or undefined behaviour is met (`DownloadEnds`) |
| `peer` | three connections, `malloc` may fail in `pushTrash` | `IsFifo`: the queue implements `Fifo`; as long as every ended thread could queue its record there is one for every semaphore (`RecordThere`); records are freed once and after their threads (`FreedAfterUse`); ended threads are joined and freed (`EveryThreadReleased`) |
| `linked_list` | two threads, three nodes, two values; both uses | a list whose operations do not overlap is, forwards and backwards, the sequence of what was pushed and not removed, and leaks nothing (`IsSequence`; a guarded list has no overlap); overlapping pushes may lose a node, but as long as nothing is removed no bad pointer is followed and every walk ends (`PushesOnlyLose`) |
| `local_files` | two names, one the beginning of the other; commands on one of them; two blocks | the hello message says what the readable metadata files say, each file and block once (`HelloIsMetadata`); a JSON value has one owner and is freed exactly once (`ValuesOwned`); `ll` shows each name once and in its section, whatever the order of `readdir`, unless it misread a name (`ListedOnceAndRight`); metadata lists at most one block that is not there, the one that was in the stream's buffer (`MetadataHonest`). Three exceptions: the user deleted the file (its metadata stays, and lists every block of the missing file); a `recv` of the download was short (the spoiled blocks are listed); a download begun again has emptied the part file and not yet rewritten the metadata, or was ended there by Ctrl+C |
| `messages` | one connection of each kind, three messages, buffers of 7 tokens, a hello of 14 and one of 19 | as long as reads end where messages do and, for a download, replies are read whole, messages are found once and in order and neither side crashes (`FoundInOrder`), a reply is one to its request, a peer or the request sent back (`AnswerIsForRequest`), and requests are answered or the connection ends (`RequestAnswered`) |

Four runs end in a violation, each of something a comment of the code says. They are the findings:

| Run | Property | What happens |
|---|---|---|
| `registry_lockorder` | `CleanupCompletes` | `CheckBlocksList` keeps `blocksAccess` and waits for `filesAccess` (`list_functions.c:82`); `GetFiles` keeps `filesAccess` and waits for `blocksAccess` (`jsonFunctions.c:89`). One client's arrival and another's end stop the server. |
| `registry_dangling` | `DisconnectedIsInNoBlock` | A client that announced a block and downloads it again is in the block's list twice; `RemoveFromBlocks` removes one entry and the other dangles when the `peerT` is freed. |
| `registry_lost` | `OnlyEmptyBlocksRemoved` | `AddPeerToBlock` pushes without `blocksAccess`: the push may come between the test for an empty list and the removal, and a block with a peer is freed. |
| `transfer_short` | `WrittenInPlace` | A sub-block is received with one `recv` and its place is computed from the number of `recv`s. When `recv` returns less, what follows is written past its place. |

Other things that came up while modelling, not runs of their own because the property would restate one line of the
code, or because a passing property states them as its exception: a peer that is still downloading a file is named for
the blocks it has reported, but has them under the `.part` name only and neither sends nor closes the connection, so
that the downloader waits for ever (`server_thread.c:160-170`; `SilentPeer` in `DownloadEnds`); a hello message of a
multiple of 1200 bytes is not handled until a command arrives, which is then swallowed (`main.c:201`; `HelloEndsShort`
in `RequestAnswered`); a command that joins the hello message in the stream is lost (`early`), and a message that
arrives in two parts is parsed as two (`torn`), the second of which crashes the server in `GetCommand`'s `strcpy` of
NULL; a reply longer than one read is taken in part and its rest for the next reply (`client_thread.c:146`; `cut`); a
client that keeps sending keeps the server from seeing `end_sig` (`main.c:191`; this is why `QuietShutdown` has a
premise); the client's `exit` command ends `ClientThread` only, and `main` then waits for `ServerThread`
(`p2p-client/main.c:51`); a failing `accept` ends `ServerThread` with 0, where `doc/clientExitCodes:11` names code 23;
the `peerT` of a download connection has an uninitialised `listeningSocket` (`main.c:185`), so that its cleanup can
take another client of the same address out of the peers list (the premise `EntryLost` of `HolderIsHonest`); the
metadata of a deleted file stays, and the next hello message announces every block of it; the metadata file is
truncated before it is written (`parson.c:1582`), so that Ctrl+C at that moment loses the list of a download (`kept`
in `BlockByBlock`).

### Bounds, and why they are enough

- **Connections.** Each race of the registry involves at most three threads: the one that keeps a pointer or a
  mutex, the one that changes the list under it, and one that brings the block or the peer back. The instances
  have three or four connections. A connection lives once, a hello is sent once: `peerT`s are not recycled, so a
  reused address is modelled by the port it may leave behind (`StalePorts`).
- **Blocks and files.** Two blocks make a file partial, complete and empty again; two files let a block of one
  file be confused with one of the other. `CompleteWith` and `Emptied` depend on no other distinction. The download
  instance has one block so that four connections fit.
- **Draws.** `Attempts` is 2, so that a draw is repeated, where the code has 5. A draw fails only when an entry was
  removed since the length was read, and the instance has too few peers of one block for as many failures as there are
  draws; `null_pointer` is not reached. The proofs are for any `Attempts`.
- **Life cycle.** Two connections give the case that matters most, `CleanUp` popping the record of another thread
  than the one that posted; the proofs cover any number.
- **Transfer.** Two blocks of two messages with a last block that is one byte short reach every branch of the
  receiver's and the sender's loops; no failure involves more than the thread that fails and one that waits. A third
  block does not fit with all failures at once.
- **PeerProcess.** Three connections give a queue with a first, a middle and a last element.
- **LinkedList.** A race of two pushes needs two threads; three nodes give one with both neighbours to remove, and a
  second push after two that overlapped.
- **LocalFiles.** Two names, so that one can be misread as the other, and one part of the hello message stand beside
  another; two blocks of a file, so that one can be stored and the other not. The user's commands go to one name.
- **Messages.** Messages shorter than a buffer, of exactly two buffers and of two buffers and a part; a buffer of 7
  tokens holds each command and each reply, as 1200 and 512 bytes do. Three messages give a hello message and two
  commands, or a request, its report and the next request.

Bounds are `MaxSent` (messages of a connection) and `MaxBlocks` (blocks of a file); everything else is bounded by
the constants that name the instances.

`CHECK_DEADLOCK FALSE` is set everywhere but in `local_files`: processes end, clients may leave for good, and the
waits that last are described by properties instead. No cfg replaces a definition of a module; symmetry is used in
`linked_list`, which has no liveness property and whose nodes, values and threads are interchangeable.

### Fairness

Weak fairness of what threads do on their own, and nothing of users, clients, failures or the other end:

- `Registry!FairSpec`: `Serve(c)` for each thread. A mutex is obtained once it stays free for as long as it
  takes; `pthread_mutex_lock` promises no more. `Client(c)`, what the remote client makes happen, has none.
- `ServerLifecycle!FairSpec`: `main`, `CleanUp`, `WaitForExit` (except the key) and each `Client` thread.
- `Transfer!FairSpec`: `DownloadFile`, the block threads, the serving threads and the server. Fairness of a
  `ServerSubThread` and of the server is the fairness of this repository's own threads on a machine that is up;
  their failures are actions without fairness.
- `PeerProcess!FairSpec`: all threads, except that a connection may be served for ever (`Serve`), accept need not
  fail, and the user need not type `exit`.
- `Messages!FairSpec`: the network delivers what is under way and both sides keep calling `recv` (`ReceiveFull`,
  `ReceiveLast`, `ServeBlock`, `ReceiveReply`, `ReceiveEnd`); nothing of how much a read returns, of what the client
  sends, or of memory.
- `LinkedList` and `LocalFiles` have safety properties only.

## 4. What is proved

The proofs hold for every value of the constants that satisfies the assumptions of the module: any sets of
connections, files and blocks, any announcements, any addresses and ports in `Registry` (`ConnsAssumption`,
`DataAssumption`, and `HelloAssumption`: a client announces the file of each block it announces, since it reads both
from the same metadata; `AddressAssumption`: a client's download connections come from the address of its main
connection, since one process makes both to the same server); any finite set of connections in `ServerLifecycle` and
`PeerProcess`; in `Transfer` any size of the file, number of blocks, size of a message, set of peers and set of
failures; in `LinkedList` any finite set of nodes smaller than the largest length, any values and threads; in
`Messages` any buffer of two bytes or more, any hello messages that say they are one (`HelloAssumption`) and any
number of messages; in `LocalFiles` any finite set of names, any number of blocks and whatever `strncpy` leaves behind
a name. `JsonAssumption` of these two says of the library only that it reads each text it has written as the value it
was made from (in `LocalFiles` also with the same cells in the same places), and makes no value of a beginning of such
a text; TLC finds that true of `JsonText`.

| Module | Theorems | Argument |
|---|---|---|
| `RegistryProofs` | `TypeCorrect`, `FileBlocksStayLive`, `AnnouncedStaysFindable`, `CompleteFlagStaysRight`, `EmptyBlocksAreTransient`, `ListedBlocksAreInFiles`, `EmptyFilesWereAnnounced`, `HoldersAreHonest` | below |
| `ServerLifecycleProofs` | `CountStaysRight`, `TrashAlwaysFound`, `JoinStaysSafe`, `NoDoubleJoin`, `NoneIsLeftBehind` | below |
| `PeerProcessProofs` | `TypeCorrect`, `QueueStaysLinked`, `RecordIsThere`, `NothingFreedInUse`, `QueueIsFifo` (refinement) | below |
| `TransferProofs` | `Control`, `TypeCorrect`, `AnswersAreMine` | below |
| `LinkedListProofs` | `TypeCorrect`, `ListIsSequence`, `OverlapOnlyLoses` | below |
| `TransferBytesProofs` | `ReadyMeansStored`, and without short sends `EveryByteInItsPlace`, `OneListedBlockAtRisk`, `SilenceIsExplained`, `DownloadKeepsPromise` (refinement) | below |
| `MessagesProofs` | `TypeCorrect`, `MessagesAreFound`, `AnswersMatch` | below |
| `LocalFilesProofs` | `TypeCorrect`, `ListIsRight`, `MetadataIsHonest` | below |

**Registry.** `FileBlocksLive` is not inductive: a block may be freed while a file has it, for all the formula
says. What the code does is to take the block out of its file before it frees it, under `blocksAccess`
throughout. The strengthening says so: `LockOwners` (each mutex is held exactly in its critical sections),
`VictimIsFree` (the block `CheckBlocksList` is about to free is listed, no serving peer announced it, and once
`RemoveFromParentFile` has run no file has it), `FileListsWellFormed` (files have listed blocks of their own, and
the flag is right), `PointersTracked` (a pointer not marked gone is to a listed block) and `AnnouncedFindable`
itself. `AnnouncedFindable` needs `VictimIsFree` for the step that frees a block, and `VictimIsFree` needs
`AnnouncedFindable` for the step that chooses an empty one: they go by one induction. The three properties about
transient states (`EmptyBlockIsTransient`, `ListedBlockInFile`, `EmptyFileWasAnnounced`) are then inductive
relative to that invariant.

`HolderIsHonest` is about the other list, `globalPeersList`, and about the past: `AddPeerToBlock` finds the peer
that reported a block by address and port, and takes the last entry when it finds none. `HoldersInv` shows that it
finds none only when an entry was lost: a download follows an `ls` reply and so a hello message
(`DownloadersStarted`), the hello message has put an entry with the client's port into the list
(`EntriesHavePort`), and only a connection that closes with that address and port can have taken it out
(`EntryStays`); what the thread has found stays right until its push (`InHand`, `FoundHonest`), although clients come
and go in between.

**ServerLifecycle.** `LifecycleInv` adds `Records` (a record in `threadList` or in `CleanUp`'s hands is of a
thread that has pushed it, once, and has not been joined), `SemaphoreLag` (`semClean` lags behind the list by the
threads between push and post and by the record `CleanUp` is about to take) and `LateOnly`. `TrashFound` follows
from the lag, whatever the order in which records are pushed and popped; `CountRight` is carried by counting sets,
with the library's theorems on cardinality.

**PeerProcess.** `PeerInv` has the same lag between `garbageSem` and the queue, `Linked` (the pointers form the
sequence `trash`) and `Elements` (an element is in one place: not yet linked, queued, or the collector's). The
refinement maps each step of `Spec` to `Put`, `Take` or a stutter of `Fifo`; a failing `malloc` is counted by
`Unqueued` in the lag, so that it holds with and without memory.

**Transfer.** `AnswerIsMine` and `TypeOK` do not stand alone: `sub` stays in its range because the loop is left at the
last sub-block, and an answer is the reader's because nobody else may have a message on the socket. `ControlInv` says
so in five parts: `Creation` (which threads there are; nothing is buffered when the file is renamed), `Conversation`
(the socket carries one message at a time, that of the owner of its mutex), `Listing` (a block is listed by its thread
and with the metadata as they are, and reported after that), `StreamOwner` (the stream stands where the owner of its
mutex has put it) and `Counting` (how `sub`, `serving` and `chunk` go with `pc`). It holds for every set of
`Failures`. `BytesInv` adds the bytes: `InOrder` (what a thread holds, what is on its connection and what its peer has
left to send are consecutive bytes of its block, in whole messages except for the last), `Written` (as long as the
process lives every byte before a thread's place is in the file), `Buffered`, `OnDisk`, and that after a kill the
damaged blocks are at most one: what is lost was in the buffer, whose bytes are of one block (`Lost`). Its arithmetic
is about any `Size`, `NumOfBlocks` and `MaxMessage`: the blocks are disjoint and cover the file, also when the last
ones are short or empty (`BlocksApart`, `BlocksCover`, `LastSubEnds`). From it follow that the file is right
(`WrittenInPlace`), that a listed block is stored (`ListedStored`), that what stdio buffers is of one block
(`OneBlockAtRisk`), that the sender and the receiver count the same messages (`SilenceExplained`), and that each step
is a step of `BlockByBlock` or a stutter (`KeepsPromise`): `Die` maps to the `Die` of `BlockByBlock`, since what
leaves `stored` is in the buffer, `OpenMeta` and `WriteMeta` to `Open` and `List`, since the thread that has the
metadata's mutex has in `copy` what was listed. These take `"short" \notin Failures` as a hypothesis, in the statement
of the theorem: with short reads the first of them is false, as the run `transfer_short` shows, and the others rest on
it. `ReadyIffStored` holds with short reads as well, and is proved without the hypothesis.

**LinkedList.** `IsSequence` speaks of the moments between operations; `ListInv` says what the pointers are in the
middle of one, for each step of a push how far it is. `Exclusive` is the mutual exclusion: by the mutex for a guarded
list, by definition of `overlap` for the other. `Shape` says how far the one writer is, pointer by pointer: the list
is `items`, or `items` with the node of a push at its end, or without the node of a removal, and which of `next`,
`prev`, `head`, `tail` and `len` agree with it already. Pointers that agree with their neighbours form a list from
head to tail (`ForwardWalk`, `BackwardWalk`); that the walk `After` takes one step after the other (`AfterSteps`)
follows by induction over the natural numbers, which needs no operator as a parameter when it is stated for a set
(`Naturals`). `PushesOnlyLose` cannot rest on a sequence, since overlapping pushes lose nodes. `PushInv` holds what
they leave: every pointer is to an allocated node, whoever reads `tail` finds one and keeps it in `cursor`, and there
is an order (`InOrder`, the one in which the nodes became the tail) that `next` follows, however many pushes are under
way. So a walk never meets a node twice and ends within as many steps as there are nodes (`WalkEnds`), for any number
of threads; the run has two.

**Messages.** `FoundInOrder` and `AnswerIsForRequest` look at what was taken for messages and replies; what makes it
right is where the bytes are that were not. `Framed` says it of the server: the full reads in the buffer, followed by
what is under way, are the messages from some message on, byte by byte (`FramedAt`, with `EndOf`, the places where
messages end on the stream), although the memory behind them holds anything. A read that does not fill the buffer and
is not torn then ends where a message does; the buffer begins with a message, the library makes no value of less than
it and does not look beyond, so it is that message that is handled. `HelloFirst` keeps a command from being put behind
a hello message that fills its last read. `Turn` says that client and server take turns while replies are read whole,
which is what makes the message in the buffer one only, and `Answered` counts requests and replies. The case `cut` of
`FoundInOrder` was found by the proof: `Framed` allows several messages in the buffer, of which only the first is
handled, and on a download's connection TLC shows how they get there once `MaxSent` is 6 (the run's three messages do
not show it). The premise was added, and nothing else is claimed of such a download.

**LocalFiles.** Three theorems on two invariants. `ListInv` is for `ll`: while it reads the directory the records it has
are one for each name it has read something of, and each says what has been read of its name so far (`Recorded`,
`Fits`), so that with the last entry they say what is there. `HonestInv` is for the metadata: a download's text was
written whole, and the blocks it lists and those still to be listed are in its part file unless a `recv` was short
(`Written`), what the stream's buffer holds is one block (`Buffered`),
a file with missing blocks has metadata, so that `create` makes none for it (`Partial`), and with that no name has more
than one block listed that is not there, or `excuse` remembers one of the exceptions (`Bounded`). The induction is easy
once it is known which blocks a text lists. That is the larger part of the proof: metadata is a heap of cells, made by
`Set_atom`, `Set_array` and `Append_value`, read back from a text, extended and written again. `MetaStructure` says
where its cells are (`IsMeta`), `MetaAppend` that a block appended is the metadata with one index more, and
`ListedOfMeta` that the value read from its text lists these indexes. Their inductions are over the number of blocks and
are stated for sets of natural numbers, as for `LinkedList`; `MetaValues` shows that `ValueOf`, which the module
defines by a recursion that follows `kids`, has a solution for such a heap, by its three levels.

`RegistryInv`, `HoldersInv`, `LifecycleInv`, `PeerInv`, `ControlInv`, `BytesInv`, `ListInv`, `PushInv`, `MessagesInv`
and `HonestInv` were checked with TLC on the instances of the runs before they were proved (`PushInv` also with three
threads, as far as some millions of states; those of `Transfer` also with a file of 5 bytes in 4 blocks, whose last
block is empty); as they are proved, the runs no longer repeat them, nor what is only a part of them (`TrashFound`,
`Linked`).

**Only model-checked:** liveness, which is out of the prover's reach (`CleanupEnds`, `HelloEnds`, `EveryThreadJoined`,
`QuietShutdown`, `DownloadEnds`, `EveryThreadReleased`, `RequestAnswered`), and of the safety properties
`HelloIsMetadata` and `ValuesOwned` of `LocalFiles`. These two are about a heap of which nothing is known but that it
is a forest: copying a block builds what was read on top of a heap of any shape, and freeing follows a value down to
its last descendant. What such a recursion leaves behind is an induction over the data, not over a number, and an
assumption on `Built` for all heaps is none that TLC could evaluate. `JsonText` is checked only as far as
`JsonAssumption` and the two runs go.

## 5. What is not modelled, and why

- **Characters.** A token stands for a byte, so a message may be torn between tokens but not inside one; parson's
  escapes, the digits of numbers and the layout of pretty texts are left out.
- **Requests of 512 bytes and more** to a `ServerSubThread`: no client of the repository sends one
  (`DownloadFile.c:86` allocates 256), so the inner loop at `server_thread.c:130-142` is never entered.
- **What follows a request that is sent back** (`main.c:115`): `strlen` takes what the buffer holds up to a NUL, perhaps
  beyond the request. The client crashes at that reply anyway.
- **Accesses of a removal** in `LinkedList`: several share a step, see there.
- **Overflow.** Places are computed in unbounded integers; the code has `int` for the size of a file
  (`CreateMetaFile.c:15`) and for offsets (`server_thread.c:174`, `DownloadFile.c:110`). Below 2 GiB they agree.
- **Out of memory** in the lists, in parson and in a download, and a download whose socket or files cannot be opened at
  the start: early returns before anything is shared. `pushTrash`'s `malloc` and the server's `realloc` may fail.
- **Data written over holes.** `fputc(EOF)` fills the part file with 0xFF; a place that was never written is
  `Hole`, different from every byte, although a byte of the real file may be 0xFF.
- **Names.** What a user may type beyond the names of files (`create` with a negative number, names with dots), and
  directories with files that are not the program's (metadata whose name inside is another's). The directory
  that `FillListWithFiles` opens (`ListLocalFiles.c:41`) is never closed; open directories are not counted.
- **`list_lpush`, `list_lpop`** and the functions of parson that nobody calls.
- **`getch`, `sha256sum`**, the headers and the build files: terminal I/O, an external command, declarations.

## 6. Plan

| # | Module | Composes | Abstract specification and theorems | State |
|---|---|---|---|---|
| 1 | `Registry` | connections and handlers | safety of lists and flags proved | done |
| 2 | `ServerLifecycle` | | counting, joining, hand-over proved | done |
| 3 | `Transfer` | `DownloadFile`, `ServerSubThread`, the server's replies | `BlockByBlock`; safety and refinement proved | done |
| 4 | `PeerProcess` | `ServerThread`, collector, queue | `Fifo`; safety and refinement proved | done |
| 5 | `LocalFiles` | the directory, metadata, `create`, `download`, `ll` and hello, on `JsonTree` | the hello message and the sections of `ll` against reference definitions; `ll` and the metadata proved | done |
| 6 | `LinkedList` | `list.c` and its iterators | a sequence, and what overlapping pushes leave of it; safety proved | done |
| 7 | `Messages` | the two ends of a connection, on `JsonText` | messages received are messages sent; safety proved | done |
| 8 | sizes, counts and offsets | in `Transfer` | blocks partition the file (`BlocksApart`, `BlocksCover`), lemmas of `TransferBytesProofs` | done |
| 9 | `Swarm` | `Registry`, `Transfer` and the commands of `ClientThread` | a block that is reported can be had from a peer that is named | not begun |

## 7. Running it

In this directory:

    tlc -workers 2 -config MCRegistry_seeders.cfg MCRegistry.tla
    tlapm RegistryProofs.tla

Each passing run takes from a few seconds to about two minutes on two cores; the proofs take from half
a minute (`ServerLifecycleProofs`) to some minutes (`RegistryProofs`).
