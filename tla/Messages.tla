------------------------------- MODULE Messages -------------------------------
(***************************************************************************)
(* How messages are put on a connection and found in it again.  A socket   *)
(* carries a stream: recv returns what has arrived, at most the size of    *)
(* its buffer, so a message may come in pieces and two messages may come   *)
(* at once.  The receivers take a read that does not fill the buffer for   *)
(* the end of a message.                                                   *)
(*                                                                         *)
(* There is one connection, of one of three kinds:                         *)
(*   "commands"  ClientThread and its Client thread of the server: a hello *)
(*               message without a reply, then commands with one each;     *)
(*   "download"  the block threads of DownloadFile and their Client        *)
(*               thread, one request outstanding at a time;                *)
(*   "block"     one DownloadBlock and a ServerSubThread of a peer: one    *)
(*               request.                                                  *)
(*                                                                         *)
(* Texts are sequences of tokens, and a token stands for a byte.  The JSON *)
(* library is a parameter; JsonText is parson.  Memory from malloc holds   *)
(* junk, or what was there before it was freed.  What the handlers do to   *)
(* the lists is in Registry, what a block transfer does with its bytes in  *)
(* Transfer.                                                               *)
(***************************************************************************)
EXTENDS JsonValue

CONSTANTS
  BufLen,   \* DEFAULT_BUFLEN: 1200 in the server, 512 in the client
  Hellos,   \* the hello messages, as JSON values
  MaxSent,  \* bound: messages sent on the connection
  Text(_),  \* the text of a value
  Value(_)  \* the value of a text, or NoValue if the text is none, is incomplete or has more behind it

ASSUME MessagesAssumption == BufLen \in Nat /\ BufLen > 1 /\ MaxSent \in Nat \ {0}

VARIABLES
  conn,               \* the kind of the connection
  hello,              \* the client's hello message
  toServer, toClient, \* the two directions of the stream
  client,             \* "ready" to send, "waiting" for a reply, "closed", "stopped", "crashed"
  sent,               \* number of messages sent
  response,           \* the memory of the client's last reply
  answers,            \* the values the client has taken for its replies (history)
  server,             \* "serving", "closed", "left" (ended, the socket open), "crashed"
  message,            \* the buffer the message is put together in
  counter,            \* full reads in it
  handled,            \* the values taken for messages (history)
  torn,               \* a read that did not fill the buffer ended inside a message (history)
  early,              \* a command was sent before the hello message was handled (history)
  cut                 \* the client read a part of a reply (history)

clientVars == <<client, sent, response, answers, cut, early>>
serverVars == <<server, message, counter, handled, torn>>
vars == <<conn, hello, toServer, toClient, clientVars, serverVars>>

(* The messages *)

\* Of their members only the one that the receiver looks at first.
Command(name) == Object(<< <<"command", String(name)>> >>)
FileList     == Command("fileList")
Request      == Command("download")
Success      == Command("success")
BlockRequest == Object(<< <<"parentFileName", String("f")>> >>)

\* The k-th message of the connection.
Sent(k) ==
  CASE conn = "commands" -> IF k = 1 THEN hello ELSE FileList
    [] conn = "download" -> IF k % 2 = 1 THEN Request ELSE Success
    [] conn = "block"    -> BlockRequest

\* json_parse_string: the value that the text begins with, whatever follows it.
Parse(text) ==
  LET starts == {SubSeq(text, 1, k) : k \in DOMAIN text}
      whole  == {r \in {[length |-> Len(start), value |-> Value(start)] : start \in starts} : r.value # NoValue}
  IN  IF whole = {} THEN NoValue ELSE (CHOOSE r \in whole : \A other \in whole : r.length <= other.length).value

\* What the handlers reply; the number tells one list of files from another.
FilesMessage(version) == Object(<< <<"files", Array(<<Number(version)>>)>> >>)
PeerInfo == Object(<< <<"IP", String("ip")>>, <<"socket", Number(1)>> >>)
ThankYou == Command("thank you")
OutOfMemory == Object(<< <<"error", String("Message too large!")>> >>)
\* The bytes of a block are no JSON text.
BlockBytes == << <<"byte", 1>>, <<"byte", 2>> >>
\* A request is answered with a peer, and with itself when it is for a block that is not listed.
RequestReplies == {PeerInfo, Request}
\* The replies that the k-th message may get.
RepliesTo(k) ==
  CASE conn = "commands" -> {FilesMessage(k)}
    [] conn = "download" -> IF k % 2 = 1 THEN RequestReplies ELSE {ThankYou}
    [] conn = "block"    -> {}

\* A hello message says that it is one (GenerateC2SHelloMessage).
ASSUME HelloAssumption == \A h \in Hellos : StringOf(h, "command") = "clientFilesAndBlocks"

\* Every message of a connection.
Known == Hellos \cup {FileList, Request, Success, BlockRequest, PeerInfo, ThankYou, OutOfMemory}
                \cup {FilesMessage(k) : k \in 1..MaxSent}

\* The library reads what it has written, and makes no value of a part of that.
ASSUME JsonAssumption ==
  \A value \in Known :
    LET text == Text(value)
    IN  /\ text # <<>> /\ text \in Seq({text[i] : i \in DOMAIN text})
        /\ Value(text) = value
        /\ \A k \in 1..(Len(text) - 1) : Value(SubSeq(text, 1, k)) = NoValue

(* Memory *)

Junk == <<"junk">>
Blank(n) == [i \in 1..n |-> Junk]
\* malloc(n) after free(old).
Malloc(n, old) == {Blank(n)} \cup (IF Len(old) >= n THEN {SubSeq(old, 1, n)} ELSE {})
\* memcpy(memory + at, bytes, strlen).
Copied(memory, at, bytes) ==
  SubSeq(memory, 1, at) \o bytes \o SubSeq(memory, at + Len(bytes) + 1, Len(memory))

\* What recv with a buffer of n bytes may return of a stream.
Reads(stream, n) == {SubSeq(stream, 1, k) : k \in 1..(IF Len(stream) < n THEN Len(stream) ELSE n)}
Rest(stream, read) == SubSeq(stream, Len(read) + 1, Len(stream))

\* The k-th message ends at place EndOf[k] of the stream to the server.
EndOf[k \in 0..MaxSent] == IF k = 0 THEN 0 ELSE EndOf[k - 1] + Len(Text(Sent(k)))
\* A read that does not fill the buffer ends inside a message.
Torn(read) == EndOf[sent] - Len(toServer) + Len(read) \notin {EndOf[k] : k \in 1..sent}

Init ==
  /\ conn \in {"commands", "download", "block"} /\ hello \in Hellos
  /\ toServer = <<>> /\ toClient = <<>>
  /\ client = "ready" /\ sent = 0 /\ response = <<>> /\ answers = <<>>
  /\ server = "serving" /\ message = Blank(BufLen) /\ counter = 0 /\ handled = <<>>
  /\ torn = FALSE /\ early = FALSE /\ cut = FALSE

(* The client *)

NeedsReply(k) == ~ (conn = "commands" /\ k = 1)

\* A block is asked for once.
MaySend == sent < (IF conn = "block" THEN 1 ELSE MaxSent)

\* One send; ClientThread sends its hello and does not wait.
Send ==
  /\ client = "ready" /\ MaySend /\ server = "serving"
  /\ sent' = sent + 1
  /\ toServer' = toServer \o Text(Sent(sent'))
  /\ client' = IF NeedsReply(sent') THEN "waiting" ELSE "ready"
  /\ early' = (early \/ (conn = "commands" /\ sent' > 1 /\ handled = <<>>))
  /\ UNCHANGED <<conn, hello, toClient, response, answers, cut, serverVars>>

\* A send to a server that is gone: the reset is noticed by the recv, or SIGPIPE ends the program.
SendToNobody ==
  /\ client = "ready" /\ MaySend /\ server \in {"closed", "crashed"}
  /\ sent' = sent + 1
  /\ client' \in {"waiting", "crashed"}
  /\ UNCHANGED <<conn, hello, toServer, toClient, response, answers, cut, early, serverVars>>

\* recv may also fail after a reset; the client only tests for 0.
Replied == Reads(toClient, Len(toClient)) \cup (IF server \in {"closed", "crashed"} THEN {<<>>} ELSE {})

\* One recv takes the reply; what the text holds beyond the bytes read is what the memory held.
\* A command without "files" lists nothing, inet_addr of a missing "IP" crashes, a block is taken as it is.
ReceiveReply ==
  /\ client = "waiting"
  /\ \E read \in Replied, old \in {<<>>, response} :
       \E text \in {read \o Rest(old, read)} : \E value \in {Parse(text)} :
         /\ response' = text
         /\ toClient' = Rest(toClient, read)
         /\ cut' = (cut \/ (conn # "block" /\ toClient' # <<>>))
         /\ answers' = Append(answers, value)
         /\ client' = IF conn = "download" /\ sent % 2 = 1 /\ StringOf(value, "IP") = NoString
                      THEN "crashed" ELSE "ready"
  /\ UNCHANGED <<conn, hello, toServer, sent, early, serverVars>>

\* recv returns 0.  A command ends; a thread of a download ends, and no other gets the socket's mutex.
ReceiveEnd ==
  /\ client = "waiting" /\ toClient = <<>> /\ server \in {"closed", "crashed"}
  /\ client' = IF conn = "commands" THEN "ready" ELSE "stopped"
  /\ UNCHANGED <<conn, hello, toServer, toClient, sent, response, answers, cut, early, serverVars>>

Close ==
  /\ client = "ready" /\ sent > 0
  /\ client' = "closed"
  /\ UNCHANGED <<conn, hello, toServer, toClient, sent, response, answers, cut, early, serverVars>>

(* Client of the central server *)

\* A read that fills the buffer: there is more.
ReceiveFull ==
  /\ conn # "block" /\ server = "serving" /\ Len(toServer) >= BufLen
  /\ LET read == SubSeq(toServer, 1, BufLen)
     IN  /\ toServer' = Rest(toServer, read)
         /\ message' = Copied(message, counter * BufLen, read) \o Blank(BufLen)
         /\ counter' = counter + 1
  /\ UNCHANGED <<conn, hello, toClient, clientVars, server, handled, torn>>

\* The same, and realloc fails.
ReceiveFullOutOfMemory ==
  /\ conn # "block" /\ server = "serving" /\ Len(toServer) >= BufLen
  /\ toServer' = Rest(toServer, SubSeq(toServer, 1, BufLen))
  /\ toClient' = toClient \o Text(OutOfMemory)
  /\ server' = "closed"
  /\ UNCHANGED <<conn, hello, clientVars, message, counter, handled, torn>>

\* strcpy of it crashes when the text is no object with a command.
GetCommand(value) == StringOf(value, "command")

\* Variant: the hello message gets a reply too.
Replies_toHello(value) ==
  LET command == GetCommand(value)
  IN  CASE command = "fileList" -> {Text(FilesMessage(Len(handled) + 1))}
        [] command = "download" -> {Text(reply) : reply \in RequestReplies}
        [] OTHER -> {Text(ThankYou)}

\* Variant: no thanks for a success.
Replies_notToSuccess(value) ==
  LET command == GetCommand(value)
  IN  CASE command = "fileList" -> {Text(FilesMessage(Len(handled) + 1))}
        [] command = "download" -> {Text(reply) : reply \in RequestReplies}
        [] OTHER -> {<<>>}

\* The replies to a command.  Behind a request that is sent back comes what the memory holds up to
\* a NUL, which is left out: the client crashes at that reply anyway.
Replies(value) ==
  LET command == GetCommand(value)
  IN  CASE command = "clientFilesAndBlocks" -> {<<>>}
        [] command = "fileList" -> {Text(FilesMessage(Len(handled) + 1))}
        [] command = "download" -> {Text(reply) : reply \in RequestReplies}
        [] command = "success"  -> {Text(ThankYou)}
        [] OTHER -> {}

\* A handler that fails sends nothing, but the thanks are sent before the loop ends.
LastReply(value) == IF GetCommand(value) = "success" THEN Text(ThankYou) ELSE <<>>

\* Variant: the count of full reads is kept.
Reset_keepsCounter(memory) == counter' = counter /\ message' \in Malloc(BufLen, memory)

\* Variant: so is the buffer.
Reset_keepsAll(memory) == counter' = counter /\ message' = memory

\* counter = 0; free(message); message = malloc(DEFAULT_BUFLEN).
Reset(memory) == counter' = 0 /\ message' \in Malloc(BufLen, memory)

\* What the handling of a command leaves in the buffer: the thanks are written there.
Left(memory, value) ==
  IF GetCommand(value) = "success" THEN Copied(memory, 0, Text(ThankYou)) ELSE memory

\* A read that does not fill the buffer: the message is complete.
ReceiveLast ==
  /\ conn # "block" /\ server = "serving"
  /\ \E read \in Reads(toServer, BufLen - 1) :
       \E memory \in {Copied(message, counter * BufLen, read)} : \E value \in {Parse(memory)} :
         /\ toServer' = Rest(toServer, read)
         /\ torn' = (torn \/ Torn(read))
         /\ IF GetCommand(value) = NoString
            THEN server' = "crashed" /\ UNCHANGED <<toClient, message, counter, handled>>
            ELSE /\ handled' = Append(handled, value)
                 /\ Reset(Left(memory, value))
                 /\ \/ \E reply \in Replies(value) : toClient' = toClient \o reply /\ server' = "serving"
                    \/ server' = "closed" /\ toClient' = toClient \o LastReply(value)
  /\ UNCHANGED <<conn, hello, clientVars>>

\* recv returns 0: the client has closed.  ServerSubThread ends without closing.
ReceiveNothing ==
  /\ server = "serving" /\ toServer = <<>> /\ client \in {"closed", "crashed"}
  /\ server' = IF conn = "block" THEN "left" ELSE "closed"
  /\ UNCHANGED <<conn, hello, toServer, toClient, clientVars, message, counter, handled, torn>>

(* ServerSubThread of a peer *)

\* strlen of the name crashes when the text has none.
getBlockInfo(value) == StringOf(value, "parentFileName")

\* A request, which is shorter than the buffer; then the block is sent, or its file cannot be
\* opened.  client_message is freed, and what comes next is copied into freed memory.
ServeBlock ==
  /\ conn = "block" /\ server = "serving"
  /\ \E read \in Reads(toServer, BufLen - 1) :
       \E memory \in {Copied(message, 0, read)} : \E value \in {Parse(memory)} :
         /\ toServer' = Rest(toServer, read)
         /\ torn' = (torn \/ Torn(read))
         /\ IF handled # <<>> \/ getBlockInfo(value) = NoString
            THEN server' = "crashed" /\ UNCHANGED <<toClient, message, handled>>
            ELSE /\ handled' = Append(handled, value)
                 /\ message' = memory
                 /\ \/ toClient' = toClient \o BlockBytes /\ UNCHANGED server
                    \/ server' = "left" /\ UNCHANGED toClient
  /\ UNCHANGED <<conn, hello, clientVars, counter>>

Next == \/ Send \/ SendToNobody \/ ReceiveReply \/ ReceiveEnd \/ Close
        \/ ReceiveFull \/ ReceiveFullOutOfMemory \/ ReceiveLast \/ ReceiveNothing \/ ServeBlock

Spec == Init /\ [][Next]_vars
\* The network delivers, and both sides keep calling recv.
FairSpec == Spec /\ WF_vars(ReceiveFull \/ ReceiveLast \/ ServeBlock)
                 /\ WF_vars(ReceiveReply) /\ WF_vars(ReceiveEnd)

(* Properties *)

\* The type invariant: the program counters, and the lengths of the buffer and of the history.
TypeOK ==
  /\ client \in {"ready", "waiting", "closed", "stopped", "crashed"}
  /\ server \in {"serving", "closed", "left", "crashed"}
  /\ sent \in 0..MaxSent /\ Len(message) = BufLen * (counter + 1)
  /\ Len(answers) <= sent

\* A hello message that fills the last read does not end for the server (main.c:200).
HelloEndsShort == conn # "commands" \/ Len(Text(hello)) % BufLen # 0

\* Nothing was read in pieces that look like messages, and no command was sent on top of the hello.
Orderly == ~torn /\ ~early /\ HelloEndsShort

\* As long as the stream is read orderly the framing of main.c:201-223 and server_thread.c:130-144
\* finds the messages: each is handled once and in order, none is found that was not sent, and
\* the server meets no message without the members it needs and no memory it has freed.  A thread of a
\* download must also have read its replies whole: it may take the rest of one for the next, and send
\* another request on top of one that is not handled yet.
FoundInOrder ==
  Orderly /\ (cut => conn = "commands") =>
    /\ server # "crashed"
    /\ Len(handled) <= sent
    /\ \A k \in DOMAIN handled : handled[k] = Sent(k)

\* A client that has read every reply whole (client_thread.c:146, DownloadFile.c:43) has a reply
\* to each of its requests, and not the one to an earlier request.
AnswerIsForRequest ==
  Orderly /\ ~cut /\ server = "serving" /\ conn # "block" =>
    \A i \in DOMAIN answers : answers[i] \in RepliesTo(IF conn = "commands" THEN i + 1 ELSE i)

\* A request is answered, or its connection ends, unless a read was torn, a command followed the
\* hello too soon, the hello fills its last read, or a peer has left the socket open.
RequestAnswered == client = "waiting" ~> client # "waiting" \/ ~Orderly \/ server = "left"
=============================================================================
