------------------------------ MODULE TcpServer ------------------------------
(***************************************************************************)
(* Build 1: the TCP server, which starts a thread per connection, and its  *)
(* clients.                                                                *)
(*                                                                         *)
(* The accept loop stores the connection it accepts in the global s1 and   *)
(* starts a thread.  TcpThread::run reads s1 and the global szbuffer again *)
(* at every use: its steps are cut where it does, so that the loop and the *)
(* other threads may come in between.  Connection and thread t belong      *)
(* together: connections are accepted in the order they are made.          *)
(*                                                                         *)
(* A stream is a sequence of cells: a control record is one cell, a file   *)
(* is Size cells of data, of which one recv returns as many as it likes.   *)
(* All commands are about one file.                                        *)
(*                                                                         *)
(* The threads share the FILEs of the C runtime.  fopen gives out the      *)
(* first one that is not in use; to close one that is not in use does      *)
(* nothing, to close one in use closes it for whoever has opened it.       *)
(***************************************************************************)
EXTENDS Integers, Sequences

CONSTANTS
  Client,
  Plans,        \* what the users may choose: sets of [Client -> Seq(Choice)]
  Size,         \* cells of the file
  Entries,      \* other files in the server's directory
  BUFFER_LENGTH,
  MaxConns,     \* connections made (bound)
  MaxMixed      \* connections up to which a behaviour goes on once mixed (bound)

Choice == {"LIST", "GET", "PUT", "DELETE"}

ASSUME TcpServerAssumption ==
  /\ Plans \subseteq [Client -> Seq(Choice)]
  /\ Size \in Nat \ {0} /\ BUFFER_LENGTH \in Nat \ {0}
  /\ Entries \in Nat /\ MaxConns \in Nat /\ MaxMixed \in Nat

VARIABLES
  plan, script,    \* choices, and calls of the current one, each client has left
  sock,            \* a client's connection
  left, got,       \* GetFileFromServer's fsize, what it has written
  told,            \* what deleteServerFiles has printed
  up, down,        \* the two streams of a connection, not yet received
  shut, gone,      \* connections closed by the server, by the client
  s1, szbuffer,    \* the server's globals
  pc,              \* where a thread is
  conn,            \* the socket a thread's call was given
  fsize, written,  \* GetFileFromClient's fsize, what it has written
  exists,          \* the file is in the server's directory
  open, fp,        \* the FILEs in use, the one a thread was given last
  crashed,         \* the server's process has been terminated
  owner,           \* history: the client that made a connection
  request,         \* history: the command a thread received
  deleted,         \* history: the server has removed the file
  mixed            \* history: a thread used a connection, a command or a FILE not its own

clients == <<plan, script, sock, left, got, told>>
streams == <<up, down, shut, gone>>
threads == <<pc, conn, fsize, written>>
disk    == <<exists, deleted, open, fp>>
vars    == <<clients, streams, s1, szbuffer, threads, disk, crashed, owner, request, mixed>>

Cell == [kind : Choice \cup {"name", "info", "data", "entry", "@", "echo", "nofile", "ok", "#"},
         n : Nat]
Record(kind) == [kind |-> kind, n |-> 0]
File == [k \in 1..Size |-> [kind |-> "data", n |-> k]]

PC == {"memset", "call", "recv", "LIST", "GET", "PUT", "DELETE", "end",
       "PutFileToClient", "getname", "fopen", "sending", "again",
       "GetFileFromClient", "putinfo", "chunks",
       "DeleteServerFiles", "delname", "remove", "kept"}

Sends == Choice \cup {"name", "info", "data"}
Recvs == {"list", "echo", "response", "chunks", "verdict", "again"}
Op    == {"connect", "close"} \cup Sends \cup Recvs

(* Types: every connection has its two streams and its owner, a thread     *)
(* works on a connection that was accepted, and no length falls below 0.   *)
TypeOK ==
  /\ plan \in [Client -> Seq(Choice)] /\ script \in [Client -> Seq(Op)]
  /\ sock \in [Client -> 0..Len(up)] /\ left \in [Client -> 0..Size]
  /\ got \in [Client -> Seq(Cell)] /\ told \in [Client -> {"nothing", "deleted", "missing"}]
  /\ up \in Seq(Seq(Cell)) /\ down \in Seq(Seq(Cell)) /\ owner \in Seq(Client)
  /\ Len(down) = Len(up) /\ Len(owner) = Len(up) /\ Len(up) <= MaxConns
  /\ shut \subseteq 1..s1 /\ gone \subseteq 1..Len(up)
  /\ s1 \in 0..Len(up) /\ szbuffer \in Choice \cup {"", "other"}
  /\ pc \in [1..s1 -> PC] /\ conn \in [1..s1 -> 0..s1]
  /\ fsize \in [1..s1 -> 0..Size] /\ written \in [1..s1 -> Seq(Cell)]
  /\ request \in [1..s1 -> Choice \cup {"", "other"}]
  /\ exists \in BOOLEAN /\ crashed \in BOOLEAN /\ deleted \in BOOLEAN /\ mixed \in BOOLEAN
  /\ open \subseteq 1..MaxConns /\ fp \in [1..MaxConns -> 0..MaxConns]

Init ==
  /\ plan \in Plans /\ script = [c \in Client |-> <<>>]
  /\ sock = [c \in Client |-> 0] /\ left = [c \in Client |-> 0]
  /\ got = [c \in Client |-> <<>>] /\ told = [c \in Client |-> "nothing"]
  /\ up = <<>> /\ down = <<>> /\ shut = {} /\ gone = {}
  /\ s1 = 0 /\ szbuffer = ""
  /\ pc = <<>> /\ conn = <<>> /\ fsize = <<>> /\ written = <<>>
  /\ exists \in BOOLEAN /\ deleted = FALSE /\ crashed = FALSE
  /\ open = {} /\ fp = [t \in 1..MaxConns |-> 0]
  /\ owner = <<>> /\ request = <<>> /\ mixed = FALSE

(* Once a thread has been misled by s1 or szbuffer the properties but      *)
(* TypeOK say nothing; what follows is explored for few connections.       *)
Explored == mixed => Len(up) <= MaxMixed

-------------------------------------------------------------------------------
\* The client.

\* StartClient's menu: GET and DELETE list the files over a connection of their own.
listServerFiles == <<"connect", "LIST", "list">>

\* Mutated: the echo is not waited for.
PutWithoutEcho == {<<"connect", "PUT">>, <<"connect", "PUT", "info", "data">>}

PutFileToServer == {<<"connect", "PUT", "echo">>, <<"connect", "PUT", "echo", "info", "data">>}

Calls(choice) ==
  CASE choice = "LIST"   -> {listServerFiles}
    [] choice = "PUT"    -> PutFileToServer
    [] choice = "GET"    -> {listServerFiles
                              \o <<"close", "connect", "GET", "echo", "name", "response", "chunks">>}
    [] choice = "DELETE" -> {listServerFiles
                              \o <<"close", "connect", "DELETE", "echo", "info", "verdict", "again">>}

Choose(c) ==
  /\ script[c] = <<>> /\ plan[c] # <<>>
  /\ \E s \in Calls(Head(plan[c])) : script' = [script EXCEPT ![c] = s]
  /\ plan' = [plan EXCEPT ![c] = Tail(@)]
  /\ UNCHANGED <<sock, left, got, told, streams, s1, szbuffer, threads, disk, crashed, owner,
                 request, mixed>>

At(c, op) == script[c] # <<>> /\ Head(script[c]) = op
Return(c) == script' = [script EXCEPT ![c] = Tail(@)]

connectServer(c) ==
  /\ At(c, "connect") /\ ~crashed /\ Len(up) < MaxConns
  /\ up' = Append(up, <<>>) /\ down' = Append(down, <<>>) /\ owner' = Append(owner, c)
  /\ sock' = [sock EXCEPT ![c] = Len(up')] /\ Return(c)
  /\ UNCHANGED <<plan, left, got, told, shut, gone, s1, szbuffer, threads, disk, crashed, request,
                 mixed>>

closeconnect(c) ==
  /\ At(c, "close") /\ Return(c)
  /\ gone' = gone \cup {sock[c]}
  /\ UNCHANGED <<plan, sock, left, got, told, up, down, shut, s1, szbuffer, threads, disk, crashed,
                 owner, request, mixed>>

(* After a file whose length is a multiple of BUFFER_LENGTH the client's   *)
(* loop goes round once more: it sends nothing and closes fp again, which  *)
(* nothing else in its only thread can have opened by then.                *)
ClientSend(c) ==
  /\ \E op \in Sends :
       /\ At(c, op)
       /\ up' = [up EXCEPT ![sock[c]] = @ \o IF op = "data" THEN File ELSE <<Record(op)>>]
  /\ Return(c)
  /\ UNCHANGED <<plan, sock, left, got, told, down, shut, gone, s1, szbuffer, threads, disk,
                 crashed, owner, request, mixed>>

\* recv has returned the head of the stream.
Received(c) == /\ sock[c] # 0 /\ down[sock[c]] # <<>>
               /\ down' = [down EXCEPT ![sock[c]] = Tail(@)]
Answer(c)   == Head(down[sock[c]]).kind

\* recv has returned 0 or an error: the buffer it was given is unchanged.
Disconnected(c) == /\ crashed \/ (sock[c] \in shut /\ down[sock[c]] = <<>>)
                   /\ UNCHANGED down

recvList(c) ==
  /\ At(c, "list") /\ Received(c)
  /\ IF Answer(c) = "@" THEN Return(c) ELSE UNCHANGED script
  /\ UNCHANGED <<left, got, told>>

recvEcho(c) ==
  /\ At(c, "echo") \/ At(c, "again")
  /\ Received(c) \/ Disconnected(c)
  /\ Return(c)
  /\ UNCHANGED <<left, got, told>>

recvResponse(c) ==
  /\ At(c, "response")
  /\ \/ /\ Received(c) /\ Answer(c) = "info"
        /\ left' = [left EXCEPT ![c] = Size] /\ got' = [got EXCEPT ![c] = <<>>]
        /\ Return(c)
     \/ /\ Disconnected(c) \/ (Received(c) /\ Answer(c) # "info")
        /\ script' = [script EXCEPT ![c] = <<>>]
        /\ UNCHANGED <<left, got>>
  /\ UNCHANGED told

\* What one recv of at most n cells may return of a stream.
Parts(stream, n) ==
  {SubSeq(stream, 1, k) : k \in {j \in 1..Len(stream) : j <= n /\ j <= BUFFER_LENGTH}}

After(stream, part) == SubSeq(stream, Len(part) + 1, Len(stream))

recvChunks(c) ==
  /\ At(c, "chunks")
  /\ \/ /\ left[c] > 0
        /\ \E part \in Parts(down[sock[c]], left[c]) :
             /\ down' = [down EXCEPT ![sock[c]] = After(@, part)]
             /\ got' = [got EXCEPT ![c] = @ \o part]
             /\ left' = [left EXCEPT ![c] = @ - Len(part)]
        /\ UNCHANGED script
     \/ left[c] = 0 /\ Return(c) /\ UNCHANGED <<down, got, left>>
  /\ UNCHANGED told

(* The answer is compared with the name.  "ok" is four bytes of the name,  *)
(* received over the name the client has sent; so the name is found as     *)
(* well when nothing comes in.                                             *)
recvVerdict(c) ==
  /\ At(c, "verdict")
  /\ \/ /\ Disconnected(c) \/ (Received(c) /\ Answer(c) \in {"ok", "info"})
        /\ told' = [told EXCEPT ![c] = "deleted"]
        /\ script' = [script EXCEPT ![c] = <<>>]
     \/ /\ Received(c) /\ Answer(c) \notin {"ok", "info"}
        /\ told' = [told EXCEPT ![c] = "missing"]
        /\ Return(c)
  /\ UNCHANGED <<left, got>>

ClientRecv(c) ==
  /\ recvList(c) \/ recvEcho(c) \/ recvResponse(c) \/ recvChunks(c) \/ recvVerdict(c)
  /\ UNCHANGED <<plan, sock, up, shut, gone, s1, szbuffer, threads, disk, crashed, owner, request,
                 mixed>>

ClientStep(c) ==
  /\ Explored
  /\ Choose(c) \/ connectServer(c) \/ closeconnect(c) \/ ClientSend(c) \/ ClientRecv(c)

-------------------------------------------------------------------------------
\* The server.

\* Mutated: the loop goes on with what a failed accept returned.
acceptUnchecked ==
  /\ ~crashed /\ Explored
  /\ s1' = s1 + 1
  /\ pc' = Append(pc, "memset") /\ conn' = Append(conn, 0)
  /\ fsize' = Append(fsize, 0) /\ written' = Append(written, <<>>)
  /\ request' = Append(request, "")
  /\ UNCHANGED <<clients, streams, szbuffer, disk, crashed, owner, mixed>>

\* TcpServer::start: one round of its loop.
accept ==
  /\ ~crashed /\ Explored /\ s1 < Len(up)
  /\ s1' = s1 + 1
  /\ pc' = Append(pc, "memset") /\ conn' = Append(conn, 0)
  /\ fsize' = Append(fsize, 0) /\ written' = Append(written, <<>>)
  /\ request' = Append(request, "")
  /\ UNCHANGED <<clients, streams, szbuffer, disk, crashed, owner, mixed>>

Goto(t, label) == pc' = [pc EXCEPT ![t] = label]

memset(t) ==
  /\ pc[t] = "memset"
  /\ szbuffer' = "" /\ Goto(t, "call")
  /\ UNCHANGED <<clients, streams, s1, conn, fsize, written, disk, crashed, request, mixed>>

\* Where a call continues once s1 has been read for its argument.
Callee == [call              |-> "recv",
           PutFileToClient   |-> "getname",
           GetFileFromClient |-> "putinfo",
           DeleteServerFiles |-> "delname"]

\* A call is given s1, the connection accepted last.
call(t) ==
  /\ pc[t] \in DOMAIN Callee
  /\ conn' = [conn EXCEPT ![t] = s1] /\ Goto(t, Callee[pc[t]])
  /\ mixed' = (mixed \/ s1 # t)
  /\ UNCHANGED <<clients, streams, s1, szbuffer, fsize, written, disk, crashed, request>>

(* recv returns the record kind, or "" if it returns 0 or an error.  It    *)
(* fails on a socket the server has closed.                                *)
Recv(t, kind) ==
  LET c == conn[t]
  IN \/ /\ c \notin shut /\ up[c] # <<>>
        /\ kind = Head(up[c]).kind
        /\ up' = [up EXCEPT ![c] = Tail(@)]
     \/ /\ c \in shut \/ (c \in gone /\ up[c] = <<>>)
        /\ kind = "" /\ UNCHANGED up

RecordKind == Sends \cup {""}

(* The contents of szbuffer.  "LIST" is sent without its terminating zero, *)
(* so that it is only LIST if what was in the buffer ends there.           *)
Filled(kind) ==
  CASE kind = ""     -> {szbuffer}
    [] kind = "LIST" -> IF szbuffer \in {"", "LIST"} THEN {"LIST"} ELSE {"LIST", "other"}
    [] OTHER         -> {IF kind \in Choice THEN kind ELSE "other"}

\* A failing recv throws, and nothing catches that in a thread.
recvRequest(t) ==
  /\ pc[t] = "recv"
  /\ \E kind \in RecordKind :
       /\ Recv(t, kind)
       /\ szbuffer' \in Filled(kind)
       /\ request' = [request EXCEPT ![t] = IF kind \in Choice \cup {""} THEN kind ELSE "other"]
  /\ crashed' = (conn[t] \in shut) /\ Goto(t, "LIST")
  /\ UNCHANGED <<clients, down, shut, gone, s1, conn, fsize, written, disk, mixed>>

(* TcpThread::run compares szbuffer with every command in turn, the one it *)
(* has served included: other threads may have received a command by then. *)
NextTest == [LIST |-> "GET", GET |-> "PUT", PUT |-> "DELETE", DELETE |-> "end"]

Handler == [GET |-> "PutFileToClient", PUT |-> "GetFileFromClient", DELETE |-> "DeleteServerFiles"]

Mixes(t) == \/ (szbuffer = pc[t]) # (request[t] = pc[t])
            \/ szbuffer = pc[t] /\ s1 # t

Send(c, cells) == down' = IF c \in shut THEN down ELSE [down EXCEPT ![c] = @ \o cells]

otherCommand(t) ==
  /\ pc[t] \in Choice /\ szbuffer # pc[t]
  /\ Goto(t, NextTest[pc[t]]) /\ mixed' = (mixed \/ Mixes(t))
  /\ UNCHANGED <<clients, streams, s1, szbuffer, conn, fsize, written, disk, crashed, request>>

listFiles(t) ==
  /\ pc[t] = "LIST" /\ szbuffer = "LIST"
  /\ Send(s1, [k \in 1..(Entries + 1) |-> Record(IF k <= Entries THEN "entry" ELSE "@")])
  /\ Goto(t, "GET") /\ mixed' = (mixed \/ Mixes(t))
  /\ UNCHANGED <<clients, up, shut, gone, s1, szbuffer, conn, fsize, written, disk, crashed, request>>

\* The command is echoed and its function called; a failing send throws.
command(t) ==
  /\ pc[t] \in DOMAIN Handler /\ szbuffer = pc[t]
  /\ Send(s1, <<Record("echo")>>) /\ crashed' = (s1 \in shut)
  /\ Goto(t, Handler[pc[t]]) /\ mixed' = (mixed \/ Mixes(t))
  /\ UNCHANGED <<clients, up, shut, gone, s1, szbuffer, conn, fsize, written, disk, request>>

closesocket(t) == shut' = shut \cup {conn[t]}

\* A file name, alone or in a Fileinfo.
Named(kind) == kind \in {"name", "info"}

\* PutFileToClient up to fopen.
getname(t) ==
  /\ pc[t] = "getname"
  /\ \E kind \in RecordKind :
       /\ Recv(t, kind)
       /\ IF Named(kind) /\ exists
            THEN Send(conn[t], <<Record("info")>>) /\ Goto(t, "fopen") /\ UNCHANGED shut
            ELSE Send(conn[t], <<Record("nofile")>>) /\ Goto(t, "PUT") /\ closesocket(t)
  /\ UNCHANGED <<clients, gone, s1, szbuffer, conn, fsize, written, disk, crashed, request, mixed>>

\* fopen gives thread t the first FILE that is not in use.
OpenFile(t) ==
  \E n \in 1..s1 \ open : /\ 1..(n - 1) \subseteq open
                         /\ open' = open \cup {n} /\ fp' = [fp EXCEPT ![t] = n]

\* It is still open, and no other thread's.
OwnFile(t) == fp[t] \in open /\ \A u \in 1..s1 \ {t} : pc[u] \in {"sending", "chunks"} => fp[u] # fp[t]

fclose(t) == open' = open \ {fp[t]} /\ UNCHANGED fp

\* fread aborts the process when fopen has returned NULL.
fopen(t) ==
  /\ pc[t] = "fopen" /\ Goto(t, "sending")
  /\ crashed' = ~exists
  /\ IF exists THEN OpenFile(t) ELSE UNCHANGED <<open, fp>>
  /\ UNCHANGED <<clients, streams, s1, szbuffer, conn, fsize, written, exists, deleted, request, mixed>>

\* What fread leaves in the buffer when the FILE is not, or not only, this thread's.
Unread == [k \in 1..Size |-> Record("data")]

\* PutFileToClient's loop, and closesocket where it ends with the file.
PutFileToClient(t) ==
  /\ pc[t] = "sending"
  /\ \E cells \in IF OwnFile(t) THEN {File} ELSE {File, Unread} : Send(conn[t], cells)
  /\ fclose(t)
  /\ IF Size % BUFFER_LENGTH = 0
       THEN Goto(t, "again") /\ UNCHANGED shut
       ELSE Goto(t, "PUT") /\ closesocket(t)
  /\ UNCHANGED <<clients, up, gone, s1, szbuffer, conn, fsize, written, exists, deleted, crashed,
                 request, mixed>>

\* The loop is not left at 0: it sends nothing once more, and closes fp again.
closeAgain(t) ==
  /\ pc[t] = "again"
  /\ fclose(t) /\ mixed' = (mixed \/ fp[t] \in open)
  /\ closesocket(t) /\ Goto(t, "PUT")
  /\ UNCHANGED <<clients, up, down, gone, s1, szbuffer, conn, fsize, written, exists, deleted,
                 crashed, request>>

(* GetFileFromClient up to its loop.  If no Fileinfo comes in, the name    *)
(* and the length are what is in memory; fopen may then fail and fwrite    *)
(* abort the process.                                                      *)
putinfo(t) ==
  /\ pc[t] = "putinfo" /\ Goto(t, "chunks") /\ OpenFile(t)
  /\ \E kind \in RecordKind :
       /\ Recv(t, kind)
       /\ IF kind = "info"
            THEN fsize' = [fsize EXCEPT ![t] = Size] /\ exists' = TRUE /\ UNCHANGED crashed
            ELSE /\ \E n \in 0..Size : fsize' = [fsize EXCEPT ![t] = n]
                 /\ crashed' \in BOOLEAN /\ UNCHANGED exists
  /\ UNCHANGED <<clients, down, shut, gone, s1, szbuffer, conn, written, deleted, request, mixed>>

\* fwrite writes what was received into a FILE of its own.
fwrite(t, part) ==
  \E cells \in IF OwnFile(t) THEN {part} ELSE {part, <<>>} :
    written' = [written EXCEPT ![t] = @ \o cells]

\* Mutated: the buffer's length is counted instead of what was received.
recvChunkCountsBuffer(t) ==
  LET c == conn[t]
      n == IF fsize[t] > BUFFER_LENGTH THEN BUFFER_LENGTH ELSE fsize[t]
  IN /\ pc[t] = "chunks" /\ fsize[t] > 0
     /\ \/ c \in shut /\ crashed' = TRUE /\ UNCHANGED <<up, fsize, written>>
        \/ /\ c \notin shut
           /\ \E part \in Parts(up[c], fsize[t]) :
                up' = [up EXCEPT ![c] = After(@, part)] /\ fwrite(t, part)
           /\ fsize' = [fsize EXCEPT ![t] = @ - n]
           /\ UNCHANGED crashed
     /\ UNCHANGED <<clients, down, shut, gone, s1, szbuffer, pc, conn, disk, request, mixed>>

(* The loop.  When recv returns 0 it goes round for ever, which is no step *)
(* here; -1 is no length for fwrite.                                       *)
recvChunk(t) ==
  LET c == conn[t]
  IN /\ pc[t] = "chunks" /\ fsize[t] > 0
     /\ \/ c \in shut /\ crashed' = TRUE /\ UNCHANGED <<up, fsize, written>>
        \/ /\ c \notin shut
           /\ \E part \in Parts(up[c], fsize[t]) :
                /\ up' = [up EXCEPT ![c] = After(@, part)] /\ fwrite(t, part)
                /\ fsize' = [fsize EXCEPT ![t] = @ - Len(part)]
           /\ UNCHANGED crashed
     /\ UNCHANGED <<clients, down, shut, gone, s1, szbuffer, pc, conn, disk, request, mixed>>

GetFileFromClient(t) ==
  /\ pc[t] = "chunks" /\ fsize[t] = 0
  /\ fclose(t) /\ closesocket(t) /\ Goto(t, "DELETE")
  /\ UNCHANGED <<clients, up, down, gone, s1, szbuffer, conn, fsize, written, exists, deleted,
                 crashed, request, mixed>>

\* Mutated: no answer for a file that does not exist.
delnameSilent(t) ==
  /\ pc[t] = "delname"
  /\ \E kind \in RecordKind :
       /\ Recv(t, kind)
       /\ Goto(t, IF Named(kind) /\ exists THEN "remove" ELSE "end")
  /\ UNCHANGED <<clients, down, shut, gone, s1, szbuffer, conn, fsize, written, disk, crashed,
                 request, mixed>>

\* DeleteServerFiles up to _access.
delname(t) ==
  /\ pc[t] = "delname"
  /\ \E kind \in RecordKind :
       /\ Recv(t, kind)
       /\ IF Named(kind) /\ exists
            THEN Goto(t, "remove") /\ UNCHANGED <<down, shut>>
            ELSE Send(conn[t], <<Record("#")>>) /\ closesocket(t) /\ Goto(t, "end")
  /\ UNCHANGED <<clients, gone, s1, szbuffer, conn, fsize, written, disk, crashed, request, mixed>>

\* remove fails on a file that is gone by now, or open.
Removable == exists /\ open = {}

\* Mutated: the connection is closed also when remove has failed.
DeleteClosesAlways(t) ==
  /\ pc[t] = "remove" /\ closesocket(t)
  /\ IF Removable
       THEN /\ exists' = FALSE /\ deleted' = TRUE
            /\ Send(conn[t], <<Record("ok")>>) /\ Goto(t, "end")
       ELSE Goto(t, "kept") /\ UNCHANGED <<exists, deleted, down>>
  /\ UNCHANGED <<clients, up, gone, s1, szbuffer, conn, fsize, written, open, fp, crashed, request,
                 mixed>>

DeleteServerFiles(t) ==
  /\ pc[t] = "remove"
  /\ IF Removable
       THEN /\ exists' = FALSE /\ deleted' = TRUE
            /\ Send(conn[t], <<Record("ok")>>) /\ closesocket(t) /\ Goto(t, "end")
       ELSE Goto(t, "kept") /\ UNCHANGED <<exists, deleted, down, shut>>
  /\ UNCHANGED <<clients, up, gone, s1, szbuffer, conn, fsize, written, open, fp, crashed, request,
                 mixed>>

\* TcpThread::run.
ThreadStep(t) ==
  /\ ~crashed /\ Explored /\ UNCHANGED owner
  /\ \/ memset(t) \/ call(t) \/ recvRequest(t)
     \/ otherCommand(t) \/ listFiles(t) \/ command(t)
     \/ getname(t) \/ fopen(t) \/ PutFileToClient(t) \/ closeAgain(t)
     \/ putinfo(t) \/ recvChunk(t) \/ GetFileFromClient(t)
     \/ delname(t) \/ DeleteServerFiles(t)

Next == (\E c \in Client : ClientStep(c)) \/ accept \/ (\E t \in 1..s1 : ThreadStep(t))

Spec == Init /\ [][Next]_vars

\* The loop, the threads and the clients keep running, and users type.
FairSpec == /\ Spec /\ WF_vars(accept)
            /\ \A c \in Client : WF_vars(ClientStep(c))
            /\ \A t \in 1..MaxConns : WF_vars(t <= s1 /\ ThreadStep(t))
-------------------------------------------------------------------------------
\* Only one client has connected.
Alone == \A j, k \in DOMAIN owner : owner[j] = owner[k]

IsPrefixOfFile(cells) == Len(cells) <= Size /\ cells = SubSeq(File, 1, Len(cells))

(* A file arrives as it was sent, however the stream is cut by recv, and   *)
(* neither side takes it for complete before: the two receiving loops.     *)
FilesArriveWhole ==
  ~mixed =>
    /\ \A t \in 1..s1 :
         /\ IsPrefixOfFile(written[t])
         /\ request[t] = "PUT" /\ t \in shut => written[t] = File
    /\ \A c \in Client :
         /\ IsPrefixOfFile(got[c])
         /\ got[c] # <<>> /\ script[c] = <<>> => got[c] = File

(* TcpClient.cpp:367-368: the client says that the file is deleted only if *)
(* the server has removed it.  It says so too when it receives nothing.    *)
ToldDeletedIsDeleted ==
  ~mixed /\ ~crashed => \A c \in Client : told[c] = "deleted" => deleted

(* As long as one client connects, and until a thread has been misled by   *)
(* szbuffer, s1 is still the connection a thread was started for when the  *)
(* thread reads it for its recv: the client makes no second connection     *)
(* before its request was received.  A thread that is misled answers on    *)
(* whatever s1 is, and the client may go on too early.                     *)
AloneReadsItsRequest ==
  Alone /\ ~mixed => \A t \in 1..s1 : pc[t] \in {"memset", "call"} => s1 = t

(* Every choice of every user comes to its end, and so does every thread,  *)
(* but for that of an upload whose client had no such file: it waits for a *)
(* name for ever.  This holds in every interleaving in which no thread was *)
(* misled by s1, szbuffer or a FILE of another's, unless a file could not  *)
(* be removed, which leaves its client waiting, or, with more than one     *)
(* client, was removed before it was opened, which ends the server.        *)
Excused == mixed \/ (\E t \in 1..s1 : pc[t] = "kept") \/ (crashed /\ ~Alone)

Done ==
  /\ \A c \in Client : script[c] = <<>> /\ plan[c] = <<>>
  /\ s1 = Len(up)
  /\ \A t \in 1..s1 : pc[t] = "end" \/ (pc[t] = "putinfo" /\ up[t] = <<>>)

CommandsComplete == <>[](Done \/ Excused)

(* The comment of the accept loop, "always check the listener" (Server.cpp *)
(* :75): the server goes on accepting.                                     *)
AlwaysChecksListener == ~crashed
===============================================================================
