---------------------------- MODULE TcpServerProofs ----------------------------
(***************************************************************************)
(* Build 1, proved for any clients and plans, any size of the file, of the *)
(* directory and of the buffer, and any number of connections: the types,  *)
(* that files arrive whole however recv cuts the streams, that a client    *)
(* told so has its file deleted, and that a single client's requests are   *)
(* read off their own connections.                                         *)
(*                                                                         *)
(* As long as no thread has been misled by s1 or szbuffer, what a          *)
(* connection's client has left to do, the two streams and the place of    *)
(* the connection's thread are in one of the situations of Talk.           *)
(***************************************************************************)
EXTENDS TcpServer, SequenceTheorems, TLAPS

\* The calls a client makes, from the end of each choice to its beginning.
AfterList == {<<>>,
              <<"close", "connect", "GET", "echo", "name", "response", "chunks">>,
              <<"close", "connect", "DELETE", "echo", "info", "verdict", "again">>}

ListAt(rest) == <<"LIST", "list">> \o rest
listAt(rest) == <<"list">> \o rest

PutAt    == <<"PUT", "echo">>
PutEcho  == <<"echo">>
FileAt   == <<"PUT", "echo", "info", "data">>
FileEcho == <<"echo", "info", "data">>
FileInfo == <<"info", "data">>
FileData == <<"data">>

GetAt       == <<"GET", "echo", "name", "response", "chunks">>
GetEcho     == <<"echo", "name", "response", "chunks">>
GetName     == <<"name", "response", "chunks">>
GetResponse == <<"response", "chunks">>
GetChunks   == <<"chunks">>

DeleteAt      == <<"DELETE", "echo", "info", "verdict", "again">>
DeleteEcho    == <<"echo", "info", "verdict", "again">>
DeleteInfo    == <<"info", "verdict", "again">>
DeleteVerdict == <<"verdict", "again">>
DeleteAgain   == <<"again">>

Connecting == {<<"connect", "LIST", "list">> \o rest : rest \in AfterList}
                \cup {<<"connect", "PUT", "echo">>, <<"connect", "PUT", "echo", "info", "data">>,
                      <<"connect", "GET", "echo", "name", "response", "chunks">>,
                      <<"connect", "DELETE", "echo", "info", "verdict", "again">>}

\* What a connection is made for; and all that a client may have left to call.
Starting == {ListAt(rest) : rest \in AfterList} \cup {PutAt, FileAt, GetAt, DeleteAt}

Scripts == AfterList \cup Connecting \cup Starting \cup {listAt(rest) : rest \in AfterList}
             \cup {PutEcho, FileEcho, FileInfo, FileData, GetEcho, GetName, GetResponse, GetChunks,
                   DeleteEcho, DeleteInfo, DeleteVerdict, DeleteAgain}

\* Cells that are no data: a record, a listing from its k-th last entry on.
One(kind)  == <<Record(kind)>>
Listing(k) == [j \in 1..(k + 1) |-> Record(IF j <= k THEN "entry" ELSE "@")]

\* The file's first n cells, and the others.
First(n) == SubSeq(File, 1, n)
Rest(n)  == SubSeq(File, n + 1, Size)

-------------------------------------------------------------------------------
\* The types, and what they need to be inductive.

\* A client in the middle of its calls has a connection.
Started ==
  \A c \in Client :
    script[c] # <<>> /\ Head(script[c]) # "connect" => sock[c] # 0

\* A thread that has called recv or a function has been given a connection.
Given == \A t \in 1..s1 : pc[t] \notin {"memset", "call"} => conn[t] # 0

(* TypeOK by what it is about: the clients, the streams, the threads and   *)
(* what they share.                                                        *)
ClientTypes ==
  /\ plan \in [Client -> Seq(Choice)] /\ script \in [Client -> Seq(Op)]
  /\ left \in [Client -> 0..Size] /\ got \in [Client -> Seq(Cell)]
  /\ told \in [Client -> {"nothing", "deleted", "missing"}]

StreamTypes ==
  /\ up \in Seq(Seq(Cell)) /\ down \in Seq(Seq(Cell)) /\ owner \in Seq(Client)
  /\ Len(down) = Len(up) /\ Len(owner) = Len(up) /\ Len(up) <= MaxConns
  /\ sock \in [Client -> 0..Len(up)] /\ gone \subseteq 1..Len(up)

ThreadTypes ==
  /\ s1 \in 0..Len(up) /\ shut \subseteq 1..s1
  /\ pc \in [1..s1 -> PC] /\ conn \in [1..s1 -> 0..s1]
  /\ fsize \in [1..s1 -> 0..Size] /\ written \in [1..s1 -> Seq(Cell)]
  /\ request \in [1..s1 -> Choice \cup {"", "other"}]

SharedTypes ==
  /\ szbuffer \in Choice \cup {"", "other"}
  /\ open \subseteq 1..MaxConns /\ fp \in [1..MaxConns -> 0..MaxConns]
  /\ exists \in BOOLEAN /\ crashed \in BOOLEAN /\ deleted \in BOOLEAN /\ mixed \in BOOLEAN

TypeInv == ClientTypes /\ StreamTypes /\ ThreadTypes /\ SharedTypes /\ Started /\ Given

-------------------------------------------------------------------------------
(* What there is of connection k: the calls its client still makes on it,  *)
(* the two streams, the place of its thread, what the thread was asked,    *)
(* whether the connection is shut, how far the file has come, and whether  *)
(* the file was removed.                                                   *)
(* A connection that is not yet accepted is one whose thread waits.        *)
Served(k) == sock[owner[k]] = k

View(k) ==
  [at    |-> IF Served(k) THEN script[owner[k]] ELSE <<>>,
   up    |-> up[k],
   down  |-> down[k],
   pc    |-> IF k <= s1 THEN pc[k] ELSE "memset",
   req   |-> IF k <= s1 THEN request[k] ELSE "",
   shut  |-> k \in shut,
   fsize |-> IF k <= s1 THEN fsize[k] ELSE 0,
   wrote |-> IF k <= s1 THEN written[k] ELSE <<>>,
   left  |-> IF Served(k) THEN left[owner[k]] ELSE 0,
   got   |-> IF Served(k) THEN got[owner[k]] ELSE <<>>,
   removed |-> deleted]

\* The client has finished with the connection.
Over(s) == s = <<>> \/ s \in Connecting

\* The request has not been received; or it was sent and has not.
Fresh(v)    == v.pc \in {"memset", "call", "recv"} /\ v.down = <<>> /\ ~v.shut /\ v.wrote = <<>>
Unasked(v)  == Fresh(v) /\ v.up = <<>>
Asked(v, r) == Fresh(v) /\ v.up = One(r)

\* The thread, asked for r, is in one of the places ps; it is not finished.
In(v, r, ps) == v.req = r /\ v.pc \in ps /\ ~v.shut /\ v.wrote = <<>>

Idle(v)         == v.up = <<>> /\ v.down = <<>>
Echoed(v)       == v.up = <<>> /\ v.down = One("echo")
Told(v, answer) == v.up = <<>> /\ v.down = answer

Listed(v) == v.req = "LIST" /\ v.pc \in {"GET", "PUT", "DELETE", "end"} /\ v.wrote = <<>> /\ v.up = <<>>

\* A listing; what the client does next on other connections is rest.
ListTalk(v) ==
  \/ \E rest \in AfterList :
       \/ v.at = ListAt(rest) /\ Unasked(v)
       \/ /\ v.at = listAt(rest)
          /\ \/ Asked(v, "LIST")
             \/ In(v, "LIST", {"LIST"}) /\ Idle(v)
             \/ Listed(v) /\ \E k \in 0..Entries : v.down = Listing(k)
  \/ (v.at \in AfterList \/ Over(v.at)) /\ Listed(v) /\ v.down = <<>>

Putting == {"GetFileFromClient", "putinfo"}

\* The receiving loop has the first part of the file, the stream the rest.
Taking(v) ==
  /\ v.req = "PUT" /\ v.pc = "chunks" /\ ~v.shut /\ v.down = <<>>
  /\ v.fsize \in 0..Size /\ v.wrote = First(Size - v.fsize)

Taken(v) == v.req = "PUT" /\ v.pc \in {"DELETE", "end"} /\ v.shut /\ v.wrote = File

\* The upload of a file the client has, or has not.
PutTalk(v) ==
  \/ v.at \in {PutAt, FileAt} /\ Unasked(v)
  \/ /\ v.at \in {PutEcho, FileEcho}
     /\ \/ Asked(v, "PUT")
        \/ In(v, "PUT", {"LIST", "GET", "PUT"}) /\ Idle(v)
        \/ In(v, "PUT", Putting) /\ Echoed(v)
  \/ v.at = FileInfo /\ In(v, "PUT", Putting) /\ Idle(v)
  \/ v.at = FileData /\ In(v, "PUT", Putting) /\ v.up = One("info") /\ v.down = <<>>
  \/ v.at = FileData /\ Taking(v) /\ v.fsize = Size /\ v.up = <<>>
  \/ /\ Over(v.at)
     /\ \/ In(v, "PUT", Putting) /\ v.up \in {<<>>, One("info") \o File} /\ v.down = <<>>
        \/ Taking(v) /\ v.up = Rest(Size - v.fsize)
        \/ Taken(v) /\ Idle(v)

Getting == {"PutFileToClient", "getname"}
Opening == {"fopen", "sending"}

\* The thread has answered; it may still have the extra round of its loop before it.
Closed(v) == /\ v.req = "GET" /\ v.wrote = <<>>
             /\ \/ v.pc = "again" /\ ~v.shut
                \/ v.pc \in {"PUT", "DELETE", "end"} /\ v.shut

\* The client has the first part of the file, and what follows on the way.
Arriving(v) == v.left \in 0..Size /\ v.got = First(Size - v.left)

\* The download of a file.
GetTalk(v) ==
  \/ v.at = GetAt /\ Unasked(v)
  \/ /\ v.at = GetEcho
     /\ \/ Asked(v, "GET")
        \/ In(v, "GET", {"LIST", "GET"}) /\ Idle(v)
        \/ In(v, "GET", Getting) /\ Echoed(v)
  \/ v.at = GetName /\ In(v, "GET", Getting) /\ Idle(v)
  \/ /\ v.at = GetResponse
     /\ \/ In(v, "GET", Getting) /\ v.up = One("name") /\ v.down = <<>>
        \/ In(v, "GET", Opening) /\ Told(v, One("info"))
        \/ Closed(v) /\ (Told(v, One("info") \o File) \/ Told(v, One("nofile")))
  \/ /\ v.at = GetChunks /\ Arriving(v)
     /\ \/ In(v, "GET", Opening) /\ v.left = Size /\ Idle(v)
        \/ Closed(v) /\ Told(v, Rest(Size - v.left))
  \/ Over(v.at) /\ Closed(v) /\ Idle(v)

Deleting == {"DeleteServerFiles", "delname"}

Deleted(v) == v.req = "DELETE" /\ v.pc = "end" /\ v.shut /\ v.wrote = <<>>

\* The removal of a file: "ok" is answered only after it.
DeleteTalk(v) ==
  \/ v.at = DeleteAt /\ Unasked(v)
  \/ /\ v.at = DeleteEcho
     /\ \/ Asked(v, "DELETE")
        \/ In(v, "DELETE", {"LIST", "GET", "PUT", "DELETE"}) /\ Idle(v)
        \/ In(v, "DELETE", Deleting) /\ Echoed(v)
  \/ v.at = DeleteInfo /\ In(v, "DELETE", Deleting) /\ Idle(v)
  \/ /\ v.at = DeleteVerdict
     /\ \/ In(v, "DELETE", Deleting) /\ v.up = One("info") /\ v.down = <<>>
        \/ In(v, "DELETE", {"remove", "kept"}) /\ Idle(v)
        \/ Deleted(v) /\ (Told(v, One("#")) \/ (Told(v, One("ok")) /\ v.removed))
  \/ (v.at = DeleteAgain \/ Over(v.at)) /\ Deleted(v) /\ Idle(v)

Talk(v) == ListTalk(v) \/ PutTalk(v) \/ GetTalk(v) \/ DeleteTalk(v)

Talks == \A k \in 1..Len(up) : Talk(View(k))

-------------------------------------------------------------------------------
\* The inductive invariant: first what also holds once a thread was misled.

\* Where a client may be in its calls.
InCalls == \A c \in Client : script[c] \in Scripts

\* A connection belongs to the client that uses it.
OwnSock == \A c \in Client : sock[c] # 0 => owner[sock[c]] = c

\* Every thread uses its own connection.
OwnConnection ==
  \A t \in 1..s1 : conn[t] = IF pc[t] \in {"memset", "call"} THEN 0 ELSE t

(* The files that arrive, also after the server's end: a thread's is       *)
(* complete when it shuts the connection, a client's when it is back in    *)
(* the menu, and an "info" on its way has nothing but the file behind it.  *)
ThreadFiles ==
  \A t \in 1..s1 : /\ \E n \in 0..Size : written[t] = First(n)
                   /\ request[t] = "PUT" /\ t \in shut => written[t] = File

InfoFirst(d) ==
  d \in {<<>>, One("echo"), One("nofile"), One("info"), One("info") \o File}

FilesOf(c) ==
  /\ IF script[c] = GetChunks
       THEN /\ got[c] = First(Size - left[c])
            /\ down[sock[c]] \in {<<>>, Rest(Size - left[c])}
       ELSE got[c] \in {<<>>, File}
  /\ script[c] \in {GetAt, GetEcho} => down[sock[c]] \in {<<>>, One("echo")}
  /\ script[c] \in {GetName, GetResponse} => InfoFirst(down[sock[c]])

ClientFiles == \A c \in Client : FilesOf(c)

\* The client that is alone has had an answer on all its connections but the last.
AloneAnswered ==
  Alone => \A k \in 1..(Len(up) - 1) : k <= s1 /\ pc[k] \notin {"memset", "call", "recv"}

\* Clients close only the connections of their listings, when they have them.
GoneAfterList ==
  \A k \in gone : k <= s1 /\ request[k] = "LIST" /\ pc[k] \in {"GET", "PUT", "DELETE", "end"}

\* A thread that reads or writes its file has a FILE of its own.
FilesOwn == \A t \in 1..s1 : pc[t] \in {"sending", "chunks"} => OwnFile(t)

ToldTruly == \A c \in Client : told[c] = "deleted" => deleted

UnmixedInv ==
  /\ OwnConnection /\ ThreadFiles /\ ClientFiles /\ AloneAnswered
  /\ ~crashed => Talks /\ GoneAfterList /\ ToldTruly /\ FilesOwn

IInv == TypeInv /\ InCalls /\ OwnSock /\ (~mixed => UnmixedInv)

-------------------------------------------------------------------------------
\* Sequences, in the form the proofs use.
LEMMA Appended ==
  ASSUME NEW S, NEW q \in Seq(S), NEW d \in S, NEW t, t = Append(q, d)
  PROVE  /\ t \in Seq(S) /\ Len(t) = Len(q) + 1 /\ Len(q) \in Nat
         /\ \A a \in 1..Len(q) : t[a] = q[a]
         /\ t[Len(q) + 1] = d
OBVIOUS

LEMMA TailTyped ==
  ASSUME NEW S, NEW q \in Seq(S), q # <<>>
  PROVE  Head(q) \in S /\ Tail(q) \in Seq(S)
OBVIOUS

LEMMA ElementSet ==
  ASSUME NEW S, NEW q \in Seq(S), NEW k, NEW x, k \in 1..Len(q) => x \in S
  PROVE  /\ [q EXCEPT ![k] = x] \in Seq(S) /\ Len([q EXCEPT ![k] = x]) = Len(q)
         /\ \A j \in 1..Len(q) : [q EXCEPT ![k] = x][j] = IF j = k THEN x ELSE q[j]
<1> DEFINE n == Len(q)
           r == [q EXCEPT ![k] = x]
<1>1. n \in Nat /\ q \in [1..n -> S] BY LenProperties
<1>2. \A j \in 1..n : r[j] = IF j = k THEN x ELSE q[j] BY <1>1
<1>3. r \in [1..n -> S] BY <1>1
<1>4. r \in Seq(S) /\ Len(r) = n BY <1>1, <1>3
<1> QED BY <1>2, <1>4

LEMMA ExceptTyped ==
  ASSUME NEW D, NEW S, NEW f \in [D -> S], NEW k, NEW x \in S
  PROVE  [f EXCEPT ![k] = x] \in [D -> S]
OBVIOUS

\* A thread more: its entry at the end of a function over the threads.
LEMMA OneMore ==
  ASSUME NEW n \in Nat, NEW S, NEW f \in [1..n -> S], NEW x \in S
  PROVE  /\ Append(f, x) \in [1..(n + 1) -> S]
         /\ \A t \in 1..n : Append(f, x)[t] = f[t]
         /\ Append(f, x)[n + 1] = x
<1>1. f \in Seq(S) /\ Len(f) = n OBVIOUS
<1>2. /\ Append(f, x) \in Seq(S) /\ Len(Append(f, x)) = n + 1
      /\ \A t \in 1..n : Append(f, x)[t] = f[t]
      /\ Append(f, x)[n + 1] = x
  BY <1>1, Appended
<1> QED BY <1>2, LenProperties

-------------------------------------------------------------------------------
\* The calls of a client: which call follows which.
LEMMA PutCalls ==
  /\ PutAt # <<>> /\ Head(PutAt) = "PUT" /\ Tail(PutAt) = PutEcho
  /\ PutEcho # <<>> /\ Head(PutEcho) = "echo" /\ Tail(PutEcho) = <<>>
  /\ FileAt # <<>> /\ Head(FileAt) = "PUT" /\ Tail(FileAt) = FileEcho
  /\ FileEcho # <<>> /\ Head(FileEcho) = "echo" /\ Tail(FileEcho) = FileInfo
  /\ FileInfo # <<>> /\ Head(FileInfo) = "info" /\ Tail(FileInfo) = FileData
  /\ FileData # <<>> /\ Head(FileData) = "data" /\ Tail(FileData) = <<>>
BY DEF PutAt, PutEcho, FileAt, FileEcho, FileInfo, FileData

LEMMA GetCalls ==
  /\ GetAt # <<>> /\ Head(GetAt) = "GET" /\ Tail(GetAt) = GetEcho
  /\ GetEcho # <<>> /\ Head(GetEcho) = "echo" /\ Tail(GetEcho) = GetName
  /\ GetName # <<>> /\ Head(GetName) = "name" /\ Tail(GetName) = GetResponse
  /\ GetResponse # <<>> /\ Head(GetResponse) = "response" /\ Tail(GetResponse) = GetChunks
  /\ GetChunks # <<>> /\ Head(GetChunks) = "chunks" /\ Tail(GetChunks) = <<>>
BY DEF GetAt, GetEcho, GetName, GetResponse, GetChunks

LEMMA DeleteCalls ==
  /\ DeleteAt # <<>> /\ Head(DeleteAt) = "DELETE" /\ Tail(DeleteAt) = DeleteEcho
  /\ DeleteEcho # <<>> /\ Head(DeleteEcho) = "echo" /\ Tail(DeleteEcho) = DeleteInfo
  /\ DeleteInfo # <<>> /\ Head(DeleteInfo) = "info" /\ Tail(DeleteInfo) = DeleteVerdict
  /\ DeleteVerdict # <<>> /\ Head(DeleteVerdict) = "verdict" /\ Tail(DeleteVerdict) = DeleteAgain
  /\ DeleteAgain # <<>> /\ Head(DeleteAgain) = "again" /\ Tail(DeleteAgain) = <<>>
BY DEF DeleteAt, DeleteEcho, DeleteInfo, DeleteVerdict, DeleteAgain

LEMMA ConcatTail ==
  ASSUME NEW S, NEW s \in Seq(S), NEW t \in Seq(S), s # <<>>
  PROVE  s \o t # <<>> /\ Head(s \o t) = Head(s) /\ Tail(s \o t) = Tail(s) \o t
<1>1. /\ s \o t \in Seq(S) /\ Len(s \o t) = Len(s) + Len(t)
      /\ \A i \in 1..Len(s) + Len(t) : (s \o t)[i] = IF i <= Len(s) THEN s[i] ELSE t[i - Len(s)]
  BY ConcatProperties
<1>2. Len(s) \in Nat \ {0} /\ Len(t) \in Nat OBVIOUS
<1>3. s \o t # <<>> BY <1>1, <1>2
<1>4. Head(s \o t) = Head(s) BY <1>1, <1>2
<1>5. /\ Tail(s) \in Seq(S) /\ Len(Tail(s)) = Len(s) - 1
      /\ \A i \in 1..Len(Tail(s)) : Tail(s)[i] = s[i + 1]
  BY HeadTailProperties, <1>2
<1>6. /\ Tail(s \o t) \in Seq(S) /\ Len(Tail(s \o t)) = Len(s) + Len(t) - 1
      /\ \A i \in 1..Len(Tail(s \o t)) : Tail(s \o t)[i] = (s \o t)[i + 1]
  BY HeadTailProperties, <1>1, <1>3
<1>7. /\ Tail(s) \o t \in Seq(S) /\ Len(Tail(s) \o t) = Len(Tail(s)) + Len(t)
      /\ \A i \in 1..Len(Tail(s)) + Len(t) :
           (Tail(s) \o t)[i] = IF i <= Len(Tail(s)) THEN Tail(s)[i] ELSE t[i - Len(Tail(s))]
  BY <1>5, ConcatProperties
<1>8. Len(Tail(s \o t)) = Len(Tail(s) \o t) BY <1>2, <1>5, <1>6, <1>7
<1>9. ASSUME NEW i \in 1..Len(Tail(s \o t)) PROVE Tail(s \o t)[i] = (Tail(s) \o t)[i]
  <2>1. i + 1 \in 1..Len(s) + Len(t) /\ i \in 1..Len(Tail(s)) + Len(t)
    BY <1>2, <1>5, <1>6
  <2>2. Tail(s \o t)[i] = IF i + 1 <= Len(s) THEN s[i + 1] ELSE t[i + 1 - Len(s)]
    BY <1>1, <1>6, <2>1
  <2>3. CASE i + 1 <= Len(s)
    <3>1. i \in 1..Len(Tail(s)) BY <2>1, <2>3, <1>2, <1>5
    <3> QED BY <2>1, <2>2, <2>3, <3>1, <1>5, <1>7
  <2>4. CASE ~(i + 1 <= Len(s))
    <3>1. ~(i <= Len(Tail(s))) /\ i + 1 - Len(s) = i - Len(Tail(s)) BY <2>1, <2>4, <1>2, <1>5
    <3> QED BY <2>1, <2>2, <2>4, <3>1, <1>7
  <2> QED BY <2>3, <2>4
<1>10. Tail(s \o t) = Tail(s) \o t BY <1>6, <1>7, <1>8, <1>9, SeqEqual
<1> QED BY <1>3, <1>4, <1>10

LEMMA Ops ==
  {"connect", "close", "LIST", "GET", "PUT", "DELETE", "name", "info", "data", "list", "echo",
   "response", "chunks", "verdict", "again"} = Op
BY DEF Op, Sends, Recvs, Choice

LEMMA AfterListTyped == \A rest \in AfterList : rest \in Seq(Op)
<1>1. <<>> \in Seq(Op) OBVIOUS
<1>2. <<"close", "connect", "GET", "echo", "name", "response", "chunks">> \in Seq(Op) BY Ops
<1>3. <<"close", "connect", "DELETE", "echo", "info", "verdict", "again">> \in Seq(Op) BY Ops
<1> QED BY <1>1, <1>2, <1>3 DEF AfterList

\* A listing may be the whole choice, or begin a GET or a DELETE.
LEMMA ListCalls ==
  \A rest \in AfterList :
    /\ ListAt(rest) # <<>> /\ Head(ListAt(rest)) = "LIST" /\ Tail(ListAt(rest)) = listAt(rest)
    /\ listAt(rest) # <<>> /\ Head(listAt(rest)) = "list" /\ Tail(listAt(rest)) = rest
<1> SUFFICES ASSUME NEW rest \in AfterList
             PROVE  /\ ListAt(rest) # <<>> /\ Head(ListAt(rest)) = "LIST"
                    /\ Tail(ListAt(rest)) = listAt(rest)
                    /\ listAt(rest) # <<>> /\ Head(listAt(rest)) = "list" /\ Tail(listAt(rest)) = rest
  OBVIOUS
<1>1. rest \in Seq(Op) BY AfterListTyped
<1>2. <<"LIST", "list">> \in Seq(Op) /\ <<"list">> \in Seq(Op) BY Ops
<1>3. /\ <<"LIST", "list">> # <<>> /\ Head(<<"LIST", "list">>) = "LIST"
      /\ Tail(<<"LIST", "list">>) = <<"list">>
      /\ <<"list">> # <<>> /\ Head(<<"list">>) = "list" /\ Tail(<<"list">>) = <<>>
  OBVIOUS
<1>4. <<>> \o rest = rest BY <1>1, ConcatEmptySeq
<1> QED BY <1>1, <1>2, <1>3, <1>4, ConcatTail DEF ListAt, listAt

LEMMA AfterConnect ==
  \A s \in Connecting : s # <<>> /\ Head(s) = "connect" /\ Tail(s) \in Starting
<1> SUFFICES ASSUME NEW s \in Connecting
             PROVE  s # <<>> /\ Head(s) = "connect" /\ Tail(s) \in Starting
  OBVIOUS
<1>1. ASSUME NEW rest \in AfterList, s = <<"connect", "LIST", "list">> \o rest
      PROVE  s # <<>> /\ Head(s) = "connect" /\ Tail(s) \in Starting
  <2>1. rest \in Seq(Op) BY AfterListTyped
  <2>2. <<"connect", "LIST", "list">> \in Seq(Op) BY Ops
  <2>3. /\ <<"connect", "LIST", "list">> # <<>> /\ Head(<<"connect", "LIST", "list">>) = "connect"
        /\ Tail(<<"connect", "LIST", "list">>) = <<"LIST", "list">>
    OBVIOUS
  <2>4. Tail(s) = ListAt(rest) BY <1>1, <2>1, <2>2, <2>3, ConcatTail DEF ListAt
  <2> QED BY <1>1, <2>1, <2>2, <2>3, <2>4, ConcatTail DEF Starting
<1>2. CASE s = <<"connect", "PUT", "echo">>
  BY <1>2 DEF Starting, PutAt
<1>3. CASE s = <<"connect", "PUT", "echo", "info", "data">>
  BY <1>3 DEF Starting, FileAt
<1>4. CASE s = <<"connect", "GET", "echo", "name", "response", "chunks">>
  BY <1>4 DEF Starting, GetAt
<1>5. CASE s = <<"connect", "DELETE", "echo", "info", "verdict", "again">>
  BY <1>5 DEF Starting, DeleteAt
<1> QED BY <1>1, <1>2, <1>3, <1>4, <1>5 DEF Connecting

LEMMA AfterClose ==
  \A rest \in AfterList : rest # <<>> => Head(rest) = "close" /\ Tail(rest) \in Connecting
<1>1. /\ Head(<<"close", "connect", "GET", "echo", "name", "response", "chunks">>) = "close"
      /\ Tail(<<"close", "connect", "GET", "echo", "name", "response", "chunks">>)
           = <<"connect", "GET", "echo", "name", "response", "chunks">>
  OBVIOUS
<1>2. /\ Head(<<"close", "connect", "DELETE", "echo", "info", "verdict", "again">>) = "close"
      /\ Tail(<<"close", "connect", "DELETE", "echo", "info", "verdict", "again">>)
           = <<"connect", "DELETE", "echo", "info", "verdict", "again">>
  OBVIOUS
<1> QED BY <1>1, <1>2 DEF AfterList, Connecting

\* What a choice of the menu makes the client do begins with a connection.
LEMMA ChoiceCalls ==
  ASSUME NEW choice \in Choice, NEW s \in Calls(choice)
  PROVE  s \in Connecting /\ s \in Seq(Op)
<1> DEFINE toGet == <<"close", "connect", "GET", "echo", "name", "response", "chunks">>
           toDelete == <<"close", "connect", "DELETE", "echo", "info", "verdict", "again">>
<1>1. listServerFiles \in Seq(Op) BY Ops DEF listServerFiles
<1>2. ASSUME NEW rest \in AfterList
      PROVE  listServerFiles \o rest \in Connecting /\ listServerFiles \o rest \in Seq(Op)
  <2>1. rest \in Seq(Op) BY AfterListTyped
  <2>2. listServerFiles \o rest \in Seq(Op) BY <1>1, <2>1, ConcatProperties
  <2> QED BY <2>2 DEF Connecting, listServerFiles
<1>3. <<>> \in AfterList /\ toGet \in AfterList /\ toDelete \in AfterList BY DEF AfterList
<1>4. CASE choice = "LIST"
  <2>1. s = listServerFiles BY <1>4 DEF Calls
  <2>2. listServerFiles \o <<>> = listServerFiles BY <1>1, ConcatEmptySeq
  <2> QED BY <1>2, <1>3, <2>1, <2>2
<1>5. CASE choice = "PUT"
  <2>1. s \in {<<"connect", "PUT", "echo">>, <<"connect", "PUT", "echo", "info", "data">>}
    BY <1>5 DEF Calls, PutFileToServer
  <2>2. <<"connect", "PUT", "echo">> \in Seq(Op)
        /\ <<"connect", "PUT", "echo", "info", "data">> \in Seq(Op)
    BY Ops
  <2> QED BY <2>1, <2>2 DEF Connecting
<1>6. CASE choice = "GET"
  <2>1. s = listServerFiles \o toGet BY <1>6 DEF Calls
  <2> QED BY <1>2, <1>3, <2>1
<1>7. CASE choice = "DELETE"
  <2>1. s = listServerFiles \o toDelete BY <1>7 DEF Calls
  <2> QED BY <1>2, <1>3, <2>1
<1> QED BY <1>4, <1>5, <1>6, <1>7 DEF Choice

-------------------------------------------------------------------------------
\* Cells and the streams made of them.
LEMMA CellsTyped ==
  /\ \A kind \in Choice \cup {"name", "info", "data", "entry", "@", "echo", "nofile", "ok", "#"} :
       Record(kind) \in Cell /\ <<Record(kind)>> \in Seq(Cell)
  /\ File \in Seq(Cell) /\ Len(File) = Size
  /\ Size \in Nat \ {0}
<1>1. Size \in Nat \ {0} BY TcpServerAssumption
<1>2. ASSUME NEW kind \in Choice \cup {"name", "info", "data", "entry", "@", "echo", "nofile", "ok", "#"}
      PROVE  Record(kind) \in Cell
  BY DEF Record, Cell
<1>3. "data" \in Choice \cup {"name", "info", "data", "entry", "@", "echo", "nofile", "ok", "#"}
  OBVIOUS
<1>4. \A k \in 1..Size : [kind |-> "data", n |-> k] \in Cell BY <1>1, <1>3 DEF Cell
<1>5. File \in [1..Size -> Cell] BY <1>4 DEF File
<1>6. File \in Seq(Cell) /\ Len(File) = Size BY <1>1, <1>5
<1> QED BY <1>1, <1>2, <1>6

\* What recv may return of a stream, and what is then left.
LEMMA PartsTyped ==
  ASSUME NEW q \in Seq(Cell), NEW n \in Nat, NEW part \in Parts(q, n)
  PROVE  /\ part \in Seq(Cell) /\ Len(part) \in 1..n
         /\ After(q, part) \in Seq(Cell)
         /\ \E j \in 1..Len(q) : j <= n /\ part = SubSeq(q, 1, j)
<1>1. PICK k \in {j \in 1..Len(q) : j <= n /\ j <= BUFFER_LENGTH} : part = SubSeq(q, 1, k)
  BY DEF Parts
<1>2. k \in 1..Len(q) /\ k <= n /\ Len(q) \in Nat OBVIOUS
<1>3. \A i \in 1..k : q[i] \in Cell BY <1>2
<1>4. part \in Seq(Cell) /\ Len(part) = k BY <1>1, <1>2, <1>3, SubSeqProperties
<1>5. \A i \in (k + 1)..Len(q) : q[i] \in Cell BY <1>2
<1>6. After(q, part) \in Seq(Cell) BY <1>2, <1>4, <1>5, SubSeqProperties DEF After
<1> QED BY <1>1, <1>2, <1>4, <1>6

-------------------------------------------------------------------------------
\* The types, first and step by step.
LEMMA InitTypes == Init => TypeInv
<1> SUFFICES ASSUME Init PROVE TypeInv
  OBVIOUS
<1>1. /\ plan \in Plans /\ script = [c \in Client |-> <<>>]
      /\ sock = [c \in Client |-> 0] /\ left = [c \in Client |-> 0]
      /\ got = [c \in Client |-> <<>>] /\ told = [c \in Client |-> "nothing"]
      /\ up = <<>> /\ down = <<>> /\ owner = <<>> /\ shut = {} /\ gone = {}
      /\ s1 = 0 /\ szbuffer = "" /\ pc = <<>> /\ conn = <<>> /\ fsize = <<>> /\ written = <<>>
      /\ request = <<>>
      /\ exists \in BOOLEAN /\ deleted = FALSE /\ crashed = FALSE /\ mixed = FALSE
      /\ open = {} /\ fp = [t \in 1..MaxConns |-> 0]
  BY DEF Init
<1>2. Plans \subseteq [Client -> Seq(Choice)] /\ MaxConns \in Nat /\ Size \in Nat
  BY TcpServerAssumption
<1>3. ClientTypes
  <2>1. \A S : <<>> \in Seq(S) BY EmptySeq
  <2>2. 0 \in 0..Size BY <1>2
  <2> QED BY <1>1, <1>2, <2>1, <2>2 DEF ClientTypes
<1>4. StreamTypes
  <2>1. \A S : <<>> \in Seq(S) BY EmptySeq
  <2>2. Len(up) = 0 /\ Len(down) = 0 /\ Len(owner) = 0 BY <1>1
  <2>3. sock \in [Client -> 0..Len(up)] /\ 0 <= MaxConns
    <3>1. 0 \in 0..0 OBVIOUS
    <3>2. sock = [c \in Client |-> 0] BY <1>1
    <3>3. sock \in [Client -> 0..0] BY <3>1, <3>2
    <3>4. MaxConns \in Nat BY <1>2
    <3>5. 0 <= MaxConns BY <3>4
    <3> QED BY <2>2, <3>3, <3>5
  <2>4. up \in Seq(Seq(Cell)) /\ down \in Seq(Seq(Cell)) /\ owner \in Seq(Client)
    BY <1>1, <2>1
  <2>5. gone \subseteq 1..Len(up) BY <1>1
  <2> QED BY <2>2, <2>3, <2>4, <2>5 DEF StreamTypes
<1>5. ThreadTypes
  <2>1. Len(up) = 0 BY <1>1
  <2>2. 1..0 = {} OBVIOUS
  <2>3. \A S : <<>> \in [1..0 -> S] BY <2>2
  <2>4. 1..s1 = 1..0 /\ s1 \in 0..Len(up) /\ shut \subseteq 1..s1
    <3>1. s1 = 0 /\ shut = {} BY <1>1
    <3> QED BY <2>1, <3>1
  <2>5. /\ pc \in [1..0 -> PC] /\ conn \in [1..0 -> 0..s1]
        /\ fsize \in [1..0 -> 0..Size] /\ written \in [1..0 -> Seq(Cell)]
        /\ request \in [1..0 -> Choice \cup {"", "other"}]
    BY <1>1, <2>3
  <2> QED BY <2>4, <2>5 DEF ThreadTypes
<1>6. SharedTypes
  <2>1. 0 \in 0..MaxConns BY <1>2
  <2>2. fp \in [1..MaxConns -> 0..MaxConns] BY <1>1, <2>1
  <2> QED BY <1>1, <2>2 DEF SharedTypes
<1>7. Started BY <1>1 DEF Started
<1>8. Given
  <2>1. s1 = 0 BY <1>1
  <2>2. 1..s1 = {} BY <2>1
  <2> QED BY <2>2 DEF Given
<1> QED BY <1>3, <1>4, <1>5, <1>6, <1>7, <1>8 DEF TypeInv

\* The clients leave the threads alone; the streams only get longer.
LEMMA ClientsKeepThreads ==
  ASSUME TypeInv, Len(up)' \in Nat, Len(up) <= Len(up)',
         UNCHANGED <<shut, s1, szbuffer, threads, disk, crashed, request, mixed>>
  PROVE  ThreadTypes' /\ SharedTypes' /\ Given'
<1>1. Len(up) \in Nat BY DEF TypeInv, StreamTypes
<1>2. UNCHANGED <<shut, s1, szbuffer, pc, conn, fsize, written, open, fp, exists, deleted, crashed, request,
                  mixed>>
  BY DEF threads, disk
<1>3. s1' \in 0..Len(up)'
  <2>1. s1 \in 0..Len(up) /\ s1' = s1 BY <1>2 DEF TypeInv, ThreadTypes
  <2> QED BY <1>1, <2>1
<1>4. ThreadTypes' BY <1>2, <1>3 DEF TypeInv, ThreadTypes
<1>5. SharedTypes' /\ Given' BY <1>2 DEF TypeInv, SharedTypes, Given
<1> QED BY <1>4, <1>5

\* Going on in a script keeps the connection the client has.
LEMMA StartedGoesOn ==
  ASSUME TypeInv, NEW c \in Client, sock' = sock,
         script' \in [Client -> Seq(Op)],
         \A d \in Client \ {c} : script'[d] = script[d],
         \/ script[c] # <<>> /\ Head(script[c]) # "connect"
         \/ script'[c] = script[c]
         \/ script'[c] # <<>> => Head(script'[c]) = "connect"
  PROVE  Started'
BY DEF TypeInv, Started

LEMMA ChooseTypes ==
  ASSUME TypeInv, NEW c \in Client, Choose(c)
  PROVE  TypeInv'
<1>1. /\ script[c] = <<>> /\ plan[c] # <<>>
      /\ plan' = [plan EXCEPT ![c] = Tail(plan[c])]
      /\ UNCHANGED <<sock, left, got, told, up, down, shut, gone, s1, szbuffer, threads, disk, crashed,
                     owner, request, mixed>>
  BY DEF Choose, streams
<1>2. plan[c] \in Seq(Choice) BY DEF TypeInv, ClientTypes
<1>3. Head(plan[c]) \in Choice /\ Tail(plan[c]) \in Seq(Choice) BY <1>1, <1>2, TailTyped
<1>4. PICK s \in Calls(Head(plan[c])) : script' = [script EXCEPT ![c] = s] BY DEF Choose
<1>5. s \in Connecting /\ s \in Seq(Op) BY <1>3, ChoiceCalls
<1>6. ClientTypes' BY <1>1, <1>3, <1>4, <1>5, ExceptTyped DEF TypeInv, ClientTypes
<1>7. StreamTypes' BY <1>1 DEF TypeInv, StreamTypes
<1>8. ThreadTypes' /\ SharedTypes' /\ Given'
  <2>1. Len(up) \in Nat BY DEF TypeInv, StreamTypes
  <2> QED BY <1>1, <2>1, ClientsKeepThreads
<1>9. Started'
  <2>1. Head(s) = "connect" BY <1>5, AfterConnect
  <2>2. script \in [Client -> Seq(Op)] BY DEF TypeInv, ClientTypes
  <2>3. script'[c] = s /\ \A d \in Client \ {c} : script'[d] = script[d] BY <1>4, <2>2
  <2> QED BY <1>1, <1>6, <2>1, <2>3, StartedGoesOn DEF ClientTypes
<1> QED BY <1>6, <1>7, <1>8, <1>9 DEF TypeInv

LEMMA ConnectTypes ==
  ASSUME TypeInv, NEW c \in Client, connectServer(c)
  PROVE  TypeInv'
<1> DEFINE n == Len(up)
<1>1. /\ script[c] # <<>> /\ Head(script[c]) = "connect" /\ n < MaxConns
      /\ up' = Append(up, <<>>) /\ down' = Append(down, <<>>) /\ owner' = Append(owner, c)
      /\ sock' = [sock EXCEPT ![c] = Len(up')] /\ script' = [script EXCEPT ![c] = Tail(script[c])]
      /\ UNCHANGED <<plan, left, got, told, shut, gone, s1, szbuffer, threads, disk, crashed, request,
                     mixed>>
  BY DEF connectServer, At, Return
<1>2. /\ up \in Seq(Seq(Cell)) /\ down \in Seq(Seq(Cell)) /\ owner \in Seq(Client)
      /\ Len(down) = n /\ Len(owner) = n /\ n \in Nat /\ MaxConns \in Nat
      /\ sock \in [Client -> 0..n] /\ gone \subseteq 1..n /\ script \in [Client -> Seq(Op)]
  BY TcpServerAssumption DEF TypeInv, StreamTypes, ClientTypes
<1>3. <<>> \in Seq(Cell) BY EmptySeq
<1>4. up' \in Seq(Seq(Cell)) /\ Len(up') = n + 1 BY <1>1, <1>2, <1>3, Appended
<1>5. down' \in Seq(Seq(Cell)) /\ Len(down') = n + 1 BY <1>1, <1>2, <1>3, Appended
<1>6. owner' \in Seq(Client) /\ Len(owner') = n + 1 BY <1>1, <1>2, Appended
<1>7. script' \in [Client -> Seq(Op)]
  <2>1. Tail(script[c]) \in Seq(Op) BY <1>1, <1>2, TailTyped
  <2> QED BY <1>1, <1>2, <2>1, ExceptTyped
<1>8. ClientTypes' BY <1>1, <1>7 DEF TypeInv, ClientTypes
<1>9. sock' \in [Client -> 0..(n + 1)]
  <2>1. n + 1 \in 0..(n + 1) /\ 0..n \subseteq 0..(n + 1) BY <1>2
  <2>2. sock \in [Client -> 0..(n + 1)] BY <1>2, <2>1
  <2> QED BY <1>1, <1>4, <2>1, <2>2
<1>10. StreamTypes'
  <2>1. n + 1 <= MaxConns BY <1>1, <1>2
  <2>2. gone' \subseteq 1..(n + 1)
    <3>1. 1..n \subseteq 1..(n + 1) BY <1>2
    <3> QED BY <1>1, <1>2, <3>1
  <2> QED BY <1>4, <1>5, <1>6, <1>9, <2>1, <2>2 DEF StreamTypes
<1>11. ThreadTypes' /\ SharedTypes' /\ Given'
  <2>1. Len(up)' \in Nat /\ Len(up) <= Len(up)' BY <1>2, <1>4
  <2> QED BY <1>1, <2>1, ClientsKeepThreads
<1>12. Started'
  <2>1. sock'[c] # 0 /\ \A d \in Client \ {c} : sock'[d] = sock[d] /\ script'[d] = script[d]
    BY <1>1, <1>2, <1>4
  <2> QED BY <2>1 DEF TypeInv, Started
<1> QED BY <1>8, <1>10, <1>11, <1>12 DEF TypeInv

LEMMA CloseTypes ==
  ASSUME TypeInv, NEW c \in Client, closeconnect(c)
  PROVE  TypeInv'
<1>1. /\ script[c] # <<>> /\ Head(script[c]) = "close" /\ gone' = gone \cup {sock[c]}
      /\ script' = [script EXCEPT ![c] = Tail(script[c])]
      /\ UNCHANGED <<plan, sock, left, got, told, up, down, shut, s1, szbuffer, threads, disk, crashed,
                     owner, request, mixed>>
  BY DEF closeconnect, At, Return
<1>2. script \in [Client -> Seq(Op)] BY DEF TypeInv, ClientTypes
<1>3. script' \in [Client -> Seq(Op)]
  <2>1. Tail(script[c]) \in Seq(Op) BY <1>1, <1>2, TailTyped
  <2> QED BY <1>1, <1>2, <2>1, ExceptTyped
<1>4. ClientTypes' BY <1>1, <1>3 DEF TypeInv, ClientTypes
<1>5. StreamTypes'
  <2>1. sock[c] \in 1..Len(up)
    <3>1. sock[c] \in 0..Len(up) /\ Len(up) \in Nat BY DEF TypeInv, StreamTypes
    <3>2. sock[c] # 0 BY <1>1 DEF TypeInv, Started
    <3> QED BY <3>1, <3>2
  <2> QED BY <1>1, <2>1 DEF TypeInv, StreamTypes
<1>6. ThreadTypes' /\ SharedTypes' /\ Given'
  <2>1. Len(up) \in Nat BY DEF TypeInv, StreamTypes
  <2> QED BY <1>1, <2>1, ClientsKeepThreads
<1>7. Started'
  <2>1. \A d \in Client \ {c} : script'[d] = script[d] BY <1>1, <1>2
  <2>2. sock' = sock BY <1>1
  <2> QED BY <1>1, <1>3, <2>1, <2>2, StartedGoesOn
<1> QED BY <1>4, <1>5, <1>6, <1>7 DEF TypeInv

LEMMA SendTypes ==
  ASSUME TypeInv, NEW c \in Client, ClientSend(c)
  PROVE  TypeInv'
<1>1. PICK op \in Sends :
        /\ script[c] # <<>> /\ Head(script[c]) = op
        /\ up' = [up EXCEPT ![sock[c]] = up[sock[c]] \o IF op = "data" THEN File ELSE <<Record(op)>>]
  BY DEF ClientSend, At
<1>2. /\ script' = [script EXCEPT ![c] = Tail(script[c])]
      /\ UNCHANGED <<plan, sock, left, got, told, down, shut, gone, s1, szbuffer, threads, disk,
                     crashed, owner, request, mixed>>
  BY DEF ClientSend, Return
<1>3. script \in [Client -> Seq(Op)] BY DEF TypeInv, ClientTypes
<1>4. script' \in [Client -> Seq(Op)]
  <2>1. Tail(script[c]) \in Seq(Op) BY <1>1, <1>3, TailTyped
  <2> QED BY <1>2, <1>3, <2>1, ExceptTyped
<1>5. ClientTypes' BY <1>2, <1>4 DEF TypeInv, ClientTypes
<1>6. up \in Seq(Seq(Cell)) /\ Len(up) \in Nat BY DEF TypeInv, StreamTypes
<1>7. up' \in Seq(Seq(Cell)) /\ Len(up') = Len(up)
  <2> DEFINE cells == IF op = "data" THEN File ELSE <<Record(op)>>
  <2>1. cells \in Seq(Cell) BY CellsTyped DEF Sends
  <2>2. sock[c] \in 1..Len(up) => up[sock[c]] \o cells \in Seq(Cell)
    BY <1>6, <2>1, ConcatProperties, ElementOfSeq
  <2> QED BY <1>1, <1>6, <2>2, ElementSet
<1>8. StreamTypes' BY <1>2, <1>7 DEF TypeInv, StreamTypes
<1>9. ThreadTypes' /\ SharedTypes' /\ Given'
  <2>1. Len(up)' \in Nat /\ Len(up) <= Len(up)' BY <1>6, <1>7
  <2> QED BY <1>2, <2>1, ClientsKeepThreads
<1>10. Started'
  <2>1. Head(script[c]) # "connect" BY <1>1 DEF Sends, Choice
  <2>2. \A d \in Client \ {c} : script'[d] = script[d] BY <1>2, <1>3
  <2>3. sock' = sock BY <1>2
  <2> QED BY <1>1, <1>4, <2>1, <2>2, <2>3, StartedGoesOn
<1> QED BY <1>5, <1>8, <1>9, <1>10 DEF TypeInv

(* A client's recv changes its own stream and what it does with what came  *)
(* in: its script goes on, or ends.                                        *)
LEMMA GoesOn ==
  ASSUME TypeInv, NEW c \in Client, NEW ops, ops # "connect",
         script[c] # <<>>, Head(script[c]) = ops,
         \/ Return(c) \/ UNCHANGED script \/ script' = [script EXCEPT ![c] = <<>>],
         sock' = sock
  PROVE  script' \in [Client -> Seq(Op)] /\ Started'
<1>1. script \in [Client -> Seq(Op)] BY DEF TypeInv, ClientTypes
<1>2. Tail(script[c]) \in Seq(Op) /\ <<>> \in Seq(Op) BY <1>1, TailTyped, EmptySeq
<1>3. script' \in [Client -> Seq(Op)] BY <1>1, <1>2, ExceptTyped DEF Return
<1>4. \A d \in Client \ {c} : script'[d] = script[d] BY <1>1 DEF Return
<1> QED BY <1>3, <1>4, StartedGoesOn

LEMMA ReceivedTypes ==
  ASSUME TypeInv, NEW c \in Client, Received(c)
  PROVE  down' \in Seq(Seq(Cell)) /\ Len(down') = Len(down)
<1>1. sock[c] # 0 /\ down[sock[c]] # <<>> /\ down' = [down EXCEPT ![sock[c]] = Tail(down[sock[c]])]
  BY DEF Received
<1>2. down \in Seq(Seq(Cell)) /\ Len(down) = Len(up) /\ sock[c] \in 0..Len(up) /\ Len(up) \in Nat
  BY DEF TypeInv, StreamTypes
<1>3. sock[c] \in 1..Len(down) BY <1>1, <1>2
<1>4. down[sock[c]] \in Seq(Cell) BY <1>2, <1>3, ElementOfSeq
<1>5. Tail(down[sock[c]]) \in Seq(Cell) BY <1>1, <1>4, TailTyped
<1> QED BY <1>1, <1>2, <1>5, ElementSet

LEMMA ClientRecvTypes ==
  ASSUME TypeInv, NEW c \in Client, ClientRecv(c)
  PROVE  TypeInv'
<1> DEFINE Result == /\ script' \in [Client -> Seq(Op)] /\ Started'
                     /\ down' \in Seq(Seq(Cell)) /\ Len(down') = Len(down)
                     /\ left' \in [Client -> 0..Size] /\ got' \in [Client -> Seq(Cell)]
                     /\ told' \in [Client -> {"nothing", "deleted", "missing"}]
<1>1. UNCHANGED <<plan, sock, up, shut, gone, s1, szbuffer, threads, disk, crashed, owner, request,
                  mixed>>
  BY DEF ClientRecv
<1>2. /\ left \in [Client -> 0..Size] /\ got \in [Client -> Seq(Cell)]
      /\ told \in [Client -> {"nothing", "deleted", "missing"}]
      /\ down \in Seq(Seq(Cell)) /\ sock' = sock /\ Size \in Nat
  BY <1>1, TcpServerAssumption DEF TypeInv, ClientTypes, StreamTypes
<1>3. Received(c) \/ Disconnected(c) => down' \in Seq(Seq(Cell)) /\ Len(down') = Len(down)
  BY <1>2, ReceivedTypes DEF Disconnected
<1>4. ASSUME recvList(c) PROVE Result
  <2>1. script[c] # <<>> /\ Head(script[c]) = "list" /\ (Return(c) \/ UNCHANGED script)
    BY <1>4 DEF recvList, At
  <2>2. script' \in [Client -> Seq(Op)] /\ Started' BY <1>2, <2>1, GoesOn
  <2>3. Received(c) /\ UNCHANGED <<left, got, told>> BY <1>4 DEF recvList
  <2> QED BY <1>2, <1>3, <2>2, <2>3
<1>5. ASSUME recvEcho(c) PROVE Result
  <2>1. script[c] # <<>> /\ Head(script[c]) \in {"echo", "again"} /\ Return(c)
    BY <1>5 DEF recvEcho, At
  <2>2. script' \in [Client -> Seq(Op)] /\ Started' BY <1>2, <2>1, GoesOn
  <2>3. (Received(c) \/ Disconnected(c)) /\ UNCHANGED <<left, got, told>> BY <1>5 DEF recvEcho
  <2> QED BY <1>2, <1>3, <2>2, <2>3
<1>6. ASSUME recvResponse(c) PROVE Result
  <2>1. /\ script[c] # <<>> /\ Head(script[c]) = "response"
        /\ Return(c) \/ script' = [script EXCEPT ![c] = <<>>]
    BY <1>6 DEF recvResponse, At
  <2>2. script' \in [Client -> Seq(Op)] /\ Started' BY <1>2, <2>1, GoesOn
  <2>3. (Received(c) \/ Disconnected(c)) /\ UNCHANGED told BY <1>6 DEF recvResponse
  <2>4. \/ left' = [left EXCEPT ![c] = Size] /\ got' = [got EXCEPT ![c] = <<>>]
        \/ UNCHANGED <<left, got>>
    BY <1>6 DEF recvResponse
  <2>5. Size \in 0..Size /\ <<>> \in Seq(Cell) BY <1>2, EmptySeq
  <2>6. left' \in [Client -> 0..Size] /\ got' \in [Client -> Seq(Cell)]
    <3>1. left \in [Client -> 0..Size] /\ got \in [Client -> Seq(Cell)] BY <1>2
    <3>2. CASE UNCHANGED <<left, got>> BY <3>1, <3>2
    <3>3. CASE left' = [left EXCEPT ![c] = Size] /\ got' = [got EXCEPT ![c] = <<>>]
      <4>1. left' \in [Client -> 0..Size] BY <2>5, <3>1, <3>3, ExceptTyped
      <4>2. got' \in [Client -> Seq(Cell)] BY <2>5, <3>1, <3>3, ExceptTyped
      <4> QED BY <4>1, <4>2
    <3> QED BY <2>4, <3>2, <3>3
  <2> QED BY <1>2, <1>3, <2>2, <2>3, <2>6
<1>7. ASSUME recvChunks(c) PROVE Result
  <2>1. /\ script[c] # <<>> /\ Head(script[c]) = "chunks"
        /\ Return(c) \/ UNCHANGED script
        /\ UNCHANGED told
    BY <1>7 DEF recvChunks, At
  <2>2. script' \in [Client -> Seq(Op)] /\ Started' BY <1>2, <2>1, GoesOn
  <2>3. ASSUME UNCHANGED <<down, got, left>> PROVE Result BY <1>2, <2>1, <2>2, <2>3
  <2>4. ASSUME NEW part \in Parts(down[sock[c]], left[c]), left[c] > 0,
               down' = [down EXCEPT ![sock[c]] = After(down[sock[c]], part)],
               got' = [got EXCEPT ![c] = got[c] \o part],
               left' = [left EXCEPT ![c] = left[c] - Len(part)]
        PROVE  Result
    <3>1. sock[c] \in 1..Len(down)
      <4>1. sock[c] \in 0..Len(up) /\ Len(down) = Len(up) /\ Len(up) \in Nat
        BY DEF TypeInv, StreamTypes
      <4>2. sock[c] # 0 BY <2>1 DEF TypeInv, Started
      <4> QED BY <4>1, <4>2
    <3>2. down[sock[c]] \in Seq(Cell) BY <1>2, <3>1, ElementOfSeq
    <3>3. left[c] \in Nat /\ left[c] <= Size BY <1>2
    <3>4. /\ part \in Seq(Cell) /\ Len(part) \in 1..left[c]
          /\ After(down[sock[c]], part) \in Seq(Cell)
      BY <3>2, <3>3, PartsTyped
    <3>5. down' \in Seq(Seq(Cell)) /\ Len(down') = Len(down)
      <4>1. down \in Seq(Seq(Cell)) BY <1>2
      <4>2. After(down[sock[c]], part) \in Seq(Cell) BY <3>4
      <4>3. down' = [down EXCEPT ![sock[c]] = After(down[sock[c]], part)] BY <2>4
      <4> QED BY <4>1, <4>2, <4>3, ElementSet
    <3>6. left[c] - Len(part) \in 0..Size BY <1>2, <3>3, <3>4
    <3>7. got[c] \o part \in Seq(Cell) BY <1>2, <3>4, ConcatProperties
    <3>8. left' \in [Client -> 0..Size] BY <1>2, <2>4, <3>6, ExceptTyped
    <3>9. got' \in [Client -> Seq(Cell)] BY <1>2, <2>4, <3>7, ExceptTyped
    <3> QED BY <1>2, <2>1, <2>2, <3>5, <3>8, <3>9
  <2> QED BY <1>7, <2>3, <2>4 DEF recvChunks
<1>8. ASSUME recvVerdict(c) PROVE Result
  <2>1. /\ script[c] # <<>> /\ Head(script[c]) = "verdict"
        /\ Return(c) \/ script' = [script EXCEPT ![c] = <<>>]
        /\ Received(c) \/ Disconnected(c)
        /\ UNCHANGED <<left, got>>
    BY <1>8 DEF recvVerdict, At
  <2>2. script' \in [Client -> Seq(Op)] /\ Started' BY <1>2, <2>1, GoesOn
  <2>3. told' = [told EXCEPT ![c] = "deleted"] \/ told' = [told EXCEPT ![c] = "missing"]
    BY <1>8 DEF recvVerdict
  <2>4. told' \in [Client -> {"nothing", "deleted", "missing"}] BY <1>2, <2>3, ExceptTyped
  <2> QED BY <1>2, <1>3, <2>1, <2>2, <2>4
<1>9. Result BY <1>4, <1>5, <1>6, <1>7, <1>8 DEF ClientRecv
<1>10. ClientTypes' BY <1>1, <1>9 DEF TypeInv, ClientTypes
<1>11. StreamTypes' BY <1>1, <1>9 DEF TypeInv, StreamTypes
<1>12. ThreadTypes' /\ SharedTypes' /\ Given'
  <2>1. Len(up) \in Nat BY DEF TypeInv, StreamTypes
  <2> QED BY <1>1, <2>1, ClientsKeepThreads
<1> QED BY <1>9, <1>10, <1>11, <1>12 DEF TypeInv

-------------------------------------------------------------------------------
\* The server's steps: they leave the clients alone.
LEMMA ServerKeepsClients ==
  ASSUME TypeInv, UNCHANGED <<clients, gone, owner>>,
         up' \in Seq(Seq(Cell)), Len(up') = Len(up),
         down' \in Seq(Seq(Cell)), Len(down') = Len(down)
  PROVE  ClientTypes' /\ StreamTypes' /\ Started'
<1>1. UNCHANGED <<plan, script, sock, left, got, told, gone, owner>> BY DEF clients
<1>2. ClientTypes' /\ Started' BY <1>1 DEF TypeInv, ClientTypes, Started
<1>3. StreamTypes' BY <1>1 DEF TypeInv, StreamTypes
<1> QED BY <1>2, <1>3

LEMMA Lengths ==
  TypeInv => s1 \in Nat /\ Len(up) \in Nat /\ s1 <= Len(up) /\ 1..s1 \subseteq 1..Len(up)
<1> SUFFICES ASSUME TypeInv
             PROVE  s1 \in Nat /\ Len(up) \in Nat /\ s1 <= Len(up) /\ 1..s1 \subseteq 1..Len(up)
  OBVIOUS
<1>1. Len(up) \in Nat BY DEF TypeInv, StreamTypes
<1>2. s1 \in 0..Len(up) BY DEF TypeInv, ThreadTypes
<1> QED BY <1>1, <1>2

LEMMA ReadTypes ==
  ASSUME TypeInv, NEW t \in 1..s1, pc[t] \notin {"memset", "call"}, NEW kind, Recv(t, kind)
  PROVE  up' \in Seq(Seq(Cell)) /\ Len(up') = Len(up)
<1> DEFINE c == conn[t]
<1>1. up \in Seq(Seq(Cell)) /\ s1 \in Nat /\ Len(up) \in Nat /\ s1 <= Len(up)
  BY Lengths DEF TypeInv, StreamTypes
<1>2. c \in 1..Len(up)
  <2>1. c \in 0..s1 BY DEF TypeInv, ThreadTypes
  <2>2. c # 0 BY DEF TypeInv, Given
  <2> QED BY <1>1, <2>1, <2>2
<1>3. CASE up[c] # <<>> /\ up' = [up EXCEPT ![c] = Tail(up[c])]
  <2>1. up[c] \in Seq(Cell) BY <1>1, <1>2, ElementOfSeq
  <2>2. Tail(up[c]) \in Seq(Cell) BY <1>3, <2>1, TailTyped
  <2> QED BY <1>1, <1>3, <2>2, ElementSet
<1>4. CASE UNCHANGED up BY <1>1, <1>4
<1> QED BY <1>3, <1>4 DEF Recv

LEMMA SendTyped ==
  ASSUME TypeInv, NEW c, NEW cells \in Seq(Cell), Send(c, cells)
  PROVE  down' \in Seq(Seq(Cell)) /\ Len(down') = Len(down)
<1>1. down \in Seq(Seq(Cell)) BY DEF TypeInv, StreamTypes
<1>2. CASE down' = down BY <1>1, <1>2
<1>3. CASE down' = [down EXCEPT ![c] = down[c] \o cells]
  <2>1. c \in 1..Len(down) => down[c] \in Seq(Cell) BY <1>1, ElementOfSeq
  <2>2. c \in 1..Len(down) => down[c] \o cells \in Seq(Cell) BY <2>1, ConcatProperties
  <2> QED BY <1>1, <1>3, <2>2, ElementSet
<1> QED BY <1>2, <1>3 DEF Send

\* A thread goes on to label.
LEMMA GotoTypes ==
  ASSUME TypeInv, NEW t \in 1..s1, NEW label \in PC, Goto(t, label), s1' = s1,
         \/ conn' = [conn EXCEPT ![t] = s1]
         \/ conn' = conn /\ (pc[t] \notin {"memset", "call"} \/ label \in {"memset", "call"})
  PROVE  pc' \in [1..s1 -> PC] /\ conn' \in [1..s1 -> 0..s1] /\ Given'
<1>1. pc \in [1..s1 -> PC] /\ conn \in [1..s1 -> 0..s1] BY DEF TypeInv, ThreadTypes
<1>2. s1 \in Nat BY Lengths
<1>3. s1 \in 0..s1 /\ s1 # 0 BY <1>2
<1>4. pc' \in [1..s1 -> PC] BY <1>1, ExceptTyped DEF Goto
<1>5. conn' \in [1..s1 -> 0..s1] BY <1>1, <1>3, ExceptTyped
<1>6. \A k \in 1..s1 : pc'[k] = IF k = t THEN label ELSE pc[k] BY <1>1 DEF Goto
<1>7. \A k \in 1..s1 : conn'[k] = conn[k] \/ conn'[k] = s1 BY <1>1
<1>8. conn'[t] = s1 \/ (conn'[t] = conn[t] /\ (pc[t] \notin {"memset", "call"} \/ label \in {"memset", "call"}))
  BY <1>1
<1>9. ASSUME NEW k \in 1..s1, pc'[k] \notin {"memset", "call"} PROVE conn'[k] # 0
  <2>1. \A j \in 1..s1 : pc[j] \notin {"memset", "call"} => conn[j] # 0 BY DEF TypeInv, Given
  <2>2. CASE k = t BY <1>3, <1>6, <1>8, <1>9, <2>1, <2>2
  <2>3. CASE k # t BY <1>3, <1>6, <1>7, <1>9, <2>1, <2>3
  <2> QED BY <2>2, <2>3
<1> QED BY <1>4, <1>5, <1>9 DEF Given

LEMMA AcceptTypes ==
  ASSUME TypeInv, accept
  PROVE  TypeInv'
<1>1. /\ s1 < Len(up) /\ s1' = s1 + 1
      /\ pc' = Append(pc, "memset") /\ conn' = Append(conn, 0)
      /\ fsize' = Append(fsize, 0) /\ written' = Append(written, <<>>)
      /\ request' = Append(request, "")
      /\ UNCHANGED <<clients, up, down, shut, gone, szbuffer, open, fp, exists, deleted, crashed, owner, mixed>>
  BY DEF accept, streams, disk
<1>2. /\ s1 \in 0..Len(up) /\ shut \subseteq 1..s1
      /\ pc \in [1..s1 -> PC] /\ conn \in [1..s1 -> 0..s1]
      /\ fsize \in [1..s1 -> 0..Size] /\ written \in [1..s1 -> Seq(Cell)]
      /\ request \in [1..s1 -> Choice \cup {"", "other"}]
  BY DEF TypeInv, ThreadTypes
<1>3. /\ up \in Seq(Seq(Cell)) /\ down \in Seq(Seq(Cell)) /\ Len(up) \in Nat
  BY DEF TypeInv, StreamTypes
<1>4. s1 \in Nat /\ s1 + 1 \in Nat BY Lengths
<1>5. ClientTypes' /\ StreamTypes' /\ Started' BY <1>1, <1>3, ServerKeepsClients
<1>6. ThreadTypes'
  <2> s1' = s1 + 1 BY <1>1
  <2>1. s1' \in 0..Len(up)'
    <3>1. Len(up)' = Len(up) /\ s1 < Len(up) BY <1>1
    <3>2. s1 \in Nat /\ Len(up) \in Nat BY Lengths
    <3> QED BY <3>1, <3>2
  <2>2. 1..s1 \subseteq 1..s1' BY <1>4
  <2>3. shut' \subseteq 1..s1' BY <1>1, <1>2, <2>2
  <2>4. pc' \in [1..s1' -> PC]
    <3>1. "memset" \in PC BY DEF PC
    <3> QED BY <1>1, <1>2, <1>4, <3>1, OneMore
  <2>5. conn' \in [1..s1' -> 0..s1']
    <3>1. 0..s1 \subseteq 0..(s1 + 1) /\ 0 \in 0..(s1 + 1) BY <1>4
    <3>2. conn \in [1..s1 -> 0..(s1 + 1)] BY <1>2, <3>1
    <3> QED BY <1>1, <1>4, <3>1, <3>2, OneMore
  <2>6. fsize' \in [1..s1' -> 0..Size]
    <3>1. 0 \in 0..Size BY TcpServerAssumption
    <3> QED BY <1>1, <1>2, <1>4, <3>1, OneMore
  <2>7. written' \in [1..s1' -> Seq(Cell)]
    <3>1. <<>> \in Seq(Cell) BY EmptySeq
    <3> QED BY <1>1, <1>2, <1>4, <3>1, OneMore
  <2>8. request' \in [1..s1' -> Choice \cup {"", "other"}]
    <3>1. "" \in Choice \cup {"", "other"} OBVIOUS
    <3> QED BY <1>1, <1>2, <1>4, <3>1, OneMore
  <2> QED BY <2>1, <2>3, <2>4, <2>5, <2>6, <2>7, <2>8 DEF ThreadTypes
<1>7. SharedTypes' BY <1>1 DEF TypeInv, SharedTypes
<1>8. Given'
  <2>1. \A t \in 1..s1 : pc'[t] = pc[t] /\ conn'[t] = conn[t]
    <3>1. \A t \in 1..s1 : pc'[t] = pc[t]
      <4>1. pc \in [1..s1 -> PC] /\ "memset" \in PC /\ pc' = Append(pc, "memset")
        BY <1>1, <1>2 DEF PC
      <4> QED BY <1>4, <4>1, OneMore
    <3>2. \A t \in 1..s1 : conn'[t] = conn[t]
      <4>1. conn \in [1..s1 -> Nat] /\ 0 \in Nat
        <5>1. conn \in [1..s1 -> 0..s1] BY <1>2
        <5>2. 0..s1 \subseteq Nat BY <1>4
        <5> QED BY <5>1, <5>2
      <4>2. conn' = Append(conn, 0) BY <1>1
      <4> QED BY <1>4, <4>1, <4>2, OneMore
    <3> QED BY <3>1, <3>2
  <2>2. pc'[s1 + 1] = "memset"
    <3>1. pc \in [1..s1 -> PC] /\ "memset" \in PC /\ pc' = Append(pc, "memset")
      BY <1>1, <1>2 DEF PC
    <3> QED BY <1>4, <3>1, OneMore
  <2>3. \A t \in 1..s1' : t \in 1..s1 \/ t = s1 + 1
    <3>1. s1' = s1 + 1 BY <1>1
    <3> QED BY <1>4, <3>1
  <2> QED BY <2>1, <2>2, <2>3 DEF TypeInv, Given
<1> QED BY <1>5, <1>6, <1>7, <1>8 DEF TypeInv

(* What every step of a thread keeps, and what is left to show of it.      *)
LEMMA StepTypes ==
  ASSUME TypeInv, NEW t \in 1..s1, NEW label \in PC, Goto(t, label),
         UNCHANGED <<clients, gone, owner, s1>>,
         \/ conn' = [conn EXCEPT ![t] = s1]
         \/ conn' = conn /\ (pc[t] \notin {"memset", "call"} \/ label \in {"memset", "call"}),
         up' \in Seq(Seq(Cell)), Len(up') = Len(up),
         down' \in Seq(Seq(Cell)), Len(down') = Len(down),
         shut' \subseteq 1..s1, fsize' \in [1..s1 -> 0..Size], written' \in [1..s1 -> Seq(Cell)],
         request' \in [1..s1 -> Choice \cup {"", "other"}],
         SharedTypes'
  PROVE  TypeInv'
<1>1. s1' = s1 OBVIOUS
<1>2. ClientTypes' /\ StreamTypes' /\ Started' BY ServerKeepsClients
<1>3. pc' \in [1..s1 -> PC] /\ conn' \in [1..s1 -> 0..s1] /\ Given' BY <1>1, GotoTypes
<1>4. s1' \in 0..Len(up)' BY <1>1 DEF TypeInv, ThreadTypes
<1>5. ThreadTypes' BY <1>1, <1>3, <1>4 DEF ThreadTypes
<1> QED BY <1>2, <1>3, <1>5 DEF TypeInv

\* What is there before a thread's step.
LEMMA Before ==
  ASSUME TypeInv
  PROVE  /\ up \in Seq(Seq(Cell)) /\ down \in Seq(Seq(Cell)) /\ Len(down) = Len(up)
         /\ shut \subseteq 1..s1 /\ fsize \in [1..s1 -> 0..Size] /\ written \in [1..s1 -> Seq(Cell)]
         /\ request \in [1..s1 -> Choice \cup {"", "other"}] /\ pc \in [1..s1 -> PC]
         /\ szbuffer \in Choice \cup {"", "other"}
         /\ exists \in BOOLEAN /\ crashed \in BOOLEAN /\ deleted \in BOOLEAN /\ mixed \in BOOLEAN
         /\ open \subseteq 1..MaxConns /\ fp \in [1..MaxConns -> 0..MaxConns]
BY DEF TypeInv, StreamTypes, ThreadTypes, SharedTypes

\* A thread is given a FILE, or closes the one it has.
LEMMA OpenTypes ==
  ASSUME TypeInv, NEW t \in 1..s1, OpenFile(t)
  PROVE  open' \subseteq 1..MaxConns /\ fp' \in [1..MaxConns -> 0..MaxConns]
<1>1. PICK n \in 1..s1 \ open : open' = open \cup {n} /\ fp' = [fp EXCEPT ![t] = n] BY DEF OpenFile
<1>2. s1 \in Nat /\ Len(up) \in Nat /\ s1 <= Len(up) BY Lengths
<1>3. Len(up) <= MaxConns /\ MaxConns \in Nat BY TcpServerAssumption DEF TypeInv, StreamTypes
<1>4. s1 <= MaxConns BY <1>2, <1>3
<1>5. n \in 1..MaxConns /\ n \in 0..MaxConns BY <1>2, <1>3, <1>4
<1>6. open \subseteq 1..MaxConns /\ fp \in [1..MaxConns -> 0..MaxConns] BY Before
<1>7. fp' \in [1..MaxConns -> 0..MaxConns] BY <1>1, <1>5, <1>6, ExceptTyped
<1> QED BY <1>1, <1>5, <1>6, <1>7

LEMMA FcloseTypes ==
  ASSUME TypeInv, NEW t, fclose(t)
  PROVE  open' \subseteq 1..MaxConns /\ fp' \in [1..MaxConns -> 0..MaxConns]
BY Before DEF fclose

LEMMA ShutTypes ==
  ASSUME TypeInv, NEW t \in 1..s1, pc[t] \notin {"memset", "call"}, closesocket(t)
  PROVE  shut' \subseteq 1..s1
<1>1. s1 \in Nat BY Lengths
<1>2. conn[t] \in 0..s1 /\ conn[t] # 0 BY DEF TypeInv, ThreadTypes, Given
<1>3. conn[t] \in 1..s1 BY <1>1, <1>2
<1> QED BY <1>3 DEF closesocket, TypeInv, ThreadTypes

LEMMA CallTypes ==
  ASSUME TypeInv, NEW t \in 1..s1, memset(t) \/ call(t), UNCHANGED owner
  PROVE  TypeInv'
<1>1. CASE memset(t)
  <2>1. /\ pc[t] = "memset" /\ szbuffer' = "" /\ Goto(t, "call")
        /\ UNCHANGED <<clients, up, down, shut, gone, s1, conn, fsize, written, open, fp, exists, deleted,
                       crashed, request, mixed>>
    BY <1>1 DEF memset, streams, disk
  <2>2. SharedTypes' BY <2>1 DEF TypeInv, SharedTypes
  <2>3. "call" \in PC BY DEF PC
  <2> QED BY <2>1, <2>2, <2>3, Before, StepTypes
<1>2. CASE call(t)
  <2>1. /\ pc[t] \in DOMAIN Callee /\ conn' = [conn EXCEPT ![t] = s1] /\ Goto(t, Callee[pc[t]])
        /\ mixed' = (mixed \/ s1 # t)
        /\ UNCHANGED <<clients, up, down, shut, gone, s1, szbuffer, fsize, written, open, fp, exists, deleted,
                       crashed, request>>
    BY <1>2 DEF call, streams, disk
  <2>2. SharedTypes' BY <2>1 DEF TypeInv, SharedTypes
  <2>3. Callee[pc[t]] \in PC BY <2>1 DEF PC, Callee
  <2> QED BY <2>1, <2>2, <2>3, Before, StepTypes
<1> QED BY <1>1, <1>2

LEMMA RequestTypes ==
  ASSUME TypeInv, NEW t \in 1..s1, recvRequest(t), UNCHANGED owner
  PROVE  TypeInv'
<1>1. PICK kind \in RecordKind :
        /\ Recv(t, kind)
        /\ szbuffer' \in Filled(kind)
        /\ request' = [request EXCEPT ![t] = IF kind \in Choice \cup {""} THEN kind ELSE "other"]
  BY DEF recvRequest
<1>2. /\ pc[t] = "recv" /\ crashed' = (conn[t] \in shut) /\ Goto(t, "LIST")
      /\ UNCHANGED <<clients, down, shut, gone, s1, conn, fsize, written, open, fp, exists, deleted, mixed>>
  BY DEF recvRequest, disk
<1>3. up' \in Seq(Seq(Cell)) /\ Len(up') = Len(up) BY <1>1, <1>2, ReadTypes
<1>4. szbuffer' \in Choice \cup {"", "other"}
  <2>1. szbuffer \in Choice \cup {"", "other"} BY Before
  <2>2. "LIST" \in Choice BY DEF Choice
  <2> QED BY <1>1, <2>1, <2>2 DEF Filled
<1>5. request' \in [1..s1 -> Choice \cup {"", "other"}]
  <2>1. request \in [1..s1 -> Choice \cup {"", "other"}] BY Before
  <2>2. (IF kind \in Choice \cup {""} THEN kind ELSE "other") \in Choice \cup {"", "other"} OBVIOUS
  <2> QED BY <1>1, <2>1, <2>2, ExceptTyped
<1>6. SharedTypes'
  <2>1. crashed' \in BOOLEAN BY <1>2
  <2> QED BY <1>2, <1>4, <2>1, Before DEF SharedTypes
<1>7. "LIST" \in PC BY DEF PC
<1> QED BY <1>2, <1>3, <1>5, <1>6, <1>7, Before, StepTypes

LEMMA CommandTypes ==
  ASSUME TypeInv, NEW t \in 1..s1, UNCHANGED owner,
         otherCommand(t) \/ listFiles(t) \/ command(t)
  PROVE  TypeInv'
<1>1. CASE otherCommand(t)
  <2>1. /\ pc[t] \in Choice /\ Goto(t, NextTest[pc[t]]) /\ mixed' = (mixed \/ Mixes(t))
        /\ UNCHANGED <<clients, up, down, shut, gone, s1, szbuffer, conn, fsize, written, open, fp, exists,
                       deleted, crashed, request>>
    BY <1>1 DEF otherCommand, streams, disk
  <2>2. SharedTypes' BY <2>1 DEF TypeInv, SharedTypes
  <2>3. NextTest[pc[t]] \in PC /\ pc[t] \notin {"memset", "call"} BY <2>1 DEF PC, NextTest, Choice
  <2> QED BY <2>1, <2>2, <2>3, Before, StepTypes
<1>2. CASE listFiles(t)
  <2> DEFINE cells == [k \in 1..(Entries + 1) |-> Record(IF k <= Entries THEN "entry" ELSE "@")]
  <2>1. /\ pc[t] = "LIST" /\ Goto(t, "GET") /\ mixed' = (mixed \/ Mixes(t)) /\ Send(s1, cells)
        /\ UNCHANGED <<clients, up, shut, gone, s1, szbuffer, conn, fsize, written, open, fp, exists,
                       deleted, crashed, request>>
    BY <1>2 DEF listFiles, disk
  <2>2. SharedTypes' BY <2>1 DEF TypeInv, SharedTypes
  <2>3. cells \in Seq(Cell)
    <3>1. Entries + 1 \in Nat BY TcpServerAssumption
    <3>2. Record("entry") \in Cell /\ Record("@") \in Cell BY CellsTyped
    <3>3. \A k \in 1..(Entries + 1) : Record(IF k <= Entries THEN "entry" ELSE "@") \in Cell
      BY <3>2
    <3> QED BY <3>1, <3>3
  <2> HIDE DEF cells
  <2>4. down' \in Seq(Seq(Cell)) /\ Len(down') = Len(down) BY <2>1, <2>3, SendTyped
  <2>5. "GET" \in PC BY DEF PC
  <2> QED BY <2>1, <2>2, <2>4, <2>5, Before, StepTypes
<1>3. CASE command(t)
  <2>1. /\ pc[t] \in DOMAIN Handler /\ Goto(t, Handler[pc[t]]) /\ mixed' = (mixed \/ Mixes(t))
        /\ Send(s1, <<Record("echo")>>) /\ crashed' = (s1 \in shut)
        /\ UNCHANGED <<clients, up, shut, gone, s1, szbuffer, conn, fsize, written, open, fp, exists, deleted,
                       request>>
    BY <1>3 DEF command, disk
  <2>2. SharedTypes'
    <3>1. crashed' \in BOOLEAN /\ mixed' \in BOOLEAN BY <2>1
    <3> QED BY <2>1, <3>1 DEF TypeInv, SharedTypes
  <2>3. <<Record("echo")>> \in Seq(Cell) BY CellsTyped
  <2>4. down' \in Seq(Seq(Cell)) /\ Len(down') = Len(down) BY <2>1, <2>3, SendTyped
  <2>5. Handler[pc[t]] \in PC /\ pc[t] \notin {"memset", "call"} BY <2>1 DEF PC, Handler
  <2> QED BY <2>1, <2>2, <2>4, <2>5, Before, StepTypes
<1> QED BY <1>1, <1>2, <1>3

LEMMA PutFileTypes ==
  ASSUME TypeInv, NEW t \in 1..s1, UNCHANGED owner,
         getname(t) \/ fopen(t) \/ PutFileToClient(t) \/ closeAgain(t)
  PROVE  TypeInv'
<1>0. "fopen" \in PC /\ "PUT" \in PC /\ "sending" \in PC /\ "again" \in PC BY DEF PC
<1>1. CASE getname(t)
  <2>1. PICK kind \in RecordKind :
          /\ Recv(t, kind)
          /\ IF Named(kind) /\ exists
               THEN Send(conn[t], <<Record("info")>>) /\ Goto(t, "fopen") /\ UNCHANGED shut
               ELSE Send(conn[t], <<Record("nofile")>>) /\ Goto(t, "PUT") /\ closesocket(t)
    BY <1>1 DEF getname
  <2>2. /\ pc[t] = "getname"
        /\ UNCHANGED <<clients, gone, s1, szbuffer, conn, fsize, written, open, fp, exists, deleted, crashed,
                       request, mixed>>
    BY <1>1 DEF getname, disk
  <2>3. SharedTypes' BY <2>2 DEF TypeInv, SharedTypes
  <2>4. up' \in Seq(Seq(Cell)) /\ Len(up') = Len(up) BY <2>1, <2>2, ReadTypes
  <2>5. <<Record("info")>> \in Seq(Cell) /\ <<Record("nofile")>> \in Seq(Cell) BY CellsTyped
  <2>6. CASE Send(conn[t], <<Record("info")>>) /\ Goto(t, "fopen") /\ UNCHANGED shut
    <3>1. down' \in Seq(Seq(Cell)) /\ Len(down') = Len(down) BY <2>5, <2>6, SendTyped
    <3> QED BY <1>0, <2>2, <2>3, <2>4, <2>6, <3>1, Before, StepTypes
  <2>7. CASE Send(conn[t], <<Record("nofile")>>) /\ Goto(t, "PUT") /\ closesocket(t)
    <3>1. down' \in Seq(Seq(Cell)) /\ Len(down') = Len(down) BY <2>5, <2>7, SendTyped
    <3>2. shut' \subseteq 1..s1 BY <2>2, <2>7, ShutTypes
    <3> QED BY <1>0, <2>2, <2>3, <2>4, <2>7, <3>1, <3>2, Before, StepTypes
  <2> QED BY <2>1, <2>6, <2>7
<1>2. CASE fopen(t)
  <2>1. /\ pc[t] = "fopen" /\ crashed' = ~exists /\ Goto(t, "sending")
        /\ OpenFile(t) \/ UNCHANGED <<open, fp>>
        /\ UNCHANGED <<clients, up, down, shut, gone, s1, szbuffer, conn, fsize, written, exists,
                       deleted, request, mixed>>
    BY <1>2 DEF fopen, streams
  <2>2. SharedTypes'
    <3>1. crashed' \in BOOLEAN BY <2>1
    <3>2. open' \subseteq 1..MaxConns /\ fp' \in [1..MaxConns -> 0..MaxConns]
      BY <2>1, OpenTypes, Before
    <3> QED BY <2>1, <3>1, <3>2 DEF TypeInv, SharedTypes
  <2> QED BY <1>0, <2>1, <2>2, Before, StepTypes
<1>3. CASE PutFileToClient(t)
  <2>1. PICK cells \in {File, Unread} : Send(conn[t], cells) BY <1>3 DEF PutFileToClient
  <2>2. /\ pc[t] = "sending" /\ fclose(t)
        /\ \/ Goto(t, "again") /\ UNCHANGED shut
           \/ Goto(t, "PUT") /\ closesocket(t)
        /\ UNCHANGED <<clients, up, gone, s1, szbuffer, conn, fsize, written, exists, deleted,
                       crashed, request, mixed>>
    BY <1>3 DEF PutFileToClient
  <2>3. SharedTypes' BY <2>2, FcloseTypes DEF TypeInv, SharedTypes
  <2>4. Unread \in Seq(Cell)
    <3>1. Size \in Nat /\ Record("data") \in Cell BY CellsTyped
    <3> QED BY <3>1 DEF Unread
  <2>5. down' \in Seq(Seq(Cell)) /\ Len(down') = Len(down) BY <2>1, <2>4, CellsTyped, SendTyped
  <2>6. shut' \subseteq 1..s1 BY <2>2, ShutTypes, Before
  <2>7. pc[t] \notin {"memset", "call"} BY <2>2
  <2>8. PICK label \in {"again", "PUT"} : Goto(t, label) BY <2>2
  <2> QED BY <1>0, <2>2, <2>3, <2>5, <2>6, <2>7, <2>8, Before, StepTypes
<1>4. CASE closeAgain(t)
  <2>1. /\ pc[t] = "again" /\ fclose(t) /\ mixed' = (mixed \/ fp[t] \in open)
        /\ closesocket(t) /\ Goto(t, "PUT")
        /\ UNCHANGED <<clients, up, down, gone, s1, szbuffer, conn, fsize, written, exists, deleted,
                       crashed, request>>
    BY <1>4 DEF closeAgain
  <2>2. SharedTypes'
    <3>1. mixed' \in BOOLEAN BY <2>1
    <3> QED BY <2>1, <3>1, FcloseTypes DEF TypeInv, SharedTypes
  <2>3. shut' \subseteq 1..s1 BY <2>1, ShutTypes
  <2> QED BY <1>0, <2>1, <2>2, <2>3, Before, StepTypes
<1> QED BY <1>1, <1>2, <1>3, <1>4

LEMMA GetFileTypes ==
  ASSUME TypeInv, NEW t \in 1..s1, UNCHANGED owner,
         putinfo(t) \/ recvChunk(t) \/ GetFileFromClient(t)
  PROVE  TypeInv'
<1>0. "chunks" \in PC /\ "DELETE" \in PC /\ Size \in Nat BY TcpServerAssumption DEF PC
<1>1. CASE putinfo(t)
  <2>1. PICK kind \in RecordKind :
          /\ Recv(t, kind)
          /\ IF kind = "info"
               THEN fsize' = [fsize EXCEPT ![t] = Size] /\ exists' = TRUE /\ UNCHANGED crashed
               ELSE /\ \E n \in 0..Size : fsize' = [fsize EXCEPT ![t] = n]
                    /\ crashed' \in BOOLEAN /\ UNCHANGED exists
    BY <1>1 DEF putinfo
  <2>2. /\ pc[t] = "putinfo" /\ Goto(t, "chunks") /\ OpenFile(t)
        /\ UNCHANGED <<clients, down, shut, gone, s1, szbuffer, conn, written, deleted, request, mixed>>
    BY <1>1 DEF putinfo
  <2>3. exists' \in BOOLEAN /\ crashed' \in BOOLEAN BY <2>1, Before
  <2>4. SharedTypes' BY <2>2, <2>3, OpenTypes DEF TypeInv, SharedTypes
  <2>5. up' \in Seq(Seq(Cell)) /\ Len(up') = Len(up) BY <2>1, <2>2, ReadTypes
  <2>6. PICK n \in 0..Size : fsize' = [fsize EXCEPT ![t] = n] BY <1>0, <2>1
  <2>7. fsize' \in [1..s1 -> 0..Size]
    <3>1. fsize \in [1..s1 -> 0..Size] BY Before
    <3> QED BY <2>6, <3>1, ExceptTyped
  <2> QED BY <1>0, <2>2, <2>4, <2>5, <2>7, Before, StepTypes
<1>2. CASE recvChunk(t)
  <2> DEFINE c == conn[t]
  <2>1. /\ pc[t] = "chunks"
        /\ UNCHANGED <<clients, down, shut, gone, s1, szbuffer, pc, conn, open, fp, exists, deleted, request,
                       mixed>>
    BY <1>2 DEF recvChunk, disk
  <2>2. Goto(t, "chunks")
    <3>1. pc \in [1..s1 -> PC] /\ pc' = pc BY <2>1, Before
    <3> QED BY <2>1, <3>1 DEF Goto
  <2>3. fsize \in [1..s1 -> 0..Size] /\ written \in [1..s1 -> Seq(Cell)] /\ up \in Seq(Seq(Cell))
    BY Before
  <2>4. CASE crashed' = TRUE /\ UNCHANGED <<up, fsize, written>>
    <3>1. SharedTypes' BY <2>1, <2>4 DEF TypeInv, SharedTypes
    <3> QED BY <1>0, <2>1, <2>2, <2>4, <3>1, Before, StepTypes
  <2>5. ASSUME NEW part \in Parts(up[c], fsize[t]),
               up' = [up EXCEPT ![c] = After(up[c], part)],
               fwrite(t, part),
               fsize' = [fsize EXCEPT ![t] = fsize[t] - Len(part)],
               UNCHANGED crashed
        PROVE  TypeInv'
    <3>1. SharedTypes' BY <2>1, <2>5 DEF TypeInv, SharedTypes
    <3>2. c \in 1..Len(up)
      <4>1. c \in 0..s1 /\ c # 0 BY <2>1 DEF TypeInv, ThreadTypes, Given
      <4>2. s1 \in Nat /\ 1..s1 \subseteq 1..Len(up) BY Lengths
      <4>3. c \in 1..s1 BY <4>1, <4>2
      <4> QED BY <4>2, <4>3
    <3>3. up[c] \in Seq(Cell) BY <2>3, <3>2, ElementOfSeq
    <3>4. fsize[t] \in Nat /\ fsize[t] <= Size
      <4>1. fsize[t] \in 0..Size BY <2>3
      <4> QED BY <1>0, <4>1
    <3>5. /\ part \in Seq(Cell) /\ Len(part) \in 1..fsize[t] /\ After(up[c], part) \in Seq(Cell)
      BY <3>3, <3>4, PartsTyped
    <3>6. up' \in Seq(Seq(Cell)) /\ Len(up') = Len(up)
      <4>1. up' = [up EXCEPT ![c] = After(up[c], part)] BY <2>5
      <4>2. After(up[c], part) \in Seq(Cell) BY <3>5
      <4> QED BY <2>3, <4>1, <4>2, ElementSet
    <3>7. fsize[t] - Len(part) \in 0..Size BY <1>0, <3>4, <3>5
    <3>8. PICK cells \in {part, <<>>} : written' = [written EXCEPT ![t] = written[t] \o cells]
      BY <2>5 DEF fwrite
    <3>9. fsize' \in [1..s1 -> 0..Size] BY <2>3, <2>5, <3>7, ExceptTyped
    <3>10. written' \in [1..s1 -> Seq(Cell)]
      <4>1. cells \in Seq(Cell) BY <3>5, EmptySeq
      <4>2. written[t] \o cells \in Seq(Cell) BY <2>3, <4>1, ConcatProperties
      <4> QED BY <2>3, <3>8, <4>2, ExceptTyped
    <3> QED BY <1>0, <2>1, <2>2, <3>1, <3>6, <3>9, <3>10, Before, StepTypes
  <2> QED BY <1>2, <2>4, <2>5 DEF recvChunk
<1>3. CASE GetFileFromClient(t)
  <2>1. /\ pc[t] = "chunks" /\ fclose(t) /\ closesocket(t) /\ Goto(t, "DELETE")
        /\ UNCHANGED <<clients, up, down, gone, s1, szbuffer, conn, fsize, written, exists, deleted,
                       crashed, request, mixed>>
    BY <1>3 DEF GetFileFromClient
  <2>2. SharedTypes' BY <2>1, FcloseTypes DEF TypeInv, SharedTypes
  <2>3. shut' \subseteq 1..s1 BY <2>1, ShutTypes
  <2> QED BY <1>0, <2>1, <2>2, <2>3, Before, StepTypes
<1> QED BY <1>1, <1>2, <1>3

LEMMA DeleteTypes ==
  ASSUME TypeInv, NEW t \in 1..s1, UNCHANGED owner, delname(t) \/ DeleteServerFiles(t)
  PROVE  TypeInv'
<1>0. "remove" \in PC /\ "end" \in PC /\ "kept" \in PC BY DEF PC
<1>1. CASE delname(t)
  <2>1. PICK kind \in RecordKind :
          /\ Recv(t, kind)
          /\ IF Named(kind) /\ exists
               THEN Goto(t, "remove") /\ UNCHANGED <<down, shut>>
               ELSE Send(conn[t], <<Record("#")>>) /\ closesocket(t) /\ Goto(t, "end")
    BY <1>1 DEF delname
  <2>2. /\ pc[t] = "delname"
        /\ UNCHANGED <<clients, gone, s1, szbuffer, conn, fsize, written, open, fp, exists, deleted, crashed,
                       request, mixed>>
    BY <1>1 DEF delname, disk
  <2>3. SharedTypes' BY <2>2 DEF TypeInv, SharedTypes
  <2>4. up' \in Seq(Seq(Cell)) /\ Len(up') = Len(up) BY <2>1, <2>2, ReadTypes
  <2>5. CASE Goto(t, "remove") /\ UNCHANGED <<down, shut>>
    BY <1>0, <2>2, <2>3, <2>4, <2>5, Before, StepTypes
  <2>6. CASE Send(conn[t], <<Record("#")>>) /\ closesocket(t) /\ Goto(t, "end")
    <3>1. <<Record("#")>> \in Seq(Cell) BY CellsTyped
    <3>2. down' \in Seq(Seq(Cell)) /\ Len(down') = Len(down) BY <2>6, <3>1, SendTyped
    <3>3. shut' \subseteq 1..s1 BY <2>2, <2>6, ShutTypes
    <3> QED BY <1>0, <2>2, <2>3, <2>4, <2>6, <3>2, <3>3, Before, StepTypes
  <2> QED BY <2>1, <2>5, <2>6
<1>2. CASE DeleteServerFiles(t)
  <2>1. /\ pc[t] = "remove"
        /\ UNCHANGED <<clients, up, gone, s1, szbuffer, conn, fsize, written, open, fp, crashed,
                       request, mixed>>
    BY <1>2 DEF DeleteServerFiles
  <2>2. CASE /\ exists' = FALSE /\ deleted' = TRUE /\ Send(conn[t], <<Record("ok")>>)
             /\ closesocket(t) /\ Goto(t, "end")
    <3>1. SharedTypes' BY <2>1, <2>2 DEF TypeInv, SharedTypes
    <3>2. <<Record("ok")>> \in Seq(Cell) BY CellsTyped
    <3>3. down' \in Seq(Seq(Cell)) /\ Len(down') = Len(down) BY <2>2, <3>2, SendTyped
    <3>4. shut' \subseteq 1..s1 BY <2>1, <2>2, ShutTypes
    <3> QED BY <1>0, <2>1, <2>2, <3>1, <3>3, <3>4, Before, StepTypes
  <2>3. CASE Goto(t, "kept") /\ UNCHANGED <<exists, deleted, down, shut>>
    <3>1. SharedTypes' BY <2>1, <2>3 DEF TypeInv, SharedTypes
    <3> QED BY <1>0, <2>1, <2>3, <3>1, Before, StepTypes
  <2> QED BY <1>2, <2>2, <2>3 DEF DeleteServerFiles
<1> QED BY <1>1, <1>2

LEMMA NextTypes == TypeInv /\ [Next]_vars => TypeInv'
<1> SUFFICES ASSUME TypeInv, [Next]_vars PROVE TypeInv'
  OBVIOUS
<1>1. ASSUME NEW c \in Client, ClientStep(c) PROVE TypeInv'
  BY <1>1, ChooseTypes, ConnectTypes, CloseTypes, SendTypes, ClientRecvTypes DEF ClientStep
<1>2. CASE accept BY <1>2, AcceptTypes
<1>3. ASSUME NEW t \in 1..s1, ThreadStep(t) PROVE TypeInv'
  BY <1>3, CallTypes, RequestTypes, CommandTypes, PutFileTypes, GetFileTypes, DeleteTypes
     DEF ThreadStep
<1>4. CASE UNCHANGED vars
  BY <1>4 DEF TypeInv, ClientTypes, StreamTypes, ThreadTypes, SharedTypes, Started, Given, vars,
     clients, streams, threads, disk
<1> QED BY <1>1, <1>2, <1>3, <1>4 DEF Next

\* Types, as TypeOK states them: of every state that any plan leads to.
THEOREM TcpServerTypes == Spec => []TypeOK
<1>1. TypeInv => TypeOK BY DEF TypeInv, ClientTypes, StreamTypes, ThreadTypes, SharedTypes, TypeOK
<1> QED BY <1>1, InitTypes, NextTypes, PTL DEF Spec

-------------------------------------------------------------------------------
\* What travels: records, listings, and the file in two parts.
LEMMA OneCell ==
  /\ \A kind : One(kind) # <<>> /\ Head(One(kind)).kind = kind /\ Tail(One(kind)) = <<>>
  /\ \A kind, other : One(kind) = One(other) => kind = other
<1>1. ASSUME NEW kind PROVE One(kind) # <<>> /\ Head(One(kind)).kind = kind /\ Tail(One(kind)) = <<>>
  <2>1. Record(kind).kind = kind BY DEF Record
  <2>2. One(kind) # <<>> /\ Head(One(kind)) = Record(kind) /\ Tail(One(kind)) = <<>> BY DEF One
  <2> QED BY <2>1, <2>2
<1> QED BY <1>1

LEMMA InfoAndFile ==
  /\ One("info") \o File # <<>> /\ Head(One("info") \o File).kind = "info"
  /\ Tail(One("info") \o File) = File
<1>1. One("info") \in Seq(Cell) /\ File \in Seq(Cell) BY CellsTyped DEF One
<1>2. <<>> \o File = File BY <1>1, ConcatEmptySeq
<1>3. One("info") # <<>> /\ Head(One("info")).kind = "info" /\ Tail(One("info")) = <<>> BY OneCell
<1>4. /\ One("info") \o File # <<>> /\ Head(One("info") \o File) = Head(One("info"))
      /\ Tail(One("info") \o File) = Tail(One("info")) \o File
  BY <1>1, <1>3, ConcatTail
<1> QED BY <1>2, <1>3, <1>4

LEMMA Listings ==
  ASSUME NEW k \in Nat
  PROVE  /\ Listing(k) # <<>>
         /\ Head(Listing(k)).kind = IF k = 0 THEN "@" ELSE "entry"
         /\ Tail(Listing(k)) = IF k = 0 THEN <<>> ELSE Listing(k - 1)
<1>1. Record("entry") \in Cell /\ Record("@") \in Cell BY CellsTyped
<1>2. \A j \in Nat : /\ Listing(j) \in Seq(Cell) /\ Len(Listing(j)) = j + 1
                     /\ \A i \in 1..(j + 1) : Listing(j)[i] = Record(IF i <= j THEN "entry" ELSE "@")
  <2> SUFFICES ASSUME NEW j \in Nat
               PROVE  /\ Listing(j) \in Seq(Cell) /\ Len(Listing(j)) = j + 1
                      /\ \A i \in 1..(j + 1) :
                           Listing(j)[i] = Record(IF i <= j THEN "entry" ELSE "@")
    OBVIOUS
  <2>1. \A i \in 1..(j + 1) : Record(IF i <= j THEN "entry" ELSE "@") \in Cell BY <1>1
  <2>2. Listing(j) \in [1..(j + 1) -> Cell] BY <2>1 DEF Listing
  <2>3. j + 1 \in Nat OBVIOUS
  <2>4. Listing(j) \in Seq(Cell) /\ Len(Listing(j)) = j + 1 BY <2>2, <2>3
  <2> QED BY <2>4 DEF Listing
<1> DEFINE q == Listing(k)
<1>3. q \in Seq(Cell) /\ Len(q) = k + 1 BY <1>2
<1>4. q # <<>> BY <1>3
<1>5. Head(q) = Record(IF 1 <= k THEN "entry" ELSE "@") BY <1>2, <1>3, <1>4
<1>6. Head(q).kind = IF k = 0 THEN "@" ELSE "entry" BY <1>5 DEF Record
<1>7. /\ Tail(q) \in Seq(Cell) /\ Len(Tail(q)) = k
      /\ \A i \in 1..k : Tail(q)[i] = q[i + 1]
  BY <1>3, <1>4, HeadTailProperties
<1>8. CASE k = 0
  <2>1. Tail(q) \in Seq(Cell) /\ Len(Tail(q)) = 0 BY <1>7, <1>8
  <2>2. Tail(q) = <<>> BY <2>1, EmptySeq
  <2> QED BY <1>4, <1>6, <1>8, <2>2
<1>9. CASE k # 0
  <2>1. k - 1 \in Nat BY <1>9
  <2>2. Listing(k - 1) \in Seq(Cell) /\ Len(Listing(k - 1)) = k BY <1>2, <2>1
  <2>3. ASSUME NEW i \in 1..k PROVE Tail(q)[i] = Listing(k - 1)[i]
    <3>1. i + 1 \in 1..(k + 1) /\ (i + 1 <= k <=> i <= k - 1) /\ k - 1 + 1 = k OBVIOUS
    <3>2. Tail(q)[i] = Record(IF i + 1 <= k THEN "entry" ELSE "@") BY <1>2, <1>7, <3>1
    <3>3. Listing(k - 1)[i] = Record(IF i <= k - 1 THEN "entry" ELSE "@") BY <1>2, <2>1, <3>1
    <3>4. CASE i + 1 <= k BY <3>1, <3>2, <3>3, <3>4
    <3>5. CASE ~(i + 1 <= k) BY <3>1, <3>2, <3>3, <3>5
    <3> QED BY <3>4, <3>5
  <2>4. Tail(q) = Listing(k - 1) BY <1>7, <2>2, <2>3, SeqEqual
  <2> QED BY <1>4, <1>6, <1>9, <2>4
<1> QED BY <1>4, <1>6, <1>7, <1>8, <1>9

LEMMA FileParts ==
  ASSUME NEW n \in 0..Size
  PROVE  /\ First(n) \in Seq(Cell) /\ Len(First(n)) = n /\ \A i \in 1..n : First(n)[i] = File[i]
         /\ Rest(n) \in Seq(Cell) /\ Len(Rest(n)) = Size - n
         /\ \A i \in 1..(Size - n) : Rest(n)[i] = File[n + i]
         /\ Size - n \in 0..Size
<1>1. File \in Seq(Cell) /\ Len(File) = Size /\ Size \in Nat BY CellsTyped
<1>2. n \in Nat /\ n <= Size /\ Size - n \in 0..Size BY <1>1
<1>3. \A i \in 1..Size : File[i] \in Cell BY <1>1, ElementOfSeq
<1>4. First(n) \in Seq(Cell) /\ Len(First(n)) = n /\ \A i \in 1..n : First(n)[i] = File[i]
  <2>1. \A i \in 1..n : File[i] \in Cell BY <1>1, <1>2, <1>3
  <2> QED BY <1>2, <2>1, SubSeqProperties DEF First
<1>5. /\ Rest(n) \in Seq(Cell) /\ Len(Rest(n)) = Size - n
      /\ \A i \in 1..(Size - n) : Rest(n)[i] = File[n + i]
  <2>1. \A i \in (n + 1)..Size : File[i] \in Cell BY <1>1, <1>2, <1>3
  <2> QED BY <1>1, <1>2, <2>1, SubSeqProperties DEF Rest
<1> QED BY <1>2, <1>4, <1>5

\* The ends: nothing has come, everything has.
LEMMA FileEnds ==
  /\ First(0) = <<>> /\ Rest(Size) = <<>> /\ First(Size) = File /\ Rest(0) = File
  /\ \A n \in 0..Size : (Rest(n) = <<>> => n = Size) /\ (First(n) = <<>> => n = 0)
  /\ File # <<>> /\ <<>> \o File = File /\ Size - Size = 0 /\ Size - 0 = Size
<1>1. File \in Seq(Cell) /\ Len(File) = Size /\ Size \in Nat \ {0} BY CellsTyped
<1>2. 0 \in 0..Size /\ Size \in 0..Size /\ Size - Size = 0 /\ Size - 0 = Size BY <1>1
<1>3. Len(First(0)) = 0 /\ First(0) \in Seq(Cell) BY <1>2, FileParts
<1>4. Len(Rest(Size)) = 0 /\ Rest(Size) \in Seq(Cell) BY <1>2, FileParts
<1>5. First(0) = <<>> /\ Rest(Size) = <<>> BY <1>3, <1>4, EmptySeq
<1>6. First(Size) = File
  <2>1. /\ First(Size) \in Seq(Cell) /\ Len(First(Size)) = Len(File)
        /\ \A i \in 1..Len(First(Size)) : First(Size)[i] = File[i]
    BY <1>1, <1>2, FileParts
  <2> QED BY <1>1, <2>1, SeqEqual
<1>7. Rest(0) = File
  <2>1. /\ Rest(0) \in Seq(Cell) /\ Len(Rest(0)) = Size
        /\ \A i \in 1..Size : Rest(0)[i] = File[0 + i]
    BY <1>2, FileParts
  <2>2. \A i \in 1..Len(Rest(0)) : Rest(0)[i] = File[i] BY <1>1, <2>1
  <2> QED BY <1>1, <2>1, <2>2, SeqEqual
<1>8. ASSUME NEW n \in 0..Size PROVE (Rest(n) = <<>> => n = Size) /\ (First(n) = <<>> => n = 0)
  <2>1. Len(Rest(n)) = Size - n /\ Len(First(n)) = n BY FileParts
  <2>2. Len(<<>>) = 0 OBVIOUS
  <2> QED BY <1>1, <2>1, <2>2
<1>9. File # <<>> BY <1>1
<1>10. <<>> \o File = File BY <1>1, ConcatEmptySeq
<1> QED BY <1>2, <1>5, <1>6, <1>7, <1>8, <1>9, <1>10

\* A recv moves the border between the two parts.
LEMMA ChunkMoves ==
  ASSUME NEW n \in 0..Size, NEW m, NEW part \in Parts(Rest(n), m)
  PROVE  /\ Len(part) \in 1..(Size - n) /\ n + Len(part) \in 0..Size
         /\ First(n) \o part = First(n + Len(part))
         /\ After(Rest(n), part) = Rest(n + Len(part))
<1> DEFINE q == Rest(n)
<1>1. File \in Seq(Cell) /\ Len(File) = Size /\ Size \in Nat BY CellsTyped
<1>2. /\ q \in Seq(Cell) /\ Len(q) = Size - n /\ \A i \in 1..(Size - n) : q[i] = File[n + i]
      /\ First(n) \in Seq(Cell) /\ Len(First(n)) = n /\ \A i \in 1..n : First(n)[i] = File[i]
  BY FileParts
<1>3. PICK j \in 1..Len(q) : part = SubSeq(q, 1, j) BY DEF Parts
<1>4. j \in Nat /\ j >= 1 /\ j <= Size - n /\ n \in Nat /\ n + j \in 0..Size /\ Size - (n + j) \in Nat
  BY <1>1, <1>2
<1>5. part \in Seq(Cell) /\ Len(part) = j /\ \A i \in 1..j : part[i] = q[i]
  <2>1. \A i \in 1..j : q[i] \in Cell BY <1>2, <1>4
  <2>2. /\ SubSeq(q, 1, j) \in Seq(Cell) /\ Len(SubSeq(q, 1, j)) = j
        /\ \A i \in 1..j : SubSeq(q, 1, j)[i] = q[1 + i - 1]
    BY <1>4, <2>1, SubSeqProperties
  <2>3. \A i \in 1..j : 1 + i - 1 = i BY <1>4
  <2> QED BY <1>3, <2>2, <2>3
<1>6. First(n) \o part = First(n + j)
  <2> DEFINE r == First(n) \o part
  <2>1. /\ r \in Seq(Cell) /\ Len(r) = n + j
        /\ \A i \in 1..(n + j) : r[i] = IF i <= n THEN First(n)[i] ELSE part[i - n]
    <3>1. /\ r \in Seq(Cell) /\ Len(r) = Len(First(n)) + Len(part)
          /\ \A i \in 1..(Len(First(n)) + Len(part)) :
               r[i] = IF i <= Len(First(n)) THEN First(n)[i] ELSE part[i - Len(First(n))]
      <4>1. First(n) \in Seq(Cell) /\ part \in Seq(Cell) BY <1>2, <1>5
      <4> QED BY <4>1, ConcatProperties
    <3>2. Len(First(n)) = n /\ Len(part) = j BY <1>2, <1>5
    <3> QED BY <3>1, <3>2
  <2>2. /\ First(n + j) \in Seq(Cell) /\ Len(First(n + j)) = n + j
        /\ \A i \in 1..(n + j) : First(n + j)[i] = File[i]
    BY <1>4, FileParts
  <2>3. ASSUME NEW i \in 1..(n + j) PROVE r[i] = File[i]
    <3>1. CASE i <= n
      <4>1. i \in 1..n BY <1>4, <3>1
      <4> QED BY <1>2, <2>1, <3>1, <4>1
    <3>2. CASE ~(i <= n)
      <4>1. i - n \in 1..j /\ i - n \in 1..(Size - n) /\ n + (i - n) = i BY <1>1, <1>4, <3>2
      <4> QED BY <1>2, <1>5, <2>1, <3>2, <4>1
    <3> QED BY <3>1, <3>2
  <2> HIDE DEF r
  <2>4. r = First(n + j) BY <2>1, <2>2, <2>3, SeqEqual
  <2> QED BY <2>4 DEF r
<1>7. After(q, part) = Rest(n + j)
  <2> DEFINE r == SubSeq(q, j + 1, Size - n)
  <2>1. r = After(q, part) BY <1>2, <1>5 DEF After
  <2>2. \A i \in (j + 1)..(Size - n) : q[i] \in Cell BY <1>1, <1>2, <1>4
  <2>3. /\ r \in Seq(Cell) /\ Len(r) = Size - n - j
        /\ \A i \in 1..(Size - n - j) : r[i] = q[j + i]
    <3>1. j + 1 \in Int /\ Size - n \in Int /\ j + 1 <= Size - n + 1 /\ Size - n - (j + 1) + 1 = Size - n - j
      BY <1>1, <1>4
    <3>2. /\ r \in Seq(Cell) /\ Len(r) = Size - n - (j + 1) + 1
          /\ \A i \in 1..(Size - n - (j + 1) + 1) : r[i] = q[(j + 1) + i - 1]
      BY <2>2, <3>1, SubSeqProperties
    <3>3. \A i \in 1..(Size - n - j) : (j + 1) + i - 1 = j + i BY <1>4
    <3> QED BY <3>1, <3>2, <3>3
  <2>4. /\ Rest(n + j) \in Seq(Cell) /\ Len(Rest(n + j)) = Size - (n + j)
        /\ \A i \in 1..(Size - (n + j)) : Rest(n + j)[i] = File[(n + j) + i]
    BY <1>4, FileParts
  <2>5. Size - n - j = Size - (n + j) BY <1>1, <1>4
  <2>6. ASSUME NEW i \in 1..(Size - (n + j)) PROVE r[i] = File[(n + j) + i]
    <3>1. j + i \in 1..(Size - n) /\ n + (j + i) = (n + j) + i /\ i \in 1..(Size - n - j)
      BY <1>1, <1>4
    <3> QED BY <1>2, <2>3, <3>1
  <2> HIDE DEF r
  <2>7. r = Rest(n + j) BY <2>3, <2>4, <2>5, <2>6, SeqEqual
  <2> QED BY <2>1, <2>7
<1> QED BY <1>2, <1>4, <1>5, <1>6, <1>7

-------------------------------------------------------------------------------
(* What a step makes of a connection, v before it and w after.  A thread   *)
(* changes nothing the client has; the client nothing the thread has.      *)
ThreadOf(v, w) == w.at = v.at /\ w.left = v.left /\ w.got = v.got

ClientOf(v, w) ==
  /\ w.pc = v.pc /\ w.req = v.req /\ w.shut = v.shut /\ w.fsize = v.fsize /\ w.wrote = v.wrote
  /\ w.removed = v.removed

\* A removal elsewhere changes nothing.
LEMMA TalkRemoved ==
  ASSUME NEW v, NEW w, Talk(v), ThreadOf(v, w),
         w.up = v.up, w.down = v.down, w.pc = v.pc, w.req = v.req, w.shut = v.shut,
         w.fsize = v.fsize, w.wrote = v.wrote, v.removed => w.removed
  PROVE  Talk(w)
<1>1. ListTalk(v) => ListTalk(w)
  BY DEF ThreadOf, ListTalk, Unasked, Asked, Fresh, In, Idle, Listed, Over
<1>2. PutTalk(v) => PutTalk(w)
  BY DEF ThreadOf, PutTalk, Unasked, Asked, Fresh, In, Idle, Echoed, Taking, Taken, Over
<1>3. GetTalk(v) => GetTalk(w)
  BY DEF ThreadOf, GetTalk, Unasked, Asked, Fresh, In, Idle, Echoed, Told, Closed, Arriving, Over
<1>4. DeleteTalk(v) => DeleteTalk(w)
  BY DEF ThreadOf, DeleteTalk, Unasked, Asked, Fresh, In, Idle, Echoed, Told, Deleted, Over
<1> QED BY <1>1, <1>2, <1>3, <1>4 DEF Talk

\* TcpThread::run up to its recv.
LEMMA TalkCalled ==
  ASSUME NEW v, NEW w, Talk(v), ThreadOf(v, w), v.pc \in {"memset", "call"}, w.pc \in {"call", "recv"},
         w.up = v.up, w.down = v.down, w.req = v.req, w.shut = v.shut, w.fsize = v.fsize,
         w.wrote = v.wrote, w.removed = v.removed
  PROVE  Talk(w)
<1>1. ListTalk(v) => ListTalk(w)
  BY DEF ThreadOf, ListTalk, Unasked, Asked, Fresh, In, Idle, Listed, Over
<1>2. PutTalk(v) => PutTalk(w)
  BY DEF ThreadOf, PutTalk, Unasked, Asked, Fresh, In, Idle, Echoed, Taking, Taken, Over, Putting
<1>3. GetTalk(v) => GetTalk(w)
  BY DEF ThreadOf, GetTalk, Unasked, Asked, Fresh, In, Idle, Echoed, Told, Closed, Arriving, Over,
         Getting, Opening
<1>4. DeleteTalk(v) => DeleteTalk(w)
  BY DEF ThreadOf, DeleteTalk, Unasked, Asked, Fresh, In, Idle, Echoed, Told, Deleted, Over, Deleting
<1> QED BY <1>1, <1>2, <1>3, <1>4 DEF Talk

\* What there may be to receive, and who has sent it.
LEMMA TalkAtRecv ==
  ASSUME NEW v, Talk(v), v.pc = "recv"
  PROVE  /\ ~v.shut /\ v.down = <<>> /\ v.wrote = <<>>
         /\ \/ v.up = <<>>
            \/ v.up = One("LIST") /\ \E rest \in AfterList : v.at = listAt(rest)
            \/ v.up = One("PUT") /\ v.at \in {PutEcho, FileEcho}
            \/ v.up = One("GET") /\ v.at = GetEcho
            \/ v.up = One("DELETE") /\ v.at = DeleteEcho
<1>1. CASE ListTalk(v) BY <1>1 DEF ListTalk, Unasked, Asked, Fresh, In, Idle, Listed
<1>2. CASE PutTalk(v) BY <1>2 DEF PutTalk, Unasked, Asked, Fresh, In, Idle, Taking, Taken, Putting
<1>3. CASE GetTalk(v)
  BY <1>3 DEF GetTalk, Unasked, Asked, Fresh, In, Idle, Closed, Getting, Opening
<1>4. CASE DeleteTalk(v) BY <1>4 DEF DeleteTalk, Unasked, Asked, Fresh, In, Idle, Deleted, Deleting
<1> QED BY <1>1, <1>2, <1>3, <1>4 DEF Talk

LEMMA TalkReceived ==
  ASSUME NEW v, NEW w, Talk(v), ThreadOf(v, w), v.pc = "recv", v.up # <<>>,
         w.pc = "LIST", w.up = Tail(v.up),
         w.req = IF Head(v.up).kind \in Choice \cup {""} THEN Head(v.up).kind ELSE "other",
         w.down = v.down, w.shut = v.shut, w.wrote = v.wrote
  PROVE  Talk(w)
<1>1. w.down = <<>> /\ ~w.shut /\ w.wrote = <<>> BY TalkAtRecv
<1>2. ASSUME NEW r \in Choice, v.up = One(r) PROVE w.req = r /\ w.up = <<>>
  <2>1. Head(v.up).kind = r /\ Tail(v.up) = <<>> BY <1>2, OneCell
  <2> QED BY <2>1
<1>3. {"LIST", "PUT", "GET", "DELETE"} \subseteq Choice BY DEF Choice
<1>4. CASE v.up = One("LIST") /\ \E rest \in AfterList : v.at = listAt(rest)
  <2>1. w.req = "LIST" /\ w.up = <<>> BY <1>2, <1>3, <1>4
  <2>2. PICK rest \in AfterList : w.at = listAt(rest) BY <1>4 DEF ThreadOf
  <2>3. In(w, "LIST", {"LIST"}) /\ Idle(w) BY <1>1, <2>1 DEF In, Idle
  <2> QED BY <2>2, <2>3 DEF Talk, ListTalk
<1>5. CASE v.up = One("PUT") /\ v.at \in {PutEcho, FileEcho}
  <2>1. w.req = "PUT" /\ w.up = <<>> BY <1>2, <1>3, <1>5
  <2>2. In(w, "PUT", {"LIST", "GET", "PUT"}) /\ Idle(w) BY <1>1, <2>1 DEF In, Idle
  <2>3. w.at \in {PutEcho, FileEcho} BY <1>5 DEF ThreadOf
  <2> QED BY <2>2, <2>3 DEF Talk, PutTalk
<1>6. CASE v.up = One("GET") /\ v.at = GetEcho
  <2>1. w.req = "GET" /\ w.up = <<>> BY <1>2, <1>3, <1>6
  <2>2. In(w, "GET", {"LIST", "GET"}) /\ Idle(w) BY <1>1, <2>1 DEF In, Idle
  <2>3. w.at = GetEcho BY <1>6 DEF ThreadOf
  <2> QED BY <2>2, <2>3 DEF Talk, GetTalk
<1>7. CASE v.up = One("DELETE") /\ v.at = DeleteEcho
  <2>1. w.req = "DELETE" /\ w.up = <<>> BY <1>2, <1>3, <1>7
  <2>2. In(w, "DELETE", {"LIST", "GET", "PUT", "DELETE"}) /\ Idle(w) BY <1>1, <2>1 DEF In, Idle
  <2>3. w.at = DeleteEcho BY <1>7 DEF ThreadOf
  <2> QED BY <2>2, <2>3 DEF Talk, DeleteTalk
<1> QED BY <1>4, <1>5, <1>6, <1>7, TalkAtRecv

\* A command that is not the thread's: the comparison with the next one.
LEMMA TalkOther ==
  ASSUME NEW v, NEW w, Talk(v), ThreadOf(v, w), v.pc \in Choice, v.req # v.pc, w.pc = NextTest[v.pc],
         w.up = v.up, w.down = v.down, w.req = v.req, w.shut = v.shut, w.fsize = v.fsize,
         w.wrote = v.wrote, w.removed = v.removed
  PROVE  Talk(w)
<1>1. /\ v.pc = "LIST" => w.pc = "GET"
      /\ v.pc = "GET" => w.pc = "PUT"
      /\ v.pc = "PUT" => w.pc = "DELETE"
      /\ v.pc = "DELETE" => w.pc = "end"
      /\ v.pc \in {"LIST", "GET", "PUT", "DELETE"}
  BY DEF NextTest, Choice
<1>2. ListTalk(v) => ListTalk(w)
  BY <1>1 DEF ThreadOf, ListTalk, Unasked, Asked, Fresh, In, Idle, Listed, Over
<1>3. PutTalk(v) => PutTalk(w)
  BY <1>1 DEF ThreadOf, PutTalk, Unasked, Asked, Fresh, In, Idle, Echoed, Taking, Taken, Over, Putting
<1>4. GetTalk(v) => GetTalk(w)
  BY <1>1 DEF ThreadOf, GetTalk, Unasked, Asked, Fresh, In, Idle, Echoed, Told, Closed, Arriving, Over,
              Getting, Opening
<1>5. DeleteTalk(v) => DeleteTalk(w)
  BY <1>1 DEF ThreadOf, DeleteTalk, Unasked, Asked, Fresh, In, Idle, Echoed, Told, Deleted, Over, Deleting
<1> QED BY <1>2, <1>3, <1>4, <1>5 DEF Talk

\* The thread's own command: it is at the test for it, and nothing is on its way.
LEMMA TalkAtCommand ==
  ASSUME NEW v, Talk(v), v.pc \in Choice, v.req = v.pc
  PROVE  /\ v.up = <<>> /\ v.down = <<>> /\ ~v.shut /\ v.wrote = <<>>
         /\ v.pc = "LIST" => \E rest \in AfterList : v.at = listAt(rest)
         /\ v.pc = "PUT" => v.at \in {PutEcho, FileEcho}
         /\ v.pc = "GET" => v.at = GetEcho
         /\ v.pc = "DELETE" => v.at = DeleteEcho
<1>1. CASE ListTalk(v) BY <1>1 DEF ListTalk, Unasked, Asked, Fresh, In, Idle, Listed, Choice
<1>2. CASE PutTalk(v)
  BY <1>2 DEF PutTalk, Unasked, Asked, Fresh, In, Idle, Taking, Taken, Putting, Choice
<1>3. CASE GetTalk(v)
  BY <1>3 DEF GetTalk, Unasked, Asked, Fresh, In, Idle, Closed, Getting, Opening, Choice
<1>4. CASE DeleteTalk(v)
  BY <1>4 DEF DeleteTalk, Unasked, Asked, Fresh, In, Idle, Deleted, Deleting, Choice
<1> QED BY <1>1, <1>2, <1>3, <1>4 DEF Talk

LEMMA TalkListed ==
  ASSUME NEW v, NEW w, Talk(v), ThreadOf(v, w), v.pc = "LIST", v.req = "LIST", w.pc = "GET",
         w.down = v.down \o Listing(Entries),
         w.up = v.up, w.req = v.req, w.shut = v.shut, w.fsize = v.fsize, w.wrote = v.wrote
  PROVE  Talk(w)
<1>1. "LIST" \in Choice BY DEF Choice
<1>2. v.up = <<>> /\ v.down = <<>> /\ v.wrote = <<>> /\ \E rest \in AfterList : v.at = listAt(rest)
  BY <1>1, TalkAtCommand
<1>3. Entries \in Nat BY TcpServerAssumption
<1>4. w.down = Listing(Entries)
  <2>1. Listing(Entries) \in Seq(Cell)
    <3>1. Record("entry") \in Cell /\ Record("@") \in Cell BY CellsTyped
    <3>2. Entries + 1 \in Nat BY <1>3
    <3>3. \A i \in 1..(Entries + 1) : Record(IF i <= Entries THEN "entry" ELSE "@") \in Cell
      BY <3>1
    <3> QED BY <3>2, <3>3 DEF Listing
  <2>2. <<>> \o Listing(Entries) = Listing(Entries) BY <2>1, ConcatEmptySeq
  <2> QED BY <1>2, <2>2
<1>5. Listed(w) BY <1>2 DEF Listed
<1>6. Entries \in 0..Entries BY <1>3
<1>7. PICK rest \in AfterList : w.at = listAt(rest) BY <1>2 DEF ThreadOf
<1> QED BY <1>4, <1>5, <1>6, <1>7 DEF Talk, ListTalk

LEMMA TalkEchoed ==
  ASSUME NEW v, NEW w, Talk(v), ThreadOf(v, w), v.pc \in DOMAIN Handler, v.req = v.pc,
         w.pc = Handler[v.pc], w.down = v.down \o One("echo"),
         w.up = v.up, w.req = v.req, w.shut = v.shut, w.fsize = v.fsize, w.wrote = v.wrote
  PROVE  Talk(w)
<1>1. /\ v.pc \in {"GET", "PUT", "DELETE"}
      /\ v.pc = "GET" => w.pc = "PutFileToClient"
      /\ v.pc = "PUT" => w.pc = "GetFileFromClient"
      /\ v.pc = "DELETE" => w.pc = "DeleteServerFiles"
  BY DEF Handler
<1>2. v.pc \in Choice BY <1>1 DEF Choice
<1>3. v.up = <<>> /\ v.down = <<>> /\ ~v.shut /\ v.wrote = <<>> BY <1>2, TalkAtCommand
<1>4. Echoed(w)
  <2>1. One("echo") \in Seq(Cell) BY CellsTyped DEF One
  <2>2. <<>> \o One("echo") = One("echo") BY <2>1, ConcatEmptySeq
  <2> QED BY <1>3, <2>2 DEF Echoed
<1>5. CASE v.pc = "GET"
  <2>1. w.at = GetEcho BY <1>2, <1>5, TalkAtCommand DEF ThreadOf
  <2>2. In(w, "GET", Getting) BY <1>1, <1>3, <1>5 DEF In, Getting
  <2> QED BY <1>4, <2>1, <2>2 DEF Talk, GetTalk
<1>6. CASE v.pc = "PUT"
  <2>1. w.at \in {PutEcho, FileEcho} BY <1>2, <1>6, TalkAtCommand DEF ThreadOf
  <2>2. In(w, "PUT", Putting) BY <1>1, <1>3, <1>6 DEF In, Putting
  <2> QED BY <1>4, <2>1, <2>2 DEF Talk, PutTalk
<1>7. CASE v.pc = "DELETE"
  <2>1. w.at = DeleteEcho BY <1>2, <1>7, TalkAtCommand DEF ThreadOf
  <2>2. In(w, "DELETE", Deleting) BY <1>1, <1>3, <1>7 DEF In, Deleting
  <2> QED BY <1>4, <2>1, <2>2 DEF Talk, DeleteTalk
<1> QED BY <1>1, <1>5, <1>6, <1>7

\* A handler goes on to the recv of the name; a file is opened.
LEMMA TalkGoesOn ==
  ASSUME NEW v, NEW w, Talk(v), ThreadOf(v, w),
         \/ v.pc = "PutFileToClient" /\ w.pc = "getname"
         \/ v.pc = "GetFileFromClient" /\ w.pc = "putinfo"
         \/ v.pc = "DeleteServerFiles" /\ w.pc = "delname"
         \/ v.pc = "fopen" /\ w.pc = "sending"
         \/ v.pc = "remove" /\ w.pc = "kept",
         w.up = v.up, w.down = v.down, w.req = v.req, w.shut = v.shut, w.fsize = v.fsize,
         w.wrote = v.wrote, w.removed = v.removed
  PROVE  Talk(w)
<1>1. ListTalk(v) => ListTalk(w)
  BY DEF ThreadOf, ListTalk, Unasked, Asked, Fresh, In, Idle, Listed, Over
<1>2. PutTalk(v) => PutTalk(w)
  BY DEF ThreadOf, PutTalk, Unasked, Asked, Fresh, In, Idle, Echoed, Taking, Taken, Over, Putting
<1>3. GetTalk(v) => GetTalk(w)
  BY DEF ThreadOf, GetTalk, Unasked, Asked, Fresh, In, Idle, Echoed, Told, Closed, Arriving, Over,
         Getting, Opening
<1>4. DeleteTalk(v) => DeleteTalk(w)
  BY DEF ThreadOf, DeleteTalk, Unasked, Asked, Fresh, In, Idle, Echoed, Told, Deleted, Over, Deleting
<1> QED BY <1>1, <1>2, <1>3, <1>4 DEF Talk

\* PutFileToClient: the name has been received; the file is sent, and the connection closed.
LEMMA TalkAtName ==
  ASSUME NEW v, Talk(v), v.pc = "getname", v.up # <<>>
  PROVE  /\ v.at = GetResponse /\ v.up = One("name") /\ v.down = <<>>
         /\ v.req = "GET" /\ ~v.shut /\ v.wrote = <<>>
<1>1. CASE ListTalk(v) BY <1>1 DEF ListTalk, Unasked, Asked, Fresh, In, Idle, Listed
<1>2. CASE PutTalk(v) BY <1>2 DEF PutTalk, Unasked, Asked, Fresh, In, Idle, Taking, Taken, Putting
<1>3. CASE GetTalk(v)
  BY <1>3 DEF GetTalk, Unasked, Asked, Fresh, In, Idle, Echoed, Told, Closed, Getting, Opening
<1>4. CASE DeleteTalk(v) BY <1>4 DEF DeleteTalk, Unasked, Asked, Fresh, In, Idle, Deleted, Deleting
<1> QED BY <1>1, <1>2, <1>3, <1>4 DEF Talk

LEMMA TalkNamed ==
  ASSUME NEW v, NEW w, Talk(v), ThreadOf(v, w), v.pc = "getname", v.up # <<>>, w.up = Tail(v.up),
         w.req = v.req, w.wrote = v.wrote,
         \/ w.pc = "fopen" /\ w.down = v.down \o One("info") /\ w.shut = v.shut
         \/ w.pc = "PUT" /\ w.down = v.down \o One("nofile") /\ w.shut
  PROVE  Talk(w)
<1>1. /\ w.at = GetResponse /\ v.up = One("name") /\ v.down = <<>>
      /\ w.req = "GET" /\ ~v.shut /\ w.wrote = <<>>
  BY TalkAtName DEF ThreadOf
<1>2. w.up = <<>> BY <1>1, OneCell
<1>3. <<>> \o One("info") = One("info") /\ <<>> \o One("nofile") = One("nofile")
  <2>1. One("info") \in Seq(Cell) /\ One("nofile") \in Seq(Cell) BY CellsTyped DEF One
  <2> QED BY <2>1, ConcatEmptySeq
<1>4. CASE w.pc = "fopen" /\ w.down = v.down \o One("info") /\ w.shut = v.shut
  <2>1. In(w, "GET", Opening) BY <1>1, <1>4 DEF In, Opening
  <2>2. Told(w, One("info")) BY <1>1, <1>2, <1>3, <1>4 DEF Told
  <2> QED BY <1>1, <2>1, <2>2 DEF Talk, GetTalk
<1>5. CASE w.pc = "PUT" /\ w.down = v.down \o One("nofile") /\ w.shut
  <2>1. Closed(w) BY <1>1, <1>5 DEF Closed
  <2>2. Told(w, One("nofile")) BY <1>1, <1>2, <1>3, <1>5 DEF Told
  <2> QED BY <1>1, <2>1, <2>2 DEF Talk, GetTalk
<1> QED BY <1>4, <1>5

LEMMA TalkSent ==
  ASSUME NEW v, NEW w, Talk(v), ThreadOf(v, w), v.pc = "sending",
         \/ w.pc = "again" /\ w.shut = v.shut
         \/ w.pc = "PUT" /\ w.shut,
         w.down = v.down \o File, w.up = v.up, w.req = v.req, w.wrote = v.wrote
  PROVE  Talk(w)
<1>1. /\ In(v, "GET", Opening) /\ v.up = <<>>
      /\ \/ v.at = GetResponse /\ v.down = One("info")
         \/ v.at = GetChunks /\ Arriving(v) /\ v.left = Size /\ v.down = <<>>
  <2>1. CASE ListTalk(v) BY <2>1 DEF ListTalk, Unasked, Asked, Fresh, In, Idle, Listed
  <2>2. CASE PutTalk(v) BY <2>2 DEF PutTalk, Unasked, Asked, Fresh, In, Idle, Taking, Taken, Putting
  <2>3. CASE GetTalk(v)
    BY <2>3 DEF GetTalk, Unasked, Asked, Fresh, In, Idle, Echoed, Told, Closed, Getting, Opening
  <2>4. CASE DeleteTalk(v) BY <2>4 DEF DeleteTalk, Unasked, Asked, Fresh, In, Idle, Deleted, Deleting
  <2> QED BY <2>1, <2>2, <2>3, <2>4 DEF Talk
<1>2. Closed(w) BY <1>1 DEF Closed, In
<1>3. CASE v.at = GetResponse /\ v.down = One("info")
  BY <1>1, <1>2, <1>3 DEF Talk, GetTalk, Told, ThreadOf
<1>4. CASE v.at = GetChunks /\ Arriving(v) /\ v.left = Size /\ v.down = <<>>
  <2>1. w.at = GetChunks /\ Arriving(w) /\ w.left = Size BY <1>4 DEF ThreadOf, Arriving
  <2>2. w.down = Rest(Size - w.left) BY <1>4, <2>1, FileEnds
  <2>3. Told(w, Rest(Size - w.left)) BY <1>1, <2>2 DEF Told
  <2> QED BY <1>2, <2>1, <2>3 DEF Talk, GetTalk
<1> QED BY <1>1, <1>3, <1>4

LEMMA TalkAgain ==
  ASSUME NEW v, NEW w, Talk(v), ThreadOf(v, w), v.pc = "again", w.pc = "PUT", w.shut,
         w.up = v.up, w.down = v.down, w.req = v.req, w.wrote = v.wrote
  PROVE  Talk(w)
<1>1. CASE ListTalk(v) BY <1>1 DEF ListTalk, Unasked, Asked, Fresh, In, Listed
<1>2. CASE PutTalk(v) BY <1>2 DEF PutTalk, Unasked, Asked, Fresh, In, Taking, Taken, Putting
<1>3. CASE GetTalk(v)
  <2>1. Closed(v)
    BY <1>3 DEF GetTalk, Unasked, Asked, Fresh, In, Getting, Opening
  <2>2. Closed(w) BY <2>1 DEF Closed
  <2>3. \/ v.at = GetResponse /\ (Told(v, One("info") \o File) \/ Told(v, One("nofile")))
        \/ v.at = GetChunks /\ Arriving(v) /\ Told(v, Rest(Size - v.left))
        \/ Over(v.at) /\ Idle(v)
    BY <1>3 DEF GetTalk, Unasked, Asked, Fresh, In, Getting, Opening
  <2> QED BY <2>2, <2>3 DEF Talk, GetTalk, ThreadOf, Told, Arriving, Idle
<1>4. CASE DeleteTalk(v) BY <1>4 DEF DeleteTalk, Unasked, Asked, Fresh, In, Deleted, Deleting
<1> QED BY <1>1, <1>2, <1>3, <1>4 DEF Talk

\* GetFileFromClient: the Fileinfo, the loop, and its end.
LEMMA TalkAtInfo ==
  ASSUME NEW v, Talk(v), v.pc = "putinfo", v.up # <<>>
  PROVE  /\ v.req = "PUT" /\ ~v.shut /\ v.wrote = <<>> /\ v.down = <<>>
         /\ \/ v.at = FileData /\ v.up = One("info")
            \/ Over(v.at) /\ v.up = One("info") \o File
<1>1. CASE ListTalk(v) BY <1>1 DEF ListTalk, Unasked, Asked, Fresh, In, Idle, Listed
<1>2. CASE PutTalk(v)
  BY <1>2 DEF PutTalk, Unasked, Asked, Fresh, In, Idle, Echoed, Taking, Taken, Putting
<1>3. CASE GetTalk(v) BY <1>3 DEF GetTalk, Unasked, Asked, Fresh, In, Closed, Getting, Opening
<1>4. CASE DeleteTalk(v) BY <1>4 DEF DeleteTalk, Unasked, Asked, Fresh, In, Idle, Deleted, Deleting
<1> QED BY <1>1, <1>2, <1>3, <1>4 DEF Talk

LEMMA TalkInfo ==
  ASSUME NEW v, NEW w, Talk(v), ThreadOf(v, w), v.pc = "putinfo", v.up # <<>>, w.pc = "chunks",
         w.up = Tail(v.up), w.fsize = Size,
         w.down = v.down, w.req = v.req, w.shut = v.shut, w.wrote = v.wrote
  PROVE  Talk(w) /\ Head(v.up).kind = "info"
<1>1. Size \in Nat /\ Size \in 0..Size /\ Size - Size = 0 BY CellsTyped
<1>2. First(Size - Size) = <<>> /\ Rest(Size - Size) = File BY <1>1, FileEnds
<1>3. Taking(w) /\ w.fsize = Size BY <1>1, <1>2, TalkAtInfo DEF Taking
<1>4. CASE v.at = FileData /\ v.up = One("info")
  <2>1. w.up = <<>> /\ Head(v.up).kind = "info" BY <1>4, OneCell
  <2>2. w.at = FileData BY <1>4 DEF ThreadOf
  <2> QED BY <1>3, <2>1, <2>2 DEF Talk, PutTalk
<1>5. CASE Over(v.at) /\ v.up = One("info") \o File
  <2>1. w.up = File /\ Head(v.up).kind = "info" BY <1>5, InfoAndFile
  <2>2. w.up = Rest(Size - w.fsize) BY <1>2, <1>3, <2>1
  <2>3. Over(w.at) BY <1>5 DEF ThreadOf
  <2> QED BY <1>3, <2>1, <2>2, <2>3 DEF Talk, PutTalk
<1> QED BY <1>4, <1>5, TalkAtInfo

LEMMA TalkAtChunks ==
  ASSUME NEW v, Talk(v), v.pc = "chunks"
  PROVE  /\ Taking(v)
         /\ \/ v.at = FileData /\ v.fsize = Size /\ v.up = <<>>
            \/ Over(v.at) /\ v.up = Rest(Size - v.fsize)
<1>1. CASE ListTalk(v) BY <1>1 DEF ListTalk, Unasked, Asked, Fresh, In, Idle, Listed
<1>2. CASE PutTalk(v) BY <1>2 DEF PutTalk, Unasked, Asked, Fresh, In, Idle, Echoed, Taken, Putting
<1>3. CASE GetTalk(v) BY <1>3 DEF GetTalk, Unasked, Asked, Fresh, In, Closed, Getting, Opening
<1>4. CASE DeleteTalk(v) BY <1>4 DEF DeleteTalk, Unasked, Asked, Fresh, In, Idle, Deleted, Deleting
<1> QED BY <1>1, <1>2, <1>3, <1>4 DEF Talk

LEMMA TalkChunk ==
  ASSUME NEW v, NEW w, Talk(v), ThreadOf(v, w), v.pc = "chunks",
         NEW part \in Parts(v.up, v.fsize), w.up = After(v.up, part),
         w.wrote = v.wrote \o part, w.fsize = v.fsize - Len(part),
         w.pc = v.pc, w.down = v.down, w.req = v.req, w.shut = v.shut
  PROVE  Talk(w)
<1>1. v.up # <<>>
  <2>1. Parts(<<>>, v.fsize) = {}
    <3>1. Len(<<>>) = 0 /\ 1..0 = {} OBVIOUS
    <3> QED BY <3>1 DEF Parts
  <2> QED BY <2>1
<1>2. Taking(v) /\ Over(v.at) /\ v.up = Rest(Size - v.fsize) BY <1>1, TalkAtChunks
<1>3. v.fsize \in 0..Size /\ Size \in Nat BY <1>2, CellsTyped DEF Taking
<1> DEFINE n == Size - v.fsize
<1>4. n \in 0..Size BY <1>3
<1>5. part \in Parts(Rest(n), v.fsize) BY <1>2
<1>6. /\ Len(part) \in 1..(Size - n) /\ n + Len(part) \in 0..Size
      /\ First(n) \o part = First(n + Len(part))
      /\ After(Rest(n), part) = Rest(n + Len(part))
  BY <1>4, <1>5, ChunkMoves
<1>7. Size - w.fsize = n + Len(part) /\ w.fsize \in 0..Size
  <2>1. Size - n = v.fsize BY <1>3
  <2> QED BY <1>3, <1>6, <2>1
<1>8. w.wrote = First(Size - w.fsize) /\ w.up = Rest(Size - w.fsize)
  <2>1. v.wrote = First(n) BY <1>2 DEF Taking
  <2> QED BY <1>2, <1>6, <1>7, <2>1
<1>9. Taking(w) BY <1>2, <1>7, <1>8 DEF Taking
<1>10. Over(w.at) BY <1>2 DEF ThreadOf
<1> QED BY <1>8, <1>9, <1>10 DEF Talk, PutTalk

LEMMA TalkTaken ==
  ASSUME NEW v, NEW w, Talk(v), ThreadOf(v, w), v.pc = "chunks", v.fsize = 0, w.pc = "DELETE", w.shut,
         w.up = v.up, w.down = v.down, w.req = v.req, w.wrote = v.wrote
  PROVE  Talk(w)
<1>1. Size # 0 BY CellsTyped
<1>2. Taking(v) /\ Over(w.at) /\ v.up = Rest(Size - v.fsize) BY <1>1, TalkAtChunks DEF ThreadOf
<1>3. First(Size - 0) = File /\ Rest(Size - 0) = <<>>
  <2>1. Size - 0 = Size BY CellsTyped
  <2> QED BY <2>1, FileEnds
<1>4. Taken(w) /\ Idle(w) BY <1>2, <1>3 DEF Taking, Taken, Idle
<1> QED BY <1>2, <1>4 DEF Talk, PutTalk

\* DeleteServerFiles: the Fileinfo, and the removal.
LEMMA TalkAtDelete ==
  ASSUME NEW v, Talk(v)
  PROVE  /\ v.pc = "delname" /\ v.up # <<>> =>
              /\ v.at = DeleteVerdict /\ v.up = One("info") /\ v.down = <<>>
              /\ v.req = "DELETE" /\ ~v.shut /\ v.wrote = <<>>
         /\ v.pc = "remove" =>
              /\ v.at = DeleteVerdict /\ v.up = <<>> /\ v.down = <<>>
              /\ v.req = "DELETE" /\ ~v.shut /\ v.wrote = <<>>
<1>1. CASE ListTalk(v) BY <1>1 DEF ListTalk, Unasked, Asked, Fresh, In, Idle, Listed
<1>2. CASE PutTalk(v) BY <1>2 DEF PutTalk, Unasked, Asked, Fresh, In, Idle, Taking, Taken, Putting
<1>3. CASE GetTalk(v) BY <1>3 DEF GetTalk, Unasked, Asked, Fresh, In, Closed, Getting, Opening
<1>4. CASE DeleteTalk(v)
  BY <1>4 DEF DeleteTalk, Unasked, Asked, Fresh, In, Idle, Echoed, Deleted, Deleting
<1> QED BY <1>1, <1>2, <1>3, <1>4 DEF Talk

LEMMA TalkDelete ==
  ASSUME NEW v, NEW w, Talk(v), ThreadOf(v, w), w.req = v.req, w.wrote = v.wrote,
         \/ /\ v.pc = "delname" /\ v.up # <<>> /\ w.up = Tail(v.up)
            /\ \/ w.pc = "remove" /\ w.down = v.down /\ w.shut = v.shut
               \/ w.pc = "end" /\ w.down = v.down \o One("#") /\ w.shut
         \/ /\ v.pc = "remove" /\ w.up = v.up
            /\ w.pc = "end" /\ w.down = v.down \o One("ok") /\ w.shut /\ w.removed
  PROVE  Talk(w)
<1>1. \A kind \in {"#", "ok"} : <<>> \o One(kind) = One(kind)
  <2>1. One("#") \in Seq(Cell) /\ One("ok") \in Seq(Cell) BY CellsTyped DEF One
  <2> QED BY <2>1, ConcatEmptySeq
<1>2. CASE v.pc = "delname" /\ v.up # <<>> /\ w.up = Tail(v.up)
           /\ w.pc = "remove" /\ w.down = v.down /\ w.shut = v.shut
  <2>1. w.at = DeleteVerdict /\ w.up = <<>> /\ w.down = <<>> BY <1>2, TalkAtDelete, OneCell DEF ThreadOf
  <2>2. In(w, "DELETE", {"remove", "kept"}) BY <1>2, TalkAtDelete DEF In
  <2> QED BY <2>1, <2>2 DEF Talk, DeleteTalk, Idle
<1>3. CASE v.pc = "delname" /\ v.up # <<>> /\ w.up = Tail(v.up)
           /\ w.pc = "end" /\ w.down = v.down \o One("#") /\ w.shut
  <2>1. w.at = DeleteVerdict /\ w.up = <<>> BY <1>3, TalkAtDelete, OneCell DEF ThreadOf
  <2>2. w.down = One("#") BY <1>1, <1>3, TalkAtDelete
  <2>3. Deleted(w) BY <1>3, TalkAtDelete DEF Deleted
  <2> QED BY <2>1, <2>2, <2>3 DEF Talk, DeleteTalk, Told
<1>4. CASE v.pc = "remove" /\ w.up = v.up
           /\ w.pc = "end" /\ w.down = v.down \o One("ok") /\ w.shut /\ w.removed
  <2>1. w.at = DeleteVerdict /\ w.up = <<>> BY <1>4, TalkAtDelete DEF ThreadOf
  <2>2. w.down = One("ok") BY <1>1, <1>4, TalkAtDelete
  <2>3. Deleted(w) BY <1>4, TalkAtDelete DEF Deleted
  <2> QED BY <1>4, <2>1, <2>2, <2>3 DEF Talk, DeleteTalk, Told
<1> QED BY <1>2, <1>3, <1>4

-------------------------------------------------------------------------------
\* The client's side: in which situation it is, by the call that comes next.
LEMMA HeadOf ==
  ASSUME NEW s
  PROVE  /\ Over(s) => s = <<>> \/ (s # <<>> /\ Head(s) = "connect")
         /\ s \in AfterList => s = <<>> \/ (s # <<>> /\ Head(s) = "close")
         /\ \A rest \in AfterList :
              /\ s = ListAt(rest) => s # <<>> /\ Head(s) = "LIST"
              /\ s = listAt(rest) => s # <<>> /\ Head(s) = "list"
         /\ s \in {PutAt, FileAt} => s # <<>> /\ Head(s) = "PUT"
         /\ s = GetAt => s # <<>> /\ Head(s) = "GET"
         /\ s = DeleteAt => s # <<>> /\ Head(s) = "DELETE"
         /\ s \in {PutEcho, FileEcho, GetEcho, DeleteEcho} => s # <<>> /\ Head(s) = "echo"
         /\ s \in {FileInfo, DeleteInfo} => s # <<>> /\ Head(s) = "info"
         /\ s = FileData => s # <<>> /\ Head(s) = "data"
         /\ s = GetName => s # <<>> /\ Head(s) = "name"
         /\ s = GetResponse => s # <<>> /\ Head(s) = "response"
         /\ s = GetChunks => s # <<>> /\ Head(s) = "chunks"
         /\ s = DeleteVerdict => s # <<>> /\ Head(s) = "verdict"
         /\ s = DeleteAgain => s # <<>> /\ Head(s) = "again"
<1>1. Over(s) => s = <<>> \/ (s # <<>> /\ Head(s) = "connect") BY AfterConnect DEF Over
<1>2. s \in AfterList => s = <<>> \/ (s # <<>> /\ Head(s) = "close") BY AfterClose
<1>3. \A rest \in AfterList :
        /\ s = ListAt(rest) => s # <<>> /\ Head(s) = "LIST"
        /\ s = listAt(rest) => s # <<>> /\ Head(s) = "list"
  BY ListCalls
<1>4. /\ s \in {PutAt, FileAt} => s # <<>> /\ Head(s) = "PUT"
      /\ s \in {PutEcho, FileEcho} => s # <<>> /\ Head(s) = "echo"
      /\ s = FileInfo => s # <<>> /\ Head(s) = "info"
      /\ s = FileData => s # <<>> /\ Head(s) = "data"
  BY PutCalls
<1>5. /\ s = GetAt => s # <<>> /\ Head(s) = "GET"
      /\ s = GetEcho => s # <<>> /\ Head(s) = "echo"
      /\ s = GetName => s # <<>> /\ Head(s) = "name"
      /\ s = GetResponse => s # <<>> /\ Head(s) = "response"
      /\ s = GetChunks => s # <<>> /\ Head(s) = "chunks"
  BY GetCalls
<1>6. /\ s = DeleteAt => s # <<>> /\ Head(s) = "DELETE"
      /\ s = DeleteEcho => s # <<>> /\ Head(s) = "echo"
      /\ s = DeleteInfo => s # <<>> /\ Head(s) = "info"
      /\ s = DeleteVerdict => s # <<>> /\ Head(s) = "verdict"
      /\ s = DeleteAgain => s # <<>> /\ Head(s) = "again"
  BY DeleteCalls
<1> QED BY <1>1, <1>2, <1>3, <1>4, <1>5, <1>6

LEMMA TalkAtOp ==
  ASSUME NEW v, Talk(v), v.at # <<>>
  PROVE  /\ Head(v.at) = "LIST" => \E rest \in AfterList : v.at = ListAt(rest) /\ Unasked(v)
         /\ Head(v.at) = "list" =>
              \E rest \in AfterList :
                /\ v.at = listAt(rest)
                /\ \/ Asked(v, "LIST")
                   \/ In(v, "LIST", {"LIST"}) /\ Idle(v)
                   \/ Listed(v) /\ \E k \in 0..Entries : v.down = Listing(k)
         /\ Head(v.at) = "PUT" => v.at \in {PutAt, FileAt} /\ Unasked(v)
         /\ Head(v.at) = "GET" => v.at = GetAt /\ Unasked(v)
         /\ Head(v.at) = "DELETE" => v.at = DeleteAt /\ Unasked(v)
         /\ Head(v.at) = "echo" =>
              \/ /\ v.at \in {PutEcho, FileEcho}
                 /\ \/ Asked(v, "PUT")
                    \/ In(v, "PUT", {"LIST", "GET", "PUT"}) /\ Idle(v)
                    \/ In(v, "PUT", Putting) /\ Echoed(v)
              \/ /\ v.at = GetEcho
                 /\ \/ Asked(v, "GET")
                    \/ In(v, "GET", {"LIST", "GET"}) /\ Idle(v)
                    \/ In(v, "GET", Getting) /\ Echoed(v)
              \/ /\ v.at = DeleteEcho
                 /\ \/ Asked(v, "DELETE")
                    \/ In(v, "DELETE", {"LIST", "GET", "PUT", "DELETE"}) /\ Idle(v)
                    \/ In(v, "DELETE", Deleting) /\ Echoed(v)
         /\ Head(v.at) = "info" =>
              \/ v.at = FileInfo /\ In(v, "PUT", Putting) /\ Idle(v)
              \/ v.at = DeleteInfo /\ In(v, "DELETE", Deleting) /\ Idle(v)
         /\ Head(v.at) = "data" =>
              /\ v.at = FileData
              /\ \/ In(v, "PUT", Putting) /\ v.up = One("info") /\ v.down = <<>>
                 \/ Taking(v) /\ v.fsize = Size /\ v.up = <<>>
         /\ Head(v.at) = "name" => v.at = GetName /\ In(v, "GET", Getting) /\ Idle(v)
         /\ Head(v.at) = "response" =>
              /\ v.at = GetResponse
              /\ \/ In(v, "GET", Getting) /\ v.up = One("name") /\ v.down = <<>>
                 \/ In(v, "GET", Opening) /\ Told(v, One("info"))
                 \/ Closed(v) /\ (Told(v, One("info") \o File) \/ Told(v, One("nofile")))
         /\ Head(v.at) = "chunks" =>
              /\ v.at = GetChunks /\ Arriving(v)
              /\ \/ In(v, "GET", Opening) /\ v.left = Size /\ Idle(v)
                 \/ Closed(v) /\ Told(v, Rest(Size - v.left))
         /\ Head(v.at) = "verdict" =>
              /\ v.at = DeleteVerdict
              /\ \/ In(v, "DELETE", Deleting) /\ v.up = One("info") /\ v.down = <<>>
                 \/ In(v, "DELETE", {"remove", "kept"}) /\ Idle(v)
                 \/ Deleted(v) /\ (Told(v, One("#")) \/ (Told(v, One("ok")) /\ v.removed))
         /\ Head(v.at) = "again" => v.at = DeleteAgain /\ Deleted(v) /\ Idle(v)
         /\ Head(v.at) = "close" => Listed(v) /\ v.down = <<>>
<1> USE HeadOf
<1>1. CASE ListTalk(v) BY <1>1 DEF ListTalk
<1>2. CASE PutTalk(v) BY <1>2 DEF PutTalk
<1>3. CASE GetTalk(v) BY <1>3 DEF GetTalk
<1>4. CASE DeleteTalk(v) BY <1>4 DEF DeleteTalk
<1> QED BY <1>1, <1>2, <1>3, <1>4 DEF Talk

\* When the client has finished, the thread has: what is left is to answer, or to read a file.
LEMMA TalkOver ==
  ASSUME NEW v, Talk(v), Over(v.at)
  PROVE  /\ v.pc \notin {"memset", "call", "recv"}
         /\ v.down = <<>>
<1> USE HeadOf
<1>1. CASE ListTalk(v) BY <1>1 DEF ListTalk, Listed
<1>2. CASE PutTalk(v) BY <1>2 DEF PutTalk, In, Putting, Taking, Taken, Idle
<1>3. CASE GetTalk(v) BY <1>3 DEF GetTalk, Closed, Idle
<1>4. CASE DeleteTalk(v) BY <1>4 DEF DeleteTalk, Deleted, Idle
<1> QED BY <1>1, <1>2, <1>3, <1>4 DEF Talk

\* A client that has finished with a connection leaves it as it is.
LEMMA TalkLeft ==
  ASSUME NEW v, NEW w, Talk(v), v.at \in AfterList \/ Over(v.at), Over(w.at),
         ClientOf(v, w), w.up = v.up, w.down = v.down
  PROVE  Talk(w)
<1> USE HeadOf
<1>1. CASE ListTalk(v)
  <2>1. Listed(v) /\ v.down = <<>> BY <1>1 DEF ListTalk
  <2>2. Listed(w) /\ w.down = <<>> BY <2>1 DEF Listed, ClientOf
  <2> QED BY <2>2 DEF Talk, ListTalk
<1>2. CASE PutTalk(v)
  <2>1. \/ In(v, "PUT", Putting) /\ v.up \in {<<>>, One("info") \o File} /\ v.down = <<>>
        \/ Taking(v) /\ v.up = Rest(Size - v.fsize)
        \/ Taken(v) /\ Idle(v)
    BY <1>2 DEF PutTalk
  <2>2. \/ In(w, "PUT", Putting) /\ w.up \in {<<>>, One("info") \o File} /\ w.down = <<>>
        \/ Taking(w) /\ w.up = Rest(Size - w.fsize)
        \/ Taken(w) /\ Idle(w)
    BY <2>1 DEF ClientOf, In, Taking, Taken, Idle
  <2> QED BY <2>2 DEF Talk, PutTalk
<1>3. CASE GetTalk(v)
  <2>1. Closed(v) /\ Idle(v) BY <1>3 DEF GetTalk
  <2>2. Closed(w) /\ Idle(w) BY <2>1 DEF Closed, Idle, ClientOf
  <2> QED BY <2>2 DEF Talk, GetTalk
<1>4. CASE DeleteTalk(v)
  <2>1. Deleted(v) /\ Idle(v) BY <1>4 DEF DeleteTalk
  <2>2. Deleted(w) /\ Idle(w) BY <2>1 DEF Deleted, Idle, ClientOf
  <2> QED BY <2>2 DEF Talk, DeleteTalk
<1> QED BY <1>1, <1>2, <1>3, <1>4 DEF Talk

\* A new connection.
LEMMA TalkNew ==
  ASSUME NEW v, Unasked(v), v.at \in Starting
  PROVE  Talk(v)
BY DEF Starting, Talk, ListTalk, PutTalk, GetTalk, DeleteTalk

\* The client sends: its request, a name, a Fileinfo, the file.
LEMMA TalkSend ==
  ASSUME NEW v, NEW w, Talk(v), ClientOf(v, w), NEW op \in Sends, v.at # <<>>, Head(v.at) = op,
         w.at = Tail(v.at), w.up = v.up \o IF op = "data" THEN File ELSE One(op), w.down = v.down
  PROVE  Talk(w)
<1>1. \A kind \in Sends : <<>> \o One(kind) = One(kind)
  <2>1. \A kind \in Sends : One(kind) \in Seq(Cell) BY CellsTyped DEF One, Sends
  <2> QED BY <2>1, ConcatEmptySeq
<1>2. op \in {"LIST", "GET", "PUT", "DELETE", "name", "info", "data"} BY DEF Sends, Choice
<1>3. Unasked(v) /\ op # "data" => Asked(w, op) BY <1>1 DEF Unasked, Asked, Fresh, ClientOf
<1>4. v.up = <<>> /\ op # "data" => w.up = One(op) BY <1>1
<1>5. CASE op = "LIST"
  <2>1. PICK rest \in AfterList : v.at = ListAt(rest) /\ Unasked(v) BY <1>5, TalkAtOp
  <2>2. w.at = listAt(rest) BY <2>1, ListCalls
  <2> QED BY <1>3, <1>5, <2>1, <2>2 DEF Talk, ListTalk
<1>6. CASE op = "PUT"
  <2>1. v.at \in {PutAt, FileAt} /\ Unasked(v) BY <1>6, TalkAtOp
  <2>2. w.at \in {PutEcho, FileEcho} BY <2>1, PutCalls
  <2> QED BY <1>3, <1>6, <2>1, <2>2 DEF Talk, PutTalk
<1>7. CASE op = "GET"
  <2>1. v.at = GetAt /\ Unasked(v) BY <1>7, TalkAtOp
  <2>2. w.at = GetEcho BY <2>1, GetCalls
  <2> QED BY <1>3, <1>7, <2>1, <2>2 DEF Talk, GetTalk
<1>8. CASE op = "DELETE"
  <2>1. v.at = DeleteAt /\ Unasked(v) BY <1>8, TalkAtOp
  <2>2. w.at = DeleteEcho BY <2>1, DeleteCalls
  <2> QED BY <1>3, <1>8, <2>1, <2>2 DEF Talk, DeleteTalk
<1>9. CASE op = "name"
  <2>1. v.at = GetName /\ In(v, "GET", Getting) /\ Idle(v) BY <1>9, TalkAtOp
  <2>2. w.at = GetResponse BY <2>1, GetCalls
  <2>3. In(w, "GET", Getting) /\ w.up = One("name") /\ w.down = <<>>
    BY <1>4, <1>9, <2>1 DEF In, Idle, ClientOf
  <2> QED BY <2>2, <2>3 DEF Talk, GetTalk
<1>10. CASE op = "info"
  <2>1. \/ v.at = FileInfo /\ In(v, "PUT", Putting) /\ Idle(v)
        \/ v.at = DeleteInfo /\ In(v, "DELETE", Deleting) /\ Idle(v)
    BY <1>10, TalkAtOp
  <2>2. w.up = One("info") /\ w.down = <<>> BY <1>4, <1>10, <2>1 DEF Idle
  <2>3. CASE v.at = FileInfo /\ In(v, "PUT", Putting)
    <3>1. w.at = FileData /\ In(w, "PUT", Putting) BY <2>3, PutCalls DEF In, ClientOf
    <3> QED BY <2>2, <3>1 DEF Talk, PutTalk
  <2>4. CASE v.at = DeleteInfo /\ In(v, "DELETE", Deleting)
    <3>1. w.at = DeleteVerdict /\ In(w, "DELETE", Deleting) BY <2>4, DeleteCalls DEF In, ClientOf
    <3> QED BY <2>2, <3>1 DEF Talk, DeleteTalk
  <2> QED BY <2>1, <2>3, <2>4
<1>11. CASE op = "data"
  <2>1. /\ v.at = FileData
        /\ \/ In(v, "PUT", Putting) /\ v.up = One("info") /\ v.down = <<>>
           \/ Taking(v) /\ v.fsize = Size /\ v.up = <<>>
    BY <1>11, TalkAtOp
  <2>2. Over(w.at) BY <2>1, PutCalls DEF Over
  <2>3. CASE In(v, "PUT", Putting) /\ v.up = One("info") /\ v.down = <<>>
    <3>1. In(w, "PUT", Putting) /\ w.up = One("info") \o File /\ w.down = <<>>
      BY <1>11, <2>3 DEF In, ClientOf
    <3> QED BY <2>2, <3>1 DEF Talk, PutTalk
  <2>4. CASE Taking(v) /\ v.fsize = Size /\ v.up = <<>>
    <3>1. Taking(w) BY <2>4 DEF Taking, ClientOf
    <3>2. w.up = Rest(Size - w.fsize) BY <1>11, <2>4, FileEnds DEF ClientOf
    <3> QED BY <2>2, <3>1, <3>2 DEF Talk, PutTalk
  <2> QED BY <2>1, <2>3, <2>4
<1> QED BY <1>2, <1>5, <1>6, <1>7, <1>8, <1>9, <1>10, <1>11

\* The client receives an entry of the listing, or its end.
LEMMA TalkList ==
  ASSUME NEW v, NEW w, Talk(v), ClientOf(v, w), v.at # <<>>, Head(v.at) = "list", v.down # <<>>,
         w.down = Tail(v.down), w.up = v.up,
         w.at = IF Head(v.down).kind = "@" THEN Tail(v.at) ELSE v.at
  PROVE  Talk(w)
<1>1. PICK rest \in AfterList :
        /\ v.at = listAt(rest)
        /\ \/ Asked(v, "LIST")
           \/ In(v, "LIST", {"LIST"}) /\ Idle(v)
           \/ Listed(v) /\ \E k \in 0..Entries : v.down = Listing(k)
  BY TalkAtOp
<1>2. Listed(v) /\ \E k \in 0..Entries : v.down = Listing(k) BY <1>1 DEF Asked, Fresh, Idle
<1>3. PICK k \in 0..Entries : v.down = Listing(k) BY <1>2
<1>4. k \in Nat /\ (k # 0 => k - 1 \in 0..Entries) BY TcpServerAssumption
<1>5. /\ Head(v.down).kind = IF k = 0 THEN "@" ELSE "entry"
      /\ w.down = IF k = 0 THEN <<>> ELSE Listing(k - 1)
  BY <1>3, <1>4, Listings
<1>6. Listed(w) BY <1>2 DEF Listed, ClientOf
<1>7. CASE k = 0
  <2>1. w.at = rest BY <1>1, <1>5, <1>7, ListCalls
  <2>2. w.down = <<>> BY <1>5, <1>7
  <2> QED BY <1>6, <2>1, <2>2 DEF Talk, ListTalk
<1>8. CASE k # 0
  <2>1. w.at = listAt(rest) BY <1>1, <1>5, <1>8
  <2>2. w.down = Listing(k - 1) BY <1>5, <1>8
  <2> QED BY <1>4, <1>6, <1>8, <2>1, <2>2 DEF Talk, ListTalk
<1> QED BY <1>7, <1>8

\* The client receives the echo of its command, or finds the connection closed.
LEMMA TalkEcho ==
  ASSUME NEW v, NEW w, Talk(v), ClientOf(v, w), v.at # <<>>, Head(v.at) \in {"echo", "again"},
         w.at = Tail(v.at), w.up = v.up,
         \/ v.down # <<>> /\ w.down = Tail(v.down)
         \/ v.shut /\ v.down = <<>> /\ w.down = v.down
  PROVE  Talk(w)
<1>1. CASE Head(v.at) = "again"
  <2>1. v.at = DeleteAgain /\ Deleted(v) /\ Idle(v) BY <1>1, TalkAtOp
  <2>2. Over(w.at) BY <2>1, DeleteCalls DEF Over
  <2>3. Deleted(w) /\ Idle(w) BY <2>1 DEF Deleted, Idle, ClientOf
  <2> QED BY <2>2, <2>3 DEF Talk, DeleteTalk
<1>2. CASE Head(v.at) = "echo"
  <2>1. \/ v.at \in {PutEcho, FileEcho} /\ In(v, "PUT", Putting) /\ Echoed(v)
        \/ v.at = GetEcho /\ In(v, "GET", Getting) /\ Echoed(v)
        \/ v.at = DeleteEcho /\ In(v, "DELETE", Deleting) /\ Echoed(v)
    BY <1>2, TalkAtOp DEF Asked, Fresh, Idle, In
  <2>2. w.up = <<>> /\ w.down = <<>>
    <3>1. v.up = <<>> /\ v.down = One("echo") BY <2>1 DEF Echoed
    <3>2. One("echo") # <<>> /\ Tail(One("echo")) = <<>> BY OneCell
    <3> QED BY <3>1, <3>2
  <2>3. Idle(w) BY <2>2 DEF Idle
  <2>4. CASE v.at = PutEcho /\ In(v, "PUT", Putting)
    <3>1. Over(w.at) /\ In(w, "PUT", Putting) BY <2>4, PutCalls DEF Over, In, ClientOf
    <3> QED BY <2>2, <3>1 DEF Talk, PutTalk
  <2>5. CASE v.at = FileEcho /\ In(v, "PUT", Putting)
    <3>1. w.at = FileInfo /\ In(w, "PUT", Putting) BY <2>5, PutCalls DEF In, ClientOf
    <3> QED BY <2>3, <3>1 DEF Talk, PutTalk
  <2>6. CASE v.at = GetEcho /\ In(v, "GET", Getting)
    <3>1. w.at = GetName /\ In(w, "GET", Getting) BY <2>6, GetCalls DEF In, ClientOf
    <3> QED BY <2>3, <3>1 DEF Talk, GetTalk
  <2>7. CASE v.at = DeleteEcho /\ In(v, "DELETE", Deleting)
    <3>1. w.at = DeleteInfo /\ In(w, "DELETE", Deleting) BY <2>7, DeleteCalls DEF In, ClientOf
    <3> QED BY <2>3, <3>1 DEF Talk, DeleteTalk
  <2> QED BY <2>1, <2>4, <2>5, <2>6, <2>7
<1> QED BY <1>1, <1>2

\* The client receives the Fileinfo, or a word that there is no file.
LEMMA TalkResponse ==
  ASSUME NEW v, NEW w, Talk(v), ClientOf(v, w), v.at # <<>>, Head(v.at) = "response", w.up = v.up,
         \/ /\ v.down # <<>> /\ Head(v.down).kind = "info" /\ w.down = Tail(v.down)
            /\ w.at = Tail(v.at) /\ w.left = Size /\ w.got = <<>>
         \/ /\ \/ v.shut /\ v.down = <<>> /\ w.down = v.down
               \/ v.down # <<>> /\ Head(v.down).kind # "info" /\ w.down = Tail(v.down)
            /\ w.at = <<>>
  PROVE  Talk(w)
<1>1. /\ v.at = GetResponse
      /\ \/ In(v, "GET", Opening) /\ Told(v, One("info"))
         \/ Closed(v) /\ (Told(v, One("info") \o File) \/ Told(v, One("nofile")))
  BY TalkAtOp, OneCell DEF In
<1>2. v.down # <<>> /\ w.down = Tail(v.down) BY <1>1, OneCell, InfoAndFile DEF Told, In
<1>3. In(v, "GET", Opening) => In(w, "GET", Opening) BY DEF In, ClientOf
<1>4. Closed(v) => Closed(w) BY DEF Closed, ClientOf
<1>5. w.at = Tail(v.at) /\ w.left = Size /\ w.got = <<>> => w.at = GetChunks /\ Arriving(w)
  <2>1. Size \in 0..Size BY CellsTyped
  <2> QED BY <1>1, <2>1, GetCalls, FileEnds DEF Arriving
<1>6. CASE In(v, "GET", Opening) /\ Told(v, One("info"))
  <2>1. Head(v.down).kind = "info" /\ w.down = <<>> /\ w.up = <<>> BY <1>2, <1>6, OneCell DEF Told
  <2>2. w.at = GetChunks /\ Arriving(w) /\ w.left = Size BY <1>2, <1>5, <2>1
  <2> QED BY <1>3, <1>6, <2>1, <2>2 DEF Talk, GetTalk, Idle
<1>7. CASE Closed(v) /\ Told(v, One("info") \o File)
  <2>1. Head(v.down).kind = "info" /\ w.down = File /\ w.up = <<>>
    BY <1>2, <1>7, InfoAndFile DEF Told
  <2>2. w.at = GetChunks /\ Arriving(w) /\ w.left = Size BY <1>2, <1>5, <2>1
  <2>3. Told(w, Rest(Size - w.left)) BY <2>1, <2>2, FileEnds DEF Told
  <2> QED BY <1>4, <1>7, <2>2, <2>3 DEF Talk, GetTalk
<1>8. CASE Closed(v) /\ Told(v, One("nofile"))
  <2>1. Head(v.down).kind = "nofile" /\ w.down = <<>> /\ w.up = <<>> BY <1>2, <1>8, OneCell DEF Told
  <2>2. w.at = <<>> BY <1>2, <2>1
  <2> QED BY <1>4, <1>8, <2>1, <2>2 DEF Talk, GetTalk, Idle, Over
<1> QED BY <1>1, <1>6, <1>7, <1>8

\* GetFileFromServer's loop, and its end.
LEMMA TalkArrives ==
  ASSUME NEW v, NEW w, Talk(v), ClientOf(v, w), v.at # <<>>, Head(v.at) = "chunks", w.up = v.up,
         NEW part \in Parts(v.down, v.left), w.at = v.at, w.down = After(v.down, part),
         w.got = v.got \o part, w.left = v.left - Len(part)
  PROVE  Talk(w)
<1>1. v.down # <<>>
  <2>1. Parts(<<>>, v.left) = {}
    <3>1. Len(<<>>) = 0 /\ 1..0 = {} OBVIOUS
    <3> QED BY <3>1 DEF Parts
  <2> QED BY <2>1
<1>2. v.at = GetChunks /\ Arriving(v) /\ Closed(v) /\ v.up = <<>> /\ v.down = Rest(Size - v.left)
  BY <1>1, TalkAtOp DEF Idle, Told
<1>3. v.left \in 0..Size /\ Size \in Nat BY <1>2, CellsTyped DEF Arriving
<1> DEFINE n == Size - v.left
<1>4. n \in 0..Size BY <1>3
<1>5. part \in Parts(Rest(n), v.left) BY <1>2
<1>6. /\ Len(part) \in 1..(Size - n) /\ n + Len(part) \in 0..Size
      /\ First(n) \o part = First(n + Len(part))
      /\ After(Rest(n), part) = Rest(n + Len(part))
  BY <1>4, <1>5, ChunkMoves
<1>7. Size - w.left = n + Len(part) /\ w.left \in 0..Size
  <2>1. Len(part) \in 1..v.left
    <3>1. Size - n = v.left BY <1>3
    <3> QED BY <1>6, <3>1
  <2>2. w.left = v.left - Len(part) OBVIOUS
  <2> QED BY <1>3, <2>1, <2>2
<1>8. w.got = First(Size - w.left) /\ w.down = Rest(Size - w.left)
  <2>1. v.got = First(n) BY <1>2 DEF Arriving
  <2> QED BY <1>2, <1>6, <1>7, <2>1
<1>9. Arriving(w) /\ Told(w, Rest(Size - w.left)) BY <1>2, <1>7, <1>8 DEF Arriving, Told
<1>10. w.at = GetChunks /\ Closed(w) BY <1>2 DEF Closed, ClientOf
<1> QED BY <1>9, <1>10 DEF Talk, GetTalk

LEMMA TalkArrived ==
  ASSUME NEW v, NEW w, Talk(v), ClientOf(v, w), v.at # <<>>, Head(v.at) = "chunks", v.left = 0,
         w.at = Tail(v.at), w.up = v.up, w.down = v.down
  PROVE  Talk(w)
<1>1. Size # 0 /\ Size - 0 = Size BY CellsTyped
<1>2. v.at = GetChunks /\ Closed(v) /\ v.up = <<>> /\ v.down = Rest(Size - v.left)
  BY <1>1, TalkAtOp DEF Told
<1>3. Idle(w) /\ Closed(w)
  <2>1. v.down = <<>> BY <1>1, <1>2, FileEnds
  <2> QED BY <1>2, <2>1 DEF Idle, Closed, ClientOf
<1>4. Over(w.at) BY <1>2, GetCalls DEF Over
<1> QED BY <1>3, <1>4 DEF Talk, GetTalk

\* deleteServerFiles: "ok", which only a removal is answered with, or not.
LEMMA TalkVerdict ==
  ASSUME NEW v, NEW w, Talk(v), ClientOf(v, w), v.at # <<>>, Head(v.at) = "verdict", w.up = v.up,
         \/ v.shut /\ v.down = <<>> /\ w.down = v.down
         \/ v.down # <<>> /\ w.down = Tail(v.down),
         \/ w.at = <<>>
         \/ w.at = Tail(v.at) /\ v.down # <<>> /\ Head(v.down).kind \notin {"ok", "info"}
  PROVE  Talk(w) /\ v.down # <<>> /\ (Head(v.down).kind \in {"ok", "info"} => v.removed)
<1>1. /\ v.at = DeleteVerdict /\ Deleted(v) /\ v.up = <<>>
      /\ v.down = One("#") \/ (v.down = One("ok") /\ v.removed)
  BY TalkAtOp DEF In, Idle, Told
<1>2. v.down # <<>> /\ w.down = <<>>
  <2>1. \A kind : One(kind) # <<>> /\ Tail(One(kind)) = <<>> BY OneCell
  <2>2. v.down # <<>> /\ Tail(v.down) = <<>> BY <1>1, <2>1
  <2> QED BY <2>2
<1>3. Head(v.down).kind \in {"ok", "info"} => v.removed
  <2>1. Head(One("#")).kind = "#" BY OneCell
  <2> QED BY <1>1, <2>1
<1>4. Deleted(w) /\ Idle(w) BY <1>1, <1>2 DEF Deleted, Idle, ClientOf
<1>5. w.at = DeleteAgain \/ Over(w.at) BY <1>1, DeleteCalls DEF Over
<1> QED BY <1>2, <1>3, <1>4, <1>5 DEF Talk, DeleteTalk

-------------------------------------------------------------------------------
\* What the situations say of the files on their way.
LEMMA TalkFiles ==
  ASSUME NEW v, Talk(v)
  PROVE  /\ \E n \in 0..Size : v.wrote = First(n)
         /\ v.req = "PUT" /\ v.shut => v.wrote = File
<1>1. Size \in Nat /\ 0 \in 0..Size /\ Size \in 0..Size BY CellsTyped
<1>2. First(0) = <<>> /\ First(Size) = File BY FileEnds
<1>3. \/ v.wrote = <<>> /\ ~(v.req = "PUT" /\ v.shut)
      \/ v.wrote = File
      \/ Taking(v)
  <2>1. CASE ListTalk(v) BY <2>1 DEF ListTalk, Unasked, Asked, Fresh, In, Listed
  <2>2. CASE PutTalk(v) BY <2>2 DEF PutTalk, Unasked, Asked, Fresh, In, Taken
  <2>3. CASE GetTalk(v) BY <2>3 DEF GetTalk, Unasked, Asked, Fresh, In, Closed
  <2>4. CASE DeleteTalk(v) BY <2>4 DEF DeleteTalk, Unasked, Asked, Fresh, In, Deleted
  <2> QED BY <2>1, <2>2, <2>3, <2>4 DEF Talk
<1>4. CASE Taking(v)
  <2>1. v.wrote = First(Size - v.fsize) /\ v.fsize \in 0..Size /\ ~v.shut BY <1>4 DEF Taking
  <2>2. Size - v.fsize \in 0..Size BY <1>1, <2>1
  <2> QED BY <2>1, <2>2
<1> QED BY <1>1, <1>2, <1>3, <1>4

LEMMA TalkAnswers ==
  ASSUME NEW v, Talk(v)
  PROVE  /\ v.at = GetChunks => v.got = First(Size - v.left) /\ v.down \in {<<>>, Rest(Size - v.left)}
         /\ v.at \in {GetAt, GetEcho} => v.down \in {<<>>, One("echo")}
         /\ v.at \in {GetName, GetResponse} => InfoFirst(v.down)
<1> USE HeadOf
<1>1. ASSUME v.at = GetChunks
      PROVE  v.got = First(Size - v.left) /\ v.down \in {<<>>, Rest(Size - v.left)}
  BY <1>1, TalkAtOp DEF Arriving, Told, Idle
<1>2. ASSUME v.at \in {GetAt, GetEcho} PROVE v.down \in {<<>>, One("echo")}
  <2>1. CASE v.at = GetAt BY <2>1, TalkAtOp DEF Unasked, Fresh
  <2>2. CASE v.at = GetEcho BY <2>2, TalkAtOp DEF Asked, Fresh, Idle, Echoed
  <2> QED BY <1>2, <2>1, <2>2
<1>3. ASSUME v.at \in {GetName, GetResponse} PROVE InfoFirst(v.down)
  <2>1. CASE v.at = GetName BY <2>1, TalkAtOp DEF Idle, InfoFirst
  <2>2. CASE v.at = GetResponse BY <2>2, TalkAtOp DEF Told, InfoFirst
  <2> QED BY <1>3, <2>1, <2>2
<1> QED BY <1>1, <1>2, <1>3

-------------------------------------------------------------------------------
\* The calls of a GET are no others.
GetCallsLeft == {GetAt, GetEcho, GetName, GetResponse, GetChunks}

LEMMA NoGetCalls ==
  ASSUME NEW s, s = <<>> \/ Head(s) \notin {"GET", "echo", "name", "response", "chunks"}
  PROVE  s \notin GetCallsLeft
BY HeadOf DEF GetCallsLeft

LEMMA EchoesDiffer == {PutEcho, FileEcho, DeleteEcho} \cap GetCallsLeft = {}
<1>1. /\ Head(GetAt) = "GET" /\ Head(GetName) = "name" /\ Head(GetResponse) = "response"
      /\ Head(GetChunks) = "chunks"
      /\ Head(PutEcho) = "echo" /\ Head(FileEcho) = "echo" /\ Head(DeleteEcho) = "echo"
  BY PutCalls, GetCalls, DeleteCalls
<1>2. /\ Tail(GetEcho) # <<>> /\ Head(Tail(GetEcho)) = "name"
      /\ Tail(PutEcho) = <<>> /\ Head(Tail(FileEcho)) = "info" /\ Head(Tail(DeleteEcho)) = "info"
  BY PutCalls, GetCalls, DeleteCalls
<1> QED BY <1>1, <1>2 DEF GetCallsLeft

\* The calls a client has left, whatever happens to the threads.
LEMMA CallsGoOn ==
  ASSUME NEW s \in Scripts, s # <<>>
  PROVE  /\ Tail(s) \in Scripts
         /\ Head(s) = "connect" => s \in Connecting /\ Tail(s) \in Starting
         /\ Head(s) = "close" => s \in AfterList /\ Tail(s) \in Connecting
         /\ Head(s) = "response" => s = GetResponse
         /\ Head(s) = "chunks" => s = GetChunks
         /\ Tail(s) = GetChunks => s = GetResponse
         /\ Tail(s) = GetAt => Head(s) = "connect"
         /\ Tail(s) = GetEcho => s = GetAt
         /\ Tail(s) = GetName => s = GetEcho
         /\ Tail(s) = GetResponse => s = GetName
<1> USE HeadOf DEF GetCallsLeft
<1>1. CASE s \in AfterList
  <2>1. Head(s) = "close" /\ Tail(s) \in Connecting BY <1>1, AfterClose
  <2>2. Over(Tail(s)) /\ Tail(s) \in Scripts BY <2>1 DEF Over, Scripts
  <2> QED BY <1>1, <2>1, <2>2
<1>2. CASE s \in Connecting
  <2>1. Head(s) = "connect" /\ Tail(s) \in Starting BY <1>2, AfterConnect
  <2>2. Tail(s) \in Scripts BY <2>1 DEF Scripts
  <2>3. Tail(s) \notin {GetEcho, GetName, GetResponse, GetChunks}
    <3>1. CASE Tail(s) = GetAt BY <3>1, GetCalls
    <3>2. CASE \E rest \in AfterList : Tail(s) = ListAt(rest)
      <4>1. Head(Tail(s)) = "LIST" BY <3>2, ListCalls
      <4> QED BY <4>1, NoGetCalls
    <3>3. CASE Tail(s) \in {PutAt, FileAt, DeleteAt}
      <4>1. Head(Tail(s)) \in {"PUT", "DELETE"} BY <3>3, PutCalls, DeleteCalls
      <4> QED BY <4>1, NoGetCalls
    <3> QED BY <2>1, <3>1, <3>2, <3>3 DEF Starting
  <2> QED BY <1>2, <2>1, <2>2, <2>3
<1>3. ASSUME NEW rest \in AfterList, s = ListAt(rest) \/ s = listAt(rest)
      PROVE  Tail(s) \in Scripts /\ Head(s) \in {"LIST", "list"}
             /\ (Tail(s) = <<>> \/ Head(Tail(s)) \in {"list", "close"})
  <2>1. CASE s = ListAt(rest)
    <3>1. Head(s) = "LIST" /\ Tail(s) = listAt(rest) BY <2>1, ListCalls
    <3>2. listAt(rest) \in Scripts
      <4>1. listAt(rest) \in {listAt(r) : r \in AfterList} OBVIOUS
      <4> QED BY <4>1 DEF Scripts
    <3>3. Head(listAt(rest)) = "list" BY ListCalls
    <3> QED BY <3>1, <3>2, <3>3
  <2>2. CASE s = listAt(rest)
    <3>1. Head(s) = "list" /\ Tail(s) = rest BY <2>2, ListCalls
    <3>2. Tail(s) \in Scripts BY <3>1 DEF Scripts
    <3> QED BY <3>1, <3>2, AfterClose
  <2> QED BY <1>3, <2>1, <2>2
<1>4. CASE s \in {PutAt, FileAt, PutEcho, FileEcho, FileInfo, FileData}
  <2>1. /\ Tail(s) \in {<<>>, PutEcho, FileEcho, FileInfo, FileData}
        /\ Head(s) \in {"PUT", "echo", "info", "data"}
    BY <1>4, PutCalls
  <2>2. Tail(s) \in Scripts BY <2>1 DEF Scripts, AfterList
  <2>3. Tail(s) \notin GetCallsLeft
    <3>1. CASE Tail(s) \in {PutEcho, FileEcho} BY <3>1, EchoesDiffer
    <3>2. CASE Tail(s) \in {<<>>, FileInfo, FileData}
      <4>1. Tail(s) = <<>> \/ Head(Tail(s)) \in {"info", "data"} BY <3>2, PutCalls
      <4> QED BY <4>1, NoGetCalls
    <3> QED BY <2>1, <3>1, <3>2
  <2> QED BY <2>1, <2>2, <2>3
<1>5. CASE s \in {GetAt, GetEcho, GetName, GetResponse, GetChunks}
  <2>1. /\ s = GetAt => Tail(s) = GetEcho
        /\ s = GetEcho => Tail(s) = GetName
        /\ s = GetName => Tail(s) = GetResponse
        /\ s = GetResponse => Tail(s) = GetChunks
        /\ s = GetChunks => Tail(s) = <<>>
    BY GetCalls
  <2>2. Tail(s) \in Scripts BY <1>5, <2>1 DEF Scripts, AfterList
  <2> QED BY <1>5, <2>1, <2>2
<1>6. CASE s \in {DeleteAt, DeleteEcho, DeleteInfo, DeleteVerdict, DeleteAgain}
  <2>1. /\ Tail(s) \in {<<>>, DeleteEcho, DeleteInfo, DeleteVerdict, DeleteAgain}
        /\ Head(s) \in {"DELETE", "echo", "info", "verdict", "again"}
    BY <1>6, DeleteCalls
  <2>2. Tail(s) \in Scripts BY <2>1 DEF Scripts, AfterList
  <2>3. Tail(s) \notin GetCallsLeft
    <3>1. CASE Tail(s) = DeleteEcho BY <3>1, EchoesDiffer
    <3>2. CASE Tail(s) \in {<<>>, DeleteInfo, DeleteVerdict, DeleteAgain}
      <4>1. Tail(s) = <<>> \/ Head(Tail(s)) \in {"info", "verdict", "again"} BY <3>2, DeleteCalls
      <4> QED BY <4>1, NoGetCalls
    <3> QED BY <2>1, <3>1, <3>2
  <2> QED BY <2>1, <2>2, <2>3
<1>7. CASE \E rest \in AfterList : s = ListAt(rest) \/ s = listAt(rest)
  <2>1. Tail(s) \in Scripts /\ Head(s) \in {"LIST", "list"}
        /\ (Tail(s) = <<>> \/ Head(Tail(s)) \in {"list", "close"})
    BY <1>3, <1>7
  <2> QED BY <2>1
<1> QED BY <1>1, <1>2, <1>4, <1>5, <1>6, <1>7 DEF Scripts, Starting

\* What a client does to its script in a step.
LEMMA ScriptMoves ==
  ASSUME TypeInv, InCalls, NEW c \in Client,
         Choose(c) \/ connectServer(c) \/ closeconnect(c) \/ ClientSend(c) \/ ClientRecv(c)
  PROVE  /\ script'[c] \in Scripts
         /\ \A d \in Client \ {c} : script'[d] = script[d]
<1>1. script \in [Client -> Seq(Op)] /\ script[c] \in Scripts BY DEF TypeInv, ClientTypes, InCalls
<1>2. <<>> \in Scripts BY DEF Scripts, AfterList
<1>3. Return(c) /\ script[c] # <<>> => script'[c] \in Scripts BY <1>1, CallsGoOn DEF Return
<1>4. Return(c) => \A d \in Client \ {c} : script'[d] = script[d] BY <1>1 DEF Return
<1>5. CASE Choose(c)
  <2>1. plan[c] # <<>> /\ plan[c] \in Seq(Choice) BY <1>5 DEF Choose, TypeInv, ClientTypes
  <2>2. Head(plan[c]) \in Choice BY <2>1, TailTyped
  <2>3. PICK s \in Calls(Head(plan[c])) : script' = [script EXCEPT ![c] = s] BY <1>5 DEF Choose
  <2>4. s \in Scripts BY <2>2, ChoiceCalls DEF Scripts
  <2> QED BY <1>1, <2>3, <2>4
<1>6. CASE connectServer(c) \/ closeconnect(c) \/ ClientSend(c)
  <2>1. Return(c) /\ script[c] # <<>> BY <1>6 DEF connectServer, closeconnect, ClientSend, At
  <2> QED BY <1>3, <1>4, <2>1
<1>7. CASE ClientRecv(c)
  <2>1. /\ script[c] # <<>>
        /\ Return(c) \/ UNCHANGED script \/ script' = [script EXCEPT ![c] = <<>>]
    BY <1>7 DEF ClientRecv, recvList, recvEcho, recvResponse, recvChunks, recvVerdict, At
  <2>2. CASE UNCHANGED script BY <1>1, <2>2
  <2>3. CASE script' = [script EXCEPT ![c] = <<>>] BY <1>1, <1>2, <2>3
  <2> QED BY <1>3, <1>4, <2>1, <2>2, <2>3
<1> QED BY <1>5, <1>6, <1>7

LEMMA NextCalls ==
  ASSUME TypeInv, InCalls, OwnSock, [Next]_vars
  PROVE  InCalls' /\ OwnSock'
<1>1. sock \in [Client -> 0..Len(up)] /\ owner \in Seq(Client) /\ Len(owner) = Len(up) /\ Len(up) \in Nat
  BY DEF TypeInv, StreamTypes
<1>2. ASSUME NEW c \in Client, ClientStep(c) PROVE InCalls' /\ OwnSock'
  <2>1. Choose(c) \/ connectServer(c) \/ closeconnect(c) \/ ClientSend(c) \/ ClientRecv(c)
    BY <1>2 DEF ClientStep
  <2>2. InCalls' BY <2>1, ScriptMoves DEF InCalls
  <2>3. CASE connectServer(c)
    <3>1. owner' = Append(owner, c) /\ sock' = [sock EXCEPT ![c] = Len(up')] /\ up' = Append(up, <<>>)
      BY <2>3 DEF connectServer
    <3>2. Len(up') = Len(owner) + 1
      <4>1. up \in Seq(Seq(Cell)) /\ <<>> \in Seq(Cell) BY EmptySeq DEF TypeInv, StreamTypes
      <4> QED BY <1>1, <3>1, <4>1, Appended
    <3>3. /\ \A k \in 1..Len(owner) : owner'[k] = owner[k]
          /\ owner'[Len(owner) + 1] = c
      BY <1>1, <3>1, Appended
    <3>4. sock'[c] = Len(owner) + 1 /\ \A d \in Client \ {c} : sock'[d] = sock[d]
      BY <1>1, <3>1, <3>2
    <3>5. ASSUME NEW d \in Client, sock'[d] # 0 PROVE owner'[sock'[d]] = d
      <4>1. CASE d = c BY <3>3, <3>4, <4>1
      <4>2. CASE d # c
        <5>1. sock'[d] = sock[d] /\ sock[d] \in 0..Len(up) BY <1>1, <3>4, <4>2
        <5>2. sock[d] \in 1..Len(owner) BY <1>1, <3>5, <5>1
        <5> QED BY <3>3, <3>5, <5>1, <5>2 DEF OwnSock
      <4> QED BY <4>1, <4>2
    <3> QED BY <2>2, <3>5 DEF OwnSock
  <2>4. CASE Choose(c) \/ closeconnect(c) \/ ClientSend(c) \/ ClientRecv(c)
    <3>1. UNCHANGED <<sock, owner>> BY <2>4 DEF Choose, closeconnect, ClientSend, ClientRecv
    <3> QED BY <2>2, <3>1 DEF OwnSock
  <2> QED BY <2>1, <2>3, <2>4
<1>3. CASE accept
  <2>1. UNCHANGED <<script, sock, owner>> BY <1>3 DEF accept, clients
  <2> QED BY <2>1 DEF InCalls, OwnSock
<1>4. ASSUME NEW t \in 1..s1, ThreadStep(t) PROVE InCalls' /\ OwnSock'
  <2>1. UNCHANGED <<script, sock, owner>>
    BY <1>4 DEF ThreadStep, memset, call, recvRequest, otherCommand, listFiles, command, getname, fopen,
                PutFileToClient, closeAgain, putinfo, recvChunk, GetFileFromClient, delname,
                DeleteServerFiles, clients
  <2> QED BY <2>1 DEF InCalls, OwnSock
<1>5. CASE UNCHANGED vars
  <2>1. UNCHANGED <<script, sock, owner>> BY <1>5 DEF vars, clients
  <2> QED BY <2>1 DEF InCalls, OwnSock
<1> QED BY <1>2, <1>3, <1>4, <1>5 DEF Next

-------------------------------------------------------------------------------
(* A client's step, but for connectServer: the threads do not move, and    *)
(* only the client's own connection has its streams changed.               *)
ClientActs(c) ==
  /\ UNCHANGED <<sock, owner, s1, shut, pc, conn, request, fsize, written, deleted, open, fp, crashed,
                 mixed>>
  /\ Len(up') = Len(up)
  /\ \A d \in Client \ {c} :
       script'[d] = script[d] /\ left'[d] = left[d] /\ got'[d] = got[d] /\ told'[d] = told[d]
  /\ \A k \in 1..Len(up) : k # sock[c] => up'[k] = up[k] /\ down'[k] = down[k]

LEMMA ClientStepActs ==
  ASSUME TypeInv, InCalls, NEW c \in Client,
         Choose(c) \/ closeconnect(c) \/ ClientSend(c) \/ ClientRecv(c)
  PROVE  ClientActs(c)
<1>1. \A d \in Client \ {c} : script'[d] = script[d] BY ScriptMoves
<1>2. /\ left \in [Client -> 0..Size] /\ got \in [Client -> Seq(Cell)]
      /\ told \in [Client -> {"nothing", "deleted", "missing"}]
      /\ up \in Seq(Seq(Cell)) /\ down \in Seq(Seq(Cell)) /\ Len(down) = Len(up) /\ Len(up) \in Nat
  BY DEF TypeInv, ClientTypes, StreamTypes
<1>3. UNCHANGED <<sock, owner, s1, shut, pc, conn, request, fsize, written, deleted, open, fp, crashed,
                 mixed>>
  BY DEF Choose, closeconnect, ClientSend, ClientRecv, threads, disk, streams
<1>4. ASSUME UNCHANGED <<left, got, told, up, down>> PROVE ClientActs(c)
  BY <1>1, <1>3, <1>4 DEF ClientActs
<1>5. CASE Choose(c) BY <1>4, <1>5 DEF Choose, streams
<1>6. CASE closeconnect(c) BY <1>4, <1>6 DEF closeconnect
<1>7. CASE ClientSend(c)
  <2>1. UNCHANGED <<left, got, told, down>> BY <1>7 DEF ClientSend
  <2>2. PICK op \in Sends :
          up' = [up EXCEPT ![sock[c]] = up[sock[c]] \o IF op = "data" THEN File ELSE <<Record(op)>>]
    BY <1>7 DEF ClientSend
  <2> DEFINE cells == IF op = "data" THEN File ELSE <<Record(op)>>
  <2>3. sock[c] \in 1..Len(up) => up[sock[c]] \o cells \in Seq(Cell)
    <3>1. cells \in Seq(Cell) BY CellsTyped DEF Sends
    <3> QED BY <1>2, <3>1, ConcatProperties, ElementOfSeq
  <2> DEFINE x == up[sock[c]] \o cells
  <2>4. up' = [up EXCEPT ![sock[c]] = x] BY <2>2
  <2> HIDE DEF x
  <2>5. sock[c] \in 1..Len(up) => x \in Seq(Cell) BY <2>3 DEF x
  <2>6. Len(up') = Len(up) /\ \A k \in 1..Len(up) : k # sock[c] => up'[k] = up[k]
    BY <1>2, <2>4, <2>5, ElementSet
  <2> QED BY <1>1, <1>3, <2>1, <2>6 DEF ClientActs
<1>8. CASE ClientRecv(c)
  <2>1. UNCHANGED up BY <1>8 DEF ClientRecv
  <2>2. \A k \in 1..Len(up) : k # sock[c] => down'[k] = down[k]
    <3>1. \/ UNCHANGED down
          \/ down' = [down EXCEPT ![sock[c]] = Tail(down[sock[c]])]
          \/ \E part \in Parts(down[sock[c]], left[c]) :
               down' = [down EXCEPT ![sock[c]] = After(down[sock[c]], part)]
      BY <1>8 DEF ClientRecv, recvList, recvEcho, recvResponse, recvChunks, recvVerdict, Received,
                  Disconnected
    <3>2. down \in [1..Len(up) -> Seq(Cell)] BY <1>2
    <3> QED BY <3>1, <3>2
  <2>3. \A d \in Client \ {c} : left'[d] = left[d] /\ got'[d] = got[d]
    <3>1. \/ UNCHANGED <<left, got>>
          \/ left' = [left EXCEPT ![c] = Size] /\ got' = [got EXCEPT ![c] = <<>>]
          \/ \E part \in Parts(down[sock[c]], left[c]) :
               got' = [got EXCEPT ![c] = got[c] \o part] /\ left' = [left EXCEPT ![c] = left[c] - Len(part)]
      BY <1>8 DEF ClientRecv, recvList, recvEcho, recvResponse, recvChunks, recvVerdict
    <3> QED BY <1>2, <3>1
  <2>4. \A d \in Client \ {c} : told'[d] = told[d]
    <3>1. \/ UNCHANGED told
          \/ told' = [told EXCEPT ![c] = "deleted"]
          \/ told' = [told EXCEPT ![c] = "missing"]
      BY <1>8 DEF ClientRecv, recvList, recvEcho, recvResponse, recvChunks, recvVerdict
    <3> QED BY <1>2, <3>1
  <2> QED BY <1>1, <1>3, <2>1, <2>2, <2>3, <2>4 DEF ClientActs
<1> QED BY <1>5, <1>6, <1>7, <1>8

\* The other connections look the same.
LEMMA OthersKept ==
  ASSUME TypeInv, OwnSock, NEW c \in Client, ClientActs(c), NEW k \in 1..Len(up), k # sock[c]
  PROVE  View(k)' = View(k)
<1>1. owner[k] \in Client
  <2>1. owner \in Seq(Client) /\ Len(owner) = Len(up) BY DEF TypeInv, StreamTypes
  <2> QED BY <2>1, ElementOfSeq
<1>2. /\ UNCHANGED <<sock, owner, s1, shut, pc, request, fsize, written, deleted>>
      /\ up'[k] = up[k] /\ down'[k] = down[k]
  BY DEF ClientActs
<1>3. Served(k)' <=> Served(k) BY <1>2 DEF Served
<1>4. ASSUME Served(k) PROVE /\ script'[owner[k]] = script[owner[k]] /\ left'[owner[k]] = left[owner[k]]
                             /\ got'[owner[k]] = got[owner[k]]
  <2>1. sock[owner[k]] = k BY <1>4 DEF Served
  <2>2. owner[k] # c BY <2>1
  <2> QED BY <1>1, <2>2 DEF ClientActs
<1> QED BY <1>2, <1>3, <1>4 DEF View

\* The client's own connection, before and after.
LEMMA OwnView ==
  ASSUME TypeInv, OwnSock, NEW c \in Client, ClientActs(c), NEW k \in 1..Len(up), k = sock[c]
  PROVE  /\ ClientOf(View(k), View(k)')
         /\ View(k).at = script[c] /\ View(k).up = up[k] /\ View(k).down = down[k]
         /\ View(k).left = left[c] /\ View(k).got = got[c]
         /\ View(k).shut = (k \in shut) /\ View(k).removed = deleted
         /\ View(k).at' = script'[c] /\ View(k).up' = up'[k] /\ View(k).down' = down'[k]
         /\ View(k).left' = left'[c] /\ View(k).got' = got'[c]
<1>1. UNCHANGED <<sock, owner, s1, shut, pc, request, fsize, written, deleted>> BY DEF ClientActs
<1>2. k # 0
  <2>1. Len(up) \in Nat BY Lengths
  <2> QED BY <2>1
<1>3. owner[k] = c BY <1>2 DEF OwnSock
<1>4. Served(k) /\ Served(k)' BY <1>1, <1>3 DEF Served
<1>5. ClientOf(View(k), View(k)') BY <1>1 DEF View, ClientOf
<1>6. /\ View(k).at = script[c] /\ View(k).up = up[k] /\ View(k).down = down[k]
      /\ View(k).left = left[c] /\ View(k).got = got[c]
      /\ View(k).shut = (k \in shut) /\ View(k).removed = deleted
  BY <1>3, <1>4 DEF View
<1>7. /\ View(k).at' = script'[c] /\ View(k).up' = up'[k] /\ View(k).down' = down'[k]
      /\ View(k).left' = left'[c] /\ View(k).got' = got'[c]
  BY <1>1, <1>3, <1>4 DEF View
<1> QED BY <1>5, <1>6, <1>7

\* Every step of a client leads from a situation to a situation.
LEMMA ClientsTalk ==
  ASSUME TypeInv, InCalls, OwnSock, Talks, ~crashed, NEW c \in Client,
         Choose(c) \/ closeconnect(c) \/ ClientSend(c) \/ ClientRecv(c)
  PROVE  Talks'
<1>1. ClientActs(c) BY ClientStepActs
<1>2. ASSUME NEW k \in 1..Len(up), k = sock[c] PROVE Talk(View(k))'
  <2> DEFINE v == View(k)
             w == View(k)'
  <2>1. Talk(v) BY DEF Talks
  <2>2. /\ ClientOf(v, w)
        /\ v.at = script[c] /\ v.up = up[k] /\ v.down = down[k]
        /\ v.left = left[c] /\ v.got = got[c] /\ v.shut = (k \in shut) /\ v.removed = deleted
        /\ w.at = script'[c] /\ w.up = up'[k] /\ w.down = down'[k]
        /\ w.left = left'[c] /\ w.got = got'[c]
    BY <1>1, <1>2, OwnView
  <2>3. Talk(w) => Talk(View(k))' OBVIOUS
  <2> HIDE DEF v, w
  <2>4. /\ script \in [Client -> Seq(Op)] /\ left \in [Client -> 0..Size] /\ got \in [Client -> Seq(Cell)]
        /\ up \in Seq(Seq(Cell)) /\ down \in Seq(Seq(Cell)) /\ Len(down) = Len(up)
        /\ script[c] \in Scripts
    BY DEF TypeInv, ClientTypes, StreamTypes, InCalls
  <2>5. Return(c) => w.at = Tail(v.at) BY <2>2, <2>4 DEF Return
  <2>6. UNCHANGED <<up, down>> => w.up = v.up /\ w.down = v.down BY <2>2
  <2>7. Received(c) => v.down # <<>> /\ w.down = Tail(v.down)
    <3>1. down \in [1..Len(up) -> Seq(Cell)] BY <2>4
    <3> QED BY <1>2, <2>2, <3>1 DEF Received
  <2>8. Disconnected(c) => v.shut /\ v.down = <<>> /\ w.down = v.down
    BY <1>2, <2>2 DEF Disconnected
  <2>9. Answer(c) = Head(v.down).kind BY <1>2, <2>2 DEF Answer
  <2>10. CASE Choose(c)
    <3>1. script[c] = <<>> /\ UNCHANGED <<up, down>> BY <2>10 DEF Choose, streams
    <3>2. plan[c] # <<>> /\ plan[c] \in Seq(Choice) BY <2>10 DEF Choose, TypeInv, ClientTypes
    <3>3. Head(plan[c]) \in Choice BY <3>2, TailTyped
    <3>4. PICK s \in Calls(Head(plan[c])) : script' = [script EXCEPT ![c] = s] BY <2>10 DEF Choose
    <3>5. w.at \in Connecting
      <4>1. w.at = s BY <2>2, <2>4, <3>4
      <4> QED BY <3>3, <4>1, ChoiceCalls
    <3>6. v.at = <<>> BY <2>2, <3>1
    <3>7. Over(v.at) /\ Over(w.at) BY <3>5, <3>6 DEF Over
    <3> QED BY <2>1, <2>2, <2>3, <2>6, <3>1, <3>7, TalkLeft
  <2>11. CASE closeconnect(c)
    <3>1. v.at # <<>> /\ Head(v.at) = "close" /\ Return(c) /\ UNCHANGED <<up, down>>
      BY <2>2, <2>11 DEF closeconnect, At
    <3>2. v.at \in AfterList /\ w.at \in Connecting BY <2>2, <2>4, <2>5, <3>1, CallsGoOn
    <3>3. Over(w.at) BY <3>2 DEF Over
    <3> QED BY <2>1, <2>2, <2>3, <2>6, <3>1, <3>2, <3>3, TalkLeft
  <2>12. CASE ClientSend(c)
    <3>1. PICK op \in Sends :
            /\ script[c] # <<>> /\ Head(script[c]) = op
            /\ up' = [up EXCEPT ![sock[c]] = up[sock[c]] \o IF op = "data" THEN File ELSE <<Record(op)>>]
      BY <2>12 DEF ClientSend, At
    <3>2. Return(c) /\ UNCHANGED down BY <2>12 DEF ClientSend
    <3>3. w.up = v.up \o IF op = "data" THEN File ELSE One(op)
      <4>1. up \in [1..Len(up) -> Seq(Cell)] BY <2>4
      <4> QED BY <1>2, <2>2, <3>1, <4>1 DEF One
    <3>4. w.down = v.down BY <2>2, <3>2
    <3> QED BY <2>1, <2>2, <2>3, <2>5, <3>1, <3>2, <3>3, <3>4, TalkSend
  <2>13. CASE ClientRecv(c)
    <3>1. w.up = v.up BY <2>2, <2>13 DEF ClientRecv
    <3>2. CASE recvList(c)
      <4>1. /\ v.at # <<>> /\ Head(v.at) = "list" /\ Received(c)
            /\ IF Answer(c) = "@" THEN Return(c) ELSE UNCHANGED script
        BY <2>2, <3>2 DEF recvList, At
      <4>2. w.at = IF Head(v.down).kind = "@" THEN Tail(v.at) ELSE v.at
        BY <2>2, <2>5, <2>9, <4>1
      <4> QED BY <2>1, <2>2, <2>3, <2>7, <3>1, <4>1, <4>2, TalkList
    <3>3. CASE recvEcho(c)
      <4>1. /\ v.at # <<>> /\ Head(v.at) \in {"echo", "again"} /\ Return(c)
            /\ Received(c) \/ Disconnected(c)
        BY <2>2, <3>3 DEF recvEcho, At
      <4> QED BY <2>1, <2>2, <2>3, <2>5, <2>7, <2>8, <3>1, <4>1, TalkEcho
    <3>4. CASE recvResponse(c)
      <4>1. v.at # <<>> /\ Head(v.at) = "response" BY <2>2, <3>4 DEF recvResponse, At
      <4>2. CASE /\ Received(c) /\ Answer(c) = "info" /\ Return(c)
                 /\ left' = [left EXCEPT ![c] = Size] /\ got' = [got EXCEPT ![c] = <<>>]
        <5>1. w.left = Size /\ w.got = <<>> BY <2>2, <2>4, <4>2
        <5> QED BY <2>1, <2>2, <2>3, <2>5, <2>7, <2>9, <3>1, <4>1, <4>2, <5>1, TalkResponse
      <4>3. CASE /\ Disconnected(c) \/ (Received(c) /\ Answer(c) # "info")
                 /\ script' = [script EXCEPT ![c] = <<>>]
        <5>1. w.at = <<>> BY <2>2, <2>4, <4>3
        <5> QED BY <2>1, <2>2, <2>3, <2>7, <2>8, <2>9, <3>1, <4>1, <4>3, <5>1, TalkResponse
      <4> QED BY <3>4, <4>2, <4>3 DEF recvResponse
    <3>5. CASE recvChunks(c)
      <4>1. v.at # <<>> /\ Head(v.at) = "chunks" BY <2>2, <3>5 DEF recvChunks, At
      <4>2. ASSUME NEW part \in Parts(down[sock[c]], left[c]), UNCHANGED script,
                   down' = [down EXCEPT ![sock[c]] = After(down[sock[c]], part)],
                   got' = [got EXCEPT ![c] = got[c] \o part],
                   left' = [left EXCEPT ![c] = left[c] - Len(part)]
            PROVE  Talk(w)
        <5>1. part \in Parts(v.down, v.left) BY <1>2, <2>2, <4>2
        <5>2. w.at = v.at BY <2>2, <4>2
        <5>3. w.down = After(v.down, part)
          <6>1. down \in [1..Len(up) -> Seq(Cell)] BY <2>4
          <6> QED BY <1>2, <2>2, <4>2, <6>1
        <5>4. w.got = v.got \o part /\ w.left = v.left - Len(part) BY <2>2, <2>4, <4>2
        <5> QED BY <2>1, <2>2, <3>1, <4>1, <5>1, <5>2, <5>3, <5>4, TalkArrives
      <4>3. CASE left[c] = 0 /\ Return(c) /\ UNCHANGED <<down, got, left>>
        <5>1. v.left = 0 /\ w.down = v.down BY <2>2, <4>3
        <5> QED BY <2>1, <2>2, <2>3, <2>5, <3>1, <4>1, <4>3, <5>1, TalkArrived
      <4> QED BY <2>3, <3>5, <4>2, <4>3 DEF recvChunks
    <3>6. CASE recvVerdict(c)
      <4>1. v.at # <<>> /\ Head(v.at) = "verdict" BY <2>2, <3>6 DEF recvVerdict, At
      <4>2. CASE (Disconnected(c) \/ Received(c)) /\ script' = [script EXCEPT ![c] = <<>>]
        <5>1. w.at = <<>> BY <2>2, <2>4, <4>2
        <5> QED BY <2>1, <2>2, <2>3, <2>7, <2>8, <3>1, <4>1, <4>2, <5>1, TalkVerdict
      <4>3. CASE Received(c) /\ Answer(c) \notin {"ok", "info"} /\ Return(c)
        BY <2>1, <2>2, <2>3, <2>5, <2>7, <2>9, <3>1, <4>1, <4>3, TalkVerdict
      <4> QED BY <3>6, <4>2, <4>3 DEF recvVerdict
    <3> QED BY <2>13, <3>2, <3>3, <3>4, <3>5, <3>6 DEF ClientRecv
  <2> QED BY <2>10, <2>11, <2>12, <2>13
<1>3. ASSUME NEW k \in 1..Len(up), k # sock[c] PROVE Talk(View(k))'
  <2>1. View(k)' = View(k) BY <1>1, <1>3, OthersKept
  <2>2. Talk(View(k)) BY DEF Talks
  <2> QED BY <2>1, <2>2
<1>4. Len(up') = Len(up) BY <1>1 DEF ClientActs
<1> QED BY <1>2, <1>3, <1>4 DEF Talks

LEMMA ClientsToldTruly ==
  ASSUME TypeInv, InCalls, OwnSock, Talks, ~crashed, ToldTruly, NEW c \in Client,
         Choose(c) \/ closeconnect(c) \/ ClientSend(c) \/ ClientRecv(c)
  PROVE  ToldTruly'
<1>1. ClientActs(c) BY ClientStepActs
<1>2. /\ script \in [Client -> Seq(Op)] /\ told \in [Client -> {"nothing", "deleted", "missing"}]
      /\ down \in [1..Len(up) -> Seq(Cell)]
  <2>1. down \in Seq(Seq(Cell)) /\ Len(down) = Len(up) BY DEF TypeInv, StreamTypes
  <2> QED BY <2>1 DEF TypeInv, ClientTypes
<1>3. CASE UNCHANGED told
  BY <1>1, <1>3 DEF ToldTruly, ClientActs
<1>4. CASE told' # told
  <2>1. recvVerdict(c) /\ UNCHANGED up
    BY <1>4 DEF Choose, closeconnect, ClientSend, ClientRecv, recvList, recvEcho, recvResponse, recvChunks
  <2>2. script[c] # <<>> /\ Head(script[c]) = "verdict" BY <2>1 DEF recvVerdict, At
  <2>3. PICK k \in 1..Len(up) : k = sock[c]
    <3>1. sock[c] # 0 BY <2>2 DEF TypeInv, Started
    <3>2. sock[c] \in 0..Len(up) /\ Len(up) \in Nat BY DEF TypeInv, StreamTypes
    <3> QED BY <3>1, <3>2
  <2>4. ASSUME script' = [script EXCEPT ![c] = <<>>],
               Disconnected(c) \/ (Received(c) /\ Answer(c) \in {"ok", "info"})
        PROVE  deleted
    <3> DEFINE v == View(k)
               w == View(k)'
    <3>1. Talk(v) BY DEF Talks
    <3>2. /\ ClientOf(v, w)
          /\ v.at = script[c] /\ v.up = up[k] /\ v.down = down[k]
          /\ v.shut = (k \in shut) /\ v.removed = deleted
          /\ w.at = script'[c] /\ w.up = up'[k] /\ w.down = down'[k]
      BY <1>1, <2>3, OwnView
    <3> HIDE DEF v, w
    <3>3. w.at = <<>> BY <1>2, <2>4, <3>2
    <3>4. w.up = v.up BY <2>1, <3>2
    <3>5. Received(c) => v.down # <<>> /\ w.down = Tail(v.down) BY <1>2, <2>3, <3>2 DEF Received
    <3>6. Disconnected(c) => v.shut /\ v.down = <<>> /\ w.down = v.down BY <2>3, <3>2 DEF Disconnected
    <3>7. Answer(c) = Head(v.down).kind BY <2>3, <3>2 DEF Answer
    <3>8. v.down # <<>> /\ (Head(v.down).kind \in {"ok", "info"} => v.removed)
      BY <2>2, <2>4, <3>1, <3>2, <3>3, <3>4, <3>5, <3>6, TalkVerdict
    <3> QED BY <2>4, <3>2, <3>6, <3>7, <3>8
  <2>5. deleted' = deleted /\ \A d \in Client \ {c} : told'[d] = told[d] BY <1>1 DEF ClientActs
  <2>6. told'[c] = "deleted" => deleted
    <3>1. \/ /\ Disconnected(c) \/ (Received(c) /\ Answer(c) \in {"ok", "info"})
             /\ script' = [script EXCEPT ![c] = <<>>]
          \/ told' = [told EXCEPT ![c] = "missing"]
      BY <2>1 DEF recvVerdict
    <3>2. CASE told' = [told EXCEPT ![c] = "missing"] BY <1>2, <3>2
    <3> QED BY <2>4, <3>1, <3>2
  <2> QED BY <2>5, <2>6 DEF ToldTruly
<1> QED BY <1>3, <1>4

\* Only the connection of a finished listing is closed by its client.
LEMMA ClientsGone ==
  ASSUME TypeInv, InCalls, OwnSock, Talks, GoneAfterList, NEW c \in Client,
         Choose(c) \/ closeconnect(c) \/ ClientSend(c) \/ ClientRecv(c)
  PROVE  GoneAfterList'
<1>1. ClientActs(c) BY ClientStepActs
<1>2. UNCHANGED <<s1, pc, request>> BY <1>1 DEF ClientActs
<1>3. CASE UNCHANGED gone BY <1>2, <1>3 DEF GoneAfterList
<1>4. CASE closeconnect(c)
  <2>1. script[c] # <<>> /\ Head(script[c]) = "close" /\ gone' = gone \cup {sock[c]}
    BY <1>4 DEF closeconnect, At
  <2>2. PICK k \in 1..Len(up) : k = sock[c]
    <3>1. sock[c] # 0 BY <2>1 DEF TypeInv, Started
    <3>2. sock[c] \in 0..Len(up) /\ Len(up) \in Nat BY DEF TypeInv, StreamTypes
    <3> QED BY <3>1, <3>2
  <2> DEFINE v == View(k)
  <2>3. Talk(v) BY DEF Talks
  <2>4. v.at = script[c] BY <1>1, <2>2, OwnView
  <2> HIDE DEF v
  <2>5. Listed(v) BY <2>1, <2>3, <2>4, TalkAtOp
  <2>6. /\ v.pc = IF k <= s1 THEN pc[k] ELSE "memset"
        /\ v.req = IF k <= s1 THEN request[k] ELSE ""
    BY DEF v, View
  <2>7. k <= s1 /\ request[k] = "LIST" /\ pc[k] \in {"GET", "PUT", "DELETE", "end"}
    BY <2>5, <2>6 DEF Listed
  <2> QED BY <1>2, <2>1, <2>2, <2>7 DEF GoneAfterList
<1>5. CASE Choose(c) \/ ClientSend(c) \/ ClientRecv(c)
  <2>1. UNCHANGED gone BY <1>5 DEF Choose, ClientSend, ClientRecv, streams
  <2> QED BY <1>3, <2>1
<1> QED BY <1>4, <1>5

\* What the other clients receive does not change.
LEMMA OtherFiles ==
  ASSUME TypeInv, OwnSock, ClientFiles, NEW c \in Client, ClientActs(c), NEW d \in Client \ {c}
  PROVE  FilesOf(d)'
<1>1. FilesOf(d) BY DEF ClientFiles
<1>2. UNCHANGED sock /\ script'[d] = script[d] /\ left'[d] = left[d] /\ got'[d] = got[d]
  BY DEF ClientActs
<1>3. ASSUME script[d] \in GetCallsLeft PROVE down'[sock[d]] = down[sock[d]]
  <2>1. script[d] # <<>> /\ Head(script[d]) # "connect" BY <1>3, HeadOf DEF GetCallsLeft
  <2>2. sock[d] # 0 BY <2>1 DEF TypeInv, Started
  <2>3. sock[d] \in 1..Len(up)
    <3>1. sock[d] \in 0..Len(up) /\ Len(up) \in Nat BY DEF TypeInv, StreamTypes
    <3> QED BY <2>2, <3>1
  <2>4. sock[d] # sock[c] BY <2>2 DEF OwnSock
  <2> QED BY <2>3, <2>4 DEF ClientActs
<1> QED BY <1>1, <1>2, <1>3 DEF FilesOf, GetCallsLeft

\* What comes in is the file, from its beginning, also when the server has ended.
LEMMA OwnFiles ==
  ASSUME TypeInv, InCalls, NEW c \in Client, FilesOf(c),
         Choose(c) \/ closeconnect(c) \/ ClientSend(c) \/ ClientRecv(c)
  PROVE  FilesOf(c)'
<1> DEFINE s == script[c]
           k == sock[c]
<1>1. /\ script \in [Client -> Seq(Op)] /\ left \in [Client -> 0..Size] /\ got \in [Client -> Seq(Cell)]
      /\ down \in [1..Len(up) -> Seq(Cell)] /\ s \in Scripts /\ sock' = sock
  <2>1. down \in Seq(Seq(Cell)) /\ Len(down) = Len(up) BY DEF TypeInv, StreamTypes
  <2>2. sock' = sock BY DEF Choose, closeconnect, ClientSend, ClientRecv
  <2> QED BY <2>1, <2>2 DEF TypeInv, ClientTypes, InCalls
<1>2. s # <<>> /\ Head(s) # "connect" => k \in 1..Len(up)
  <2>1. k \in 0..Len(up) /\ Len(up) \in Nat BY DEF TypeInv, StreamTypes
  <2>2. s # <<>> /\ Head(s) # "connect" => k # 0 BY DEF TypeInv, Started
  <2> QED BY <2>1, <2>2
<1>3. Return(c) => script'[c] = Tail(s) BY <1>1 DEF Return
<1>4. /\ s = GetChunks => got[c] = First(Size - left[c]) /\ down[k] \in {<<>>, Rest(Size - left[c])}
      /\ s # GetChunks => got[c] \in {<<>>, File}
      /\ s \in {GetAt, GetEcho} => down[k] \in {<<>>, One("echo")}
      /\ s \in {GetName, GetResponse} => InfoFirst(down[k])
  BY DEF FilesOf
<1>5. s # <<>> /\ s \in GetCallsLeft => Head(s) \in {"GET", "echo", "name", "response", "chunks"}
  BY HeadOf DEF GetCallsLeft
<1>6. ASSUME s # <<>>
      PROVE  /\ Head(s) = "response" => s = GetResponse
             /\ Head(s) = "chunks" => s = GetChunks
             /\ Tail(s) = GetChunks => Head(s) = "response"
             /\ Tail(s) = GetAt => Head(s) = "connect"
             /\ Tail(s) = GetEcho => s = GetAt /\ Head(s) = "GET"
             /\ Tail(s) = GetName => s = GetEcho /\ Head(s) = "echo"
             /\ Tail(s) = GetResponse => s = GetName /\ Head(s) = "name"
  BY <1>1, <1>6, CallsGoOn, GetCalls
<1>7. ASSUME UNCHANGED got, s # GetChunks, script'[c] \notin GetCallsLeft PROVE FilesOf(c)'
  BY <1>4, <1>7 DEF FilesOf, GetCallsLeft
<1>8. <<>> \notin GetCallsLeft /\ \A r \in Connecting : r \notin GetCallsLeft
  BY NoGetCalls, AfterConnect
<1>9. CASE Choose(c)
  <2>1. s = <<>> /\ UNCHANGED got BY <1>9 DEF Choose
  <2>2. plan[c] # <<>> /\ plan[c] \in Seq(Choice) BY <1>9 DEF Choose, TypeInv, ClientTypes
  <2>3. Head(plan[c]) \in Choice BY <2>2, TailTyped
  <2>4. PICK r \in Calls(Head(plan[c])) : script' = [script EXCEPT ![c] = r] BY <1>9 DEF Choose
  <2>5. script'[c] \in Connecting BY <1>1, <2>3, <2>4, ChoiceCalls
  <2>6. s # GetChunks BY <2>1, GetCalls
  <2> QED BY <1>7, <1>8, <2>1, <2>5, <2>6
<1>10. CASE closeconnect(c)
  <2>1. s # <<>> /\ Head(s) = "close" /\ Return(c) /\ UNCHANGED got BY <1>10 DEF closeconnect, At
  <2>2. script'[c] \in Connecting BY <1>1, <1>3, <2>1, CallsGoOn
  <2>3. s # GetChunks BY <2>1, GetCalls
  <2> QED BY <1>7, <1>8, <2>1, <2>2, <2>3
<1>11. CASE ClientSend(c)
  <2>1. /\ s # <<>> /\ Head(s) \in {"LIST", "GET", "PUT", "DELETE", "name", "info", "data"}
        /\ Return(c) /\ UNCHANGED <<got, left, down>>
    BY <1>11 DEF ClientSend, At, Sends, Choice
  <2>2. s # GetChunks BY <2>1, GetCalls
  <2>3. CASE script'[c] = GetEcho
    <3>1. s = GetAt BY <1>3, <1>6, <2>1, <2>3
    <3>2. down'[sock'[c]] \in {<<>>, One("echo")} BY <1>1, <1>4, <2>1, <3>1
    <3>3. GetEcho # GetChunks /\ GetEcho \notin {GetName, GetResponse} BY GetCalls
    <3> QED BY <1>4, <2>1, <2>2, <2>3, <3>2, <3>3 DEF FilesOf
  <2>4. CASE script'[c] = GetResponse
    <3>1. s = GetName BY <1>3, <1>6, <2>1, <2>4
    <3>2. InfoFirst(down[k]) BY <1>4, <3>1
    <3>3. InfoFirst(down'[sock'[c]]) BY <1>1, <2>1, <3>2
    <3>4. GetResponse # GetChunks /\ GetResponse \notin {GetAt, GetEcho} BY GetCalls
    <3> QED BY <1>4, <2>1, <2>2, <2>4, <3>3, <3>4 DEF FilesOf
  <2>5. CASE script'[c] \notin {GetEcho, GetResponse}
    <3>1. script'[c] \notin GetCallsLeft BY <1>3, <1>6, <2>1, <2>5 DEF GetCallsLeft
    <3> QED BY <1>7, <2>1, <2>2, <3>1
  <2> QED BY <2>3, <2>4, <2>5
<1>12. CASE recvList(c)
  <2>1. s # <<>> /\ Head(s) = "list" /\ (Return(c) \/ UNCHANGED script) /\ UNCHANGED got
    BY <1>12 DEF recvList, At
  <2>2. s # GetChunks /\ s \notin GetCallsLeft BY <1>5, <2>1, GetCalls
  <2>3. script'[c] \notin GetCallsLeft
    <3>1. CASE Return(c) BY <1>3, <1>6, <2>1, <3>1 DEF GetCallsLeft
    <3>2. CASE UNCHANGED script BY <2>2, <3>2
    <3> QED BY <2>1, <3>1, <3>2
  <2> QED BY <1>7, <2>1, <2>2, <2>3
<1>13. CASE recvEcho(c)
  <2>1. /\ s # <<>> /\ Head(s) \in {"echo", "again"} /\ Return(c) /\ UNCHANGED got
        /\ Received(c) \/ Disconnected(c)
    BY <1>13 DEF recvEcho, At
  <2>2. s # GetChunks BY <2>1, GetCalls
  <2>3. CASE script'[c] = GetName
    <3>1. s = GetEcho BY <1>3, <1>6, <2>1, <2>3
    <3>2. down[k] \in {<<>>, One("echo")} BY <1>4, <3>1
    <3>3. k \in 1..Len(up) BY <1>2, <2>1
    <3>4. CASE Received(c)
      <4>1. down[k] # <<>> /\ down'[k] = Tail(down[k]) BY <1>1, <3>3, <3>4 DEF Received
      <4>2. down'[k] = <<>> BY <3>2, <4>1, OneCell
      <4>3. InfoFirst(down'[sock'[c]]) BY <1>1, <4>2 DEF InfoFirst
      <4>4. GetName # GetChunks /\ GetName \notin {GetAt, GetEcho} BY GetCalls
      <4> QED BY <1>4, <2>1, <2>2, <2>3, <4>3, <4>4 DEF FilesOf
    <3>5. CASE Disconnected(c)
      <4>1. InfoFirst(down'[sock'[c]]) BY <1>1, <3>2, <3>5 DEF InfoFirst, Disconnected
      <4>2. GetName # GetChunks /\ GetName \notin {GetAt, GetEcho} BY GetCalls
      <4> QED BY <1>4, <2>1, <2>2, <2>3, <4>1, <4>2 DEF FilesOf
    <3> QED BY <2>1, <3>4, <3>5
  <2>4. CASE script'[c] # GetName
    <3>1. script'[c] \notin GetCallsLeft BY <1>3, <1>6, <2>1, <2>4 DEF GetCallsLeft
    <3> QED BY <1>7, <2>1, <2>2, <3>1
  <2> QED BY <2>3, <2>4
<1>14. CASE recvResponse(c)
  <2>1. s # <<>> /\ Head(s) = "response" BY <1>14 DEF recvResponse, At
  <2>2. s = GetResponse /\ s # GetChunks /\ k \in 1..Len(up) BY <1>2, <1>6, <2>1, GetCalls
  <2>3. InfoFirst(down[k]) /\ got[c] \in {<<>>, File} BY <1>4, <2>2
  <2>4. CASE /\ Received(c) /\ Answer(c) = "info" /\ Return(c)
             /\ left' = [left EXCEPT ![c] = Size] /\ got' = [got EXCEPT ![c] = <<>>]
    <3>1. script'[c] = GetChunks /\ left'[c] = Size /\ got'[c] = <<>>
      BY <1>1, <1>3, <2>2, <2>4, GetCalls
    <3>2. down[k] # <<>> /\ down'[k] = Tail(down[k]) /\ Head(down[k]).kind = "info"
      BY <1>1, <2>2, <2>4 DEF Received, Answer
    <3>3. down[k] \in {One("info"), One("info") \o File}
      <4>1. Head(One("echo")).kind = "echo" /\ Head(One("nofile")).kind = "nofile" BY OneCell
      <4> QED BY <2>3, <3>2, <4>1 DEF InfoFirst
    <3>4. down'[k] \in {<<>>, File} BY <3>2, <3>3, OneCell, InfoAndFile
    <3>5. Rest(Size - Size) = File /\ First(Size - Size) = <<>> BY FileEnds
    <3>6. GetChunks \notin {GetAt, GetEcho, GetName, GetResponse} BY GetCalls
    <3> QED BY <1>1, <3>1, <3>4, <3>5, <3>6 DEF FilesOf
  <2>5. CASE script' = [script EXCEPT ![c] = <<>>] /\ UNCHANGED got
    <3>1. script'[c] = <<>> BY <1>1, <2>5
    <3> QED BY <1>7, <1>8, <2>2, <2>5, <3>1
  <2> QED BY <1>14, <2>4, <2>5 DEF recvResponse
<1>15. CASE recvChunks(c)
  <2>1. s # <<>> /\ Head(s) = "chunks" BY <1>15 DEF recvChunks, At
  <2>2. s = GetChunks /\ k \in 1..Len(up) BY <1>2, <1>6, <2>1
  <2>3. got[c] = First(Size - left[c]) /\ down[k] \in {<<>>, Rest(Size - left[c])} BY <1>4, <2>2
  <2>4. left[c] \in 0..Size /\ Size \in Nat /\ Size - left[c] \in 0..Size
    <3>1. left[c] \in 0..Size /\ Size \in Nat BY <1>1, CellsTyped
    <3> QED BY <3>1
  <2>5. ASSUME NEW part \in Parts(down[k], left[c]), UNCHANGED script,
               down' = [down EXCEPT ![k] = After(down[k], part)],
               got' = [got EXCEPT ![c] = got[c] \o part],
               left' = [left EXCEPT ![c] = left[c] - Len(part)]
        PROVE  FilesOf(c)'
    <3> DEFINE n == Size - left[c]
    <3>1. down[k] = Rest(n)
      <4>1. Parts(<<>>, left[c]) = {}
        <5>1. Len(<<>>) = 0 /\ 1..0 = {} OBVIOUS
        <5> QED BY <5>1 DEF Parts
      <4> QED BY <2>3, <2>5, <4>1
    <3>2. part \in Parts(Rest(n), left[c]) BY <2>5, <3>1
    <3>3. /\ Len(part) \in 1..(Size - n)
          /\ First(n) \o part = First(n + Len(part))
          /\ After(Rest(n), part) = Rest(n + Len(part))
      BY <2>4, <3>2, ChunkMoves
    <3>4. left'[c] = left[c] - Len(part) /\ got'[c] = got[c] \o part /\ down'[k] = After(down[k], part)
      BY <1>1, <2>2, <2>5
    <3>5. Size - left'[c] = n + Len(part)
      <4>1. Len(part) \in Int BY <2>4, <3>3
      <4> QED BY <2>4, <3>4, <4>1
    <3>6. got'[c] = First(Size - left'[c]) /\ down'[k] = Rest(Size - left'[c])
      BY <2>3, <3>1, <3>3, <3>4, <3>5
    <3>7. script'[c] = GetChunks /\ GetChunks \notin {GetAt, GetEcho, GetName, GetResponse}
      BY <2>2, <2>5, GetCalls
    <3> QED BY <1>1, <3>6, <3>7 DEF FilesOf
  <2>6. CASE left[c] = 0 /\ Return(c) /\ UNCHANGED <<down, got, left>>
    <3>1. script'[c] = <<>> BY <1>3, <2>2, <2>6, GetCalls
    <3>2. got'[c] = File BY <2>3, <2>6, FileEnds
    <3> QED BY <1>8, <3>1, <3>2 DEF FilesOf, GetCallsLeft
  <2> QED BY <1>15, <2>5, <2>6 DEF recvChunks
<1>16. CASE recvVerdict(c)
  <2>1. /\ s # <<>> /\ Head(s) = "verdict" /\ UNCHANGED got
        /\ Return(c) \/ script' = [script EXCEPT ![c] = <<>>]
    BY <1>16 DEF recvVerdict, At
  <2>2. s # GetChunks BY <2>1, GetCalls
  <2>3. script'[c] \notin GetCallsLeft
    <3>1. CASE Return(c) BY <1>3, <1>6, <2>1, <3>1 DEF GetCallsLeft
    <3>2. CASE script' = [script EXCEPT ![c] = <<>>] BY <1>1, <1>8, <3>2
    <3> QED BY <2>1, <3>1, <3>2
  <2> QED BY <1>7, <2>1, <2>2, <2>3
<1> QED BY <1>9, <1>10, <1>11, <1>12, <1>13, <1>14, <1>15, <1>16 DEF ClientRecv

\* A client connects: it has finished with the connection it had.
LEMMA ConnectUnmixed ==
  ASSUME TypeInv, InCalls, OwnSock, UnmixedInv, NEW c \in Client, connectServer(c)
  PROVE  UnmixedInv'
<1> DEFINE n == Len(up)
<1>1. /\ script[c] # <<>> /\ Head(script[c]) = "connect" /\ ~crashed
      /\ up' = Append(up, <<>>) /\ down' = Append(down, <<>>) /\ owner' = Append(owner, c)
      /\ sock' = [sock EXCEPT ![c] = Len(up')] /\ script' = [script EXCEPT ![c] = Tail(script[c])]
      /\ UNCHANGED <<left, got, told, shut, gone, s1, pc, conn, fsize, written, deleted, open, fp,
                     crashed, request>>
  BY DEF connectServer, At, Return, threads, disk
<1>2. /\ up \in Seq(Seq(Cell)) /\ down \in Seq(Seq(Cell)) /\ owner \in Seq(Client)
      /\ Len(down) = n /\ Len(owner) = n /\ n \in Nat
      /\ sock \in [Client -> 0..n] /\ script \in [Client -> Seq(Op)] /\ script[c] \in Scripts
      /\ s1 \in Nat /\ s1 <= n /\ shut \subseteq 1..s1
  BY Lengths DEF TypeInv, StreamTypes, ClientTypes, ThreadTypes, InCalls
<1>3. <<>> \in Seq(Cell) BY EmptySeq
<1>4. Len(up') = n + 1 /\ (\A k \in 1..n : up'[k] = up[k]) /\ up'[n + 1] = <<>>
  BY <1>1, <1>2, <1>3, Appended
<1>5. (\A k \in 1..n : down'[k] = down[k]) /\ down'[n + 1] = <<>> BY <1>1, <1>2, <1>3, Appended
<1>6. (\A k \in 1..n : owner'[k] = owner[k]) /\ owner'[n + 1] = c BY <1>1, <1>2, Appended
<1>7. /\ sock'[c] = n + 1 /\ script'[c] = Tail(script[c])
      /\ \A d \in Client \ {c} : sock'[d] = sock[d] /\ script'[d] = script[d]
  BY <1>1, <1>2, <1>4
<1>8. script[c] \in Connecting /\ Tail(script[c]) \in Starting BY <1>1, <1>2, CallsGoOn
<1>9. Talks /\ GoneAfterList /\ ToldTruly /\ FilesOwn BY <1>1 DEF UnmixedInv
<1> HIDE DEF n
<1>10. ASSUME NEW k \in 1..n
       PROVE  Talk(View(k))' /\ View(k).at' = IF k = sock[c] THEN <<>> ELSE View(k).at
  <2> DEFINE v == View(k)
             w == View(k)'
  <2>1. Talk(v) BY <1>9 DEF Talks, n
  <2>2. owner[k] \in Client BY <1>2, ElementOfSeq
  <2>3. ClientOf(v, w) /\ w.up = v.up /\ w.down = v.down
    BY <1>1, <1>4, <1>5 DEF View, ClientOf
  <2>4. k # n + 1 BY <1>2
  <2>5. CASE k = sock[c]
    <3>1. k # 0 BY <1>2
    <3>2. owner[k] = c BY <2>5, <3>1 DEF OwnSock
    <3>3. v.at = script[c] BY <2>5, <3>2 DEF View, Served
    <3>4. ~Served(k)' BY <1>6, <1>7, <2>4, <3>2 DEF Served
    <3>5. w.at = <<>> BY <3>4 DEF View
    <3>6. Over(v.at) /\ Over(w.at) BY <1>8, <3>3, <3>5 DEF Over
    <3>7. Talk(w) => Talk(View(k))' OBVIOUS
    <3>8. w.at = View(k).at' OBVIOUS
    <3> HIDE DEF v, w
    <3>9. Talk(w) BY <2>1, <2>3, <3>6, TalkLeft
    <3> QED BY <2>5, <3>5, <3>7, <3>8, <3>9
  <2>6. CASE k # sock[c]
    <3>1. Served(k)' <=> Served(k) BY <1>6, <1>7, <2>2, <2>4, <2>6 DEF Served
    <3>2. Served(k) => owner[k] # c BY <2>6 DEF Served
    <3>3. owner'[k] = owner[k] BY <1>6
    <3>4. View(k)' = View(k) BY <1>1, <1>4, <1>5, <1>7, <2>2, <3>1, <3>2, <3>3 DEF View
    <3>5. Talk(View(k))' BY <2>1, <3>4
    <3>6. View(k).at' = View(k).at BY <3>4
    <3> QED BY <2>6, <3>5, <3>6
  <2> QED BY <2>5, <2>6
<1>11. ASSUME NEW k, k = n + 1 PROVE Talk(View(k))'
  <2>1. ~(k <= s1) /\ k \notin shut
    <3>1. ~(k <= s1) /\ s1 \in Nat /\ shut \subseteq 1..s1 BY <1>2, <1>11
    <3>2. k \notin 1..s1 BY <3>1
    <3> QED BY <3>1, <3>2
  <2>2. owner'[k] = c /\ sock'[c] = k BY <1>6, <1>7, <1>11
  <2>3. Served(k)' BY <2>2 DEF Served
  <2> DEFINE w == View(k)'
  <2>4. w.at = script'[c] BY <2>2, <2>3 DEF View
  <2>5. w.up = <<>> /\ w.down = <<>> BY <1>4, <1>5, <1>11 DEF View
  <2>6. w.pc = "memset" /\ w.wrote = <<>> /\ ~w.shut BY <1>1, <2>1 DEF View
  <2>7. Talk(w) => Talk(View(k))' OBVIOUS
  <2> HIDE DEF w
  <2>8. Unasked(w) BY <2>5, <2>6 DEF Unasked, Fresh
  <2>9. w.at \in Starting BY <1>7, <1>8, <2>4
  <2> QED BY <2>7, <2>8, <2>9, TalkNew
<1>12. Talks'
  <2>1. \A k \in 1..(n + 1) : k \in 1..n \/ k = n + 1 BY <1>2
  <2> QED BY <1>4, <1>10, <1>11, <2>1 DEF Talks
<1>13. OwnConnection' /\ ThreadFiles' BY <1>1 DEF UnmixedInv, OwnConnection, ThreadFiles
<1>14. GoneAfterList' /\ ToldTruly' BY <1>1, <1>9 DEF GoneAfterList, ToldTruly
<1>15. ClientFiles'
  <2>1. ASSUME NEW d \in Client PROVE FilesOf(d)'
    <3>1. FilesOf(d) BY DEF UnmixedInv, ClientFiles
    <3>2. CASE d = c
      <4>1. Head(script[c]) # "chunks" BY <1>1
      <4>2. got[c] \in {<<>>, File} BY <1>1, <3>1, <3>2, <4>1, GetCalls DEF FilesOf
      <4>3. script'[c] = Tail(script[c]) BY <1>7
      <4>4. script'[c] \notin {GetChunks, GetEcho, GetName, GetResponse}
        BY <1>1, <1>2, <4>3, CallsGoOn, GetCalls
      <4>5. down'[sock'[c]] = <<>> BY <1>5, <1>7
      <4> QED BY <1>1, <3>2, <4>2, <4>4, <4>5 DEF FilesOf
    <3>3. CASE d # c
      <4>1. sock'[d] = sock[d] /\ script'[d] = script[d] BY <1>7, <3>3
      <4>2. ASSUME script[d] \in GetCallsLeft PROVE down'[sock[d]] = down[sock[d]]
        <5>1. script[d] # <<>> /\ Head(script[d]) # "connect" BY <4>2, HeadOf DEF GetCallsLeft
        <5>2. sock[d] # 0 BY <5>1 DEF TypeInv, Started
        <5>3. sock[d] \in 0..n BY <1>2
        <5>4. sock[d] \in 1..n BY <1>2, <5>2, <5>3
        <5> QED BY <1>5, <5>4
      <4> QED BY <1>1, <3>1, <4>1, <4>2 DEF FilesOf, GetCallsLeft
    <3> QED BY <3>2, <3>3
  <2> QED BY <2>1 DEF ClientFiles
<1>16. AloneAnswered'
  <2>1. SUFFICES ASSUME Alone', NEW k \in 1..n
                 PROVE  k <= s1 /\ pc[k] \notin {"memset", "call", "recv"}
    BY <1>1, <1>2, <1>4 DEF AloneAnswered
  <2>2. owner[k] = c
    <3>0. owner \in Seq(Client) /\ Len(owner) = n /\ owner' = Append(owner, c) BY <1>1, <1>2
    <3>1. owner' \in Seq(Client) /\ Len(owner') = n + 1 BY <3>0, Appended
    <3>2. k \in DOMAIN owner' /\ n + 1 \in DOMAIN owner' BY <1>2, <3>1
    <3> QED BY <1>6, <2>1, <3>2 DEF Alone
  <2>3. Over(View(k).at)
    <3>1. CASE Served(k)
      <4>1. View(k).at = script[c] BY <2>2, <3>1 DEF View
      <4> QED BY <1>8, <4>1 DEF Over
    <3>2. CASE ~Served(k) BY <3>2 DEF View, Over
    <3> QED BY <3>1, <3>2
  <2>4. Talk(View(k)) BY <1>9 DEF Talks, n
  <2>5. View(k).pc \notin {"memset", "call", "recv"} BY <2>3, <2>4, TalkOver
  <2> QED BY <2>5 DEF View
<1>17. FilesOwn' BY <1>1, <1>9 DEF FilesOwn, OwnFile
<1> QED BY <1>12, <1>13, <1>14, <1>15, <1>16, <1>17 DEF UnmixedInv

\* A client's step.
LEMMA ClientUnmixed ==
  ASSUME TypeInv, InCalls, OwnSock, UnmixedInv, NEW c \in Client, ClientStep(c)
  PROVE  UnmixedInv'
<1>1. CASE connectServer(c) BY <1>1, ConnectUnmixed
<1>2. CASE Choose(c) \/ closeconnect(c) \/ ClientSend(c) \/ ClientRecv(c)
  <2>1. ClientActs(c) BY <1>2, ClientStepActs
  <2>2. UNCHANGED <<owner, s1, shut, pc, conn, request, written, open, fp, crashed>> /\ Len(up') = Len(up)
    BY <2>1 DEF ClientActs
  <2>3. OwnConnection' /\ ThreadFiles' /\ AloneAnswered'
    BY <2>2 DEF UnmixedInv, OwnConnection, ThreadFiles, AloneAnswered, Alone
  <2>4. ClientFiles'
    <3>1. ClientFiles BY DEF UnmixedInv
    <3>2. FilesOf(c)' BY <1>2, <3>1, OwnFiles DEF ClientFiles
    <3>3. \A d \in Client \ {c} : FilesOf(d)' BY <2>1, <3>1, OtherFiles
    <3> QED BY <3>2, <3>3 DEF ClientFiles
  <2>5. ASSUME ~crashed PROVE Talks' /\ GoneAfterList' /\ ToldTruly' /\ FilesOwn'
    <3>1. Talks /\ GoneAfterList /\ ToldTruly /\ FilesOwn BY <2>5 DEF UnmixedInv
    <3>2. FilesOwn' BY <2>2, <3>1 DEF FilesOwn, OwnFile
    <3> QED BY <1>2, <2>5, <3>1, <3>2, ClientsTalk, ClientsGone, ClientsToldTruly
  <2> QED BY <2>2, <2>3, <2>4, <2>5 DEF UnmixedInv
<1> QED BY <1>1, <1>2 DEF ClientStep


-------------------------------------------------------------------------------
(* The accept loop: a connection was already seen as one whose thread      *)
(* waits.  A client that is alone has only one that is not accepted.       *)
LEMMA AcceptUnmixed ==
  ASSUME TypeInv, UnmixedInv, accept
  PROVE  UnmixedInv'
<1>1. /\ ~crashed /\ s1 < Len(up) /\ s1' = s1 + 1
      /\ pc' = Append(pc, "memset") /\ conn' = Append(conn, 0)
      /\ fsize' = Append(fsize, 0) /\ written' = Append(written, <<>>)
      /\ request' = Append(request, "")
      /\ UNCHANGED <<script, sock, left, got, told, up, down, shut, gone, deleted, open, fp, crashed,
                     owner>>
  BY DEF accept, clients, streams, disk
<1>2. /\ s1 \in Nat /\ Len(up) \in Nat /\ shut \subseteq 1..s1
      /\ pc \in [1..s1 -> PC] /\ conn \in [1..s1 -> 0..s1] /\ fsize \in [1..s1 -> 0..Size]
      /\ written \in [1..s1 -> Seq(Cell)] /\ request \in [1..s1 -> Choice \cup {"", "other"}]
  BY Lengths, Before DEF TypeInv, ThreadTypes
<1>3. <<>> \in Seq(Cell) /\ "memset" \in PC /\ 0 \in 0..s1 /\ 0 \in 0..Size
      /\ "" \in Choice \cup {"", "other"}
  <2>1. <<>> \in Seq(Cell) BY EmptySeq
  <2>2. "memset" \in PC BY DEF PC
  <2>3. s1 \in Nat /\ Size \in Nat BY <1>2, CellsTyped
  <2>4. 0 \in 0..s1 /\ 0 \in 0..Size BY <2>3
  <2> QED BY <2>1, <2>2, <2>4
<1>4. /\ \A t \in 1..s1 : /\ pc'[t] = pc[t] /\ conn'[t] = conn[t] /\ fsize'[t] = fsize[t]
                          /\ written'[t] = written[t] /\ request'[t] = request[t]
      /\ pc'[s1 + 1] = "memset" /\ conn'[s1 + 1] = 0 /\ fsize'[s1 + 1] = 0
      /\ written'[s1 + 1] = <<>> /\ request'[s1 + 1] = ""
  <2>1. (\A t \in 1..s1 : pc'[t] = pc[t]) /\ pc'[s1 + 1] = "memset"
    <3>1. s1 \in Nat /\ pc \in [1..s1 -> PC] /\ "memset" \in PC /\ pc' = Append(pc, "memset")
      BY <1>1, <1>2, <1>3
    <3> QED BY <3>1, OneMore
  <2>2. (\A t \in 1..s1 : conn'[t] = conn[t]) /\ conn'[s1 + 1] = 0
    <3>1. s1 \in Nat /\ conn \in [1..s1 -> 0..s1] /\ 0 \in 0..s1 /\ conn' = Append(conn, 0)
      BY <1>1, <1>2, <1>3
    <3> QED BY <3>1, OneMore
  <2>3. (\A t \in 1..s1 : fsize'[t] = fsize[t]) /\ fsize'[s1 + 1] = 0
    <3>1. s1 \in Nat /\ fsize \in [1..s1 -> 0..Size] /\ 0 \in 0..Size /\ fsize' = Append(fsize, 0)
      BY <1>1, <1>2, <1>3
    <3> QED BY <3>1, OneMore
  <2>4. (\A t \in 1..s1 : written'[t] = written[t]) /\ written'[s1 + 1] = <<>>
    <3> DEFINE S == Seq(Cell)
               x == <<>>
    <3>1. s1 \in Nat /\ written \in [1..s1 -> S] /\ x \in S /\ written' = Append(written, x)
      BY <1>1, <1>2, <1>3
    <3>2. written'[s1 + 1] = x => written'[s1 + 1] = <<>> OBVIOUS
    <3> HIDE DEF S, x
    <3>3. (\A t \in 1..s1 : written'[t] = written[t]) /\ written'[s1 + 1] = x BY <3>1, OneMore
    <3> QED BY <3>2, <3>3
  <2>5. (\A t \in 1..s1 : request'[t] = request[t]) /\ request'[s1 + 1] = ""
    <3> DEFINE S == Choice \cup {"", "other"}
               x == ""
    <3>1. s1 \in Nat /\ request \in [1..s1 -> S] /\ x \in S /\ request' = Append(request, x)
      BY <1>1, <1>2, <1>3
    <3>2. request'[s1 + 1] = x => request'[s1 + 1] = "" OBVIOUS
    <3> HIDE DEF S, x
    <3>3. (\A t \in 1..s1 : request'[t] = request[t]) /\ request'[s1 + 1] = x BY <3>1, OneMore
    <3> QED BY <3>2, <3>3
  <2> QED BY <2>1, <2>2, <2>3, <2>4, <2>5
<1>5. /\ 1..s1' = 1..s1 \cup {s1 + 1} /\ s1 + 1 \notin 1..s1 /\ 1..s1 \subseteq 1..s1'
      /\ \A k \in 1..Len(up) : (k <= s1 <=> k \in 1..s1) /\ (k <= s1' <=> k <= s1 \/ k = s1 + 1)
      /\ \A k \in 1..Len(up) : ~(k = s1 + 1 /\ k <= s1)
  <2> DEFINE n == s1
             m == s1'
             N == Len(up)
  <2>1. n \in Nat /\ m = n + 1 /\ N \in Nat BY <1>1, <1>2
  <2> HIDE DEF n, m, N
  <2>2. 1..m = 1..n \cup {n + 1} /\ n + 1 \notin 1..n /\ 1..n \subseteq 1..m BY <2>1
  <2>3. /\ \A k \in 1..N : (k <= n <=> k \in 1..n) /\ (k <= m <=> k <= n \/ k = n + 1)
        /\ \A k \in 1..N : ~(k = n + 1 /\ k <= n)
    BY <2>1
  <2> QED BY <2>2, <2>3 DEF n, m, N
<1>6. Talks /\ GoneAfterList /\ ToldTruly /\ FilesOwn BY <1>1 DEF UnmixedInv
<1>7. Talks'
  <2>1. ASSUME NEW k \in 1..Len(up) PROVE Talk(View(k))'
    <3>1. Served(k)' <=> Served(k) BY <1>1 DEF Served
    <3>2. View(k)' = View(k)
      <4>1. CASE k <= s1
        <5>1. k \in 1..s1 /\ k <= s1' BY <1>5, <4>1
        <5> QED BY <1>1, <1>4, <3>1, <4>1, <5>1 DEF View
      <4>2. CASE k = s1 + 1
        <5>1. ~(k <= s1) /\ k <= s1' BY <1>5, <4>2
        <5> QED BY <1>1, <1>4, <3>1, <4>2, <5>1 DEF View
      <4>3. CASE ~(k <= s1) /\ k # s1 + 1
        <5>1. ~(k <= s1') BY <1>5, <4>3
        <5> QED BY <1>1, <3>1, <4>3, <5>1 DEF View
      <4> QED BY <4>1, <4>2, <4>3
    <3>3. Talk(View(k)) BY <1>6 DEF Talks
    <3> QED BY <3>2, <3>3
  <2> QED BY <1>1, <2>1 DEF Talks
<1>8. OwnConnection' BY <1>4, <1>5 DEF UnmixedInv, OwnConnection
<1>9. ThreadFiles'
  <2>1. <<>> = First(0) /\ 0 \in 0..Size BY <1>3, FileEnds
  <2>2. s1 + 1 \notin shut BY <1>2, <1>5
  <2>3. ThreadFiles BY DEF UnmixedInv
  <2>4. ASSUME NEW t \in 1..s1
        PROVE  /\ \E n \in 0..Size : written'[t] = First(n)
               /\ request'[t] = "PUT" /\ t \in shut => written'[t] = File
    BY <1>4, <2>3 DEF ThreadFiles
  <2>5. /\ \E n \in 0..Size : written'[s1 + 1] = First(n)
        /\ request'[s1 + 1] = "PUT" /\ s1 + 1 \in shut => written'[s1 + 1] = File
    BY <1>4, <2>1, <2>2
  <2> QED BY <1>1, <1>5, <2>4, <2>5 DEF ThreadFiles
<1>10. ClientFiles' BY <1>1 DEF UnmixedInv, ClientFiles, FilesOf
<1>11. AloneAnswered'
  <2>1. SUFFICES ASSUME Alone', NEW k \in 1..(Len(up) - 1)
                 PROVE  k <= s1' /\ pc'[k] \notin {"memset", "call", "recv"}
    BY <1>1 DEF AloneAnswered
  <2>2. Alone BY <1>1, <2>1 DEF Alone
  <2>3. k <= s1 /\ pc[k] \notin {"memset", "call", "recv"} BY <2>2 DEF UnmixedInv, AloneAnswered
  <2>4. k \in 1..Len(up)
    <3> DEFINE n == Len(up)
    <3>1. n \in Nat /\ k \in 1..(n - 1) BY <1>2
    <3> HIDE DEF n
    <3>2. k \in 1..n BY <3>1
    <3> QED BY <3>2 DEF n
  <2>5. k \in 1..s1 /\ k <= s1' BY <1>5, <2>3, <2>4
  <2> QED BY <1>4, <2>3, <2>5
<1>12. GoneAfterList' /\ ToldTruly'
  <2>1. ASSUME NEW k \in gone
        PROVE  k <= s1' /\ request'[k] = "LIST" /\ pc'[k] \in {"GET", "PUT", "DELETE", "end"}
    <3>1. k \in 1..Len(up) BY DEF TypeInv, StreamTypes
    <3>2. k <= s1 /\ request[k] = "LIST" /\ pc[k] \in {"GET", "PUT", "DELETE", "end"}
      BY <1>6 DEF GoneAfterList
    <3>3. k \in 1..s1 /\ k <= s1' BY <1>5, <3>1, <3>2
    <3> QED BY <1>4, <3>2, <3>3
  <2> QED BY <1>1, <1>6, <2>1 DEF GoneAfterList, ToldTruly
<1>13. FilesOwn'
  <2>1. \A k \in 1..s1' : pc'[k] \in {"sending", "chunks"} => k \in 1..s1 /\ pc[k] \in {"sending", "chunks"}
    BY <1>4, <1>5
  <2>2. UNCHANGED <<open, fp>> BY <1>1
  <2> QED BY <1>6, <2>1, <2>2 DEF FilesOwn, OwnFile
<1> QED BY <1>7, <1>8, <1>9, <1>10, <1>11, <1>12, <1>13 DEF UnmixedInv

-------------------------------------------------------------------------------
(* A thread's step.  It changes what belongs to its own connection and may *)
(* remove the file; what remains to be shown of each action is what its    *)
(* own connection looks like afterwards.                                   *)
ThreadActs(t) ==
  /\ UNCHANGED <<script, sock, left, got, told, gone, s1, owner>>
  /\ Len(up') = Len(up) /\ (deleted => deleted')
  /\ \A k \in 1..Len(up) : k # t => /\ up'[k] = up[k] /\ down'[k] = down[k]
                                    /\ k \in shut' <=> k \in shut
  /\ \A k \in 1..s1 : k # t => /\ pc'[k] = pc[k] /\ conn'[k] = conn[k] /\ request'[k] = request[k]
                               /\ fsize'[k] = fsize[k] /\ written'[k] = written[k]

Waiting == {"memset", "call", "recv"}
Answered == {"GET", "PUT", "DELETE", "end"}

ThreadKeeps(t) ==
  /\ conn'[t] = IF pc'[t] \in {"memset", "call"} THEN 0 ELSE t
  /\ pc[t] \notin Waiting => pc'[t] \notin Waiting
  /\ t \in gone => request'[t] = "LIST" /\ pc'[t] \in Answered

\* The connection of the thread that moves.
LEMMA ThreadView ==
  ASSUME TypeInv, NEW t \in 1..s1, ThreadActs(t)
  PROVE  /\ ThreadOf(View(t), View(t)')
         /\ View(t).up' = up'[t] /\ View(t).down' = down'[t] /\ View(t).pc' = pc'[t]
         /\ View(t).req' = request'[t] /\ View(t).shut' = (t \in shut')
         /\ View(t).fsize' = fsize'[t] /\ View(t).wrote' = written'[t] /\ View(t).removed' = deleted'
<1>1. UNCHANGED <<script, sock, left, got, s1, owner>> BY DEF ThreadActs
<1>2. t <= s1 /\ t <= s1'
  <2>1. s1 \in Nat BY Lengths
  <2>2. t <= s1 BY <2>1
  <2> QED BY <1>1, <2>2
<1>3. Served(t)' <=> Served(t) BY <1>1 DEF Served
<1>4. ThreadOf(View(t), View(t)') BY <1>1, <1>3 DEF View, ThreadOf
<1>5. /\ View(t).up' = up'[t] /\ View(t).down' = down'[t] /\ View(t).pc' = pc'[t]
      /\ View(t).req' = request'[t] /\ View(t).shut' = (t \in shut')
      /\ View(t).fsize' = fsize'[t] /\ View(t).wrote' = written'[t] /\ View(t).removed' = deleted'
  BY <1>2 DEF View
<1> QED BY <1>4, <1>5

LEMMA ThreadBefore ==
  ASSUME TypeInv, UnmixedInv, ~crashed, NEW t \in 1..s1
  PROVE  /\ t \in 1..Len(up) /\ Talk(View(t))
         /\ View(t).up = up[t] /\ View(t).down = down[t] /\ View(t).pc = pc[t]
         /\ View(t).req = request[t] /\ View(t).shut = (t \in shut)
         /\ View(t).fsize = fsize[t] /\ View(t).wrote = written[t] /\ View(t).removed = deleted
         /\ conn[t] = IF pc[t] \in {"memset", "call"} THEN 0 ELSE t
         /\ t \in gone => request[t] = "LIST" /\ pc[t] \in Answered
<1>1. t \in 1..Len(up) BY Lengths
<1>2. t <= s1
  <2>1. s1 \in Nat BY Lengths
  <2> QED BY <2>1
<1>3. Talk(View(t)) BY <1>1 DEF UnmixedInv, Talks
<1>4. /\ View(t).up = up[t] /\ View(t).down = down[t] /\ View(t).pc = pc[t]
      /\ View(t).req = request[t] /\ View(t).shut = (t \in shut)
      /\ View(t).fsize = fsize[t] /\ View(t).wrote = written[t] /\ View(t).removed = deleted
  BY <1>2 DEF View
<1>5. conn[t] = IF pc[t] \in {"memset", "call"} THEN 0 ELSE t BY DEF UnmixedInv, OwnConnection
<1>6. t \in gone => request[t] = "LIST" /\ pc[t] \in Answered
  BY DEF UnmixedInv, GoneAfterList, Answered
<1> QED BY <1>1, <1>3, <1>4, <1>5, <1>6

\* The clients' files follow from what their connections look like.
LEMMA TalksGiveFiles ==
  ASSUME TypeInv, OwnSock, Talks
  PROVE  /\ ThreadFiles
         /\ \A c \in Client :
              /\ script[c] = GetChunks =>
                   /\ got[c] = First(Size - left[c])
                   /\ down[sock[c]] \in {<<>>, Rest(Size - left[c])}
              /\ script[c] \in {GetAt, GetEcho} => down[sock[c]] \in {<<>>, One("echo")}
              /\ script[c] \in {GetName, GetResponse} => InfoFirst(down[sock[c]])
<1>1. ThreadFiles
  <2>1. ASSUME NEW t \in 1..s1
        PROVE  /\ \E n \in 0..Size : written[t] = First(n)
               /\ request[t] = "PUT" /\ t \in shut => written[t] = File
    <3>1. t \in 1..Len(up) BY Lengths
    <3>2. t <= s1
      <4>1. s1 \in Nat BY Lengths
      <4> QED BY <4>1
    <3>3. View(t).wrote = written[t] /\ View(t).req = request[t] /\ View(t).shut = (t \in shut)
      BY <3>2 DEF View
    <3>4. Talk(View(t)) BY <3>1 DEF Talks
    <3>5. /\ \E n \in 0..Size : View(t).wrote = First(n)
          /\ View(t).req = "PUT" /\ View(t).shut => View(t).wrote = File
      BY <3>4, TalkFiles
    <3> QED BY <3>3, <3>5
  <2> QED BY <2>1 DEF ThreadFiles
<1>2. ASSUME NEW c \in Client, script[c] \in {GetAt, GetEcho, GetName, GetResponse, GetChunks}
      PROVE  /\ script[c] = GetChunks =>
                  /\ got[c] = First(Size - left[c])
                  /\ down[sock[c]] \in {<<>>, Rest(Size - left[c])}
             /\ script[c] \in {GetAt, GetEcho} => down[sock[c]] \in {<<>>, One("echo")}
             /\ script[c] \in {GetName, GetResponse} => InfoFirst(down[sock[c]])
  <2>1. script[c] # <<>> /\ Head(script[c]) # "connect" BY <1>2, GetCalls
  <2>2. sock[c] # 0 BY <2>1 DEF TypeInv, Started
  <2>3. PICK k : k = sock[c] OBVIOUS
  <2>4. k \in 1..Len(up)
    <3>1. k \in 0..Len(up) /\ Len(up) \in Nat BY <2>3, Lengths DEF TypeInv, StreamTypes
    <3> QED BY <2>2, <2>3, <3>1
  <2>5. owner[k] = c BY <2>2, <2>3 DEF OwnSock
  <2>6. Served(k) BY <2>3, <2>5 DEF Served
  <2>7. /\ View(k).at = script[c] /\ View(k).down = down[k]
        /\ View(k).left = left[c] /\ View(k).got = got[c]
    BY <2>5, <2>6 DEF View
  <2>8. Talk(View(k)) BY <2>4 DEF Talks
  <2>9. /\ View(k).at = GetChunks =>
             /\ View(k).got = First(Size - View(k).left)
             /\ View(k).down \in {<<>>, Rest(Size - View(k).left)}
        /\ View(k).at \in {GetAt, GetEcho} => View(k).down \in {<<>>, One("echo")}
        /\ View(k).at \in {GetName, GetResponse} => InfoFirst(View(k).down)
    BY <2>8, TalkAnswers
  <2> QED BY <2>3, <2>7, <2>9
<1> QED BY <1>1, <1>2

\* What is left to show of a thread's step.
LEMMA ThreadUnmixed ==
  ASSUME TypeInv, TypeInv', OwnSock, UnmixedInv, ~crashed, NEW t \in 1..s1,
         ThreadActs(t), ThreadKeeps(t), Talk(View(t))', ~crashed' => FilesOwn'
  PROVE  UnmixedInv'
<1>1. /\ UNCHANGED <<script, sock, left, got, told, gone, s1, owner>>
      /\ Len(up') = Len(up) /\ (deleted => deleted')
  BY DEF ThreadActs
<1>2. Talks'
  <2>1. ASSUME NEW k \in 1..Len(up), k # t PROVE Talk(View(k))'
    <3> DEFINE v == View(k)
               w == View(k)'
    <3>1. Served(k)' <=> Served(k) BY <1>1 DEF Served
    <3>2. k <= s1 => k \in 1..s1
      <4>1. s1 \in Nat /\ Len(up) \in Nat BY Lengths
      <4>2. k \in Nat /\ k >= 1 BY <4>1
      <4> QED BY <4>1, <4>2
    <3>3. /\ up'[k] = up[k] /\ down'[k] = down[k] /\ (k \in shut' <=> k \in shut)
          /\ k <= s1 => /\ pc'[k] = pc[k] /\ request'[k] = request[k]
                        /\ fsize'[k] = fsize[k] /\ written'[k] = written[k]
      BY <2>1, <3>2 DEF ThreadActs
    <3>4. ThreadOf(v, w) BY <1>1, <3>1 DEF View, ThreadOf
    <3>5. /\ w.up = v.up /\ w.down = v.down /\ w.pc = v.pc /\ w.req = v.req /\ w.shut = v.shut
          /\ w.fsize = v.fsize /\ w.wrote = v.wrote
      <4>1. s1' = s1 /\ (k \in shut') = (k \in shut) BY <1>1, <3>3
      <4>2. w.up = v.up /\ w.down = v.down /\ w.shut = v.shut BY <3>3, <4>1 DEF View
      <4>3. w.pc = v.pc /\ w.req = v.req BY <3>3, <4>1 DEF View
      <4>4. w.fsize = v.fsize /\ w.wrote = v.wrote BY <3>3, <4>1 DEF View
      <4> QED BY <4>2, <4>3, <4>4
    <3>6. v.removed => w.removed BY <1>1 DEF View
    <3>7. Talk(v) BY DEF UnmixedInv, Talks
    <3>8. Talk(w) => Talk(View(k))' OBVIOUS
    <3> HIDE DEF v, w
    <3> QED BY <3>4, <3>5, <3>6, <3>7, <3>8, TalkRemoved
  <2> QED BY <1>1, <2>1 DEF Talks
<1>3. OwnSock' BY <1>1 DEF OwnSock
<1>4. OwnConnection'
  <2>1. ASSUME NEW k \in 1..s1
        PROVE  conn'[k] = IF pc'[k] \in {"memset", "call"} THEN 0 ELSE k
    <3>1. CASE k = t BY <3>1 DEF ThreadKeeps
    <3>2. CASE k # t BY <3>2 DEF ThreadActs, UnmixedInv, OwnConnection
    <3> QED BY <3>1, <3>2
  <2> QED BY <1>1, <2>1 DEF OwnConnection
<1>5. ThreadFiles' BY <1>2, <1>3, TalksGiveFiles, PTL
<1>6. ClientFiles'
  <2>1. (\A c \in Client :
           /\ script[c] = GetChunks =>
                /\ got[c] = First(Size - left[c])
                /\ down[sock[c]] \in {<<>>, Rest(Size - left[c])}
           /\ script[c] \in {GetAt, GetEcho} => down[sock[c]] \in {<<>>, One("echo")}
           /\ script[c] \in {GetName, GetResponse} => InfoFirst(down[sock[c]]))'
    BY <1>2, <1>3, TalksGiveFiles, PTL
  <2>2. \A c \in Client : script[c] # GetChunks => got[c] \in {<<>>, File}
    BY DEF UnmixedInv, ClientFiles, FilesOf
  <2> QED BY <1>1, <2>1, <2>2 DEF ClientFiles, FilesOf
<1>7. AloneAnswered'
  <2>1. SUFFICES ASSUME Alone', NEW k \in 1..(Len(up) - 1)
                 PROVE  k <= s1 /\ pc'[k] \notin Waiting
    BY <1>1 DEF AloneAnswered, Waiting
  <2>2. Alone BY <1>1, <2>1 DEF Alone
  <2>3. k <= s1 /\ pc[k] \notin Waiting BY <2>2 DEF UnmixedInv, AloneAnswered, Waiting
  <2>4. k \in 1..s1
    <3> DEFINE n == Len(up)
    <3>1. n \in Nat /\ s1 \in Nat /\ k \in 1..(n - 1) BY Lengths
    <3> HIDE DEF n
    <3>2. k \in Nat /\ k >= 1 BY <3>1
    <3> QED BY <2>3, <3>1, <3>2
  <2>5. CASE k = t BY <2>3, <2>5 DEF ThreadKeeps
  <2>6. CASE k # t BY <2>3, <2>4, <2>6 DEF ThreadActs
  <2> QED BY <2>3, <2>5, <2>6
<1>8. GoneAfterList'
  <2>1. ASSUME NEW k \in gone
        PROVE  k <= s1 /\ request'[k] = "LIST" /\ pc'[k] \in Answered
    <3>1. k <= s1 /\ request[k] = "LIST" /\ pc[k] \in Answered
      BY DEF UnmixedInv, GoneAfterList, Answered
    <3>2. k \in 1..s1
      <4>1. k \in 1..Len(up) /\ Len(up) \in Nat /\ s1 \in Nat BY Lengths DEF TypeInv, StreamTypes
      <4>2. k \in Nat /\ k >= 1 BY <4>1
      <4> QED BY <3>1, <4>1, <4>2
    <3>3. CASE k = t BY <3>1, <3>3 DEF ThreadKeeps
    <3>4. CASE k # t BY <3>1, <3>2, <3>4 DEF ThreadActs
    <3> QED BY <3>3, <3>4
  <2> QED BY <1>1, <2>1 DEF GoneAfterList, Answered
<1>9. ToldTruly' BY <1>1 DEF UnmixedInv, ToldTruly
<1> QED BY <1>2, <1>4, <1>5, <1>6, <1>7, <1>8, <1>9 DEF UnmixedInv

-------------------------------------------------------------------------------
\* What the parts of a thread's action do to its own connection.
LEMMA GoesTo ==
  ASSUME TypeInv, NEW t \in 1..s1, NEW label, Goto(t, label)
  PROVE  pc'[t] = label /\ \A k \in 1..s1 : k # t => pc'[k] = pc[k]
<1>1. pc \in [1..s1 -> PC] /\ pc' = [pc EXCEPT ![t] = label] BY Before DEF Goto
<1> QED BY <1>1

LEMMA ReceivesOwn ==
  ASSUME TypeInv, NEW t \in 1..s1, conn[t] = t, t \notin shut, t \notin gone, NEW kind, Recv(t, kind)
  PROVE  /\ up[t] # <<>> /\ kind = Head(up[t]).kind
         /\ Len(up') = Len(up) /\ up'[t] = Tail(up[t])
         /\ \A k \in 1..Len(up) : k # t => up'[k] = up[k]
<1>1. up[t] # <<>> /\ kind = Head(up[t]).kind /\ up' = [up EXCEPT ![t] = Tail(up[t])]
  BY DEF Recv
<1>2. up \in Seq(Seq(Cell)) /\ t \in 1..Len(up) BY Lengths, Before
<1>3. up[t] \in Seq(Cell) BY <1>2, ElementOfSeq
<1> DEFINE x == Tail(up[t])
           S == Seq(Cell)
<1>4. x \in S BY <1>1, <1>3, TailTyped
<1>5. up \in Seq(S) /\ up' = [up EXCEPT ![t] = x] BY <1>1, <1>2
<1> HIDE DEF S
<1>6. x = Tail(up[t]) OBVIOUS
<1> HIDE DEF x
<1>7. Len(up') = Len(up) /\ \A k \in 1..Len(up) : up'[k] = IF k = t THEN x ELSE up[k]
  BY <1>4, <1>5, ElementSet
<1> QED BY <1>1, <1>2, <1>6, <1>7

LEMMA SendsOwn ==
  ASSUME TypeInv, NEW t \in 1..s1, t \notin shut, NEW cells \in Seq(Cell), Send(t, cells)
  PROVE  /\ down'[t] = down[t] \o cells
         /\ \A k \in 1..Len(up) : k # t => down'[k] = down[k]
<1>1. down' = [down EXCEPT ![t] = down[t] \o cells] BY DEF Send
<1>2. down \in Seq(Seq(Cell)) /\ Len(down) = Len(up) /\ t \in 1..Len(up) BY Lengths, Before
<1>3. down[t] \in Seq(Cell) BY <1>2, ElementOfSeq
<1> DEFINE x == down[t] \o cells
           S == Seq(Cell)
<1>4. x \in S BY <1>3, ConcatProperties
<1>5. down \in Seq(S) /\ down' = [down EXCEPT ![t] = x] BY <1>1, <1>2
<1> HIDE DEF S
<1>6. x = down[t] \o cells OBVIOUS
<1> HIDE DEF x
<1>7. \A k \in 1..Len(up) : down'[k] = IF k = t THEN x ELSE down[k]
  BY <1>2, <1>4, <1>5, ElementSet
<1> QED BY <1>2, <1>6, <1>7

LEMMA ClosesOwn ==
  ASSUME NEW t, conn[t] = t, closesocket(t)
  PROVE  t \in shut' /\ \A k : k # t => (k \in shut' <=> k \in shut)
BY DEF closesocket

\* A connection is shut only at the end of its function.
LEMMA TalkOpen ==
  ASSUME NEW v, Talk(v), v.pc \notin Answered
  PROVE  ~v.shut
<1>1. ListTalk(v) => ~v.shut \/ v.pc \in Answered
  BY DEF ListTalk, Unasked, Asked, Fresh, In, Listed, Answered
<1>2. PutTalk(v) => ~v.shut \/ v.pc \in Answered
  BY DEF PutTalk, Unasked, Asked, Fresh, In, Taking, Taken, Answered
<1>3. GetTalk(v) => ~v.shut \/ v.pc \in Answered
  BY DEF GetTalk, Unasked, Asked, Fresh, In, Closed, Answered
<1>4. DeleteTalk(v) => ~v.shut \/ v.pc \in Answered
  BY DEF DeleteTalk, Unasked, Asked, Fresh, In, Deleted, Answered
<1> QED BY <1>1, <1>2, <1>3, <1>4 DEF Talk

-------------------------------------------------------------------------------
\* TcpThread::run up to its recv, and the calls that are given s1.
LEMMA CallUnmixed ==
  ASSUME TypeInv, UnmixedInv, ~crashed, ~mixed', NEW t \in 1..s1, memset(t) \/ call(t), UNCHANGED owner
  PROVE  ThreadActs(t) /\ ThreadKeeps(t) /\ Talk(View(t))'
<1>1. /\ UNCHANGED <<script, sock, left, got, told, up, down, shut, gone, s1, owner, fsize, written,
                     request, deleted>>
      /\ \/ pc[t] = "memset" /\ Goto(t, "call") /\ UNCHANGED conn
         \/ pc[t] \in DOMAIN Callee /\ Goto(t, Callee[pc[t]]) /\ s1 = t /\ conn' = [conn EXCEPT ![t] = s1]
  BY DEF memset, call, clients, streams, disk
<1>2. pc' = [pc EXCEPT ![t] = pc'[t]] /\ \A k \in 1..s1 : k # t => pc'[k] = pc[k]
  BY <1>1, GoesTo DEF Goto
<1>3. /\ \A k \in 1..s1 : k # t => conn'[k] = conn[k]
      /\ conn'[t] = conn[t] \/ (pc[t] \in DOMAIN Callee /\ conn'[t] = t)
  <2>1. conn \in [1..s1 -> 0..s1] BY DEF TypeInv, ThreadTypes
  <2> QED BY <1>1, <2>1
<1>4. ThreadActs(t) BY <1>1, <1>2, <1>3 DEF ThreadActs
<1>5. \/ pc[t] = "memset" /\ pc'[t] = "call" /\ conn'[t] = conn[t]
      \/ pc[t] = "call" /\ pc'[t] = "recv" /\ conn'[t] = t
      \/ pc[t] = "PutFileToClient" /\ pc'[t] = "getname" /\ conn'[t] = t
      \/ pc[t] = "GetFileFromClient" /\ pc'[t] = "putinfo" /\ conn'[t] = t
      \/ pc[t] = "DeleteServerFiles" /\ pc'[t] = "delname" /\ conn'[t] = t
  <2>1. CASE pc[t] = "memset" /\ Goto(t, "call") /\ UNCHANGED conn BY <2>1, GoesTo
  <2>2. CASE pc[t] \in DOMAIN Callee /\ Goto(t, Callee[pc[t]]) /\ s1 = t
             /\ conn' = [conn EXCEPT ![t] = s1]
    <3>1. conn \in [1..s1 -> 0..s1] BY DEF TypeInv, ThreadTypes
    <3>2. conn'[t] = t BY <2>2, <3>1
    <3>3. pc'[t] = Callee[pc[t]] BY <2>2, GoesTo
    <3> QED BY <2>2, <3>2, <3>3 DEF Callee
  <2> QED BY <1>1, <2>1, <2>2
<1>6. ThreadKeeps(t)
  <2>1. /\ conn[t] = IF pc[t] \in {"memset", "call"} THEN 0 ELSE t
        /\ t \in gone => pc[t] \in Answered
    BY ThreadBefore
  <2> QED BY <1>5, <2>1 DEF ThreadKeeps, Waiting, Answered
<1> DEFINE v == View(t)
           w == View(t)'
<1>7. /\ Talk(v) /\ v.up = up[t] /\ v.down = down[t] /\ v.pc = pc[t]
      /\ v.req = request[t] /\ v.shut = (t \in shut)
      /\ v.fsize = fsize[t] /\ v.wrote = written[t] /\ v.removed = deleted
  BY ThreadBefore
<1>8. /\ ThreadOf(v, w) /\ w.up = up[t] /\ w.down = down[t] /\ w.pc = pc'[t]
      /\ w.req = request[t] /\ w.shut = (t \in shut)
      /\ w.fsize = fsize[t] /\ w.wrote = written[t] /\ w.removed = deleted
  BY <1>1, <1>4, ThreadView
<1>9. Talk(w) => Talk(View(t))' OBVIOUS
<1> HIDE DEF v, w
<1>10. /\ w.up = v.up /\ w.down = v.down /\ w.req = v.req /\ w.shut = v.shut
       /\ w.fsize = v.fsize /\ w.wrote = v.wrote /\ w.removed = v.removed
  BY <1>7, <1>8
<1>11. CASE v.pc \in {"memset", "call"} /\ w.pc \in {"call", "recv"}
  <2>1. Talk(w) BY <1>7, <1>8, <1>10, <1>11, TalkCalled
  <2> QED BY <1>4, <1>6, <1>9, <2>1
<1>12. CASE \/ v.pc = "PutFileToClient" /\ w.pc = "getname"
            \/ v.pc = "GetFileFromClient" /\ w.pc = "putinfo"
            \/ v.pc = "DeleteServerFiles" /\ w.pc = "delname"
  <2>1. Talk(w) BY <1>7, <1>8, <1>10, <1>12, TalkGoesOn
  <2> QED BY <1>4, <1>6, <1>9, <2>1
<1> QED BY <1>5, <1>7, <1>8, <1>11, <1>12

\* The request comes in: on the thread's own connection, which is open.
LEMMA RequestUnmixed ==
  ASSUME TypeInv, UnmixedInv, ~crashed, NEW t \in 1..s1, recvRequest(t), UNCHANGED owner
  PROVE  ThreadActs(t) /\ ThreadKeeps(t) /\ Talk(View(t))'
<1>1. /\ UNCHANGED <<script, sock, left, got, told, down, shut, gone, s1, owner, conn, fsize, written,
                     deleted>>
      /\ pc[t] = "recv" /\ Goto(t, "LIST")
  BY DEF recvRequest, clients, disk
<1>2. PICK kind \in RecordKind :
        /\ Recv(t, kind)
        /\ request' = [request EXCEPT ![t] = IF kind \in Choice \cup {""} THEN kind ELSE "other"]
  BY DEF recvRequest
<1> DEFINE v == View(t)
           w == View(t)'
<1>3. /\ Talk(v) /\ v.up = up[t] /\ v.down = down[t] /\ v.pc = pc[t]
      /\ v.req = request[t] /\ v.shut = (t \in shut) /\ v.fsize = fsize[t] /\ v.wrote = written[t]
      /\ conn[t] = t /\ t \notin gone
  BY <1>1, ThreadBefore DEF Answered
<1>4. t \notin shut BY <1>1, <1>3, TalkOpen DEF Answered
<1>5. /\ up[t] # <<>> /\ kind = Head(up[t]).kind
      /\ Len(up') = Len(up) /\ up'[t] = Tail(up[t])
      /\ \A k \in 1..Len(up) : k # t => up'[k] = up[k]
  BY <1>2, <1>3, <1>4, ReceivesOwn
<1>6. pc'[t] = "LIST" /\ \A k \in 1..s1 : k # t => pc'[k] = pc[k] BY <1>1, GoesTo
<1>7. /\ request'[t] = IF kind \in Choice \cup {""} THEN kind ELSE "other"
      /\ \A k \in 1..s1 : k # t => request'[k] = request[k]
  BY <1>2, Before
<1>8. ThreadActs(t) BY <1>1, <1>5, <1>6, <1>7 DEF ThreadActs
<1>9. ThreadKeeps(t) BY <1>1, <1>3, <1>6 DEF ThreadKeeps, Waiting
<1>10. /\ ThreadOf(v, w) /\ w.up = up'[t] /\ w.down = down[t] /\ w.pc = pc'[t]
       /\ w.req = request'[t] /\ w.shut = (t \in shut) /\ w.wrote = written[t]
  BY <1>1, <1>8, ThreadView
<1>11. Talk(w) => Talk(View(t))' OBVIOUS
<1> HIDE DEF v, w
<1>12. /\ v.pc = "recv" /\ v.up # <<>> /\ w.pc = "LIST" /\ w.up = Tail(v.up)
       /\ w.req = IF Head(v.up).kind \in Choice \cup {""} THEN Head(v.up).kind ELSE "other"
       /\ w.down = v.down /\ w.shut = v.shut /\ w.wrote = v.wrote
  BY <1>1, <1>3, <1>5, <1>6, <1>7, <1>10
<1>13. Talk(w) BY <1>3, <1>10, <1>12, TalkReceived
<1> QED BY <1>8, <1>9, <1>11, <1>13

\* The comparisons of szbuffer, which still is the thread's own command.
LEMMA OtherUnmixed ==
  ASSUME TypeInv, UnmixedInv, ~crashed, ~mixed', NEW t \in 1..s1, otherCommand(t), UNCHANGED owner
  PROVE  ThreadActs(t) /\ ThreadKeeps(t) /\ Talk(View(t))'
<1>1. /\ UNCHANGED <<script, sock, left, got, told, up, down, shut, gone, s1, owner, conn, fsize,
                     written, request, deleted>>
      /\ pc[t] \in Choice /\ Goto(t, NextTest[pc[t]]) /\ request[t] # pc[t]
  BY DEF otherCommand, clients, streams, disk, Mixes
<1>2. pc'[t] = NextTest[pc[t]] /\ \A k \in 1..s1 : k # t => pc'[k] = pc[k] BY <1>1, GoesTo
<1>3. pc[t] \notin Waiting /\ pc'[t] \in Answered BY <1>1, <1>2 DEF NextTest, Choice, Answered, Waiting
<1> DEFINE v == View(t)
           w == View(t)'
<1>4. /\ Talk(v) /\ v.up = up[t] /\ v.down = down[t] /\ v.pc = pc[t]
      /\ v.req = request[t] /\ v.shut = (t \in shut)
      /\ v.fsize = fsize[t] /\ v.wrote = written[t] /\ v.removed = deleted
      /\ conn[t] = IF pc[t] \in {"memset", "call"} THEN 0 ELSE t
      /\ t \in gone => request[t] = "LIST"
  BY ThreadBefore
<1>5. ThreadActs(t) BY <1>1, <1>2 DEF ThreadActs
<1>6. ThreadKeeps(t) BY <1>1, <1>3, <1>4 DEF ThreadKeeps, Waiting, Answered
<1>7. /\ ThreadOf(v, w) /\ w.up = up[t] /\ w.down = down[t] /\ w.pc = pc'[t]
      /\ w.req = request[t] /\ w.shut = (t \in shut)
      /\ w.fsize = fsize[t] /\ w.wrote = written[t] /\ w.removed = deleted
  BY <1>1, <1>5, ThreadView
<1>8. Talk(w) => Talk(View(t))' OBVIOUS
<1> HIDE DEF v, w
<1>9. /\ v.pc \in Choice /\ v.req # v.pc /\ w.pc = NextTest[v.pc]
      /\ w.up = v.up /\ w.down = v.down /\ w.req = v.req /\ w.shut = v.shut
      /\ w.fsize = v.fsize /\ w.wrote = v.wrote /\ w.removed = v.removed
  BY <1>1, <1>2, <1>4, <1>7
<1>10. Talk(w) BY <1>4, <1>7, <1>9, TalkOther
<1> QED BY <1>5, <1>6, <1>8, <1>10

LEMMA ListUnmixed ==
  ASSUME TypeInv, UnmixedInv, ~crashed, ~mixed', NEW t \in 1..s1, listFiles(t), UNCHANGED owner
  PROVE  ThreadActs(t) /\ ThreadKeeps(t) /\ Talk(View(t))'
<1>1. /\ UNCHANGED <<script, sock, left, got, told, up, shut, gone, s1, owner, conn, fsize,
                     written, request, deleted>>
      /\ pc[t] = "LIST" /\ Goto(t, "GET") /\ request[t] = "LIST" /\ s1 = t
  BY DEF listFiles, clients, disk, Mixes
<1>2. Send(t, Listing(Entries)) BY <1>1 DEF listFiles, Listing
<1>3. pc'[t] = "GET" /\ \A k \in 1..s1 : k # t => pc'[k] = pc[k] BY <1>1, GoesTo
<1> DEFINE v == View(t)
           w == View(t)'
<1>4. /\ Talk(v) /\ v.up = up[t] /\ v.down = down[t] /\ v.pc = pc[t]
      /\ v.req = request[t] /\ v.shut = (t \in shut)
      /\ v.fsize = fsize[t] /\ v.wrote = written[t]
      /\ conn[t] = t /\ t \notin gone
  BY <1>1, ThreadBefore DEF Answered
<1>5. t \notin shut BY <1>1, <1>4, TalkOpen DEF Answered
<1>6. Listing(Entries) \in Seq(Cell)
  <2>1. \A j \in 1..(Entries + 1) : Record(IF j <= Entries THEN "entry" ELSE "@") \in Cell
    BY CellsTyped
  <2>2. Entries + 1 \in Nat BY TcpServerAssumption
  <2> QED BY <2>1, <2>2 DEF Listing
<1>7. down'[t] = down[t] \o Listing(Entries) /\ \A k \in 1..Len(up) : k # t => down'[k] = down[k]
  BY <1>2, <1>5, <1>6, SendsOwn
<1>8. ThreadActs(t) BY <1>1, <1>3, <1>7 DEF ThreadActs
<1>9. ThreadKeeps(t) BY <1>1, <1>3, <1>4 DEF ThreadKeeps, Waiting
<1>10. /\ ThreadOf(v, w) /\ w.up = up[t] /\ w.down = down'[t] /\ w.pc = pc'[t]
       /\ w.req = request[t] /\ w.shut = (t \in shut)
       /\ w.fsize = fsize[t] /\ w.wrote = written[t]
  BY <1>1, <1>8, ThreadView
<1>11. Talk(w) => Talk(View(t))' OBVIOUS
<1> HIDE DEF v, w
<1>12. /\ v.pc = "LIST" /\ v.req = "LIST" /\ w.pc = "GET" /\ w.down = v.down \o Listing(Entries)
       /\ w.up = v.up /\ w.req = v.req /\ w.shut = v.shut /\ w.fsize = v.fsize /\ w.wrote = v.wrote
  BY <1>1, <1>3, <1>4, <1>7, <1>10
<1>13. Talk(w) BY <1>4, <1>10, <1>12, TalkListed
<1> QED BY <1>8, <1>9, <1>11, <1>13

LEMMA CommandUnmixed ==
  ASSUME TypeInv, UnmixedInv, ~crashed, ~mixed', NEW t \in 1..s1, command(t), UNCHANGED owner
  PROVE  ThreadActs(t) /\ ThreadKeeps(t) /\ Talk(View(t))'
<1>1. /\ UNCHANGED <<script, sock, left, got, told, up, shut, gone, s1, owner, conn, fsize,
                     written, request, deleted>>
      /\ pc[t] \in DOMAIN Handler /\ Goto(t, Handler[pc[t]]) /\ request[t] = pc[t] /\ s1 = t
      /\ Send(t, One("echo"))
  BY DEF command, clients, disk, Mixes, One
<1>2. pc[t] \in {"GET", "PUT", "DELETE"} /\ pc[t] \in Choice BY <1>1 DEF Handler, Choice
<1>3. pc'[t] = Handler[pc[t]] /\ \A k \in 1..s1 : k # t => pc'[k] = pc[k] BY <1>1, GoesTo
<1>4. pc'[t] \notin Waiting BY <1>2, <1>3 DEF Handler, Waiting
<1> DEFINE v == View(t)
           w == View(t)'
<1>5. /\ Talk(v) /\ v.up = up[t] /\ v.down = down[t] /\ v.pc = pc[t]
      /\ v.req = request[t] /\ v.shut = (t \in shut)
      /\ v.fsize = fsize[t] /\ v.wrote = written[t]
      /\ conn[t] = t /\ t \notin gone
  BY <1>1, <1>2, ThreadBefore
<1>6. t \notin shut BY <1>1, <1>2, <1>5, TalkAtCommand
<1>7. One("echo") \in Seq(Cell) BY CellsTyped DEF One
<1>8. down'[t] = down[t] \o One("echo") /\ \A k \in 1..Len(up) : k # t => down'[k] = down[k]
  BY <1>1, <1>6, <1>7, SendsOwn
<1>9. ThreadActs(t) BY <1>1, <1>3, <1>8 DEF ThreadActs
<1>10. ThreadKeeps(t) BY <1>1, <1>4, <1>5 DEF ThreadKeeps, Waiting
<1>11. /\ ThreadOf(v, w) /\ w.up = up[t] /\ w.down = down'[t] /\ w.pc = pc'[t]
       /\ w.req = request[t] /\ w.shut = (t \in shut)
       /\ w.fsize = fsize[t] /\ w.wrote = written[t]
  BY <1>1, <1>9, ThreadView
<1>12. Talk(w) => Talk(View(t))' OBVIOUS
<1> HIDE DEF v, w
<1>13. /\ v.pc \in DOMAIN Handler /\ v.req = v.pc /\ w.pc = Handler[v.pc]
       /\ w.down = v.down \o One("echo")
       /\ w.up = v.up /\ w.req = v.req /\ w.shut = v.shut /\ w.fsize = v.fsize /\ w.wrote = v.wrote
  BY <1>1, <1>3, <1>5, <1>8, <1>11
<1>14. Talk(w) BY <1>5, <1>11, <1>13, TalkEchoed
<1> QED BY <1>9, <1>10, <1>12, <1>14

\* PutFileToClient.
LEMMA GetnameUnmixed ==
  ASSUME TypeInv, UnmixedInv, ~crashed, NEW t \in 1..s1, getname(t), UNCHANGED owner
  PROVE  ThreadActs(t) /\ ThreadKeeps(t) /\ Talk(View(t))'
<1>1. /\ UNCHANGED <<script, sock, left, got, told, gone, s1, owner, conn, fsize, written, request,
                     deleted>>
      /\ pc[t] = "getname"
  BY DEF getname, clients, disk
<1> DEFINE v == View(t)
           w == View(t)'
<1>2. /\ Talk(v) /\ v.up = up[t] /\ v.down = down[t] /\ v.pc = pc[t]
      /\ v.req = request[t] /\ v.shut = (t \in shut) /\ v.wrote = written[t]
      /\ conn[t] = t /\ t \notin gone
  BY <1>1, ThreadBefore DEF Answered
<1>3. t \notin shut BY <1>1, <1>2, TalkOpen DEF Answered
<1>4. PICK kind \in RecordKind :
        /\ Recv(t, kind)
        /\ \/ Send(t, One("info")) /\ Goto(t, "fopen") /\ UNCHANGED shut
           \/ Send(t, One("nofile")) /\ Goto(t, "PUT") /\ closesocket(t)
  BY <1>2 DEF getname, One
<1>5. /\ up[t] # <<>> /\ Len(up') = Len(up) /\ up'[t] = Tail(up[t])
      /\ \A k \in 1..Len(up) : k # t => up'[k] = up[k]
  BY <1>2, <1>3, <1>4, ReceivesOwn
<1>6. /\ \/ down'[t] = down[t] \o One("info") /\ pc'[t] = "fopen" /\ (t \in shut') = (t \in shut)
         \/ down'[t] = down[t] \o One("nofile") /\ pc'[t] = "PUT" /\ t \in shut'
      /\ \A k \in 1..Len(up) : k # t => down'[k] = down[k] /\ (k \in shut' <=> k \in shut)
      /\ \A k \in 1..s1 : k # t => pc'[k] = pc[k]
  <2>1. One("info") \in Seq(Cell) /\ One("nofile") \in Seq(Cell) BY CellsTyped DEF One
  <2>2. CASE Send(t, One("info")) /\ Goto(t, "fopen") /\ UNCHANGED shut
    BY <1>3, <2>1, <2>2, SendsOwn, GoesTo
  <2>3. CASE Send(t, One("nofile")) /\ Goto(t, "PUT") /\ closesocket(t)
    BY <1>2, <1>3, <2>1, <2>3, SendsOwn, GoesTo, ClosesOwn
  <2> QED BY <1>4, <2>2, <2>3
<1>7. ThreadActs(t) BY <1>1, <1>5, <1>6 DEF ThreadActs
<1>8. ThreadKeeps(t) BY <1>1, <1>2, <1>6 DEF ThreadKeeps, Waiting
<1>9. /\ ThreadOf(v, w) /\ w.up = up'[t] /\ w.down = down'[t] /\ w.pc = pc'[t]
      /\ w.req = request[t] /\ w.shut = (t \in shut') /\ w.wrote = written[t]
  BY <1>1, <1>7, ThreadView
<1>10. Talk(w) => Talk(View(t))' OBVIOUS
<1> HIDE DEF v, w
<1>11. v.pc = "getname" /\ v.up # <<>> /\ w.up = Tail(v.up) /\ w.req = v.req /\ w.wrote = v.wrote
  BY <1>1, <1>2, <1>5, <1>9
<1>12. \/ w.pc = "fopen" /\ w.down = v.down \o One("info") /\ w.shut = v.shut
       \/ w.pc = "PUT" /\ w.down = v.down \o One("nofile") /\ w.shut
  BY <1>2, <1>6, <1>9
<1>13. Talk(w) BY <1>2, <1>9, <1>11, <1>12, TalkNamed
<1> QED BY <1>7, <1>8, <1>10, <1>13

LEMMA FopenUnmixed ==
  ASSUME TypeInv, UnmixedInv, ~crashed, NEW t \in 1..s1, fopen(t), UNCHANGED owner
  PROVE  ThreadActs(t) /\ ThreadKeeps(t) /\ Talk(View(t))'
<1>1. /\ UNCHANGED <<script, sock, left, got, told, up, down, shut, gone, s1, owner, conn, fsize,
                     written, request, deleted>>
      /\ pc[t] = "fopen" /\ Goto(t, "sending")
  BY DEF fopen, clients, streams, disk
<1>2. pc'[t] = "sending" /\ \A k \in 1..s1 : k # t => pc'[k] = pc[k] BY <1>1, GoesTo
<1> DEFINE v == View(t)
           w == View(t)'
<1>3. /\ Talk(v) /\ v.up = up[t] /\ v.down = down[t] /\ v.pc = pc[t]
      /\ v.req = request[t] /\ v.shut = (t \in shut)
      /\ v.fsize = fsize[t] /\ v.wrote = written[t] /\ v.removed = deleted
      /\ conn[t] = t /\ t \notin gone
  BY <1>1, ThreadBefore DEF Answered
<1>4. ThreadActs(t) BY <1>1, <1>2 DEF ThreadActs
<1>5. ThreadKeeps(t) BY <1>1, <1>2, <1>3 DEF ThreadKeeps, Waiting
<1>6. /\ ThreadOf(v, w) /\ w.up = up[t] /\ w.down = down[t] /\ w.pc = pc'[t]
      /\ w.req = request[t] /\ w.shut = (t \in shut)
      /\ w.fsize = fsize[t] /\ w.wrote = written[t] /\ w.removed = deleted
  BY <1>1, <1>4, ThreadView
<1>7. Talk(w) => Talk(View(t))' OBVIOUS
<1> HIDE DEF v, w
<1>8. /\ v.pc = "fopen" /\ w.pc = "sending"
      /\ w.up = v.up /\ w.down = v.down /\ w.req = v.req /\ w.shut = v.shut
      /\ w.fsize = v.fsize /\ w.wrote = v.wrote /\ w.removed = v.removed
  BY <1>1, <1>2, <1>3, <1>6
<1>9. Talk(w) BY <1>3, <1>6, <1>8, TalkGoesOn
<1> QED BY <1>4, <1>5, <1>7, <1>9

LEMMA PutFileUnmixed ==
  ASSUME TypeInv, UnmixedInv, ~crashed, NEW t \in 1..s1, PutFileToClient(t), UNCHANGED owner
  PROVE  ThreadActs(t) /\ ThreadKeeps(t) /\ Talk(View(t))'
<1>1. /\ UNCHANGED <<script, sock, left, got, told, up, gone, s1, owner, conn, fsize, written,
                     request, deleted>>
      /\ pc[t] = "sending"
      /\ \/ Goto(t, "again") /\ UNCHANGED shut
         \/ Goto(t, "PUT") /\ closesocket(t)
  BY DEF PutFileToClient, clients
<1>2. /\ \/ pc'[t] = "again" /\ UNCHANGED shut
         \/ pc'[t] = "PUT" /\ closesocket(t)
      /\ \A k \in 1..s1 : k # t => pc'[k] = pc[k]
  <2>1. CASE Goto(t, "again") /\ UNCHANGED shut BY <2>1, GoesTo
  <2>2. CASE Goto(t, "PUT") /\ closesocket(t) BY <2>2, GoesTo
  <2> QED BY <1>1, <2>1, <2>2
<1> DEFINE v == View(t)
           w == View(t)'
<1>3. /\ Talk(v) /\ v.up = up[t] /\ v.down = down[t] /\ v.pc = pc[t]
      /\ v.req = request[t] /\ v.shut = (t \in shut) /\ v.wrote = written[t]
      /\ conn[t] = t /\ t \notin gone
  BY <1>1, ThreadBefore DEF Answered
<1>4. t \notin shut BY <1>1, <1>3, TalkOpen DEF Answered
<1>5. down'[t] = down[t] \o File /\ \A k \in 1..Len(up) : k # t => down'[k] = down[k]
  <2>1. OwnFile(t) BY <1>1 DEF UnmixedInv, FilesOwn
  <2>2. Send(t, File) BY <1>3, <2>1 DEF PutFileToClient
  <2> QED BY <1>4, <2>2, CellsTyped, SendsOwn
<1>6. /\ \/ pc'[t] = "again" /\ (t \in shut') = (t \in shut)
         \/ pc'[t] = "PUT" /\ t \in shut'
      /\ \A k : k # t => (k \in shut' <=> k \in shut)
  BY <1>2, <1>3, ClosesOwn
<1>7. ThreadActs(t) BY <1>1, <1>2, <1>5, <1>6 DEF ThreadActs
<1>8. ThreadKeeps(t) BY <1>1, <1>2, <1>3 DEF ThreadKeeps, Waiting
<1>9. /\ ThreadOf(v, w) /\ w.up = up[t] /\ w.down = down'[t] /\ w.pc = pc'[t]
      /\ w.req = request[t] /\ w.shut = (t \in shut') /\ w.wrote = written[t]
  BY <1>1, <1>7, ThreadView
<1>10. Talk(w) => Talk(View(t))' OBVIOUS
<1> HIDE DEF v, w
<1>11. /\ v.pc = "sending" /\ w.down = v.down \o File
       /\ w.up = v.up /\ w.req = v.req /\ w.wrote = v.wrote
  BY <1>1, <1>3, <1>5, <1>9
<1>12. \/ w.pc = "again" /\ w.shut = v.shut
       \/ w.pc = "PUT" /\ w.shut
  BY <1>3, <1>6, <1>9
<1>13. Talk(w) BY <1>3, <1>9, <1>11, <1>12, TalkSent
<1> QED BY <1>7, <1>8, <1>10, <1>13

\* The extra round of its loop.
LEMMA CloseAgainUnmixed ==
  ASSUME TypeInv, UnmixedInv, ~crashed, NEW t \in 1..s1, closeAgain(t), UNCHANGED owner
  PROVE  ThreadActs(t) /\ ThreadKeeps(t) /\ Talk(View(t))'
<1>1. /\ UNCHANGED <<script, sock, left, got, told, up, down, gone, s1, owner, conn, fsize, written,
                     request, deleted>>
      /\ pc[t] = "again" /\ Goto(t, "PUT") /\ closesocket(t)
  BY DEF closeAgain, clients
<1>2. pc'[t] = "PUT" /\ \A k \in 1..s1 : k # t => pc'[k] = pc[k] BY <1>1, GoesTo
<1> DEFINE v == View(t)
           w == View(t)'
<1>3. /\ Talk(v) /\ v.up = up[t] /\ v.down = down[t] /\ v.pc = pc[t]
      /\ v.req = request[t] /\ v.wrote = written[t]
      /\ conn[t] = t /\ t \notin gone
  BY <1>1, ThreadBefore DEF Answered
<1>4. t \in shut' /\ \A k : k # t => (k \in shut' <=> k \in shut) BY <1>1, <1>3, ClosesOwn
<1>5. ThreadActs(t) BY <1>1, <1>2, <1>4 DEF ThreadActs
<1>6. ThreadKeeps(t) BY <1>1, <1>2, <1>3 DEF ThreadKeeps, Waiting
<1>7. /\ ThreadOf(v, w) /\ w.up = up[t] /\ w.down = down[t] /\ w.pc = pc'[t]
      /\ w.req = request[t] /\ w.shut = (t \in shut') /\ w.wrote = written[t]
  BY <1>1, <1>5, ThreadView
<1>8. Talk(w) => Talk(View(t))' OBVIOUS
<1> HIDE DEF v, w
<1>9. /\ v.pc = "again" /\ w.pc = "PUT" /\ w.shut
      /\ w.up = v.up /\ w.down = v.down /\ w.req = v.req /\ w.wrote = v.wrote
  BY <1>1, <1>2, <1>3, <1>4, <1>7
<1>10. Talk(w) BY <1>3, <1>7, <1>9, TalkAgain
<1> QED BY <1>5, <1>6, <1>8, <1>10

\* GetFileFromClient: a Fileinfo comes in first, then parts of the file.
LEMMA PutinfoUnmixed ==
  ASSUME TypeInv, UnmixedInv, ~crashed, NEW t \in 1..s1, putinfo(t), UNCHANGED owner
  PROVE  ThreadActs(t) /\ ThreadKeeps(t) /\ Talk(View(t))'
<1>1. /\ UNCHANGED <<script, sock, left, got, told, down, shut, gone, s1, owner, conn, written,
                     request, deleted>>
      /\ pc[t] = "putinfo" /\ Goto(t, "chunks")
  BY DEF putinfo, clients
<1>2. pc'[t] = "chunks" /\ \A k \in 1..s1 : k # t => pc'[k] = pc[k] BY <1>1, GoesTo
<1> DEFINE v == View(t)
           w == View(t)'
<1>3. /\ Talk(v) /\ v.up = up[t] /\ v.down = down[t] /\ v.pc = pc[t]
      /\ v.req = request[t] /\ v.shut = (t \in shut) /\ v.wrote = written[t]
      /\ conn[t] = t /\ t \notin gone
  BY <1>1, ThreadBefore DEF Answered
<1>4. t \notin shut BY <1>1, <1>3, TalkOpen DEF Answered
<1>5. PICK kind \in RecordKind :
        /\ Recv(t, kind)
        /\ \/ kind = "info" /\ fsize' = [fsize EXCEPT ![t] = Size]
           \/ kind # "info" /\ \E n \in 0..Size : fsize' = [fsize EXCEPT ![t] = n]
  BY DEF putinfo
<1>6. /\ up[t] # <<>> /\ kind = Head(up[t]).kind
      /\ Len(up') = Len(up) /\ up'[t] = Tail(up[t])
      /\ \A k \in 1..Len(up) : k # t => up'[k] = up[k]
  BY <1>3, <1>4, <1>5, ReceivesOwn
<1>7. kind = "info"
  <2>1. up[t] = One("info") \/ up[t] = One("info") \o File BY <1>1, <1>3, <1>6, TalkAtInfo
  <2> QED BY <1>6, <2>1, OneCell, InfoAndFile
<1>8. fsize'[t] = Size /\ \A k \in 1..s1 : k # t => fsize'[k] = fsize[k]
  BY <1>5, <1>7, Before
<1>9. ThreadActs(t) BY <1>1, <1>2, <1>6, <1>8 DEF ThreadActs
<1>10. ThreadKeeps(t) BY <1>1, <1>2, <1>3 DEF ThreadKeeps, Waiting
<1>11. /\ ThreadOf(v, w) /\ w.up = up'[t] /\ w.down = down[t] /\ w.pc = pc'[t] /\ w.fsize = fsize'[t]
       /\ w.req = request[t] /\ w.shut = (t \in shut) /\ w.wrote = written[t]
  BY <1>1, <1>9, ThreadView
<1>12. Talk(w) => Talk(View(t))' OBVIOUS
<1> HIDE DEF v, w
<1>13. /\ v.pc = "putinfo" /\ v.up # <<>> /\ w.pc = "chunks" /\ w.up = Tail(v.up) /\ w.fsize = Size
       /\ w.down = v.down /\ w.req = v.req /\ w.shut = v.shut /\ w.wrote = v.wrote
  BY <1>1, <1>2, <1>3, <1>6, <1>8, <1>11
<1>14. Talk(w) BY <1>3, <1>11, <1>13, TalkInfo
<1> QED BY <1>9, <1>10, <1>12, <1>14

LEMMA ChunkUnmixed ==
  ASSUME TypeInv, UnmixedInv, ~crashed, NEW t \in 1..s1, recvChunk(t), UNCHANGED owner
  PROVE  ThreadActs(t) /\ ThreadKeeps(t) /\ Talk(View(t))'
<1>1. /\ UNCHANGED <<script, sock, left, got, told, down, shut, gone, s1, owner, conn, pc,
                     request, deleted>>
      /\ pc[t] = "chunks"
  BY DEF recvChunk, clients, disk
<1> DEFINE v == View(t)
           w == View(t)'
<1>2. /\ Talk(v) /\ v.up = up[t] /\ v.down = down[t] /\ v.pc = pc[t]
      /\ v.req = request[t] /\ v.shut = (t \in shut) /\ v.fsize = fsize[t] /\ v.wrote = written[t]
      /\ conn[t] = t /\ t \notin gone /\ t \in 1..Len(up)
  BY <1>1, ThreadBefore DEF Answered
<1>3. t \notin shut BY <1>1, <1>2, TalkOpen DEF Answered
<1>4. PICK part \in Parts(up[t], fsize[t]) :
        /\ up' = [up EXCEPT ![t] = After(up[t], part)]
        /\ written' = [written EXCEPT ![t] = written[t] \o part]
        /\ fsize' = [fsize EXCEPT ![t] = fsize[t] - Len(part)]
  <2>1. OwnFile(t) BY <1>1 DEF UnmixedInv, FilesOwn
  <2> QED BY <1>2, <1>3, <2>1 DEF recvChunk, fwrite
<1> DEFINE x == After(up[t], part)
           y == written[t] \o part
           z == fsize[t] - Len(part)
           S == Seq(Cell)
<1>5. x \in S
  <2>1. up[t] \in Seq(Cell) BY <1>2, Before, ElementOfSeq
  <2>2. fsize[t] \in Nat
    <3>1. Size \in Nat BY CellsTyped
    <3>2. 0..Size \subseteq Nat BY <3>1
    <3> QED BY <3>2, Before
  <2> QED BY <2>1, <2>2, PartsTyped
<1>6. up \in Seq(S) /\ up' = [up EXCEPT ![t] = x] BY <1>4, Before
<1>7. written' = [written EXCEPT ![t] = y] /\ fsize' = [fsize EXCEPT ![t] = z] BY <1>4
<1>8. x = After(v.up, part) /\ y = v.wrote \o part /\ z = v.fsize - Len(part)
      /\ part \in Parts(v.up, v.fsize)
  BY <1>2, <1>4
<1> HIDE DEF x, y, z, S
<1>9. Len(up') = Len(up) /\ up'[t] = x /\ \A k \in 1..Len(up) : k # t => up'[k] = up[k]
  BY <1>2, <1>5, <1>6, ElementSet
<1>10. /\ written'[t] = y /\ fsize'[t] = z
       /\ \A k \in 1..s1 : k # t => written'[k] = written[k] /\ fsize'[k] = fsize[k]
  BY <1>7, Before
<1>11. ThreadActs(t) BY <1>1, <1>9, <1>10 DEF ThreadActs
<1>12. ThreadKeeps(t) BY <1>1, <1>2 DEF ThreadKeeps, Waiting
<1>13. /\ ThreadOf(v, w) /\ w.up = up'[t] /\ w.down = down[t] /\ w.pc = pc[t] /\ w.fsize = fsize'[t]
       /\ w.req = request[t] /\ w.shut = (t \in shut) /\ w.wrote = written'[t]
  BY <1>1, <1>11, ThreadView
<1>14. Talk(w) => Talk(View(t))' OBVIOUS
<1> HIDE DEF v, w
<1>15. /\ v.pc = "chunks" /\ w.up = After(v.up, part)
       /\ w.wrote = v.wrote \o part /\ w.fsize = v.fsize - Len(part)
       /\ w.pc = v.pc /\ w.down = v.down /\ w.req = v.req /\ w.shut = v.shut
  BY <1>1, <1>2, <1>8, <1>9, <1>10, <1>13
<1>16. Talk(w) BY <1>2, <1>8, <1>13, <1>15, TalkChunk
<1> QED BY <1>11, <1>12, <1>14, <1>16

LEMMA GetFileUnmixed ==
  ASSUME TypeInv, UnmixedInv, ~crashed, NEW t \in 1..s1, GetFileFromClient(t), UNCHANGED owner
  PROVE  ThreadActs(t) /\ ThreadKeeps(t) /\ Talk(View(t))'
<1>1. /\ UNCHANGED <<script, sock, left, got, told, up, down, gone, s1, owner, conn, fsize, written,
                     request, deleted>>
      /\ pc[t] = "chunks" /\ fsize[t] = 0 /\ Goto(t, "DELETE") /\ closesocket(t)
  BY DEF GetFileFromClient, clients, disk
<1>2. pc'[t] = "DELETE" /\ \A k \in 1..s1 : k # t => pc'[k] = pc[k] BY <1>1, GoesTo
<1> DEFINE v == View(t)
           w == View(t)'
<1>3. /\ Talk(v) /\ v.up = up[t] /\ v.down = down[t] /\ v.pc = pc[t]
      /\ v.req = request[t] /\ v.fsize = fsize[t] /\ v.wrote = written[t]
      /\ conn[t] = t /\ t \notin gone
  BY <1>1, ThreadBefore DEF Answered
<1>4. t \in shut' /\ \A k : k # t => (k \in shut' <=> k \in shut) BY <1>1, <1>3, ClosesOwn
<1>5. ThreadActs(t) BY <1>1, <1>2, <1>4 DEF ThreadActs
<1>6. ThreadKeeps(t) BY <1>1, <1>2, <1>3 DEF ThreadKeeps, Waiting
<1>7. /\ ThreadOf(v, w) /\ w.up = up[t] /\ w.down = down[t] /\ w.pc = pc'[t]
      /\ w.req = request[t] /\ w.shut = (t \in shut') /\ w.wrote = written[t]
  BY <1>1, <1>5, ThreadView
<1>8. Talk(w) => Talk(View(t))' OBVIOUS
<1> HIDE DEF v, w
<1>9. /\ v.pc = "chunks" /\ v.fsize = 0 /\ w.pc = "DELETE" /\ w.shut
      /\ w.up = v.up /\ w.down = v.down /\ w.req = v.req /\ w.wrote = v.wrote
  BY <1>1, <1>2, <1>3, <1>4, <1>7
<1>10. Talk(w) BY <1>3, <1>7, <1>9, TalkTaken
<1> QED BY <1>5, <1>6, <1>8, <1>10

\* DeleteServerFiles: "ok" is sent by the thread that has removed the file.
LEMMA DelnameUnmixed ==
  ASSUME TypeInv, UnmixedInv, ~crashed, NEW t \in 1..s1, delname(t), UNCHANGED owner
  PROVE  ThreadActs(t) /\ ThreadKeeps(t) /\ Talk(View(t))'
<1>1. /\ UNCHANGED <<script, sock, left, got, told, gone, s1, owner, conn, fsize, written, request,
                     deleted>>
      /\ pc[t] = "delname"
  BY DEF delname, clients, disk
<1> DEFINE v == View(t)
           w == View(t)'
<1>2. /\ Talk(v) /\ v.up = up[t] /\ v.down = down[t] /\ v.pc = pc[t]
      /\ v.req = request[t] /\ v.shut = (t \in shut) /\ v.wrote = written[t]
      /\ conn[t] = t /\ t \notin gone
  BY <1>1, ThreadBefore DEF Answered
<1>3. t \notin shut BY <1>1, <1>2, TalkOpen DEF Answered
<1>4. PICK kind \in RecordKind :
        /\ Recv(t, kind)
        /\ \/ Goto(t, "remove") /\ UNCHANGED <<down, shut>>
           \/ Send(t, One("#")) /\ Goto(t, "end") /\ closesocket(t)
  BY <1>2 DEF delname, One
<1>5. /\ up[t] # <<>> /\ Len(up') = Len(up) /\ up'[t] = Tail(up[t])
      /\ \A k \in 1..Len(up) : k # t => up'[k] = up[k]
  BY <1>2, <1>3, <1>4, ReceivesOwn
<1>6. /\ \/ down'[t] = down[t] /\ pc'[t] = "remove" /\ (t \in shut') = (t \in shut)
         \/ down'[t] = down[t] \o One("#") /\ pc'[t] = "end" /\ t \in shut'
      /\ \A k \in 1..Len(up) : k # t => down'[k] = down[k] /\ (k \in shut' <=> k \in shut)
      /\ \A k \in 1..s1 : k # t => pc'[k] = pc[k]
  <2>1. One("#") \in Seq(Cell) BY CellsTyped DEF One
  <2>2. CASE Goto(t, "remove") /\ UNCHANGED <<down, shut>> BY <2>2, GoesTo
  <2>3. CASE Send(t, One("#")) /\ Goto(t, "end") /\ closesocket(t)
    BY <1>2, <1>3, <2>1, <2>3, SendsOwn, GoesTo, ClosesOwn
  <2> QED BY <1>4, <2>2, <2>3
<1>7. ThreadActs(t) BY <1>1, <1>5, <1>6 DEF ThreadActs
<1>8. ThreadKeeps(t) BY <1>1, <1>2, <1>6 DEF ThreadKeeps, Waiting
<1>9. /\ ThreadOf(v, w) /\ w.up = up'[t] /\ w.down = down'[t] /\ w.pc = pc'[t]
      /\ w.req = request[t] /\ w.shut = (t \in shut') /\ w.wrote = written[t]
  BY <1>1, <1>7, ThreadView
<1>10. Talk(w) => Talk(View(t))' OBVIOUS
<1> HIDE DEF v, w
<1>11. /\ v.pc = "delname" /\ v.up # <<>> /\ w.up = Tail(v.up)
       /\ w.req = v.req /\ w.wrote = v.wrote
  BY <1>1, <1>2, <1>5, <1>9
<1>12. \/ w.pc = "remove" /\ w.down = v.down /\ w.shut = v.shut
       \/ w.pc = "end" /\ w.down = v.down \o One("#") /\ w.shut
  BY <1>2, <1>6, <1>9
<1>13. Talk(w) BY <1>2, <1>9, <1>11, <1>12, TalkDelete
<1> QED BY <1>7, <1>8, <1>10, <1>13

LEMMA DeleteUnmixed ==
  ASSUME TypeInv, UnmixedInv, ~crashed, NEW t \in 1..s1, DeleteServerFiles(t), UNCHANGED owner
  PROVE  ThreadActs(t) /\ ThreadKeeps(t) /\ Talk(View(t))'
<1>1. /\ UNCHANGED <<script, sock, left, got, told, up, gone, s1, owner, conn, fsize, written, request>>
      /\ pc[t] = "remove"
      /\ \/ deleted' = TRUE /\ Send(conn[t], One("ok")) /\ closesocket(t) /\ Goto(t, "end")
         \/ Goto(t, "kept") /\ UNCHANGED <<deleted, down, shut>>
  BY DEF DeleteServerFiles, clients, disk, One
<1> DEFINE v == View(t)
           w == View(t)'
<1>2. /\ Talk(v) /\ v.up = up[t] /\ v.down = down[t] /\ v.pc = pc[t]
      /\ v.req = request[t] /\ v.shut = (t \in shut)
      /\ v.fsize = fsize[t] /\ v.wrote = written[t] /\ v.removed = deleted
      /\ conn[t] = t /\ t \notin gone
  BY <1>1, ThreadBefore DEF Answered
<1>3. t \notin shut BY <1>1, <1>2, TalkOpen DEF Answered
<1>4. /\ \/ /\ down'[t] = down[t] \o One("ok") /\ pc'[t] = "end" /\ t \in shut'
            /\ deleted' = TRUE
         \/ /\ down'[t] = down[t] /\ pc'[t] = "kept" /\ (t \in shut') = (t \in shut)
            /\ deleted' = deleted
      /\ \A k \in 1..Len(up) : k # t => down'[k] = down[k] /\ (k \in shut' <=> k \in shut)
      /\ \A k \in 1..s1 : k # t => pc'[k] = pc[k]
  <2>1. One("ok") \in Seq(Cell) BY CellsTyped DEF One
  <2>2. CASE Goto(t, "kept") /\ UNCHANGED <<deleted, down, shut>> BY <2>2, GoesTo
  <2>3. CASE deleted' = TRUE /\ Send(conn[t], One("ok")) /\ closesocket(t) /\ Goto(t, "end")
    <3>1. down'[t] = down[t] \o One("ok") /\ \A k \in 1..Len(up) : k # t => down'[k] = down[k]
      BY <1>2, <1>3, <2>1, <2>3, SendsOwn
    <3>2. pc'[t] = "end" /\ \A k \in 1..s1 : k # t => pc'[k] = pc[k] BY <2>3, GoesTo
    <3>3. t \in shut' /\ \A k : k # t => (k \in shut' <=> k \in shut) BY <1>2, <2>3, ClosesOwn
    <3> QED BY <2>3, <3>1, <3>2, <3>3
  <2> QED BY <1>1, <2>2, <2>3
<1>5. deleted => deleted' BY <1>4
<1>6. ThreadActs(t) BY <1>1, <1>4, <1>5 DEF ThreadActs
<1>7. ThreadKeeps(t) BY <1>1, <1>2, <1>4 DEF ThreadKeeps, Waiting
<1>8. /\ ThreadOf(v, w) /\ w.up = up[t] /\ w.down = down'[t] /\ w.pc = pc'[t]
      /\ w.req = request[t] /\ w.shut = (t \in shut')
      /\ w.fsize = fsize[t] /\ w.wrote = written[t] /\ w.removed = deleted'
  BY <1>1, <1>6, ThreadView
<1>9. Talk(w) => Talk(View(t))' OBVIOUS
<1> HIDE DEF v, w
<1>10. /\ v.pc = "remove" /\ w.up = v.up /\ w.req = v.req
       /\ w.fsize = v.fsize /\ w.wrote = v.wrote
  BY <1>1, <1>2, <1>8
<1>11. \/ w.pc = "end" /\ w.down = v.down \o One("ok") /\ w.shut /\ w.removed
       \/ w.pc = "kept" /\ w.down = v.down /\ w.shut = v.shut /\ w.removed = v.removed
  BY <1>2, <1>4, <1>8
<1>12. CASE w.pc = "end" /\ w.down = v.down \o One("ok") /\ w.shut /\ w.removed
  <2>1. Talk(w) BY <1>2, <1>8, <1>10, <1>12, TalkDelete
  <2> QED BY <1>6, <1>7, <1>9, <2>1
<1>13. CASE w.pc = "kept" /\ w.down = v.down /\ w.shut = v.shut /\ w.removed = v.removed
  <2>1. Talk(w) BY <1>2, <1>8, <1>10, <1>13, TalkGoesOn
  <2> QED BY <1>6, <1>7, <1>9, <2>1
<1> QED BY <1>11, <1>12, <1>13

-------------------------------------------------------------------------------
(* The FILEs: a thread is given one that no other uses, and closes its own *)
(* or, in the extra round, one that nobody uses.                           *)
Reading == {"sending", "chunks"}

LEMMA FilesStay ==
  ASSUME FilesOwn, UNCHANGED <<open, fp, s1>>, \A k \in 1..s1 : pc'[k] \in Reading => pc[k] \in Reading
  PROVE  FilesOwn'
BY DEF FilesOwn, OwnFile, Reading

LEMMA FilesOpened ==
  ASSUME TypeInv, FilesOwn, UNCHANGED s1, NEW t \in 1..s1, OpenFile(t),
         \A k \in 1..s1 : k # t => pc'[k] = pc[k]
  PROVE  FilesOwn'
<1>1. PICK n \in 1..s1 \ open : open' = open \cup {n} /\ fp' = [fp EXCEPT ![t] = n] BY DEF OpenFile
<1>2. fp'[t] = n /\ \A k \in 1..s1 : k # t => fp'[k] = fp[k]
  <2>1. s1 \in Nat /\ Len(up) \in Nat /\ s1 <= Len(up) BY Lengths
  <2>2. Len(up) <= MaxConns /\ MaxConns \in Nat BY TcpServerAssumption DEF TypeInv, StreamTypes
  <2>3. 1..s1 \subseteq 1..MaxConns BY <2>1, <2>2
  <2> QED BY <1>1, <2>3, Before
<1>3. ASSUME NEW k \in 1..s1, k # t, pc'[k] \in Reading
      PROVE  fp'[k] = fp[k] /\ fp[k] \in open /\ fp[k] # n
  BY <1>1, <1>2, <1>3 DEF FilesOwn, OwnFile, Reading
<1>4. ASSUME NEW k \in 1..s1, pc'[k] \in Reading PROVE OwnFile(k)'
  <2>1. CASE k = t BY <1>1, <1>2, <1>3, <2>1 DEF OwnFile, Reading
  <2>2. CASE k # t
    <3>1. fp'[k] = fp[k] /\ fp[k] \in open' /\ fp[k] # n BY <1>1, <1>3, <1>4, <2>2
    <3>2. ASSUME NEW u \in 1..s1, u # k, pc'[u] \in Reading PROVE fp'[u] # fp'[k]
      <4>1. CASE u = t BY <1>2, <3>1, <4>1
      <4>2. CASE u # t
        <5>1. pc[u] \in Reading /\ pc[k] \in Reading BY <1>4, <2>2, <3>2, <4>2
        <5>2. fp[u] # fp[k] BY <3>2, <5>1 DEF FilesOwn, OwnFile, Reading
        <5> QED BY <1>2, <2>2, <4>2, <5>2
      <4> QED BY <4>1, <4>2
    <3> QED BY <3>1, <3>2 DEF OwnFile, Reading
  <2> QED BY <2>1, <2>2
<1> QED BY <1>4 DEF FilesOwn, Reading

LEMMA FilesClosed ==
  ASSUME FilesOwn, UNCHANGED s1, NEW t \in 1..s1, fclose(t), pc[t] \in Reading, pc'[t] \notin Reading,
         \A k \in 1..s1 : k # t => pc'[k] = pc[k]
  PROVE  FilesOwn'
<1>1. open' = open \ {fp[t]} /\ fp' = fp BY DEF fclose
<1>2. ASSUME NEW k \in 1..s1, pc'[k] \in Reading PROVE OwnFile(k)'
  <2>1. k # t /\ pc[k] \in Reading BY <1>2
  <2>2. OwnFile(k) BY <2>1 DEF FilesOwn, Reading
  <2>3. fp[k] \in open /\ fp[k] # fp[t] BY <2>1, <2>2 DEF OwnFile, Reading
  <2>4. \A u \in 1..s1 : pc'[u] \in Reading => pc[u] \in Reading OBVIOUS
  <2> QED BY <1>1, <2>2, <2>3, <2>4 DEF OwnFile, Reading
<1> QED BY <1>2 DEF FilesOwn, Reading

LEMMA ThreadFilesOwn ==
  ASSUME TypeInv, UnmixedInv, ~crashed, ~crashed', ~mixed', NEW t \in 1..s1, ThreadStep(t)
  PROVE  FilesOwn'
<1>1. FilesOwn BY DEF UnmixedInv
<1>2. UNCHANGED s1
  BY DEF ThreadStep, memset, call, recvRequest, otherCommand, listFiles, command, getname, fopen,
         PutFileToClient, closeAgain, putinfo, recvChunk, GetFileFromClient, delname, DeleteServerFiles
<1>3. ASSUME UNCHANGED <<open, fp>>, NEW label, Goto(t, label), label \notin Reading PROVE FilesOwn'
  <2>1. \A k \in 1..s1 : pc'[k] \in Reading => pc[k] \in Reading BY <1>3, GoesTo
  <2> QED BY <1>1, <1>2, <1>3, <2>1, FilesStay
<1>4. CASE memset(t) BY <1>3, <1>4 DEF memset, disk, Reading
<1>5. CASE call(t)
  <2>1. pc[t] \in DOMAIN Callee /\ Goto(t, Callee[pc[t]]) /\ UNCHANGED <<open, fp>>
    BY <1>5 DEF call, disk
  <2>2. Callee[pc[t]] \notin Reading BY <2>1 DEF Callee, Reading
  <2> QED BY <1>3, <2>1, <2>2
<1>6. CASE recvRequest(t) BY <1>3, <1>6 DEF recvRequest, disk, Reading
<1>7. CASE otherCommand(t)
  <2>1. pc[t] \in Choice /\ Goto(t, NextTest[pc[t]]) /\ UNCHANGED <<open, fp>>
    BY <1>7 DEF otherCommand, disk
  <2>2. NextTest[pc[t]] \notin Reading BY <2>1 DEF NextTest, Choice, Reading
  <2> QED BY <1>3, <2>1, <2>2
<1>8. CASE listFiles(t) BY <1>3, <1>8 DEF listFiles, disk, Reading
<1>9. CASE command(t)
  <2>1. pc[t] \in DOMAIN Handler /\ Goto(t, Handler[pc[t]]) /\ UNCHANGED <<open, fp>>
    BY <1>9 DEF command, disk
  <2>2. Handler[pc[t]] \notin Reading BY <2>1 DEF Handler, Reading
  <2> QED BY <1>3, <2>1, <2>2
<1>10. CASE getname(t)
  <2>1. (Goto(t, "fopen") \/ Goto(t, "PUT")) /\ UNCHANGED <<open, fp>> BY <1>10 DEF getname, disk
  <2> QED BY <1>3, <2>1 DEF Reading
<1>11. CASE fopen(t)
  <2>1. OpenFile(t) /\ Goto(t, "sending") BY <1>11 DEF fopen
  <2> QED BY <1>1, <1>2, <2>1, GoesTo, FilesOpened
<1>12. CASE PutFileToClient(t)
  <2>1. /\ fclose(t) /\ pc[t] = "sending"
        /\ Goto(t, "again") \/ Goto(t, "PUT")
    BY <1>12 DEF PutFileToClient
  <2>2. pc'[t] \notin Reading /\ \A k \in 1..s1 : k # t => pc'[k] = pc[k] BY <2>1, GoesTo DEF Reading
  <2>3. pc[t] \in Reading BY <2>1 DEF Reading
  <2> QED BY <1>1, <1>2, <2>1, <2>2, <2>3, FilesClosed
<1>13. CASE closeAgain(t)
  <2>1. fp[t] \notin open /\ fclose(t) /\ Goto(t, "PUT") BY <1>13 DEF closeAgain
  <2>2. UNCHANGED <<open, fp>> BY <2>1 DEF fclose
  <2> QED BY <1>3, <2>1, <2>2 DEF Reading
<1>14. CASE putinfo(t)
  <2>1. OpenFile(t) /\ Goto(t, "chunks") BY <1>14 DEF putinfo
  <2> QED BY <1>1, <1>2, <2>1, GoesTo, FilesOpened
<1>15. CASE recvChunk(t)
  <2>1. UNCHANGED <<open, fp, pc>> BY <1>15 DEF recvChunk, disk
  <2> QED BY <1>1, <1>2, <2>1, FilesStay
<1>16. CASE GetFileFromClient(t)
  <2>1. fclose(t) /\ pc[t] = "chunks" /\ Goto(t, "DELETE") BY <1>16 DEF GetFileFromClient
  <2>2. pc'[t] \notin Reading /\ \A k \in 1..s1 : k # t => pc'[k] = pc[k] BY <2>1, GoesTo DEF Reading
  <2>3. pc[t] \in Reading BY <2>1 DEF Reading
  <2> QED BY <1>1, <1>2, <2>1, <2>2, <2>3, FilesClosed
<1>17. CASE delname(t)
  <2>1. (Goto(t, "remove") \/ Goto(t, "end")) /\ UNCHANGED <<open, fp>> BY <1>17 DEF delname, disk
  <2> QED BY <1>3, <2>1 DEF Reading
<1>18. CASE DeleteServerFiles(t)
  <2>1. (Goto(t, "end") \/ Goto(t, "kept")) /\ UNCHANGED <<open, fp>> BY <1>18 DEF DeleteServerFiles
  <2> QED BY <1>3, <2>1 DEF Reading
<1> QED BY <1>4, <1>5, <1>6, <1>7, <1>8, <1>9, <1>10, <1>11, <1>12, <1>13, <1>14, <1>15, <1>16, <1>17,
           <1>18 DEF ThreadStep

-------------------------------------------------------------------------------
\* The invariant.
LEMMA InitInv == Init => IInv
<1> SUFFICES ASSUME Init PROVE IInv
  OBVIOUS
<1>1. TypeInv BY InitTypes
<1>2. /\ script = [c \in Client |-> <<>>] /\ sock = [c \in Client |-> 0]
      /\ got = [c \in Client |-> <<>>] /\ told = [c \in Client |-> "nothing"]
      /\ up = <<>> /\ shut = {} /\ gone = {} /\ s1 = 0
  BY DEF Init
<1>3. InCalls /\ OwnSock BY <1>2 DEF InCalls, OwnSock, Scripts, AfterList
<1>4. 1..s1 = {} /\ 1..Len(up) = {} /\ 1..(Len(up) - 1) = {} BY <1>2
<1>5. OwnConnection /\ ThreadFiles BY <1>4 DEF OwnConnection, ThreadFiles
<1>6. ClientFiles
  <2>1. ASSUME NEW c \in Client PROVE script[c] = <<>> /\ got[c] = <<>> BY <1>2
  <2>2. <<>> \notin {GetAt, GetEcho, GetName, GetResponse, GetChunks} BY GetCalls
  <2> QED BY <2>1, <2>2 DEF ClientFiles, FilesOf
<1>7. AloneAnswered BY <1>4 DEF AloneAnswered
<1>8. Talks /\ GoneAfterList BY <1>2, <1>4 DEF Talks, GoneAfterList
<1>9. ToldTruly BY <1>2 DEF ToldTruly
<1>10. FilesOwn BY <1>4 DEF FilesOwn
<1> QED BY <1>1, <1>3, <1>5, <1>6, <1>7, <1>8, <1>9, <1>10 DEF IInv, UnmixedInv

\* Once mixed, a behaviour stays so.
LEMMA StaysMixed == TypeInv /\ [Next]_vars /\ ~mixed' => ~mixed
<1> SUFFICES ASSUME TypeInv, [Next]_vars, ~mixed' PROVE ~mixed
  OBVIOUS
<1>1. CASE UNCHANGED vars BY <1>1 DEF vars
<1>2. ASSUME NEW c \in Client, ClientStep(c) PROVE ~mixed
  BY <1>2 DEF ClientStep, Choose, connectServer, closeconnect, ClientSend, ClientRecv
<1>3. CASE accept BY <1>3 DEF accept
<1>4. ASSUME NEW t \in 1..s1, ThreadStep(t) PROVE ~mixed
  BY <1>4 DEF ThreadStep, memset, call, recvRequest, otherCommand, listFiles, command, getname,
              fopen, PutFileToClient, closeAgain, putinfo, recvChunk, GetFileFromClient, delname,
              DeleteServerFiles
<1> QED BY <1>1, <1>2, <1>3, <1>4 DEF Next

LEMMA ThreadStepUnmixed ==
  ASSUME TypeInv, TypeInv', OwnSock, UnmixedInv, ~mixed', NEW t \in 1..s1, ThreadStep(t)
  PROVE  UnmixedInv'
<1>1. ~crashed /\ UNCHANGED owner BY DEF ThreadStep
<1>2. ThreadActs(t) /\ ThreadKeeps(t) /\ Talk(View(t))'
  <2>1. CASE memset(t) \/ call(t) BY <1>1, <2>1, CallUnmixed
  <2>2. CASE recvRequest(t) BY <1>1, <2>2, RequestUnmixed
  <2>3. CASE otherCommand(t) BY <1>1, <2>3, OtherUnmixed
  <2>4. CASE listFiles(t) BY <1>1, <2>4, ListUnmixed
  <2>5. CASE command(t) BY <1>1, <2>5, CommandUnmixed
  <2>6. CASE getname(t) BY <1>1, <2>6, GetnameUnmixed
  <2>7. CASE fopen(t) BY <1>1, <2>7, FopenUnmixed
  <2>8. CASE PutFileToClient(t) BY <1>1, <2>8, PutFileUnmixed
  <2>9. CASE putinfo(t) BY <1>1, <2>9, PutinfoUnmixed
  <2>10. CASE recvChunk(t) BY <1>1, <2>10, ChunkUnmixed
  <2>11. CASE GetFileFromClient(t) BY <1>1, <2>11, GetFileUnmixed
  <2>12. CASE delname(t) BY <1>1, <2>12, DelnameUnmixed
  <2>13. CASE DeleteServerFiles(t) BY <1>1, <2>13, DeleteUnmixed
  <2>14. CASE closeAgain(t) BY <1>1, <2>14, CloseAgainUnmixed
  <2> QED BY <2>1, <2>2, <2>3, <2>4, <2>5, <2>6, <2>7, <2>8, <2>9, <2>10, <2>11, <2>12, <2>13, <2>14
          DEF ThreadStep
<1>3. ~crashed' => FilesOwn' BY <1>1, ThreadFilesOwn
<1> QED BY <1>1, <1>2, <1>3, ThreadUnmixed

LEMMA NextInv == IInv /\ [Next]_vars => IInv'
<1> SUFFICES ASSUME IInv, [Next]_vars PROVE IInv'
  OBVIOUS
<1>1. TypeInv /\ InCalls /\ OwnSock BY DEF IInv
<1>2. TypeInv' BY <1>1, NextTypes
<1>3. InCalls' /\ OwnSock' BY <1>1, NextCalls
<1>4. ASSUME ~mixed' PROVE UnmixedInv'
  <2>1. UnmixedInv BY <1>1, <1>4, StaysMixed DEF IInv
  <2>2. CASE UNCHANGED vars
    <3>1. UNCHANGED <<script, sock, left, got, told, up, down, shut, gone, s1, pc, conn, fsize, written,
                      deleted, open, fp, crashed, owner, request>>
      BY <2>2 DEF vars, clients, streams, threads, disk
    <3>2. \A k : View(k)' = View(k) BY <3>1 DEF View, Served
    <3>3. Talks => Talks' BY <3>1, <3>2 DEF Talks
    <3>4. GoneAfterList => GoneAfterList' BY <3>1 DEF GoneAfterList
    <3>5. ToldTruly => ToldTruly' BY <3>1 DEF ToldTruly
    <3>6. OwnConnection => OwnConnection' BY <3>1 DEF OwnConnection
    <3>7. ThreadFiles => ThreadFiles' BY <3>1 DEF ThreadFiles
    <3>8. ClientFiles => ClientFiles' BY <3>1 DEF ClientFiles, FilesOf
    <3>9. AloneAnswered => AloneAnswered' BY <3>1 DEF AloneAnswered, Alone
    <3>10. FilesOwn => FilesOwn' BY <3>1 DEF FilesOwn, OwnFile
    <3> QED BY <2>1, <3>1, <3>3, <3>4, <3>5, <3>6, <3>7, <3>8, <3>9, <3>10 DEF UnmixedInv
  <2>3. ASSUME NEW c \in Client, ClientStep(c) PROVE UnmixedInv' BY <1>1, <2>1, <2>3, ClientUnmixed
  <2>4. CASE accept BY <1>1, <2>1, <2>4, AcceptUnmixed
  <2>5. ASSUME NEW t \in 1..s1, ThreadStep(t) PROVE UnmixedInv'
    BY <1>1, <1>2, <1>4, <2>1, <2>5, ThreadStepUnmixed
  <2> QED BY <2>2, <2>3, <2>4, <2>5 DEF Next
<1> QED BY <1>2, <1>3, <1>4 DEF IInv

(* In every reachable state in which no thread was misled, each connection *)
(* of Build 1 is in one of the situations of Talk: what the client still   *)
(* calls, what is in the two streams and where TcpThread::run is fit       *)
(* together.                                                               *)
THEOREM TcpServerInvariant == Spec => []IInv
<1>1. Init => IInv BY InitInv
<1>2. IInv /\ [Next]_vars => IInv' BY NextInv
<1> QED BY <1>1, <1>2, PTL DEF Spec

LEMMA FirstIsPrefix ==
  ASSUME NEW n \in 0..Size
  PROVE  IsPrefixOfFile(First(n))
<1>1. Len(First(n)) = n BY FileParts
<1>2. n <= Size
  <2>1. Size \in Nat BY CellsTyped
  <2> QED BY <2>1
<1> QED BY <1>1, <1>2 DEF IsPrefixOfFile, First

(* A file arrives as it was sent, however recv cuts the stream, and        *)
(* neither receiving loop (TcpClient::GetFileFromServer,                   *)
(* TcpThread::GetFileFromClient) takes it for complete before: for every   *)
(* size of the file and of the buffer, also when the server's process ends *)
(* in between.                                                             *)
THEOREM TcpFilesArriveWhole == Spec => []FilesArriveWhole
<1>1. IInv => FilesArriveWhole
  <2> SUFFICES ASSUME IInv, ~mixed
               PROVE  /\ \A t \in 1..s1 : /\ IsPrefixOfFile(written[t])
                                          /\ request[t] = "PUT" /\ t \in shut => written[t] = File
                      /\ \A c \in Client : /\ IsPrefixOfFile(got[c])
                                           /\ got[c] # <<>> /\ script[c] = <<>> => got[c] = File
    BY DEF FilesArriveWhole
  <2>1. TypeInv /\ ThreadFiles /\ ClientFiles BY DEF IInv, UnmixedInv
  <2>2. ASSUME NEW t \in 1..s1
        PROVE  IsPrefixOfFile(written[t]) /\ (request[t] = "PUT" /\ t \in shut => written[t] = File)
    BY <2>1, FirstIsPrefix DEF ThreadFiles
  <2>3. ASSUME NEW c \in Client
        PROVE  IsPrefixOfFile(got[c]) /\ (got[c] # <<>> /\ script[c] = <<>> => got[c] = File)
    <3>1. FilesOf(c) BY <2>1 DEF ClientFiles
    <3>2. Size \in Nat /\ 0 \in 0..Size /\ Size \in 0..Size
      <4>1. Size \in Nat BY CellsTyped
      <4> QED BY <4>1
    <3>3. CASE script[c] = GetChunks
      <4>1. left[c] \in 0..Size BY <2>1 DEF TypeInv, ClientTypes
      <4>2. Size - left[c] \in 0..Size BY <4>1, FileParts
      <4>3. got[c] = First(Size - left[c]) BY <3>1, <3>3 DEF FilesOf
      <4>4. script[c] # <<>> BY <3>3, GetCalls
      <4> QED BY <4>2, <4>3, <4>4, FirstIsPrefix
    <3>4. CASE script[c] # GetChunks
      <4>1. got[c] = <<>> \/ got[c] = File BY <3>1, <3>4 DEF FilesOf
      <4>2. <<>> = First(0) /\ File = First(Size) BY FileEnds
      <4> QED BY <3>2, <4>1, <4>2, FirstIsPrefix
    <3> QED BY <3>3, <3>4
  <2> QED BY <2>2, <2>3
<1> QED BY <1>1, TcpServerInvariant, PTL

(* The client says that the file is deleted (TcpClient::deleteServerFiles) *)
(* only if DeleteServerFiles has removed it, as long as the server's       *)
(* process lives and no thread was misled.                                 *)
THEOREM TcpToldDeleted == Spec => []ToldDeletedIsDeleted
<1>1. IInv => ToldDeletedIsDeleted BY DEF IInv, UnmixedInv, ToldTruly, ToldDeletedIsDeleted
<1> QED BY <1>1, TcpServerInvariant, PTL

(* A single client makes its next connection only after an answer on the   *)
(* one before: when a thread reads s1 for its recv, s1 is its own          *)
(* connection, though the accept loop writes s1 without a lock.            *)
THEOREM TcpAloneReads == Spec => []AloneReadsItsRequest
<1>1. IInv => AloneReadsItsRequest
  <2> SUFFICES ASSUME IInv, Alone, ~mixed, NEW t \in 1..s1, pc[t] \in {"memset", "call"}
               PROVE  s1 = t
    BY DEF AloneReadsItsRequest
  <2> DEFINE n == Len(up)
  <2>1. TypeInv BY DEF IInv
  <2>2. s1 \in Nat /\ n \in Nat /\ s1 <= n BY <2>1, Lengths
  <2>3. \A k \in 1..(n - 1) : pc[k] \notin {"memset", "call", "recv"}
    BY DEF IInv, UnmixedInv, AloneAnswered
  <2>4. t \notin 1..(n - 1) BY <2>3
  <2> HIDE DEF n
  <2> QED BY <2>2, <2>4
<1> QED BY <1>1, TcpServerInvariant, PTL
===============================================================================
