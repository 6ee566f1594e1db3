--------------------------- MODULE SockSessionProofs ---------------------------
(***************************************************************************)
(* The sessions of sample-3, proved for every scenario, every numbers rand *)
(* may give, every file and every count of rounds and of faults: the       *)
(* types, and that a client that has gone on from its handshake has shaken *)
(* hands with this server, however many clients were there before it and   *)
(* whatever became of their datagrams.                                     *)
(*                                                                         *)
(* The second rests on the server's number for the client, hsData, being   *)
(* written once: all the answers there ever are repeat it, and no other    *)
(* datagram can be taken for an answer.                                    *)
(***************************************************************************)
EXTENDS SockSession, FiniteSetTheorems, SequenceTheorems, TLAPS

\* What a side sends of its own, and what may be on its way.
Own        == {d \in Datagram : d.content.kind # "answer"}
Travelling == {d \in Datagram : d.content.kind = "answer" => d.content.n = hsData}

SendCall == [op : {"send"}, what : {"get", "put", "request", "ok", "error", "chunk"}, n : Nat]
RecvCall == [op : {"recv"}, what : {"header", "gets", "puts", "response", "chunk"}, n : Nat]
Call     == SendCall \cup RecvCall \cup {srv_wait4cnn}
Ended    == Calls("end", "", 0)

Counters ==
  /\ scenario \in Scenarios /\ typed \in Seq({"get", "put", "quit"})
  /\ numbers \in [Side -> Starts]
  /\ seq \in [Side -> 0..(M - 1)] /\ lastSeq \in [Side -> None..(M - 1)]
  /\ rounds \in [Side -> Nat] /\ \A p \in Side : rounds[p] \in 1..Linger[p]
  /\ asked \in Nat /\ served \in Nat
  /\ got \in Seq(Content)

\* Only the slots in use are sent; they were all written.
Windows ==
  /\ winBuf \in [Side -> [1..(Chunks + 2) -> Own \cup {NoPacket}]]
  /\ winBufPos \in [Side -> Nat]
  /\ \A p \in Side : /\ winBufPos[p] <= Sent
                     /\ \A k \in 1..winBufPos[p] : winBuf[p][k] # NoPacket
                     /\ winBufPos[p] > 0 => script[p] # <<>> /\ Head(script[p]).op = "send"

\* A handshake is a side's first call; the server's is its only one.
Scripts ==
  /\ script \in [Side -> Seq(Call \cup {handshake, Ended})]
  /\ \A p \in Side : script[p] # <<>> => Tail(script[p]) \in Seq(Call)
  /\ script["client"] # <<>> /\ Head(script["client"]) \in Call => shaken
  /\ IF hsData = None THEN script["server"] = <<handshake>> ELSE script["server"] \in Seq(Call)

Greeting ==
  /\ shaken \in BOOLEAN /\ hsData \in Nat \cup {None}
  /\ shaken => hsData = numbers["client"]

OnTheWay ==
  /\ outbox \in [Side -> Seq(Travelling)]
  /\ \A p \in Side : Incoming(p) \in Seq(Travelling) /\ Held(p) \in Travelling \cup {NoPacket}

IInv == Counters /\ Windows /\ Scripts /\ Greeting /\ OnTheWay

-------------------------------------------------------------------------------
\* Sequences and numbers.
LEMMA Constants ==
  /\ M \in Nat /\ M > 0 /\ Chunks \in Nat /\ Chunks > 0
  /\ Starts \subseteq Nat /\ MaxAsked \in Nat /\ Cap \in Nat
  /\ Linger \in [Side -> Nat \ {0}]
  /\ Scenarios \subseteq [typed : Seq({"get", "put", "quit"}), exists : BOOLEAN, extra : BOOLEAN,
                          wild : BOOLEAN, network : SUBSET {"lost", "ackLost", "delay"}, faults : Nat]
BY SockSessionAssumption

LEMMA Modulo ==
  ASSUME NEW a \in Int
  PROVE  a % M \in 0..(M - 1)
BY Constants

LEMMA Appended ==
  ASSUME NEW S, NEW q \in Seq(S), NEW d \in S
  PROVE  Append(q, d) \in Seq(S)
OBVIOUS

LEMMA TailOf ==
  ASSUME NEW S, NEW q \in Seq(S), q # <<>>
  PROVE  Head(q) \in S /\ Tail(q) \in Seq(S)
OBVIOUS

LEMMA OneOf ==
  ASSUME NEW S, NEW x \in S
  PROVE  <<x>> \in Seq(S) /\ <<x>> # <<>> /\ Head(<<x>>) = x /\ Tail(<<x>>) = <<>> /\ <<>> \in Seq(S)
OBVIOUS

LEMMA FunctionIsSeq ==
  ASSUME NEW n \in Nat, NEW S, NEW f \in [1..n -> S]
  PROVE  f \in Seq(S) /\ Len(f) = n
OBVIOUS

LEMMA FirstSlots ==
  ASSUME NEW n \in Nat, NEW X, NEW f \in [1..n -> X], NEW k \in 0..n, NEW S,
         \A i \in 1..k : f[i] \in S
  PROVE  SubSeq(f, 1, k) \in Seq(S)
<1>1. f \in Seq(X) /\ Len(f) = n BY FunctionIsSeq
<1> DEFINE g == SubSeq(f, 1, k)
<1>2. /\ g \in Seq(X) /\ Len(g) = k
      /\ \A i \in 1..k : g[i] = f[i]
  BY <1>1, SubSeqProperties
<1>3. g \in [1..k -> S]
  <2>1. g \in [1..k -> X] BY <1>2, LenProperties
  <2> QED BY <2>1, <1>2
<1> QED BY <1>3, FunctionIsSeq

LEMMA Sides ==
  /\ "client" \in Side /\ "server" \in Side /\ Side = {"client", "server"}
  /\ \A p \in Side : /\ Other(p) \in Side /\ Other(p) # p /\ Other(Other(p)) = p
                     /\ \A o \in Side : o = p \/ o = Other(p)
BY DEF Side, Other

\* What a side may send.
LEMMA OwnTravels == Own \subseteq Travelling /\ Travelling \subseteq Datagram
BY DEF Own, Travelling

LEMMA AckTyped ==
  ASSUME NEW t \in {"ACK", "NACK"}, NEW n \in Int
  PROVE  Ack(t, n) \in Own
BY Modulo DEF Ack, Own, Datagram, Content, Kind

LEMMA Asking == /\ Call \subseteq Call \cup {handshake, Ended}
                /\ handshake \notin Call /\ Ended \notin Call /\ handshake # Ended
BY DEF Call, SendCall, RecvCall, srv_wait4cnn, handshake, Ended, Calls

\* A side that sends, receives or lingers.
Busy(p) == script[p] # <<>> /\ Head(script[p]).op \in {"send", "recv", "linger"}

LEMMA BusyFacts ==
  ASSUME Scripts, Greeting, Counters, NEW p \in Side, Busy(p)
  PROVE  /\ script[p] \in Seq(Call) /\ Head(script[p]) \in Call
         /\ Tail(script[p]) \in Seq(Call)
         /\ Head(script[p]).op = "send" => Head(script[p]) \in SendCall
         /\ Head(script[p]).op = "recv" => Head(script[p]) \in RecvCall
         /\ hsData \in Nat
<1>1. script[p] \in Seq(Call \cup {handshake, Ended}) /\ script[p] # <<>>
      /\ Tail(script[p]) \in Seq(Call)
  BY DEF Scripts, Busy
<1>2. Head(script[p]) \in Call \cup {handshake, Ended} BY <1>1, TailOf
<1>3. Head(script[p]).op \in {"send", "recv", "linger"} BY DEF Busy
<1>4. handshake.op = "handshake" /\ Ended.op = "end" BY DEF handshake, Ended, Calls
<1>5. Head(script[p]) \in Call BY <1>2, <1>3, <1>4
<1>6. script[p] \in Seq(Call)
  <2>1. script[p] = <<Head(script[p])>> \o Tail(script[p]) BY <1>1, HeadTailProperties
  <2>2. <<Head(script[p])>> \in Seq(Call) BY <1>5, OneOf
  <2> QED BY <1>1, <2>1, <2>2, ConcatProperties
<1>7. /\ Head(script[p]).op = "send" => Head(script[p]) \in SendCall
      /\ Head(script[p]).op = "recv" => Head(script[p]) \in RecvCall
  <2>1. /\ \A c \in SendCall : c.op = "send"
        /\ \A c \in RecvCall : c.op = "recv"
        /\ srv_wait4cnn.op = "linger"
    BY DEF SendCall, RecvCall, srv_wait4cnn, Calls
  <2> QED BY <1>5, <2>1 DEF Call
<1>8. hsData \in Nat
  <2>1. CASE p = "client"
    <3>1. shaken BY <2>1, <1>1, <1>5 DEF Scripts
    <3>2. numbers["client"] \in Nat BY Constants, Sides DEF Counters
    <3> QED BY <3>1, <3>2 DEF Greeting
  <2>2. CASE p = "server"
    <3>1. ASSUME hsData = None PROVE FALSE
      <4>1. script["server"] = <<handshake>> BY <3>1 DEF Scripts
      <4>2. Head(script["server"]) = handshake BY <4>1
      <4> QED BY <4>2, <2>2, <1>5, Asking
    <3> QED BY <3>1 DEF Greeting
  <2> QED BY <2>1, <2>2, Sides
<1> QED BY <1>1, <1>5, <1>6, <1>7, <1>8

-------------------------------------------------------------------------------
\* The calls the programs make.
LEMMA SomeCalls ==
  /\ \A k \in {"get", "put", "request", "ok", "error", "chunk"}, n \in Nat : sock_sendtoEx(k, n) \in Call
  /\ \A u \in {"header", "gets", "puts", "response", "chunk"} : sock_recvfrom(u) \in Call
  /\ send_file \in Call /\ srv_wait4cnn \in Call
BY DEF Call, SendCall, RecvCall, sock_sendtoEx, sock_recvfrom, send_file, srv_wait4cnn, Calls

LEMMA RequestTyped ==
  ASSUME NEW t
  PROVE  Request(t) \in Seq(Call)
<1>1. /\ sock_sendtoEx("get", 0) \in Call /\ sock_sendtoEx("put", 0) \in Call
      /\ sock_sendtoEx("request", 0) \in Call /\ sock_recvfrom("response") \in Call
      /\ send_file \in Call
  BY SomeCalls
<1>2. <<sock_sendtoEx("get", 0), sock_sendtoEx("request", 0), sock_recvfrom("response")>>
        \in Seq(Call)
  BY <1>1
<1>3. <<sock_sendtoEx("put", 0), sock_sendtoEx("request", 0), send_file>> \in Seq(Call)
  BY <1>1
<1>4. <<>> \in Seq(Call) BY EmptySeq
<1> QED BY <1>2, <1>3, <1>4 DEF Request

LEMMA ServingTyped ==
  /\ client_handler \in Seq(Call) /\ recv_file \in Seq(Call) /\ <<srv_wait4cnn>> \in Seq(Call)
  /\ \A k \in {"ok", "error"}, n \in Nat : Respond(k, n) \in Seq(Call)
<1>1. sock_recvfrom("header") \in Call /\ sock_recvfrom("chunk") \in Call BY SomeCalls
<1>2. client_handler \in Seq(Call) BY <1>1, OneOf DEF client_handler
<1>3. recv_file \in Seq(Call)
  <2>1. recv_file \in [1..Chunks -> Call] BY <1>1 DEF recv_file
  <2> QED BY <2>1, Constants, FunctionIsSeq
<1>4. \A k \in {"ok", "error"}, n \in Nat : Respond(k, n) \in Seq(Call)
  BY SomeCalls, OneOf DEF Respond
<1> QED BY <1>2, <1>3, <1>4, SomeCalls, OneOf

LEMMA NextCallsTyped ==
  ASSUME NEW p, NEW c \in Content, Head(script[p]) \in RecvCall, Tail(script[p]) \in Seq(Call)
  PROVE  NextCalls(p, c) \in Seq(Call)
<1> DEFINE use == Head(script[p]).what
           S   == Seq(Call)
<1>1. use \in {"header", "gets", "puts", "response", "chunk"} BY DEF RecvCall
<1>2. \A s, t \in S : s \o t \in S BY ConcatProperties
<1>3. /\ client_handler \in S /\ recv_file \in S /\ <<srv_wait4cnn>> \in S
      /\ Respond("error", 0) \in S /\ Respond("ok", 0) \in S /\ Respond("ok", Chunks) \in S
  BY ServingTyped, Constants
<1>4. /\ <<sock_recvfrom("gets")>> \in S /\ <<sock_recvfrom("puts")>> \in S /\ <<send_file>> \in S
      /\ <<>> \in S
  BY SomeCalls, OneOf
<1> HIDE DEF S
<1>5. Tail(script[p]) \in S BY DEF S
<1>6. CASE use = "header"
  <2>1. Respond("error", 0) \o client_handler \in S BY <1>2, <1>3
  <2>2. NextCalls(p, c) \in S BY <1>6, <2>1, <1>4 DEF NextCalls
  <2> QED BY <2>2 DEF S
<1>7. CASE use = "gets"
  <2>1. (Respond("ok", Chunks) \o <<send_file>>) \o client_handler \in S BY <1>2, <1>3, <1>4
  <2>2. Respond("error", 0) \o client_handler \in S BY <1>2, <1>3
  <2>3. NextCalls(p, c) \in S BY <1>7, <2>1, <2>2 DEF NextCalls
  <2> QED BY <2>3 DEF S
<1>8. CASE use = "puts"
  <2>1. recv_file \o <<srv_wait4cnn>> \in S BY <1>2, <1>3
  <2>2. recv_file \o <<srv_wait4cnn>> \o Respond("ok", 0) \in S BY <2>1, <1>2, <1>3
  <2>3. (recv_file \o <<srv_wait4cnn>> \o Respond("ok", 0)) \o client_handler \in S
    BY <2>2, <1>2, <1>3
  <2>4. Respond("error", 0) \o client_handler \in S BY <1>2, <1>3
  <2>5. NextCalls(p, c) \in S BY <1>8, <2>3, <2>4 DEF NextCalls
  <2> QED BY <2>5 DEF S
<1>9. CASE use = "response"
  <2>1. recv_file \o <<srv_wait4cnn>> \in S /\ <<>> \o <<srv_wait4cnn>> \in S
    BY <1>2, <1>3, <1>4
  <2>2. NextCalls(p, c) \in S BY <1>9, <2>1, <1>4 DEF NextCalls
  <2> QED BY <2>2 DEF S
<1>10. CASE use = "chunk" BY <1>10 DEF NextCalls
<1> QED BY <1>1, <1>6, <1>7, <1>8, <1>9, <1>10

\* A side goes on in its calls.
LEMMA ScriptMoves ==
  ASSUME Scripts, Greeting, Counters, NEW p \in Side, Busy(p), hsData' = hsData, shaken' = shaken,
         NEW s, script' = [script EXCEPT ![p] = s],
         s \in Seq(Call) \/ (p = "client" /\ s = <<Ended>>)
  PROVE  Scripts'
<1> DEFINE A == Call \cup {handshake, Ended}
<1>1. script \in [Side -> Seq(A)] BY DEF Scripts
<1>2. s \in Seq(A) /\ (s # <<>> => Tail(s) \in Seq(Call))
  <2>1. CASE s \in Seq(Call)
    <3>1. Call \subseteq A OBVIOUS
    <3> QED BY <2>1, <3>1, SeqMonotonic, TailOf
  <2>2. CASE s = <<Ended>>
    <3>1. Ended \in A OBVIOUS
    <3>2. Tail(<<Ended>>) = <<>> OBVIOUS
    <3> QED BY <2>2, <3>1, <3>2, OneOf, EmptySeq
  <2> QED BY <2>1, <2>2
<1> HIDE DEF A
<1>3. script' \in [Side -> Seq(A)] BY <1>1, <1>2
<1>4. script'[p] = s /\ \A o \in Side : o # p => script'[o] = script[o] BY <1>1
<1>5. ASSUME NEW o \in Side, script'[o] # <<>> PROVE Tail(script'[o]) \in Seq(Call)
  BY <1>2, <1>4, <1>5 DEF Scripts
<1>6. ASSUME script'["client"] # <<>>, Head(script'["client"]) \in Call PROVE shaken'
  <2>1. CASE p = "client"
    <3>1. script["client"] # <<>> /\ Head(script["client"]) \in Call BY <2>1, BusyFacts DEF Busy
    <3> QED BY <3>1 DEF Scripts
  <2>2. CASE p = "server" BY <2>2, <1>4, <1>6, Sides DEF Scripts
  <2> QED BY <2>1, <2>2, Sides
<1>7. hsData' # None /\ script'["server"] \in Seq(Call)
  <2>1. hsData \in Nat BY BusyFacts
  <2>2. hsData # None BY <2>1 DEF None
  <2>3. CASE p = "client" BY <2>2, <2>3, <1>4, Sides DEF Scripts
  <2>4. CASE p = "server" BY <2>2, <2>4, <1>4, Sides
  <2> QED BY <2>2, <2>3, <2>4, Sides
<1>8. None' = None /\ Call' = Call /\ handshake' = handshake /\ Ended' = Ended
  BY DEF None, Call, SendCall, RecvCall, srv_wait4cnn, handshake, Ended, Calls
<1> QED BY <1>3, <1>5, <1>6, <1>7, <1>8 DEF Scripts, A

-------------------------------------------------------------------------------
\* Windows and links.
LEMMA SentSlots == Counters => Sent \in Nat /\ Sent > 0 /\ Sent <= Chunks + 1
BY Constants DEF Counters, Sent

\* A side whose window is empty changes its calls.
LEMMA WindowKept ==
  ASSUME Windows, NEW p \in Side, winBufPos[p] = 0,
         script' = script \/ \E s : script' = [script EXCEPT ![p] = s],
         DOMAIN script = Side,
         winBuf' = winBuf, winBufPos' = winBufPos, scenario' = scenario
  PROVE  Windows'
<1>1. \A o \in Side : winBufPos[o] > 0 => script'[o] = script[o]
  BY DEF Windows
<1>2. Own' = Own /\ Sent' = Sent BY DEF Own, Sent
<1> QED BY <1>1, <1>2 DEF Windows

LEMMA EmptyWindow ==
  ASSUME Windows, NEW p \in Side, script[p] # <<>> => Head(script[p]).op # "send"
  PROVE  winBufPos[p] = 0
<1>1. winBufPos[p] \in Nat /\ ~(winBufPos[p] > 0) BY DEF Windows
<1> QED BY <1>1

\* The slots in use hold packets of p's own.
LEMMA SlotsOwn ==
  ASSUME Windows, Counters, NEW p \in Side
  PROVE  /\ winBuf[p] \in [1..(Chunks + 2) -> Own \cup {NoPacket}]
         /\ winBufPos[p] \in 0..(Chunks + 1) /\ winBufPos[p] <= Sent
         /\ \A k \in 1..winBufPos[p] : k \in 1..(Chunks + 2) /\ winBuf[p][k] \in Own
<1>1. /\ winBuf[p] \in [1..(Chunks + 2) -> Own \cup {NoPacket}]
      /\ winBufPos[p] \in Nat /\ winBufPos[p] <= Sent
      /\ \A k \in 1..winBufPos[p] : winBuf[p][k] # NoPacket
  BY DEF Windows
<1>2. winBufPos[p] \in 0..(Chunks + 1) BY <1>1, SentSlots, Constants
<1>3. \A k \in 1..winBufPos[p] : k \in 1..(Chunks + 2) BY <1>2, Constants
<1>4. \A k \in 1..winBufPos[p] : winBuf[p][k] \in Own BY <1>1, <1>3
<1> QED BY <1>1, <1>2, <1>3, <1>4

\* A packet entering a link, and what the link then holds.
Stored(q, d) == IF Len(q) = Cap THEN q ELSE Append(q, d)

Entered(q, h, d, q2, h2) ==
  \/ q2 = q /\ h2 = h
  \/ q2 = q /\ h2 = d
  \/ /\ h2 = NoPacket
     /\ \/ q2 = Stored(q, d)
        \/ h # NoPacket /\ q2 = Stored(Stored(q, d), h)

LEMMA StoredTyped ==
  ASSUME NEW S, NEW q \in Seq(S), NEW d \in S
  PROVE  Stored(q, d) \in Seq(S)
BY Appended DEF Stored

LEMMA EnteredTyped ==
  ASSUME NEW S, NEW q \in Seq(S), NEW h \in S \cup {NoPacket}, NEW d \in S,
         NEW q2, NEW h2, Entered(q, h, d, q2, h2)
  PROVE  q2 \in Seq(S) /\ h2 \in S \cup {NoPacket}
<1>1. Stored(q, d) \in Seq(S) BY StoredTyped
<1>2. h # NoPacket => Stored(Stored(q, d), h) \in Seq(S)
  <2>1. ASSUME h # NoPacket PROVE h \in S BY <2>1
  <2> QED BY <1>1, <2>1, StoredTyped
<1> QED BY <1>1, <1>2 DEF Entered

LEMMA ReadTakes ==
  ASSUME NEW p \in Side, NEW d, Read(p, d)
  PROVE  /\ Incoming(p) # <<>> /\ Incoming(p)' = Tail(Incoming(p)) /\ Held(p)' = Held(p)
         /\ Incoming(Other(p))' = Incoming(Other(p)) /\ Held(Other(p))' = Held(Other(p))
BY DEF Read, Side, Other, Incoming, Held, KeepLink, Up!Take, Down!Take

LEMMA ArrivedTyped ==
  ASSUME OnTheWay, NEW p \in Side, NEW d \in Arrived(p)
  PROVE  d \in Travelling /\ d \in Datagram
<1>1. Incoming(p) # <<>> /\ d = Head(Incoming(p)) BY DEF Arrived
<1>2. Incoming(p) \in Seq(Travelling) BY DEF OnTheWay
<1> QED BY <1>1, <1>2, TailOf, OwnTravels

\* Every step but lib_sendto, Type and Release: what is to be sent is of a right
\* kind, and a datagram is read or none.
LEMMA WayKept ==
  ASSUME OnTheWay, hsData' = hsData, outbox' \in [Side -> Seq(Travelling)], NEW p \in Side,
         UNCHANGED links \/ \E d : Read(p, d)
  PROVE  OnTheWay'
<1>1. Travelling' = Travelling BY DEF Travelling
<1>2. ASSUME NEW o \in Side
      PROVE  Incoming(o)' \in Seq(Travelling) /\ Held(o)' \in Travelling \cup {NoPacket}
  <2>1. Incoming(o) \in Seq(Travelling) /\ Held(o) \in Travelling \cup {NoPacket}
    BY DEF OnTheWay
  <2>2. CASE UNCHANGED links
    BY <2>1, <2>2 DEF links, Incoming, Held
  <2>3. CASE \E d : Read(p, d)
    <3>1. PICK d : Read(p, d) BY <2>3
    <3>2. /\ Incoming(p) # <<>> /\ Incoming(p)' = Tail(Incoming(p)) /\ Held(p)' = Held(p)
          /\ Incoming(Other(p))' = Incoming(Other(p)) /\ Held(Other(p))' = Held(Other(p))
      BY <3>1, ReadTakes
    <3>3. CASE o = p BY <2>1, <3>2, <3>3, TailOf
    <3>4. CASE o = Other(p) BY <2>1, <3>2, <3>4
    <3> QED BY <3>3, <3>4, Sides
  <2> QED BY <2>2, <2>3
<1> QED BY <1>1, <1>2 DEF OnTheWay

LEMMA OutboxSet ==
  ASSUME OnTheWay, NEW p \in Side, NEW q \in Seq(Travelling), outbox' = [outbox EXCEPT ![p] = q]
  PROVE  outbox' \in [Side -> Seq(Travelling)]
BY DEF OnTheWay

LEMMA OutboxKept ==
  ASSUME OnTheWay, outbox' = outbox
  PROVE  outbox' \in [Side -> Seq(Travelling)]
BY DEF OnTheWay

\* A part of the invariant of which nothing changes.
LEMMA CountersSame ==
  ASSUME Counters, UNCHANGED <<scenario, typed, numbers, seq, lastSeq, rounds, asked, served, got>>
  PROVE  Counters'
BY DEF Counters

LEMMA GreetingSame ==
  ASSUME Greeting, UNCHANGED greet
  PROVE  Greeting'
BY DEF Greeting, greet, None

LEMMA ScriptsSame ==
  ASSUME Scripts, script' = script, UNCHANGED greet
  PROVE  Scripts'
BY DEF Scripts, greet, None, Call, SendCall, RecvCall, srv_wait4cnn, handshake, Ended, Calls

LEMMA WindowsSame ==
  ASSUME Windows, script' = script, scenario' = scenario, winBuf' = winBuf, winBufPos' = winBufPos
  PROVE  Windows'
BY DEF Windows, Own, Sent

LEMMA SlotsSent ==
  ASSUME NEW b \in [1..(Chunks + 2) -> Own \cup {NoPacket}], NEW k \in 0..(Chunks + 1),
         \A i \in 1..k : b[i] # NoPacket
  PROVE  SubSeq(b, 1, k) \in Seq(Own) /\ SubSeq(b, 1, k) \in Seq(Travelling)
<1>1. Chunks + 2 \in Nat /\ k \in 0..(Chunks + 2) BY Constants
<1>2. \A i \in 1..k : i \in 1..(Chunks + 2) BY <1>1
<1>3. \A i \in 1..k : b[i] \in Own BY <1>2
<1>4. SubSeq(b, 1, k) \in Seq(Own) BY <1>1, <1>3, FirstSlots
<1> QED BY <1>4, OwnTravels, SeqMonotonic

-------------------------------------------------------------------------------
\* The steps.
LEMMA SendToInv ==
  ASSUME IInv, NEW p \in Side, lib_sendto(p)
  PROVE  IInv'
<1> DEFINE d == Head(outbox[p])
           o == Other(p)
<1>1. /\ UNCHANGED <<scenario, typed, script, seq, lastSeq, winBuf, winBufPos, rounds, greet, got,
                     asked, served, numbers>>
      /\ outbox[p] # <<>> /\ outbox' = [outbox EXCEPT ![p] = Tail(@)]
  BY DEF lib_sendto, window, clock, greet, history
<1>2. Counters' BY <1>1, CountersSame DEF IInv
<1>3. Windows' BY <1>1, WindowsSame DEF IInv
<1>4. Scripts' BY <1>1, ScriptsSame DEF IInv
<1>5. Greeting' BY <1>1, GreetingSame DEF IInv
<1>6. OnTheWay'
  <2>1. /\ outbox \in [Side -> Seq(Travelling)]
        /\ \A r \in Side : Incoming(r) \in Seq(Travelling) /\ Held(r) \in Travelling \cup {NoPacket}
    BY DEF IInv, OnTheWay
  <2>2. d \in Travelling /\ Tail(outbox[p]) \in Seq(Travelling)
    <3>1. outbox[p] \in Seq(Travelling) BY <2>1
    <3> QED BY <3>1, <1>1, TailOf
  <2>3. Travelling' = Travelling BY <1>1 DEF Travelling, greet
  <2>4. outbox' \in [Side -> Seq(Travelling)] BY <1>1, <2>1, <2>2
  <2>5. Incoming(p)' = Incoming(p) /\ Held(p)' = Held(p)
    BY DEF lib_sendto, KeepLink, Incoming, Held, Side
  <2>6. Entered(Incoming(o), Held(o), d, Incoming(o)', Held(o)')
    <3>1. CASE p = "client"
      BY <3>1 DEF lib_sendto, Entered, Stored, Incoming, Held, Other, KeepLink,
                  Up!Forward, Up!Hold, Up!Arrive
    <3>2. CASE p = "server"
      BY <3>2 DEF lib_sendto, Entered, Stored, Incoming, Held, Other, KeepLink,
                  Down!Forward, Down!Hold, Down!Arrive
    <3> QED BY <3>1, <3>2, Sides
  <2>7. Incoming(o)' \in Seq(Travelling) /\ Held(o)' \in Travelling \cup {NoPacket}
    BY <2>1, <2>2, <2>6, Sides, EnteredTyped
  <2>8. \A r \in Side : Incoming(r)' \in Seq(Travelling) /\ Held(r)' \in Travelling \cup {NoPacket}
    BY <2>1, <2>5, <2>7, Sides
  <2> QED BY <2>3, <2>4, <2>8 DEF OnTheWay
<1> QED BY <1>2, <1>3, <1>4, <1>5, <1>6 DEF IInv

LEMMA ReleaseInv == IInv /\ Release => IInv'
<1> SUFFICES ASSUME IInv, Release PROVE IInv'
  OBVIOUS
<1>1. UNCHANGED <<scenario, typed, script, seq, lastSeq, winBuf, winBufPos, rounds, greet, got,
                  asked, served, numbers, outbox>>
  BY DEF Release, window, clock, greet, history, plan
<1>2. Counters' BY <1>1, CountersSame DEF IInv
<1>3. Windows' BY <1>1, WindowsSame DEF IInv
<1>4. Scripts' BY <1>1, ScriptsSame DEF IInv
<1>5. Greeting' BY <1>1, GreetingSame DEF IInv
<1>6. OnTheWay'
  <2>1. /\ outbox \in [Side -> Seq(Travelling)]
        /\ \A r \in Side : Incoming(r) \in Seq(Travelling) /\ Held(r) \in Travelling \cup {NoPacket}
    BY DEF IInv, OnTheWay
  <2>2. Travelling' = Travelling BY <1>1 DEF Travelling, greet
  <2>3. ASSUME NEW r \in Side
        PROVE  \/ Incoming(r)' = Incoming(r) /\ Held(r)' = Held(r)
               \/ Held(r) # NoPacket /\ Held(r)' = NoPacket
                    /\ Incoming(r)' \in {Incoming(r), Stored(Incoming(r), Held(r))}
    BY DEF Release, Incoming, Held, Stored, KeepLink, Side,
           Up!Release, Up!Arrive, Down!Release, Down!Arrive
  <2>4. ASSUME NEW r \in Side
        PROVE  Incoming(r)' \in Seq(Travelling) /\ Held(r)' \in Travelling \cup {NoPacket}
    <3>1. Held(r) # NoPacket => Stored(Incoming(r), Held(r)) \in Seq(Travelling)
      <4>1. ASSUME Held(r) # NoPacket PROVE Held(r) \in Travelling BY <4>1, <2>1
      <4> QED BY <4>1, <2>1, StoredTyped
    <3> QED BY <3>1, <2>1, <2>3
  <2> QED BY <1>1, <2>1, <2>2, <2>4 DEF OnTheWay
<1> QED BY <1>2, <1>3, <1>4, <1>5, <1>6 DEF IInv

\* What the proofs of the steps of p's calls read off the invariant.
LEMMA InCallBusy ==
  ASSUME IInv, NEW p \in Side, NEW op \in {"send", "recv", "linger"}, InCall(p, op)
  PROVE  /\ Busy(p) /\ Head(script[p]).op = op
         /\ Head(script[p]) \in Call /\ Tail(script[p]) \in Seq(Call) /\ hsData \in Nat
         /\ op = "send" => Head(script[p]) \in SendCall
         /\ op = "recv" => Head(script[p]) \in RecvCall
         /\ op # "send" => winBufPos[p] = 0
<1>1. script[p] # <<>> /\ Head(script[p]).op = op BY DEF InCall
<1>2. Busy(p) BY <1>1 DEF Busy
<1>3. op # "send" => winBufPos[p] = 0 BY <1>1, EmptyWindow DEF IInv
<1> QED BY <1>1, <1>2, <1>3, BusyFacts DEF IInv

LEMMA ContentsTyped ==
  ASSUME IInv, NEW p \in Side, InCall(p, "send")
  PROVE  /\ Contents(p) \in Seq(Content) /\ Len(Contents(p)) \in 1..Sent
         /\ \A k \in 1..Len(Contents(p)) : Contents(p)[k].kind # "answer"
<1> DEFINE c  == Head(script[p])
           id == IF p = "client" THEN asked ELSE served
<1>1. c.what \in {"get", "put", "request", "ok", "error", "chunk"} /\ c.n \in Nat
  <2>1. c \in SendCall BY InCallBusy
  <2> QED BY <2>1 DEF SendCall
<1>2. id \in Nat BY DEF IInv, Counters
<1>3. Sent \in Nat /\ Sent > 0 BY SentSlots DEF IInv
<1>4. CASE c.what = "chunk"
  <2> DEFINE f == [k \in 1..Sent |-> [kind |-> "chunk", n |-> k, id |-> id]]
  <2>1. f \in [1..Sent -> Content] BY <1>2, <1>3 DEF Content, Kind
  <2>2. f \in Seq(Content) /\ Len(f) = Sent BY <2>1, <1>3, FunctionIsSeq
  <2>3. \A k \in 1..Sent : f[k].kind # "answer" OBVIOUS
  <2>4. Contents(p) = f BY <1>4 DEF Contents
  <2> HIDE DEF f
  <2> QED BY <2>2, <2>3, <2>4, <1>3
<1>5. CASE c.what # "chunk"
  <2> DEFINE x == [kind |-> c.what, n |-> c.n, id |-> id]
  <2>1. x \in Content /\ x.kind # "answer" BY <1>1, <1>2 DEF Content, Kind
  <2>2. Contents(p) = <<x>> BY <1>5 DEF Contents
  <2> HIDE DEF x
  <2>3. <<x>> \in Seq(Content) /\ Len(<<x>>) = 1 /\ \A k \in 1..1 : <<x>>[k] = x BY <2>1
  <2> QED BY <2>1, <2>2, <2>3, <1>3
<1> QED BY <1>4, <1>5

\* A window b filled with packets numbered from n.
Filled(b, s, n) ==
  [k \in DOMAIN b |-> IF k > Len(s) THEN b[k]
                      ELSE [type |-> "REQUEST", seq |-> (n + k - 1) % M, content |-> s[k]]]

LEMMA NewSlots ==
  ASSUME NEW b \in [1..(Chunks + 2) -> Own \cup {NoPacket}], NEW s \in Seq(Content), NEW n \in Nat,
         \A k \in 1..Len(s) : s[k].kind # "answer",
         NEW b2, b2 = Filled(b, s, n)
  PROVE  /\ b2 \in [1..(Chunks + 2) -> Own \cup {NoPacket}]
         /\ \A k \in 1..Len(s) : k \in 1..(Chunks + 2) => b2[k] # NoPacket
<1>1. Len(s) \in Nat /\ \A k \in 1..Len(s) : s[k] \in Content OBVIOUS
<1>2. ASSUME NEW k \in 1..(Chunks + 2), k <= Len(s)
      PROVE  [type |-> "REQUEST", seq |-> (n + k - 1) % M, content |-> s[k]] \in Own
  <2>1. k \in 1..Len(s) BY <1>1, <1>2
  <2>2. s[k] \in Content /\ s[k].kind # "answer" BY <2>1, <1>1
  <2>3. (n + k - 1) % M \in 0..(M - 1)
    <3>1. n + k - 1 \in Int OBVIOUS
    <3> QED BY <3>1, Modulo
  <2> QED BY <2>2, <2>3 DEF Own, Datagram
<1>3. DOMAIN b = 1..(Chunks + 2) OBVIOUS
<1>4. ASSUME NEW k \in 1..(Chunks + 2)
      PROVE  b2[k] \in Own \cup {NoPacket} /\ (k <= Len(s) => b2[k] \in Own)
  <2>1. CASE k > Len(s) BY <2>1, <1>1, <1>3 DEF Filled
  <2>2. CASE ~(k > Len(s)) BY <2>2, <1>1, <1>2, <1>3 DEF Filled
  <2> QED BY <2>1, <2>2
<1>5. b2 \in [1..(Chunks + 2) -> Own \cup {NoPacket}] BY <1>3, <1>4 DEF Filled
<1>6. NoPacket \notin Own BY NoPacketAssumption DEF Own
<1> QED BY <1>1, <1>4, <1>5, <1>6

LEMMA SendInv ==
  ASSUME IInv, NEW p \in Side, Send(p)
  PROVE  IInv'
<1> DEFINE new == Contents(p)
<1>1. /\ UNCHANGED <<scenario, typed, script, lastSeq, rounds, got, asked, served, numbers>>
      /\ UNCHANGED greet /\ UNCHANGED links
      /\ InCall(p, "send") /\ winBufPos[p] = 0
      /\ winBuf' = [winBuf EXCEPT ![p] = [k \in DOMAIN @ |->
                        IF k > Len(new) THEN @[k]
                        ELSE [type |-> "REQUEST", seq |-> (seq[p] + k - 1) % M,
                              content |-> new[k]]]]
      /\ winBufPos' = [winBufPos EXCEPT ![p] = Len(new)]
      /\ seq' = [seq EXCEPT ![p] = (@ + Len(new)) % M]
      /\ outbox' = [outbox EXCEPT ![p] = SubSeq(winBuf'[p], 1, winBufPos'[p])]
  BY DEF Send, SendAll, greet, history, plan, links
<1>2. /\ new \in Seq(Content) /\ Len(new) \in 1..Sent
      /\ \A k \in 1..Len(new) : new[k].kind # "answer"
  BY <1>1, ContentsTyped
<1>3. Sent \in Nat /\ Sent <= Chunks + 1 /\ Len(new) \in Nat /\ Len(new) \in 0..(Chunks + 1)
  <2>1. Sent \in Nat /\ Sent <= Chunks + 1 BY SentSlots DEF IInv
  <2> QED BY <2>1, <1>2, Constants
<1> HIDE DEF new
<1>4. seq \in [Side -> 0..(M - 1)] BY DEF IInv, Counters
<1>5. Counters'
  <2>1. seq[p] + Len(new) \in Int BY <1>3, <1>4
  <2>2. seq' \in [Side -> 0..(M - 1)] BY <2>1, <1>1, <1>4, Modulo
  <2> QED BY <2>2, <1>1 DEF IInv, Counters
<1>6. winBuf[p] \in [1..(Chunks + 2) -> Own \cup {NoPacket}] BY SlotsOwn DEF IInv
<1>7. /\ winBuf'[p] \in [1..(Chunks + 2) -> Own \cup {NoPacket}]
      /\ \A k \in 1..Len(new) : k \in 1..(Chunks + 2) => winBuf'[p][k] # NoPacket
      /\ winBufPos'[p] = Len(new)
  <2> DEFINE b  == winBuf[p]
             b2 == winBuf'[p]
             n  == seq[p]
  <2>1. b2 = Filled(b, new, n) BY <1>1 DEF IInv, Windows, Filled
  <2>2. n \in Nat BY <1>4
  <2>3. winBufPos'[p] = Len(new) BY <1>1 DEF IInv, Windows
  <2>4. b \in [1..(Chunks + 2) -> Own \cup {NoPacket}] BY <1>6
  <2> HIDE DEF b, b2, n
  <2>5. /\ b2 \in [1..(Chunks + 2) -> Own \cup {NoPacket}]
        /\ \A k \in 1..Len(new) : k \in 1..(Chunks + 2) => b2[k] # NoPacket
    BY <2>1, <2>2, <2>4, <1>2, NewSlots
  <2> QED BY <2>3, <2>5 DEF b2
<1>8. \A k \in 1..Len(new) : k \in 1..(Chunks + 2) BY <1>3, Constants
<1>9. Windows'
  <2>1. /\ winBuf' \in [Side -> [1..(Chunks + 2) -> Own \cup {NoPacket}]]
        /\ winBufPos' \in [Side -> Nat]
        /\ \A o \in Side : o # p => winBuf'[o] = winBuf[o] /\ winBufPos'[o] = winBufPos[o]
    <3>1. winBuf' \in [Side -> [1..(Chunks + 2) -> Own \cup {NoPacket}]]
      BY <1>1, <1>7 DEF IInv, Windows
    <3> QED BY <3>1, <1>1, <1>3 DEF IInv, Windows
  <2>2. ASSUME NEW o \in Side
        PROVE  /\ winBufPos'[o] <= Sent
               /\ \A k \in 1..winBufPos'[o] : winBuf'[o][k] # NoPacket
               /\ winBufPos'[o] > 0 => script[o] # <<>> /\ Head(script[o]).op = "send"
    <3>1. CASE o = p
      <4>1. script[p] # <<>> /\ Head(script[p]).op = "send" BY <1>1 DEF InCall
      <4>2. Len(new) <= Sent BY <1>2, <1>3
      <4> QED BY <3>1, <4>1, <4>2, <1>7, <1>8
    <3>2. CASE o # p BY <3>2, <2>1 DEF IInv, Windows
    <3> QED BY <3>1, <3>2
  <2>3. Own' = Own /\ Sent' = Sent /\ script' = script BY <1>1 DEF Own, Sent
  <2> QED BY <2>1, <2>2, <2>3 DEF Windows
<1>10. Scripts' BY <1>1, ScriptsSame DEF IInv
<1>11. Greeting' BY <1>1, GreetingSame DEF IInv
<1>12. OnTheWay'
  <2>1. SubSeq(winBuf'[p], 1, winBufPos'[p]) \in Seq(Travelling)
    BY <1>3, <1>7, <1>8, SlotsSent
  <2>2. outbox' \in [Side -> Seq(Travelling)] BY <2>1, <1>1, OutboxSet DEF IInv
  <2>3. hsData' = hsData BY <1>1 DEF greet
  <2> QED BY <2>2, <2>3, <1>1, WayKept DEF IInv
<1> QED BY <1>5, <1>9, <1>10, <1>11, <1>12 DEF IInv

LEMMA TimeoutInv ==
  ASSUME IInv, NEW p \in Side, Timeout(p)
  PROVE  IInv'
<1> DEFINE n    == winBufPos[p]
           most == SubSeq(winBuf[p], 1, n - 1)
           more == winBuf[p][IF n > 1 THEN n - 1 ELSE 1]
           last == IF waitForACK[p] THEN <<>> ELSE <<LastSlot(p)>>
<1>1. /\ UNCHANGED <<scenario, typed, script, seq, lastSeq, winBuf, winBufPos, rounds, got,
                     asked, served, numbers>>
      /\ UNCHANGED greet /\ UNCHANGED links
      /\ Waiting(p)
      /\ outbox' = [outbox EXCEPT ![p] = most \o <<more>> \o last]
  BY DEF Timeout, greet, history, plan, links
<1>2. n > 0 BY <1>1 DEF Waiting
<1>3. /\ winBuf[p] \in [1..(Chunks + 2) -> Own \cup {NoPacket}] /\ n \in 0..(Chunks + 1)
      /\ \A k \in 1..n : k \in 1..(Chunks + 2) /\ winBuf[p][k] \in Own
  BY SlotsOwn DEF IInv
<1>4. NoPacket \notin Own BY NoPacketAssumption DEF Own
<1>5. most \in Seq(Own)
  <2>1. n - 1 \in 0..(Chunks + 1) /\ \A k \in 1..(n - 1) : k \in 1..n BY <1>2, <1>3, Constants
  <2>2. \A k \in 1..(n - 1) : winBuf[p][k] # NoPacket BY <2>1, <1>3, <1>4
  <2> QED BY <2>1, <2>2, <1>3, SlotsSent
<1>6. more \in Own
  <2>1. (IF n > 1 THEN n - 1 ELSE 1) \in 1..n BY <1>2, <1>3, Constants
  <2> QED BY <2>1, <1>3
<1>7. last \in Seq(Own)
  <2>1. n \in 1..n BY <1>2, <1>3, Constants
  <2>2. LastSlot(p) \in Own BY <2>1, <1>3 DEF LastSlot
  <2> QED BY <2>2, OneOf, EmptySeq
<1>8. most \o <<more>> \o last \in Seq(Travelling)
  <2>1. <<more>> \in Seq(Own) BY <1>6, OneOf
  <2> HIDE DEF most, more, last
  <2>2. most \o <<more>> \in Seq(Own) BY <2>1, <1>5, ConcatProperties
  <2>3. (most \o <<more>>) \o last \in Seq(Own) BY <2>2, <1>7, ConcatProperties
  <2> QED BY <2>3, OwnTravels, SeqMonotonic
<1> HIDE DEF most, more, last
<1>9. Counters' BY <1>1, CountersSame DEF IInv
<1>10. Windows' BY <1>1, WindowsSame DEF IInv
<1>11. Scripts' BY <1>1, ScriptsSame DEF IInv
<1>12. Greeting' BY <1>1, GreetingSame DEF IInv
<1>13. OnTheWay'
  <2>1. outbox' \in [Side -> Seq(Travelling)] BY <1>1, <1>8, OutboxSet DEF IInv
  <2>2. hsData' = hsData BY <1>1 DEF greet
  <2> QED BY <2>1, <2>2, <1>1, WayKept DEF IInv
<1> QED BY <1>9, <1>10, <1>11, <1>12, <1>13 DEF IInv

\* Packets leave p's window from its front, and the call returns with the last.
LEMMA RemoveInv ==
  ASSUME IInv, NEW p \in Side, Waiting(p), NEW k \in 0..winBufPos[p], Remove(p, k),
         scenario' = scenario, UNCHANGED greet
  PROVE  /\ Windows' /\ Scripts'
         /\ SubSeq(winBuf'[p], 1, winBufPos'[p]) \in Seq(Travelling)
<1> DEFINE n == winBufPos[p]
           b == winBuf[p]
           b2 == winBuf'[p]
<1>1. /\ b \in [1..(Chunks + 2) -> Own \cup {NoPacket}] /\ n \in 0..(Chunks + 1) /\ n <= Sent
      /\ \A s \in 1..n : s \in 1..(Chunks + 2) /\ b[s] \in Own
  BY SlotsOwn DEF IInv
<1>2. InCall(p, "send") /\ n > 0 BY DEF Waiting
<1>3. /\ Busy(p) /\ Head(script[p]).op = "send" /\ script[p] # <<>>
      /\ Tail(script[p]) \in Seq(Call) /\ script[p] \in Seq(Call)
  BY <1>2, InCallBusy, BusyFacts DEF IInv, Busy
<1>4. /\ winBuf' = [winBuf EXCEPT ![p] = Shifted(p, k)]
      /\ winBufPos' = [winBufPos EXCEPT ![p] = @ - k]
      /\ script' = [script EXCEPT ![p] = IF k = n THEN Tail(@) ELSE @]
  BY DEF Remove
<1>5. winBuf \in [Side -> [1..(Chunks + 2) -> Own \cup {NoPacket}]] /\ winBufPos \in [Side -> Nat]
      /\ script \in [Side -> Seq(Call \cup {handshake, Ended})]
  BY DEF IInv, Windows, Scripts
<1>6. b2 = [s \in 1..(Chunks + 2) |-> IF s <= n - k THEN b[s + k] ELSE b[s]]
      /\ winBufPos'[p] = n - k
  BY <1>1, <1>4, <1>5 DEF Shifted
<1>7. n \in Nat /\ k \in Nat /\ n - k \in 0..(Chunks + 1) /\ n - k <= n
      /\ \A s \in 1..(n - k) : s + k \in 1..n /\ s \in 1..(Chunks + 2)
  BY <1>1, Constants
<1> HIDE DEF b, b2, n
<1>8. b2 \in [1..(Chunks + 2) -> Own \cup {NoPacket}]
  <2>1. ASSUME NEW s \in 1..(Chunks + 2)
        PROVE  (IF s <= n - k THEN b[s + k] ELSE b[s]) \in Own \cup {NoPacket}
    <3>1. CASE s <= n - k
      <4>1. s \in 1..(n - k) BY <3>1, <1>7
      <4> QED BY <3>1, <4>1, <1>1, <1>7
    <3>2. CASE ~(s <= n - k) BY <3>2, <1>1
    <3> QED BY <3>1, <3>2
  <2> QED BY <2>1, <1>6
<1>9. NoPacket \notin Own BY NoPacketAssumption DEF Own
<1>10. \A s \in 1..(n - k) : b2[s] # NoPacket BY <1>1, <1>6, <1>7, <1>9
<1>11. SubSeq(winBuf'[p], 1, winBufPos'[p]) \in Seq(Travelling)
  <2>1. SubSeq(b2, 1, n - k) \in Seq(Travelling) BY <1>7, <1>8, <1>10, SlotsSent
  <2> QED BY <2>1, <1>6 DEF b2
<1>12. /\ \A o \in Side : o # p => /\ winBuf'[o] = winBuf[o] /\ winBufPos'[o] = winBufPos[o]
                                   /\ script'[o] = script[o]
       /\ script'[p] = IF k = n THEN Tail(script[p]) ELSE script[p]
       /\ winBuf'[p] = b2
  BY <1>4, <1>5 DEF b2
<1>13. Windows'
  <2>1. /\ winBuf' \in [Side -> [1..(Chunks + 2) -> Own \cup {NoPacket}]]
        /\ winBufPos' \in [Side -> Nat]
    <3>1. winBuf' = [winBuf EXCEPT ![p] = b2] BY <1>4, <1>5 DEF b2
    <3>2. winBufPos' = [winBufPos EXCEPT ![p] = n - k] BY <1>4, <1>5 DEF n
    <3>3. n - k \in Nat BY <1>7
    <3> QED BY <3>1, <3>2, <3>3, <1>5, <1>8
  <2>2. ASSUME NEW o \in Side
        PROVE  /\ winBufPos'[o] <= Sent
               /\ \A s \in 1..winBufPos'[o] : winBuf'[o][s] # NoPacket
               /\ winBufPos'[o] > 0 => script'[o] # <<>> /\ Head(script'[o]).op = "send"
    <3>1. CASE o = p
      <4>1. Sent \in Nat BY SentSlots DEF IInv
      <4>2. winBufPos'[p] <= Sent BY <4>1, <1>1, <1>6, <1>7
      <4>3. \A s \in 1..winBufPos'[p] : winBuf'[p][s] # NoPacket BY <1>6, <1>10, <1>12
      <4>4. winBufPos'[p] > 0 => script'[p] = script[p] BY <1>6, <1>7, <1>12
      <4> QED BY <3>1, <4>2, <4>3, <4>4, <1>3
    <3>2. CASE o # p BY <3>2, <1>12 DEF IInv, Windows
    <3> QED BY <3>1, <3>2
  <2>3. Own' = Own /\ Sent' = Sent BY DEF Own, Sent
  <2> QED BY <2>1, <2>2, <2>3 DEF Windows
<1>14. Scripts'
  <2> DEFINE t == IF k = n THEN Tail(script[p]) ELSE script[p]
  <2>1. t \in Seq(Call) BY <1>3
  <2>2. script' = [script EXCEPT ![p] = t] BY <1>4, <1>5
  <2>3. hsData' = hsData /\ shaken' = shaken BY DEF greet
  <2> HIDE DEF t
  <2> QED BY <2>1, <2>2, <2>3, <1>3, ScriptMoves DEF IInv
<1> QED BY <1>11, <1>13, <1>14

LEMMA RecvAckInv ==
  ASSUME IInv, NEW p \in Side, RecvAck(p)
  PROVE  IInv'
<1> DEFINE n == winBufPos[p]
<1>1. PICK d \in Arrived(p) :
        /\ Read(p, d)
        /\ Remove(p, Cardinality({s \in 1..n : 1..s \subseteq arrACK[p] \cup SlotsWith(p, d.seq)}))
  BY DEF RecvAck
<1> DEFINE marks == arrACK[p] \cup SlotsWith(p, d.seq)
           T     == {s \in 1..n : 1..s \subseteq marks}
           k     == Cardinality(T)
<1>2. /\ UNCHANGED <<scenario, typed, outbox, seq, lastSeq, rounds, got, asked, served, numbers>>
      /\ UNCHANGED greet /\ Waiting(p)
  BY DEF RecvAck, greet, plan
<1>3. k \in 0..n
  <2>1. n \in Nat BY SlotsOwn DEF IInv
  <2>2. IsFiniteSet(1..n) /\ Cardinality(1..n) = n BY <2>1, FS_Interval
  <2>3. T \subseteq 1..n OBVIOUS
  <2>4. IsFiniteSet(T) /\ k <= n /\ k \in Nat BY <2>2, <2>3, FS_Subset, FS_CardinalityType
  <2> QED BY <2>1, <2>4
<1>4. Remove(p, k) BY <1>1
<1> HIDE DEF k
<1>5. Windows' /\ Scripts' BY <1>2, <1>3, <1>4, RemoveInv
<1>6. Counters' BY <1>2, CountersSame DEF IInv
<1>7. Greeting' BY <1>2, GreetingSame DEF IInv
<1>8. OnTheWay'
  <2>1. hsData' = hsData BY <1>2 DEF greet
  <2> QED BY <2>1, <1>1, <1>2, OutboxKept, WayKept DEF IInv
<1> QED BY <1>5, <1>6, <1>7, <1>8 DEF IInv

LEMMA RecvNackInv ==
  ASSUME IInv, NEW p \in Side, RecvNack(p)
  PROVE  IInv'
<1>1. \E d \in Arrived(p) : Read(p, d) /\ \E k \in Found(p, (d.seq - 1) % M) : Remove(p, k)
  BY DEF RecvNack
<1> PICK d \in Arrived(p) : Read(p, d) /\ \E k \in Found(p, (d.seq - 1) % M) : Remove(p, k)
  BY <1>1
<1> PICK k \in Found(p, (d.seq - 1) % M) : Remove(p, k)
  OBVIOUS
<1>2. /\ UNCHANGED <<scenario, typed, seq, lastSeq, rounds, got, asked, served, numbers>>
      /\ UNCHANGED greet /\ Waiting(p)
      /\ outbox' = [outbox EXCEPT ![p] = SubSeq(winBuf'[p], 1, winBufPos'[p])]
  BY DEF RecvNack, SendAll, greet, plan
<1>3. k \in 0..winBufPos[p]
  <2>1. winBufPos[p] \in Nat BY SlotsOwn DEF IInv
  <2>2. SlotsWith(p, (d.seq - 1) % M) \subseteq 0..winBufPos[p] BY <2>1 DEF SlotsWith
  <2>3. {0, winBufPos[p]} \subseteq 0..winBufPos[p] BY <2>1
  <2> QED BY <2>2, <2>3 DEF Found
<1>4. /\ Windows' /\ Scripts'
      /\ SubSeq(winBuf'[p], 1, winBufPos'[p]) \in Seq(Travelling)
  BY <1>1, <1>2, <1>3, RemoveInv
<1>5. Counters' BY <1>2, CountersSame DEF IInv
<1>6. Greeting' BY <1>2, GreetingSame DEF IInv
<1>7. OnTheWay'
  <2>1. hsData' = hsData BY <1>2 DEF greet
  <2>2. outbox' \in [Side -> Seq(Travelling)] BY <1>2, <1>4, OutboxSet DEF IInv
  <2> QED BY <2>1, <2>2, <1>1, WayKept DEF IInv
<1> QED BY <1>4, <1>5, <1>6, <1>7 DEF IInv

LEMMA RecvUnknownInv ==
  ASSUME IInv, NEW p \in Side, RecvUnknown(p)
  PROVE  IInv'
<1>1. PICK d \in Arrived(p) : Read(p, d) /\ outbox' = [outbox EXCEPT ![p] = AnswerUnknown(p, d)]
  BY DEF RecvUnknown
<1>2. /\ UNCHANGED <<scenario, typed, script, seq, lastSeq, winBuf, winBufPos, rounds, got, asked,
                     served, numbers>>
      /\ UNCHANGED greet /\ Waiting(p)
  BY DEF RecvUnknown, greet, plan, history
<1>3. AnswerUnknown(p, d) \in Seq(Travelling)
  <2>1. d.seq \in Int
    <3>1. d \in Datagram BY ArrivedTyped DEF IInv
    <3> QED BY <3>1, Constants DEF Datagram
  <2>2. Ack("ACK", d.seq) \in Own BY <2>1, AckTyped
  <2>3. LastSlot(p) \in Own
    <3>1. winBufPos[p] > 0 BY <1>2 DEF Waiting
    <3>2. winBufPos[p] \in 1..winBufPos[p] BY <3>1, SlotsOwn DEF IInv
    <3> QED BY <3>2, SlotsOwn DEF IInv, LastSlot
  <2>4. /\ <<Ack("ACK", d.seq)>> \in Seq(Own) /\ <<LastSlot(p)>> \in Seq(Own) /\ <<>> \in Seq(Own)
    BY <2>2, <2>3, OneOf
  <2>5. AnswerUnknown(p, d) \in Seq(Own) BY <2>4 DEF AnswerUnknown
  <2> QED BY <2>5, OwnTravels, SeqMonotonic
<1>4. Counters' BY <1>2, CountersSame DEF IInv
<1>5. Windows' BY <1>2, WindowsSame DEF IInv
<1>6. Scripts' BY <1>2, ScriptsSame DEF IInv
<1>7. Greeting' BY <1>2, GreetingSame DEF IInv
<1>8. OnTheWay'
  <2>1. hsData' = hsData BY <1>2 DEF greet
  <2>2. outbox' \in [Side -> Seq(Travelling)] BY <1>1, <1>3, OutboxSet DEF IInv
  <2> QED BY <2>1, <2>2, <1>1, WayKept DEF IInv
<1> QED BY <1>4, <1>5, <1>6, <1>7, <1>8 DEF IInv

LEMMA RecvAnswerInv ==
  ASSUME IInv, NEW p \in Side, RecvAnswer(p)
  PROVE  IInv'
<1>1. PICK d \in Arrived(p) : Read(p, d) /\ lastSeq' = [lastSeq EXCEPT ![p] = Last(p, d)]
  BY DEF RecvAnswer
<1>2. /\ UNCHANGED <<scenario, typed, script, outbox, seq, winBuf, winBufPos, rounds, got, asked,
                     served, numbers>>
      /\ UNCHANGED greet
  BY DEF RecvAnswer, greet, plan, window
<1>3. Counters'
  <2>1. d \in Datagram BY ArrivedTyped DEF IInv
  <2>2. d.seq - 1 \in Int BY <2>1, Constants DEF Datagram
  <2>3. (d.seq - 1) % M \in 0..(M - 1) BY <2>2, Modulo
  <2>4. lastSeq \in [Side -> None..(M - 1)] BY DEF IInv, Counters
  <2>5. Last(p, d) \in None..(M - 1) BY <2>3, <2>4 DEF Last, None
  <2>6. lastSeq' \in [Side -> None..(M - 1)] BY <2>4, <2>5, <1>1
  <2> QED BY <2>6, <1>2 DEF IInv, Counters, None
<1>4. Windows' BY <1>2, WindowsSame DEF IInv
<1>5. Scripts' BY <1>2, ScriptsSame DEF IInv
<1>6. Greeting' BY <1>2, GreetingSame DEF IInv
<1>7. OnTheWay'
  <2>1. hsData' = hsData BY <1>2 DEF greet
  <2> QED BY <2>1, <1>1, <1>2, OutboxKept, WayKept DEF IInv
<1> QED BY <1>3, <1>4, <1>5, <1>6, <1>7 DEF IInv

\* An answer repeats hsData, whoever sends it.
LEMMA RecvHelloInv ==
  ASSUME IInv, NEW p \in Side, RecvHello(p)
  PROVE  IInv'
<1>1. \E d \in Arrived(p) : Read(p, d) BY DEF RecvHello
<1>2. /\ UNCHANGED <<scenario, typed, script, seq, lastSeq, winBuf, winBufPos, rounds, got, asked,
                     served, numbers>>
      /\ UNCHANGED greet /\ InCall(p, "recv")
      /\ outbox' = [outbox EXCEPT ![p] = <<answer>>]
  BY DEF RecvHello, greet, plan, window, history
<1>3. <<answer>> \in Seq(Travelling)
  <2>1. hsData \in Nat /\ hsData' = hsData BY <1>2, InCallBusy DEF greet
  <2>2. numbers["server"] \in Nat BY Constants, Sides DEF IInv, Counters
  <2>3. 0 \in 0..(M - 1) BY Constants
  <2>4. answer \in Datagram BY <2>1, <2>2, <2>3 DEF answer, Datagram, Content, Kind
  <2>5. answer.content.n = hsData BY <2>1 DEF answer
  <2>6. answer \in Travelling BY <2>4, <2>5 DEF Travelling
  <2> QED BY <2>6, OneOf
<1>4. Counters' BY <1>2, CountersSame DEF IInv
<1>5. Windows' BY <1>2, WindowsSame DEF IInv
<1>6. Scripts' BY <1>2, ScriptsSame DEF IInv
<1>7. Greeting' BY <1>2, GreetingSame DEF IInv
<1>8. OnTheWay'
  <2>1. hsData' = hsData BY <1>2 DEF greet
  <2>2. \A q : q = <<answer>> => outbox' = [outbox EXCEPT ![p] = q] BY <1>2
  <2>3. outbox' \in [Side -> Seq(Travelling)]
    <3>1. PICK q \in Seq(Travelling) : q = <<answer>> BY <1>3
    <3> QED BY <3>1, <2>2, OutboxSet DEF IInv
  <2> QED BY <2>1, <2>3, <1>1, WayKept DEF IInv
<1> QED BY <1>4, <1>5, <1>6, <1>7, <1>8 DEF IInv

LEMMA AckSent ==
  ASSUME OnTheWay, NEW p \in Side, NEW t \in {"ACK", "NACK"}, NEW n \in Int,
         outbox' = [outbox EXCEPT ![p] = <<Ack(t, n)>>]
  PROVE  outbox' \in [Side -> Seq(Travelling)]
<1>1. Ack(t, n) \in Travelling BY AckTyped, OwnTravels
<1>2. <<Ack(t, n)>> \in Seq(Travelling) BY <1>1, OneOf
<1> QED BY <1>2, OutboxSet

LEMMA RefuseInv ==
  ASSUME IInv, NEW p \in Side, Refuse(p)
  PROVE  IInv'
<1>1. \E d \in Arrived(p) : Read(p, d) BY DEF Refuse
<1>2. /\ UNCHANGED <<scenario, typed, script, seq, lastSeq, winBuf, winBufPos, rounds, got, asked,
                     served, numbers>>
      /\ UNCHANGED greet
      /\ outbox' = [outbox EXCEPT ![p] = <<Ack("NACK", lastSeq[p] + 1)>>]
  BY DEF Refuse, greet, plan, window, history
<1>3. Counters' BY <1>2, CountersSame DEF IInv
<1>4. Windows' BY <1>2, WindowsSame DEF IInv
<1>5. Scripts' BY <1>2, ScriptsSame DEF IInv
<1>6. Greeting' BY <1>2, GreetingSame DEF IInv
<1>7. OnTheWay'
  <2>1. hsData' = hsData BY <1>2 DEF greet
  <2>2. lastSeq[p] + 1 \in Int BY Constants DEF IInv, Counters, None
  <2>3. outbox' \in [Side -> Seq(Travelling)] BY <2>2, <1>2, AckSent DEF IInv
  <2> QED BY <2>1, <2>3, <1>1, WayKept DEF IInv
<1> QED BY <1>3, <1>4, <1>5, <1>6, <1>7 DEF IInv

LEMMA AcceptInv ==
  ASSUME IInv, NEW p \in Side, Accept(p)
  PROVE  IInv'
<1>1. \E d \in Arrived(p) :
        /\ Read(p, d)
        /\ outbox' = [outbox EXCEPT ![p] = <<Ack("ACK", d.seq)>>]
        /\ lastSeq' = [lastSeq EXCEPT ![p] = d.seq]
        /\ script' = [script EXCEPT ![p] = NextCalls(p, d.content)]
        /\ got' \in {Append(got, d.content), <<>>, got}
        /\ served' \in {d.content.id, served}
  BY DEF Accept
<1> PICK d \in Arrived(p) :
        /\ Read(p, d)
        /\ outbox' = [outbox EXCEPT ![p] = <<Ack("ACK", d.seq)>>]
        /\ lastSeq' = [lastSeq EXCEPT ![p] = d.seq]
        /\ script' = [script EXCEPT ![p] = NextCalls(p, d.content)]
        /\ got' \in {Append(got, d.content), <<>>, got}
        /\ served' \in {d.content.id, served}
  BY <1>1
<1>2. /\ UNCHANGED <<scenario, typed, seq, winBuf, winBufPos, rounds, asked, numbers>>
      /\ UNCHANGED greet /\ InCall(p, "recv")
  BY DEF Accept, greet, plan, window
<1>3. /\ d \in Datagram /\ d.seq \in 0..(M - 1) /\ d.content \in Content /\ d.content.id \in Nat
      /\ d.seq \in Int /\ d.seq \in None..(M - 1)
  <2>1. d \in Datagram BY ArrivedTyped DEF IInv
  <2> QED BY <2>1, Constants DEF Datagram, Content, None
<1>4. Counters'
  <2>1. lastSeq' \in [Side -> None..(M - 1)] BY <1>3 DEF IInv, Counters
  <2>2. got' \in Seq(Content)
    <3>1. got \in Seq(Content) BY DEF IInv, Counters
    <3>2. Append(got, d.content) \in Seq(Content) BY <3>1, <1>3, Appended
    <3> QED BY <3>1, <3>2, EmptySeq
  <2>3. served' \in Nat BY <1>3 DEF IInv, Counters
  <2> QED BY <2>1, <2>2, <2>3, <1>2 DEF IInv, Counters, None
<1>5. /\ Busy(p) /\ winBufPos[p] = 0 /\ NextCalls(p, d.content) \in Seq(Call)
  <2>1. /\ Busy(p) /\ Head(script[p]) \in RecvCall /\ Tail(script[p]) \in Seq(Call)
        /\ winBufPos[p] = 0
    BY <1>2, InCallBusy
  <2> QED BY <2>1, <1>3, NextCallsTyped
<1>6. Windows'
  <2>1. DOMAIN script = Side BY DEF IInv, Scripts
  <2> QED BY <2>1, <1>2, <1>5, WindowKept DEF IInv
<1>7. Scripts'
  <2>1. hsData' = hsData /\ shaken' = shaken BY <1>2 DEF greet
  <2> QED BY <2>1, <1>5, ScriptMoves DEF IInv
<1>8. Greeting' BY <1>2, GreetingSame DEF IInv
<1>9. OnTheWay'
  <2>1. hsData' = hsData BY <1>2 DEF greet
  <2>2. outbox' \in [Side -> Seq(Travelling)] BY <1>3, AckSent DEF IInv
  <2> QED BY <2>1, <2>2, WayKept DEF IInv
<1> QED BY <1>4, <1>6, <1>7, <1>8, <1>9 DEF IInv

\* A round of srv_wait4cnn, whether something came or not.
LEMMA EndRoundInv ==
  ASSUME IInv, NEW p \in Side, InCall(p, "linger"), EndRound(p),
         UNCHANGED <<scenario, typed, numbers, seq, lastSeq, winBuf, winBufPos, got, served>>,
         UNCHANGED greet
  PROVE  Counters' /\ Windows' /\ Scripts'
<1>1. Busy(p) /\ Tail(script[p]) \in Seq(Call) /\ winBufPos[p] = 0 BY InCallBusy
<1>2. /\ rounds \in [Side -> Nat] /\ (\A o \in Side : rounds[o] \in 1..Linger[o])
      /\ Linger[p] \in Nat \ {0} /\ asked \in Nat
  BY Constants DEF IInv, Counters
<1>3. /\ rounds' \in [Side -> Nat] /\ \A o \in Side : rounds'[o] \in 1..Linger[o]
      /\ asked' \in Nat
  <2>1. \E r \in 1..Linger[p] : rounds' = [rounds EXCEPT ![p] = r]
    <3>1. CASE rounds[p] > 1
      <4>1. rounds[p] - 1 \in 1..Linger[p] BY <3>1, <1>2
      <4> QED BY <3>1, <4>1 DEF EndRound
    <3>2. CASE ~(rounds[p] > 1)
      <4>1. Linger[p] \in 1..Linger[p] BY <1>2
      <4> QED BY <3>2, <4>1 DEF EndRound
    <3> QED BY <3>1, <3>2
  <2>2. asked' \in Nat
    <3>1. asked' = asked \/ asked' = asked + 1
      <4>1. CASE rounds[p] > 1 BY <4>1 DEF EndRound
      <4>2. CASE ~(rounds[p] > 1) BY <4>2 DEF EndRound
      <4> QED BY <4>1, <4>2
    <3> QED BY <3>1, <1>2
  <2> QED BY <2>1, <2>2, <1>2
<1>4. Counters' BY <1>3 DEF IInv, Counters
<1>5. \/ script' = script
      \/ \E s : /\ script' = [script EXCEPT ![p] = s]
                /\ s \in Seq(Call) \/ (p = "client" /\ s = <<Ended>>)
  <2>1. CASE rounds[p] > 1 BY <2>1 DEF EndRound
  <2>2. CASE ~(rounds[p] > 1)
    <3>1. Request("get") \in Seq(Call) BY RequestTyped
    <3>2. p = "server" \/ p = "client" BY Sides
    <3>3. script' = [script EXCEPT ![p] = IF p = "server" THEN Tail(script[p])
                       ELSE IF asked < MaxAsked THEN Request("get") ELSE <<Ended>>]
      BY <2>2 DEF EndRound, Ended
    <3> QED BY <1>1, <3>1, <3>2, <3>3
  <2> QED BY <2>1, <2>2
<1>6. Windows'
  <2>1. DOMAIN script = Side BY DEF IInv, Scripts
  <2> QED BY <2>1, <1>1, <1>5, WindowKept DEF IInv
<1>7. Scripts'
  <2>1. hsData' = hsData /\ shaken' = shaken BY DEF greet
  <2> QED BY <2>1, <1>1, <1>5, ScriptMoves, ScriptsSame DEF IInv
<1> QED BY <1>4, <1>6, <1>7

LEMMA LingerRecvInv ==
  ASSUME IInv, NEW p \in Side, LingerRecv(p)
  PROVE  IInv'
<1>1. PICK d \in Arrived(p) : Read(p, d) /\ outbox' = [outbox EXCEPT ![p] = <<Ack("ACK", d.seq)>>]
  BY DEF LingerRecv
<1>2. /\ UNCHANGED <<scenario, typed, numbers, seq, lastSeq, winBuf, winBufPos, got, served>>
      /\ UNCHANGED greet /\ InCall(p, "linger") /\ EndRound(p)
  BY DEF LingerRecv, greet, plan, window
<1>3. Counters' /\ Windows' /\ Scripts' BY <1>2, EndRoundInv
<1>4. Greeting' BY <1>2, GreetingSame DEF IInv
<1>5. OnTheWay'
  <2>1. hsData' = hsData BY <1>2 DEF greet
  <2>2. d.seq \in Int
    <3>1. d \in Datagram BY ArrivedTyped DEF IInv
    <3> QED BY <3>1, Constants DEF Datagram
  <2>3. outbox' \in [Side -> Seq(Travelling)] BY <2>2, <1>1, AckSent DEF IInv
  <2> QED BY <2>1, <2>3, <1>1, WayKept DEF IInv
<1> QED BY <1>3, <1>4, <1>5 DEF IInv

LEMMA LingerTimeoutInv ==
  ASSUME IInv, NEW p \in Side, LingerTimeout(p)
  PROVE  IInv'
<1>1. /\ UNCHANGED <<scenario, typed, numbers, outbox, seq, lastSeq, winBuf, winBufPos, got, served>>
      /\ UNCHANGED greet /\ UNCHANGED links /\ InCall(p, "linger") /\ EndRound(p)
  BY DEF LingerTimeout, greet, plan, window
<1>2. Counters' /\ Windows' /\ Scripts' BY <1>1, EndRoundInv
<1>3. Greeting' BY <1>1, GreetingSame DEF IInv
<1>4. OnTheWay'
  <2>1. hsData' = hsData BY <1>1 DEF greet
  <2> QED BY <2>1, <1>1, OutboxKept, WayKept DEF IInv
<1> QED BY <1>2, <1>3, <1>4 DEF IInv

-------------------------------------------------------------------------------
\* A request is typed, or the client ends and another is started.
LEMMA TypeInv ==
  ASSUME IInv, Type
  PROVE  IInv'
<1> DEFINE c == "client"
           t == Head(typed)
           blank == [k \in 1..(Chunks + 2) |-> NoPacket]
           s == (IF shaken THEN <<>> ELSE <<handshake>>) \o Request(t)
<1>1. /\ UNCHANGED <<scenario, winBufPos, rounds, hsData, got, served>>
      /\ script[c] = <<>> /\ outbox[c] = <<>> /\ typed # <<>> /\ typed' = Tail(typed)
      /\ seq' = [seq EXCEPT ![c] = 0] /\ lastSeq' = [lastSeq EXCEPT ![c] = None]
      /\ winBuf' = [winBuf EXCEPT ![c] = blank]
      /\ toClient' = <<>> /\ UNCHANGED <<toClientHeld, toServer, toServerHeld>>
  BY DEF Type, KeepLink
<1>2. \/ /\ shaken' = FALSE
         /\ \E n \in Starts \ {numbers[c]} : numbers' = [numbers EXCEPT ![c] = n]
         /\ UNCHANGED <<script, outbox, asked>>
      \/ /\ asked' = asked + 1
         /\ UNCHANGED <<shaken, numbers>>
         /\ script' = [script EXCEPT ![c] = s]
         /\ outbox' = IF shaken THEN outbox ELSE [outbox EXCEPT ![c] = <<hello>>]
  BY DEF Type
<1>3. c \in Side /\ "server" \in Side /\ c # "server" /\ \A p \in Side : p = c \/ p = "server"
  BY Sides
<1>4. Counters'
  <2>1. typed' \in Seq({"get", "put", "quit"}) BY <1>1, TailOf DEF IInv, Counters
  <2>2. seq' \in [Side -> 0..(M - 1)]
    <3>1. 0 \in 0..(M - 1) BY Constants
    <3> QED BY <3>1, <1>1 DEF IInv, Counters
  <2>3. lastSeq' \in [Side -> None..(M - 1)]
    <3>1. None \in None..(M - 1) BY Constants DEF None
    <3> QED BY <3>1, <1>1 DEF IInv, Counters
  <2>4. numbers' \in [Side -> Starts] BY <1>2 DEF IInv, Counters
  <2>5. asked' \in Nat BY <1>2 DEF IInv, Counters
  <2> QED BY <2>1, <2>2, <2>3, <2>4, <2>5, <1>1 DEF IInv, Counters, None
<1>5. winBufPos[c] = 0 BY <1>1, <1>3, EmptyWindow DEF IInv
<1>6. /\ \A o \in Side : o # c => script'[o] = script[o] /\ winBuf'[o] = winBuf[o]
      /\ winBuf' \in [Side -> [1..(Chunks + 2) -> Own \cup {NoPacket}]]
  BY <1>1, <1>2 DEF IInv, Windows, Scripts
<1>7. Windows'
  <2>1. ASSUME NEW o \in Side
        PROVE  /\ winBufPos'[o] <= Sent
               /\ \A k \in 1..winBufPos'[o] : winBuf'[o][k] # NoPacket
               /\ winBufPos'[o] > 0 => script'[o] # <<>> /\ Head(script'[o]).op = "send"
    <3>1. CASE o = c
      <4>1. winBufPos'[c] = 0 BY <1>1, <1>5
      <4>2. Sent \in Nat BY SentSlots DEF IInv
      <4> QED BY <3>1, <4>1, <4>2
    <3>2. CASE o # c BY <3>2, <1>1, <1>6 DEF IInv, Windows
    <3> QED BY <3>1, <3>2
  <2>2. Own' = Own /\ Sent' = Sent BY <1>1 DEF Own, Sent
  <2>3. winBufPos' \in [Side -> Nat] BY <1>1 DEF IInv, Windows
  <2> QED BY <2>1, <2>2, <2>3, <1>6 DEF Windows
<1>8. Scripts'
  <2>1. CASE script' = script
    BY <2>1, <1>1 DEF IInv, Scripts, None, Call, SendCall, RecvCall, srv_wait4cnn, handshake,
                      Ended, Calls
  <2>2. CASE script' = [script EXCEPT ![c] = s] /\ shaken' = shaken
    <3> DEFINE A == Call \cup {handshake, Ended}
    <3>1. Request(t) \in Seq(Call) BY RequestTyped
    <3>2. Request(t) \in Seq(A) /\ handshake \in A
      <4>1. Call \subseteq A OBVIOUS
      <4> QED BY <3>1, <4>1, SeqMonotonic
    <3>3. /\ s \in Seq(A)
          /\ s # <<>> => Tail(s) \in Seq(Call) /\ (Head(s) \in Call => shaken)
      <4> DEFINE r == Request(t)
      <4>1. r \in Seq(Call) /\ r \in Seq(A) BY <3>1, <3>2
      <4> HIDE DEF r, A
      <4>2. CASE shaken
        <5>1. s = r BY <4>2, <4>1, ConcatEmptySeq DEF r
        <5> QED BY <4>1, <4>2, <5>1, TailOf
      <4>3. CASE ~shaken
        <5>1. s = <<handshake>> \o r BY <4>3 DEF r
        <5>2. <<handshake>> \in Seq(A) BY <3>2, OneOf
        <5>3. s \in Seq(A) BY <5>1, <5>2, <4>1, ConcatProperties
        <5>4. Head(s) = handshake /\ Tail(s) = r
          <6> DEFINE S == A
          <6>1. handshake \in A /\ r \in Seq(A) BY <3>2, <4>1
          <6>2. \A x \in A : Head(<<x>> \o r) = x /\ Tail(<<x>> \o r) = r BY <6>1
          <6> QED BY <6>1, <6>2, <5>1
        <5> QED BY <5>3, <5>4, <4>1, Asking
      <4> QED BY <4>2, <4>3
    <3> HIDE DEF s
    <3>4. /\ script' \in [Side -> Seq(A)] /\ script'[c] = s
          /\ script'["server"] = script["server"]
      BY <2>2, <3>3, <1>3 DEF IInv, Scripts
    <3>5. \A p \in Side : script'[p] # <<>> => Tail(script'[p]) \in Seq(Call)
      BY <3>3, <3>4, <1>3 DEF IInv, Scripts
    <3>6. IF hsData' = None THEN script'["server"] = <<handshake>> ELSE script'["server"] \in Seq(Call)
      BY <3>4, <1>1 DEF IInv, Scripts
    <3>7. None' = None /\ Call' = Call /\ handshake' = handshake /\ Ended' = Ended
      BY DEF None, Call, SendCall, RecvCall, srv_wait4cnn, handshake, Ended, Calls
    <3> QED BY <2>2, <3>3, <3>4, <3>5, <3>6, <3>7 DEF Scripts
  <2> QED BY <2>1, <2>2, <1>2
<1>9. Greeting'
  <2>1. hsData' \in Nat \cup {None} /\ None' = None BY <1>1 DEF IInv, Greeting, None
  <2>2. shaken' = FALSE \/ (shaken' = shaken /\ numbers' = numbers) BY <1>2
  <2>3. CASE shaken' = FALSE BY <2>1, <2>3 DEF Greeting
  <2>4. CASE shaken' = shaken /\ numbers' = numbers
    BY <2>1, <2>4, <1>1 DEF IInv, Greeting
  <2> QED BY <2>2, <2>3, <2>4
<1>10. OnTheWay'
  <2>1. /\ outbox \in [Side -> Seq(Travelling)]
        /\ \A p \in Side : Incoming(p) \in Seq(Travelling) /\ Held(p) \in Travelling \cup {NoPacket}
    BY DEF IInv, OnTheWay
  <2>2. Travelling' = Travelling BY <1>1 DEF Travelling
  <2>3. numbers' \in [Side -> Starts] BY <1>4 DEF Counters
  <2>4. outbox' \in [Side -> Seq(Travelling)]
    <3>1. numbers'[c] \in Nat BY <2>3, <1>3, Constants
    <3>2. hello \in Datagram
      <4>1. 0 \in 0..(M - 1) BY Constants
      <4> QED BY <3>1, <4>1 DEF hello, Datagram, Content, Kind
    <3>3. hello.content.kind # "answer" BY DEF hello
    <3>4. hello \in Travelling BY <3>2, <3>3 DEF Travelling
    <3>5. <<hello>> \in Seq(Travelling) BY <3>4, OneOf
    <3> DEFINE h == <<hello>>
    <3> HIDE DEF h
    <3>6. h \in Seq(Travelling) BY <3>5 DEF h
    <3>7. outbox' = outbox \/ outbox' = [outbox EXCEPT ![c] = h] BY <1>2 DEF h
    <3> QED BY <3>6, <3>7, <2>1
  <2>5. /\ Incoming("server")' = Incoming("server") /\ Held("server")' = Held("server")
        /\ Incoming(c)' = <<>> /\ Held(c)' = Held(c)
    BY <1>1 DEF Incoming, Held
  <2>6. \A p \in Side : Incoming(p)' \in Seq(Travelling) /\ Held(p)' \in Travelling \cup {NoPacket}
    BY <2>1, <2>5, <1>3, EmptySeq
  <2> QED BY <2>2, <2>4, <2>6 DEF OnTheWay
<1> QED BY <1>4, <1>7, <1>8, <1>9, <1>10 DEF IInv

-------------------------------------------------------------------------------
\* The handshake.
LEMMA HandshakeTimeoutInv ==
  ASSUME IInv, HandshakeTimeout
  PROVE  IInv'
<1>1. /\ UNCHANGED <<scenario, typed, numbers, script, seq, lastSeq, winBuf, winBufPos, rounds, got,
                     asked, served>>
      /\ UNCHANGED greet /\ UNCHANGED links
      /\ outbox' = [outbox EXCEPT !["client"] = <<hello>>]
  BY DEF HandshakeTimeout, plan, window, greet, history
<1>2. Counters' BY <1>1, CountersSame DEF IInv
<1>3. Windows' BY <1>1, WindowsSame DEF IInv
<1>4. Scripts' BY <1>1, ScriptsSame DEF IInv
<1>5. Greeting' BY <1>1, GreetingSame DEF IInv
<1>6. OnTheWay'
  <2>1. numbers'["client"] \in Nat BY <1>2, Sides, Constants DEF Counters
  <2>2. 0 \in 0..(M - 1) BY Constants
  <2>3. hello \in Datagram BY <2>1, <2>2 DEF hello, Datagram, Content, Kind
  <2>4. hello.content.kind # "answer" BY DEF hello
  <2>5. hello \in Travelling BY <2>3, <2>4 DEF Travelling
  <2> DEFINE h == <<hello>>
  <2>6. h \in Seq(Travelling) BY <2>5, OneOf
  <2>7. outbox' = [outbox EXCEPT !["client"] = h] BY <1>1
  <2> HIDE DEF h
  <2>8. outbox' \in [Side -> Seq(Travelling)] BY <2>6, <2>7, Sides, OutboxSet DEF IInv
  <2>9. hsData' = hsData BY <1>1 DEF greet
  <2> QED BY <2>8, <2>9, <1>1, Sides, WayKept DEF IInv
<1> QED BY <1>2, <1>3, <1>4, <1>5, <1>6 DEF IInv

\* Only an answer with the client's number lets it go on; all answers have the
\* server's.
LEMMA ClientHandshakeInv ==
  ASSUME IInv, ClientHandshake
  PROVE  IInv'
<1> DEFINE c == "client"
<1>1. \E d \in Arrived(c) :
        /\ Read(c, d)
        /\ \/ /\ IsOwn(d) /\ script' = [script EXCEPT ![c] = Tail(@)] /\ shaken' = TRUE
              /\ seq' = [seq EXCEPT ![c] = d.content.id % M]
           \/ script' = [script EXCEPT ![c] = <<>>] /\ UNCHANGED <<shaken, seq>>
  BY DEF ClientHandshake
<1> PICK d \in Arrived(c) :
        /\ Read(c, d)
        /\ \/ /\ IsOwn(d) /\ script' = [script EXCEPT ![c] = Tail(@)] /\ shaken' = TRUE
              /\ seq' = [seq EXCEPT ![c] = d.content.id % M]
           \/ script' = [script EXCEPT ![c] = <<>>] /\ UNCHANGED <<shaken, seq>>
  BY <1>1
<1>2. /\ UNCHANGED <<scenario, typed, numbers, outbox, lastSeq, winBuf, winBufPos, rounds, got,
                     asked, served, hsData>>
      /\ script[c] # <<>> /\ Head(script[c]).op = "handshake" /\ c \in Side /\ c # "server"
  BY Sides DEF ClientHandshake, InCall, plan, window, history
<1>3. d \in Travelling /\ d \in Datagram BY <1>2, ArrivedTyped DEF IInv
<1>4. IsOwn(d) => hsData = numbers[c] BY <1>3 DEF IsOwn, Travelling
<1>5. Counters'
  <2>1. d.content.id \in Int BY <1>3 DEF Datagram, Content
  <2>2. d.content.id % M \in 0..(M - 1) BY <2>1, Modulo
  <2>3. seq' \in [Side -> 0..(M - 1)] BY <2>2 DEF IInv, Counters
  <2> QED BY <2>3, <1>2 DEF IInv, Counters, None
<1>6. script[c] # <<>> /\ Tail(script[c]) \in Seq(Call) BY <1>2 DEF IInv, Scripts
<1>7. \E s \in Seq(Call) : /\ script' = [script EXCEPT ![c] = s]
                           /\ s = <<>> \/ shaken'
  BY <1>6, EmptySeq
<1> PICK s \in Seq(Call) : script' = [script EXCEPT ![c] = s] /\ (s = <<>> \/ shaken')
  BY <1>7
<1>8. Windows'
  <2>1. winBufPos[c] = 0 BY <1>2, EmptyWindow DEF IInv
  <2>2. DOMAIN script = Side BY DEF IInv, Scripts
  <2> QED BY <2>1, <2>2, <1>2, WindowKept DEF IInv
<1>9. Scripts'
  <2> DEFINE A == Call \cup {handshake, Ended}
  <2>1. s \in Seq(A)
    <3>1. Call \subseteq A OBVIOUS
    <3> QED BY <3>1, SeqMonotonic
  <2>2. /\ script' \in [Side -> Seq(A)] /\ script'[c] = s
        /\ \A o \in Side : o # c => script'[o] = script[o]
    <3>1. script \in [Side -> Seq(A)] BY DEF IInv, Scripts
    <3> HIDE DEF A
    <3> QED BY <3>1, <2>1, <1>2
  <2>3. \A o \in Side : script'[o] # <<>> => Tail(script'[o]) \in Seq(Call)
    BY <2>2, TailOf DEF IInv, Scripts
  <2>4. None' = None /\ Call' = Call /\ handshake' = handshake /\ Ended' = Ended
    BY DEF None, Call, SendCall, RecvCall, srv_wait4cnn, handshake, Ended, Calls
  <2>5. IF hsData' = None THEN script'["server"] = <<handshake>> ELSE script'["server"] \in Seq(Call)
    BY <2>2, <1>2, Sides DEF IInv, Scripts
  <2> QED BY <2>2, <2>3, <2>4, <2>5 DEF Scripts
<1>10. Greeting'
  <2>1. /\ hsData' = hsData /\ numbers' = numbers /\ None' = None
        /\ hsData \in Nat \cup {None} /\ shaken \in BOOLEAN
        /\ shaken => hsData = numbers[c]
    BY <1>2 DEF IInv, Greeting, None
  <2>2. (shaken' = TRUE /\ hsData = numbers[c]) \/ shaken' = shaken BY <1>4
  <2>3. shaken' \in BOOLEAN BY <2>1, <2>2
  <2>4. shaken' => hsData' = numbers'[c] BY <2>1, <2>2
  <2>5. hsData' \in Nat \cup {None'} BY <2>1
  <2> QED BY <2>3, <2>4, <2>5 DEF Greeting
<1>11. OnTheWay' BY <1>2, OutboxKept, WayKept DEF IInv
<1> QED BY <1>5, <1>8, <1>9, <1>10, <1>11 DEF IInv

\* The server's only handshake: there is no answer yet, and no client goes on.
LEMMA ServerHandshakeInv ==
  ASSUME IInv, ServerHandshake
  PROVE  IInv'
<1> DEFINE v == "server"
<1>1. PICK d \in Arrived(v) :
        Read(v, d) /\ hsData' = d.content.n /\ seq' = [seq EXCEPT ![v] = d.content.n % M]
  BY DEF ServerHandshake
<1>2. /\ UNCHANGED <<scenario, typed, numbers, lastSeq, winBuf, winBufPos, rounds, got,
                     asked, served, shaken>>
      /\ script[v] # <<>> /\ Head(script[v]).op = "handshake" /\ v \in Side /\ v # "client"
      /\ outbox' = [outbox EXCEPT ![v] = <<answer>>]
      /\ script' = [script EXCEPT ![v] = client_handler]
  BY Sides DEF ServerHandshake, InCall, plan, window, history
<1>3. hsData = None
  <2>1. ASSUME hsData # None PROVE FALSE
    <3>1. script[v] \in Seq(Call) BY <2>1 DEF IInv, Scripts
    <3>2. Head(script[v]) \in Call BY <3>1, <1>2, TailOf
    <3>3. \A x \in Call : x.op # "handshake"
      <4>1. /\ \A x \in SendCall : x.op = "send"
            /\ \A x \in RecvCall : x.op = "recv"
            /\ srv_wait4cnn.op = "linger"
        BY DEF SendCall, RecvCall, srv_wait4cnn, Calls
      <4> QED BY <4>1 DEF Call
    <3> QED BY <3>2, <3>3, <1>2
  <2> QED BY <2>1
<1>4. numbers["client"] \in Nat /\ numbers[v] \in Nat BY Sides, Constants DEF IInv, Counters
<1>5. shaken = FALSE
  <2>1. None \notin Nat BY DEF None
  <2> QED BY <2>1, <1>3, <1>4 DEF IInv, Greeting
<1>6. d \in Datagram /\ d.content.n \in Nat /\ hsData' \in Nat /\ hsData' # None
  <2>1. d \in Datagram BY <1>2, ArrivedTyped DEF IInv
  <2>2. d.content.n \in Nat BY <2>1 DEF Datagram, Content
  <2> QED BY <2>1, <2>2, <1>1 DEF None
<1>7. Counters'
  <2>1. d.content.n \in Int BY <1>6
  <2>2. d.content.n % M \in 0..(M - 1) BY <2>1, Modulo
  <2>3. seq' \in [Side -> 0..(M - 1)] BY <2>2, <1>1 DEF IInv, Counters
  <2> QED BY <2>3, <1>2 DEF IInv, Counters, None
<1>8. Windows'
  <2>1. winBufPos[v] = 0 BY <1>2, EmptyWindow DEF IInv
  <2>2. DOMAIN script = Side BY DEF IInv, Scripts
  <2> QED BY <2>1, <2>2, <1>2, WindowKept DEF IInv
<1>9. Scripts'
  <2> DEFINE A == Call \cup {handshake, Ended}
             s == client_handler
  <2>1. s \in Seq(Call) BY ServingTyped
  <2> HIDE DEF s
  <2>2. s \in Seq(A)
    <3>1. Call \subseteq A OBVIOUS
    <3> QED BY <2>1, <3>1, SeqMonotonic
  <2>3. script' = [script EXCEPT ![v] = s] BY <1>2 DEF s
  <2>4. /\ script' \in [Side -> Seq(A)] /\ script'[v] = s
        /\ \A o \in Side : o # v => script'[o] = script[o]
    BY <2>2, <2>3, <1>2 DEF IInv, Scripts
  <2>5. \A o \in Side : script'[o] # <<>> => Tail(script'[o]) \in Seq(Call)
    BY <2>1, <2>4, TailOf DEF IInv, Scripts
  <2>6. None' = None /\ Call' = Call /\ handshake' = handshake /\ Ended' = Ended
    BY DEF None, Call, SendCall, RecvCall, srv_wait4cnn, handshake, Ended, Calls
  <2>7. script'["client"] # <<>> /\ Head(script'["client"]) \in Call => shaken'
    BY <2>4, <1>2, Sides DEF IInv, Scripts
  <2>8. IF hsData' = None THEN script'["server"] = <<handshake>> ELSE script'["server"] \in Seq(Call)
    BY <2>1, <2>4, <1>6
  <2> QED BY <2>4, <2>5, <2>6, <2>7, <2>8 DEF Scripts
<1>10. Greeting' BY <1>2, <1>5, <1>6 DEF Greeting
<1>11. OnTheWay'
  <2>1. Travelling \subseteq Travelling'
    <3>1. \A x \in Datagram : x.content.n \in Nat BY DEF Datagram, Content
    <3>2. None \notin Nat BY DEF None
    <3>3. \A x \in Travelling : x \in Datagram /\ x.content.kind # "answer"
      BY <3>1, <3>2, <1>3 DEF Travelling
    <3>4. \A x \in Datagram : x.content.kind # "answer" => x \in Travelling' BY DEF Travelling
    <3> QED BY <3>3, <3>4
  <2>2. Seq(Travelling) \subseteq Seq(Travelling') BY <2>1, SeqMonotonic
  <2>3. answer \in Travelling'
    <3>1. 0 \in 0..(M - 1) BY Constants
    <3>2. answer \in Datagram BY <3>1, <1>4, <1>6 DEF answer, Datagram, Content, Kind
    <3>3. answer.content.n = hsData' BY DEF answer
    <3> QED BY <3>2, <3>3 DEF Travelling
  <2> DEFINE h == <<answer>>
  <2>4. h \in Seq(Travelling') BY <2>3, OneOf
  <2>5. outbox' = [outbox EXCEPT ![v] = h] BY <1>2
  <2> HIDE DEF h
  <2>6. outbox' \in [Side -> Seq(Travelling')] BY <2>2, <2>4, <2>5 DEF IInv, OnTheWay
  <2>7. ASSUME NEW o \in Side
        PROVE  Incoming(o)' \in Seq(Travelling') /\ Held(o)' \in Travelling' \cup {NoPacket}
    <3>1. Incoming(o) \in Seq(Travelling) /\ Held(o) \in Travelling \cup {NoPacket}
      BY DEF IInv, OnTheWay
    <3>2. Incoming(o)' \in Seq(Travelling) /\ Held(o)' = Held(o)
      <4>1. /\ Incoming(v) # <<>> /\ Incoming(v)' = Tail(Incoming(v)) /\ Held(v)' = Held(v)
            /\ Incoming(Other(v))' = Incoming(Other(v)) /\ Held(Other(v))' = Held(Other(v))
        BY <1>1, <1>2, ReadTakes
      <4>2. CASE o = v BY <3>1, <4>1, <4>2, TailOf
      <4>3. CASE o = Other(v) BY <3>1, <4>1, <4>3
      <4> QED BY <4>2, <4>3, Sides
    <3> QED BY <3>1, <3>2, <2>1, <2>2
  <2> QED BY <2>6, <2>7 DEF OnTheWay
<1> QED BY <1>7, <1>8, <1>9, <1>10, <1>11 DEF IInv

-------------------------------------------------------------------------------
\* The invariant holds first.
LEMMA InitInv == Init => IInv
<1> SUFFICES ASSUME Init PROVE IInv
  OBVIOUS
<1>1. /\ scenario \in Scenarios /\ typed = scenario.typed
      /\ script = [client |-> <<>>, server |-> <<handshake>>]
      /\ outbox = [p \in Side |-> <<>>]
      /\ seq = [p \in Side |-> 0] /\ lastSeq = [p \in Side |-> None]
      /\ winBuf = [p \in Side |-> [k \in 1..(Chunks + 2) |-> NoPacket]]
      /\ winBufPos = [p \in Side |-> 0]
      /\ rounds = Linger
      /\ numbers \in [Side -> Starts] /\ shaken = FALSE /\ hsData = None
      /\ got = <<>> /\ asked = 0 /\ served = 0
      /\ \A p \in Side : Incoming(p) = <<>> /\ Held(p) = NoPacket
  BY DEF Init, Up!LinkInit, Down!LinkInit, Incoming, Held
<1>2. Counters
  <2>1. typed \in Seq({"get", "put", "quit"}) BY <1>1, Constants
  <2>2. seq \in [Side -> 0..(M - 1)]
    <3>1. 0 \in 0..(M - 1) BY Constants
    <3> QED BY <3>1, <1>1
  <2>3. lastSeq \in [Side -> None..(M - 1)]
    <3>1. None \in None..(M - 1) BY Constants DEF None
    <3> QED BY <3>1, <1>1
  <2>4. rounds \in [Side -> Nat] /\ \A p \in Side : rounds[p] \in 1..Linger[p]
    BY <1>1, Constants
  <2>5. got \in Seq(Content) /\ asked \in Nat /\ served \in Nat BY <1>1, EmptySeq
  <2> QED BY <1>1, <2>1, <2>2, <2>3, <2>4, <2>5 DEF Counters
<1>3. Windows
  <2>1. winBuf \in [Side -> [1..(Chunks + 2) -> Own \cup {NoPacket}]] /\ winBufPos \in [Side -> Nat]
    BY <1>1
  <2>2. ASSUME NEW p \in Side
        PROVE  /\ winBufPos[p] <= Sent
               /\ \A k \in 1..winBufPos[p] : winBuf[p][k] # NoPacket
               /\ winBufPos[p] > 0 => script[p] # <<>> /\ Head(script[p]).op = "send"
    <3>1. winBufPos[p] = 0 BY <1>1
    <3>2. Sent \in Nat BY <1>2, SentSlots
    <3> QED BY <3>1, <3>2
  <2> QED BY <2>1, <2>2 DEF Windows
<1>4. Scripts
  <2> DEFINE A == Call \cup {handshake, Ended}
             h == <<handshake>>
  <2>1. handshake \in A OBVIOUS
  <2>2. h \in Seq(A) /\ h # <<>> /\ Tail(h) = <<>> /\ <<>> \in Seq(A) BY <2>1, OneOf
  <2>3. script = [client |-> <<>>, server |-> h] BY <1>1
  <2>4. Scripts <=> /\ script \in [Side -> Seq(A)]
                    /\ \A p \in Side : script[p] # <<>> => Tail(script[p]) \in Seq(Call)
                    /\ script["client"] # <<>> /\ Head(script["client"]) \in Call => shaken
                    /\ IF hsData = None THEN script["server"] = h ELSE script["server"] \in Seq(Call)
    BY DEF Scripts
  <2> HIDE DEF A, h
  <2>5. script \in [Side -> Seq(A)]
    <3>1. \A a, b \in Seq(A) : [client |-> a, server |-> b] \in [Side -> Seq(A)] BY DEF Side
    <3> QED BY <3>1, <2>2, <2>3
  <2>6. script["client"] = <<>> /\ script["server"] = h BY <2>3
  <2>7. \A p \in Side : script[p] # <<>> => Tail(script[p]) \in Seq(Call)
    BY <2>2, <2>6, EmptySeq DEF Side
  <2> QED BY <2>4, <2>5, <2>6, <2>7, <1>1
<1>5. Greeting BY <1>1 DEF Greeting
<1>6. OnTheWay
  <2>1. <<>> \in Seq(Travelling) BY EmptySeq
  <2> QED BY <2>1, <1>1 DEF OnTheWay
<1> QED BY <1>2, <1>3, <1>4, <1>5, <1>6 DEF IInv

LEMMA StepInv ==
  ASSUME IInv, NEW p \in Side, Step(p)
  PROVE  IInv'
<1>1. \/ lib_sendto(p) \/ Send(p) \/ Timeout(p) \/ RecvAck(p) \/ RecvNack(p) \/ RecvUnknown(p)
      \/ RecvAnswer(p) \/ RecvHello(p) \/ Refuse(p) \/ Accept(p)
      \/ LingerRecv(p) \/ LingerTimeout(p)
  BY DEF Step
<1>2. CASE lib_sendto(p) BY <1>2, SendToInv
<1>3. CASE Send(p) BY <1>3, SendInv
<1>4. CASE Timeout(p) BY <1>4, TimeoutInv
<1>5. CASE RecvAck(p) BY <1>5, RecvAckInv
<1>6. CASE RecvNack(p) BY <1>6, RecvNackInv
<1>7. CASE RecvUnknown(p) BY <1>7, RecvUnknownInv
<1>8. CASE RecvAnswer(p) BY <1>8, RecvAnswerInv
<1>9. CASE RecvHello(p) BY <1>9, RecvHelloInv
<1>10. CASE Refuse(p) BY <1>10, RefuseInv
<1>11. CASE Accept(p) BY <1>11, AcceptInv
<1>12. CASE LingerRecv(p) BY <1>12, LingerRecvInv
<1>13. CASE LingerTimeout(p) BY <1>13, LingerTimeoutInv
<1> QED BY <1>1, <1>2, <1>3, <1>4, <1>5, <1>6, <1>7, <1>8, <1>9, <1>10, <1>11, <1>12, <1>13

(* The types, the scripts, that answers repeat the server's hsData, and    *)
(* that a client which goes on has this number: the inductive invariant.   *)
THEOREM SockSessionInvariant == Spec => []IInv
<1>1. IInv /\ [Next]_vars => IInv'
  <2> SUFFICES ASSUME IInv, [Next]_vars PROVE IInv'
    OBVIOUS
  <2>1. CASE Type BY <2>1, TypeInv
  <2>2. CASE HandshakeTimeout BY <2>2, HandshakeTimeoutInv
  <2>3. CASE ClientHandshake BY <2>3, ClientHandshakeInv
  <2>4. CASE ServerHandshake BY <2>4, ServerHandshakeInv
  <2>5. ASSUME NEW p \in Side, Step(p) PROVE IInv' BY <2>5, StepInv
  <2>6. CASE Release BY <2>6, ReleaseInv
  <2>7. CASE UNCHANGED vars
    <3>1. /\ UNCHANGED <<scenario, typed, script, outbox, seq, lastSeq, winBuf, winBufPos, rounds, got,
                         asked, served, numbers>>
          /\ UNCHANGED greet /\ UNCHANGED links /\ hsData' = hsData
      BY <2>7 DEF vars, plan, window, clock, greet, links, history
    <3>2. OnTheWay' BY <3>1, Sides, OutboxKept, WayKept DEF IInv
    <3> QED BY <3>1, <3>2, CountersSame, WindowsSame, ScriptsSame, GreetingSame DEF IInv
  <2>8. \/ Type \/ HandshakeTimeout \/ ClientHandshake \/ ServerHandshake
        \/ (\E p \in Side : Step(p)) \/ Release \/ UNCHANGED vars
    BY DEF Next, Handshake
  <2> QED BY <2>1, <2>2, <2>3, <2>4, <2>5, <2>6, <2>7, <2>8
<1> QED BY <1>1, InitInv, PTL DEF Spec

(* Whatever is lost, late or left over from an earlier client, the numbers *)
(* sent stay below SEQUENCE_NUM_MAX, a window holds packets only in a      *)
(* send, and srv_wait4cnn lasts no longer than its rounds.                 *)
THEOREM SockSessionTypes == Spec => []TypeOK
<1>1. IInv => TypeOK
  <2> SUFFICES ASSUME IInv PROVE TypeOK
    OBVIOUS
  <2> DEFINE C == [op : {"send", "recv", "linger", "handshake", "end"},
                   what : Kind \cup {"header", "gets", "puts", "response", ""}, n : Nat]
  <2>1. script \in [Side -> Seq(C)]
    <3>1. Call \cup {handshake, Ended} \subseteq C
      <4>1. SendCall \subseteq C BY DEF SendCall, Kind
      <4>2. RecvCall \subseteq C BY DEF RecvCall, Kind
      <4>3. srv_wait4cnn \in C /\ handshake \in C /\ Ended \in C
        BY DEF srv_wait4cnn, handshake, Ended, Calls, Kind
      <4> QED BY <4>1, <4>2, <4>3 DEF Call
    <3>2. Seq(Call \cup {handshake, Ended}) \subseteq Seq(C) BY <3>1, SeqMonotonic
    <3> HIDE DEF C
    <3> QED BY <3>2 DEF IInv, Scripts
  <2>2. Seq(Travelling) \subseteq Seq(Datagram) BY OwnTravels, SeqMonotonic
  <2>3. \A p \in Side : outbox[p] \in Seq(Datagram) BY <2>2 DEF IInv, OnTheWay
  <2>4. toServer \in Seq(Datagram) /\ toClient \in Seq(Datagram)
    <3>1. Incoming("server") = toServer /\ Incoming("client") = toClient BY DEF Incoming
    <3> QED BY <3>1, <2>2, Sides DEF IInv, OnTheWay
  <2>5. /\ seq \in [Side -> 0..(M - 1)] /\ lastSeq \in [Side -> None..(M - 1)]
        /\ \A p \in Side : rounds[p] \in 1..Linger[p]
        /\ got \in Seq(Content)
    BY DEF IInv, Counters
  <2>6. ASSUME NEW p \in Side
        PROVE  /\ winBufPos[p] \in 0..Sent /\ \A k \in 1..winBufPos[p] : winBuf[p][k] \in Datagram
               /\ winBufPos[p] > 0 => Head(script[p]).op = "send"
    <3>1. Sent \in Nat BY SentSlots DEF IInv
    <3>2. /\ winBufPos[p] \in 0..(Chunks + 1) /\ winBufPos[p] <= Sent
          /\ \A k \in 1..winBufPos[p] : winBuf[p][k] \in Own
      BY SlotsOwn DEF IInv
    <3>3. Own \subseteq Datagram BY DEF Own
    <3>4. winBufPos[p] > 0 => Head(script[p]).op = "send" BY DEF IInv, Windows
    <3> QED BY <3>1, <3>2, <3>3, <3>4
  <2> HIDE DEF C
  <2>7. script \in [Side -> Seq([op : {"send", "recv", "linger", "handshake", "end"},
                                 what : Kind \cup {"header", "gets", "puts", "response", ""},
                                 n : Nat])]
    BY <2>1 DEF C
  <2> QED BY <2>3, <2>4, <2>5, <2>6, <2>7 DEF TypeOK
<1> QED BY <1>1, SockSessionInvariant, PTL

(* The client that goes on with its request has shaken hands with this     *)
(* server, whose one answer a later client never takes for its own.        *)
THEOREM SockHandshakeIsOwn == Spec => []HandshakeIsOwn
<1>1. IInv => HandshakeIsOwn
  <2> SUFFICES ASSUME IInv, script["client"] # <<>>,
                      Head(script["client"]).op \notin {"handshake", "end"}
               PROVE  hsData = numbers["client"]
    BY DEF HandshakeIsOwn
  <2>1. Head(script["client"]) \in Call \cup {handshake, Ended} BY Sides, TailOf DEF IInv, Scripts
  <2>2. handshake.op = "handshake" /\ Ended.op = "end" BY DEF handshake, Ended, Calls
  <2>3. Head(script["client"]) \in Call BY <2>1, <2>2
  <2> QED BY <2>3 DEF IInv, Scripts, Greeting
<1> QED BY <1>1, SockSessionInvariant, PTL
===============================================================================
