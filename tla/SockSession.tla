------------------------------ MODULE SockSession ------------------------------
(***************************************************************************)
(* Build 3: the sessions of sample-3's client and server (client.cpp,      *)
(* server.cpp) over socklib and the router.                                *)
(*                                                                         *)
(* One handshake per process is followed by requests: header, request and  *)
(* file one way, response and file the other.  start is called again and   *)
(* again while it returns 0, and every request typed gets a SockClient of  *)
(* its own, with the numbers udp_init gives it.  Each side numbers its own *)
(* packets; the other side's numbers are learned from whatever comes first *)
(* when lastSeq is -1.                                                     *)
(*                                                                         *)
(* SockTransfer has the window in full.  Here a window never fills, so     *)
(* that it is empty when a call begins and when it returns, the 1000       *)
(* timeouts in a row that would end a send do not happen, and no socket    *)
(* call fails.  The first byte of a file or a name is taken to be neither  *)
(* a request's type nor a response's.                                      *)
(***************************************************************************)
EXTENDS Integers, Sequences, FiniteSets

CONSTANTS
  Scenarios,  \* what is typed, whether the file is there, whether its length is
              \* a multiple of BUFFER_LENGTH, whether memory never written may
              \* hold the number looked for, what may happen to datagrams (a set
              \* of "lost", "ackLost", "delay") and how often (bound)
  M,          \* SEQUENCE_NUM_MAX
  Starts,     \* the numbers rand may give a side
  Chunks,     \* packets recv_file waits for
  Linger,     \* rounds of srv_wait4cnn: 3 in the client, 26 in the server
  MaxAsked,   \* calls of start (bound)
  Cap,        \* datagrams a socket buffer holds (bound)
  NoPacket    \* nothing held by the router; a slot never written

Side == {"client", "server"}
Other(p) == IF p = "client" THEN "server" ELSE "client"

ASSUME SockSessionAssumption ==
  /\ Scenarios \subseteq [typed : Seq({"get", "put", "quit"}), exists : BOOLEAN, extra : BOOLEAN, wild : BOOLEAN,
                          network : SUBSET {"lost", "ackLost", "delay"}, faults : Nat]
  /\ M \in Nat \ {0} /\ Starts \subseteq Nat /\ Chunks \in Nat \ {0} /\ M > Chunks + 1
  /\ Linger \in [Side -> Nat \ {0}]
  /\ MaxAsked \in Nat /\ Cap \in Nat

VARIABLES
  scenario,        \* the scenario; never changes
  typed, faults,   \* what is still to be typed, and to go wrong on the way
  script,          \* calls each side has left, the head being the one it is in
  outbox,          \* datagrams still to be given to sendto
  seq, lastSeq,
  winBuf, winBufPos,
  arrACK, waitForACK,
  waited,          \* the side that has timed out last, with nothing read or begun since
  rounds,          \* rounds srv_wait4cnn has left
  numbers,         \* what rand has given for the handshake
  shaken,          \* ~ifHandShake
  hsData,          \* the client's number in the server's hsData, -1 before
  got,             \* what was written to the receiver's file
  toServer, toServerHeld, toClient, toClientHeld,    \* the two links
  asked,           \* history: calls of start
  served,          \* history: the call whose header the server has read
  taken,           \* history: the packets sock_recvfrom has returned
  happened         \* history: what has gone wrong

window  == <<winBuf, winBufPos, arrACK, waitForACK>>
clock   == <<waited, rounds>>
greet   == <<numbers, shaken, hsData>>
links   == <<toServer, toServerHeld, toClient, toClientHeld>>
plan    == <<scenario, typed, faults>>
history == <<asked, served, taken, happened>>
vars    == <<plan, script, outbox, seq, lastSeq, window, clock, greet, got, links, history>>

None == -1
NoSide == "none"

Sent == IF scenario.extra THEN Chunks + 1 ELSE Chunks

Kind == {"get", "put", "request", "ok", "error", "chunk", "hello", "answer"}
Content  == [kind : Kind, n : Nat, id : Nat]
Datagram == [type : {"REQUEST", "ACK", "NACK", "HANDSHAKE"}, seq : 0..(M - 1), content : Content]

ASSUME NoPacketAssumption == NoPacket \notin Datagram

Up   == INSTANCE RouterLink WITH Packet <- Datagram, queue <- toServer, held <- toServerHeld
Down == INSTANCE RouterLink WITH Packet <- Datagram, queue <- toClient, held <- toClientHeld

-------------------------------------------------------------------------------
Calls(op, what, n) == [op |-> op, what |-> what, n |-> n]

sock_sendtoEx(what, n) == Calls("send", what, n)
send_file              == Calls("send", "chunk", 1)
sock_recvfrom(use)     == Calls("recv", use, 0)
srv_wait4cnn           == Calls("linger", "", 0)
handshake              == Calls("handshake", "hello", 0)

\* Mutated: the last chunk is left to srv_wait4cnn.
RecvFileOneLess == [k \in 1..(Chunks - 1) |-> sock_recvfrom("chunk")]

\* Mutated: "while (fsize >= 0)".
RecvFileOneMore == [k \in 1..(Chunks + 1) |-> sock_recvfrom("chunk")]

recv_file == [k \in 1..Chunks |-> sock_recvfrom("chunk")]

InCall(p, op) == script[p] # <<>> /\ Head(script[p]).op = op /\ outbox[p] = <<>>

\* SockClient::start after the handshake.  send_file returns -1 always, so that
\* a put ends there, as it does when the file is missing.
Request(t) ==
  IF t = "get"
    THEN <<sock_sendtoEx("get", 0), sock_sendtoEx("request", 0), sock_recvfrom("response")>>
  ELSE IF scenario.exists
    THEN <<sock_sendtoEx("put", 0), sock_sendtoEx("request", 0), send_file>>
  ELSE <<>>

client_handler == <<sock_recvfrom("header")>>

Respond(kind, n) == <<sock_sendtoEx(kind, n)>>

\* The calls side p has left after sock_recvfrom has returned c.
NextCalls(p, c) ==
  LET use == Head(script[p]).what
  IN CASE use = "header" ->
            IF c.kind = "get" THEN <<sock_recvfrom("gets")>>
            ELSE IF c.kind = "put" THEN <<sock_recvfrom("puts")>>
            ELSE Respond("error", 0) \o client_handler
       [] use = "gets" ->
            (IF c.kind = "request" /\ scenario.exists
             THEN Respond("ok", Chunks) \o <<send_file>> ELSE Respond("error", 0))
              \o client_handler
       [] use = "puts" ->
            (IF c.kind = "request" THEN recv_file \o <<srv_wait4cnn>> \o Respond("ok", 0)
             ELSE Respond("error", 0)) \o client_handler
       [] use = "response" ->
            IF c.kind # "ok" THEN <<>>
            ELSE (IF c.n > 0 THEN recv_file ELSE <<>>) \o <<srv_wait4cnn>>
       [] use = "chunk" -> Tail(script[p])

Init ==
  /\ scenario \in Scenarios /\ typed = scenario.typed /\ faults = scenario.faults
  /\ script = [client |-> <<>>, server |-> <<handshake>>]
  /\ outbox = [p \in Side |-> <<>>]
  /\ seq = [p \in Side |-> 0] /\ lastSeq = [p \in Side |-> None]
  /\ winBuf = [p \in Side |-> [k \in 1..(Chunks + 2) |-> NoPacket]]
  /\ winBufPos = [p \in Side |-> 0]
  /\ arrACK = [p \in Side |-> {}] /\ waitForACK = [p \in Side |-> FALSE]
  /\ waited = NoSide /\ rounds = Linger
  /\ numbers \in [Side -> Starts] /\ shaken = FALSE /\ hsData = None
  /\ got = <<>>
  /\ Up!LinkInit /\ Down!LinkInit
  /\ asked = 0 /\ served = 0 /\ taken = [p \in Side |-> {}] /\ happened = {}

-------------------------------------------------------------------------------
Incoming(p) == IF p = "client" THEN toClient ELSE toServer
Held(p)     == IF p = "client" THEN toClientHeld ELSE toServerHeld
KeepLink(p) == IF p = "client" THEN UNCHANGED <<toClient, toClientHeld>>
                               ELSE UNCHANGED <<toServer, toServerHeld>>

\* The datagram recvfrom of p returns, if there is one.
Arrived(p) == {Head(q) : q \in {Incoming(p)} \ {<<>>}}

\* recvfrom of p reads d; the other direction is left alone.
Read(p, d) ==
  /\ IF p = "client" THEN Down!Take(d) ELSE Up!Take(d)
  /\ KeepLink(Other(p))

\* lib_sendto: the router forwards, delays or loses the datagram.
Suffers(what) ==
  /\ what \in scenario.network /\ faults > 0
  /\ faults' = faults - 1

lib_sendto(p) ==
  /\ outbox[p] # <<>>
  /\ outbox' = [outbox EXCEPT ![p] = Tail(@)]
  /\ LET d == Head(outbox[p])
     IN \/ /\ IF p = "client" THEN Up!Forward(d) ELSE Down!Forward(d)
           /\ UNCHANGED faults
        \/ /\ Suffers("delay")
           /\ IF p = "client" THEN Up!Hold(d) ELSE Down!Hold(d)
        \/ /\ Suffers(IF d.type \in {"ACK", "NACK"} THEN "ackLost" ELSE "lost")
           /\ KeepLink(Other(p))
  /\ KeepLink(p)
  /\ UNCHANGED <<scenario, typed, script, seq, lastSeq, window, clock, greet, got, history>>

Release ==
  /\ (Up!Release /\ KeepLink("client")) \/ (Down!Release /\ KeepLink("server"))
  /\ UNCHANGED <<plan, script, outbox, seq, lastSeq, window, clock, greet, got, history>>

\* 4.2 s without a datagram: nothing is on its way to p, and the other side
\* waits itself or is not there.  Every wait is as long, so that two sides that wait
\* time out in turn.
TimedOut(p) ==
  /\ Incoming(p) = <<>> /\ Held(p) = NoPacket
  /\ outbox[Other(p)] = <<>>
  /\ script[Other(p)] # <<>> =>
       /\ Incoming(Other(p)) = <<>> /\ Held(Other(p)) = NoPacket
       /\ Head(script[Other(p)]).op = "send" => winBufPos[Other(p)] > 0
       /\ Head(script[Other(p)]).op \in {"send", "linger"} => waited # p
  /\ waited' = p

-------------------------------------------------------------------------------
hello  == [type |-> "HANDSHAKE", seq |-> 0,
           content |-> [kind |-> "hello", n |-> numbers'["client"], id |-> 0]]
answer == [type |-> "REQUEST", seq |-> 0,
           content |-> [kind |-> "answer", n |-> hsData', id |-> numbers["server"]]]

(* main: a request is typed.  The SockClient before it is deleted with its *)
(* socket; "quit" ends the process, and another one is started.            *)
Type ==
  /\ script["client"] = <<>> /\ outbox["client"] = <<>>
  /\ typed # <<>> /\ asked < MaxAsked
  /\ typed' = Tail(typed)
  /\ LET t == Head(typed)
     IN \/ /\ t = "quit"
           /\ shaken' = FALSE
           /\ \E n \in Starts \ {numbers["client"]} : numbers' = [numbers EXCEPT !["client"] = n]
           /\ UNCHANGED <<script, outbox, asked>>
        \/ /\ t # "quit"
           /\ asked' = asked + 1
           /\ UNCHANGED <<shaken, numbers>>
           /\ script' = [script EXCEPT !["client"] =
                           (IF shaken THEN <<>> ELSE <<handshake>>) \o Request(t)]
           /\ outbox' = IF shaken THEN outbox ELSE [outbox EXCEPT !["client"] = <<hello>>]
  /\ seq' = [seq EXCEPT !["client"] = 0] /\ lastSeq' = [lastSeq EXCEPT !["client"] = None]
  /\ winBuf' = [winBuf EXCEPT !["client"] = [k \in 1..(Chunks + 2) |-> NoPacket]]
  /\ toClient' = <<>> /\ UNCHANGED toClientHeld /\ KeepLink("server")
  /\ waited' = NoSide
  /\ UNCHANGED <<scenario, faults, winBufPos, arrACK, waitForACK, rounds, hsData, got, served,
                 taken, happened>>

\* SockClient::handshake: what comes first is the answer, or start has failed.
HandshakeTimeout ==
  /\ InCall("client", "handshake") /\ TimedOut("client")
  /\ UNCHANGED numbers
  /\ outbox' = [outbox EXCEPT !["client"] = <<hello>>]
  /\ UNCHANGED <<plan, script, seq, lastSeq, window, rounds, shaken, hsData, got, links, history>>

\* Mutated: the number that comes back is not compared.
AnyAnswer(d) == d.content.kind = "answer"

IsOwn(d) == d.content.kind = "answer" /\ d.content.n = numbers["client"]

ClientHandshake ==
  /\ InCall("client", "handshake")
  /\ \E d \in Arrived("client") :
       /\ Read("client", d)
       /\ IF IsOwn(d)
          THEN /\ script' = [script EXCEPT !["client"] = Tail(@)]
               /\ shaken' = TRUE
               /\ seq' = [seq EXCEPT !["client"] = d.content.id % M]
          ELSE /\ script' = [script EXCEPT !["client"] = <<>>]
               /\ UNCHANGED <<shaken, seq>>
  /\ waited' = NoSide
  /\ UNCHANGED <<plan, outbox, lastSeq, window, rounds, numbers, hsData, got, history>>

\* SockServer::handshake, once.
ServerHandshake ==
  /\ InCall("server", "handshake")
  /\ \E d \in Arrived("server") :
       /\ Read("server", d)
       /\ hsData' = d.content.n
       /\ seq' = [seq EXCEPT !["server"] = d.content.n % M]
  /\ outbox' = [outbox EXCEPT !["server"] = <<answer>>]
  /\ script' = [script EXCEPT !["server"] = client_handler]
  /\ waited' = NoSide
  /\ UNCHANGED <<plan, lastSeq, window, rounds, numbers, shaken, got, history>>

-------------------------------------------------------------------------------
\* Sending.
Ack(type, n) == [type |-> type, seq |-> n % M, content |-> [kind |-> "ok", n |-> 0, id |-> 0]]

Contents(p) ==
  LET c  == Head(script[p])
      id == IF p = "client" THEN asked ELSE served
  IN IF c.what = "chunk" THEN [k \in 1..Sent |-> [kind |-> "chunk", n |-> k, id |-> id]]
     ELSE <<[kind |-> c.what, n |-> c.n, id |-> id]>>

\* send_all_win_packets(0) with the window as it is now.
SendAll(p) == /\ outbox' = [outbox EXCEPT ![p] = SubSeq(winBuf'[p], 1, winBufPos'[p])]
              /\ arrACK' = [arrACK EXCEPT ![p] = {}]
              /\ waitForACK' = [waitForACK EXCEPT ![p] = FALSE]

\* sock_sendtoEx and send_file: copy_2_winbuf, then send.
Send(p) ==
  /\ InCall(p, "send") /\ winBufPos[p] = 0
  /\ LET new == Contents(p)
     IN /\ winBuf' = [winBuf EXCEPT ![p] = [k \in DOMAIN @ |->
                        IF k > Len(new) THEN @[k]
                        ELSE [type |-> "REQUEST", seq |-> (seq[p] + k - 1) % M,
                              content |-> new[k]]]]
        /\ winBufPos' = [winBufPos EXCEPT ![p] = Len(new)]
        /\ seq' = [seq EXCEPT ![p] = (@ + Len(new)) % M]
  /\ SendAll(p)
  /\ waited' = NoSide
  /\ UNCHANGED <<plan, script, lastSeq, rounds, greet, got, links, history>>

Waiting(p) == InCall(p, "send") /\ winBufPos[p] > 0

LastSlot(p) == winBuf[p][winBufPos[p]]

\* No answer: send_all_win_packets(1) sends the last but one, or the only one,
\* twice; the loop then sends the last, unless an ACK has come.
Timeout(p) ==
  /\ Waiting(p) /\ TimedOut(p)
  /\ LET most == SubSeq(winBuf[p], 1, winBufPos[p] - 1)
         more == winBuf[p][IF winBufPos[p] > 1 THEN winBufPos[p] - 1 ELSE 1]
     IN outbox' = [outbox EXCEPT ![p] = most \o <<more>> \o
                                        (IF waitForACK[p] THEN <<>> ELSE <<LastSlot(p)>>)]
  /\ arrACK' = [arrACK EXCEPT ![p] = {}]
  /\ UNCHANGED <<plan, script, seq, lastSeq, winBuf, winBufPos, waitForACK, rounds, greet, got,
                 links, history>>

SlotsWith(p, n) == {k \in 1..winBufPos[p] : winBuf[p][k].seq = n}

Shifted(p, k) ==
  [s \in DOMAIN winBuf[p] |-> IF s <= winBufPos[p] - k THEN winBuf[p][s + k] ELSE winBuf[p][s]]

(* remove_packets_from_win takes the first k packets out of p's window,    *)
(* and the call returns when none is left.                                 *)
Remove(p, k) ==
  /\ winBuf' = [winBuf EXCEPT ![p] = Shifted(p, k)]
  /\ winBufPos' = [winBufPos EXCEPT ![p] = @ - k]
  /\ script' = [script EXCEPT ![p] = IF k = winBufPos[p] THEN Tail(@) ELSE @]
  /\ happened' = IF {winBuf[p][s].content : s \in 1..k} \subseteq taken[Other(p)] THEN happened
              ELSE happened \cup {"unread"}

RecvAck(p) ==
  /\ Waiting(p)
  /\ \E d \in Arrived(p) :
       /\ d.type = "ACK" /\ Read(p, d)
       /\ LET marks == arrACK[p] \cup SlotsWith(p, d.seq)
              k     == Cardinality({s \in 1..winBufPos[p] : 1..s \subseteq marks})
          IN /\ Remove(p, k)
             /\ arrACK' = [arrACK EXCEPT ![p] =
                             IF k = winBufPos[p] THEN {} ELSE {s - k : s \in {x \in marks : x > k}}]
             /\ waitForACK' = [waitForACK EXCEPT ![p] = k < winBufPos[p]]
  /\ waited' = NoSide
  /\ UNCHANGED <<plan, outbox, seq, lastSeq, rounds, greet, got, asked, served, taken>>

\* The slot behind the window is compared when the number is not in it.
Found(p, n) ==
  LET behind == winBuf[p][winBufPos[p] + 1]
  IN IF SlotsWith(p, n) # {} THEN SlotsWith(p, n)
     ELSE IF n = 0 THEN {0}
     ELSE IF behind = NoPacket THEN IF scenario.wild THEN {0, winBufPos[p]} ELSE {0}
     ELSE IF behind.seq = n - 1 THEN {winBufPos[p]} ELSE {0}

RecvNack(p) ==
  /\ Waiting(p)
  /\ \E d \in Arrived(p) :
       /\ d.type = "NACK" /\ Read(p, d)
       /\ \E k \in Found(p, (d.seq - 1) % M) : Remove(p, k)
  /\ SendAll(p)
  /\ waited' = NoSide
  /\ UNCHANGED <<plan, seq, lastSeq, rounds, greet, got, asked, served, taken>>

(* A datagram of the other side's own: "it might be a resent packet, send  *)
(* ack and discards it".  It is acknowledged when it is the next one.      *)
Due(p, d) == d.seq = (lastSeq[p] + 1) % M

\* Mutated: another number gets a NACK, as in sock_recvfrom.
RefuseUnknown(p, d) ==
  IF Due(p, d) THEN <<Ack("ACK", d.seq)>> ELSE <<Ack("NACK", lastSeq[p] + 1)>>

AnswerUnknown(p, d) ==
  IF Due(p, d) THEN <<Ack("ACK", d.seq)>>
  ELSE IF waitForACK[p] THEN <<>> ELSE <<LastSlot(p)>>

RecvUnknown(p) ==
  /\ Waiting(p)
  /\ \E d \in Arrived(p) :
       /\ d.type \in {"REQUEST", "HANDSHAKE"} /\ Read(p, d)
       /\ waitForACK' = [waitForACK EXCEPT ![p] = @ \/ Due(p, d)]
       /\ outbox' = [outbox EXCEPT ![p] = AnswerUnknown(p, d)]
  /\ waited' = NoSide
  /\ UNCHANGED <<plan, script, seq, lastSeq, winBuf, winBufPos, arrACK, rounds, greet, got,
                 history>>

-------------------------------------------------------------------------------
\* Receiving: sock_recvfrom.  chk_seqEx learns lastSeq from any datagram.
Last(p, d) == IF lastSeq[p] = None THEN (d.seq - 1) % M ELSE lastSeq[p]

\* Mutated: only the packet before is told apart.
NotTheLast(p, d) == d.seq # Last(p, d)

\* Mutated: the packet before is taken once more.
NextOrLast(p, d) == d.seq \in {Last(p, d), (Last(p, d) + 1) % M}

InSequence(p, d) == d.seq = (Last(p, d) + 1) % M

Foreign(p, d) == lastSeq[p] = None /\ (d.type # "REQUEST" \/ d.content.kind = "answer")

\* An ACK or NACK is no packet to be received ...
RecvAnswer(p) ==
  /\ InCall(p, "recv")
  /\ \E d \in Arrived(p) :
       /\ d.type \in {"ACK", "NACK"} /\ Read(p, d)
       /\ lastSeq' = [lastSeq EXCEPT ![p] = Last(p, d)]
       /\ happened' = IF Foreign(p, d) THEN happened \cup {"foreign"} ELSE happened
  /\ waited' = NoSide
  /\ UNCHANGED <<plan, script, outbox, seq, window, rounds, greet, got, asked, served, taken>>

\* ... a late handshake is answered once more ...
RecvHello(p) ==
  /\ InCall(p, "recv")
  /\ \E d \in Arrived(p) : d.type = "HANDSHAKE" /\ Read(p, d)
  /\ UNCHANGED hsData
  /\ outbox' = [outbox EXCEPT ![p] = <<answer>>]
  /\ waited' = NoSide
  /\ UNCHANGED <<plan, script, seq, lastSeq, window, rounds, numbers, shaken, got, history>>

\* ... a packet out of sequence gets a NACK ...
Refuse(p) ==
  /\ InCall(p, "recv")
  /\ \E d \in Arrived(p) :
       /\ d.type = "REQUEST" /\ Read(p, d)
       /\ ~InSequence(p, d)
  /\ outbox' = [outbox EXCEPT ![p] = <<Ack("NACK", lastSeq[p] + 1)>>]
  /\ waited' = NoSide
  /\ UNCHANGED <<plan, script, seq, lastSeq, window, rounds, greet, got, history>>

\* ... and the next one is returned.
Accept(p) ==
  /\ InCall(p, "recv")
  /\ \E d \in Arrived(p) :
       LET use == Head(script[p]).what
           c   == d.content
       IN /\ d.type = "REQUEST" /\ Read(p, d)
          /\ InSequence(p, d)
          /\ outbox' = [outbox EXCEPT ![p] = <<Ack("ACK", d.seq)>>]
          /\ lastSeq' = [lastSeq EXCEPT ![p] = d.seq]
          /\ script' = [script EXCEPT ![p] = NextCalls(p, c)]
          /\ got' = IF use = "chunk" THEN Append(got, c)
                    ELSE IF use \in {"response", "puts"} THEN <<>> ELSE got
          /\ served' = IF use = "header" THEN c.id ELSE served
          /\ taken' = [taken EXCEPT ![p] = @ \cup {c}]
          /\ happened' = happened \cup (IF Foreign(p, d) THEN {"foreign"} ELSE {})
                            \cup (IF c \in taken[p] THEN {"twice"} ELSE {})
                            \cup (IF use = "response" /\ c.id # asked THEN {"another's"} ELSE {})
  /\ waited' = NoSide
  /\ UNCHANGED <<plan, seq, window, rounds, greet, asked>>

\* Mutated: "while (n >= 0)".
EndRoundLate(p) ==
  /\ rounds' = [rounds EXCEPT ![p] = IF @ > 0 THEN @ - 1 ELSE Linger[p]]
  /\ script' = [script EXCEPT ![p] = IF rounds[p] > 0 THEN @
                  ELSE IF p = "server" THEN Tail(@) ELSE <<Calls("end", "", 0)>>]
  /\ UNCHANGED asked

(* srv_wait4cnn acknowledges whatever comes; a timeout is a round, too.    *)
(* start, having returned 0, is called again for the same request.         *)
EndRound(p) ==
  IF rounds[p] > 1
  THEN /\ rounds' = [rounds EXCEPT ![p] = @ - 1]
       /\ UNCHANGED <<script, asked>>
  ELSE /\ rounds' = [rounds EXCEPT ![p] = Linger[p]]
       /\ script' = [script EXCEPT ![p] =
                       IF p = "server" THEN Tail(@)
                       ELSE IF asked < MaxAsked THEN Request("get") ELSE <<Calls("end", "", 0)>>]
       /\ asked' = IF p = "client" /\ asked < MaxAsked THEN asked + 1 ELSE asked

LingerRecv(p) ==
  /\ InCall(p, "linger")
  /\ \E d \in Arrived(p) :
       /\ Read(p, d)
       /\ outbox' = [outbox EXCEPT ![p] = <<Ack("ACK", d.seq)>>]
  /\ EndRound(p)
  /\ waited' = NoSide
  /\ UNCHANGED <<plan, seq, lastSeq, window, greet, got, served, taken, happened>>

LingerTimeout(p) ==
  /\ InCall(p, "linger") /\ TimedOut(p)
  /\ EndRound(p)
  /\ UNCHANGED <<plan, outbox, seq, lastSeq, window, greet, got, links, served, taken, happened>>

-------------------------------------------------------------------------------
Step(p) == \/ lib_sendto(p) \/ Send(p) \/ Timeout(p) \/ RecvAck(p) \/ RecvNack(p) \/ RecvUnknown(p)
           \/ RecvAnswer(p) \/ RecvHello(p) \/ Refuse(p) \/ Accept(p)
           \/ LingerRecv(p) \/ LingerTimeout(p)

Handshake == HandshakeTimeout \/ ClientHandshake \/ ServerHandshake

Next == Type \/ Handshake \/ (\E p \in Side : Step(p)) \/ Release

Spec == Init /\ [][Next]_vars

FairSpec == /\ Spec
            /\ WF_vars(Type) /\ WF_vars(Handshake) /\ WF_vars(Release)
            /\ \A p \in Side : WF_vars(Step(p))
-------------------------------------------------------------------------------
(* Types: what is sent has a number below SEQUENCE_NUM_MAX, a window holds *)
(* packets only while its side is in a send, and no wait lasts longer than *)
(* the rounds srv_wait4cnn is called with.                                 *)
TypeOK ==
  /\ script \in [Side -> Seq([op : {"send", "recv", "linger", "handshake", "end"},
                              what : Kind \cup {"header", "gets", "puts", "response", ""}, n : Nat])]
  /\ \A p \in Side : outbox[p] \in Seq(Datagram)
  /\ seq \in [Side -> 0..(M - 1)] /\ lastSeq \in [Side -> None..(M - 1)]
  /\ \A p \in Side : winBufPos[p] \in 0..Sent /\ \A k \in 1..winBufPos[p] : winBuf[p][k] \in Datagram
  /\ \A p \in Side : winBufPos[p] > 0 => Head(script[p]).op = "send"
  /\ \A p \in Side : rounds[p] \in 1..Linger[p]
  /\ toServer \in Seq(Datagram) /\ toClient \in Seq(Datagram)
  /\ got \in Seq(Content)

-------------------------------------------------------------------------------
\* A request of a fresh client whose answers arrive, or that is a PUT: what the
\* numbers and the rounds of srv_wait4cnn suffice for.
Ordinary == /\ ~scenario.extra /\ ~scenario.wild
            /\ \/ scenario.typed = <<"put">>
               \/ scenario.typed = <<"get">> /\ scenario.network \subseteq {"lost"}

(* recv_file writes the chunks of one request, the first one first and     *)
(* none twice, whatever is lost or late and whatever was sent before: each *)
(* side's numbers go on from request to request, so that a leftover of the *)
(* last one is out of sequence (chk_seqEx).                                *)
FileIsOfOneRequest ==
  ~scenario.wild =>
    \A k \in 1..Len(got) : got[k].kind = "chunk" /\ got[k].n = k /\ got[k].id = got[1].id

(* No packet is returned by sock_recvfrom twice, although the sender       *)
(* resends all of its window after a timeout and srv_wait4cnn, which       *)
(* acknowledges without advancing lastSeq, comes between two requests.     *)
NothingAcceptedTwice == "twice" \notin happened

(* In an ordinary session a packet that has left its sender's window was   *)
(* returned to the receiver's program by sock_recvfrom.  srv_wait4cnn and  *)
(* udp_sendtoEx acknowledge packets that nobody reads: the first must see  *)
(* none but resent ones, and the second none at all.                       *)
AcknowledgedIsRead == Ordinary => "unread" \notin happened

(* In an ordinary session lastSeq is learned from a packet the other side  *)
(* has numbered, never from an answer to one's own packets: chk_seqEx sets *)
(* it from the first datagram that comes, before it looks at the type.     *)
NumbersLearnedFromPackets == Ordinary => "foreign" \notin happened

(* The client that goes on with its request is the one the server has      *)
(* shaken hands with: a restarted one has another number, which the        *)
(* server, who shakes hands once, never answers with.                      *)
HandshakeIsOwn ==
  (script["client"] # <<>> /\ Head(script["client"]).op \notin {"handshake", "end"}) =>
    hsData = numbers["client"]

(* In an ordinary session start returns: no packet is waited for that will *)
(* not be sent, and no acknowledgement that will not come.  A GET is asked *)
(* again and again, so that the server gets out of its part as well.       *)
RequestsComplete ==
  Ordinary => <>[](IF script["client"] = <<>> THEN typed = <<>>
                   ELSE Head(script["client"]).op = "end")

(* start takes the response to its own request for that response.  NOT    *)
(* true: send_file returns -1 always, so that the start of a PUT returns   *)
(* without its response, and the next start reads that one.                *)
ResponseIsForRequest == "another's" \notin happened
===============================================================================
