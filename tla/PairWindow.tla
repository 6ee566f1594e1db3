------------------------------ MODULE PairWindow ------------------------------
(***************************************************************************)
(* Build 3: the client and the server of Assign3_zcl over the router.      *)
(*                                                                         *)
(* A message travels by udplastsend and udplastrecv, which number packets  *)
(* with one bit; a 260-byte chunk of a file that is not its last travels   *)
(* by udpsend and udprecv, as two packets with the numbers Send_temp_Seq   *)
(* and Send_temp_Seq + 1 that have to be acknowledged both.  Every send    *)
(* ends with a second wait, for one more datagram or a timeout, and throws *)
(* away what comes in, be it an ACK or the peer's next message: that one   *)
(* is resent.                                                              *)
(*                                                                         *)
(* script is what a side still has to call, the head being the call it is  *)
(* in; stage is the select it waits in, outbox the sendto calls it has not *)
(* come to.  The client's script is empty in the menu.                     *)
(*                                                                         *)
(* udprecv returns its own stack buffer, which the caller copies at once;  *)
(* the copy is taken to find it unchanged.                                 *)
(***************************************************************************)
EXTENDS Integers, Sequences

CONSTANTS
  Scenarios,    \* what the user types, what is true of the file, and what may
                \* happen to datagrams: a set of "lost", "ackLost", "helloLost",
                \* "delay", "early"
  Chunks,       \* chunks of the file, the last one included
  Entries,      \* files in the server's directory
  Resends,      \* 3 in the code: a send goes on after one timeout more
  Uninit,       \* values that uninitialised sequence numbers may have
  ServerStart,  \* the server's first Send_Seq; its rand has a fixed seed
  AckLike,      \* kinds of packets whose data begin with "A"
  Cap,          \* datagrams a socket buffer holds (bound)
  NoPacket      \* nothing held by the router

Command == {"LIST", "GET", "PUT", "DEL"}

\* prev_Recv_Seq's first value in the client is no packet's number.
NoSeq == 3000

ASSUME PairWindowAssumption ==
  /\ Scenarios \subseteq
       [plan    : Seq(Command),
        file    : [exists : BOOLEAN, extra : BOOLEAN, deletable : BOOLEAN],
        network : SUBSET {"lost", "ackLost", "helloLost", "delay", "early"}]
  /\ Chunks \in Nat \ {0} /\ Entries \in Nat /\ Resends \in Nat /\ Cap \in Nat
  /\ Uninit \subseteq {0, 1, NoSeq} /\ Uninit # {}
  /\ ServerStart \in 0..1

VARIABLES
  plan,            \* commands still to be typed
  file,            \* what is true of the file the commands are about
  network,         \* the faults of this behaviour
  script,          \* calls each side has left
  stage,           \* the select a send waits in
  renaming,        \* the client asks for another name before it receives a file
  slideid,         \* the halves of the pair that have slideid1, slideid2 set
  resendcount,
  outbox,          \* datagrams still to be given to sendto
  Send_Seq, prev_Recv_Seq,
  Send_temp_Seq, rec_temp_seq,
  ackSeq,          \* sendmsg.seqNo
  deleted, told,   \* the server has deleted the file; what the client printed
  opened,          \* the client has opened its file for writing
  got,             \* what was written to the receiver's file
  toServer, toServerHeld, toClient, toClientHeld,    \* the two links
  calls,           \* history: sends made
  accepted,        \* history: the last send whose packets were returned
  slips            \* history: what has gone wrong so far

control == <<script, stage, renaming, slideid, resendcount>>
seqs    == <<Send_Seq, prev_Recv_Seq, Send_temp_Seq, rec_temp_seq>>
files   == <<deleted, told, opened, got>>
links   == <<toServer, toServerHeld, toClient, toClientHeld>>
history == <<calls, accepted, slips>>
given   == <<file, network>>
vars    == <<plan, given, control, outbox, seqs, ackSeq, files, links, history>>

Peer == {"client", "server"}
Other(p) == IF p = "client" THEN "server" ELSE "client"

Answers == {"ack", "ACK", "NAK"}     \* of udplastrecv; of udprecv
Kind == Command \cup Answers \cup
        {"hello", "name", "info", "answer", "entry", "@", "#", "nofile", "pair", "last", "cut"}

ASSUME AckLikeAssumption == {"ACK"} \subseteq AckLike /\ AckLike \subseteq Kind

PairSeq == 0..(2 * Chunks + 1)
Datagram == [seqNo : PairSeq \cup {NoSeq}, kind : Kind, n : Nat, id : Nat]

ASSUME NoPacketAssumption == NoPacket \notin Datagram

Up   == INSTANCE RouterLink WITH Packet <- Datagram, queue <- toServer, held <- toServerHeld
Down == INSTANCE RouterLink WITH Packet <- Datagram, queue <- toClient, held <- toClientHeld

-------------------------------------------------------------------------------
\* Calls of a script: a send names what is sent, a receive what it is for.
udplastsend(kind, n) == [op |-> "send", kind |-> kind, n |-> n]
udplastrecv(use)     == [op |-> "recv", kind |-> use, n |-> 0]
udpsend(kind, n)     == [op |-> "sendPair", kind |-> kind, n |-> n]
udprecv              == [op |-> "recvPair", kind |-> "chunk", n |-> 0]
threewayhandshake(n) == [op |-> "handshake", kind |-> "hello", n |-> n]

Sends == {"send", "sendPair"}
Use   == {"command", "getname", "delname", "putinfo", "putinfo2", "info", "echo", "listed",
          "entry", "chunk", "answer", "verdict"}
Call  == [op : Sends \cup {"handshake"}, kind : Kind, n : Nat]
           \cup [op : {"recv", "recvPair"}, kind : Use, n : {0}]

InCall(p, op) == script[p] # <<>> /\ Head(script[p]).op = op /\ outbox[p] = <<>>

\* The chunks but the last go in pairs; a packet of a file is named by the
\* half chunk it begins with.
SendChunks(last) ==
  [k \in 1..(Chunks - 1) |-> udpsend("pair", 2 * k - 1)]
    \o <<udplastsend(last, 2 * Chunks - 1)>>

\* Mutated: "while (fsize >= 0)".
RecvFileOneMore(size) ==
  [k \in 1..(size + 1) |-> IF k < size THEN udprecv ELSE udplastrecv("chunk")]

RecvFile(size) ==
  [k \in 1..size |-> IF k < size THEN udprecv ELSE udplastrecv("chunk")]

\* What a choice of the menu makes the client do.
ClientCalls(c) ==
  <<udplastsend(c, 0), udplastrecv("echo")>> \o
    CASE c = "LIST" -> <<udplastrecv("entry")>>
      [] c = "GET"  -> <<udplastsend("name", 0), udplastrecv("info")>>
      [] c = "DEL"  -> <<udplastsend("name", 0), udplastrecv("verdict")>>
      [] c = "PUT"  -> IF ~file.exists THEN <<>>
                       ELSE <<udplastsend("info", Chunks), udplastrecv("answer"),
                              udplastsend("info", Chunks)>> \o SendChunks("last")

\* TcpServer::run on a message; one that is no command is ignored.
Serve(kind) ==
  IF kind \notin Command THEN <<>>
  ELSE <<udplastsend(kind, 0)>> \o
    CASE kind = "LIST" -> [k \in 1..Entries |-> udplastsend("entry", k)] \o <<udplastsend("@", 0)>>
      [] kind = "GET"  -> <<udplastrecv("getname")>>
      [] kind = "DEL"  -> <<udplastrecv("delname")>>
      [] kind = "PUT"  -> <<udplastrecv("putinfo")>>

(* What the server does with the packet m it takes for a file name, or for *)
(* the file's name and length.  Another packet names no file and has the   *)
(* length 0 (atoi), or any length if it is file data.                      *)
Found(m)   == m.kind = "name" /\ file.exists
Deletes(m) == Found(m) /\ file.deletable

(* "while (sizeleft >= 0)" goes round once more when the length is a       *)
(* multiple of 260, and reads and closes a closed file, which may end the  *)
(* server.  The last packet is sendflag bytes of a struct that has its     *)
(* number before the data, so that four bytes are cut off.                 *)
PutFileToClient(m) ==
  LET sent == <<udplastsend("info", Chunks)>> \o SendChunks("cut")
      run  == <<udplastrecv("command")>>
  IN IF ~Found(m) THEN {<<udpsend("nofile", 1)>> \o run}
     ELSE IF file.extra THEN {sent, sent \o <<udplastsend("last", 2 * Chunks)>> \o run}
     ELSE {sent \o run}

\* Mutated: DeleteFile's result is not looked at.
delFilesBlindly(m) == IF Found(m) THEN <<udplastsend("@", 0)>> ELSE <<udplastsend("#", 0)>>

delFiles(m) == IF Deletes(m) THEN <<udplastsend("@", 0)>>
               ELSE IF Found(m) THEN <<>> ELSE <<udplastsend("#", 0)>>

GetFileFromClient(m) ==
  {RecvFile(s) : s \in CASE m.kind = "info"                  -> {m.n}
                         [] m.kind \in {"pair", "last", "cut"} -> 0..Chunks
                         [] OTHER                            -> {0}}

\* The scripts side p may have after udplastrecv has returned m.
NextCalls(p, m) ==
  LET use  == Head(script[p]).kind
      rest == Tail(script[p])
      run  == <<udplastrecv("command")>>
  IN CASE use = "command"  -> {Serve(m.kind) \o
                                 IF m.kind \in {"GET", "DEL", "PUT"} THEN <<>> ELSE run}
       [] use = "getname"  -> PutFileToClient(m)
       [] use = "delname"  -> {delFiles(m) \o run}
       [] use = "putinfo"  -> {<<udplastsend("answer", 0), udplastrecv("putinfo2")>>}
       [] use = "putinfo2" -> {s \o run : s \in GetFileFromClient(m)}
       [] use = "info"     -> {IF m.kind = "info" THEN RecvFile(m.n) ELSE <<>>}
       [] use = "entry"    -> {IF m.kind = "@" THEN rest ELSE script[p]}
       [] OTHER            -> {rest}

\* GetFileFromServer compares the answer up to its comma with the name.
NamesFile(m) == m.kind = "info" \/ (m.kind = "nofile" /\ m.n = 1)

\* A receive took a new packet for a duplicate, or returned one that was not
\* the next; a send went on without an answer.
Slip == {"newDropped", "misread", "gaveUp"}

Stage == {"none", "resending", "secondAck", "settling", "settlingAck"}

(* Types: numbers of pairs end with the file, no send resends more often   *)
(* than it may, and a side waits for an answer only while it is in a send. *)
TypeOK ==
  /\ plan \in Seq(Command)
  /\ \E s \in Scenarios : file = s.file /\ network = s.network
  /\ script \in [Peer -> Seq(Call)]
  /\ stage \in [Peer -> Stage] /\ renaming \in BOOLEAN
  /\ \A p \in Peer : stage[p] # "none" => script[p] # <<>> /\ Head(script[p]).op \in Sends
  /\ slideid \in [Peer -> SUBSET {1, 2}]
  /\ resendcount \in [Peer -> 0..(Resends + 1)]
  /\ \A p \in Peer : outbox[p] \in Seq(Datagram) /\ Len(outbox[p]) <= 2
  /\ Send_Seq \in [Peer -> 0..1 \cup {NoSeq}]
  /\ prev_Recv_Seq \in [Peer -> PairSeq \cup {NoSeq}]
  /\ Send_temp_Seq \in [Peer -> PairSeq] /\ rec_temp_seq \in [Peer -> PairSeq]
  /\ ackSeq \in [Peer -> PairSeq \cup {NoSeq}]
  /\ deleted \in BOOLEAN /\ told \in {"nothing", "missing", "deleted"} /\ opened \in BOOLEAN
  /\ got \in Seq([kind : Kind, n : Nat])
  /\ toServer \in Seq(Datagram) /\ toServerHeld \in Datagram \cup {NoPacket}
  /\ toClient \in Seq(Datagram) /\ toClientHeld \in Datagram \cup {NoPacket}
  /\ calls \in [Peer -> Nat]
  /\ \A p \in Peer : accepted[p] \in 0..calls[Other(p)]
  /\ slips \subseteq Slip

hello(p) == [seqNo |-> ackSeq[p], kind |-> "hello", n |-> 0, id |-> 0]

Init ==
  /\ \E s \in Scenarios : plan = s.plan /\ file = s.file /\ network = s.network
  /\ script = [client |-> <<threewayhandshake(1)>>,
               server |-> <<threewayhandshake(1), threewayhandshake(2), udplastrecv("command")>>]
  /\ stage = [p \in Peer |-> "none"] /\ renaming = FALSE
  /\ slideid = [p \in Peer |-> {}] /\ resendcount = [p \in Peer |-> 0]
  /\ Send_Seq \in [client : Uninit, server : {ServerStart}]
  /\ prev_Recv_Seq \in [Peer -> Uninit]
  /\ Send_temp_Seq = [p \in Peer |-> 0] /\ rec_temp_seq = [p \in Peer |-> 0]
  /\ ackSeq \in [Peer -> Uninit]
  /\ outbox = [client |-> <<hello("client")>>, server |-> <<>>]
  /\ deleted = FALSE /\ told = "nothing" /\ opened = FALSE /\ got = <<>>
  /\ Up!LinkInit /\ Down!LinkInit
  /\ calls = [p \in Peer |-> 0] /\ accepted = [p \in Peer |-> 0] /\ slips = {}

-------------------------------------------------------------------------------
Incoming(p) == IF p = "client" THEN toClient ELSE toServer
KeepLink(p) == IF p = "client" THEN UNCHANGED <<toClient, toClientHeld>>
                               ELSE UNCHANGED <<toServer, toServerHeld>>

\* recvfrom of p reads d; the other direction is left alone.
Read(p, d) ==
  /\ IF p = "client" THEN Down!Take(d) ELSE Up!Take(d)
  /\ KeepLink(Other(p))

\* The sendto that p has come to: the router forwards, delays or loses it.
Fault(d) == IF d.kind = "hello" THEN "helloLost" ELSE IF d.kind \in Answers THEN "ackLost" ELSE "lost"

SendTo(p) ==
  /\ outbox[p] # <<>>
  /\ outbox' = [outbox EXCEPT ![p] = Tail(@)]
  /\ LET d == Head(outbox[p])
     IN \/ IF p = "client" THEN Up!Forward(d) ELSE Down!Forward(d)
        \/ "delay" \in network /\ IF p = "client" THEN Up!Hold(d) ELSE Down!Hold(d)
        \/ Fault(d) \in network /\ KeepLink(Other(p))
  /\ KeepLink(p)
  /\ UNCHANGED <<plan, given, control, seqs, ackSeq, files, history>>

Release ==
  /\ (Up!Release /\ KeepLink("client")) \/ (Down!Release /\ KeepLink("server"))
  /\ UNCHANGED <<plan, given, control, outbox, seqs, ackSeq, files, history>>

(* The client waits for its user: in the menu, before the send that        *)
(* follows "Please input the file name" or a new name, and where it asks   *)
(* for another name for a file that it has already.                        *)
AtPrompt(p) ==
  \/ script[p] = <<>>
  \/ /\ p = "client" /\ InCall(p, "send") /\ stage[p] = "none"
     /\ Head(script[p]).kind \in {"name", "info"}
  \/ p = "client" /\ renaming

\* Side p sends nothing for as long as a select of the other waits: its user
\* types, whatever has come in meanwhile, or it waits for a datagram itself.
Reads(p) == IF Head(script[p]).op = "recvPair" THEN 2 ELSE 1

Idle(p) ==
  /\ outbox[p] = <<>>
  /\ \/ AtPrompt(p)
     \/ /\ script[p] # <<>> /\ Len(Incoming(p)) < Reads(p)
        /\ Head(script[p]).op \in Sends => stage[p] # "none"

\* A timeout of p's select: 300 ms without a datagram, one second in the
\* handshake, which the other side's answer takes only if the network is slow.
TimedOut(p) ==
  /\ Incoming(p) = <<>>
  /\ Idle(Other(p)) \/ "early" \in network

-------------------------------------------------------------------------------
\* main's menu, and what a choice resets before its first call.
Choose ==
  /\ script["client"] = <<>> /\ outbox["client"] = <<>> /\ plan # <<>>
  /\ plan' = Tail(plan)
  /\ script' = [script EXCEPT !["client"] = ClientCalls(Head(plan))]
  /\ Send_Seq' = IF Head(plan) = "PUT" THEN [Send_Seq EXCEPT !["client"] = 0] ELSE Send_Seq
  /\ Send_temp_Seq' = IF Head(plan) = "PUT" THEN [Send_temp_Seq EXCEPT !["client"] = 0]
                      ELSE Send_temp_Seq
  /\ rec_temp_seq' = IF Head(plan) = "GET" THEN [rec_temp_seq EXCEPT !["client"] = 0]
                     ELSE rec_temp_seq
  /\ UNCHANGED <<given, renaming, stage, slideid, resendcount, outbox, prev_Recv_Seq, ackSeq,
                 files, links, history>>

\* The server's handshake: three messages of which it looks at none; the
\* second of its receives ends it.
ServerHandshake ==
  /\ InCall("server", "handshake")
  /\ Read("server", Head(toServer))
  /\ script' = [script EXCEPT !["server"] = Tail(@)]
  /\ outbox' = IF Head(script["server"]).n = 1 THEN [outbox EXCEPT !["server"] = <<hello("server")>>]
               ELSE outbox
  /\ UNCHANGED <<plan, given, renaming, stage, slideid, resendcount, seqs, ackSeq, files, history>>

\* The client's: an answer starts its numbers ...
ClientHandshake ==
  /\ InCall("client", "handshake")
  /\ Read("client", Head(toClient))
  /\ script' = [script EXCEPT !["client"] = <<>>]
  /\ outbox' = [outbox EXCEPT !["client"] = <<hello("client")>>]
  /\ \E s \in 0..1 : Send_Seq' = [Send_Seq EXCEPT !["client"] = s]
  /\ prev_Recv_Seq' = [prev_Recv_Seq EXCEPT !["client"] = NoSeq]
  /\ UNCHANGED <<plan, given, renaming, stage, slideid, resendcount, Send_temp_Seq, rec_temp_seq,
                 ackSeq, files, history>>

\* ... and main goes on without one just as well.
HandshakeFails ==
  /\ InCall("client", "handshake") /\ TimedOut("client")
  /\ script' = [script EXCEPT !["client"] = <<>>]
  /\ UNCHANGED <<plan, given, renaming, stage, slideid, resendcount, outbox, seqs, ackSeq, files,
                 links, history>>

-------------------------------------------------------------------------------
\* Sending.
Packet(p) == [seqNo |-> Send_Seq[p], kind |-> Head(script[p]).kind,
              n |-> Head(script[p]).n, id |-> calls'[p]]

\* A resent last packet of the client is sendflag bytes of the struct, too.
Resent(p) == [Packet(p) EXCEPT !.kind = IF p = "client" /\ @ = "last" THEN "cut" ELSE @]

Pair(p) ==
  [h \in 1..2 |-> [seqNo |-> Send_temp_Seq[p] + h - 1, kind |-> Head(script[p]).kind,
                   n |-> Head(script[p]).n + h - 1, id |-> calls'[p]]]

SendLast(p) ==
  /\ InCall(p, "send") /\ stage[p] = "none"
  /\ stage' = [stage EXCEPT ![p] = "resending"]
  /\ calls' = [calls EXCEPT ![p] = @ + 1]
  /\ outbox' = [outbox EXCEPT ![p] = <<Packet(p)>>]
  /\ ackSeq' = [ackSeq EXCEPT ![p] = Send_Seq[p]]
  /\ UNCHANGED <<plan, given, renaming, script, slideid, resendcount, seqs, files, links, accepted,
                 slips>>

SendPair(p) ==
  /\ InCall(p, "sendPair") /\ stage[p] = "none"
  /\ stage' = [stage EXCEPT ![p] = "resending"]
  /\ calls' = [calls EXCEPT ![p] = @ + 1]
  /\ outbox' = [outbox EXCEPT ![p] = Pair(p)]
  /\ ackSeq' = [ackSeq EXCEPT ![p] = Send_temp_Seq[p]]
  /\ UNCHANGED <<plan, given, renaming, script, slideid, resendcount, seqs, files, links, accepted,
                 slips>>

\* Mutated: the first timeout ends the loop ("&&" for "||").
ResendLastOnce(p) ==
  /\ InCall(p, "send") /\ stage[p] = "resending" /\ TimedOut(p)
  /\ UNCHANGED calls
  /\ outbox' = [outbox EXCEPT ![p] = <<Resent(p)>>]
  /\ resendcount' = [resendcount EXCEPT ![p] = @ + 1]
  /\ stage' = [stage EXCEPT ![p] = "settling"]
  /\ slips' = IF resendcount[p] = Resends THEN slips \cup {"gaveUp"} ELSE slips
  /\ UNCHANGED <<plan, given, renaming, script, slideid, seqs, ackSeq, files, links, accepted>>

\* A timeout of the first loop; udplastsend's last one gives up.
ResendLast(p) ==
  /\ InCall(p, "send") /\ stage[p] = "resending" /\ TimedOut(p)
  /\ UNCHANGED calls
  /\ outbox' = [outbox EXCEPT ![p] = <<Resent(p)>>]
  /\ resendcount' = [resendcount EXCEPT ![p] = @ + 1]
  /\ stage' = [stage EXCEPT ![p] = IF resendcount[p] < Resends THEN @ ELSE "settling"]
  /\ slips' = IF resendcount[p] = Resends THEN slips \cup {"gaveUp"} ELSE slips
  /\ UNCHANGED <<plan, given, renaming, script, slideid, seqs, ackSeq, files, links, accepted>>

ResendPair(p) ==
  /\ InCall(p, "sendPair") /\ stage[p] = "resending" /\ TimedOut(p)
  /\ UNCHANGED calls
  /\ outbox' = [outbox EXCEPT ![p] = Pair(p)]
  /\ UNCHANGED <<plan, given, control, seqs, ackSeq, files, links, accepted, slips>>

\* Whatever comes in ends udplastsend's first loop.
AnyAck(p) ==
  /\ InCall(p, "send") /\ stage[p] = "resending" /\ Incoming(p) # <<>>
  /\ Read(p, Head(Incoming(p)))
  /\ stage' = [stage EXCEPT ![p] = "settling"]
  /\ UNCHANGED <<plan, given, renaming, script, slideid, resendcount, outbox, seqs, ackSeq, files,
                 history>>

\* Mutated: resendcount is not local to the call.
ReturnWithCount(p) ==
  /\ script' = [script EXCEPT ![p] = Tail(@)]
  /\ stage' = [stage EXCEPT ![p] = "none"]
  /\ slideid' = [slideid EXCEPT ![p] = {}]
  /\ UNCHANGED resendcount

\* p's send returns.
Return(p) ==
  /\ script' = [script EXCEPT ![p] = Tail(@)]
  /\ stage' = [stage EXCEPT ![p] = "none"]
  /\ slideid' = [slideid EXCEPT ![p] = {}]
  /\ resendcount' = [resendcount EXCEPT ![p] = 0]

\* Its second loop: one more datagram, thrown away, or a timeout.
SettleLast(p) ==
  /\ InCall(p, "send") /\ stage[p] = "settling"
  /\ \/ TimedOut(p) /\ UNCHANGED links
     \/ Incoming(p) # <<>> /\ Read(p, Head(Incoming(p)))
  /\ Return(p)
  /\ Send_Seq' = [Send_Seq EXCEPT ![p] = (@ + 1) % 2]
  /\ UNCHANGED <<plan, given, renaming, outbox, prev_Recv_Seq, Send_temp_Seq, rec_temp_seq, ackSeq,
                 files, history>>

\* Mutated: a NAK acknowledges, too.
AckOfNak(p, d, h) == d.seqNo = Send_temp_Seq[p] + h - 1

\* udpsend takes d for the ACK of half h of its pair.
AckOf(p, d, h) == d.kind \in AckLike /\ d.seqNo = Send_temp_Seq[p] + h - 1

\* The first receive of a round, in either loop.
FirstAck(p) ==
  /\ InCall(p, "sendPair") /\ stage[p] \in {"resending", "settling"} /\ Incoming(p) # <<>>
  /\ LET d == Head(Incoming(p))
     IN /\ Read(p, d)
        /\ slideid' = [slideid EXCEPT ![p] = IF AckOf(p, d, 1) THEN @ \cup {1} ELSE @]
  /\ stage' = [stage EXCEPT ![p] = IF @ = "resending" THEN "secondAck" ELSE "settlingAck"]
  /\ UNCHANGED <<plan, given, renaming, script, resendcount, outbox, seqs, ackSeq, files, history>>

ReturnPair(p) == /\ Return(p)
                 /\ Send_temp_Seq' = [Send_temp_Seq EXCEPT ![p] = @ + 2]
                 /\ UNCHANGED <<Send_Seq, prev_Recv_Seq, rec_temp_seq>>

(* The second one.  With both halves acknowledged the first loop goes on   *)
(* to the second, and the second returns.                                  *)
SecondAck(p) ==
  /\ InCall(p, "sendPair") /\ stage[p] \in {"secondAck", "settlingAck"} /\ Incoming(p) # <<>>
  /\ Read(p, Head(Incoming(p)))
  /\ LET acked == IF AckOf(p, Head(Incoming(p)), 2) THEN slideid[p] \cup {2} ELSE slideid[p]
     IN IF acked = {1, 2} /\ stage[p] = "settlingAck" THEN ReturnPair(p)
        ELSE /\ slideid' = [slideid EXCEPT ![p] = acked]
             /\ stage' = [stage EXCEPT ![p] =
                            IF acked = {1, 2} \/ @ = "settlingAck" THEN "settling" ELSE "resending"]
             /\ UNCHANGED <<script, resendcount, seqs>>
  /\ UNCHANGED <<plan, given, renaming, outbox, ackSeq, files, history>>

SecondAckLate(p) ==
  /\ InCall(p, "sendPair") /\ stage[p] \in {"secondAck", "settlingAck"} /\ TimedOut(p)
  /\ slideid' = [slideid EXCEPT ![p] = @ \ {2}]
  /\ stage' = [stage EXCEPT ![p] = IF @ = "secondAck" THEN "resending" ELSE "settling"]
  /\ UNCHANGED <<plan, given, renaming, script, resendcount, outbox, seqs, ackSeq, files, links,
                 history>>

SettlePair(p) ==
  /\ InCall(p, "sendPair") /\ stage[p] = "settling" /\ TimedOut(p)
  /\ ReturnPair(p)
  /\ UNCHANGED <<plan, given, renaming, outbox, ackSeq, files, links, history>>

-------------------------------------------------------------------------------
\* Receiving.
Answer(p, kind, seqNo) == [seqNo |-> seqNo, kind |-> kind, n |-> 0, id |-> 0]

Write(d) == [kind |-> d.kind, n |-> d.n]

\* A receive of p returns the packets of the send id.
Note(p, id) ==
  /\ accepted' = [accepted EXCEPT ![p] = IF id > @ THEN id ELSE @]
  /\ slips' = IF id = accepted[p] + 1 THEN slips ELSE slips \cup {"misread"}

\* The client receives: the user has typed.
StillRenaming(p) == renaming /\ p # "client"

\* udplastrecv answers a packet with a new number and returns it.
Accept(p) ==
  /\ InCall(p, "recv") /\ Incoming(p) # <<>>
  /\ LET d   == Head(Incoming(p))
         use == Head(script[p]).kind
         put == use = "command" /\ d.kind = "PUT"      \* GetFileFromClient
         get == use = "getname"                        \* PutFileToClient
     IN /\ d.seqNo # prev_Recv_Seq[p]
        /\ Read(p, d)
        /\ prev_Recv_Seq' = [prev_Recv_Seq EXCEPT ![p] = d.seqNo]
        /\ outbox' = [outbox EXCEPT ![p] = <<Answer(p, "ack", ackSeq[p])>>]
        /\ \E s \in NextCalls(p, d) : script' = [script EXCEPT ![p] = s]
        /\ rec_temp_seq' = IF put THEN [rec_temp_seq EXCEPT ![p] = 0] ELSE rec_temp_seq
        /\ Send_temp_Seq' = IF get THEN [Send_temp_Seq EXCEPT ![p] = 0] ELSE Send_temp_Seq
        /\ Note(p, d.id)
        /\ got' = IF use = "chunk" THEN Append(got, Write(d)) ELSE got
        /\ opened' = (opened \/ (use = "info" /\ NamesFile(d)))
        /\ renaming' \in IF use = "info" /\ d.kind = "info" THEN BOOLEAN ELSE {StillRenaming(p)}
        /\ deleted' = (deleted \/ (use = "delname" /\ Deletes(d)))
        /\ told' = IF use = "verdict" THEN IF d.kind = "#" THEN "missing" ELSE "deleted"
                   ELSE told
  /\ UNCHANGED <<plan, given, stage, slideid, resendcount, Send_Seq, ackSeq, calls>>

\* A duplicate, or what seems one: udplastrecv answers it and goes on.
Drop(p) ==
  /\ InCall(p, "recv") /\ Incoming(p) # <<>>
  /\ LET d == Head(Incoming(p))
     IN /\ d.seqNo = prev_Recv_Seq[p]
        /\ Read(p, d) /\ renaming' = StillRenaming(p)
        /\ slips' = IF d.id > accepted[p] THEN slips \cup {"newDropped"} ELSE slips
  /\ outbox' = [outbox EXCEPT ![p] = <<Answer(p, "ack", ackSeq[p])>>]
  /\ UNCHANGED <<plan, given, script, stage, slideid, resendcount, seqs, ackSeq, files, calls,
                 accepted>>

\* udprecv reads two datagrams, whatever they are.
ReadTwo(p) ==
  /\ Len(Incoming(p)) >= 2
  /\ IF p = "client" THEN toClient' = Tail(Tail(toClient)) /\ UNCHANGED toClientHeld
                     ELSE toServer' = Tail(Tail(toServer)) /\ UNCHANGED toServerHeld
  /\ KeepLink(Other(p))
  /\ renaming' = StillRenaming(p)

\* Mutated: the second number is not looked at.
HaveFirstNumber(p, seqNo) == Incoming(p)[1].seqNo = seqNo

HaveNumbers(p, seqNo) == Incoming(p)[1].seqNo = seqNo /\ Incoming(p)[2].seqNo = seqNo + 1

AnswerPair(p, kind) == [h \in 1..2 |-> Answer(p, kind, Incoming(p)[h].seqNo)]

\* The pair that is due.
AcceptPair(p) ==
  /\ InCall(p, "recvPair") /\ ReadTwo(p)
  /\ HaveNumbers(p, rec_temp_seq[p])
  /\ outbox' = [outbox EXCEPT ![p] = AnswerPair(p, "ACK")]
  /\ ackSeq' = [ackSeq EXCEPT ![p] = Incoming(p)[1].seqNo]
  /\ rec_temp_seq' = [rec_temp_seq EXCEPT ![p] = @ + 2]
  /\ script' = [script EXCEPT ![p] = Tail(@)]
  /\ got' = got \o [h \in 1..2 |-> Write(Incoming(p)[h])]
  /\ Note(p, IF Incoming(p)[1].id = Incoming(p)[2].id THEN Incoming(p)[1].id ELSE 0)
  /\ UNCHANGED <<plan, given, stage, slideid, resendcount, Send_Seq, prev_Recv_Seq, Send_temp_Seq,
                 deleted, told, opened, calls>>

\* The pair before it is acknowledged again.
AckAgain(p) ==
  /\ InCall(p, "recvPair") /\ ReadTwo(p)
  /\ HaveNumbers(p, rec_temp_seq[p] - 2)
  /\ outbox' = [outbox EXCEPT ![p] = AnswerPair(p, "ACK")]
  /\ ackSeq' = [ackSeq EXCEPT ![p] = Incoming(p)[1].seqNo]
  /\ UNCHANGED <<plan, given, script, stage, slideid, resendcount, seqs, files, history>>

\* Any other two are refused, both answers made of sendmsg.
Refuse(p) ==
  /\ InCall(p, "recvPair") /\ ReadTwo(p)
  /\ ~HaveNumbers(p, rec_temp_seq[p]) /\ ~HaveNumbers(p, rec_temp_seq[p] - 2)
  /\ outbox' = [outbox EXCEPT ![p] = AnswerPair(p, "NAK")]
  /\ ackSeq' = [ackSeq EXCEPT ![p] = Incoming(p)[2].seqNo]
  /\ UNCHANGED <<plan, given, script, stage, slideid, resendcount, seqs, files, history>>

-------------------------------------------------------------------------------
LastStep(p) == SendLast(p) \/ ResendLast(p) \/ AnyAck(p) \/ SettleLast(p) \/ Accept(p) \/ Drop(p)

PairStep(p) == \/ SendPair(p) \/ ResendPair(p) \/ FirstAck(p) \/ SecondAck(p) \/ SecondAckLate(p)
               \/ SettlePair(p) \/ AcceptPair(p) \/ AckAgain(p) \/ Refuse(p)

Step(p) == SendTo(p) \/ LastStep(p) \/ PairStep(p)

Handshake == ServerHandshake \/ ClientHandshake \/ HandshakeFails

Next == Choose \/ Handshake \/ (\E p \in Peer : Step(p)) \/ Release

Spec == Init /\ [][Next]_vars

\* Both programs run on, the user types the plan, and the router goes round.
FairSpec == /\ Spec
            /\ WF_vars(Choose) /\ WF_vars(Handshake) /\ WF_vars(Release)
            /\ \A p \in Peer : WF_vars(Step(p))
-------------------------------------------------------------------------------
(* udpsend returns only when slideid1 and slideid2 are both set, each by   *)
(* an ACK of its number (Server.cpp:62 and 79, Cllient.cpp's likewise): by *)
(* then the peer's udprecv has returned the pair.  The ACKs say no more    *)
(* than a number, are answers to duplicates too, and udplastsend's waits   *)
(* read them as well.                                                      *)
AckedPairIsAccepted ==
  network \subseteq {"lost", "ackLost"} /\ "gaveUp" \notin slips =>
    \A p \in Peer : slideid[p] = {1, 2} => accepted[Other(p)] = calls[p]

(* GetFileFromServer and GetFileFromClient (Cllient.cpp:708, Server.cpp:   *)
(* 653) write the halves of the sender's file in order and none twice,     *)
(* though a resent pair, a resent message and a part of either may come in *)
(* at any receive.  Where ACKs are lost, that is so until udplastrecv is   *)
(* taken in by a pair that is resent, in place of the file's length or of  *)
(* its last chunk.                                                         *)
WrittenInOrder ==
  /\ network \subseteq {"lost", "ackLost"} /\ "gaveUp" \notin slips
  /\ network \subseteq {"lost"} \/ "misread" \notin slips
  => \A k \in 1..Len(got) : got[k].n = k /\ got[k].kind \in {"pair", "last", "cut"}

\* The sends of p that have returned.
Returned(p) == IF stage[p] = "none" THEN calls[p] ELSE calls[p] - 1

\* The server answers a missing file by udpsend, which the client does not
\* use for it, and stays there.
Stuck == script["server"] # <<>> /\ Head(script["server"]).kind = "nofile"

(* Over a network that loses packets but no ACK, what one side's receives  *)
(* return is what the other side's sends have sent, one for one and in     *)
(* order, and no send returns before.  This takes the numbers of messages, *)
(* the numbers of pairs and the turns of the two scripts to agree from     *)
(* command to command, while the second wait of every send throws away     *)
(* datagrams that are not for it.                                          *)
SentIsReceivedInOrder ==
  network \subseteq {"lost"} /\ slips \cap {"newDropped", "gaveUp"} = {} /\ ~Stuck =>
    /\ "misread" \notin slips
    /\ \A p \in Peer : Returned(p) <= accepted[Other(p)]

(* Cllient.cpp:640-643: the client says that the file is gone only if the  *)
(* server has deleted it.  It takes any message but "#" for the answer.    *)
ToldDeletedIsDeleted == network \subseteq {"lost"} /\ slips = {} /\ told = "deleted" => deleted

(* Where no datagram is lost, the client's commands come to an end; the    *)
(* sends that throw away each other's messages resend them.  A command the *)
(* server takes for a duplicate is waited for: its number may be that of   *)
(* the message before when a PUT has reset it or the handshake has not set *)
(* it, but no number within a command is.  Also waited for is the answer   *)
(* for a file that is missing or cannot be deleted.  While the user types  *)
(* another name for the file the server resends its first chunk until the  *)
(* socket is full, and may leave half a pair in it: whatever two packets   *)
(* come to the client then, it refuses them.                               *)
Completes == script["client"] = <<>> /\ plan = <<>>

\* The client's last message is a command: all before it, and the server's, were returned.
CommandDropped ==
  /\ "newDropped" \in slips /\ script["server"] = <<udplastrecv("command")>>
  /\ calls["client"] = accepted["server"] + 1
  /\ calls["server"] = accepted["client"]

HalfAlone ==
  /\ InCall("client", "recvPair") /\ Len(toClient) = 1
  /\ outbox["server"] = <<>> /\ stage["server"] # "none"

CommandsComplete ==
  network = {} /\ file.deletable /\ file.exists => <>(Completes \/ CommandDropped \/ HalfAlone)

(* Cllient.cpp:688, "check if file exist on server, compare the names of   *)
(* filename and the response in respp structure": what passes the check,   *)
(* and is created on the client's side, is on the server.                  *)
CheckedFileExists == opened => file.exists
===============================================================================
