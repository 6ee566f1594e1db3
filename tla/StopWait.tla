------------------------------- MODULE StopWait -------------------------------
(***************************************************************************)
(* Build 2: the client and the server of assign2/FTP_UDP over the router.  *)
(*                                                                         *)
(* Both sides run the same stop-and-wait pair.  udpsend sends a packet and *)
(* resends it at every timeout until any datagram comes in; udprecv        *)
(* answers every packet with an ACK and returns the first one whose seqNo  *)
(* differs from prev_Recv_Seq.  An ACK is sendmsg with other data: its     *)
(* seqNo is that of the packet sent last.                                  *)
(*                                                                         *)
(* What a side sends and receives is its script: the calls of udpsend and  *)
(* udprecv it still has to make, the head being the call it is in.  The    *)
(* client's is set by the command chosen in the menu, the server's by the  *)
(* command it receives; what a received packet changes of them is Next-    *)
(* Calls.  The client's script is empty in the menu, the server's once it  *)
(* has closed its socket, on which run then fails for ever.                *)
(*                                                                         *)
(* A packet's id is the number of the udpsend call it belongs to and is    *)
(* not on the wire; the id of an ACK is 0.                                 *)
(***************************************************************************)
EXTENDS Integers, Sequences

CONSTANTS
  Plans,        \* the sequences of commands a user may type
  Size,         \* packets of the file the receiver waits for
  Entries,      \* files in the server's directory
  Uninit,       \* values that uninitialised sequence numbers may have
  Networks,     \* what the network may do besides losing packets:
                \* sets of "ackLost", "delay", "early"
  Cap,          \* datagrams a socket buffer holds (bound)
  NoPacket      \* nothing held by the router

Command == {"LIST", "GET", "PUT", "DEL"}

\* prev_Recv_Seq's first value in the client, 3000, is no packet's number.
NoSeq == 2

ASSUME StopWaitAssumption ==
  /\ Plans \subseteq Seq(Command)
  /\ Size \in Nat /\ Entries \in Nat /\ Cap \in Nat
  /\ Networks \subseteq SUBSET {"ackLost", "delay", "early"}
  /\ Uninit \subseteq 0..NoSeq /\ Uninit # {}

VARIABLES
  plan,            \* commands still to be typed
  file,            \* what is true of the file the commands are about
  network,         \* the faults of this behaviour
  script,          \* calls each side has left
  waiting,         \* in udpsend's loop
  Send_Seq, prev_Recv_Seq,
  ackSeq,          \* sendmsg.seqNo
  deleted, told,   \* the server has deleted the file; what the client printed
  got,             \* what was written to the receiver's file
  toServer, toServerHeld, toClient, toClientHeld,    \* the two links
  calls,           \* history: calls of udpsend made
  accepted,        \* history: ids that udprecv has returned
  newDropped       \* history: udprecv took a new packet for a duplicate

seqs  == <<Send_Seq, prev_Recv_Seq, ackSeq>>
files == <<deleted, told, got>>
links == <<toServer, toServerHeld, toClient, toClientHeld>>
vars  == <<plan, file, network, script, waiting, seqs, files, links, calls, accepted,
           newDropped>>

Peer == {"client", "server"}
Other(p) == IF p = "client" THEN "server" ELSE "client"

Kind == Command \cup {"name", "info", "chunk", "entry", "@", "#", "nofile", "ack"}
Datagram == [seqNo : 0..NoSeq, kind : Kind, n : Nat, id : Nat]

ASSUME NoPacketAssumption == NoPacket \notin Datagram

Up   == INSTANCE RouterLink WITH Packet <- Datagram, queue <- toServer, held <- toServerHeld
Down == INSTANCE RouterLink WITH Packet <- Datagram, queue <- toClient, held <- toClientHeld

-------------------------------------------------------------------------------
\* Calls of a script: a send names what is sent, a receive what it is for.
SendCall(kind, n) == [op |-> "send", kind |-> kind, n |-> n]
RecvCall(use)     == [op |-> "recv", kind |-> use, n |-> 0]

Use  == {"command", "getname", "delname", "putinfo", "info", "echo", "entry", "chunk", "verdict"}
Call == [op : {"send"}, kind : Kind, n : Nat] \cup [op : {"recv"}, kind : Use, n : {0}]

InCall(p, op) == script[p] # <<>> /\ Head(script[p]).op = op

\* "while (sizeleft >= 0)": one packet more when the size is a multiple of 260.
SendFile ==
  <<SendCall("info", Size)>>
    \o [k \in 1..(IF file.extra THEN Size + 1 ELSE Size) |-> SendCall("chunk", k)]

\* "while (fsize > 0)"
RecvFile(size) == [k \in 1..size |-> RecvCall("chunk")]

\* What a choice of the menu makes the client do.
listServerFiles   == <<SendCall("LIST", 0), RecvCall("entry")>>
PutFileToServer   == <<SendCall("PUT", 0), RecvCall("echo")>>
                       \o (IF file.exists THEN SendFile ELSE <<>>)
GetFileFromServer == <<SendCall("GET", 0), RecvCall("echo"), SendCall("name", 0), RecvCall("info")>>
DeleteServerFiles == <<SendCall("DEL", 0), RecvCall("echo"), SendCall("name", 0), RecvCall("verdict")>>

\* TcpServer::run on a message; anything that is not a command is ignored.
listFiles == [k \in 1..Entries |-> SendCall("entry", k)] \o <<SendCall("@", 0)>>

Serve(kind) ==
  CASE kind = "LIST" -> listFiles \o <<RecvCall("command")>>
    [] kind = "PUT"  -> <<SendCall("PUT", 0), RecvCall("putinfo")>>
    [] kind = "GET"  -> <<SendCall("GET", 0), RecvCall("getname")>>
    [] kind = "DEL"  -> <<SendCall("DEL", 0), RecvCall("delname")>>
    [] OTHER         -> <<RecvCall("command")>>

(* What the server does with the packet m it takes for a file name, or for *)
(* the file's name and length.  Another packet names no file and has the   *)
(* length 0 (atoi), or any length if it is a chunk of file data.           *)
Found(m)   == m.kind = "name" /\ file.exists
Deletes(m) == Found(m) /\ file.deletable

PutFileToClient(m) == IF Found(m) THEN SendFile ELSE <<SendCall("nofile", 0)>>

delFiles(m) == IF Deletes(m) THEN <<SendCall("@", 0)>>
               ELSE IF Found(m) THEN <<>> ELSE <<SendCall("#", 0)>>

GetFileFromClient(m) ==
  {RecvFile(s) : s \in CASE m.kind = "info"  -> {m.n}
                         [] m.kind = "chunk" -> 0..Size
                         [] OTHER            -> {0}}

\* The scripts side p may have after udprecv has returned m.
NextCalls(p, m) ==
  LET use  == Head(script[p]).kind
      rest == Tail(script[p])
  IN CASE use = "command" -> {Serve(m.kind)}
       [] use = "getname" -> {PutFileToClient(m)}
       [] use = "delname" -> {delFiles(m)}
       [] use = "putinfo" -> GetFileFromClient(m)
       [] use = "info"    -> {IF m.kind = "info" THEN RecvFile(m.n) ELSE rest}
       [] use = "entry"   -> {IF m.kind = "@" THEN rest ELSE script[p]}
       [] OTHER           -> {rest}

(* Types: the numbers keep to one bit, and a side waits for an ACK only    *)
(* while it is in a send.                                                  *)
TypeOK ==
  /\ plan \in Seq(Command) /\ network \in Networks
  /\ file \in [exists : BOOLEAN, extra : BOOLEAN, deletable : BOOLEAN]
  /\ script \in [Peer -> Seq(Call)]
  /\ \A p \in Peer : waiting[p] => InCall(p, "send")
  /\ Send_Seq \in [Peer -> 0..1]
  /\ prev_Recv_Seq \in [Peer -> 0..NoSeq]
  /\ ackSeq \in [Peer -> 0..NoSeq]
  /\ deleted \in BOOLEAN /\ told \in {"nothing", "missing", "deleted"}
  /\ got \in Seq([kind : Kind, n : Nat])
  /\ toServer \in Seq(Datagram) /\ toServerHeld \in Datagram \cup {NoPacket}
  /\ toClient \in Seq(Datagram) /\ toClientHeld \in Datagram \cup {NoPacket}
  /\ calls \in [Peer -> Nat]
  /\ \A p \in Peer : accepted[p] \in Seq(0..calls[Other(p)])
  /\ newDropped \in BOOLEAN

Init ==
  /\ plan \in Plans /\ network \in Networks
  /\ file \in [exists : BOOLEAN, extra : BOOLEAN, deletable : BOOLEAN]
  /\ Size = 0 => file.extra
  /\ script = [client |-> <<>>, server |-> <<RecvCall("command")>>]
  /\ waiting = [p \in Peer |-> FALSE]
  /\ Send_Seq = [p \in Peer |-> 0]
  /\ prev_Recv_Seq \in [client : {NoSeq}, server : Uninit]
  /\ ackSeq \in [Peer -> Uninit]
  /\ deleted = FALSE /\ told = "nothing" /\ got = <<>>
  /\ Up!LinkInit /\ Down!LinkInit
  /\ calls = [p \in Peer |-> 0]
  /\ accepted = [p \in Peer |-> <<>>]
  /\ newDropped = FALSE

-------------------------------------------------------------------------------
Incoming(p) == IF p = "client" THEN toClient ELSE toServer
Consume(p)  == IF p = "client" THEN Down!Take(Head(toClient)) ELSE Up!Take(Head(toServer))

KeepIncoming(p) == IF p = "client" THEN UNCHANGED <<toClient, toClientHeld>>
                                   ELSE UNCHANGED <<toServer, toServerHeld>>
KeepOutgoing(p) == KeepIncoming(Other(p))

\* p's sendto: the router forwards, delays or loses the datagram.
Transmit(p, d) ==
  \/ IF p = "client" THEN Up!Forward(d) ELSE Down!Forward(d)
  \/ /\ "delay" \in network
     /\ IF p = "client" THEN Up!Hold(d) ELSE Down!Hold(d)
  \/ /\ d.kind # "ack" \/ "ackLost" \in network
     /\ KeepOutgoing(p)

ClientCalls(c) ==
  CASE c = "LIST" -> listServerFiles
    [] c = "PUT"  -> PutFileToServer
    [] c = "GET"  -> GetFileFromServer
    [] c = "DEL"  -> DeleteServerFiles

\* A command is chosen in the menu; only PUT sets the sequence numbers back.
Choose ==
  /\ script["client"] = <<>> /\ plan # <<>>
  /\ plan' = Tail(plan)
  /\ script' = [script EXCEPT !["client"] = ClientCalls(Head(plan))]
  /\ Send_Seq' = IF Head(plan) = "PUT" THEN [Send_Seq EXCEPT !["client"] = 0] ELSE Send_Seq
  /\ UNCHANGED <<file, network, waiting, prev_Recv_Seq, ackSeq, files, links, calls, accepted,
                 newDropped>>

\* The packet of the udpsend call p is in.
Packet(p) == [seqNo |-> Send_Seq[p], kind |-> Head(script[p]).kind,
              n |-> Head(script[p]).n, id |-> calls'[p]]

udpsend(p) ==
  /\ InCall(p, "send") /\ ~waiting[p]
  /\ waiting' = [waiting EXCEPT ![p] = TRUE]
  /\ ackSeq' = [ackSeq EXCEPT ![p] = Send_Seq[p]]
  /\ calls' = [calls EXCEPT ![p] = @ + 1]
  /\ Transmit(p, Packet(p)) /\ KeepIncoming(p)
  /\ UNCHANGED <<plan, file, network, script, Send_Seq, prev_Recv_Seq, files, accepted, newDropped>>

(* The client waits for its user: in the menu, or before the send that     *)
(* follows "Please input the file name".  So does a server that has closed *)
(* its socket, for ever.                                                   *)
AtPrompt(o) ==
  \/ script[o] = <<>>
  \/ /\ o = "client" /\ InCall(o, "send") /\ ~waiting[o]
     /\ Head(script[o]).kind \in {"name", "info"}

\* The other side sends nothing for as long as p's select waits: its user
\* types, whatever has come in meanwhile, or it waits for a datagram itself.
Quiet(p) ==
  LET o == Other(p)
  IN AtPrompt(o) \/ (Incoming(o) = <<>> /\ (waiting[o] \/ InCall(o, "recv")))

\* Mutated: a timeout ends udpsend.
ResendGivesUp(p) ==
  /\ waiting[p] /\ Incoming(p) = <<>>
  /\ Quiet(p) \/ "early" \in network
  /\ waiting' = [waiting EXCEPT ![p] = FALSE]
  /\ Send_Seq' = [Send_Seq EXCEPT ![p] = 1 - @]
  /\ script' = [script EXCEPT ![p] = Tail(@)]
  /\ UNCHANGED <<plan, file, network, prev_Recv_Seq, ackSeq, files, links, calls, accepted,
                 newDropped>>

\* select has timed out.
Resend(p) ==
  /\ waiting[p] /\ Incoming(p) = <<>>
  /\ Quiet(p) \/ "early" \in network
  /\ UNCHANGED calls
  /\ Transmit(p, Packet(p)) /\ KeepIncoming(p)
  /\ UNCHANGED <<plan, file, network, script, waiting, seqs, files, accepted, newDropped>>

\* Mutated: the number counts up.
RecvAckCounts(p) ==
  /\ waiting[p] /\ Incoming(p) # <<>>
  /\ Consume(p) /\ KeepOutgoing(p)
  /\ waiting' = [waiting EXCEPT ![p] = FALSE]
  /\ Send_Seq' = [Send_Seq EXCEPT ![p] = @ + 1]
  /\ script' = [script EXCEPT ![p] = Tail(@)]
  /\ UNCHANGED <<plan, file, network, prev_Recv_Seq, ackSeq, files, calls, accepted,
                 newDropped>>

\* Whatever comes in ends udpsend's loop.
RecvAck(p) ==
  /\ waiting[p] /\ Incoming(p) # <<>>
  /\ Consume(p) /\ KeepOutgoing(p)
  /\ waiting' = [waiting EXCEPT ![p] = FALSE]
  /\ Send_Seq' = [Send_Seq EXCEPT ![p] = 1 - @]
  /\ script' = [script EXCEPT ![p] = Tail(@)]
  /\ UNCHANGED <<plan, file, network, prev_Recv_Seq, ackSeq, files, calls, accepted,
                 newDropped>>

SendAck(p) == Transmit(p, [seqNo |-> ackSeq[p], kind |-> "ack", n |-> 0, id |-> 0])

\* Mutated: prev_Recv_Seq is not set.
AcceptForgets(p) ==
  /\ InCall(p, "recv") /\ Incoming(p) # <<>>
  /\ LET d   == Head(Incoming(p))
         use == Head(script[p]).kind
     IN /\ d.seqNo # prev_Recv_Seq[p]
        /\ \E s \in NextCalls(p, d) : script' = [script EXCEPT ![p] = s]
        /\ accepted' = [accepted EXCEPT ![p] = Append(@, d.id)]
        /\ got' = IF use = "chunk" THEN Append(got, [kind |-> d.kind, n |-> d.n]) ELSE got
        /\ deleted' = (deleted \/ (use = "delname" /\ Deletes(d)))
        /\ told' = IF use = "verdict" THEN IF d.kind = "#" THEN "missing" ELSE "deleted"
                   ELSE told
  /\ Consume(p) /\ SendAck(p)
  /\ UNCHANGED <<plan, file, network, waiting, seqs, calls, newDropped>>

\* A new packet: udprecv answers it and returns it.
Accept(p) ==
  /\ InCall(p, "recv") /\ Incoming(p) # <<>>
  /\ LET d   == Head(Incoming(p))
         use == Head(script[p]).kind
     IN /\ d.seqNo # prev_Recv_Seq[p]
        /\ prev_Recv_Seq' = [prev_Recv_Seq EXCEPT ![p] = d.seqNo]
        /\ \E s \in NextCalls(p, d) : script' = [script EXCEPT ![p] = s]
        /\ accepted' = [accepted EXCEPT ![p] = Append(@, d.id)]
        /\ got' = IF use = "chunk" THEN Append(got, [kind |-> d.kind, n |-> d.n]) ELSE got
        /\ deleted' = (deleted \/ (use = "delname" /\ Deletes(d)))
        /\ told' = IF use = "verdict" THEN IF d.kind = "#" THEN "missing" ELSE "deleted"
                   ELSE told
  /\ Consume(p) /\ SendAck(p)
  /\ UNCHANGED <<plan, file, network, waiting, Send_Seq, ackSeq, calls, newDropped>>

\* A duplicate, or what seems one: udprecv answers it and goes on.
Drop(p) ==
  /\ InCall(p, "recv") /\ Incoming(p) # <<>>
  /\ LET d   == Head(Incoming(p))
         new == d.id > 0 /\ \A k \in DOMAIN accepted[p] : accepted[p][k] # d.id
     IN /\ d.seqNo = prev_Recv_Seq[p]
        /\ SendAck(p) /\ newDropped' = (newDropped \/ new)
  /\ Consume(p)
  /\ UNCHANGED <<plan, file, network, script, waiting, seqs, files, calls, accepted>>

Release == /\ (Up!Release /\ KeepIncoming("client")) \/ (Down!Release /\ KeepOutgoing("client"))
           /\ UNCHANGED <<plan, file, network, script, waiting, seqs, files, calls, accepted,
                          newDropped>>

Step(p) == udpsend(p) \/ Resend(p) \/ RecvAck(p) \/ Accept(p) \/ Drop(p)

Next == Choose \/ (\E p \in Peer : Step(p)) \/ Release

Spec == Init /\ [][Next]_vars

(* Both programs run on and the user types the plan.  A resent packet that *)
(* is lost changes nothing, so fairness of a side that only resends also   *)
(* says that the router does not drop the same packet for ever.            *)
FairSpec == /\ Spec
            /\ WF_vars(Choose) /\ WF_vars(Release)
            /\ \A p \in Peer : WF_vars(Step(p))
-------------------------------------------------------------------------------
\* The calls of udpsend that have returned.
Returned(p) == IF waiting[p] THEN calls[p] - 1 ELSE calls[p]

(* Over a network that loses packets but no ACK, and delays nothing, a     *)
(* side has received what the other has sent: every packet once and in     *)
(* order, and no call of udpsend returns before.  The one-bit numbers, the *)
(* two sides' copies of them and the turns of their scripts have to agree  *)
(* for that, from command to command.                                      *)
SentIsReceivedInOrder ==
  network = {} /\ ~newDropped =>
    \A p \in Peer :
      /\ accepted[p] = [k \in 1..Len(accepted[p]) |-> k]
      /\ Returned(Other(p)) <= Len(accepted[p])

(* udprecv returns no packet twice, whatever is lost and however early the *)
(* timeouts come, as long as the router does not reorder: prev_Recv_Seq is *)
(* enough to recognise a packet that was resent because its ACK was lost.  *)
NothingAcceptedTwice ==
  "delay" \notin network =>
    \A p \in Peer : \A j, k \in DOMAIN accepted[p] :
      j # k /\ accepted[p][j] = accepted[p][k] => accepted[p][j] = 0

(* client.cpp:448-451: the client says that the file is gone only if the   *)
(* server has deleted it.  It takes any packet but "#" for the answer.     *)
ToldDeletedIsDeleted == "delay" \notin network /\ told = "deleted" => deleted

(* A command comes to its end on the client's side, over the same network  *)
(* as above, unless the server has taken it for a duplicate, of what came  *)
(* last before a PUT reset the number or of nothing before the first; the  *)
(* numbers within a command never meet like that.  Files whose size is a   *)
(* multiple of 260 and files that cannot be deleted make it wait for ever. *)
Completes == script["client"] = <<>> /\ plan = <<>>

\* The client's last packet is a command: all before it, and the server's, were returned.
CommandDropped ==
  /\ newDropped /\ script["server"] = <<RecvCall("command")>>
  /\ calls["client"] = Len(accepted["server"]) + 1
  /\ calls["server"] = Len(accepted["client"])

CommandsComplete ==
  network = {} /\ ~file.extra /\ file.deletable => <>(Completes \/ CommandDropped)
===============================================================================
