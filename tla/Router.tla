-------------------------------- MODULE Router --------------------------------
(***************************************************************************)
(* The network emulator every UDP build runs between its two peers         *)
(* (Router.cpp, the same file in build 2, Assign3_zcl and sample-3).       *)
(*                                                                         *)
(* Router::Run is one thread: it selects on two sockets with a 300 ms      *)
(* timeout and, for a packet that has come in, delays it in the one-slot   *)
(* FileBuf, drops it, or forwards it, the delayed packet following a       *)
(* forwarded one with the same destination.  An iteration of its loop is   *)
(* one step: nothing but the arrival of packets happens beside it.         *)
(*                                                                         *)
(* Peers and sockets are external.  The k-th packet a peer sends is the    *)
(* number k, so that loss, reordering and duplication can be seen.         *)
(***************************************************************************)
EXTENDS Integers, Sequences

CONSTANTS MaxPackets,  \* packets each peer sends (bound)
          SocketCap,   \* packets a router socket buffers before it drops
          MaxWait,     \* bound on wait_count for failing recvfrom calls
          NoPacket     \* "FileBuf holds nothing for this destination"

ASSUME RouterAssumption ==
  /\ MaxPackets \in Nat /\ SocketCap \in Nat /\ MaxWait \in Nat
  /\ NoPacket \notin Nat

VARIABLES
  sent,        \* sent[d]: how many packets peer d has sent
  sock,        \* sock[d]: receive queue of the socket facing peer d
  FileBuf,     \* the delay slot: [empty, destination, packet]
  wait_count,  \* Run's local counter of cycles with a delayed packet
  out,         \* out[d]: all the packets sent to peer d, in order
  idle         \* history: idle cycles since FileBuf was filled

vars == <<sent, sock, FileBuf, wait_count, out, idle>>

Host == {1, 2}
Other(d) == 3 - d

(* Types: the queues hold what was sent and fit their buffers, and a packet *)
(* is not held through more than three idle cycles.                        *)
TypeOK ==
  /\ sent \in [Host -> 0..MaxPackets]
  /\ sock \in [Host -> Seq(1..MaxPackets)]
  /\ \A d \in Host : Len(sock[d]) <= SocketCap
  /\ FileBuf \in [empty : BOOLEAN, destination : Host, packet : 0..MaxPackets]
  /\ wait_count \in Nat
  /\ out \in [Host -> Seq(1..MaxPackets)]
  /\ idle \in 0..3

Init ==
  /\ sent = [d \in Host |-> 0]
  /\ sock = [d \in Host |-> <<>>]
  /\ FileBuf = [empty |-> TRUE, destination |-> 1, packet |-> 0]
  /\ wait_count = 0
  /\ out = [d \in Host |-> <<>>]
  /\ idle = 0

\* A peer sends to the router; a full socket buffer drops the packet.
PeerSend(d) ==
  /\ sent[d] < MaxPackets
  /\ sent' = [sent EXCEPT ![d] = @ + 1]
  /\ sock' = IF Len(sock[d]) < SocketCap
             THEN [sock EXCEPT ![d] = Append(@, sent[d] + 1)] ELSE sock
  /\ UNCHANGED <<FileBuf, wait_count, out, idle>>

-------------------------------------------------------------------------------
\* Sock1 is looked at first: Sock2 is read only when Sock1 had nothing.
Readable(d) == sock[d] # <<>> /\ (d = 2 => sock[1] = <<>>)

\* "if(!FileBuf.empty) wait_count++" at the head of every busy cycle.
BusyCount == IF FileBuf.empty THEN wait_count ELSE wait_count + 1

Consume(d) == sock' = [sock EXCEPT ![d] = Tail(@)]

\* IsDelayed: only when the slot is free.
Delay(d) ==
  /\ Readable(d) /\ FileBuf.empty
  /\ Consume(d)
  /\ FileBuf' = [empty |-> FALSE, destination |-> Other(d), packet |-> Head(sock[d])]
  /\ wait_count' = BusyCount
  /\ idle' = 0
  /\ UNCHANGED <<sent, out>>

\* IsDamage, a failing sendto, or a recvfrom that consumed the packet and failed.
Damage(d) ==
  /\ Readable(d)
  /\ Consume(d)
  /\ wait_count' = BusyCount
  /\ UNCHANGED <<sent, FileBuf, out, idle>>

\* Mutated: the slot is not marked empty.
SendProcKeeps(delivered) ==
  /\ UNCHANGED FileBuf
  /\ out' = [out EXCEPT ![FileBuf.destination] = Append(delivered, FileBuf.packet)]

(* SendProc empties the slot whether or not its sendto succeeds; delivered *)
(* is what had been sent to the destination before.                        *)
SendProc(delivered) ==
  /\ FileBuf' = [FileBuf EXCEPT !.empty = TRUE]
  /\ \E ok \in BOOLEAN :
       out' = [out EXCEPT ![FileBuf.destination] =
                 IF ok THEN Append(delivered, FileBuf.packet) ELSE delivered]

\* Mutated: wait_count is not reset when the delayed packet follows.
ForwardWithoutReset(d) ==
  LET dest == Other(d)
      delivered == Append(out[dest], Head(sock[d]))
  IN /\ Readable(d)
     /\ Consume(d)
     /\ wait_count' = BusyCount
     /\ IF ~FileBuf.empty /\ FileBuf.destination = dest
        THEN SendProc(delivered)
        ELSE out' = [out EXCEPT ![dest] = delivered] /\ UNCHANGED FileBuf
     /\ UNCHANGED <<sent, idle>>

\* Mutated: the delayed packet does not follow.
ForwardWithoutFlush(d) ==
  /\ Readable(d)
  /\ Consume(d)
  /\ wait_count' = BusyCount
  /\ out' = [out EXCEPT ![Other(d)] = Append(@, Head(sock[d]))]
  /\ UNCHANGED <<sent, FileBuf, idle>>

ForwardPacket(d) ==
  LET dest == Other(d)
      delivered == Append(out[dest], Head(sock[d]))
  IN /\ Readable(d)
     /\ Consume(d)
     /\ IF ~FileBuf.empty /\ FileBuf.destination = dest
        THEN /\ wait_count' = 0
             /\ SendProc(delivered)
        ELSE /\ wait_count' = BusyCount
             /\ out' = [out EXCEPT ![dest] = delivered]
             /\ UNCHANGED FileBuf
     /\ UNCHANGED <<sent, idle>>

\* recvfrom reports an error (a port was unreachable) and no packet is read.
RecvError(d) ==
  /\ Readable(d) /\ wait_count < MaxWait
  /\ wait_count' = BusyCount
  /\ UNCHANGED <<sent, sock, FileBuf, out, idle>>

\* Mutated: an idle cycle does not count.
IdleUncounted ==
  /\ \A d \in Host : sock[d] = <<>>
  /\ ~FileBuf.empty
  /\ idle' = idle + 1
  /\ IF wait_count >= 3
     THEN SendProc(out[FileBuf.destination]) /\ wait_count' = 0
     ELSE UNCHANGED <<wait_count, FileBuf, out>>
  /\ UNCHANGED <<sent, sock>>

\* Mutated: an idle cycle starts the count again.
IdleRestarts ==
  /\ \A d \in Host : sock[d] = <<>>
  /\ ~FileBuf.empty
  /\ wait_count' = 0 /\ idle' = 0
  /\ UNCHANGED <<sent, sock, FileBuf, out>>

\* select timed out.
IdleCycle ==
  /\ \A d \in Host : sock[d] = <<>>
  /\ ~FileBuf.empty
  /\ idle' = idle + 1
  /\ IF wait_count + 1 >= 3
     THEN SendProc(out[FileBuf.destination]) /\ wait_count' = 0
     ELSE wait_count' = wait_count + 1 /\ UNCHANGED <<FileBuf, out>>
  /\ UNCHANGED <<sent, sock>>

Run == (\E d \in Host : Delay(d) \/ Damage(d) \/ ForwardPacket(d) \/ RecvError(d))
       \/ IdleCycle

Next == (\E d \in Host : PeerSend(d)) \/ Run

Spec == Init /\ [][Next]_vars

(* Run never returns, so as a whole it keeps going; a socket that reports  *)
(* errors for ever without delivering is not assumed away, but a waiting   *)
(* packet is read in the end.                                              *)
Read(d) == Delay(d) \/ Damage(d) \/ ForwardPacket(d)

FairSpec == Spec /\ WF_vars(IdleCycle) /\ WF_vars(\E d \in Host : Read(d))
-------------------------------------------------------------------------------
(* wait_count measures how long the packet in FileBuf has been there: it   *)
(* is 0 whenever the slot is empty, so that a packet delayed later starts  *)
(* from 0.  Every path that empties the slot has to reset it.              *)
WaitCountIsOfHeldPacket == FileBuf.empty => wait_count = 0

(* Nothing the router sends is a second copy: the packets sent to a peer   *)
(* are distinct, and a packet waiting in FileBuf has not been sent.        *)
NoDuplicate ==
  \A d \in Host :
    /\ \A i, j \in DOMAIN out[d] : i # j => out[d][i] # out[d][j]
    /\ ~FileBuf.empty /\ FileBuf.destination = d =>
         \A i \in DOMAIN out[d] : out[d][i] # FileBuf.packet

(* A delayed packet is overtaken by at most one packet of its direction:   *)
(* packets at a distance of two or more arrive in the order they were sent *)
(* (SendProc right after the forward, lines 220-224 and 235-239).          *)
OvertakenByOne ==
  \A d \in Host : \A i, j \in DOMAIN out[d] : i + 2 <= j => out[d][i] < out[d][j]

\* The same while the packet is still held: nothing sent later has passed it.
HeldIsNewest ==
  ~FileBuf.empty =>
    \A i \in DOMAIN out[FileBuf.destination] :
      out[FileBuf.destination][i] < FileBuf.packet

(* A delayed packet leaves FileBuf in the end.  It needs the traffic to    *)
(* pause: a cycle in which only dropped packets or packets of the other    *)
(* direction come in never calls SendProc.                                 *)
DelayedIsReleased == ~FileBuf.empty ~> FileBuf.empty

\* Each direction of the router is the abstract link.
HeldFor(d) == IF ~FileBuf.empty /\ FileBuf.destination = d
              THEN FileBuf.packet ELSE NoPacket

Link1 == INSTANCE RouterLink WITH Packet <- 1..MaxPackets, Cap <- -1,
                                  queue <- out[1], held <- HeldFor(1)
Link2 == INSTANCE RouterLink WITH Packet <- 1..MaxPackets, Cap <- -1,
                                  queue <- out[2], held <- HeldFor(2)

ImplementsLink1 == Link1!LinkSpec
ImplementsLink2 == Link2!LinkSpec
===============================================================================
