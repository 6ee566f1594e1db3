------------------------------ MODULE RouterLink ------------------------------
(***************************************************************************)
(* One direction of the router as the two peers see it: what Router.cpp    *)
(* promises about the packets that travel from one peer to the other.      *)
(*                                                                         *)
(* A packet that enters the link is forwarded, lost, or held back; at most *)
(* one packet is held at a time, and the next packet that is forwarded     *)
(* takes the held one along behind it.  So nothing is duplicated and a     *)
(* packet is overtaken by at most one later packet.  queue is what has     *)
(* arrived in the destination's socket buffer and has not been read.       *)
(*                                                                         *)
(* Router shows that Router::Run implements this link in each direction;   *)
(* SockTransfer runs its sender and receiver over two of these links.      *)
(***************************************************************************)
EXTENDS Integers, Sequences

CONSTANTS Packet,     \* everything that may travel on the link
          NoPacket,   \* the value of held when nothing is held back
          Cap         \* packets the destination's socket buffer has room for;
                      \* -1 when no bound is put on it

VARIABLES queue, held

lvars == <<queue, held>>

LinkInit == queue = <<>> /\ held = NoPacket

\* A full socket buffer drops what arrives last, as UDP does.
Arrive(q, p) == IF Len(q) = Cap THEN q ELSE Append(q, p)

(* Forwarding p sends the held packet right behind it, if there is one;    *)
(* a failing sendto loses that packet all the same.                        *)
Forward(p) ==
  /\ held' = NoPacket
  /\ \/ queue' = Arrive(queue, p)
     \/ held # NoPacket /\ queue' = Arrive(Arrive(queue, p), held)

Lose == UNCHANGED lvars

Hold(p) == held = NoPacket /\ held' = p /\ UNCHANGED queue

\* What can happen to a packet handed to the link.
Put(p) == Forward(p) \/ Lose \/ Hold(p)

\* The held packet goes out by itself (the link was idle), or its sendto fails.
Release ==
  /\ held # NoPacket
  /\ held' = NoPacket
  /\ queue' \in {queue, Arrive(queue, held)}

\* The destination reads its socket.
Take(p) ==
  /\ queue # <<>>
  /\ p = Head(queue)
  /\ queue' = Tail(queue)
  /\ UNCHANGED held

LinkNext == (\E p \in Packet : Put(p) \/ Take(p)) \/ Release

LinkSpec == LinkInit /\ [][LinkNext]_lvars
===============================================================================
