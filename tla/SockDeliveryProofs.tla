-------------------------- MODULE SockDeliveryProofs --------------------------
(***************************************************************************)
(* What the receiver writes is what the sender stamped, proved for every   *)
(* window and file as long as there are more than 2W sequence numbers      *)
(* (the code has W = 7 of 32).                                             *)
(*                                                                         *)
(* Each packet and each answer has a place in the order in which the links *)
(* were fed.  The router lets a packet be overtaken by one later packet    *)
(* only, so a packet at the head of a queue may be W behind what the one   *)
(* before it said, every other packet is not behind at all.  With the      *)
(* window that leaves 2W + 1 candidates for the number the receiver        *)
(* compares, and the comparison modulo M tells them apart.                 *)
(***************************************************************************)
EXTENDS SockTransferProofs

\* The packets of two windows, and one more, have different numbers.
EnoughNumbers == M >= 2 * W + 1

-------------------------------------------------------------------------------
(* A link, as a queue q and a held packet h of which lo and hi say where   *)
(* each packet stands: a later packet's lo is not below an earlier one's   *)
(* hi, by more than W for neighbours.  x has been reached when no packet   *)
(* but the head of the queue stands below it.                              *)
Slack(near) == IF near THEN W ELSE 0

Ordered(q, h, lo, hi) ==
  /\ \A a, c \in 1..Len(q) : a < c => hi[q[a]] <= lo[q[c]] + Slack(c = a + 1)
  /\ h # NoPacket => \A a \in 1..Len(q) : hi[q[a]] <= lo[h]

Reached(q, h, lo, x) ==
  /\ \A c \in 1..Len(q) : x <= lo[q[c]] + Slack(c = 1)
  /\ h # NoPacket => x <= lo[h]

\* Packets: a special request stands with the packet stamped last.
Number(p)  == IF p.type = "REQUEST" THEN p.id ELSE p.id - 1
PacketLo   == [p \in DataPacket |-> Number(p) + W]
PacketHi   == [p \in DataPacket |-> Number(p) + 1]

(* Answers: the number the receiver waited for after it.  srv_wait4cnn     *)
(* acknowledges what it gets, in any order, but then the file has been     *)
(* received and the numbers of its packets are far from used up.           *)
Awaited(m) == IF m.type = "ACK" THEN m.id + 1 ELSE m.id
Settled(m) == m.type = "ACK" /\ First + Sent <= m.id + M
AnswerLo   == [m \in AckPacket |-> IF Settled(m) THEN First + Sent + W ELSE Awaited(m)]
AnswerHi   == [m \in AckPacket |-> Awaited(m)]

-------------------------------------------------------------------------------
Full == Len(got) = Chunks

\* Slot 1 may be sent when the window is empty; it is not older than a window.
SlotOneRecent == winBuf[1] # NoPacket /\ seq <= winBuf[1] + W

MarksInUse == arrACK \subseteq 1..winBufPos

LingersWhenFull == rpc \in {"linger", "closed"} => Full

\* A special request is send_file's last packet.
SackEnds == \A p \in InFlight(dataQ, dataHeld) : p.type = "SACK" => p.id <= seq /\ spc = "done"

Upkeep == SlotOneRecent /\ MarksInUse /\ LingersWhenFull /\ SackEnds

\* The two ends are never more than a window apart.
WithinWindow == expected <= seq /\ seq <= expected + W

Written == Len(got) <= Len(stamp) /\ \A k \in 1..Len(got) : got[k] = stamp[k]

PacketsInOrder ==
  /\ Ordered(dataQ, dataHeld, PacketLo, PacketHi)
  /\ Reached(dataQ, dataHeld, PacketLo, expected)

\* What the sender has learned: the start of the window and the slots marked.
Learned == {Base} \cup {Base + k : k \in arrACK}

AnswersInOrder ==
  /\ Ordered(ackQ, ackHeld, AnswerLo, AnswerHi)
  /\ \A x \in Learned : Reached(ackQ, ackHeld, AnswerLo, x)

\* Nothing is learned before the receiver has said it.
LearnedIsSaid ==
  /\ \A x \in Learned : x <= expected
  /\ \A m \in InFlight(ackQ, ackHeld) : Awaited(m) <= expected

\* An answer on its way is less than M numbers old.
Fresh(m) == m.id <= seq /\ seq < Awaited(m) + M

AnswersFresh == \A m \in InFlight(ackQ, ackHeld) : Fresh(m)

Aligned == /\ WithinWindow /\ Written /\ PacketsInOrder /\ AnswersFresh
           /\ spc # "done" => AnswersInOrder
           /\ ~Full => LearnedIsSaid

DeliveryInv == Upkeep /\ (~abandoned => Aligned)

-------------------------------------------------------------------------------
(* What a link step makes of its queue and its held packet.                *)
PutResult(q, h, p, q2, h2) ==
  \/ h2 = NoPacket /\ q2 \in {q, Append(q, p)}
  \/ h2 = NoPacket /\ h # NoPacket /\ q2 = Append(Append(q, p), h)
  \/ h2 = h /\ q2 = q
  \/ h = NoPacket /\ h2 = p /\ q2 = q

ReleaseResult(q, h, q2, h2) == h2 = NoPacket /\ h # NoPacket /\ q2 \in {q, Append(q, h)}

TakeResult(q, h, p, q2, h2) == q # <<>> /\ p = Head(q) /\ q2 = Tail(q) /\ h2 = h

LEMMA DataSteps ==
  /\ \A p : Data!Put(p) => PutResult(dataQ, dataHeld, p, dataQ', dataHeld')
  /\ \A p : Data!Take(p) => TakeResult(dataQ, dataHeld, p, dataQ', dataHeld')
  /\ Data!Release => ReleaseResult(dataQ, dataHeld, dataQ', dataHeld')
<1>1. ASSUME NEW p, Data!Put(p)
      PROVE  PutResult(dataQ, dataHeld, p, dataQ', dataHeld')
  BY <1>1 DEF Data!Put, Data!Forward, Data!Lose, Data!Hold, Data!lvars, Data!Arrive, PutResult
<1>2. ASSUME NEW p, Data!Take(p)
      PROVE  TakeResult(dataQ, dataHeld, p, dataQ', dataHeld')
  BY <1>2 DEF Data!Take, TakeResult
<1>3. ASSUME Data!Release PROVE ReleaseResult(dataQ, dataHeld, dataQ', dataHeld')
  BY <1>3 DEF Data!Release, Data!Arrive, ReleaseResult
<1> QED BY <1>1, <1>2, <1>3

LEMMA AckSteps ==
  /\ \A p : Ack!Put(p) => PutResult(ackQ, ackHeld, p, ackQ', ackHeld')
  /\ \A p : Ack!Take(p) => TakeResult(ackQ, ackHeld, p, ackQ', ackHeld')
  /\ Ack!Release => ReleaseResult(ackQ, ackHeld, ackQ', ackHeld')
<1>1. ASSUME NEW p, Ack!Put(p)
      PROVE  PutResult(ackQ, ackHeld, p, ackQ', ackHeld')
  BY <1>1 DEF Ack!Put, Ack!Forward, Ack!Lose, Ack!Hold, Ack!lvars, Ack!Arrive, PutResult
<1>2. ASSUME NEW p, Ack!Take(p)
      PROVE  TakeResult(ackQ, ackHeld, p, ackQ', ackHeld')
  BY <1>2 DEF Ack!Take, TakeResult
<1>3. ASSUME Ack!Release PROVE ReleaseResult(ackQ, ackHeld, ackQ', ackHeld')
  BY <1>3 DEF Ack!Release, Ack!Arrive, ReleaseResult
<1> QED BY <1>1, <1>2, <1>3

LEMMA Appended ==
  ASSUME NEW S, NEW q \in Seq(S), NEW p \in S, NEW t, t = Append(q, p)
  PROVE  /\ t \in Seq(S) /\ Len(t) = Len(q) + 1 /\ Len(q) \in Nat
         /\ \A a \in 1..Len(q) : t[a] = q[a]
         /\ t[Len(q) + 1] = p
OBVIOUS

\* One more packet at the end of the queue, that stands no lower than asked.
LEMMA AppendOrdered ==
  ASSUME NEW P, NEW q \in Seq(P), NEW p \in P, NEW lo \in [P -> Int], NEW hi \in [P -> Int],
         Ordered(q, NoPacket, lo, hi),
         \A a \in 1..Len(q) : hi[q[a]] <= lo[p] + Slack(a = Len(q))
  PROVE  Ordered(Append(q, p), NoPacket, lo, hi)
<1> DEFINE t == Append(q, p)
<1>1. /\ t \in Seq(P) /\ Len(t) = Len(q) + 1 /\ Len(q) \in Nat
      /\ \A a \in 1..Len(q) : t[a] = q[a]
      /\ t[Len(q) + 1] = p
  BY Appended
<1> HIDE DEF t
<1>2. ASSUME NEW a \in 1..Len(t), NEW c \in 1..Len(t), a < c
      PROVE  hi[t[a]] <= lo[t[c]] + Slack(c = a + 1)
  <2>1. a \in 1..Len(q) BY <1>1, <1>2
  <2>2. CASE c = Len(q) + 1
    <3>1. (a = Len(q)) <=> (c = a + 1)
      <4>1. a \in Int /\ Len(q) \in Int BY <2>1, <1>1
      <4> QED BY <4>1, <2>2
    <3>2. Slack(a = Len(q)) = Slack(c = a + 1) BY <3>1 DEF Slack
    <3>3. t[a] = q[a] /\ t[c] = p BY <1>1, <2>1, <2>2
    <3> QED BY <2>1, <3>2, <3>3
  <2>3. CASE c \in 1..Len(q)
    <3>1. t[a] = q[a] /\ t[c] = q[c] BY <1>1, <2>1, <2>3
    <3>2. hi[q[a]] <= lo[q[c]] + Slack(c = a + 1) BY <1>2, <2>1, <2>3 DEF Ordered
    <3> QED BY <3>1, <3>2
  <2> QED BY <1>1, <2>2, <2>3
<1>3. Ordered(t, NoPacket, lo, hi) BY <1>2 DEF Ordered
<1> QED BY <1>3 DEF t

LEMMA AppendReached ==
  ASSUME NEW P, NEW q \in Seq(P), NEW p \in P, NEW lo \in [P -> Int], NEW x \in Int,
         Reached(q, NoPacket, lo, x), x <= lo[p]
  PROVE  Reached(Append(q, p), NoPacket, lo, x)
<1> DEFINE t == Append(q, p)
<1>1. /\ t \in Seq(P) /\ Len(t) = Len(q) + 1 /\ Len(q) \in Nat
      /\ \A a \in 1..Len(q) : t[a] = q[a]
      /\ t[Len(q) + 1] = p
  BY Appended
<1> HIDE DEF t
<1>2. ASSUME NEW c \in 1..Len(t)
      PROVE  x <= lo[t[c]] + Slack(c = 1)
  <2>1. CASE c \in 1..Len(q) BY <1>1, <2>1 DEF Reached
  <2>2. CASE c = Len(q) + 1
    <3>1. lo[p] \in Int /\ x <= lo[p] OBVIOUS
    <3>2. Slack(c = 1) \in Nat BY SentFacts DEF Slack
    <3>3. t[c] = p BY <1>1, <2>2
    <3> QED BY <3>1, <3>2, <3>3
  <2> QED BY <1>1, <2>1, <2>2
<1>3. Reached(t, NoPacket, lo, x) BY <1>2 DEF Reached
<1> QED BY <1>3 DEF t

\* What stays behind when the head of the queue is read.
LEMMA TailOf ==
  ASSUME NEW S, NEW q \in Seq(S), q # <<>>, NEW t, t = Tail(q)
  PROVE  /\ t \in Seq(S) /\ Len(q) \in Nat /\ Len(q) > 0 /\ Len(t) = Len(q) - 1
         /\ \A a \in 1..Len(t) : t[a] = q[a + 1] /\ a + 1 \in 1..Len(q)
         /\ Head(q) = q[1] /\ Head(q) \in S
OBVIOUS

(* Taking the head p keeps the order, and whoever takes it may go on to    *)
(* where p stands: only then may the next packet be behind.                *)
LEMMA TakeKeeps ==
  ASSUME NEW P, NEW q \in Seq(P), NEW h \in P \cup {NoPacket},
         NEW lo \in [P -> Int], NEW hi \in [P -> Int],
         Ordered(q, h, lo, hi), NEW p, NEW q2, NEW h2, TakeResult(q, h, p, q2, h2)
  PROVE  /\ p \in P /\ Ordered(q2, h2, lo, hi)
         /\ \A x \in Int : Reached(q, h, lo, x) => Reached(q2, h2, lo, x)
         /\ \A x \in Int : x <= hi[p] => Reached(q2, h2, lo, x)
<1>1. q # <<>> /\ p = Head(q) /\ q2 = Tail(q) /\ h2 = h BY DEF TakeResult
<1>2. /\ q2 \in Seq(P) /\ Len(q) \in Nat /\ Len(q) > 0 /\ Len(q2) = Len(q) - 1
      /\ \A a \in 1..Len(q2) : q2[a] = q[a + 1] /\ a + 1 \in 1..Len(q)
      /\ p = q[1] /\ p \in P
  BY <1>1, TailOf
<1>3. \A a \in 1..Len(q2) : a \in Nat \ {0} /\ q2[a] \in P
  <2> TAKE a \in 1..Len(q2)
  <2>1. a \in Nat \ {0} BY <1>2
  <2>2. q2[a] \in P BY <1>2, SeqElement
  <2> QED BY <2>1, <2>2
<1>4. Ordered(q2, h2, lo, hi)
  <2>1. ASSUME NEW a \in 1..Len(q2), NEW c \in 1..Len(q2), a < c
        PROVE  hi[q2[a]] <= lo[q2[c]] + Slack(c = a + 1)
    <3>1. a + 1 \in 1..Len(q) /\ c + 1 \in 1..Len(q) /\ a + 1 < c + 1 BY <1>2, <2>1
    <3>2. hi[q[a + 1]] <= lo[q[c + 1]] + Slack(c + 1 = (a + 1) + 1) BY <3>1 DEF Ordered
    <3>3. (c + 1 = (a + 1) + 1) <=> (c = a + 1)
      <4>1. a \in Int /\ c \in Int BY <1>2
      <4> QED BY <4>1
    <3>4. Slack(c + 1 = (a + 1) + 1) = Slack(c = a + 1) BY <3>3 DEF Slack
    <3> QED BY <1>2, <3>2, <3>4
  <2>2. ASSUME h2 # NoPacket, NEW a \in 1..Len(q2) PROVE hi[q2[a]] <= lo[h2]
    BY <1>1, <1>2, <2>2 DEF Ordered
  <2> QED BY <2>1, <2>2 DEF Ordered
<1>5. ASSUME NEW x \in Int, Reached(q, h, lo, x) PROVE Reached(q2, h2, lo, x)
  <2>1. ASSUME NEW c \in 1..Len(q2) PROVE x <= lo[q2[c]] + Slack(c = 1)
    <3>1. c + 1 \in 1..Len(q) /\ q2[c] = q[c + 1] /\ lo[q2[c]] \in Int /\ c + 1 # 1
      <4>1. c \in Nat \ {0} /\ q2[c] \in P BY <1>3
      <4>2. lo[q2[c]] \in Int /\ c + 1 # 1 BY <4>1
      <4> QED BY <1>2, <4>2
    <3>2. x <= lo[q[c + 1]] + Slack(c + 1 = 1) BY <1>5, <3>1 DEF Reached
    <3>3. Slack(c + 1 = 1) = 0 /\ Slack(c = 1) \in Nat BY <3>1, SentFacts DEF Slack
    <3> QED BY <3>1, <3>2, <3>3
  <2> QED BY <1>1, <1>5, <2>1 DEF Reached
<1>6. ASSUME NEW x \in Int, x <= hi[p] PROVE Reached(q2, h2, lo, x)
  <2>0. hi[p] \in Int BY <1>2
  <2>1. ASSUME NEW c \in 1..Len(q2) PROVE x <= lo[q2[c]] + Slack(c = 1)
    <3>1. c + 1 \in 1..Len(q) /\ q2[c] = q[c + 1] /\ lo[q2[c]] \in Int /\ 1 < c + 1
          /\ 1 \in 1..Len(q)
      <4>1. c \in Nat \ {0} /\ q2[c] \in P BY <1>3
      <4>2. lo[q2[c]] \in Int /\ 1 < c + 1 BY <4>1
      <4>3. 1 \in 1..Len(q) BY <1>2
      <4> QED BY <1>2, <4>2, <4>3
    <3>2. hi[q[1]] <= lo[q[c + 1]] + Slack(c + 1 = 1 + 1) BY <3>1 DEF Ordered
    <3>3. (c + 1 = 1 + 1) <=> (c = 1)
      <4>1. c \in Int BY <1>3
      <4> QED BY <4>1
    <3>4. Slack(c + 1 = 1 + 1) = Slack(c = 1) /\ Slack(c = 1) \in Nat
      BY <3>3, SentFacts DEF Slack
    <3>5. hi[p] <= lo[q2[c]] + Slack(c = 1) BY <1>2, <3>1, <3>2, <3>4
    <3>6. lo[q2[c]] \in Int /\ Slack(c = 1) \in Int BY <3>1, <3>4
    <3> QED BY <1>6, <2>0, <3>5, <3>6
  <2>2. ASSUME h2 # NoPacket PROVE x <= lo[h2]
    <3>1. h2 \in P /\ lo[h2] \in Int /\ 1 \in 1..Len(q) BY <1>1, <1>2, <2>2
    <3>2. hi[p] <= lo[h2] BY <1>1, <1>2, <2>2, <3>1 DEF Ordered
    <3> QED BY <1>6, <2>0, <3>1, <3>2
  <2> QED BY <2>1, <2>2 DEF Reached
<1> QED BY <1>2, <1>4, <1>5, <1>6

LEMMA OrderedParts ==
  ASSUME NEW q, NEW h, NEW lo, NEW hi
  PROVE  Ordered(q, h, lo, hi) <=>
           /\ Ordered(q, NoPacket, lo, hi)
           /\ h # NoPacket => \A a \in 1..Len(q) : hi[q[a]] <= lo[h]
BY DEF Ordered

LEMMA ReachedParts ==
  ASSUME NEW q, NEW h, NEW lo, NEW x
  PROVE  Reached(q, h, lo, x) <=>
           Reached(q, NoPacket, lo, x) /\ (h # NoPacket => x <= lo[h])
BY DEF Reached

(* A packet put on the link stands no lower than everything under way and, *)
(* within W, no higher than the held one, which may follow it.             *)
LEMMA PutKeepsOrder ==
  ASSUME NEW P, NEW q \in Seq(P), NEW h \in P \cup {NoPacket}, NEW p \in P,
         NEW lo \in [P -> Int], NEW hi \in [P -> Int],
         Ordered(q, h, lo, hi),
         \A a \in 1..Len(q) : hi[q[a]] <= lo[p],
         h # NoPacket => hi[p] <= lo[h] + W,
         NEW q2, NEW h2, PutResult(q, h, p, q2, h2)
  PROVE  Ordered(q2, h2, lo, hi)
<1>1. Ordered(q, NoPacket, lo, hi) BY OrderedParts
<1>2. ASSUME NEW a \in 1..Len(q) PROVE hi[q[a]] <= lo[p] + Slack(a = Len(q))
  <2>1. q[a] \in P BY SeqElement
  <2>2. hi[q[a]] \in Int /\ lo[p] \in Int /\ Slack(a = Len(q)) \in Nat
    BY <2>1, SentFacts DEF Slack
  <2> QED BY <2>2
<1>3. Ordered(Append(q, p), NoPacket, lo, hi) BY <1>1, <1>2, AppendOrdered
<1>4. ASSUME h # NoPacket PROVE Ordered(Append(Append(q, p), h), NoPacket, lo, hi)
  <2> DEFINE t == Append(q, p)
  <2>1. /\ t \in Seq(P) /\ Len(t) = Len(q) + 1 /\ Len(q) \in Nat
        /\ \A a \in 1..Len(q) : t[a] = q[a]
        /\ t[Len(q) + 1] = p
    BY Appended
  <2>2. Ordered(t, NoPacket, lo, hi) BY <1>3
  <2>3. h \in P /\ lo[h] \in Int BY <1>4
  <2> HIDE DEF t
  <2>4. ASSUME NEW a \in 1..Len(t) PROVE hi[t[a]] <= lo[h] + Slack(a = Len(t))
    <3>1. CASE a \in 1..Len(q)
      <4>1. t[a] = q[a] /\ q[a] \in P BY <2>1, <3>1, SeqElement
      <4>2. hi[q[a]] <= lo[h] BY <1>4, <3>1 DEF Ordered
      <4>3. hi[q[a]] \in Int /\ Slack(a = Len(t)) \in Nat BY <4>1, SentFacts DEF Slack
      <4> QED BY <2>3, <4>1, <4>2, <4>3
    <3>2. CASE a = Len(q) + 1
      <4>1. Slack(a = Len(t)) = W BY <2>1, <3>2 DEF Slack
      <4> QED BY <1>4, <2>1, <3>2, <4>1
    <3> QED BY <2>1, <3>1, <3>2
  <2>5. Ordered(Append(t, h), NoPacket, lo, hi) BY <2>1, <2>2, <2>3, <2>4, AppendOrdered
  <2> QED BY <2>5 DEF t
<1>5. Ordered(q, p, lo, hi) BY <1>1, OrderedParts
<1> QED BY <1>1, <1>3, <1>4, <1>5 DEF PutResult

LEMMA PutKeepsReached ==
  ASSUME NEW P, NEW q \in Seq(P), NEW h \in P \cup {NoPacket}, NEW p \in P,
         NEW lo \in [P -> Int], NEW x \in Int,
         Reached(q, h, lo, x), x <= lo[p],
         NEW q2, NEW h2, PutResult(q, h, p, q2, h2)
  PROVE  Reached(q2, h2, lo, x)
<1>1. Reached(q, NoPacket, lo, x) /\ (h # NoPacket => x <= lo[h]) BY ReachedParts
<1>2. Append(q, p) \in Seq(P) /\ Reached(Append(q, p), NoPacket, lo, x)
  BY <1>1, AppendReached, SeqAppended
<1>3. h # NoPacket => Reached(Append(Append(q, p), h), NoPacket, lo, x)
  BY <1>1, <1>2, AppendReached
<1>4. Reached(q, p, lo, x) BY <1>1, ReachedParts
<1> QED BY <1>1, <1>2, <1>3, <1>4 DEF PutResult

LEMMA ReleaseKeeps ==
  ASSUME NEW P, NEW q \in Seq(P), NEW h \in P \cup {NoPacket},
         NEW lo \in [P -> Int], NEW hi \in [P -> Int],
         NEW q2, NEW h2, ReleaseResult(q, h, q2, h2)
  PROVE  /\ Ordered(q, h, lo, hi) => Ordered(q2, h2, lo, hi)
         /\ \A x \in Int : Reached(q, h, lo, x) => Reached(q2, h2, lo, x)
<1>1. h2 = NoPacket /\ h \in P /\ h # NoPacket /\ q2 \in {q, Append(q, h)}
  BY DEF ReleaseResult
<1>2. ASSUME Ordered(q, h, lo, hi) PROVE Ordered(q2, h2, lo, hi)
  <2>1. Ordered(q, NoPacket, lo, hi) BY <1>2, OrderedParts
  <2>2. ASSUME NEW a \in 1..Len(q) PROVE hi[q[a]] <= lo[h] + Slack(a = Len(q))
    <3>1. q[a] \in P BY SeqElement
    <3>2. hi[q[a]] \in Int /\ lo[h] \in Int /\ Slack(a = Len(q)) \in Nat
      BY <1>1, <3>1, SentFacts DEF Slack
    <3>3. hi[q[a]] <= lo[h] BY <1>1, <1>2 DEF Ordered
    <3> QED BY <3>2, <3>3
  <2>3. Ordered(Append(q, h), NoPacket, lo, hi) BY <1>1, <2>1, <2>2, AppendOrdered
  <2> QED BY <1>1, <2>1, <2>3
<1>3. ASSUME NEW x \in Int, Reached(q, h, lo, x) PROVE Reached(q2, h2, lo, x)
  <2>1. Reached(q, NoPacket, lo, x) /\ x <= lo[h] BY <1>1, <1>3, ReachedParts
  <2>2. Reached(Append(q, h), NoPacket, lo, x) BY <1>1, <2>1, AppendReached
  <2> QED BY <1>1, <2>1, <2>2
<1> QED BY <1>2, <1>3

\* What is under way after a step was under way before it, or is put.
LEMMA InFlightSteps ==
  ASSUME NEW S, NEW q \in Seq(S), NEW h, NEW q2, NEW h2
  PROVE  /\ \A p \in S : PutResult(q, h, p, q2, h2)
                        => InFlight(q2, h2) \subseteq InFlight(q, h) \cup {p}
         /\ \A p : TakeResult(q, h, p, q2, h2)
                    => InFlight(q2, h2) \subseteq InFlight(q, h) /\ p \in InFlight(q, h)
         /\ ReleaseResult(q, h, q2, h2) /\ h \in S
              => InFlight(q2, h2) \subseteq InFlight(q, h)
<1>1. ASSUME NEW t \in Seq(S), NEW p \in S
      PROVE  {Append(t, p)[k] : k \in DOMAIN Append(t, p)}
               \subseteq {t[k] : k \in DOMAIN t} \cup {p}
  OBVIOUS
<1>2. ASSUME NEW p \in S, PutResult(q, h, p, q2, h2)
      PROVE  InFlight(q2, h2) \subseteq InFlight(q, h) \cup {p}
  <2>1. {Append(q, p)[k] : k \in DOMAIN Append(q, p)}
          \subseteq {q[k] : k \in DOMAIN q} \cup {p}
    BY <1>1
  <2>2. {Append(Append(q, p), h)[k] : k \in DOMAIN Append(Append(q, p), h)}
          \subseteq {q[k] : k \in DOMAIN q} \cup {p, h}
    OBVIOUS
  <2>3. CASE h2 = NoPacket /\ q2 \in {q, Append(q, p)} BY <2>1, <2>3 DEF InFlight
  <2>4. CASE h2 = NoPacket /\ h # NoPacket /\ q2 = Append(Append(q, p), h)
    BY <2>2, <2>4 DEF InFlight
  <2>5. CASE q2 = q /\ (h2 = h \/ h2 = p) BY <2>5 DEF InFlight
  <2> QED BY <1>2, <2>3, <2>4, <2>5 DEF PutResult
<1>3. ASSUME NEW p, TakeResult(q, h, p, q2, h2)
      PROVE  InFlight(q2, h2) \subseteq InFlight(q, h) /\ p \in InFlight(q, h)
  <2>1. q # <<>> /\ p = Head(q) /\ q2 = Tail(q) /\ h2 = h BY <1>3 DEF TakeResult
  <2>2. {Tail(q)[k] : k \in DOMAIN Tail(q)} \subseteq {q[k] : k \in DOMAIN q}
    BY <2>1
  <2>3. Head(q) \in {q[k] : k \in DOMAIN q} BY <2>1
  <2> QED BY <2>1, <2>2, <2>3 DEF InFlight
<1>4. ASSUME ReleaseResult(q, h, q2, h2), h \in S
      PROVE  InFlight(q2, h2) \subseteq InFlight(q, h)
  <2>1. h2 = NoPacket /\ h # NoPacket /\ q2 \in {q, Append(q, h)}
    BY <1>4 DEF ReleaseResult
  <2>2. {Append(q, h)[k] : k \in DOMAIN Append(q, h)} \subseteq {q[k] : k \in DOMAIN q} \cup {h}
    BY <1>1, <1>4
  <2> QED BY <2>1, <2>2 DEF InFlight
<1> QED BY <1>2, <1>3, <1>4

LEMMA InFlightPut ==
  ASSUME NEW S, NEW q \in Seq(S), NEW h, NEW p \in S, NEW q2, NEW h2,
         PutResult(q, h, p, q2, h2)
  PROVE  InFlight(q2, h2) \subseteq InFlight(q, h) \cup {p}
BY InFlightSteps

LEMMA InFlightTake ==
  ASSUME NEW S, NEW q \in Seq(S), NEW h, NEW p, NEW q2, NEW h2, TakeResult(q, h, p, q2, h2)
  PROVE  InFlight(q2, h2) \subseteq InFlight(q, h) /\ p \in InFlight(q, h)
BY InFlightSteps

LEMMA InFlightIn ==
  ASSUME NEW S, NEW q \in Seq(S), NEW h \in S \cup {NoPacket}
  PROVE  /\ InFlight(q, h) \subseteq S
         /\ \A k \in 1..Len(q) : q[k] \in InFlight(q, h)
         /\ h # NoPacket => h \in InFlight(q, h)
BY DEF InFlight

-------------------------------------------------------------------------------
LEMMA PacketNumbers ==
  /\ \A p \in DataPacket : p.id \in Int /\ Number(p) \in Int
  /\ PacketLo \in [DataPacket -> Int] /\ PacketHi \in [DataPacket -> Int]
  /\ \A p \in DataPacket : PacketLo[p] = Number(p) + W /\ PacketHi[p] = Number(p) + 1
<1>1. \A p \in DataPacket : p.id \in Int
  <2> TAKE p \in DataPacket
  <2>1. p.id \in Ids BY DEF DataPacket
  <2>2. p.id \in Nat BY <2>1, SentFacts, Zenon
  <2> QED BY <2>2
<1>2. \A p \in DataPacket : Number(p) \in Int BY <1>1 DEF Number
<1> QED BY <1>1, <1>2, SentFacts DEF PacketLo, PacketHi

LEMMA AnswerNumbers ==
  /\ \A m \in AckPacket : m.id \in Int /\ m.id <= First + Sent /\ Awaited(m) \in Int
  /\ AnswerLo \in [AckPacket -> Int] /\ AnswerHi \in [AckPacket -> Int]
  /\ \A m \in AckPacket : AnswerHi[m] = Awaited(m)
  /\ \A m \in AckPacket : Settled(m) => AnswerLo[m] = First + Sent + W
  /\ \A m \in AckPacket : ~Settled(m) => AnswerLo[m] = Awaited(m)
<1>1. \A m \in AckPacket : m.id \in Int /\ m.id <= First + Sent
  <2> TAKE m \in AckPacket
  <2>1. m.id \in Ids BY DEF AckPacket
  <2>2. m.id \in (First - 1)..(First + Sent) BY <2>1 DEF Ids
  <2> QED BY <2>2, SentFacts
<1>2. \A m \in AckPacket : Awaited(m) \in Int BY <1>1 DEF Awaited
<1>3. First + Sent + W \in Int BY SentFacts
<1>4. AnswerLo \in [AckPacket -> Int] BY <1>2, <1>3 DEF AnswerLo
<1> QED BY <1>1, <1>2, <1>4 DEF AnswerLo, AnswerHi

\* How the counters of the two ends are related.
LEMMA Counters ==
  ASSUME SenderInv, ReceiverInv
  PROVE  /\ Len(stamp) \in Nat /\ Len(got) \in Nat
         /\ seq = First + Len(stamp) /\ seq \in Nat /\ seq <= First + Sent
         /\ expected = First + Len(got) /\ expected \in Nat
         /\ winBufPos \in 0..W /\ Base = seq - winBufPos /\ Base \in Int
         /\ Full => First + Sent <= expected + 1
<1>1. /\ stamp \in Seq(1..Sent) /\ got \in Seq(0..Sent) /\ winBufPos \in 0..W
      /\ Len(stamp) < next /\ next \in 1..(Sent + 1) /\ expected = First + Len(got)
  BY DEF SenderInv, ReceiverInv, SenderTypeOK, WindowTypeOK, ReceiverTypeOK, StampedIsRead,
         GotCounted
<1>2. Len(stamp) \in Nat /\ Len(got) \in Nat BY <1>1
<1>3. seq = First + Len(stamp) /\ seq \in Nat /\ seq <= First + Sent
  BY <1>1, <1>2, SentFacts DEF seq
<1>4. Sent <= Chunks + 1 /\ Chunks \in Nat BY TransferAssumption DEF Sent
<1>5. expected \in Nat BY <1>1, <1>2, SentFacts
<1>6. Base = seq - winBufPos /\ Base \in Int BY <1>1, <1>3, SentFacts DEF Base
<1>7. Full => First + Sent <= expected + 1 BY <1>1, <1>2, <1>4, SentFacts DEF Full
<1> QED BY <1>1, <1>2, <1>3, <1>5, <1>6, <1>7

-------------------------------------------------------------------------------
(* The sender's steps, by what they do to the window and to the links: a   *)
(* packet is put on the link, a chunk is stamped, an answer is read, or    *)
(* nothing that matters here happens.                                      *)
KeepsWindow == UNCHANGED <<winBuf, winBufPos, stamp, abandoned>> /\ arrACK' \subseteq arrACK

SendStep(p) ==
  /\ Data!Put(p) /\ seq <= Number(p) + W /\ Number(p) < seq
  /\ p.type = "SACK" => p.id <= seq /\ spc' = "done"
  /\ KeepsWindow /\ UNCHANGED <<receiver, ack>>

QuietStep == KeepsWindow /\ UNCHANGED <<receiver, data, ack>>

StampStep ==
  /\ next <= Sent /\ winBufPos < W
  /\ stamp' = Append(stamp, next) /\ winBufPos' = winBufPos + 1
  /\ winBuf' = [winBuf EXCEPT ![winBufPos + 1] = seq]
  /\ arrACK' \subseteq arrACK /\ UNCHANGED <<abandoned, receiver, data, ack>>

AnswerStep(m) ==
  /\ Ack!Take(m) /\ UNCHANGED <<stamp, receiver, data>>
  /\ SlotOneRecent' /\ MarksInUse'
  /\ ~abandoned' => /\ ~abandoned
                    /\ Fresh(m) => Learned' \subseteq Learned \cup {Awaited(m)}

\* Every slot that is sent was stamped within the last W numbers.
LEMMA SlotsRecent ==
  ASSUME SenderInv, ReceiverInv, SlotOneRecent, NEW k \in 1..W, k = 1 \/ k <= winBufPos
  PROVE  winBuf[k] \in Ids /\ winBuf[k] < seq /\ seq <= winBuf[k] + W
<1>1. winBufPos \in 0..W /\ Base = seq - winBufPos /\ seq \in Nat BY Counters
<1>2. CASE k = 1
  <2>1. winBuf[1] # NoPacket /\ seq <= winBuf[1] + W BY DEF SlotOneRecent
  <2> QED BY <1>2, <2>1 DEF SenderInv, WindowTypeOK, SlotsStamped
<1>3. CASE k <= winBufPos
  <2>1. k \in 1..winBufPos BY <1>1, <1>3
  <2>2. winBuf[k] # NoPacket /\ winBuf[k] = Base + k - 1
    BY <2>1 DEF SenderInv, WindowTypeOK, WindowIsConsecutive
  <2>3. winBuf[k] \in Ids /\ winBuf[k] < seq
    BY <2>2 DEF SenderInv, WindowTypeOK, SlotsStamped
  <2> QED BY <1>1, <2>1, <2>2, <2>3, SentFacts
<1> QED BY <1>2, <1>3

LEMMA SlotSent ==
  ASSUME SenderInv, ReceiverInv, SlotOneRecent, NEW k \in 1..W, k = 1 \/ k <= winBufPos,
         SendPacket(winBuf[k]), KeepsWindow, UNCHANGED <<receiver, ack>>
  PROVE  \E p \in DataPacket : SendStep(p)
<1> DEFINE p == [type |-> "REQUEST", id |-> winBuf[k]]
<1>1. winBuf[k] \in Ids /\ winBuf[k] < seq /\ seq <= winBuf[k] + W BY SlotsRecent
<1>2. p \in DataPacket /\ p.type = "REQUEST" /\ Number(p) = winBuf[k]
  BY <1>1 DEF DataPacket, Number
<1>3. Data!Put(p) BY DEF SendPacket
<1> HIDE DEF p
<1> QED BY <1>1, <1>2, <1>3 DEF SendStep

\* The slot an answer names, when its number is at most M behind.
LEMMA MatchedSlot ==
  ASSUME SenderInv, ReceiverInv, NEW x \in Int, x <= seq, seq <= x + M,
         SlotsWith(Seq5(x)) # {}
  PROVE  FirstSlot(Seq5(x)) \in 1..winBufPos /\ FirstSlot(Seq5(x)) = x - Base + 1
<1> DEFINE k == FirstSlot(Seq5(x))
<1>1. Seq5(x) \in Int BY Seq5Typed
<1>2. k \in 1..winBufPos /\ Seq5(winBuf[k]) = Seq5(x)
  BY <1>1, FirstSlotFound DEF SenderInv
<1>3. winBuf[k] = Base + k - 1 BY <1>2 DEF SenderInv, WindowIsConsecutive
<1> HIDE DEF k
<1>4. /\ winBufPos \in 0..W /\ Base = seq - winBufPos /\ Base \in Int /\ seq \in Nat
  BY Counters
<1>5. winBuf[k] \in Int /\ winBuf[k] - x < M /\ x - winBuf[k] < M
  BY <1>2, <1>3, <1>4, SentFacts
<1>6. winBuf[k] = x BY <1>2, <1>5, SentFacts, ModInj DEF Seq5
<1>7. k = x - Base + 1 BY <1>2, <1>3, <1>4, <1>6
<1> QED BY <1>2, <1>7 DEF k

\* The first slots marked one after the other: the last of them is marked.
LEMMA PrefixEnds ==
  ASSUME WindowTypeOK, NEW marks,
         NEW k, k = Cardinality(AckedPrefix(marks)), k # 0
  PROVE  k \in marks
<1>1. winBufPos \in Nat BY SentFacts DEF WindowTypeOK
<1>2. k \in 0..winBufPos BY PrefixCounted
<1>3. SUFFICES ASSUME k \notin marks PROVE FALSE
  OBVIOUS
<1>4. AckedPrefix(marks) \subseteq 1..(k - 1)
  <2> SUFFICES ASSUME NEW a \in AckedPrefix(marks) PROVE a \in 1..(k - 1)
    OBVIOUS
  <2>1. a \in 1..winBufPos /\ 1..a \subseteq marks BY DEF AckedPrefix
  <2>2. k \notin 1..a BY <1>3, <2>1
  <2> QED BY <1>1, <1>2, <2>1, <2>2
<1>5. PICK n \in Nat : n = k - 1 /\ k \in Nat BY <1>1, <1>2
<1>6. IsFiniteSet(1..n) /\ Cardinality(1..n) = n BY FS_Interval
<1>7. AckedPrefix(marks) \in SUBSET (1..n) BY <1>4, <1>5
<1>8. Cardinality(AckedPrefix(marks)) <= Cardinality(1..n) BY <1>6, <1>7, FS_Subset
<1> QED BY <1>5, <1>6, <1>8

LEMMA RemoveKeepsSlotOne ==
  ASSUME SenderInv, ReceiverInv, SlotOneRecent, NEW k \in 0..winBufPos, Remove(k), UNCHANGED stamp
  PROVE  SlotOneRecent' /\ Base' = Base + k
<1>1. /\ winBufPos \in 0..W /\ Base = seq - winBufPos /\ seq \in Nat BY Counters
<1>2. /\ winBufPos' = winBufPos - k /\ seq' = seq /\ 1 \in 1..W
      /\ winBuf' = [s \in 1..W |-> IF s <= winBufPos - k THEN winBuf[s + k] ELSE winBuf[s]]
  BY SentFacts DEF Remove, seq
<1>3. Base' = Base + k BY <1>1, <1>2 DEF Base
<1>4. CASE 1 <= winBufPos - k
  <2>0. k \in Nat /\ winBufPos \in Nat /\ winBufPos <= W BY <1>1, SentFacts
  <2>1. 1 + k \in 1..winBufPos /\ 1 + k \in 1..W BY <1>4, <2>0, SentFacts
  <2>2. winBuf'[1] = winBuf[1 + k] BY <1>2, <1>4
  <2>3. winBuf[1 + k] \in Ids /\ seq <= winBuf[1 + k] + W BY <1>1, <2>1, SlotsRecent
  <2> QED BY <1>2, <1>3, <2>2, <2>3, SentFacts DEF SlotOneRecent
<1>5. CASE ~(1 <= winBufPos - k)
  <2>1. winBuf'[1] = winBuf[1] BY <1>2, <1>5
  <2> QED BY <1>2, <1>3, <2>1 DEF SlotOneRecent
<1> QED BY <1>4, <1>5

LEMMA NackIsAnswer ==
  ASSUME SenderInv, ReceiverInv, AcksTyped, SlotOneRecent, MarksInUse, RecvNack
  PROVE  \E m \in AckPacket : AnswerStep(m)
<1>1. PICK m \in AckPacket :
        /\ Ack!Take(m) /\ m.type \in {"NACK", "SACK"}
        /\ LET n == Seq5(m.id - 1) IN
            IF SlotsWith(n) # {} THEN Remove(FirstSlot(n)) ELSE RemoveNotFound(n)
  BY DEF RecvNack
<1> DEFINE n == Seq5(m.id - 1)
<1>2. /\ UNCHANGED <<stamp, receiver, data>> /\ SendAllReturns(winBufPos') /\ seq' = seq
  BY DEF RecvNack, seq
<1>3. /\ winBufPos \in 0..W /\ Base = seq - winBufPos /\ seq \in Nat
      /\ m.id \in Int /\ Awaited(m) = m.id /\ n \in Int /\ ret \in {-1, 0, 1}
  <2>1. m.id \in Int /\ Awaited(m) = m.id BY <1>1, AnswerNumbers DEF Awaited
  <2>2. n \in Int BY <2>1, Seq5Typed
  <2> QED BY <2>1, <2>2, Counters DEF SenderInv, SenderTypeOK
<1>4. CASE SlotsWith(n) # {}
  <2>1. Remove(FirstSlot(n)) /\ abandoned' = abandoned BY <1>1, <1>4 DEF Remove
  <2>2. FirstSlot(n) \in 1..winBufPos BY <1>3, <1>4, FirstSlotFound DEF SenderInv
  <2>3. FirstSlot(n) \in 0..winBufPos BY <1>3, <2>2
  <2>4. SlotOneRecent' /\ Base' = Base + FirstSlot(n)
    BY <1>2, <2>1, <2>3, RemoveKeepsSlotOne
  <2>5. arrACK' = {}
    <3>1. winBufPos' \in Int BY <1>3, <2>1, <2>3 DEF Remove
    <3> QED BY <1>2, <1>3, <3>1, ReturnSets DEF CallLocals
  <2>6. ASSUME Fresh(m) PROVE Base' = Awaited(m)
    <3>1. m.id - 1 \in Int /\ m.id - 1 <= seq /\ seq <= (m.id - 1) + M
      BY <1>3, <2>6, SentFacts DEF Fresh
    <3>2. FirstSlot(n) = (m.id - 1) - Base + 1 BY <1>4, <3>1, MatchedSlot
    <3> QED BY <1>3, <2>4, <3>2
  <2>7. Fresh(m) => Learned' \subseteq Learned \cup {Awaited(m)}
    BY <2>5, <2>6 DEF Learned
  <2> QED BY <1>1, <1>2, <2>1, <2>4, <2>5, <2>7 DEF AnswerStep, MarksInUse
<1>5. CASE SlotsWith(n) = {}
  <2>1. RemoveNotFound(n) BY <1>1, <1>5
  <2>2. PICK match \in MatchesBehind(n) :
          /\ winBufPos' = IF match THEN 0 ELSE winBufPos
          /\ abandoned' = (abandoned \/ (match /\ winBufPos > 0))
    BY <2>1 DEF RemoveNotFound
  <2>3. winBuf' = winBuf /\ (winBufPos' = 0 \/ winBufPos' = winBufPos)
    BY <2>1, <2>2 DEF RemoveNotFound
  <2>4. SlotOneRecent' BY <1>2, <2>3 DEF SlotOneRecent
  <2>5. arrACK' = {}
    <3>1. winBufPos' \in Int BY <1>3, <2>3
    <3> QED BY <1>2, <1>3, <3>1, ReturnSets DEF CallLocals
  <2>6. ~abandoned' => ~abandoned /\ winBufPos' = winBufPos
    <3>1. ~abandoned' => ~abandoned /\ ~(match /\ winBufPos > 0) BY <2>2, Zenon
    <3>2. winBufPos \in Nat BY <1>3, SentFacts
    <3>3. ~match => winBufPos' = winBufPos BY <2>2
    <3>4. match => winBufPos' = 0 BY <2>2
    <3> QED BY <3>1, <3>2, <3>3, <3>4
  <2>7. winBufPos' = winBufPos => Learned' \subseteq Learned
    BY <1>2, <2>5 DEF Learned, Base
  <2> QED BY <1>1, <1>2, <2>4, <2>5, <2>6, <2>7 DEF AnswerStep, MarksInUse
<1> QED BY <1>4, <1>5

LEMMA AckIsAnswer ==
  ASSUME SenderInv, ReceiverInv, AcksTyped, SlotOneRecent, MarksInUse, RecvAck
  PROVE  \E m \in AckPacket : AnswerStep(m)
<1>1. PICK m \in AckPacket :
        /\ Ack!Take(m) /\ m.type = "ACK"
        /\ LET marks == Marked(Seq5(m.id))
               k     == Cardinality(AckedPrefix(marks))
           IN \/ /\ k = winBufPos
                 /\ Remove(k)
                 /\ SendAllReturns(0)
              \/ /\ k < winBufPos
                 /\ Remove(k)
                 /\ arrACK' = {s - k : s \in {x \in marks : x > k}}
                 /\ waitForACK' = TRUE
                 /\ UNCHANGED <<spc, i, resend, retryCnt, ret>>
  BY DEF RecvAck
<1> DEFINE marks == Marked(Seq5(m.id))
           k     == Cardinality(AckedPrefix(marks))
<1>2. UNCHANGED <<stamp, receiver, data>> /\ seq' = seq BY DEF RecvAck, seq
<1>3. /\ winBufPos \in 0..W /\ Base = seq - winBufPos /\ seq \in Nat /\ Base \in Int
      /\ m.id \in Int /\ Awaited(m) = m.id + 1 /\ ret \in {-1, 0, 1}
  <2>1. m.id \in Int /\ Awaited(m) = m.id + 1 BY <1>1, AnswerNumbers DEF Awaited
  <2> QED BY <2>1, Counters DEF SenderInv, SenderTypeOK
<1>4. k \in 0..winBufPos /\ WindowTypeOK BY PrefixCounted DEF SenderInv
<1>5. k # 0 => k \in marks BY <1>4, PrefixEnds
<1>6. marks \subseteq 1..winBufPos
  <2>1. Seq5(m.id) \in Int BY <1>3, Seq5Typed
  <2>2. SlotsWith(Seq5(m.id)) # {} => FirstSlot(Seq5(m.id)) \in 1..winBufPos
    BY <2>1, FirstSlotFound DEF SenderInv
  <2> QED BY <2>2 DEF Marked, MarksInUse
<1>7. ASSUME Fresh(m), NEW s \in marks PROVE Base + s \in Learned \cup {Awaited(m)}
  <2>1. CASE s \in arrACK BY <2>1 DEF Learned
  <2>2. CASE s \notin arrACK
    <3>1. SlotsWith(Seq5(m.id)) # {} /\ s = FirstSlot(Seq5(m.id)) BY <1>7, <2>2 DEF Marked
    <3>2. m.id <= seq /\ seq <= m.id + M BY <1>3, <1>7, SentFacts DEF Fresh
    <3>3. s = m.id - Base + 1 BY <1>3, <3>1, <3>2, MatchedSlot
    <3> QED BY <1>3, <3>3
  <2> QED BY <2>1, <2>2
<1>8. Remove(k) BY <1>1
<1>9. \/ arrACK' = {}
      \/ arrACK' = {s - k : s \in {x \in marks : x > k}}
  <2>1. ASSUME SendAllReturns(0) PROVE arrACK' = {}
    <3>1. ret \in {-1, 0, 1} /\ 0 \in Int BY <1>3
    <3> QED BY <2>1, <3>1, ReturnSets DEF CallLocals
  <2> QED BY <1>1, <2>1
<1> HIDE DEF marks, k
<1>10. /\ abandoned' = abandoned /\ winBufPos' = winBufPos - k /\ SlotOneRecent'
       /\ Base' = Base + k
  <2>1. abandoned' = abandoned /\ winBufPos' = winBufPos - k BY <1>8 DEF Remove
  <2> QED BY <1>2, <1>4, <1>8, <2>1, RemoveKeepsSlotOne
<1>11. MarksInUse'
  <2>1. ASSUME NEW s \in marks, s > k PROVE s - k \in 1..(winBufPos - k)
    BY <1>3, <1>4, <1>6, <2>1
  <2> QED BY <1>9, <1>10, <2>1 DEF MarksInUse
<1>12. ASSUME Fresh(m) PROVE Learned' \subseteq Learned \cup {Awaited(m)}
  <2>1. Base' \in Learned \cup {Awaited(m)}
    <3>1. CASE k = 0 BY <1>3, <1>10, <3>1 DEF Learned
    <3>2. CASE k # 0 BY <1>5, <1>7, <1>10, <1>12, <3>2
    <3> QED BY <3>1, <3>2
  <2>2. ASSUME NEW s \in marks PROVE Base' + (s - k) \in Learned \cup {Awaited(m)}
    <3>1. s \in Int /\ k \in Int BY <1>3, <1>4, <1>6
    <3>2. Base' + (s - k) = Base + s BY <1>3, <1>10, <3>1
    <3> QED BY <1>7, <1>12, <3>2
  <2> QED BY <1>9, <2>1, <2>2 DEF Learned
<1> QED BY <1>1, <1>2, <1>10, <1>11, <1>12 DEF AnswerStep

\* What a step that ends or starts a call of send_all_win_packets leaves marked.
LEMMA CallEndMarks ==
  ASSUME SenderInv
  PROVE  /\ EnterSendAll => arrACK' = {}
         /\ SendAllReturns(-1) => arrACK' = {} /\ spc' = "done"
<1>1. EnterSendAll => arrACK' = {} BY DEF EnterSendAll
<1>2. SendAllReturns(-1) => arrACK' = {} /\ spc' = "done"
  BY DEF SendAllReturns, LeaveSendAll
<1> QED BY <1>1, <1>2

LEMMA SenderKinds ==
  ASSUME SenderInv, ReceiverInv, AcksTyped, SlotOneRecent, MarksInUse, SenderStep
  PROVE  /\ spc # "done"
         /\ \/ \E p \in DataPacket : SendStep(p)
            \/ QuietStep
            \/ StampStep
            \/ \E m \in AckPacket : AnswerStep(m)
<1>1. spc # "done"
  BY DEF SenderStep, ReadChunk, StartDrain, BurstSend, ResendLast, SendLast, Timeout,
         SendSack, RecvNack, RecvAckOfEmptyWindow, RecvAck, SenderError
<1>2. /\ winBufPos \in 0..W /\ i \in 1..W /\ 1 \in 1..W /\ seq \in Nat
      /\ seq <= First + Sent /\ seq >= First
  BY Counters, SentFacts DEF SenderInv, SenderTypeOK
<1>3. CASE ReadChunk
  <2>1. arrACK' \subseteq arrACK
    <3>1. EnterSendAll \/ arrACK' = arrACK BY <1>3 DEF ReadChunk
    <3> QED BY <3>1, CallEndMarks
  <2>2. UNCHANGED <<abandoned, receiver, data, ack>> /\ next <= Sent BY <1>3 DEF ReadChunk
  <2>3. CASE winBufPos < W
    <3>1. /\ stamp' = Append(stamp, next) /\ winBufPos' = winBufPos + 1
          /\ winBuf' = [winBuf EXCEPT ![winBufPos + 1] = seq]
      BY <1>3, <2>3 DEF ReadChunk
    <3>2. StampStep BY <2>1, <2>2, <2>3, <3>1 DEF StampStep
    <3> QED BY <1>1, <3>2
  <2>4. CASE ~(winBufPos < W)
    <3>1. UNCHANGED <<winBuf, winBufPos, stamp>> BY <1>3, <2>4 DEF ReadChunk
    <3>2. QuietStep BY <2>1, <2>2, <3>1 DEF QuietStep, KeepsWindow
    <3> QED BY <1>1, <3>2
  <2> QED BY <2>3, <2>4
<1>4. CASE StartDrain
  <2>1. QuietStep BY <1>4, CallEndMarks DEF StartDrain, QuietStep, KeepsWindow
  <2> QED BY <1>1, <2>1
<1>5. CASE BurstSend
  <2>1. /\ SendPacket(winBuf[i]) /\ i < winBufPos /\ UNCHANGED <<receiver, ack>>
        /\ KeepsWindow
    BY <1>5 DEF BurstSend, KeepsWindow
  <2>2. i <= winBufPos BY <1>2, <2>1, SentFacts
  <2> QED BY <1>1, <1>2, <2>1, <2>2, SlotSent
<1>6. CASE ResendLast
  <2>1. /\ SendPacket(winBuf[LastOfLoop]) /\ UNCHANGED <<receiver, ack>> /\ KeepsWindow
    BY <1>6 DEF ResendLast, KeepsWindow
  <2>2. LastOfLoop \in 1..W /\ (LastOfLoop = 1 \/ LastOfLoop <= winBufPos)
    BY <1>2, SentFacts DEF LastOfLoop
  <2> QED BY <1>1, <2>1, <2>2, SlotSent
<1>7. CASE SendLast
  <2>1. /\ SendPacket(winBuf[Flagged]) /\ UNCHANGED <<receiver, ack>> /\ KeepsWindow
    BY <1>7 DEF SendLast, KeepsWindow
  <2>2. Flagged \in 1..W /\ (Flagged = 1 \/ Flagged <= winBufPos)
    BY <1>2, SentFacts DEF Flagged
  <2> QED BY <1>1, <2>1, <2>2, SlotSent
<1>8. CASE Timeout
  <2>1. QuietStep BY <1>8 DEF Timeout, QuietStep, KeepsWindow
  <2> QED BY <1>1, <2>1
<1>9. CASE SendSack
  <2> DEFINE p == [type |-> "SACK", id |-> seq]
  <2>1. /\ Data!Put(p) /\ SendAllReturns(-1)
        /\ UNCHANGED <<winBuf, winBufPos, stamp, abandoned, receiver, ack>>
    BY <1>9 DEF SendSack
  <2>2. seq \in Ids
    <3>1. seq \in (First - 1)..(First + Sent) BY <1>2, SentFacts
    <3> QED BY <3>1 DEF Ids
  <2>3. p \in DataPacket /\ p.type = "SACK" /\ p.id = seq /\ Number(p) = seq - 1
    BY <2>2 DEF DataPacket, Number
  <2>4. KeepsWindow /\ spc' = "done" BY <2>1, CallEndMarks DEF KeepsWindow
  <2> HIDE DEF p
  <2>5. SendStep(p)
    <3>1. seq <= Number(p) + W /\ Number(p) < seq /\ p.id <= seq
      BY <1>2, <2>3, SentFacts
    <3> QED BY <2>1, <2>4, <3>1 DEF SendStep
  <2> QED BY <1>1, <2>3, <2>5
<1>10. CASE RecvNack BY <1>1, <1>10, NackIsAnswer
<1>11. CASE RecvAckOfEmptyWindow
  <2>1. PICK m \in AckPacket : Ack!Take(m) BY <1>11 DEF RecvAckOfEmptyWindow
  <2>2. /\ UNCHANGED <<winBuf, winBufPos, stamp, abandoned, receiver, data>>
        /\ SendAllReturns(-1)
    BY <1>11 DEF RecvAckOfEmptyWindow
  <2>3. arrACK' = {} BY <2>2, CallEndMarks
  <2>4. SlotOneRecent' /\ MarksInUse' BY <2>2, <2>3 DEF SlotOneRecent, MarksInUse, seq
  <2>5. Learned' \subseteq Learned BY <2>2, <2>3 DEF Learned, Base, seq
  <2>6. AnswerStep(m) BY <2>1, <2>2, <2>4, <2>5 DEF AnswerStep
  <2> QED BY <1>1, <2>6
<1>12. CASE RecvAck BY <1>1, <1>12, AckIsAnswer
<1>13. CASE SenderError
  <2>1. QuietStep BY <1>13, CallEndMarks DEF SenderError, QuietStep, KeepsWindow
  <2> QED BY <1>1, <2>1
<1> QED BY <1>3, <1>4, <1>5, <1>6, <1>7, <1>8, <1>9, <1>10, <1>11, <1>12, <1>13
        DEF SenderStep

-------------------------------------------------------------------------------
\* The packets under way were stamped, and the special request after them.
LEMMA UnderWay ==
  ASSUME SenderInv, ReceiverInv, DataStamped, SackEnds
  PROVE  /\ dataQ \in Seq(DataPacket) /\ dataHeld \in DataPacket \cup {NoPacket}
         /\ \A p \in InFlight(dataQ, dataHeld) : p \in DataPacket /\ Number(p) < seq
<1>1. dataQ \in Seq(Known) /\ dataHeld \in Known \cup {NoPacket} BY DEF DataStamped
<1>2. Known \subseteq DataPacket BY DEF Known
<1>3. dataQ \in Seq(DataPacket) /\ dataHeld \in DataPacket \cup {NoPacket}
  BY <1>1, <1>2, SeqGrows
<1>4. ASSUME NEW p \in InFlight(dataQ, dataHeld) PROVE p \in DataPacket /\ Number(p) < seq
  <2>1. p \in Known BY <1>1, InFlightIn
  <2>2. p \in DataPacket /\ p.id \in Int /\ seq \in Nat BY <1>2, <2>1, PacketNumbers, Counters
  <2>3. CASE p.type = "REQUEST" BY <2>1, <2>2, <2>3 DEF Known, Number
  <2>4. CASE p.type # "REQUEST"
    <3>1. p.type = "SACK" BY <2>2, <2>4 DEF DataPacket
    <3>2. p.id <= seq BY <3>1 DEF SackEnds
    <3> QED BY <2>2, <2>4, <3>2 DEF Number
  <2> QED BY <2>3, <2>4
<1> QED BY <1>3, <1>4

\* A sender that learns nothing new leaves the answers' order alone.
LEMMA NothingLearned ==
  ASSUME Aligned, spc # "done", UNCHANGED <<stamp, receiver, ack>>, Learned' \subseteq Learned
  PROVE  /\ WithinWindow' /\ Written' /\ AnswersFresh' /\ AnswersInOrder'
         /\ ~Full' => LearnedIsSaid'
<1>1. UNCHANGED <<stamp, got, expected, ackQ, ackHeld>> BY DEF receiver, ack
<1>2. seq' = seq /\ (Full' <=> Full) BY <1>1 DEF seq, Full
<1>3. WithinWindow' /\ Written' BY <1>1, <1>2 DEF Aligned, WithinWindow, Written
<1>4. AnswersFresh' BY <1>1, <1>2 DEF Aligned, AnswersFresh, Fresh
<1>5. AnswersInOrder' BY <1>1 DEF Aligned, AnswersInOrder
<1>6. ~Full' => LearnedIsSaid' BY <1>1, <1>2 DEF Aligned, LearnedIsSaid
<1> QED BY <1>3, <1>4, <1>5, <1>6

LEMMA LearnedKept ==
  ASSUME KeepsWindow
  PROVE  seq' = seq /\ Base' = Base /\ Learned' \subseteq Learned
BY DEF KeepsWindow, seq, Base, Learned

LEMMA SendKeeps ==
  ASSUME SenderInv, ReceiverInv, DataStamped, SackEnds, Aligned, spc # "done",
         NEW p \in DataPacket, SendStep(p)
  PROVE  Aligned'
<1>1. /\ Data!Put(p) /\ seq <= Number(p) + W /\ Number(p) < seq
      /\ KeepsWindow /\ UNCHANGED <<stamp, receiver, ack>>
  BY DEF SendStep, KeepsWindow
<1>2. PutResult(dataQ, dataHeld, p, dataQ', dataHeld') BY <1>1, DataSteps
<1>3. /\ dataQ \in Seq(DataPacket) /\ dataHeld \in DataPacket \cup {NoPacket}
      /\ \A r \in InFlight(dataQ, dataHeld) : r \in DataPacket /\ Number(r) < seq
  BY UnderWay
<1>4. /\ PacketLo \in [DataPacket -> Int] /\ PacketHi \in [DataPacket -> Int]
      /\ PacketLo[p] = Number(p) + W /\ PacketHi[p] = Number(p) + 1 /\ Number(p) \in Int
      /\ seq \in Int /\ expected \in Int /\ W \in Int
  BY PacketNumbers, Counters, SentFacts
<1>5. expected <= seq /\ seq <= expected + W BY DEF Aligned, WithinWindow
<1>6. Ordered(dataQ, dataHeld, PacketLo, PacketHi) /\ Reached(dataQ, dataHeld, PacketLo, expected)
  BY DEF Aligned, PacketsInOrder
<1>7. ASSUME NEW a \in 1..Len(dataQ) PROVE PacketHi[dataQ[a]] <= PacketLo[p]
  <2>1. dataQ[a] \in DataPacket /\ Number(dataQ[a]) < seq BY <1>3, InFlightIn
  <2>2. PacketHi[dataQ[a]] = Number(dataQ[a]) + 1 /\ Number(dataQ[a]) \in Int
    BY <2>1, PacketNumbers
  <2> QED BY <1>1, <1>4, <2>1, <2>2
<1>8. ASSUME dataHeld # NoPacket PROVE PacketHi[p] <= PacketLo[dataHeld] + W
  <2>1. dataHeld \in DataPacket /\ PacketLo[dataHeld] \in Int BY <1>3, <1>4, <1>8
  <2>2. expected <= PacketLo[dataHeld] BY <1>6, <1>8 DEF Reached
  <2> QED BY <1>1, <1>4, <1>5, <2>1, <2>2
<1>9. expected <= PacketLo[p] BY <1>1, <1>4, <1>5
<1>10. Ordered(dataQ', dataHeld', PacketLo, PacketHi)
  BY <1>2, <1>3, <1>4, <1>6, <1>7, <1>8, PutKeepsOrder
<1>11. Reached(dataQ', dataHeld', PacketLo, expected)
  BY <1>2, <1>3, <1>4, <1>6, <1>9, PutKeepsReached
<1>12. PacketsInOrder' BY <1>1, <1>10, <1>11 DEF PacketsInOrder, receiver
<1>13. Learned' \subseteq Learned BY <1>1, LearnedKept
<1> QED BY <1>1, <1>12, <1>13, NothingLearned DEF Aligned

LEMMA QuietKeeps ==
  ASSUME Aligned, spc # "done", QuietStep
  PROVE  Aligned'
<1>1. KeepsWindow /\ UNCHANGED <<stamp, receiver, data, ack>> BY DEF QuietStep, KeepsWindow
<1>2. PacketsInOrder' BY <1>1 DEF Aligned, PacketsInOrder, receiver, data
<1>3. Learned' \subseteq Learned BY <1>1, LearnedKept
<1> QED BY <1>1, <1>2, <1>3, NothingLearned DEF Aligned

(* Stamping a chunk raises seq, at most to a window past the first packet  *)
(* not yet answered; what is on its way is at most another window older.   *)
LEMMA StampKeeps ==
  ASSUME EnoughNumbers, SenderInv, ReceiverInv, AcksTyped, Aligned, spc # "done", StampStep
  PROVE  Aligned'
<1>1. /\ next <= Sent /\ winBufPos < W /\ stamp' = Append(stamp, next)
      /\ winBufPos' = winBufPos + 1 /\ arrACK' \subseteq arrACK
      /\ UNCHANGED <<got, expected, dataQ, dataHeld, ackQ, ackHeld>>
  BY DEF StampStep, receiver, data, ack
<1>2. /\ Len(stamp) \in Nat /\ Len(got) \in Nat
      /\ seq = First + Len(stamp) /\ seq \in Nat /\ expected \in Nat
      /\ winBufPos \in 0..W /\ Base = seq - winBufPos /\ Base \in Int
      /\ Full => First + Sent <= expected + 1
  BY Counters
<1>3. stamp \in Seq(1..Sent) /\ next \in 1..(Sent + 1) /\ Len(stamp) < next
  BY DEF SenderInv, SenderTypeOK, WindowTypeOK, StampedIsRead
<1>4. /\ Len(stamp') = Len(stamp) + 1 /\ \A k \in 1..Len(stamp) : stamp'[k] = stamp[k]
  BY <1>1, <1>3
<1>5. /\ seq' = seq + 1 /\ Base' = Base /\ seq' <= First + Sent /\ seq' <= Base + W
      /\ (Full' <=> Full) /\ Learned' \subseteq Learned
  <2>1. seq' = seq + 1 BY <1>2, <1>4, SentFacts DEF seq
  <2>2. Base' = Base BY <1>1, <1>2, <2>1, SentFacts DEF Base
  <2>3. seq' <= First + Sent /\ seq' <= Base + W BY <1>1, <1>2, <1>3, <2>1, SentFacts
  <2> QED BY <1>1, <2>1, <2>2, <2>3 DEF Full, Learned
<1>6. WithinWindow'
  <2>1. expected <= seq BY DEF Aligned, WithinWindow
  <2>2. seq + 1 <= expected + W
    <3>1. CASE Full BY <1>2, <1>5, <3>1, SentFacts
    <3>2. CASE ~Full
      <4>1. Base <= expected BY <3>2 DEF Aligned, LearnedIsSaid, Learned
      <4> QED BY <1>2, <1>5, <4>1, SentFacts
    <3> QED BY <3>1, <3>2
  <2> QED BY <1>1, <1>2, <1>5, <2>1, <2>2, SentFacts DEF WithinWindow
<1>7. Written'
  <2>1. Len(got) <= Len(stamp) /\ \A k \in 1..Len(got) : got[k] = stamp[k]
    BY DEF Aligned, Written
  <2>2. ASSUME NEW k \in 1..Len(got) PROVE k \in 1..Len(stamp) BY <1>2, <2>1
  <2> QED BY <1>1, <1>2, <1>4, <2>1, <2>2 DEF Written
<1>8. PacketsInOrder' BY <1>1 DEF Aligned, PacketsInOrder
<1>9. AnswersInOrder' BY <1>1, <1>5 DEF Aligned, AnswersInOrder
<1>10. ~Full' => LearnedIsSaid' BY <1>1, <1>5 DEF Aligned, LearnedIsSaid
<1>11. ASSUME NEW m \in InFlight(ackQ, ackHeld) PROVE m.id <= seq + 1 /\ seq + 1 < Awaited(m) + M
  <2>1. m \in AckPacket BY InFlightIn DEF AcksTyped
  <2>2. m.id \in Int /\ Awaited(m) \in Int BY <2>1, AnswerNumbers
  <2>3. m.id <= seq BY DEF Aligned, AnswersFresh, Fresh
  <2>4. CASE Settled(m)
    <3>1. Awaited(m) = m.id + 1 /\ First + Sent <= m.id + M BY <2>4 DEF Settled, Awaited
    <3>2. seq \in Int /\ First + Sent \in Int /\ M \in Int /\ seq + 1 <= First + Sent
      BY <1>2, <1>5, SentFacts
    <3> QED BY <2>2, <2>3, <3>1, <3>2
  <2>5. CASE ~Settled(m)
    <3>1. AnswerLo[m] = Awaited(m) BY <2>1, <2>5, AnswerNumbers
    <3>2. Reached(ackQ, ackHeld, AnswerLo, Base) BY DEF Aligned, AnswersInOrder, Learned
    <3>3. Base <= AnswerLo[m] + W
      <4>1. CASE m = ackHeld /\ ackHeld # NoPacket
        <5>1. Base <= AnswerLo[m] BY <3>2, <4>1 DEF Reached
        <5> QED BY <1>2, <2>2, <3>1, <5>1, SentFacts
      <4>2. CASE \E c \in 1..Len(ackQ) : m = ackQ[c]
        <5>1. PICK c \in 1..Len(ackQ) : m = ackQ[c] BY <4>2
        <5>2. Base <= AnswerLo[m] + Slack(c = 1) BY <3>2, <5>1 DEF Reached
        <5>3. Slack(c = 1) \in {0, W} BY DEF Slack
        <5> QED BY <1>2, <2>2, <3>1, <5>2, <5>3, SentFacts
      <4>3. ackQ \in Seq(AckPacket) BY DEF AcksTyped
      <4> QED BY <4>1, <4>2, <4>3 DEF InFlight
    <3>4. /\ seq \in Int /\ Base \in Int /\ M \in Int /\ W \in Int
          /\ seq + 1 <= Base + W /\ M >= 2 * W + 1
      BY <1>2, <1>5, SentFacts DEF EnoughNumbers
    <3> QED BY <2>2, <2>3, <3>1, <3>3, <3>4
  <2> QED BY <2>4, <2>5
<1>12. AnswersFresh' BY <1>1, <1>5, <1>11 DEF AnswersFresh, Fresh
<1> QED BY <1>6, <1>7, <1>8, <1>9, <1>10, <1>12 DEF Aligned

(* Reading an answer: what the sender learns is where that answer stands,  *)
(* and only the answer behind it may say less.                             *)
LEMMA AnswerKeeps ==
  ASSUME SenderInv, ReceiverInv, AcksTyped, Aligned, spc # "done", ~abandoned',
         NEW m \in AckPacket, AnswerStep(m)
  PROVE  Aligned'
<1>1. Ack!Take(m) /\ UNCHANGED <<stamp, got, expected, dataQ, dataHeld>>
  BY DEF AnswerStep, receiver, data
<1>2. TakeResult(ackQ, ackHeld, m, ackQ', ackHeld') BY <1>1, AckSteps
<1>3. ackQ \in Seq(AckPacket) /\ ackHeld \in AckPacket \cup {NoPacket} BY DEF AcksTyped
<1>4. /\ InFlight(ackQ', ackHeld') \subseteq InFlight(ackQ, ackHeld)
      /\ m \in InFlight(ackQ, ackHeld)
  BY <1>2, <1>3, InFlightTake
<1>5. Learned' \subseteq Learned \cup {Awaited(m)}
  <2>1. Fresh(m) BY <1>4 DEF Aligned, AnswersFresh
  <2> QED BY <2>1 DEF AnswerStep
<1>6. Learned \subseteq Int
  <2>1. Base \in Int BY Counters
  <2>2. \A k \in arrACK : k \in Int BY SentFacts DEF SenderInv, SenderTypeOK
  <2> QED BY <2>1, <2>2 DEF Learned
<1>7. /\ AnswerLo \in [AckPacket -> Int] /\ AnswerHi \in [AckPacket -> Int]
      /\ AnswerHi[m] = Awaited(m) /\ Awaited(m) \in Int
  BY AnswerNumbers
<1>8. /\ Ordered(ackQ, ackHeld, AnswerLo, AnswerHi)
      /\ \A x \in Learned : Reached(ackQ, ackHeld, AnswerLo, x)
  BY DEF Aligned, AnswersInOrder
<1>9. /\ Ordered(ackQ', ackHeld', AnswerLo, AnswerHi)
      /\ \A x \in Int : Reached(ackQ, ackHeld, AnswerLo, x) => Reached(ackQ', ackHeld', AnswerLo, x)
      /\ \A x \in Int : x <= AnswerHi[m] => Reached(ackQ', ackHeld', AnswerLo, x)
  BY <1>2, <1>3, <1>7, <1>8, TakeKeeps
<1>10. AnswersInOrder'
  <2>1. ASSUME NEW x \in Learned' PROVE Reached(ackQ', ackHeld', AnswerLo, x)
    <3>1. CASE x \in Learned BY <1>6, <1>8, <1>9, <3>1
    <3>2. CASE x = Awaited(m) BY <1>7, <1>9, <3>2
    <3> QED BY <1>5, <3>1, <3>2
  <2> QED BY <1>9, <2>1 DEF AnswersInOrder
<1>11. seq' = seq /\ (Full' <=> Full) BY <1>1 DEF seq, Full
<1>12. ~Full' => LearnedIsSaid'
  <2>1. ~Full' => LearnedIsSaid BY <1>11 DEF Aligned
  <2> QED BY <1>1, <1>4, <1>5, <2>1 DEF LearnedIsSaid
<1>13. WithinWindow' /\ Written' BY <1>1, <1>11 DEF Aligned, WithinWindow, Written
<1>14. PacketsInOrder' BY <1>1 DEF Aligned, PacketsInOrder
<1>15. AnswersFresh' BY <1>4, <1>11 DEF Aligned, AnswersFresh, Fresh
<1> QED BY <1>10, <1>12, <1>13, <1>14, <1>15 DEF Aligned

LEMMA StampUpkeep ==
  ASSUME SenderInv, ReceiverInv, SlotOneRecent, MarksInUse, StampStep
  PROVE  SlotOneRecent' /\ MarksInUse'
<1>1. /\ winBufPos < W /\ stamp' = Append(stamp, next) /\ winBufPos' = winBufPos + 1
      /\ winBuf' = [winBuf EXCEPT ![winBufPos + 1] = seq] /\ arrACK' \subseteq arrACK
  BY DEF StampStep
<1>2. /\ seq \in Nat /\ winBufPos \in 0..W /\ Base = seq - winBufPos
      /\ winBuf \in [1..W -> Ids \cup {NoPacket}] /\ stamp \in Seq(1..Sent) /\ 1 \in 1..W
      /\ seq <= First + Sent /\ seq >= First
  BY Counters, SentFacts DEF SenderInv, WindowTypeOK
<1>3. seq' = seq + 1
  <2>1. Len(stamp') = Len(stamp) + 1 /\ Len(stamp) \in Nat BY <1>1, <1>2
  <2> QED BY <1>2, <2>1, SentFacts DEF seq
<1>4. seq # NoPacket BY <1>2, TransferAssumption
<1>5. SlotOneRecent'
  <2>1. CASE winBufPos = 0
    <3>1. winBuf'[1] = seq BY <1>1, <1>2, <2>1
    <3> QED BY <1>2, <1>3, <1>4, <3>1, SentFacts DEF SlotOneRecent
  <2>2. CASE winBufPos # 0
    <3>1. winBuf'[1] = winBuf[1] /\ 1 \in 1..winBufPos
      <4>1. winBufPos + 1 # 1 /\ 1 \in 1..winBufPos BY <1>2, <2>2, SentFacts
      <4> QED BY <1>1, <1>2, <4>1
    <3>2. winBuf[1] = Base + 1 - 1 /\ winBuf[1] # NoPacket
      BY <3>1 DEF SenderInv, WindowIsConsecutive, SlotOneRecent
    <3>3. seq + 1 <= winBuf[1] + W BY <1>1, <1>2, <3>2, SentFacts
    <3> QED BY <1>3, <3>1, <3>2, <3>3 DEF SlotOneRecent
  <2> QED BY <2>1, <2>2
<1>6. MarksInUse'
  <2>1. winBufPos \in Nat BY <1>2, SentFacts
  <2>2. 1..winBufPos \subseteq 1..winBufPos' BY <1>1, <2>1
  <2> QED BY <1>1, <2>2 DEF MarksInUse
<1> QED BY <1>5, <1>6

LEMMA SenderKeepsDelivery ==
  ASSUME EnoughNumbers, SenderInv, ReceiverInv, DataStamped, AcksTyped, DeliveryInv, SenderStep
  PROVE  DeliveryInv'
<1>1. SlotOneRecent /\ MarksInUse /\ LingersWhenFull /\ SackEnds /\ (~abandoned => Aligned)
  BY DEF DeliveryInv, Upkeep
<1>2. /\ spc # "done"
      /\ \/ \E p \in DataPacket : SendStep(p)
         \/ QuietStep
         \/ StampStep
         \/ \E m \in AckPacket : AnswerStep(m)
  BY <1>1, SenderKinds
<1>3. \A p \in InFlight(dataQ, dataHeld) : p.type # "SACK" BY <1>1, <1>2 DEF SackEnds
<1>4. UNCHANGED <<dataQ, dataHeld>> => SackEnds' BY <1>3 DEF SackEnds
<1>5. UNCHANGED receiver => LingersWhenFull' BY <1>1 DEF LingersWhenFull, Full, receiver
<1>6. KeepsWindow => SlotOneRecent' /\ MarksInUse'
  BY <1>1 DEF KeepsWindow, SlotOneRecent, MarksInUse, seq
<1>7. CASE \E p \in DataPacket : SendStep(p)
  <2>1. PICK p \in DataPacket : SendStep(p) BY <1>7
  <2>2. /\ Data!Put(p) /\ (p.type = "SACK" => p.id <= seq /\ spc' = "done")
        /\ KeepsWindow /\ UNCHANGED <<stamp, abandoned, receiver>>
    BY <2>1 DEF SendStep, KeepsWindow
  <2>3. dataQ \in Seq(DataPacket) BY <1>1, UnderWay
  <2>4. InFlight(dataQ', dataHeld') \subseteq InFlight(dataQ, dataHeld) \cup {p}
    BY <2>2, <2>3, DataSteps, InFlightPut
  <2>5. SackEnds'
    <3>1. seq' = seq BY <2>2 DEF seq
    <3> QED BY <1>3, <2>2, <2>4, <3>1 DEF SackEnds
  <2>6. ~abandoned' => Aligned' BY <1>1, <1>2, <2>1, <2>2, SendKeeps
  <2> QED BY <1>5, <1>6, <2>2, <2>5, <2>6 DEF DeliveryInv, Upkeep
<1>8. CASE QuietStep
  <2>1. KeepsWindow /\ UNCHANGED <<abandoned, receiver, dataQ, dataHeld>>
    BY <1>8 DEF QuietStep, KeepsWindow, data
  <2>2. ~abandoned' => Aligned' BY <1>1, <1>2, <1>8, <2>1, QuietKeeps
  <2> QED BY <1>4, <1>5, <1>6, <2>1, <2>2 DEF DeliveryInv, Upkeep
<1>9. CASE StampStep
  <2>1. UNCHANGED <<abandoned, receiver, dataQ, dataHeld>> BY <1>9 DEF StampStep, data
  <2>2. SlotOneRecent' /\ MarksInUse' BY <1>1, <1>9, StampUpkeep
  <2>3. ~abandoned' => Aligned' BY <1>1, <1>2, <1>9, <2>1, StampKeeps
  <2> QED BY <1>4, <1>5, <2>1, <2>2, <2>3 DEF DeliveryInv, Upkeep
<1>10. CASE \E m \in AckPacket : AnswerStep(m)
  <2>1. PICK m \in AckPacket : AnswerStep(m) BY <1>10
  <2>2. /\ UNCHANGED <<receiver, dataQ, dataHeld>> /\ SlotOneRecent' /\ MarksInUse'
        /\ ~abandoned' => ~abandoned
    BY <2>1 DEF AnswerStep, data
  <2>3. ~abandoned' => Aligned' BY <1>1, <1>2, <2>1, <2>2, AnswerKeeps
  <2> QED BY <1>4, <1>5, <2>2, <2>3 DEF DeliveryInv, Upkeep
<1> QED BY <1>2, <1>7, <1>8, <1>9, <1>10

-------------------------------------------------------------------------------
(* A packet that is read, or may be read, where expected has not been      *)
(* passed by more than its neighbour allows.                               *)
LEMMA PacketNear ==
  ASSUME SenderInv, ReceiverInv, DataStamped, SackEnds, Aligned,
         NEW p \in InFlight(dataQ, dataHeld)
  PROVE  /\ p \in DataPacket /\ Number(p) \in Int /\ Number(p) < seq
         /\ expected <= Number(p) + 2 * W
<1>1. dataQ \in Seq(DataPacket) /\ p \in DataPacket /\ Number(p) < seq BY UnderWay
<1>2. /\ Number(p) \in Int /\ PacketLo[p] = Number(p) + W /\ expected \in Int /\ W \in Nat
  BY <1>1, PacketNumbers, Counters, SentFacts
<1>3. Reached(dataQ, dataHeld, PacketLo, expected) BY DEF Aligned, PacketsInOrder
<1>4. CASE p = dataHeld /\ dataHeld # NoPacket
  <2>1. expected <= PacketLo[p] BY <1>3, <1>4 DEF Reached
  <2> QED BY <1>1, <1>2, <2>1
<1>5. CASE \E c \in 1..Len(dataQ) : p = dataQ[c]
  <2>1. PICK c \in 1..Len(dataQ) : p = dataQ[c] BY <1>5
  <2>2. expected <= PacketLo[p] + Slack(c = 1) BY <1>3, <2>1 DEF Reached
  <2>3. Slack(c = 1) \in {0, W} BY DEF Slack
  <2> QED BY <1>1, <1>2, <2>2, <2>3
<1> QED BY <1>1, <1>4, <1>5 DEF InFlight

\* chk_seqEx takes a packet for the expected one only if it is.
LEMMA NumbersSuffice ==
  ASSUME EnoughNumbers, SenderInv, ReceiverInv, DataStamped, SackEnds, Aligned,
         NEW p \in InFlight(dataQ, dataHeld), p.type = "REQUEST", Seq5(p.id) = Seq5(expected)
  PROVE  p.id = expected
<1>1. /\ p.id \in Int /\ p.id < seq /\ expected <= p.id + 2 * W
  BY PacketNear DEF Number
<1>2. expected \in Int /\ seq \in Int /\ seq <= expected + W /\ W \in Nat /\ M >= 2 * W + 1
  BY Counters, SentFacts DEF Aligned, WithinWindow, EnoughNumbers
<1>3. M \in Nat \ {0} /\ p.id - expected < M /\ expected - p.id < M BY <1>1, <1>2, SentFacts
<1> QED BY <1>1, <1>2, <1>3, ModInj DEF Seq5

\* Reading a packet from the socket.
LEMMA PacketTaken ==
  ASSUME SenderInv, ReceiverInv, DataStamped, SackEnds, Aligned, NEW p, Data!Take(p)
  PROVE  /\ p \in InFlight(dataQ, dataHeld) /\ p \in DataPacket
         /\ InFlight(dataQ', dataHeld') \subseteq InFlight(dataQ, dataHeld)
         /\ Ordered(dataQ', dataHeld', PacketLo, PacketHi)
         /\ Reached(dataQ', dataHeld', PacketLo, expected)
         /\ Reached(dataQ', dataHeld', PacketLo, Number(p) + 1)
<1>1. TakeResult(dataQ, dataHeld, p, dataQ', dataHeld') BY DataSteps
<1>2. dataQ \in Seq(DataPacket) /\ dataHeld \in DataPacket \cup {NoPacket} BY UnderWay
<1>3. /\ p \in InFlight(dataQ, dataHeld)
      /\ InFlight(dataQ', dataHeld') \subseteq InFlight(dataQ, dataHeld)
  BY <1>1, <1>2, InFlightTake
<1>4. p \in DataPacket BY <1>3, UnderWay
<1>5. /\ PacketLo \in [DataPacket -> Int] /\ PacketHi \in [DataPacket -> Int]
      /\ PacketHi[p] = Number(p) + 1 /\ Number(p) \in Int /\ expected \in Int
  BY <1>4, PacketNumbers, Counters
<1>6. /\ Ordered(dataQ, dataHeld, PacketLo, PacketHi)
      /\ Reached(dataQ, dataHeld, PacketLo, expected)
  BY DEF Aligned, PacketsInOrder
<1>7. /\ Ordered(dataQ', dataHeld', PacketLo, PacketHi)
      /\ \A x \in Int : Reached(dataQ, dataHeld, PacketLo, x) => Reached(dataQ', dataHeld', PacketLo, x)
      /\ \A x \in Int : x <= PacketHi[p] => Reached(dataQ', dataHeld', PacketLo, x)
  BY <1>1, <1>2, <1>5, <1>6, TakeKeeps
<1>8. Number(p) + 1 \in Int /\ Number(p) + 1 <= PacketHi[p] BY <1>5
<1> QED BY <1>3, <1>4, <1>5, <1>6, <1>7, <1>8

(* Putting an answer on the link: what it has to satisfy for the order and *)
(* the freshness of the answers.                                           *)
InPlace(m) ==
  /\ \A r \in InFlight(ackQ, ackHeld) : Awaited(r) <= AnswerLo[m]
  /\ \A x \in Learned : x <= AnswerLo[m]
  /\ Awaited(m) <= Base + W

LEMMA AnswerPut ==
  ASSUME SenderInv, ReceiverInv, AcksTyped, Aligned, UNCHANGED sender,
         NEW m \in AckPacket, Ack!Put(m), Fresh(m), spc # "done" => InPlace(m)
  PROVE  /\ AnswersFresh' /\ (spc' # "done" => AnswersInOrder')
         /\ InFlight(ackQ', ackHeld') \subseteq InFlight(ackQ, ackHeld) \cup {m}
<1>1. PutResult(ackQ, ackHeld, m, ackQ', ackHeld') BY AckSteps
<1>2. ackQ \in Seq(AckPacket) /\ ackHeld \in AckPacket \cup {NoPacket} BY DEF AcksTyped
<1>3. InFlight(ackQ', ackHeld') \subseteq InFlight(ackQ, ackHeld) \cup {m}
  BY <1>1, <1>2, InFlightPut
<1>4. seq' = seq /\ Learned' = Learned /\ spc' = spc BY DEF sender, seq, Learned, Base
<1>5. AnswersFresh' BY <1>3, <1>4 DEF Aligned, AnswersFresh, Fresh
<1>6. ASSUME spc # "done" PROVE AnswersInOrder'
  <2>1. /\ AnswerLo \in [AckPacket -> Int] /\ AnswerHi \in [AckPacket -> Int]
        /\ AnswerHi[m] = Awaited(m) /\ Awaited(m) \in Int /\ Base \in Int /\ W \in Int
    BY AnswerNumbers, Counters, SentFacts
  <2>2. /\ Ordered(ackQ, ackHeld, AnswerLo, AnswerHi)
        /\ \A x \in Learned : Reached(ackQ, ackHeld, AnswerLo, x)
    BY <1>6 DEF Aligned, AnswersInOrder
  <2>3. ASSUME NEW a \in 1..Len(ackQ) PROVE AnswerHi[ackQ[a]] <= AnswerLo[m]
    <3>1. ackQ[a] \in InFlight(ackQ, ackHeld) /\ ackQ[a] \in AckPacket BY <1>2, InFlightIn
    <3>2. AnswerHi[ackQ[a]] = Awaited(ackQ[a]) BY <3>1, AnswerNumbers
    <3> QED BY <1>6, <3>1, <3>2 DEF InPlace
  <2>4. ASSUME ackHeld # NoPacket PROVE AnswerHi[m] <= AnswerLo[ackHeld] + W
    <3>1. Base <= AnswerLo[ackHeld] BY <2>2, <2>4 DEF Learned, Reached
    <3>2. ackHeld \in AckPacket BY <1>2, <2>4
    <3>3. AnswerLo[ackHeld] \in Int BY <2>1, <3>2
    <3>4. Awaited(m) <= Base + W BY <1>6 DEF InPlace
    <3> QED BY <2>1, <3>1, <3>3, <3>4
  <2>5. Ordered(ackQ', ackHeld', AnswerLo, AnswerHi)
    BY <1>1, <1>2, <2>1, <2>2, <2>3, <2>4, PutKeepsOrder
  <2>6. ASSUME NEW x \in Learned PROVE Reached(ackQ', ackHeld', AnswerLo, x)
    <3>1. x \in Int
      <4>1. \A k \in arrACK : k \in Int BY SentFacts DEF SenderInv, SenderTypeOK
      <4> QED BY <2>1, <4>1 DEF Learned
    <3>2. x <= AnswerLo[m] BY <1>6 DEF InPlace
    <3> QED BY <1>1, <1>2, <2>1, <2>2, <3>1, <3>2, PutKeepsReached
  <2> QED BY <1>4, <2>5, <2>6 DEF AnswersInOrder
<1> QED BY <1>3, <1>4, <1>5, <1>6

\* What receiver steps leave alone.
LEMMA ReceiverFrame ==
  ASSUME Upkeep, UNCHANGED sender, InFlight(dataQ', dataHeld') \subseteq InFlight(dataQ, dataHeld)
  PROVE  SlotOneRecent' /\ MarksInUse' /\ SackEnds' /\ abandoned' = abandoned /\ seq' = seq
         /\ Learned' = Learned /\ stamp' = stamp
<1>1. UNCHANGED <<spc, winBuf, winBufPos, arrACK, stamp, abandoned>> BY DEF sender
<1> QED BY <1>1 DEF Upkeep, SlotOneRecent, MarksInUse, SackEnds, seq, Learned, Base

(* The answer to a packet of the running transfer, at which the receiver   *)
(* waits for n: the number it waited for, or the next one.                 *)
LEMMA RunningAnswer ==
  ASSUME SenderInv, ReceiverInv, AcksTyped, Aligned, ~Full,
         NEW m \in AckPacket, Awaited(m) \in {expected, expected + 1}, Awaited(m) <= seq,
         m.id = expected
  PROVE  Fresh(m) /\ (spc # "done" => InPlace(m))
<1>1. /\ expected \in Int /\ seq \in Int /\ Base \in Int /\ W \in Nat /\ M \in Nat /\ W < M
      /\ seq <= First + Sent /\ First + Sent + W \in Int /\ seq <= Base + W
  BY Counters, SentFacts
<1>2. expected <= seq /\ seq <= expected + W BY DEF Aligned, WithinWindow
<1>3. Fresh(m)
  <2>1. Awaited(m) >= expected /\ Awaited(m) \in Int BY <1>1
  <2> QED BY <1>1, <1>2, <2>1 DEF Fresh
<1>4. AnswerLo[m] \in Int /\ expected <= AnswerLo[m]
  <2>1. Settled(m) => AnswerLo[m] = First + Sent + W BY AnswerNumbers
  <2>2. ~Settled(m) => AnswerLo[m] = Awaited(m) BY AnswerNumbers
  <2>3. expected <= Awaited(m) /\ Awaited(m) \in Int BY <1>1
  <2>4. expected <= First + Sent + W /\ First + Sent + W \in Int BY <1>1, <1>2, SentFacts
  <2> QED BY <2>1, <2>2, <2>3, <2>4
<1>5. ackQ \in Seq(AckPacket) /\ ackHeld \in AckPacket \cup {NoPacket} BY DEF AcksTyped
<1>6. LearnedIsSaid BY DEF Aligned
<1>7. ASSUME NEW r \in InFlight(ackQ, ackHeld) PROVE Awaited(r) <= AnswerLo[m]
  <2>1. r \in AckPacket BY <1>5, InFlightIn
  <2>2. Awaited(r) \in Int BY <2>1, AnswerNumbers
  <2>3. Awaited(r) <= expected BY <1>6 DEF LearnedIsSaid
  <2> QED BY <1>1, <1>4, <2>2, <2>3
<1>8. ASSUME NEW x \in Learned PROVE x <= AnswerLo[m]
  <2>1. x \in Int
    <3>1. \A k \in arrACK : k \in Int BY SentFacts DEF SenderInv, SenderTypeOK
    <3> QED BY <1>1, <3>1 DEF Learned
  <2>2. x <= expected BY <1>6 DEF LearnedIsSaid
  <2> QED BY <1>1, <1>4, <2>1, <2>2
<1>9. Awaited(m) <= Base + W BY <1>1
<1> QED BY <1>3, <1>7, <1>8, <1>9 DEF InPlace

LEMMA RefusalKeeps ==
  ASSUME SenderInv, ReceiverInv, DataStamped, AcksTyped, Upkeep, Aligned, ~Full,
         UNCHANGED <<receiver, sender>>, NEW p, Data!Take(p),
         NEW m \in AckPacket, Ack!Put(m), m.type # "ACK", m.id = expected
  PROVE  Aligned'
<1>1. /\ expected \in Int /\ expected <= seq
  BY Counters DEF Aligned, WithinWindow
<1>2. Awaited(m) = expected BY DEF Awaited
<1>3. Fresh(m) /\ (spc # "done" => InPlace(m)) BY <1>1, <1>2, RunningAnswer
<1>4. /\ AnswersFresh' /\ (spc' # "done" => AnswersInOrder')
      /\ InFlight(ackQ', ackHeld') \subseteq InFlight(ackQ, ackHeld) \cup {m}
  BY <1>3, AnswerPut
<1>5. /\ InFlight(dataQ', dataHeld') \subseteq InFlight(dataQ, dataHeld)
      /\ Ordered(dataQ', dataHeld', PacketLo, PacketHi)
      /\ Reached(dataQ', dataHeld', PacketLo, expected)
  BY PacketTaken DEF Upkeep
<1>6. seq' = seq /\ Learned' = Learned /\ stamp' = stamp BY <1>5, ReceiverFrame
<1>7. UNCHANGED <<expected, got>> BY DEF receiver
<1>8. PacketsInOrder' BY <1>5, <1>7 DEF PacketsInOrder
<1>9. WithinWindow' /\ Written' BY <1>6, <1>7 DEF Aligned, WithinWindow, Written
<1>10. LearnedIsSaid'
  <2>1. LearnedIsSaid BY DEF Aligned
  <2> QED BY <1>1, <1>2, <1>4, <1>6, <1>7, <2>1 DEF LearnedIsSaid
<1> QED BY <1>4, <1>8, <1>9, <1>10 DEF Aligned

LEMMA AcceptKeeps ==
  ASSUME EnoughNumbers, SenderInv, ReceiverInv, DataStamped, AcksTyped, Upkeep, Aligned, ~Full,
         RecvInSequence
  PROVE  Aligned'
<1>1. PICK p \in DataPacket :
        /\ Data!Take(p) /\ p.type = "REQUEST" /\ Seq5(p.id) = Seq5(expected)
        /\ got' = Append(got, ChunkOf(p.id))
  BY DEF RecvInSequence
<1> DEFINE m == [type |-> "ACK", id |-> expected]
<1>2. Ack!Put(m) /\ expected' = expected + 1 /\ UNCHANGED sender BY DEF RecvInSequence
<1>3. /\ p \in InFlight(dataQ, dataHeld)
      /\ InFlight(dataQ', dataHeld') \subseteq InFlight(dataQ, dataHeld)
      /\ Ordered(dataQ', dataHeld', PacketLo, PacketHi)
      /\ Reached(dataQ', dataHeld', PacketLo, Number(p) + 1)
  BY <1>1, PacketTaken DEF Upkeep
<1>4. p.id = expected /\ Number(p) = expected
  BY <1>1, <1>3, NumbersSuffice DEF Upkeep, Number
<1>5. /\ expected \in Int /\ seq \in Int /\ Len(got) \in Nat /\ Len(stamp) \in Nat
      /\ expected = First + Len(got) /\ seq = First + Len(stamp) /\ W \in Nat /\ First \in Nat
  BY Counters, SentFacts
<1>6. expected + 1 <= seq
  <2>1. Number(p) < seq BY <1>3, PacketNear DEF Upkeep
  <2> QED BY <1>4, <1>5, <2>1
<1>7. m \in AckPacket /\ m.type = "ACK" /\ m.id = expected /\ Awaited(m) = expected + 1
  <2>1. expected \in Ids BY SentFacts DEF ReceiverInv, ReceiverTypeOK, Ids
  <2> QED BY <2>1 DEF AckPacket, Awaited
<1> HIDE DEF m
<1>8. Fresh(m) /\ (spc # "done" => InPlace(m)) BY <1>6, <1>7, RunningAnswer
<1>9. /\ AnswersFresh' /\ (spc' # "done" => AnswersInOrder')
      /\ InFlight(ackQ', ackHeld') \subseteq InFlight(ackQ, ackHeld) \cup {m}
  BY <1>2, <1>7, <1>8, AnswerPut
<1>10. seq' = seq /\ Learned' = Learned /\ stamp' = stamp BY <1>2, <1>3, ReceiverFrame
<1>11. PacketsInOrder' BY <1>2, <1>3, <1>4 DEF PacketsInOrder
<1>12. WithinWindow'
  BY <1>2, <1>5, <1>6, <1>10 DEF Aligned, WithinWindow
<1>13. Written'
  <2>1. ChunkOf(p.id) = stamp[Len(got) + 1] /\ Len(got) + 1 <= Len(stamp)
    <3>1. ~(expected < First) /\ expected - First + 1 = Len(got) + 1 BY <1>5
    <3> QED BY <1>4, <1>5, <1>6, <3>1 DEF ChunkOf
  <2>2. got \in Seq(0..Sent) BY DEF ReceiverInv, ReceiverTypeOK
  <2>3. /\ Len(got') = Len(got) + 1 /\ got'[Len(got) + 1] = stamp[Len(got) + 1]
        /\ \A k \in 1..Len(got) : got'[k] = got[k]
    BY <1>1, <2>1, <2>2
  <2>4. \A k \in 1..Len(got) : got[k] = stamp[k] BY DEF Aligned, Written
  <2>5. ASSUME NEW k \in 1..Len(got') PROVE k \in 1..Len(got) \/ k = Len(got) + 1
    BY <1>5, <2>3
  <2> QED BY <1>10, <2>1, <2>3, <2>4, <2>5 DEF Written
<1>14. LearnedIsSaid'
  <2>1. LearnedIsSaid BY DEF Aligned
  <2>2. ASSUME NEW x \in Learned PROVE x <= expected + 1
    <3>1. \A k \in arrACK : k \in Int BY SentFacts DEF SenderInv, SenderTypeOK
    <3>2. Base \in Int BY Counters
    <3>3. x \in Int BY <3>1, <3>2 DEF Learned
    <3>4. x <= expected BY <2>1 DEF LearnedIsSaid
    <3> QED BY <1>5, <3>3, <3>4
  <2>3. ASSUME NEW r \in InFlight(ackQ, ackHeld) PROVE Awaited(r) <= expected + 1
    <3>1. r \in AckPacket BY InFlightIn DEF AcksTyped
    <3>2. Awaited(r) \in Int BY <3>1, AnswerNumbers
    <3>3. Awaited(r) <= expected BY <2>1 DEF LearnedIsSaid
    <3> QED BY <1>5, <3>2, <3>3
  <2>4. Awaited(m) <= expected + 1 BY <1>5, <1>7
  <2> QED BY <1>2, <1>9, <1>10, <2>2, <2>3, <2>4 DEF LearnedIsSaid
<1> QED BY <1>9, <1>11, <1>12, <1>13, <1>14 DEF Aligned

(* srv_wait4cnn's answers come in no order, but they are settled: stamping *)
(* the rest of the file does not use up M numbers.                         *)
LEMMA LingerKeeps ==
  ASSUME EnoughNumbers, SenderInv, ReceiverInv, DataStamped, AcksTyped, Upkeep, Aligned, Full,
         UNCHANGED <<expected, got, sender>>, NEW p \in DataPacket, Data!Take(p),
         Ack!Put([type |-> "ACK", id |-> p.id])
  PROVE  Aligned'
<1> DEFINE m == [type |-> "ACK", id |-> p.id]
<1>1. Ack!Put(m) OBVIOUS
<1>2. /\ p \in InFlight(dataQ, dataHeld)
      /\ InFlight(dataQ', dataHeld') \subseteq InFlight(dataQ, dataHeld)
      /\ Ordered(dataQ', dataHeld', PacketLo, PacketHi)
      /\ Reached(dataQ', dataHeld', PacketLo, expected)
  BY PacketTaken DEF Upkeep
<1>3. /\ m \in AckPacket /\ m.type = "ACK" /\ m.id = p.id /\ Awaited(m) = p.id + 1
  <2>1. p.id \in Ids BY DEF DataPacket
  <2> QED BY <2>1 DEF AckPacket, Awaited
<1> HIDE DEF m
<1>4. /\ expected \in Int /\ seq \in Int /\ Base \in Int /\ W \in Nat \ {0} /\ M \in Nat
      /\ seq <= First + Sent /\ First + Sent \in Int /\ seq <= Base + W /\ p.id \in Int
      /\ First + Sent <= expected + 1 /\ M >= 2 * W + 1
  BY Counters, PacketNumbers, SentFacts DEF EnoughNumbers
<1>5. p.id <= seq /\ expected <= p.id + 2 * W /\ (spc # "done" => p.id + 1 <= seq)
  <2>1. Number(p) < seq /\ expected <= Number(p) + 2 * W BY <1>2, PacketNear DEF Upkeep
  <2>2. CASE p.type = "REQUEST"
    <3>1. Number(p) = p.id BY <2>2 DEF Number
    <3> QED BY <1>4, <2>1, <3>1
  <2>3. CASE p.type # "REQUEST"
    <3>1. p.type = "SACK" /\ Number(p) = p.id - 1 BY <2>3 DEF DataPacket, Number
    <3>2. p.id <= seq /\ spc = "done" BY <1>2, <3>1 DEF Upkeep, SackEnds
    <3> QED BY <1>4, <2>1, <3>1, <3>2
  <2> QED BY <2>2, <2>3
<1>6. First + Sent <= p.id + M BY <1>4, <1>5
<1>7. Fresh(m) BY <1>3, <1>4, <1>5, <1>6 DEF Fresh
<1>8. AnswerLo[m] = First + Sent + W
  <2>1. Settled(m) BY <1>3, <1>6 DEF Settled
  <2> QED BY <1>3, <2>1, AnswerNumbers
<1>9. ASSUME spc # "done" PROVE InPlace(m)
  <2>1. ASSUME NEW r \in InFlight(ackQ, ackHeld) PROVE Awaited(r) <= First + Sent + W
    <3>1. r \in AckPacket BY InFlightIn DEF AcksTyped
    <3>2. r.id \in Int /\ r.id <= First + Sent BY <3>1, AnswerNumbers
    <3> QED BY <1>4, <3>2 DEF Awaited
  <2>2. ASSUME NEW x \in Learned PROVE x <= First + Sent + W
    <3>1. winBufPos \in 0..W /\ Base = seq - winBufPos BY Counters
    <3>2. CASE x = Base BY <1>4, <3>1, <3>2
    <3>3. CASE x # Base
      <4>1. PICK k \in arrACK : x = Base + k BY <3>3 DEF Learned
      <4>2. k \in 1..winBufPos BY <4>1 DEF Upkeep, MarksInUse
      <4> QED BY <1>4, <3>1, <4>1, <4>2
    <3> QED BY <3>2, <3>3
  <2>3. Awaited(m) <= Base + W BY <1>3, <1>4, <1>5, <1>9
  <2> QED BY <1>8, <2>1, <2>2, <2>3 DEF InPlace
<1>10. AnswersFresh' /\ (spc' # "done" => AnswersInOrder')
  BY <1>1, <1>3, <1>7, <1>9, AnswerPut
<1>11. seq' = seq /\ stamp' = stamp BY <1>2, ReceiverFrame
<1>12. PacketsInOrder' BY <1>2 DEF PacketsInOrder
<1>13. WithinWindow' /\ Written' BY <1>11 DEF Aligned, WithinWindow, Written
<1>14. Full' BY DEF Full
<1> QED BY <1>10, <1>12, <1>13, <1>14 DEF Aligned

\* Steps that change neither a link nor what has been received.
LEMMA IdleKeeps ==
  ASSUME Aligned, UNCHANGED <<expected, got, sender, data, ack>>
  PROVE  Aligned'
<1>1. UNCHANGED <<expected, got, spc, winBufPos, arrACK, stamp, dataQ, dataHeld, ackQ, ackHeld>>
  BY DEF sender, data, ack
<1>2. seq' = seq /\ Learned' = Learned /\ (Full' <=> Full) BY <1>1 DEF seq, Learned, Base, Full
<1>3. WithinWindow' /\ Written' /\ PacketsInOrder'
  BY <1>1, <1>2 DEF Aligned, WithinWindow, Written, PacketsInOrder
<1>4. AnswersFresh' BY <1>1, <1>2 DEF Aligned, AnswersFresh, Fresh
<1>5. spc' # "done" => AnswersInOrder' BY <1>1, <1>2 DEF Aligned, AnswersInOrder
<1>6. ~Full' => LearnedIsSaid' BY <1>1, <1>2 DEF Aligned, LearnedIsSaid
<1> QED BY <1>3, <1>4, <1>5, <1>6 DEF Aligned

LEMMA ReceiverKeepsDelivery ==
  ASSUME EnoughNumbers, SenderInv, ReceiverInv, DataStamped, AcksTyped, DeliveryInv,
         ReceiverStep
  PROVE  DeliveryInv'
<1>1. Upkeep /\ (~abandoned => Aligned) BY DEF DeliveryInv
<1>2. UNCHANGED sender
  BY DEF ReceiverStep, RecvInSequence, RecvOutOfSequence, RecvSpecialRequest, LingerRecv,
         LingerTimeout, ReceiverError
<1>3. InFlight(dataQ', dataHeld') \subseteq InFlight(dataQ, dataHeld)
  <2>1. dataQ \in Seq(DataPacket) BY <1>1, UnderWay DEF Upkeep
  <2>2. ASSUME NEW p, Data!Take(p)
        PROVE  InFlight(dataQ', dataHeld') \subseteq InFlight(dataQ, dataHeld)
    BY <2>1, <2>2, DataSteps, InFlightTake
  <2>3. (\E p : Data!Take(p)) \/ UNCHANGED data
    BY DEF ReceiverStep, RecvInSequence, RecvOutOfSequence, RecvSpecialRequest, LingerRecv,
           LingerTimeout, ReceiverError
  <2> QED BY <2>2, <2>3 DEF data
<1>4. SlotOneRecent' /\ MarksInUse' /\ SackEnds' /\ abandoned' = abandoned
  BY <1>1, <1>2, <1>3, ReceiverFrame
<1>5. SUFFICES LingersWhenFull' /\ (~abandoned => Aligned')
  BY <1>4 DEF DeliveryInv, Upkeep
<1>6. rpc = "recv" => ~Full
  <2>1. Len(got) \in Nat /\ Chunks \in Nat BY Counters, TransferAssumption
  <2>2. rpc = "recv" => Len(got) < Chunks BY DEF ReceiverInv, GotCounted
  <2> QED BY <2>1, <2>2 DEF Full
<1>7. rpc \in {"linger", "closed"} => Full BY <1>1 DEF Upkeep, LingersWhenFull
<1>8. expected \in Ids BY SentFacts DEF ReceiverInv, ReceiverTypeOK, Ids
<1>9. CASE RecvInSequence
  <2>1. LingersWhenFull' BY <1>9 DEF RecvInSequence, LingersWhenFull, Full
  <2>2. rpc = "recv" BY <1>9 DEF RecvInSequence
  <2>3. ~abandoned => Aligned' BY <1>1, <1>6, <1>9, <2>2, AcceptKeeps
  <2> QED BY <2>1, <2>3
<1>10. CASE RecvOutOfSequence \/ RecvSpecialRequest
  <2>1. rpc = "recv" /\ UNCHANGED <<receiver, sender>>
    BY <1>10 DEF RecvOutOfSequence, RecvSpecialRequest
  <2>2. PICK p : Data!Take(p) BY <1>10 DEF RecvOutOfSequence, RecvSpecialRequest
  <2>3. PICK m : /\ m \in {[type |-> "NACK", id |-> expected], [type |-> "SACK", id |-> expected]}
                 /\ Ack!Put(m)
    BY <1>10 DEF RecvOutOfSequence, RecvSpecialRequest
  <2>4. m \in AckPacket /\ m.type # "ACK" /\ m.id = expected
    BY <1>8, <2>3 DEF AckPacket
  <2>5. ~abandoned => Aligned' BY <1>1, <1>6, <2>1, <2>2, <2>3, <2>4, RefusalKeeps
  <2>6. LingersWhenFull' BY <1>1, <2>1 DEF Upkeep, LingersWhenFull, Full, receiver
  <2> QED BY <2>5, <2>6
<1>11. CASE LingerRecv
  <2>1. rpc = "linger" /\ UNCHANGED <<expected, got>> BY <1>11 DEF LingerRecv, EndRound
  <2>2. PICK p \in DataPacket : Data!Take(p) /\ Ack!Put([type |-> "ACK", id |-> p.id])
    BY <1>11 DEF LingerRecv
  <2>3. ~abandoned => Aligned' BY <1>1, <1>2, <1>7, <2>1, <2>2, LingerKeeps
  <2>4. LingersWhenFull' BY <1>7, <2>1 DEF LingersWhenFull, Full
  <2> QED BY <2>3, <2>4
<1>12. CASE LingerTimeout
  <2>1. rpc = "linger" /\ UNCHANGED <<expected, got, data, ack>>
    BY <1>12 DEF LingerTimeout, EndRound
  <2>2. ~abandoned => Aligned' BY <1>1, <1>2, <2>1, IdleKeeps
  <2>3. LingersWhenFull' BY <1>7, <2>1 DEF LingersWhenFull, Full
  <2> QED BY <2>2, <2>3
<1>13. CASE ReceiverError
  <2>1. rpc' = "failed" /\ UNCHANGED <<expected, got, data, ack>> BY <1>13 DEF ReceiverError
  <2>2. ~abandoned => Aligned' BY <1>1, <1>2, <2>1, IdleKeeps
  <2>3. LingersWhenFull' BY <2>1 DEF LingersWhenFull
  <2> QED BY <2>2, <2>3
<1> QED BY <1>9, <1>10, <1>11, <1>12, <1>13 DEF ReceiverStep

LEMMA ReleaseKeepsDelivery ==
  ASSUME SenderInv, ReceiverInv, DataStamped, AcksTyped, DeliveryInv,
         ReleaseData \/ ReleaseAck
  PROVE  DeliveryInv'
<1>1. /\ SlotOneRecent /\ MarksInUse /\ LingersWhenFull /\ SackEnds
      /\ ~abandoned => Aligned
  BY DEF DeliveryInv, Upkeep
<1>2. UNCHANGED <<expected, got, rpc, spc, winBuf, winBufPos, arrACK, stamp, abandoned>>
  BY DEF ReleaseData, ReleaseAck, sender, receiver
<1>3. seq' = seq /\ Learned' = Learned /\ (Full' <=> Full) BY <1>2 DEF seq, Learned, Base, Full
<1>4. SlotOneRecent' /\ MarksInUse' /\ LingersWhenFull'
  BY <1>1, <1>2, <1>3 DEF SlotOneRecent, MarksInUse, LingersWhenFull
<1>5. CASE ReleaseData
  <2>1. /\ ReleaseResult(dataQ, dataHeld, dataQ', dataHeld') /\ UNCHANGED <<ackQ, ackHeld>>
    BY <1>5, DataSteps DEF ReleaseData, ack
  <2>2. dataQ \in Seq(DataPacket) /\ dataHeld \in DataPacket \cup {NoPacket}
    BY <1>1, UnderWay
  <2>3. InFlight(dataQ', dataHeld') \subseteq InFlight(dataQ, dataHeld)
    <3>1. dataHeld \in DataPacket BY <2>1, <2>2 DEF ReleaseResult
    <3> QED BY <2>1, <2>2, <3>1, InFlightSteps
  <2>4. SackEnds' BY <1>1, <1>2, <1>3, <2>3 DEF SackEnds
  <2>5. ASSUME Aligned PROVE Aligned'
    <3>1. /\ PacketLo \in [DataPacket -> Int] /\ PacketHi \in [DataPacket -> Int]
          /\ expected \in Int
      BY PacketNumbers, Counters
    <3>2. /\ Ordered(dataQ, dataHeld, PacketLo, PacketHi)
          /\ Reached(dataQ, dataHeld, PacketLo, expected)
      BY <2>5 DEF Aligned, PacketsInOrder
    <3>3. /\ Ordered(dataQ', dataHeld', PacketLo, PacketHi)
          /\ Reached(dataQ', dataHeld', PacketLo, expected)
      BY <2>1, <2>2, <3>1, <3>2, ReleaseKeeps
    <3>4. PacketsInOrder' BY <1>2, <3>3 DEF PacketsInOrder
    <3>5. WithinWindow' /\ Written' BY <1>2, <1>3, <2>5 DEF Aligned, WithinWindow, Written
    <3>6. AnswersFresh' BY <1>3, <2>1, <2>5 DEF Aligned, AnswersFresh, Fresh
    <3>7. spc' # "done" => AnswersInOrder' BY <1>2, <1>3, <2>1, <2>5 DEF Aligned, AnswersInOrder
    <3>8. ~Full' => LearnedIsSaid' BY <1>2, <1>3, <2>1, <2>5 DEF Aligned, LearnedIsSaid
    <3> QED BY <3>4, <3>5, <3>6, <3>7, <3>8 DEF Aligned
  <2> QED BY <1>1, <1>2, <1>4, <2>4, <2>5 DEF DeliveryInv, Upkeep
<1>6. CASE ReleaseAck
  <2>1. /\ ReleaseResult(ackQ, ackHeld, ackQ', ackHeld') /\ UNCHANGED <<dataQ, dataHeld>>
    BY <1>6, AckSteps DEF ReleaseAck, data
  <2>2. ackQ \in Seq(AckPacket) /\ ackHeld \in AckPacket \cup {NoPacket} BY DEF AcksTyped
  <2>3. InFlight(ackQ', ackHeld') \subseteq InFlight(ackQ, ackHeld)
    <3>1. ackHeld \in AckPacket BY <2>1, <2>2 DEF ReleaseResult
    <3> QED BY <2>1, <2>2, <3>1, InFlightSteps
  <2>4. SackEnds' BY <1>1, <1>2, <1>3, <2>1 DEF SackEnds
  <2>5. ASSUME Aligned PROVE Aligned'
    <3>1. AnswersFresh' BY <1>3, <2>3, <2>5 DEF Aligned, AnswersFresh, Fresh
    <3>2. ASSUME spc' # "done" PROVE AnswersInOrder'
      <4>1. /\ AnswerLo \in [AckPacket -> Int] /\ AnswerHi \in [AckPacket -> Int]
        BY AnswerNumbers
      <4>2. /\ Ordered(ackQ, ackHeld, AnswerLo, AnswerHi)
            /\ \A x \in Learned : Reached(ackQ, ackHeld, AnswerLo, x)
        BY <1>2, <2>5, <3>2 DEF Aligned, AnswersInOrder
      <4>3. Learned \subseteq Int
        <5>1. Base \in Int BY Counters
        <5>2. \A k \in arrACK : k \in Int BY SentFacts DEF SenderInv, SenderTypeOK
        <5> QED BY <5>1, <5>2 DEF Learned
      <4>4. /\ Ordered(ackQ', ackHeld', AnswerLo, AnswerHi)
            /\ \A x \in Int : Reached(ackQ, ackHeld, AnswerLo, x)
                              => Reached(ackQ', ackHeld', AnswerLo, x)
        BY <2>1, <2>2, <4>1, <4>2, ReleaseKeeps
      <4> QED BY <1>3, <4>2, <4>3, <4>4 DEF AnswersInOrder
    <3>3. ~Full' => LearnedIsSaid' BY <1>2, <1>3, <2>3, <2>5 DEF Aligned, LearnedIsSaid
    <3>4. WithinWindow' /\ Written' /\ PacketsInOrder'
      BY <1>2, <1>3, <2>1, <2>5 DEF Aligned, WithinWindow, Written, PacketsInOrder
    <3> QED BY <3>1, <3>2, <3>3, <3>4 DEF Aligned
  <2> QED BY <1>1, <1>2, <1>4, <2>4, <2>5 DEF DeliveryInv, Upkeep
<1> QED BY <1>5, <1>6

LEMMA ShortQueue ==
  ASSUME NEW r, NEW q \in {<<>>, <<r>>}, NEW c \in 1..Len(q)
  PROVE  c = 1 /\ q[c] = r
<1>1. CASE q = <<>>
  <2>1. Len(q) = 0 BY <1>1
  <2> QED BY <2>1
<1>2. CASE q = <<r>>
  <2>1. Len(q) = 1 /\ q[1] = r BY <1>2
  <2>2. c = 1 BY <2>1
  <2> QED BY <2>1, <2>2
<1> QED BY <1>1, <1>2

\* At the start only the header and its ACK may still be under way.
LEMMA DeliveryStarts ==
  ASSUME Init
  PROVE  DeliveryInv
<1>1. /\ stamp = <<>> /\ got = <<>> /\ winBufPos = 0 /\ arrACK = {} /\ expected = First
      /\ seq = First /\ Base = First /\ Learned = {First} /\ 1 \in 1..W
  BY SentFacts DEF Init, seq, Base, Learned
<1>2. First \in Nat \ {0} /\ W \in Nat \ {0} /\ M \in Nat /\ M > W /\ Sent \in Nat
  BY SentFacts
<1>3. SlotOneRecent
  <2>1. winBuf[1] = First - 1 BY <1>1 DEF Init, Header
  <2>2. First - 1 \in Nat BY <1>2
  <2> QED BY <1>1, <1>2, <2>1, <2>2, TransferAssumption DEF SlotOneRecent
<1>4. MarksInUse BY <1>1 DEF MarksInUse
<1>5. LingersWhenFull BY <1>1 DEF Init, LingersWhenFull, Full
<1> DEFINE p == [type |-> "REQUEST", id |-> First - 1]
           m == [type |-> "ACK", id |-> First - 1]
<1>6. /\ dataHeld = NoPacket /\ ackHeld = NoPacket
      /\ dataQ \in {<<>>, <<p>>} /\ ackQ \in {<<>>, <<m>>}
  BY DEF Init, Header
<1>7. First - 1 \in Ids
  <2>1. First - 1 \in (First - 1)..(First + Sent) BY <1>2
  <2> QED BY <2>1 DEF Ids
<1>8. p \in DataPacket /\ p.type = "REQUEST" /\ Number(p) = First - 1
  BY <1>7 DEF DataPacket, Number
<1>9. m \in AckPacket /\ m.id = First - 1 /\ Awaited(m) = First
  BY <1>2, <1>7 DEF AckPacket, Awaited
<1> HIDE DEF p, m
<1>10. InFlight(dataQ, dataHeld) \subseteq {p} /\ InFlight(ackQ, ackHeld) \subseteq {m}
  BY <1>6 DEF InFlight
<1>11. SackEnds BY <1>8, <1>10 DEF SackEnds
<1>12. ASSUME NEW r, NEW q \in {<<>>, <<r>>}, NEW lo, NEW hi
       PROVE  Ordered(q, NoPacket, lo, hi)
  <2>1. ASSUME NEW a \in 1..Len(q), NEW c \in 1..Len(q), a < c PROVE FALSE
    <3>1. a = 1 /\ c = 1 BY ShortQueue
    <3> QED BY <2>1, <3>1
  <2> QED BY <2>1 DEF Ordered
<1>13. ASSUME NEW r, NEW q \in {<<>>, <<r>>}, NEW lo, lo[r] \in Int, First <= lo[r] + W
       PROVE  Reached(q, NoPacket, lo, First)
  <2>1. ASSUME NEW c \in 1..Len(q) PROVE c = 1 /\ q[c] = r
    BY ShortQueue
  <2> QED BY <1>13, <2>1 DEF Reached, Slack
<1>14. PacketsInOrder
  <2>1. PacketLo[p] = First - 1 + W BY <1>8, PacketNumbers
  <2>2. PacketLo[p] \in Int /\ First <= PacketLo[p] + W BY <1>2, <2>1
  <2> QED BY <1>1, <1>6, <1>12, <1>13, <2>2 DEF PacketsInOrder
<1>15. AnswersInOrder
  <2>1. AnswerLo[m] \in {First, First + Sent + W} BY <1>9, AnswerNumbers
  <2>2. AnswerLo[m] \in Int /\ First <= AnswerLo[m] + W BY <1>2, <2>1
  <2> QED BY <1>1, <1>6, <1>12, <1>13, <2>2 DEF AnswersInOrder
<1>16. AnswersFresh BY <1>1, <1>2, <1>9, <1>10 DEF AnswersFresh, Fresh
<1>17. LearnedIsSaid BY <1>1, <1>2, <1>9, <1>10 DEF LearnedIsSaid
<1>18. WithinWindow /\ Written BY <1>1, <1>2 DEF WithinWindow, Written
<1> QED BY <1>3, <1>4, <1>5, <1>11, <1>14, <1>15, <1>16, <1>17, <1>18
        DEF DeliveryInv, Upkeep, Aligned
-------------------------------------------------------------------------------
(* The order of packets and answers on their way, and with it how far the  *)
(* two ends may be apart, as long as no unmatched window is abandoned.     *)
THEOREM DeliveryInvariant == ASSUME EnoughNumbers PROVE Spec => []DeliveryInv
<1>1. Init => DeliveryInv BY DeliveryStarts
<1>2. IInv /\ DeliveryInv /\ [Next]_vars => DeliveryInv'
  <2> SUFFICES ASSUME SenderInv, ReceiverInv, DataStamped, AcksTyped, DeliveryInv, [Next]_vars
               PROVE  DeliveryInv'
    BY InvParts
  <2>1. CASE SenderStep BY <2>1, SenderKeepsDelivery
  <2>2. CASE ReceiverStep BY <2>2, ReceiverKeepsDelivery
  <2>3. CASE ReleaseData \/ ReleaseAck BY <2>3, ReleaseKeepsDelivery
  <2>4. CASE UNCHANGED vars
    <3>1. UNCHANGED <<expected, got, rpc, sender, data, ack>> BY <2>4 DEF vars, receiver
    <3>2. Upkeep'
      <4>1. UNCHANGED <<spc, winBuf, winBufPos, arrACK, stamp, dataQ, dataHeld>>
        BY <3>1 DEF sender, data
      <4>2. Upkeep BY DEF DeliveryInv
      <4> QED BY <3>1, <4>1, <4>2 DEF Upkeep, SlotOneRecent, MarksInUse, LingersWhenFull,
                                      SackEnds, Full, seq
    <3>3. abandoned' = abandoned BY <3>1 DEF sender
    <3> QED BY <3>1, <3>2, <3>3, IdleKeeps DEF DeliveryInv
  <2> QED BY <2>1, <2>2, <2>3, <2>4 DEF Next
<1> QED BY <1>1, <1>2, SockTransferInvariant, PTL DEF Spec

(* recv_file writes the chunks copy_2_winbuf stamped, in that order, each  *)
(* once: what chk_seqEx's comparison of sequence numbers is for.           *)
THEOREM SockDeliversInOrder == ASSUME EnoughNumbers PROVE Spec => []DeliveredInOrder
<1>1. IInv /\ DeliveryInv => DeliveredInOrder
  <2> SUFFICES ASSUME IInv, DeliveryInv, ~abandoned PROVE DeliveredInOrder
    BY DEF DeliveredInOrder
  <2>1. Written BY DEF DeliveryInv, Aligned
  <2>2. Len(got) = expected - First
    <3>1. expected = First + Len(got) /\ Len(got) \in Nat /\ First \in Nat
      BY InvParts, Counters, SentFacts
    <3> QED BY <3>1
  <2> QED BY <2>1, <2>2 DEF Written, DeliveredInOrder
<1> QED BY <1>1, DeliveryInvariant, SockTransferInvariant, PTL

(* SEQUENCE_NUM_MASK leaves enough bits: no packet under way is mistaken   *)
(* for the expected one.                                                   *)
THEOREM SockNumbersSuffice == ASSUME EnoughNumbers PROVE Spec => []SequenceNumbersSuffice
<1>1. IInv /\ DeliveryInv => SequenceNumbersSuffice
  <2> SUFFICES ASSUME SenderInv, ReceiverInv, DataStamped, DeliveryInv, ~abandoned
               PROVE  SequenceNumbersSuffice
    BY InvParts DEF SequenceNumbersSuffice
  <2>1. SackEnds /\ Aligned BY DEF DeliveryInv, Upkeep
  <2> QED BY <2>1, NumbersSuffice DEF SequenceNumbersSuffice
<1> QED BY <1>1, DeliveryInvariant, SockTransferInvariant, PTL

(* ... nor is an answer taken for one to another packet of the window by   *)
(* get_max_seq or remove_packets_from_win.                                 *)
THEOREM SockAnswersMatch == ASSUME EnoughNumbers PROVE Spec => []AnswersMatchTheirPacket
<1>1. IInv /\ DeliveryInv => AnswersMatchTheirPacket
  <2> SUFFICES ASSUME SenderInv, ReceiverInv, AcksTyped, DeliveryInv, ~abandoned,
                      NEW m \in InFlight(ackQ, ackHeld), NEW k \in 1..winBufPos
               PROVE  /\ m.type = "ACK" /\ Seq5(m.id) = Seq5(winBuf[k]) => m.id = winBuf[k]
                      /\ m.type # "ACK" /\ Seq5(m.id - 1) = Seq5(winBuf[k])
                           => m.id - 1 = winBuf[k]
    BY InvParts DEF AnswersMatchTheirPacket
  <2>1. m \in AckPacket BY InFlightIn DEF AcksTyped
  <2>2. m.id \in Int /\ m.id <= seq /\ seq < Awaited(m) + M
    BY <2>1, AnswerNumbers DEF DeliveryInv, Aligned, AnswersFresh, Fresh
  <2>3. /\ winBufPos \in 0..W /\ Base = seq - winBufPos /\ seq \in Nat /\ W < M
        /\ M \in Nat \ {0} /\ W \in Nat
    BY Counters, SentFacts
  <2>4. winBuf[k] = Base + k - 1 BY DEF SenderInv, WindowIsConsecutive
  <2>5. winBuf[k] \in Int /\ winBuf[k] < seq /\ seq <= winBuf[k] + W BY <2>3, <2>4
  <2>6. CASE m.type = "ACK"
    <3>1. Awaited(m) = m.id + 1 BY <2>6 DEF Awaited
    <3>2. m.id - winBuf[k] < M /\ winBuf[k] - m.id < M BY <2>2, <2>3, <2>5, <3>1
    <3> QED BY <2>2, <2>3, <2>5, <2>6, <3>2, ModInj DEF Seq5
  <2>7. CASE m.type # "ACK"
    <3>1. Awaited(m) = m.id BY <2>7 DEF Awaited
    <3>2. m.id - 1 \in Int /\ (m.id - 1) - winBuf[k] < M /\ winBuf[k] - (m.id - 1) < M
      BY <2>2, <2>3, <2>5, <3>1
    <3> QED BY <2>3, <2>5, <2>7, <3>2, ModInj DEF Seq5
  <2> QED BY <2>6, <2>7
<1> QED BY <1>1, DeliveryInvariant, SockTransferInvariant, PTL

(* remove_packets_from_win drops received packets only, unless the file    *)
(* has arrived or the window was abandoned.                                *)
THEOREM SockRemovesReceived == ASSUME EnoughNumbers PROVE Spec => []OnlyReceivedLeaveWindow
<1>1. DeliveryInv => OnlyReceivedLeaveWindow
  <2> SUFFICES ASSUME DeliveryInv, ~abandoned, ~Full PROVE Base <= expected
    BY DEF OnlyReceivedLeaveWindow, RemovedWereReceived, Full
  <2> QED BY DEF DeliveryInv, Aligned, LearnedIsSaid, Learned
<1> QED BY <1>1, DeliveryInvariant, PTL
===============================================================================
