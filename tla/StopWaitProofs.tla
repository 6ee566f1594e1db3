---------------------------- MODULE StopWaitProofs ----------------------------
(***************************************************************************)
(* Build 2, proved for every plan of commands, every file and directory,   *)
(* every socket buffer and every value the uninitialised numbers may have: *)
(* the types, and that udprecv returns no packet twice as long as nothing  *)
(* is delayed, whatever is lost and however early the timeouts come.       *)
(*                                                                         *)
(* One bit and the number seen last are enough for that because of an      *)
(* order between three places: all that stands in a socket behind a copy   *)
(* of the packet being sent carries the number of that packet, and once    *)
(* the packet was returned, so does prev_Recv_Seq.                         *)
(***************************************************************************)
EXTENDS StopWait, SequenceTheorems, TLAPS

Held(p) == IF p = "client" THEN toClientHeld ELSE toServerHeld

\* The packets of the first c calls, and their ACKs.
Made(c) == {d \in Datagram : d.id \in 0..c}

Shapes ==
  /\ waiting \in [Peer -> BOOLEAN]
  /\ DOMAIN accepted = Peer

\* Nothing is on its way that was not sent.
LinksMade ==
  \A p \in Peer : /\ Incoming(p) \in Seq(Made(calls[Other(p)]))
                  /\ Held(p) \in Made(calls[Other(p)]) \cup {NoPacket}

\* While udpsend waits, an ACK sent would carry its packet's number.
WaitsWithItsNumber == \A p \in Peer : waiting[p] => ackSeq[p] = Send_Seq[p]

(* What is in a socket, the sender having made c calls and ack being the   *)
(* number it sent last: between two copies of a packet all is of its       *)
(* number, and behind a copy of the last packet all is of the number ack.  *)
Stream(q, c, ack) ==
  /\ \A a, b, e \in 1..Len(q) :
       a <= b /\ b <= e /\ q[a].id = q[e].id /\ q[a].id # 0 => q[b].seqNo = q[a].seqNo
  /\ \A a, b \in 1..Len(q) :
       a <= b /\ q[a].id = c /\ c # 0 => q[b].seqNo = ack

(* The receiver has returned acc and remembers prev: up to a further copy  *)
(* of a packet it has returned all is of the number prev, and so is all    *)
(* that comes if it has returned the last packet.                          *)
Read(q, acc, prev, c, ack) ==
  /\ \A j \in 1..Len(acc) : \A e \in 1..Len(q) :
       q[e].id = acc[j] /\ acc[j] # 0 => \A b \in 1..e : q[b].seqNo = prev
  /\ \A j \in 1..Len(acc) :
       acc[j] = c /\ c # 0 => prev = ack /\ \A b \in 1..Len(q) : q[b].seqNo = ack

Agree(q, acc, prev, c, ack) == Stream(q, c, ack) /\ Read(q, acc, prev, c, ack)

\* A returned packet comes back only as an ACK, which all have the id 0.
OnceEach(acc) == \A j, k \in 1..Len(acc) : j # k /\ acc[j] = acc[k] => acc[j] = 0

Undelayed(p) ==
  /\ Held(p) = NoPacket
  /\ Agree(Incoming(p), accepted[p], prev_Recv_Seq[p], calls[Other(p)], ackSeq[Other(p)])
  /\ OnceEach(accepted[p])

IInv == /\ TypeOK /\ Shapes /\ LinksMade /\ WaitsWithItsNumber
        /\ "delay" \notin network => \A p \in Peer : Undelayed(p)

-------------------------------------------------------------------------------
\* Sequences: what Append and Tail do, in the form the proofs use.
LEMMA Appended ==
  ASSUME NEW S, NEW q \in Seq(S), NEW d \in S, NEW t, t = Append(q, d)
  PROVE  /\ t \in Seq(S) /\ Len(t) = Len(q) + 1 /\ Len(q) \in Nat
         /\ \A a \in 1..Len(q) : t[a] = q[a]
         /\ t[Len(q) + 1] = d
OBVIOUS

LEMMA TailOf ==
  ASSUME NEW S, NEW q \in Seq(S), q # <<>>, NEW t, t = Tail(q)
  PROVE  /\ t \in Seq(S) /\ Len(q) \in Nat /\ Len(q) > 0 /\ Len(t) = Len(q) - 1
         /\ \A a \in 1..Len(t) : t[a] = q[a + 1] /\ a + 1 \in 1..Len(q)
         /\ Head(q) = q[1] /\ Head(q) \in S
OBVIOUS

\* A packet entering a link, and what the link then holds.
Arrived(q, d) == IF Len(q) = Cap THEN q ELSE Append(q, d)

Entered(q, h, d, q2, h2) ==
  \/ q2 = q /\ h2 = h
  \/ "delay" \in network /\ q2 = q /\ h2 = d
  \/ /\ h2 = NoPacket
     /\ \/ q2 = Arrived(q, d)
        \/ h # NoPacket /\ q2 = Arrived(Arrived(q, d), h)

LEMMA ArrivedTyped ==
  ASSUME NEW S, NEW q \in Seq(S), NEW d \in S
  PROVE  Arrived(q, d) \in Seq(S)
BY Appended DEF Arrived

LEMMA EnteredTyped ==
  ASSUME NEW S, NEW q \in Seq(S), NEW h \in S \cup {NoPacket}, NEW d \in S,
         NEW q2, NEW h2, Entered(q, h, d, q2, h2)
  PROVE  q2 \in Seq(S) /\ h2 \in S \cup {NoPacket}
<1>1. Arrived(q, d) \in Seq(S) BY ArrivedTyped
<1>2. h # NoPacket => Arrived(Arrived(q, d), h) \in Seq(S)
  <2>1. ASSUME h # NoPacket PROVE h \in S BY <2>1
  <2> QED BY <1>1, <2>1, ArrivedTyped
<1> QED BY <1>1, <1>2 DEF Entered

\* Without delays a packet is lost or comes last.
LEMMA EnteredUndelayed ==
  ASSUME NEW q, NEW h, NEW d, NEW q2, NEW h2, Entered(q, h, d, q2, h2),
         "delay" \notin network, h = NoPacket
  PROVE  q2 \in {q, Append(q, d)} /\ h2 = NoPacket
BY DEF Entered, Arrived

LEMMA TransmitEnters ==
  ASSUME NEW p \in Peer, NEW d, Transmit(p, d)
  PROVE  Entered(Incoming(Other(p)), Held(Other(p)), d,
                 Incoming(Other(p))', Held(Other(p))')
<1>1. CASE p = "client"
  BY <1>1 DEF Transmit, Entered, Arrived, Incoming, Held, Other, KeepOutgoing, KeepIncoming,
              Up!Forward, Up!Hold, Up!Arrive
<1>2. CASE p = "server"
  BY <1>2 DEF Transmit, Entered, Arrived, Incoming, Held, Other, KeepOutgoing, KeepIncoming,
              Down!Forward, Down!Hold, Down!Arrive
<1> QED BY <1>1, <1>2 DEF Peer

LEMMA ConsumeTakes ==
  ASSUME NEW p \in Peer, Consume(p)
  PROVE  Incoming(p) # <<>> /\ Incoming(p)' = Tail(Incoming(p)) /\ Held(p)' = Held(p)
BY DEF Consume, Peer, Incoming, Held, Up!Take, Down!Take

LEMMA IncomingKept ==
  ASSUME NEW p \in Peer, KeepIncoming(p)
  PROVE  Incoming(p)' = Incoming(p) /\ Held(p)' = Held(p)
BY DEF KeepIncoming, Peer, Incoming, Held

LEMMA Others ==
  ASSUME NEW p \in Peer
  PROVE  /\ Other(p) \in Peer /\ Other(p) # p /\ Other(Other(p)) = p
         /\ \A o \in Peer : o = p \/ o = Other(p)
BY DEF Peer, Other

-------------------------------------------------------------------------------
(* What each step does to the agreement of a socket q with its receiver's  *)
(* acc and prev and its sender's c and ack.                                *)

\* The first copy of a new packet enters.
LEMMA NewPacketAgrees ==
  ASSUME NEW c \in Nat, NEW q \in Seq(Made(c)), NEW acc \in Seq(0..c), NEW prev, NEW ack,
         Agree(q, acc, prev, c, ack),
         NEW d \in Made(c + 1), d.id = c + 1
  PROVE  /\ Agree(q, acc, prev, c + 1, d.seqNo)
         /\ Agree(Append(q, d), acc, prev, c + 1, d.seqNo)
<1> DEFINE n == Len(q)
           q2 == Append(q, d)
<1>1. /\ n \in Nat /\ \A a \in 1..n : q[a] \in Made(c) /\ q[a].id \in 0..c
  BY DEF Made
<1>2. \A j \in 1..Len(acc) : acc[j] \in 0..c
  OBVIOUS
<1>3. \A a \in 1..n : q[a].id # c + 1
  BY <1>1
<1>4. \A j \in 1..Len(acc) : acc[j] # c + 1
  BY <1>2
<1>5. Agree(q, acc, prev, c + 1, d.seqNo)
  BY <1>3, <1>4 DEF Agree, Stream, Read
<1>6. Agree(q2, acc, prev, c + 1, d.seqNo)
  <2>1. /\ Len(q2) = n + 1 /\ \A a \in 1..n : q2[a] = q[a]
        /\ q2[n + 1] = d
    <3>1. q \in Seq(Made(c + 1))
      <4>1. Made(c) \subseteq Made(c + 1) BY DEF Made
      <4> QED BY <4>1, SeqMonotonic
    <3> QED BY <3>1, Appended
  <2> HIDE DEF q2
  <2>2. \A a \in 1..Len(q2) : a \in 1..n \/ a = n + 1
    BY <2>1, <1>1
  <2>3. ASSUME NEW a \in 1..Len(q2), NEW b \in 1..Len(q2), NEW e \in 1..Len(q2),
               a <= b, b <= e, q2[a].id = q2[e].id, q2[a].id # 0
        PROVE  q2[b].seqNo = q2[a].seqNo
    <3>1. CASE e \in 1..n
      <4>1. a \in 1..n /\ b \in 1..n BY <3>1, <2>3, <1>1
      <4>2. q2[a] = q[a] /\ q2[b] = q[b] /\ q2[e] = q[e] BY <4>1, <3>1, <2>1
      <4>3. q[a].id = q[e].id /\ q[a].id # 0 BY <4>2, <2>3
      <4> QED BY <4>1, <4>2, <4>3, <3>1, <2>3 DEF Agree, Stream
    <3>2. CASE e = n + 1
      <4>1. q2[a].id = c + 1 BY <3>2, <2>1, <2>3
      <4>2. a = n + 1 BY <4>1, <1>3, <2>1, <2>2
      <4>3. b = a BY <4>2, <2>3, <3>2, <1>1
      <4> QED BY <4>3
    <3> QED BY <3>1, <3>2, <2>2
  <2>4. ASSUME NEW a \in 1..Len(q2), NEW b \in 1..Len(q2), a <= b, q2[a].id = c + 1
        PROVE  q2[b].seqNo = d.seqNo
    <3>1. a = n + 1 BY <2>4, <1>3, <2>1, <2>2
    <3>2. b = n + 1 BY <3>1, <2>4, <2>1, <1>1
    <3> QED BY <3>2, <2>1
  <2>5. ASSUME NEW j \in 1..Len(acc), NEW e \in 1..Len(q2), q2[e].id = acc[j], acc[j] # 0
        PROVE  \A b \in 1..e : q2[b].seqNo = prev
    <3>1. e \in 1..n
      <4>1. e # n + 1 BY <2>5, <1>4, <2>1
      <4> QED BY <4>1, <2>2
    <3>2. \A b \in 1..e : b \in 1..n BY <3>1, <1>1
    <3>3. q[e].id = acc[j] BY <3>1, <2>1, <2>5
    <3>4. \A b \in 1..e : q[b].seqNo = prev
      BY <3>1, <3>3, <2>5 DEF Agree, Read
    <3> QED BY <3>2, <3>4, <2>1
  <2>6. Stream(q2, c + 1, d.seqNo) BY <2>3, <2>4 DEF Stream
  <2>7. Read(q2, acc, prev, c + 1, d.seqNo) BY <2>5, <1>4 DEF Read
  <2> QED BY <2>6, <2>7 DEF Agree
<1> QED BY <1>5, <1>6

\* A further copy of the last packet enters, or an ACK.
LEMMA CopyAgrees ==
  ASSUME NEW c \in Nat, NEW q \in Seq(Made(c)), NEW acc \in Seq(0..c), NEW prev,
         NEW d \in Made(c), d.id \in {0, c}, NEW ack, d.seqNo = ack,
         Agree(q, acc, prev, c, ack)
  PROVE  Agree(Append(q, d), acc, prev, c, ack)
<1> DEFINE n == Len(q)
           q2 == Append(q, d)
<1>1. n \in Nat OBVIOUS
<1>2. /\ Len(q2) = n + 1 /\ \A a \in 1..n : q2[a] = q[a]
      /\ q2[n + 1] = d
  BY Appended
<1> HIDE DEF q2
<1>3. \A a \in 1..Len(q2) : a \in 1..n \/ a = n + 1
  BY <1>2, <1>1
<1>4. ASSUME NEW a \in 1..Len(q2), NEW b \in 1..Len(q2), a <= b, q2[a].id = c, c # 0
      PROVE  q2[b].seqNo = ack
  <2>1. CASE b = n + 1 BY <2>1, <1>2
  <2>2. CASE b \in 1..n
    <3>1. a \in 1..n BY <2>2, <1>4, <1>1
    <3> QED BY <3>1, <2>2, <1>2, <1>4 DEF Agree, Stream
  <2> QED BY <2>1, <2>2, <1>3
<1>5. ASSUME NEW a \in 1..Len(q2), NEW b \in 1..Len(q2), NEW e \in 1..Len(q2),
             a <= b, b <= e, q2[a].id = q2[e].id, q2[a].id # 0
      PROVE  q2[b].seqNo = q2[a].seqNo
  <2>1. CASE e \in 1..n
    <3>1. a \in 1..n /\ b \in 1..n BY <2>1, <1>5, <1>1
    <3>2. q2[a] = q[a] /\ q2[b] = q[b] /\ q2[e] = q[e] BY <3>1, <2>1, <1>2
    <3>3. q[a].id = q[e].id /\ q[a].id # 0 BY <3>2, <1>5
    <3> QED BY <3>1, <3>2, <3>3, <2>1, <1>5 DEF Agree, Stream
  <2>2. CASE e = n + 1
    <3>1. q2[a].id = c /\ c # 0 BY <2>2, <1>2, <1>5
    <3>2. q2[b].seqNo = ack BY <3>1, <1>4, <1>5
    <3>3. a <= a BY <1>2, <1>1
    <3>4. q2[a].seqNo = ack BY <3>1, <3>3, <1>4
    <3> QED BY <3>2, <3>4
  <2> QED BY <2>1, <2>2, <1>3
<1>6. ASSUME NEW j \in 1..Len(acc), acc[j] = c, c # 0
      PROVE  prev = ack /\ \A b \in 1..Len(q2) : q2[b].seqNo = prev
  <2>1. prev = ack /\ \A b \in 1..n : q[b].seqNo = ack
    BY <1>6 DEF Agree, Read
  <2> QED BY <2>1, <1>2, <1>3
<1>7. ASSUME NEW j \in 1..Len(acc), NEW e \in 1..Len(q2), q2[e].id = acc[j], acc[j] # 0
      PROVE  \A b \in 1..e : q2[b].seqNo = prev
  <2>1. CASE e \in 1..n
    <3>1. \A b \in 1..e : b \in 1..n BY <2>1, <1>1
    <3>2. q[e].id = acc[j] BY <2>1, <1>2, <1>7
    <3>3. \A b \in 1..e : q[b].seqNo = prev
      BY <2>1, <3>2, <1>7 DEF Agree, Read
    <3> QED BY <3>1, <3>3, <1>2
  <2>2. CASE e = n + 1
    <3>1. acc[j] = c /\ c # 0 BY <2>2, <1>2, <1>7
    <3>2. \A b \in 1..e : b \in 1..Len(q2) BY <2>2, <1>2
    <3> QED BY <3>1, <3>2, <1>6
  <2> QED BY <2>1, <2>2, <1>3
<1>8. Stream(q2, c, ack) BY <1>4, <1>5 DEF Stream
<1>9. Read(q2, acc, prev, c, ack) BY <1>6, <1>7 DEF Read
<1> QED BY <1>8, <1>9 DEF Agree, q2

\* The head is taken.
LEMMA TailAgrees ==
  ASSUME NEW S, NEW q \in Seq(S), q # <<>>, NEW acc \in Seq(Nat), NEW prev, NEW c, NEW ack,
         Agree(q, acc, prev, c, ack)
  PROVE  Agree(Tail(q), acc, prev, c, ack)
<1> DEFINE t == Tail(q)
<1>1. /\ Len(q) \in Nat /\ Len(q) > 0 /\ Len(t) = Len(q) - 1
      /\ \A a \in 1..Len(t) : t[a] = q[a + 1] /\ a + 1 \in 1..Len(q)
  BY TailOf
<1> HIDE DEF t
<1>2. ASSUME NEW a \in 1..Len(t), NEW b \in 1..Len(t), NEW e \in 1..Len(t),
             a <= b, b <= e, t[a].id = t[e].id, t[a].id # 0
      PROVE  t[b].seqNo = t[a].seqNo
  <2>1. a + 1 <= b + 1 /\ b + 1 <= e + 1 BY <1>2, <1>1
  <2>2. t[a] = q[a + 1] /\ t[b] = q[b + 1] /\ t[e] = q[e + 1]
        /\ a + 1 \in 1..Len(q) /\ b + 1 \in 1..Len(q) /\ e + 1 \in 1..Len(q)
    BY <1>1
  <2> QED BY <2>1, <2>2, <1>2 DEF Agree, Stream
<1>3. ASSUME NEW a \in 1..Len(t), NEW b \in 1..Len(t), a <= b, t[a].id = c, c # 0
      PROVE  t[b].seqNo = ack
  <2>1. a + 1 <= b + 1 BY <1>3, <1>1
  <2>2. t[a] = q[a + 1] /\ t[b] = q[b + 1]
        /\ a + 1 \in 1..Len(q) /\ b + 1 \in 1..Len(q)
    BY <1>1
  <2> QED BY <2>1, <2>2, <1>3 DEF Agree, Stream
<1>4. ASSUME NEW j \in 1..Len(acc), NEW e \in 1..Len(t), t[e].id = acc[j], acc[j] # 0,
             NEW b \in 1..e
      PROVE  t[b].seqNo = prev
  <2>1. b \in 1..Len(t) /\ b + 1 \in 1..(e + 1) BY <1>1
  <2>2. t[e] = q[e + 1] /\ t[b] = q[b + 1] /\ e + 1 \in 1..Len(q)
    BY <2>1, <1>1
  <2>3. \A i \in 1..(e + 1) : q[i].seqNo = prev
    BY <2>2, <1>4 DEF Agree, Read
  <2> QED BY <2>1, <2>2, <2>3
<1>5. ASSUME NEW j \in 1..Len(acc), acc[j] = c, c # 0
      PROVE  prev = ack /\ \A b \in 1..Len(t) : t[b].seqNo = ack
  <2>1. prev = ack /\ \A b \in 1..Len(q) : q[b].seqNo = ack
    BY <1>5 DEF Agree, Read
  <2> QED BY <2>1, <1>1
<1>6. Stream(t, c, ack) BY <1>2, <1>3 DEF Stream
<1>7. Read(t, acc, prev, c, ack) BY <1>4, <1>5 DEF Read
<1> QED BY <1>6, <1>7 DEF Agree, t

\* The head is a packet of another number than prev, and is returned.
LEMMA AcceptAgrees ==
  ASSUME NEW c \in Nat, NEW q \in Seq(Made(c)), q # <<>>, NEW acc \in Seq(0..c), NEW prev,
         NEW ack, Agree(q, acc, prev, c, ack), OnceEach(acc), Head(q).seqNo # prev
  PROVE  /\ Agree(Tail(q), Append(acc, Head(q).id), Head(q).seqNo, c, ack)
         /\ OnceEach(Append(acc, Head(q).id))
<1> DEFINE t == Tail(q)
           d == Head(q)
           acc2 == Append(acc, d.id)
           m == Len(acc)
<1>1. /\ Len(q) \in Nat /\ Len(q) > 0 /\ Len(t) = Len(q) - 1
      /\ \A a \in 1..Len(t) : t[a] = q[a + 1] /\ a + 1 \in 1..Len(q)
      /\ d = q[1] /\ d \in Made(c)
  BY TailOf
<1>2. /\ m \in Nat /\ Len(acc2) = m + 1 /\ acc2[m + 1] = d.id
      /\ \A j \in 1..m : acc2[j] = acc[j]
  <2>1. d.id \in 0..c BY <1>1 DEF Made
  <2> QED BY <2>1, Appended
<1> HIDE DEF t, d, acc2, m
<1>3. \A j \in 1..Len(acc2) : j \in 1..m \/ j = m + 1
  BY <1>2
<1>4. d.seqNo # prev BY DEF d
<1>5. 1 \in 1..Len(q) BY <1>1
<1>6. ASSUME NEW j \in 1..m PROVE \A e \in 1..Len(q) : q[e].id = acc[j] => acc[j] = 0
  <2>1. ASSUME NEW e \in 1..Len(q), q[e].id = acc[j], acc[j] # 0 PROVE FALSE
    <3>1. \A b \in 1..e : q[b].seqNo = prev BY <2>1 DEF Agree, Read, m
    <3>2. 1 \in 1..e BY <1>1
    <3> QED BY <3>1, <3>2, <1>1, <1>4
  <2> QED BY <2>1
<1>7. ASSUME NEW j \in 1..m, acc[j] = c, c # 0 PROVE FALSE
  <2>1. prev = ack /\ \A b \in 1..Len(q) : q[b].seqNo = ack
    BY <1>7 DEF Agree, Read, m
  <2> QED BY <2>1, <1>5, <1>1, <1>4
<1>8. Stream(t, c, ack)
  <2>1. Agree(t, acc, prev, c, ack)
    <3>1. 0..c \subseteq Nat OBVIOUS
    <3>2. acc \in Seq(Nat) BY <3>1, SeqMonotonic
    <3> QED BY <3>2, TailAgrees DEF t
  <2> QED BY <2>1 DEF Agree
<1>9. ASSUME NEW j \in 1..Len(acc2), NEW e \in 1..Len(t), t[e].id = acc2[j], acc2[j] # 0,
             NEW b \in 1..e
      PROVE  t[b].seqNo = d.seqNo
  <2>1. t[e] = q[e + 1] /\ e + 1 \in 1..Len(q) BY <1>1
  <2>2. j = m + 1
    <3>1. ASSUME j \in 1..m PROVE FALSE
      <4>1. q[e + 1].id = acc[j] /\ acc[j] # 0 BY <3>1, <2>1, <1>2, <1>9
      <4> QED BY <4>1, <3>1, <2>1, <1>6
    <3> QED BY <3>1, <1>3
  <2>3. q[1].id = q[e + 1].id /\ q[1].id # 0 BY <2>1, <2>2, <1>1, <1>2, <1>9
  <2>4. b \in 1..Len(t) /\ b + 1 \in 1..Len(q) /\ 1 <= b + 1 /\ b + 1 <= e + 1
    BY <1>1
  <2>5. t[b] = q[b + 1] BY <2>4, <1>1
  <2>6. q[b + 1].seqNo = q[1].seqNo
    BY <2>1, <2>3, <2>4, <1>5 DEF Agree, Stream
  <2> QED BY <2>5, <2>6, <1>1
<1>10. ASSUME NEW j \in 1..Len(acc2), acc2[j] = c, c # 0
       PROVE  d.seqNo = ack /\ \A b \in 1..Len(t) : t[b].seqNo = ack
  <2>1. j = m + 1
    <3>1. ASSUME j \in 1..m PROVE FALSE
      <4>1. acc[j] = c BY <3>1, <1>2, <1>10
      <4> QED BY <4>1, <3>1, <1>7, <1>10
    <3> QED BY <3>1, <1>3
  <2>2. q[1].id = c BY <2>1, <1>1, <1>2, <1>10
  <2>3. ASSUME NEW b \in 1..Len(q) PROVE q[b].seqNo = ack
    <3>1. 1 <= b OBVIOUS
    <3> QED BY <3>1, <2>2, <1>5, <1>10 DEF Agree, Stream
  <2> QED BY <2>3, <1>1, <1>5
<1>11. Read(t, acc2, d.seqNo, c, ack)
  BY <1>9, <1>10 DEF Read
<1>12. ASSUME NEW j \in 1..Len(acc2), NEW k \in 1..Len(acc2), j # k, acc2[j] = acc2[k]
       PROVE  acc2[j] = 0
  <2>1. CASE j \in 1..m /\ k \in 1..m
    BY <2>1, <1>2, <1>12 DEF OnceEach, m
  <2>2. CASE j \in 1..m /\ k = m + 1
    <3>1. q[1].id = acc[j] BY <2>2, <1>1, <1>2, <1>12
    <3> QED BY <3>1, <2>2, <1>2, <1>5, <1>6
  <2>3. CASE j = m + 1 /\ k \in 1..m
    <3>1. q[1].id = acc[k] BY <2>3, <1>1, <1>2, <1>12
    <3> QED BY <3>1, <2>3, <1>2, <1>5, <1>6, <1>12
  <2> QED BY <2>1, <2>2, <2>3, <1>3, <1>12
<1>13. OnceEach(acc2) BY <1>12 DEF OnceEach
<1> QED BY <1>8, <1>11, <1>13 DEF Agree, t, d, acc2

-------------------------------------------------------------------------------
\* The scripts are sequences of calls.
LEMMA FunctionIsSeq ==
  ASSUME NEW n \in Nat, NEW S, NEW f \in [1..n -> S]
  PROVE  f \in Seq(S)
OBVIOUS

LEMMA SingleCalls ==
  /\ \A k \in Kind, n \in Nat : SendCall(k, n) \in Call
  /\ \A u \in Use : RecvCall(u) \in Call
  /\ Command \subseteq Kind
BY DEF SendCall, RecvCall, Call, Kind

LEMMA KindsAndUses ==
  /\ Command = {"LIST", "GET", "PUT", "DEL"}
  /\ {"LIST", "GET", "PUT", "DEL", "name", "info", "chunk", "entry", "@", "#", "nofile"} \subseteq Kind
  /\ {"command", "getname", "delname", "putinfo", "info", "echo", "entry", "chunk", "verdict"} = Use
BY DEF Kind, Use, Command

LEMMA FileCallsTyped ==
  /\ \A n \in Nat : RecvFile(n) \in Seq(Call)
  /\ SendFile \in Seq(Call)
  /\ listFiles \in Seq(Call)
<1>1. ASSUME NEW n \in Nat PROVE RecvFile(n) \in Seq(Call)
  <2>1. RecvFile(n) \in [1..n -> Call] BY SingleCalls, KindsAndUses DEF RecvFile
  <2> QED BY <2>1, FunctionIsSeq
<1>2. ASSUME NEW n \in Nat, NEW k \in Kind
      PROVE  [i \in 1..n |-> SendCall(k, i)] \in Seq(Call)
  <2>1. \A i \in 1..n : i \in Nat OBVIOUS
  <2>2. [i \in 1..n |-> SendCall(k, i)] \in [1..n -> Call] BY <2>1, SingleCalls
  <2> QED BY <2>2, FunctionIsSeq
<1>3. SendFile \in Seq(Call)
  <2> DEFINE n == IF file.extra THEN Size + 1 ELSE Size
  <2>1. n \in Nat /\ Size \in Nat BY StopWaitAssumption
  <2>2. [i \in 1..n |-> SendCall("chunk", i)] \in Seq(Call) BY <2>1, <1>2, KindsAndUses
  <2>3. SendCall("info", Size) \in Call BY <2>1, SingleCalls, KindsAndUses
  <2>4. <<SendCall("info", Size)>> \in Seq(Call) BY <2>3
  <2> QED BY <2>2, <2>4, ConcatProperties DEF SendFile
<1>4. listFiles \in Seq(Call)
  <2>1. Entries \in Nat BY StopWaitAssumption
  <2>2. [i \in 1..Entries |-> SendCall("entry", i)] \in Seq(Call) BY <2>1, <1>2, KindsAndUses
  <2>3. SendCall("@", 0) \in Call BY SingleCalls, KindsAndUses
  <2>4. <<SendCall("@", 0)>> \in Seq(Call) BY <2>3
  <2> QED BY <2>2, <2>4, ConcatProperties DEF listFiles
<1> QED BY <1>1, <1>3, <1>4

LEMMA ClientCallsTyped ==
  ASSUME NEW c \in Command
  PROVE  ClientCalls(c) \in Seq(Call)
<1>1. /\ \A k \in Command : SendCall(k, 0) \in Call
      /\ SendCall("name", 0) \in Call
      /\ RecvCall("echo") \in Call /\ RecvCall("entry") \in Call
      /\ RecvCall("info") \in Call /\ RecvCall("verdict") \in Call
  BY SingleCalls, KindsAndUses
<1>2. "LIST" \in Command /\ "PUT" \in Command /\ "GET" \in Command /\ "DEL" \in Command
  BY KindsAndUses
<1>3. listServerFiles \in Seq(Call) BY <1>1, <1>2 DEF listServerFiles
<1>4. PutFileToServer \in Seq(Call)
  <2>1. <<SendCall("PUT", 0), RecvCall("echo")>> \in Seq(Call) BY <1>1, <1>2
  <2>2. <<>> \in Seq(Call) OBVIOUS
  <2> QED BY <2>1, <2>2, FileCallsTyped, ConcatProperties DEF PutFileToServer
<1>5. GetFileFromServer \in Seq(Call) BY <1>1, <1>2 DEF GetFileFromServer
<1>6. DeleteServerFiles \in Seq(Call) BY <1>1, <1>2 DEF DeleteServerFiles
<1> QED BY <1>3, <1>4, <1>5, <1>6 DEF ClientCalls, Command

LEMMA ServeTyped ==
  ASSUME NEW kind
  PROVE  Serve(kind) \in Seq(Call)
<1>1. /\ SendCall("PUT", 0) \in Call /\ SendCall("GET", 0) \in Call /\ SendCall("DEL", 0) \in Call
      /\ RecvCall("command") \in Call /\ RecvCall("putinfo") \in Call
      /\ RecvCall("getname") \in Call /\ RecvCall("delname") \in Call
  BY SingleCalls, KindsAndUses
<1>2. <<RecvCall("command")>> \in Seq(Call) BY <1>1
<1>3. listFiles \o <<RecvCall("command")>> \in Seq(Call)
  BY <1>2, FileCallsTyped, ConcatProperties
<1>4. /\ <<SendCall("PUT", 0), RecvCall("putinfo")>> \in Seq(Call)
      /\ <<SendCall("GET", 0), RecvCall("getname")>> \in Seq(Call)
      /\ <<SendCall("DEL", 0), RecvCall("delname")>> \in Seq(Call)
  BY <1>1
<1> QED BY <1>2, <1>3, <1>4 DEF Serve

\* Whatever comes, what is left of a script is a script.
LEMMA NextCallsTyped ==
  ASSUME NEW p, NEW m \in Datagram, script[p] \in Seq(Call), script[p] # <<>>,
         Head(script[p]).op = "recv", NEW s \in NextCalls(p, m)
  PROVE  s \in Seq(Call)
<1> DEFINE use == Head(script[p]).kind
           rest == Tail(script[p])
<1>1. rest \in Seq(Call) OBVIOUS
<1>2. m.n \in Nat BY DEF Datagram
<1>3. Serve(m.kind) \in Seq(Call) BY ServeTyped
<1>4. PutFileToClient(m) \in Seq(Call)
  <2>1. SendCall("nofile", 0) \in Call BY SingleCalls, KindsAndUses
  <2> QED BY <2>1, FileCallsTyped DEF PutFileToClient
<1>5. delFiles(m) \in Seq(Call)
  <2>1. SendCall("@", 0) \in Call /\ SendCall("#", 0) \in Call BY SingleCalls, KindsAndUses
  <2>2. <<SendCall("@", 0)>> \in Seq(Call) /\ <<SendCall("#", 0)>> \in Seq(Call)
        /\ <<>> \in Seq(Call)
    BY <2>1
  <2> QED BY <2>2 DEF delFiles
<1>6. GetFileFromClient(m) \subseteq Seq(Call)
  <2>1. {m.n} \subseteq Nat /\ 0..Size \subseteq Nat /\ {0} \subseteq Nat BY <1>2
  <2>2. (CASE m.kind = "info" -> {m.n} [] m.kind = "chunk" -> 0..Size [] OTHER -> {0})
          \subseteq Nat
    BY <2>1
  <2> QED BY <2>2, FileCallsTyped DEF GetFileFromClient
<1>7. RecvFile(m.n) \in Seq(Call) BY <1>2, FileCallsTyped
<1> HIDE DEF rest
<1>8. NextCalls(p, m) \subseteq Seq(Call)
  <2>1. CASE use = "command" BY <2>1, <1>3 DEF NextCalls
  <2>2. CASE use = "getname" BY <2>2, <1>4 DEF NextCalls
  <2>3. CASE use = "delname" BY <2>3, <1>5 DEF NextCalls
  <2>4. CASE use = "putinfo" BY <2>4, <1>6 DEF NextCalls
  <2>5. CASE use = "info" BY <2>5, <1>1, <1>7 DEF NextCalls, rest
  <2>6. CASE use = "entry" BY <2>6, <1>1 DEF NextCalls, rest
  <2>7. CASE use \notin {"command", "getname", "delname", "putinfo", "info", "entry"}
    BY <2>7, <1>1 DEF NextCalls, rest
  <2> QED BY <2>1, <2>2, <2>3, <2>4, <2>5, <2>6, <2>7
<1> QED BY <1>8

-------------------------------------------------------------------------------
\* The links and what travels on them, step by step.
LEMMA LinksTypedNext ==
  ASSUME LinksMade'
  PROVE  /\ toServer' \in Seq(Datagram) /\ toServerHeld' \in Datagram \cup {NoPacket}
         /\ toClient' \in Seq(Datagram) /\ toClientHeld' \in Datagram \cup {NoPacket}
<1>1. \A c : Made(c) \subseteq Datagram BY DEF Made
<1>2. ASSUME NEW p \in Peer
      PROVE  Incoming(p)' \in Seq(Datagram) /\ Held(p)' \in Datagram \cup {NoPacket}
  <2>1. \E S : S \subseteq Datagram /\ Incoming(p)' \in Seq(S) /\ Held(p)' \in S \cup {NoPacket}
    BY <1>1 DEF LinksMade, Made
  <2> QED BY <2>1, SeqMonotonic
<1>3. /\ Incoming("server")' = toServer' /\ Held("server")' = toServerHeld'
      /\ Incoming("client")' = toClient' /\ Held("client")' = toClientHeld'
  BY DEF Incoming, Held
<1>4. "client" \in Peer /\ "server" \in Peer BY DEF Peer
<1> QED BY <1>2, <1>3, <1>4

\* A step of the side p may take from its own link and send on the other.
LEMMA LinksMadeKept ==
  ASSUME NEW p \in Peer, LinksMade, calls \in [Peer -> Nat], calls' \in [Peer -> Nat],
         calls'[Other(p)] = calls[Other(p)], calls[p] <= calls'[p],
         KeepIncoming(p) \/ Consume(p),
         KeepOutgoing(p) \/ \E d \in Made(calls'[p]) : Transmit(p, d)
  PROVE  LinksMade'
<1> DEFINE o == Other(p)
<1>1. o \in Peer /\ Other(o) = p /\ \A r \in Peer : r = p \/ r = o
  BY Others
<1>2. /\ Incoming(p)' \in Seq(Made(calls'[o]))
      /\ Held(p)' \in Made(calls'[o]) \cup {NoPacket}
  <2>1. /\ Incoming(p) \in Seq(Made(calls[o]))
        /\ Held(p) \in Made(calls[o]) \cup {NoPacket}
    BY DEF LinksMade
  <2>2. CASE KeepIncoming(p) BY <2>1, <2>2, IncomingKept
  <2>3. CASE Consume(p)
    <3>1. Incoming(p) # <<>> /\ Incoming(p)' = Tail(Incoming(p)) /\ Held(p)' = Held(p)
      BY <2>3, ConsumeTakes
    <3> QED BY <2>1, <3>1, TailOf
  <2> QED BY <2>2, <2>3
<1>3. /\ Incoming(o)' \in Seq(Made(calls'[p]))
      /\ Held(o)' \in Made(calls'[p]) \cup {NoPacket}
  <2>1. /\ Incoming(o) \in Seq(Made(calls[p]))
        /\ Held(o) \in Made(calls[p]) \cup {NoPacket}
    BY <1>1 DEF LinksMade
  <2>2. Made(calls[p]) \subseteq Made(calls'[p])
    <3>1. calls[p] \in Nat /\ calls'[p] \in Nat OBVIOUS
    <3> QED BY <3>1 DEF Made
  <2>3. /\ Incoming(o) \in Seq(Made(calls'[p]))
        /\ Held(o) \in Made(calls'[p]) \cup {NoPacket}
    BY <2>1, <2>2, SeqMonotonic
  <2>4. CASE KeepOutgoing(p) BY <2>3, <2>4, <1>1, IncomingKept DEF KeepOutgoing
  <2>5. CASE \E d \in Made(calls'[p]) : Transmit(p, d)
    <3>1. PICK d \in Made(calls'[p]) : Transmit(p, d) BY <2>5
    <3>2. Entered(Incoming(o), Held(o), d, Incoming(o)', Held(o)')
      BY <3>1, TransmitEnters
    <3> QED BY <2>3, <3>1, <3>2, EnteredTyped
  <2> QED BY <2>4, <2>5
<1>4. LinksMade' <=> \A r \in Peer : /\ Incoming(r)' \in Seq(Made(calls'[Other(r)]))
                                     /\ Held(r)' \in Made(calls'[Other(r)]) \cup {NoPacket}
  BY DEF LinksMade, Made
<1> QED BY <1>1, <1>2, <1>3, <1>4

\* What the proofs of the steps read off the invariant about the peer p.
LEMMA PeerFacts ==
  ASSUME TypeOK, LinksMade, NEW p \in Peer
  PROVE  /\ Other(p) \in Peer /\ calls[p] \in Nat /\ calls[Other(p)] \in Nat
         /\ Incoming(p) \in Seq(Made(calls[Other(p)]))
         /\ accepted[p] \in Seq(0..calls[Other(p)])
<1>1. Other(p) \in Peer BY Others
<1> QED BY <1>1 DEF TypeOK, LinksMade

\* p reads its socket or not, and remembers what it did.
LEMMA OwnStream ==
  ASSUME TypeOK, LinksMade, NEW p \in Peer, Undelayed(p), KeepIncoming(p) \/ Consume(p),
         accepted'[p] = accepted[p], prev_Recv_Seq'[p] = prev_Recv_Seq[p],
         calls'[Other(p)] = calls[Other(p)], ackSeq'[Other(p)] = ackSeq[Other(p)]
  PROVE  Undelayed(p)'
<1> DEFINE o == Other(p)
           Ag(q) == Agree(q, accepted[p], prev_Recv_Seq[p], calls[o], ackSeq[o])
<1>1. Held(p) = NoPacket /\ Ag(Incoming(p)) /\ OnceEach(accepted[p]) BY DEF Undelayed
<1>2. Held(p)' = NoPacket /\ Ag(Incoming(p)')
  <2>1. CASE KeepIncoming(p) BY <1>1, <2>1, IncomingKept
  <2>2. CASE Consume(p)
    <3>1. Incoming(p) # <<>> /\ Incoming(p)' = Tail(Incoming(p)) /\ Held(p)' = Held(p)
      BY <2>2, ConsumeTakes
    <3>2. Incoming(p) \in Seq(Made(calls[o])) /\ accepted[p] \in Seq(Nat)
      <4>1. accepted[p] \in Seq(0..calls[o]) /\ calls[o] \in Nat BY PeerFacts
      <4>2. 0..calls[o] \subseteq Nat OBVIOUS
      <4> QED BY <4>1, <4>2, PeerFacts, SeqMonotonic
    <3>3. Ag(Tail(Incoming(p))) BY <1>1, <3>1, <3>2, TailAgrees
    <3> QED BY <1>1, <3>1, <3>3
  <2> QED BY <2>1, <2>2
<1>3. Undelayed(p)' <=> /\ Held(p)' = NoPacket
                        /\ Agree(Incoming(p)', accepted'[p], prev_Recv_Seq'[p], calls'[o], ackSeq'[o])
                        /\ OnceEach(accepted'[p])
  BY DEF Undelayed, Agree, Stream, Read, OnceEach
<1> QED BY <1>1, <1>2, <1>3

\* p sends a copy of its last packet, or an ACK, or nothing.
LEMMA PeersStream ==
  ASSUME TypeOK, LinksMade, "delay" \notin network, NEW p \in Peer, NEW o \in Peer,
         o = Other(p), Undelayed(o),
         accepted'[o] = accepted[o], prev_Recv_Seq'[o] = prev_Recv_Seq[o],
         calls'[p] = calls[p], ackSeq'[p] = ackSeq[p],
         \/ KeepOutgoing(p)
         \/ \E d \in Made(calls[p]) :
              d.id \in {0, calls[p]} /\ d.seqNo = ackSeq[p] /\ Transmit(p, d)
  PROVE  Undelayed(o)'
<1> DEFINE Ag(q) == Agree(q, accepted[o], prev_Recv_Seq[o], calls[p], ackSeq[p])
<1>1. Other(o) = p BY Others
<1>2. Held(o) = NoPacket /\ Ag(Incoming(o)) /\ OnceEach(accepted[o]) BY <1>1 DEF Undelayed
<1>3. Held(o)' = NoPacket /\ Ag(Incoming(o)')
  <2>1. CASE KeepOutgoing(p) BY <1>2, <2>1, IncomingKept DEF KeepOutgoing
  <2>2. ASSUME NEW d \in Made(calls[p]), d.id \in {0, calls[p]}, d.seqNo = ackSeq[p],
               Transmit(p, d)
        PROVE  Held(o)' = NoPacket /\ Ag(Incoming(o)')
    <3>1. Entered(Incoming(o), Held(o), d, Incoming(o)', Held(o)')
      BY <2>2, TransmitEnters
    <3>2. Incoming(o)' \in {Incoming(o), Append(Incoming(o), d)} /\ Held(o)' = NoPacket
      BY <3>1, <1>2, EnteredUndelayed
    <3>3. /\ calls[p] \in Nat /\ Incoming(o) \in Seq(Made(calls[p]))
          /\ accepted[o] \in Seq(0..calls[p])
      BY <1>1, PeerFacts
    <3>4. Ag(Append(Incoming(o), d)) BY <1>2, <2>2, <3>3, CopyAgrees
    <3> QED BY <1>2, <3>2, <3>4
  <2> QED BY <2>1, <2>2
<1>4. Undelayed(o)' <=> /\ Held(o)' = NoPacket
                        /\ Agree(Incoming(o)', accepted'[o], prev_Recv_Seq'[o], calls'[p], ackSeq'[p])
                        /\ OnceEach(accepted'[o])
  BY <1>1 DEF Undelayed, Agree, Stream, Read, OnceEach
<1> QED BY <1>2, <1>3, <1>4

-------------------------------------------------------------------------------
\* The invariant holds first, and every step keeps it.
LEMMA BothPeers ==
  ASSUME NEW S, NEW a \in S, NEW b \in S
  PROVE  [client |-> a, server |-> b] \in [Peer -> S]
BY DEF Peer

LEMMA InitIInv == Init => IInv
<1> SUFFICES ASSUME Init PROVE IInv
  OBVIOUS
<1>1. \A p \in Peer : Incoming(p) = <<>> /\ Held(p) = NoPacket
  BY DEF Init, Up!LinkInit, Down!LinkInit, Incoming, Held
<1>2. /\ plan \in Plans /\ network \in Networks
      /\ file \in [exists : BOOLEAN, extra : BOOLEAN, deletable : BOOLEAN]
      /\ script = [client |-> <<>>, server |-> <<RecvCall("command")>>]
      /\ waiting = [p \in Peer |-> FALSE]
      /\ Send_Seq = [p \in Peer |-> 0]
      /\ prev_Recv_Seq \in [client : {NoSeq}, server : Uninit]
      /\ ackSeq \in [Peer -> Uninit]
      /\ deleted = FALSE /\ told = "nothing" /\ got = <<>>
      /\ calls = [p \in Peer |-> 0]
      /\ accepted = [p \in Peer |-> <<>>]
      /\ newDropped = FALSE
  BY DEF Init
<1>3. \A p \in Peer : ~waiting[p] /\ calls[p] = 0 /\ accepted[p] = <<>> /\ Other(p) \in Peer
  BY <1>2, Others
<1>4. TypeOK
  <2>1. plan \in Seq(Command) BY <1>2, StopWaitAssumption
  <2>2. script \in [Peer -> Seq(Call)]
    <3>1. RecvCall("command") \in Call BY SingleCalls, KindsAndUses
    <3>2. <<RecvCall("command")>> \in Seq(Call) /\ <<>> \in Seq(Call) BY <3>1
    <3> QED BY <1>2, <3>2, BothPeers
  <2>3. \A p \in Peer : waiting[p] => InCall(p, "send") BY <1>3
  <2>4. Send_Seq \in [Peer -> 0..1] BY <1>2
  <2>5. prev_Recv_Seq \in [Peer -> 0..NoSeq]
    <3>1. Uninit \subseteq 0..NoSeq /\ NoSeq \in 0..NoSeq BY StopWaitAssumption DEF NoSeq
    <3> QED BY <1>2, <3>1 DEF Peer
  <2>6. ackSeq \in [Peer -> 0..NoSeq]
    <3>1. Uninit \subseteq 0..NoSeq BY StopWaitAssumption
    <3> QED BY <1>2, <3>1
  <2>7. /\ deleted \in BOOLEAN /\ told \in {"nothing", "missing", "deleted"}
        /\ got \in Seq([kind : Kind, n : Nat]) /\ newDropped \in BOOLEAN
    BY <1>2, EmptySeq
  <2>8. /\ toServer \in Seq(Datagram) /\ toServerHeld \in Datagram \cup {NoPacket}
        /\ toClient \in Seq(Datagram) /\ toClientHeld \in Datagram \cup {NoPacket}
    BY DEF Init, Up!LinkInit, Down!LinkInit
  <2>9. calls \in [Peer -> Nat] BY <1>2
  <2>10. \A p \in Peer : accepted[p] \in Seq(0..calls[Other(p)]) BY <1>3, EmptySeq
  <2> QED BY <1>2, <2>1, <2>2, <2>3, <2>4, <2>5, <2>6, <2>7, <2>8, <2>9, <2>10 DEF TypeOK
<1>5. Shapes
  <2>1. waiting \in [Peer -> BOOLEAN] /\ DOMAIN accepted = Peer BY <1>2
  <2> QED BY <2>1 DEF Shapes
<1>6. LinksMade BY <1>1, EmptySeq DEF LinksMade
<1>7. WaitsWithItsNumber BY <1>3 DEF WaitsWithItsNumber
<1>8. ASSUME NEW p \in Peer PROVE Undelayed(p)
  <2>1. Len(accepted[p]) = 0 /\ Len(Incoming(p)) = 0 BY <1>1, <1>3
  <2>2. 1..0 = {} OBVIOUS
  <2> QED BY <1>1, <2>1, <2>2 DEF Undelayed, Agree, Stream, Read, OnceEach
<1> QED BY <1>4, <1>5, <1>6, <1>7, <1>8 DEF IInv

LEMMA ExceptTyped ==
  ASSUME NEW S, NEW f \in [Peer -> S], NEW p, NEW x \in S
  PROVE  [f EXCEPT ![p] = x] \in [Peer -> S]
OBVIOUS

\* The menu does not touch what is on its way; the client waits for nothing there.
LEMMA ChooseIInv ==
  ASSUME IInv, Choose
  PROVE  IInv'
<1> USE DEF IInv
<1>1. /\ script["client"] = <<>> /\ plan # <<>>
      /\ plan' = Tail(plan)
      /\ script' = [script EXCEPT !["client"] = ClientCalls(Head(plan))]
      /\ Send_Seq' = IF Head(plan) = "PUT" THEN [Send_Seq EXCEPT !["client"] = 0] ELSE Send_Seq
      /\ UNCHANGED <<file, network, waiting, prev_Recv_Seq, ackSeq, deleted, told, got,
                     toServer, toServerHeld, toClient, toClientHeld, calls, accepted, newDropped>>
  BY DEF Choose, files, links
<1>2. ~waiting["client"]
  <2>1. "client" \in Peer BY DEF Peer
  <2>2. waiting["client"] => script["client"] # <<>> BY <2>1 DEF TypeOK, InCall
  <2> QED BY <1>1, <2>2
<1>3. TypeOK'
  <2>1. plan' \in Seq(Command) /\ Head(plan) \in Command BY <1>1 DEF TypeOK
  <2>2. ClientCalls(Head(plan)) \in Seq(Call) BY <2>1, ClientCallsTyped
  <2>3. script' \in [Peer -> Seq(Call)] BY <1>1, <2>2 DEF TypeOK
  <2>4. Send_Seq' \in [Peer -> 0..1]
    <3>1. Send_Seq \in [Peer -> 0..1] BY DEF TypeOK
    <3>2. 0 \in 0..1 OBVIOUS
    <3>3. [Send_Seq EXCEPT !["client"] = 0] \in [Peer -> 0..1] BY <3>1, <3>2, ExceptTyped
    <3> QED BY <1>1, <3>1, <3>3
  <2>5. \A p \in Peer : waiting[p]' => InCall(p, "send")'
    BY <1>1, <1>2 DEF TypeOK, InCall, Peer
  <2> QED BY <1>1, <2>1, <2>3, <2>4, <2>5 DEF TypeOK
<1>4. Shapes' BY <1>1 DEF Shapes
<1>5. LinksMade' BY <1>1 DEF LinksMade, Incoming, Held, Other
<1>6. WaitsWithItsNumber' BY <1>1, <1>2 DEF WaitsWithItsNumber, TypeOK
<1>7. "delay" \notin network' => \A p \in Peer : Undelayed(p)'
  BY <1>1 DEF Undelayed, Incoming, Held, Other
<1> QED BY <1>3, <1>4, <1>5, <1>6, <1>7

\* What udpsend hands to the router is a packet of the call it is in.
LEMMA PacketMade ==
  ASSUME TypeOK, NEW p \in Peer, InCall(p, "send"), calls'[p] \in Nat
  PROVE  /\ Packet(p) \in Made(calls'[p])
         /\ Packet(p).id = calls'[p] /\ Packet(p).seqNo = Send_Seq[p]
<1>1. script[p] \in Seq(Call) /\ script[p] # <<>> /\ Head(script[p]).op = "send"
  BY DEF TypeOK, InCall
<1>2. Head(script[p]) \in Call BY <1>1
<1>3. Head(script[p]).kind \in Kind /\ Head(script[p]).n \in Nat
  BY <1>1, <1>2 DEF Call
<1>4. Send_Seq[p] \in 0..NoSeq BY DEF TypeOK, NoSeq
<1>5. Packet(p) \in Datagram BY <1>3, <1>4 DEF Packet, Datagram
<1>6. Packet(p).id = calls'[p] /\ Packet(p).seqNo = Send_Seq[p] BY DEF Packet
<1>7. calls'[p] \in 0..calls'[p] OBVIOUS
<1> QED BY <1>5, <1>6, <1>7 DEF Made

\* An ACK is a packet without an id that carries the number sent last.
LEMMA SendAckSends ==
  ASSUME TypeOK, NEW p \in Peer, SendAck(p)
  PROVE  \E d \in Made(calls[p]) : d.id = 0 /\ d.seqNo = ackSeq[p] /\ Transmit(p, d)
<1> DEFINE d == [seqNo |-> ackSeq[p], kind |-> "ack", n |-> 0, id |-> 0]
<1>1. ackSeq[p] \in 0..NoSeq /\ calls[p] \in Nat BY DEF TypeOK
<1>2. "ack" \in Kind BY DEF Kind
<1>3. d \in Datagram BY <1>1, <1>2 DEF Datagram
<1>4. d.id = 0 /\ d.seqNo = ackSeq[p] OBVIOUS
<1>5. 0 \in 0..calls[p] BY <1>1
<1>6. d \in Made(calls[p]) BY <1>3, <1>4, <1>5 DEF Made
<1>7. Transmit(p, d) BY DEF SendAck
<1> QED BY <1>4, <1>6, <1>7

\* A new packet goes out under a number of its own.
LEMMA udpsendIInv ==
  ASSUME IInv, NEW p \in Peer, udpsend(p)
  PROVE  IInv'
<1> DEFINE o == Other(p)
           d == Packet(p)
<1>1. /\ InCall(p, "send") /\ ~waiting[p]
      /\ waiting' = [waiting EXCEPT ![p] = TRUE]
      /\ ackSeq' = [ackSeq EXCEPT ![p] = Send_Seq[p]]
      /\ calls' = [calls EXCEPT ![p] = calls[p] + 1]
      /\ Transmit(p, d) /\ KeepIncoming(p)
      /\ UNCHANGED <<plan, file, network, script, Send_Seq, prev_Recv_Seq, deleted, told, got,
                     accepted, newDropped>>
  BY DEF udpsend, files
<1>2. TypeOK /\ Shapes /\ LinksMade /\ WaitsWithItsNumber BY DEF IInv
<1>3. /\ o \in Peer /\ o # p /\ Other(o) = p /\ \A r \in Peer : r = p \/ r = o
  BY Others
<1>4. /\ calls \in [Peer -> Nat] /\ calls[p] \in Nat /\ calls[o] \in Nat
      /\ Send_Seq \in [Peer -> 0..1] /\ ackSeq \in [Peer -> 0..NoSeq]
      /\ waiting \in [Peer -> BOOLEAN]
  BY <1>2, <1>3 DEF TypeOK, Shapes
<1>5. /\ calls'[p] = calls[p] + 1 /\ calls'[o] = calls[o]
      /\ ackSeq'[p] = Send_Seq[p] /\ ackSeq'[o] = ackSeq[o]
      /\ waiting'[p] = TRUE /\ waiting'[o] = waiting[o]
  BY <1>1, <1>3, <1>4
<1>6. /\ calls' \in [Peer -> Nat] /\ calls'[p] \in Nat
      /\ ackSeq' \in [Peer -> 0..NoSeq] /\ waiting' \in [Peer -> BOOLEAN]
  <2>1. calls[p] + 1 \in Nat BY <1>4
  <2>2. Send_Seq[p] \in 0..NoSeq BY <1>4 DEF NoSeq
  <2> QED BY <1>1, <1>4, <1>5, <2>1, <2>2, ExceptTyped
<1>7. d \in Made(calls'[p]) /\ d.id = calls[p] + 1 /\ d.seqNo = Send_Seq[p]
  BY <1>1, <1>2, <1>5, <1>6, PacketMade
<1>8. LinksMade'
  <2>1. calls[p] <= calls'[p] BY <1>4, <1>5
  <2> QED BY <1>1, <1>2, <1>4, <1>5, <1>6, <1>7, <2>1, LinksMadeKept
<1>9. TypeOK'
  <2>1. \A r \in Peer : waiting[r]' => InCall(r, "send")'
    BY <1>1, <1>2, <1>3, <1>5 DEF TypeOK, InCall
  <2>2. ASSUME NEW r \in Peer PROVE accepted[r]' \in Seq(0..calls[Other(r)]')
    <3>1. accepted[r] \in Seq(0..calls[Other(r)]) BY <1>2 DEF TypeOK
    <3>2. calls[Other(r)] <= calls'[Other(r)] /\ calls[Other(r)] \in Nat
          /\ calls'[Other(r)] \in Nat
      BY <1>3, <1>4, <1>5, <1>6
    <3>3. 0..calls[Other(r)] \subseteq 0..calls'[Other(r)] BY <3>2
    <3> QED BY <1>1, <3>1, <3>3, SeqMonotonic
  <2> QED BY <1>1, <1>2, <1>6, <1>8, <2>1, <2>2, LinksTypedNext DEF TypeOK, Other
<1>10. Shapes' BY <1>1, <1>2, <1>6 DEF Shapes
<1>11. WaitsWithItsNumber'
  BY <1>1, <1>2, <1>3, <1>5 DEF WaitsWithItsNumber
<1>12. ASSUME "delay" \notin network'
       PROVE  Undelayed(p)' /\ Undelayed(o)'
  <2>1. "delay" \notin network /\ Undelayed(p) /\ Undelayed(o)
    BY <1>1, <1>3, <1>12 DEF IInv
  <2>2. Undelayed(p)' BY <1>1, <1>2, <1>5, <2>1, OwnStream
  <2>3. Entered(Incoming(o), Held(o), d, Incoming(o)', Held(o)')
    BY <1>1, TransmitEnters
  <2>4. Incoming(o)' \in {Incoming(o), Append(Incoming(o), d)} /\ Held(o)' = NoPacket
    BY <2>1, <2>3, EnteredUndelayed DEF Undelayed
  <2>5. /\ Agree(Incoming(o), accepted[o], prev_Recv_Seq[o], calls[p], ackSeq[p])
        /\ OnceEach(accepted[o])
    BY <1>3, <2>1 DEF Undelayed
  <2>6. Incoming(o) \in Seq(Made(calls[p])) /\ accepted[o] \in Seq(0..calls[p])
    BY <1>2, <1>3, PeerFacts
  <2>7. d \in Made(calls[p] + 1) BY <1>5, <1>7
  <2> HIDE DEF d, o
  <2>8. /\ Agree(Incoming(o), accepted[o], prev_Recv_Seq[o], calls[p] + 1, d.seqNo)
        /\ Agree(Append(Incoming(o), d), accepted[o], prev_Recv_Seq[o], calls[p] + 1, d.seqNo)
    BY <1>4, <1>7, <2>5, <2>6, <2>7, NewPacketAgrees
  <2>9. Agree(Incoming(o)', accepted'[o], prev_Recv_Seq'[o], calls'[p], ackSeq'[p])
    BY <1>1, <1>5, <1>7, <2>4, <2>8
  <2>10. OnceEach(accepted[o])' BY <1>1, <2>5 DEF OnceEach
  <2>11. Undelayed(o)'
    BY <1>3, <2>4, <2>9, <2>10 DEF Undelayed, Agree, Stream, Read, OnceEach
  <2> QED BY <2>2, <2>11
<1> QED BY <1>3, <1>8, <1>9, <1>10, <1>11, <1>12 DEF IInv

\* A timeout sends a copy of the packet of the call p waits in.
LEMMA ResendIInv ==
  ASSUME IInv, NEW p \in Peer, Resend(p)
  PROVE  IInv'
<1> DEFINE o == Other(p)
           d == Packet(p)
<1>1. /\ waiting[p] /\ Transmit(p, d) /\ KeepIncoming(p)
      /\ UNCHANGED <<plan, file, network, script, waiting, Send_Seq, prev_Recv_Seq, ackSeq,
                     deleted, told, got, calls, accepted, newDropped>>
  BY DEF Resend, files, seqs
<1>2. TypeOK /\ Shapes /\ LinksMade /\ WaitsWithItsNumber BY DEF IInv
<1>3. /\ o \in Peer /\ o # p /\ Other(o) = p /\ \A r \in Peer : r = p \/ r = o
  BY Others
<1>4. calls \in [Peer -> Nat] /\ calls[p] \in Nat BY <1>2 DEF TypeOK
<1>5. InCall(p, "send") /\ ackSeq[p] = Send_Seq[p]
  BY <1>1, <1>2 DEF TypeOK, WaitsWithItsNumber
<1>6. d \in Made(calls[p]) /\ d.id = calls[p] /\ d.seqNo = ackSeq[p]
  BY <1>1, <1>2, <1>4, <1>5, PacketMade
<1>7. LinksMade'
  <2>1. calls[p] <= calls'[p] BY <1>1, <1>4
  <2> QED BY <1>1, <1>2, <1>4, <1>6, <2>1, LinksMadeKept
<1>8. TypeOK'
  BY <1>1, <1>2, <1>7, LinksTypedNext DEF TypeOK, InCall
<1>9. Shapes' /\ WaitsWithItsNumber'
  BY <1>1, <1>2 DEF Shapes, WaitsWithItsNumber
<1>10. ASSUME "delay" \notin network'
       PROVE  Undelayed(p)' /\ Undelayed(o)'
  <2>1. "delay" \notin network /\ Undelayed(p) /\ Undelayed(o)
    BY <1>1, <1>3, <1>10 DEF IInv
  <2>2. Undelayed(p)' BY <1>1, <1>2, <2>1, OwnStream
  <2>3. d.id \in {0, calls[p]} BY <1>6
  <2>4. Undelayed(o)' BY <1>1, <1>2, <1>3, <1>6, <2>1, <2>3, PeersStream
  <2> QED BY <2>2, <2>4
<1> QED BY <1>3, <1>7, <1>8, <1>9, <1>10 DEF IInv

\* What ends udpsend is taken from p's socket, and nothing is sent.
LEMMA RecvAckIInv ==
  ASSUME IInv, NEW p \in Peer, RecvAck(p)
  PROVE  IInv'
<1> DEFINE o == Other(p)
<1>1. /\ waiting[p] /\ Consume(p) /\ KeepOutgoing(p)
      /\ waiting' = [waiting EXCEPT ![p] = FALSE]
      /\ Send_Seq' = [Send_Seq EXCEPT ![p] = 1 - Send_Seq[p]]
      /\ script' = [script EXCEPT ![p] = Tail(script[p])]
      /\ UNCHANGED <<plan, file, network, prev_Recv_Seq, ackSeq, deleted, told, got, calls,
                     accepted, newDropped>>
  BY DEF RecvAck, files
<1>2. TypeOK /\ Shapes /\ LinksMade /\ WaitsWithItsNumber BY DEF IInv
<1>3. /\ o \in Peer /\ o # p /\ Other(o) = p /\ \A r \in Peer : r = p \/ r = o
  BY Others
<1>4. /\ calls \in [Peer -> Nat] /\ Send_Seq \in [Peer -> 0..1]
      /\ script \in [Peer -> Seq(Call)] /\ waiting \in [Peer -> BOOLEAN]
  BY <1>2 DEF TypeOK, Shapes
<1>5. LinksMade'
  <2>1. calls[p] <= calls'[p] BY <1>1, <1>4
  <2> QED BY <1>1, <1>2, <1>4, <2>1, LinksMadeKept
<1>6. /\ ~waiting'[p] /\ waiting'[o] = waiting[o]
      /\ script'[o] = script[o] /\ Send_Seq'[o] = Send_Seq[o]
  BY <1>1, <1>3, <1>4
<1>7. TypeOK'
  <2>1. Send_Seq' \in [Peer -> 0..1]
    <3>1. 1 - Send_Seq[p] \in 0..1 BY <1>4
    <3> QED BY <1>1, <1>4, <3>1, ExceptTyped
  <2>2. script' \in [Peer -> Seq(Call)]
    <3>1. script[p] # <<>> BY <1>1, <1>2 DEF TypeOK, InCall
    <3>2. Tail(script[p]) \in Seq(Call) BY <1>4, <3>1
    <3> QED BY <1>1, <1>4, <3>2, ExceptTyped
  <2>3. \A r \in Peer : waiting[r]' => InCall(r, "send")'
    BY <1>2, <1>3, <1>6 DEF TypeOK, InCall
  <2> QED BY <1>1, <1>2, <1>5, <2>1, <2>2, <2>3, LinksTypedNext DEF TypeOK
<1>8. Shapes' BY <1>1, <1>2 DEF Shapes
<1>9. WaitsWithItsNumber' BY <1>1, <1>2, <1>3, <1>6 DEF WaitsWithItsNumber
<1>10. ASSUME "delay" \notin network'
       PROVE  Undelayed(p)' /\ Undelayed(o)'
  <2>1. "delay" \notin network /\ Undelayed(p) /\ Undelayed(o)
    BY <1>1, <1>3, <1>10 DEF IInv
  <2>2. Undelayed(p)' BY <1>1, <1>2, <2>1, OwnStream
  <2>3. Undelayed(o)' BY <1>1, <1>2, <1>3, <2>1, PeersStream
  <2> QED BY <2>2, <2>3
<1> QED BY <1>3, <1>5, <1>7, <1>8, <1>9, <1>10 DEF IInv

\* A packet recognised as a duplicate is taken and answered.
LEMMA DropIInv ==
  ASSUME IInv, NEW p \in Peer, Drop(p)
  PROVE  IInv'
<1> DEFINE o == Other(p)
<1>1. /\ Consume(p) /\ SendAck(p) /\ newDropped' \in BOOLEAN
      /\ UNCHANGED <<plan, file, network, script, waiting, Send_Seq, prev_Recv_Seq, ackSeq,
                     deleted, told, got, calls, accepted>>
  BY DEF Drop, files, seqs
<1>2. TypeOK /\ Shapes /\ LinksMade /\ WaitsWithItsNumber BY DEF IInv
<1>3. /\ o \in Peer /\ o # p /\ Other(o) = p /\ \A r \in Peer : r = p \/ r = o
  BY Others
<1>4. calls \in [Peer -> Nat] /\ calls[p] \in Nat BY <1>2 DEF TypeOK
<1>5. PICK d \in Made(calls[p]) : d.id = 0 /\ d.seqNo = ackSeq[p] /\ Transmit(p, d)
  BY <1>1, <1>2, SendAckSends
<1>6. LinksMade'
  <2>1. calls[p] <= calls'[p] BY <1>1, <1>4
  <2> QED BY <1>1, <1>2, <1>4, <1>5, <2>1, LinksMadeKept
<1>7. TypeOK'
  BY <1>1, <1>2, <1>6, LinksTypedNext DEF TypeOK, InCall
<1>8. Shapes' /\ WaitsWithItsNumber'
  BY <1>1, <1>2 DEF Shapes, WaitsWithItsNumber
<1>9. ASSUME "delay" \notin network'
      PROVE  Undelayed(p)' /\ Undelayed(o)'
  <2>1. "delay" \notin network /\ Undelayed(p) /\ Undelayed(o)
    BY <1>1, <1>3, <1>9 DEF IInv
  <2>2. Undelayed(p)' BY <1>1, <1>2, <2>1, OwnStream
  <2>3. d.id \in {0, calls[p]} BY <1>5
  <2>4. Undelayed(o)' BY <1>1, <1>2, <1>3, <1>5, <2>1, <2>3, PeersStream
  <2> QED BY <2>2, <2>4
<1> QED BY <1>3, <1>6, <1>7, <1>8, <1>9 DEF IInv

(* A packet of another number than the last is returned: the script goes   *)
(* on, and the packet had not been returned before.                        *)
LEMMA AcceptIInv ==
  ASSUME IInv, NEW p \in Peer, Accept(p)
  PROVE  IInv'
<1> DEFINE o == Other(p)
           m == Head(Incoming(p))
           use == Head(script[p]).kind
<1>1. /\ InCall(p, "recv") /\ Incoming(p) # <<>>
      /\ m.seqNo # prev_Recv_Seq[p]
      /\ prev_Recv_Seq' = [prev_Recv_Seq EXCEPT ![p] = m.seqNo]
      /\ \E s \in NextCalls(p, m) : script' = [script EXCEPT ![p] = s]
      /\ accepted' = [accepted EXCEPT ![p] = Append(accepted[p], m.id)]
      /\ got' = IF use = "chunk" THEN Append(got, [kind |-> m.kind, n |-> m.n]) ELSE got
      /\ deleted' \in BOOLEAN /\ told' \in {"missing", "deleted", told}
      /\ Consume(p) /\ SendAck(p)
      /\ UNCHANGED <<plan, file, network, waiting, Send_Seq, ackSeq, calls, newDropped>>
  BY DEF Accept
<1>2. TypeOK /\ Shapes /\ LinksMade /\ WaitsWithItsNumber BY DEF IInv
<1>3. /\ o \in Peer /\ o # p /\ Other(o) = p /\ \A r \in Peer : r = p \/ r = o
  BY Others
<1>4. /\ calls \in [Peer -> Nat] /\ calls[p] \in Nat /\ calls[o] \in Nat
      /\ script \in [Peer -> Seq(Call)] /\ prev_Recv_Seq \in [Peer -> 0..NoSeq]
      /\ accepted[p] \in Seq(0..calls[o]) /\ accepted[o] \in Seq(0..calls[p])
      /\ DOMAIN accepted = Peer
  BY <1>2, <1>3, PeerFacts DEF TypeOK, Shapes
<1>5. PICK d \in Made(calls[p]) : d.id = 0 /\ d.seqNo = ackSeq[p] /\ Transmit(p, d)
  BY <1>1, <1>2, SendAckSends
<1>6. LinksMade'
  <2>1. calls[p] <= calls'[p] BY <1>1, <1>4
  <2> QED BY <1>1, <1>2, <1>4, <1>5, <2>1, LinksMadeKept
<1>7. m \in Made(calls[o]) /\ m \in Datagram /\ m.id \in 0..calls[o]
  <2>1. Incoming(p) \in Seq(Made(calls[o])) BY <1>2, PeerFacts
  <2>2. m \in Made(calls[o]) BY <1>1, <2>1, TailOf
  <2> QED BY <2>2 DEF Made
<1> HIDE DEF m
<1>8. accepted'[p] = Append(accepted[p], m.id) /\ accepted'[o] = accepted[o]
      /\ prev_Recv_Seq'[p] = m.seqNo /\ prev_Recv_Seq'[o] = prev_Recv_Seq[o]
      /\ script'[o] = script[o]
  BY <1>1, <1>3, <1>4
<1>9. ~waiting[p]
  BY <1>1, <1>2 DEF TypeOK, InCall
<1>10. TypeOK'
  <2>1. prev_Recv_Seq' \in [Peer -> 0..NoSeq]
    <3>1. m.seqNo \in 0..NoSeq BY <1>7 DEF Datagram
    <3> QED BY <1>1, <1>4, <3>1, ExceptTyped
  <2>2. script' \in [Peer -> Seq(Call)]
    <3>1. PICK s \in NextCalls(p, m) : script' = [script EXCEPT ![p] = s] BY <1>1
    <3>2. /\ script[p] \in Seq(Call) /\ script[p] # <<>>
          /\ Head(script[p]).op = "recv"
      BY <1>1, <1>4 DEF InCall
    <3>3. s \in Seq(Call) BY <1>7, <3>1, <3>2, NextCallsTyped
    <3> QED BY <1>4, <3>1, <3>3, ExceptTyped
  <2>3. \A r \in Peer : waiting[r]' => InCall(r, "send")'
    BY <1>1, <1>2, <1>3, <1>8, <1>9 DEF TypeOK, InCall
  <2>4. got' \in Seq([kind : Kind, n : Nat])
    <3>1. [kind |-> m.kind, n |-> m.n] \in [kind : Kind, n : Nat] BY <1>7 DEF Datagram
    <3>2. got \in Seq([kind : Kind, n : Nat]) BY <1>2 DEF TypeOK
    <3> HIDE DEF use
    <3> QED BY <1>1, <3>1, <3>2, Appended
  <2>5. told' \in {"nothing", "missing", "deleted"} BY <1>1, <1>2 DEF TypeOK
  <2>6. ASSUME NEW r \in Peer PROVE accepted[r]' \in Seq(0..calls[Other(r)]')
    <3>1. Append(accepted[p], m.id) \in Seq(0..calls[o]) BY <1>4, <1>7, Appended
    <3>2. CASE r = p BY <3>1, <3>2, <1>1, <1>8
    <3>3. CASE r = o BY <3>3, <1>1, <1>3, <1>4, <1>8
    <3> QED BY <3>2, <3>3, <1>3
  <2> QED BY <1>1, <1>2, <1>6, <2>1, <2>2, <2>3, <2>4, <2>5, <2>6, LinksTypedNext DEF TypeOK, Other
<1>11. Shapes' BY <1>1, <1>2 DEF Shapes
<1>12. WaitsWithItsNumber' BY <1>1, <1>2 DEF WaitsWithItsNumber
<1>13. ASSUME "delay" \notin network'
       PROVE  Undelayed(p)' /\ Undelayed(o)'
  <2>1. "delay" \notin network /\ Undelayed(p) /\ Undelayed(o)
    BY <1>1, <1>3, <1>13 DEF IInv
  <2>2. /\ Held(p) = NoPacket
        /\ Agree(Incoming(p), accepted[p], prev_Recv_Seq[p], calls[o], ackSeq[o])
        /\ OnceEach(accepted[p])
    BY <2>1 DEF Undelayed
  <2>3. Incoming(p)' = Tail(Incoming(p)) /\ Held(p)' = Held(p) BY <1>1, ConsumeTakes
  <2>4. Incoming(p) \in Seq(Made(calls[o])) BY <1>2, PeerFacts
  <2>5. /\ Agree(Tail(Incoming(p)), Append(accepted[p], m.id), m.seqNo, calls[o], ackSeq[o])
        /\ OnceEach(Append(accepted[p], m.id))
    BY <1>1, <1>4, <2>2, <2>4, AcceptAgrees DEF m
  <2>6. /\ Agree(Incoming(p)', accepted'[p], prev_Recv_Seq'[p], calls'[o], ackSeq'[o])
        /\ OnceEach(accepted'[p])
    BY <1>1, <1>8, <2>3, <2>5
  <2>7. Undelayed(p)'
    BY <2>2, <2>3, <2>6 DEF Undelayed, Agree, Stream, Read, OnceEach
  <2>8. d.id \in {0, calls[p]} BY <1>5
  <2>9. Undelayed(o)' BY <1>1, <1>2, <1>3, <1>5, <1>8, <2>1, <2>8, PeersStream
  <2> QED BY <2>7, <2>9
<1> QED BY <1>3, <1>6, <1>10, <1>11, <1>12, <1>13 DEF IInv

\* The packet held back arrives last or is lost; there is none without delays.
LEMMA ReleaseIInv ==
  ASSUME IInv, Release
  PROVE  IInv'
<1>1. UNCHANGED <<plan, file, network, script, waiting, Send_Seq, prev_Recv_Seq, ackSeq,
                  deleted, told, got, calls, accepted, newDropped>>
  BY DEF Release, files, seqs
<1>2. TypeOK /\ Shapes /\ LinksMade /\ WaitsWithItsNumber BY DEF IInv
<1>3. PICK p \in Peer : /\ Held(p) # NoPacket /\ Held(p)' = NoPacket
                        /\ Incoming(p)' \in {Incoming(p), Arrived(Incoming(p), Held(p))}
                        /\ Incoming(Other(p))' = Incoming(Other(p))
                        /\ Held(Other(p))' = Held(Other(p))
  <2>1. CASE Up!Release /\ KeepIncoming("client")
    <3>1. "server" \in Peer BY DEF Peer
    <3>2. /\ Held("server") # NoPacket /\ Held("server")' = NoPacket
          /\ Incoming("server")' \in {Incoming("server"), Arrived(Incoming("server"), Held("server"))}
          /\ Incoming("client")' = Incoming("client") /\ Held("client")' = Held("client")
      BY <2>1 DEF Up!Release, Up!Arrive, Arrived, KeepIncoming, Incoming, Held
    <3> QED BY <3>1, <3>2 DEF Other
  <2>2. CASE Down!Release /\ KeepOutgoing("client")
    <3>1. "client" \in Peer BY DEF Peer
    <3>2. /\ Held("client") # NoPacket /\ Held("client")' = NoPacket
          /\ Incoming("client")' \in {Incoming("client"), Arrived(Incoming("client"), Held("client"))}
          /\ Incoming("server")' = Incoming("server") /\ Held("server")' = Held("server")
      BY <2>2 DEF Down!Release, Down!Arrive, Arrived, KeepOutgoing, KeepIncoming, Other, Incoming, Held
    <3> QED BY <3>1, <3>2 DEF Other
  <2> QED BY <2>1, <2>2 DEF Release
<1> DEFINE o == Other(p)
<1>4. o \in Peer /\ \A r \in Peer : r = p \/ r = o BY Others
<1>5. LinksMade'
  <2>1. /\ Incoming(p) \in Seq(Made(calls[o])) /\ Held(p) \in Made(calls[o])
        /\ Incoming(o) \in Seq(Made(calls[Other(o)]))
        /\ Held(o) \in Made(calls[Other(o)]) \cup {NoPacket}
    BY <1>2, <1>3, <1>4 DEF LinksMade
  <2>2. Arrived(Incoming(p), Held(p)) \in Seq(Made(calls[o])) BY <2>1, ArrivedTyped
  <2>3. Incoming(p)' \in Seq(Made(calls[o])) /\ Held(p)' = NoPacket BY <1>3, <2>1, <2>2
  <2>4. \A r \in Peer : /\ Incoming(r)' \in Seq(Made(calls[Other(r)]))
                        /\ Held(r)' \in Made(calls[Other(r)]) \cup {NoPacket}
    BY <1>3, <1>4, <2>1, <2>3
  <2> QED BY <1>1, <2>4 DEF LinksMade, Made
<1>6. TypeOK'
  BY <1>1, <1>2, <1>5, LinksTypedNext DEF TypeOK, InCall
<1>7. Shapes' /\ WaitsWithItsNumber'
  BY <1>1, <1>2 DEF Shapes, WaitsWithItsNumber
<1>8. "delay" \in network'
  <2>1. ~Undelayed(p) BY <1>3 DEF Undelayed
  <2> QED BY <1>1, <2>1 DEF IInv
<1> QED BY <1>5, <1>6, <1>7, <1>8 DEF IInv

(* Whatever is sent, lost, held back, resent, returned or dropped, the      *)
(* links carry only what was made, and without delays the sockets agree    *)
(* with both sides' numbers.                                               *)
THEOREM StopWaitInvariant == Spec => []IInv
<1>1. Init => IInv BY InitIInv
<1>2. IInv /\ [Next]_vars => IInv'
  <2> SUFFICES ASSUME IInv, [Next]_vars PROVE IInv'
    OBVIOUS
  <2>1. CASE Choose BY <2>1, ChooseIInv
  <2>2. ASSUME NEW p \in Peer, Step(p) PROVE IInv'
    BY <2>2, udpsendIInv, ResendIInv, RecvAckIInv, AcceptIInv, DropIInv DEF Step
  <2>3. CASE Release BY <2>3, ReleaseIInv
  <2>4. CASE UNCHANGED vars
    BY <2>4 DEF vars, seqs, files, links, IInv, TypeOK, Shapes, LinksMade, WaitsWithItsNumber,
                Undelayed, Incoming, Held, InCall
  <2> QED BY <2>1, <2>2, <2>3, <2>4 DEF Next
<1> QED BY <1>1, <1>2, PTL DEF Spec

(* The one-bit numbers stay 0 or 1, prev_Recv_Seq and an ACK carry a       *)
(* number that a packet or an uninitialised variable has, and a side waits *)
(* in udpsend only while its script is in a send.                          *)
THEOREM StopWaitTypes == Spec => []TypeOK
<1>1. IInv => TypeOK BY DEF IInv
<1> QED BY <1>1, StopWaitInvariant, PTL

(* udprecv returns no packet twice, however often it is resent, as long as *)
(* the router delays none: for any commands, files, buffers, any packets   *)
(* and ACKs lost and any timeouts too early.                               *)
THEOREM StopWaitAcceptsOnce == Spec => []NothingAcceptedTwice
<1>1. IInv => NothingAcceptedTwice
  <2> SUFFICES ASSUME IInv, "delay" \notin network, NEW p \in Peer,
                      NEW j \in DOMAIN accepted[p], NEW k \in DOMAIN accepted[p],
                      j # k, accepted[p][j] = accepted[p][k]
               PROVE  accepted[p][j] = 0
    BY DEF NothingAcceptedTwice
  <2>1. OnceEach(accepted[p]) BY DEF IInv, Undelayed
  <2>2. accepted[p] \in Seq(0..calls[Other(p)]) BY DEF IInv, TypeOK
  <2>3. DOMAIN accepted[p] = 1..Len(accepted[p]) BY <2>2
  <2> QED BY <2>1, <2>3 DEF OnceEach
<1> QED BY <1>1, StopWaitInvariant, PTL
===============================================================================
