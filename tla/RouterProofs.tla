----------------------------- MODULE RouterProofs -----------------------------
(***************************************************************************)
(* What Router promises, proved for any number of packets and any socket   *)
(* buffer size.                                                            *)
(*                                                                         *)
(* The inductive invariant speaks of one direction at a time: the packets  *)
(* already sent to the destination (o), the held packet (h, 0 when none),  *)
(* the packets still in the socket (s) and the number the peer has sent    *)
(* (n) are in this order of age, but for a held packet that follows the    *)
(* one that took it along.                                                 *)
(***************************************************************************)
EXTENDS Router, TLAPS

UpTo(q, n)       == \A i \in 1..Len(q) : q[i] <= n
From(q, n)       == \A i \in 1..Len(q) : q[i] > n
Before(o, s)     == \A i \in 1..Len(o), j \in 1..Len(s) : o[i] < s[j]
Increasing(s)    == \A i, j \in 1..Len(s) : i < j => s[i] < s[j]
Distinct(o)      == \A i, j \in 1..Len(o) : i < j => o[i] # o[j]
NearlyIncreasing(o) == \A i, j \in 1..Len(o) : i + 2 <= j => o[i] < o[j]

InOrder(o, h, s, n) ==
  /\ UpTo(o, n) /\ UpTo(s, n) /\ h <= n
  /\ Before(o, s) /\ Increasing(s)
  /\ h # 0 => UpTo(o, h - 1) /\ From(s, h)
  /\ Distinct(o) /\ NearlyIncreasing(o)

Held(d) == IF ~FileBuf.empty /\ FileBuf.destination = Other(d)
           THEN FileBuf.packet ELSE 0

WaitSmall == /\ FileBuf.empty => wait_count = 0
             /\ ~FileBuf.empty => /\ idle <= wait_count /\ idle <= 2
                                  /\ FileBuf.packet # 0

IInv == /\ TypeOK
        /\ \A d \in Host : InOrder(out[Other(d)], Held(d), sock[d], sent[d])
        /\ WaitSmall

-------------------------------------------------------------------------------
\* Appending to a sequence of numbers, and taking its head off.
LEMMA AppendOrder ==
  ASSUME NEW q \in Seq(Nat), NEW x \in Nat, NEW s \in Seq(Nat), NEW n \in Nat
  PROVE  /\ Append(q, x) \in Seq(Nat)
         /\ UpTo(q, n) /\ x <= n => UpTo(Append(q, x), n)
         /\ From(q, n) /\ x > n => From(Append(q, x), n)
         /\ Before(q, s) /\ From(s, x) => Before(Append(q, x), s)
         /\ Before(s, q) /\ (x > 0 => UpTo(s, x - 1)) /\ x > 0 => Before(s, Append(q, x))
<1>1. Append(q, x) \in Seq(Nat) OBVIOUS
<1>2. UpTo(q, n) /\ x <= n => UpTo(Append(q, x), n) BY DEF UpTo
<1>3. From(q, n) /\ x > n => From(Append(q, x), n) BY DEF From
<1>4. Before(q, s) /\ From(s, x) => Before(Append(q, x), s) BY DEF Before, From
<1>5. Before(s, q) /\ (x > 0 => UpTo(s, x - 1)) /\ x > 0 => Before(s, Append(q, x)) BY DEF Before, UpTo
<1> QED BY <1>1, <1>2, <1>3, <1>4, <1>5

LEMMA TailOrder ==
  ASSUME NEW q \in Seq(Nat), q # <<>>, NEW s \in Seq(Nat), NEW n \in Nat
  PROVE  /\ Tail(q) \in Seq(Nat) /\ Head(q) \in Nat
         /\ UpTo(q, n) => UpTo(Tail(q), n) /\ Head(q) <= n
         /\ From(q, n) => From(Tail(q), n) /\ Head(q) > n
         /\ Before(s, q) => Before(s, Tail(q)) /\ UpTo(s, Head(q) - 1)
         /\ Increasing(q) => Increasing(Tail(q)) /\ From(Tail(q), Head(q))
<1>1. Tail(q) \in Seq(Nat) /\ Head(q) \in Nat OBVIOUS
<1>2. UpTo(q, n) => UpTo(Tail(q), n) /\ Head(q) <= n BY DEF UpTo
<1>3. From(q, n) => From(Tail(q), n) /\ Head(q) > n BY DEF From
<1>4. Before(s, q) => Before(s, Tail(q)) /\ UpTo(s, Head(q) - 1) BY DEF Before, UpTo
<1>5. Increasing(q) => Increasing(Tail(q)) /\ From(Tail(q), Head(q)) BY DEF Increasing, From
<1> QED BY <1>1, <1>2, <1>3, <1>4, <1>5

\* The held packet goes out right behind a younger one.
LEMMA SwapOrder ==
  ASSUME NEW o \in Seq(Nat), NEW x \in Nat, NEW h \in Nat \ {0}, h < x,
         UpTo(o, h - 1), Distinct(o), NearlyIncreasing(o)
  PROVE  /\ Distinct(Append(Append(o, x), h))
         /\ NearlyIncreasing(Append(Append(o, x), h))
<1>1. Distinct(Append(Append(o, x), h)) BY DEF UpTo, Distinct
<1>2. NearlyIncreasing(Append(Append(o, x), h)) BY DEF UpTo, NearlyIncreasing
<1> QED BY <1>1, <1>2

LEMMA AppendNearly ==
  ASSUME NEW o \in Seq(Nat), NEW x \in Nat \ {0},
         UpTo(o, x - 1), Distinct(o), NearlyIncreasing(o)
  PROVE  Distinct(Append(o, x)) /\ NearlyIncreasing(Append(o, x))
<1>1. Distinct(Append(o, x)) BY DEF UpTo, Distinct
<1>2. NearlyIncreasing(Append(o, x)) BY DEF UpTo, NearlyIncreasing
<1> QED BY <1>1, <1>2

LEMMA AppendIncreasing ==
  ASSUME NEW s \in Seq(Nat), NEW x \in Nat \ {0}, UpTo(s, x - 1), Increasing(s)
  PROVE  Increasing(Append(s, x))
<1> DEFINE t == Append(s, x)
<1> SUFFICES ASSUME NEW i \in 1..Len(t), NEW j \in 1..Len(t), i < j
             PROVE  t[i] < t[j]
  BY DEF Increasing
<1>1. /\ Len(t) = Len(s) + 1 /\ Len(s) \in Nat
      /\ \A k \in 1..Len(s) : t[k] = s[k] /\ s[k] \in Nat
      /\ t[Len(s) + 1] = x
  OBVIOUS
<1> HIDE DEF t
<1>2. i \in 1..Len(s) /\ (j \in 1..Len(s) \/ j = Len(s) + 1) BY <1>1
<1>3. CASE j \in 1..Len(s) BY <1>1, <1>2, <1>3 DEF Increasing
<1>4. CASE j = Len(s) + 1
  <2>1. s[i] <= x - 1 BY <1>2 DEF UpTo
  <2> QED BY <2>1, <1>1, <1>2, <1>4
<1> QED BY <1>2, <1>3, <1>4

\* A number that bounds a sequence may be replaced by a larger one.
LEMMA UpToMore ==
  ASSUME NEW q \in Seq(Nat), NEW m \in Int, NEW n \in Int, m <= n, UpTo(q, m)
  PROVE  UpTo(q, n)
  BY DEF UpTo

-------------------------------------------------------------------------------
\* One direction, step by step: the peer sends.
LEMMA SendKeepsOrder ==
  ASSUME NEW o \in Seq(Nat), NEW h \in Nat, NEW s \in Seq(Nat), NEW n \in Nat,
         InOrder(o, h, s, n)
  PROVE  InOrder(o, h, Append(s, n + 1), n + 1) /\ InOrder(o, h, s, n + 1)
<1>1. n + 1 \in Nat \ {0} /\ (n + 1) - 1 = n OBVIOUS
<1>2. UpTo(o, n + 1) /\ UpTo(s, n + 1) /\ h <= n + 1
  BY <1>1, UpToMore DEF InOrder
<1>3. InOrder(o, h, s, n + 1) BY <1>2 DEF InOrder
<1>4. UpTo(Append(s, n + 1), n + 1) BY <1>1, <1>2, AppendOrder
<1>5. Before(o, Append(s, n + 1)) BY <1>1, AppendOrder DEF InOrder
<1>6. Increasing(Append(s, n + 1)) BY <1>1, AppendIncreasing DEF InOrder
<1>7. h # 0 => From(Append(s, n + 1), h) BY <1>1, AppendOrder DEF InOrder
<1>8. InOrder(o, h, Append(s, n + 1), n + 1)
  BY <1>2, <1>4, <1>5, <1>6, <1>7 DEF InOrder
<1> QED BY <1>3, <1>8

\* The router reads a packet: it drops, delays or forwards it.
LEMMA DropKeepsOrder ==
  ASSUME NEW o \in Seq(Nat), NEW h \in Nat, NEW s \in Seq(Nat), NEW n \in Nat,
         InOrder(o, h, s, n), s # <<>>
  PROVE  InOrder(o, h, Tail(s), n)
  BY TailOrder DEF InOrder

LEMMA DelayKeepsOrder ==
  ASSUME NEW o \in Seq(Nat), NEW s \in Seq(Nat), NEW n \in Nat,
         InOrder(o, 0, s, n), s # <<>>
  PROVE  InOrder(o, Head(s), Tail(s), n)
  BY TailOrder DEF InOrder

LEMMA ForwardKeepsOrder ==
  ASSUME NEW o \in Seq(Nat), NEW h \in Nat, NEW s \in Seq(Nat), NEW n \in Nat,
         InOrder(o, h, s, n), s # <<>>, From(s, 0)
  PROVE  /\ InOrder(Append(o, Head(s)), 0, Tail(s), n)
         /\ h # 0 => InOrder(Append(Append(o, Head(s)), h), 0, Tail(s), n)
<1> DEFINE x == Head(s)
<1>1. /\ Tail(s) \in Seq(Nat) /\ x \in Nat \ {0} /\ x <= n
      /\ UpTo(Tail(s), n) /\ Before(o, Tail(s)) /\ UpTo(o, x - 1)
      /\ Increasing(Tail(s)) /\ From(Tail(s), x)
  BY TailOrder DEF InOrder
<1>2. /\ Append(o, x) \in Seq(Nat) /\ UpTo(Append(o, x), n) /\ Before(Append(o, x), Tail(s))
      /\ Distinct(Append(o, x)) /\ NearlyIncreasing(Append(o, x))
  BY <1>1, AppendOrder, AppendNearly DEF InOrder
<1>3. ASSUME h # 0
      PROVE  InOrder(Append(Append(o, x), h), 0, Tail(s), n)
  <2>1. h < x /\ h <= n /\ h \in Nat \ {0} /\ From(Tail(s), h)
    BY <1>3, TailOrder DEF InOrder
  <2>2. Distinct(Append(Append(o, x), h)) /\ NearlyIncreasing(Append(Append(o, x), h))
    BY <2>1, <1>1, <1>3, SwapOrder DEF InOrder
  <2>3. UpTo(Append(Append(o, x), h), n) /\ Before(Append(Append(o, x), h), Tail(s))
    BY <2>1, <1>1, <1>2, AppendOrder
  <2> QED BY <1>1, <2>2, <2>3 DEF InOrder
<1>4. InOrder(Append(o, x), 0, Tail(s), n)
  BY <1>1, <1>2 DEF InOrder
<1> QED BY <1>3, <1>4

\* SendProc empties the slot, with or without its sendto.
LEMMA ReleaseKeepsOrder ==
  ASSUME NEW o \in Seq(Nat), NEW h \in Nat, NEW s \in Seq(Nat), NEW n \in Nat,
         InOrder(o, h, s, n)
  PROVE  InOrder(o, 0, s, n) /\ (h # 0 => InOrder(Append(o, h), 0, s, n))
<1>1. InOrder(o, 0, s, n) BY DEF InOrder
<1>2. ASSUME h # 0
      PROVE  InOrder(Append(o, h), 0, s, n)
  <2>1. UpTo(Append(o, h), n) /\ Before(Append(o, h), s)
    BY <1>2, AppendOrder DEF InOrder
  <2>2. Distinct(Append(o, h)) /\ NearlyIncreasing(Append(o, h))
    BY <1>2, AppendNearly DEF InOrder
  <2> QED BY <2>1, <2>2 DEF InOrder
<1> QED BY <1>1, <1>2

-------------------------------------------------------------------------------
LEMMA HostFacts ==
  /\ \A d \in Host : Other(d) \in Host /\ Other(d) # d /\ Other(Other(d)) = d
  /\ \A d, e \in Host : e = d \/ e = Other(d)
  BY DEF Host, Other

\* Typing of sequence elements, and of the two ends of a queue.
LEMMA SeqElem ==
  ASSUME NEW S, NEW q \in Seq(S)
  PROVE  /\ Len(q) \in Nat /\ DOMAIN q = 1..Len(q)
         /\ \A i \in 1..Len(q) : q[i] \in S
         /\ q # <<>> => Tail(q) \in Seq(S) /\ Head(q) \in S /\ Len(Tail(q)) <= Len(q)
         /\ \A x \in S : Append(q, x) \in Seq(S) /\ Len(Append(q, x)) = Len(q) + 1
  OBVIOUS

LEMMA SeqSubset ==
  ASSUME NEW S, NEW T, S \subseteq T, NEW q \in Seq(S)
  PROVE  q \in Seq(T)
  OBVIOUS

\* What TypeOK says of the data the order of a direction is about.
LEMMA Types ==
  ASSUME TypeOK, NEW d \in Host
  PROVE  /\ out[Other(d)] \in Seq(Nat) /\ sock[d] \in Seq(Nat) /\ From(sock[d], 0)
         /\ Held(d) \in Nat /\ sent[d] \in Nat
         /\ FileBuf.packet \in Nat /\ FileBuf.destination \in Host
         /\ FileBuf.empty \in BOOLEAN /\ wait_count \in Nat /\ idle \in 0..3
<1>1. sent[d] \in Nat /\ FileBuf.packet \in Nat /\ FileBuf.destination \in Host
      /\ FileBuf.empty \in BOOLEAN /\ wait_count \in Nat /\ idle \in 0..3
  BY RouterAssumption DEF TypeOK
<1>2. out[Other(d)] \in Seq(1..MaxPackets) /\ sock[d] \in Seq(1..MaxPackets)
  BY HostFacts DEF TypeOK
<1>3. out[Other(d)] \in Seq(Nat) /\ sock[d] \in Seq(Nat) /\ From(sock[d], 0)
  <2>1. \A i \in 1..Len(sock[d]) : sock[d][i] \in 1..MaxPackets BY <1>2, SeqElem
  <2>2. From(sock[d], 0) BY <2>1 DEF From
  <2>3. 1..MaxPackets \subseteq Nat OBVIOUS
  <2> QED BY <1>2, <2>2, <2>3, SeqSubset
<1>4. Held(d) \in Nat BY <1>1 DEF Held
<1> QED BY <1>1, <1>3, <1>4

LEMMA InitInv == Init => IInv
<1> SUFFICES ASSUME Init PROVE IInv
  OBVIOUS
<1>1. TypeOK BY RouterAssumption DEF Init, TypeOK, Host
<1>2. \A d \in Host : InOrder(out[Other(d)], Held(d), sock[d], sent[d])
  BY HostFacts DEF Init, Held, InOrder, UpTo, From, Before, Increasing, Distinct, NearlyIncreasing
<1>3. WaitSmall BY DEF Init, WaitSmall
<1> QED BY <1>1, <1>2, <1>3 DEF IInv

LEMMA PeerSendInv ==
  ASSUME IInv, NEW d \in Host, PeerSend(d)
  PROVE  IInv'
<1> DEFINE n == sent[d] + 1
<1>1. n \in 1..MaxPackets
  BY RouterAssumption DEF IInv, TypeOK, PeerSend
<1>2. TypeOK'
  <2>1. /\ sock[d] \in Seq(1..MaxPackets) /\ Append(sock[d], n) \in Seq(1..MaxPackets)
        /\ Len(Append(sock[d], n)) = Len(sock[d]) + 1 /\ Len(sock[d]) \in Nat
    BY <1>1, SeqElem DEF IInv, TypeOK
  <2> HIDE DEF n
  <2>3. sock' \in [Host -> Seq(1..MaxPackets)]
    BY <2>1 DEF IInv, TypeOK, PeerSend, n
  <2>4. sent' \in [Host -> 0..MaxPackets]
    BY <1>1, RouterAssumption DEF IInv, TypeOK, PeerSend, n
  <2>5. ASSUME NEW e \in Host
        PROVE  Len(sock'[e]) <= SocketCap
    <3>1. CASE sock'[e] = sock[e] BY <3>1 DEF IInv, TypeOK
    <3>2. CASE sock'[e] # sock[e]
      <4>1. Len(sock[d]) < SocketCap /\ sock'[e] = Append(sock[d], n)
        BY <3>2 DEF IInv, TypeOK, PeerSend, n
      <4> QED BY <4>1, <2>1, RouterAssumption
    <3> QED BY <3>1, <3>2
  <2> QED BY <2>3, <2>4, <2>5 DEF IInv, TypeOK, PeerSend
<1>3. ASSUME NEW e \in Host
      PROVE  InOrder(out[Other(e)], Held(e), sock[e], sent[e])'
  <2>1. Held(e)' = Held(e) /\ out' = out BY DEF PeerSend, Held
  <2>2. InOrder(out[Other(e)], Held(e), sock[e], sent[e]) BY DEF IInv
  <2>3. CASE e = d
    <3>1. sent'[e] = sent[e] + 1 BY <2>3 DEF PeerSend, IInv, TypeOK
    <3>2. sock'[e] = sock[e] \/ sock'[e] = Append(sock[e], sent[e] + 1)
      BY <2>3 DEF PeerSend, IInv, TypeOK
    <3>3. /\ out[Other(e)] \in Seq(Nat) /\ sock[e] \in Seq(Nat)
          /\ Held(e) \in Nat /\ sent[e] \in Nat
      BY Types DEF IInv
    <3>4. /\ InOrder(out[Other(e)], Held(e), Append(sock[e], sent[e] + 1), sent[e] + 1)
          /\ InOrder(out[Other(e)], Held(e), sock[e], sent[e] + 1)
      BY <2>2, <3>3, SendKeepsOrder
    <3> QED BY <2>1, <3>1, <3>2, <3>4
  <2>4. CASE e # d
    <3>1. sent'[e] = sent[e] /\ sock'[e] = sock[e] BY <2>4 DEF PeerSend, IInv, TypeOK
    <3> QED BY <2>1, <2>2, <3>1
  <2> QED BY <2>3, <2>4
<1>4. WaitSmall' BY DEF IInv, WaitSmall, PeerSend
<1> QED BY <1>2, <1>3, <1>4 DEF IInv

\* Reading a packet leaves a well-typed socket behind.
LEMMA ReadFacts ==
  ASSUME TypeOK, NEW d \in Host, Readable(d), Consume(d)
  PROVE  /\ sock' \in [Host -> Seq(1..MaxPackets)]
         /\ \A e \in Host : Len(sock'[e]) <= SocketCap
         /\ Head(sock[d]) \in 1..MaxPackets
         /\ sock[d] # <<>> /\ sock'[d] = Tail(sock[d]) /\ sock'[Other(d)] = sock[Other(d)]
<1>1. sock[d] # <<>> BY DEF Readable
<1>2. sock[d] \in Seq(1..MaxPackets) /\ Len(sock[d]) <= SocketCap BY DEF TypeOK
<1>3. /\ Tail(sock[d]) \in Seq(1..MaxPackets) /\ Head(sock[d]) \in 1..MaxPackets
      /\ Len(Tail(sock[d])) <= Len(sock[d]) /\ Len(Tail(sock[d])) \in Nat /\ Len(sock[d]) \in Nat
  BY <1>1, <1>2, SeqElem
<1>4. Len(Tail(sock[d])) <= SocketCap BY <1>2, <1>3, RouterAssumption
<1> QED BY <1>1, <1>3, <1>4, HostFacts DEF TypeOK, Consume

\* It is enough to look at the direction that changes.
LEMMA OtherDirection ==
  ASSUME NEW d \in Host,
         \A e \in Host : InOrder(out[Other(e)], Held(e), sock[e], sent[e]),
         InOrder(out[Other(d)], Held(d), sock[d], sent[d])',
         out'[d] = out[d] /\ Held(Other(d))' = Held(Other(d))
            /\ sock'[Other(d)] = sock[Other(d)] /\ sent'[Other(d)] = sent[Other(d)]
  PROVE  \A e \in Host : InOrder(out[Other(e)], Held(e), sock[e], sent[e])'
<1> SUFFICES ASSUME NEW e \in Host PROVE InOrder(out[Other(e)], Held(e), sock[e], sent[e])'
  OBVIOUS
<1>1. CASE e = d BY <1>1
<1>2. CASE e = Other(d)
  <2>1. Other(e) = d /\ e \in Host BY <1>2, HostFacts
  <2>2. InOrder(out[Other(e)], Held(e), sock[e], sent[e]) BY <2>1
  <2>3. /\ out[Other(e)]' = out[Other(e)] /\ Held(e)' = Held(e)
        /\ sock[e]' = sock[e] /\ sent[e]' = sent[e]
    BY <2>1, <1>2
  <2> QED BY <2>2, <2>3
<1>3. e = d \/ e = Other(d) BY HostFacts
<1> QED BY <1>1, <1>2, <1>3

LEMMA DelayInv ==
  ASSUME IInv, NEW d \in Host, Delay(d)
  PROVE  IInv'
<1>1. TypeOK BY DEF IInv
<1>2. /\ sock' \in [Host -> Seq(1..MaxPackets)]
      /\ \A e \in Host : Len(sock'[e]) <= SocketCap
      /\ Head(sock[d]) \in 1..MaxPackets
      /\ sock[d] # <<>> /\ sock'[d] = Tail(sock[d]) /\ sock'[Other(d)] = sock[Other(d)]
  BY <1>1, ReadFacts DEF Delay
<1>3. TypeOK'
  <2>1. Other(d) \in Host /\ Head(sock[d]) \in 0..MaxPackets BY <1>2, HostFacts
  <2>2. FileBuf' \in [empty : BOOLEAN, destination : Host, packet : 0..MaxPackets]
    BY <2>1 DEF Delay
  <2>3. wait_count' \in Nat /\ idle' \in 0..3 BY <1>1 DEF TypeOK, Delay, BusyCount
  <2>4. sent' = sent /\ out' = out BY DEF Delay
  <2> QED BY <1>1, <1>2, <2>2, <2>3, <2>4 DEF TypeOK
<1>4. /\ Held(d) = 0 /\ Held(Other(d)) = 0
      /\ Held(d)' = Head(sock[d]) /\ Held(Other(d))' = 0
  BY HostFacts DEF Delay, Held
<1>5. InOrder(out[Other(d)], Held(d), sock[d], sent[d])'
  <2>1. InOrder(out[Other(d)], 0, sock[d], sent[d]) BY <1>4 DEF IInv
  <2>2. InOrder(out[Other(d)], Head(sock[d]), Tail(sock[d]), sent[d])
    BY <2>1, <1>1, <1>2, Types, DelayKeepsOrder
  <2> QED BY <2>2, <1>2, <1>4 DEF Delay
<1>6. \A e \in Host : InOrder(out[Other(e)], Held(e), sock[e], sent[e])'
  BY <1>2, <1>4, <1>5, OtherDirection DEF IInv, Delay
<1>7. WaitSmall' BY <1>2 DEF IInv, WaitSmall, Delay, BusyCount
<1> QED BY <1>3, <1>6, <1>7 DEF IInv

LEMMA DamageInv ==
  ASSUME IInv, NEW d \in Host, Damage(d)
  PROVE  IInv'
<1>1. TypeOK BY DEF IInv
<1>2. /\ sock' \in [Host -> Seq(1..MaxPackets)]
      /\ \A e \in Host : Len(sock'[e]) <= SocketCap
      /\ sock[d] # <<>> /\ sock'[d] = Tail(sock[d]) /\ sock'[Other(d)] = sock[Other(d)]
  BY <1>1, ReadFacts DEF Damage
<1>3. TypeOK' BY <1>1, <1>2 DEF TypeOK, Damage, BusyCount
<1>4. \A e \in Host : Held(e)' = Held(e) BY DEF Damage, Held
<1>5. InOrder(out[Other(d)], Held(d), sock[d], sent[d])'
  <2>1. InOrder(out[Other(d)], Held(d), Tail(sock[d]), sent[d])
    BY <1>1, <1>2, Types, DropKeepsOrder DEF IInv
  <2> QED BY <2>1, <1>2, <1>4 DEF Damage
<1>6. \A e \in Host : InOrder(out[Other(e)], Held(e), sock[e], sent[e])'
  BY <1>2, <1>4, <1>5, HostFacts, OtherDirection DEF IInv, Damage
<1>7. WaitSmall' BY <1>1, Types DEF IInv, WaitSmall, Damage, BusyCount
<1> QED BY <1>3, <1>6, <1>7 DEF IInv

LEMMA RecvErrorInv ==
  ASSUME IInv, NEW d \in Host, RecvError(d)
  PROVE  IInv'
<1>1. TypeOK BY DEF IInv
<1>2. TypeOK' BY <1>1 DEF TypeOK, RecvError, BusyCount
<1>3. \A e \in Host : InOrder(out[Other(e)], Held(e), sock[e], sent[e])'
  BY DEF IInv, RecvError, Held
<1>4. WaitSmall' BY <1>1, Types DEF IInv, WaitSmall, RecvError, BusyCount
<1> QED BY <1>2, <1>3, <1>4 DEF IInv

LEMMA ForwardInv ==
  ASSUME IInv, NEW d \in Host, ForwardPacket(d)
  PROVE  IInv'
<1> DEFINE p == Head(sock[d])
           o == out[Other(d)]
           taken == ~FileBuf.empty /\ FileBuf.destination = Other(d)
<1>1. TypeOK BY DEF IInv
<1>2. /\ sock' \in [Host -> Seq(1..MaxPackets)]
      /\ \A e \in Host : Len(sock'[e]) <= SocketCap
      /\ p \in 1..MaxPackets
      /\ sock[d] # <<>> /\ sock'[d] = Tail(sock[d]) /\ sock'[Other(d)] = sock[Other(d)]
  BY <1>1, ReadFacts DEF ForwardPacket
<1>3. /\ Other(d) \in Host /\ o \in Seq(1..MaxPackets)
      /\ Append(o, p) \in Seq(1..MaxPackets)
  BY <1>1, <1>2, HostFacts, SeqElem DEF TypeOK
<1>4. InOrder(o, Held(d), sock[d], sent[d]) BY DEF IInv
<1>5. /\ InOrder(Append(o, p), 0, Tail(sock[d]), sent[d])
      /\ Held(d) # 0 => InOrder(Append(Append(o, p), Held(d)), 0, Tail(sock[d]), sent[d])
  BY <1>1, <1>2, <1>4, Types, ForwardKeepsOrder
<1>6. sent' = sent /\ idle' = idle BY DEF ForwardPacket
<1>7. CASE taken
  <2>1. /\ wait_count' = 0
        /\ FileBuf' = [FileBuf EXCEPT !.empty = TRUE]
        /\ \/ out' = [out EXCEPT ![Other(d)] = Append(Append(o, p), FileBuf.packet)]
           \/ out' = [out EXCEPT ![Other(d)] = Append(o, p)]
    BY <1>7 DEF ForwardPacket, SendProc
  <2>2. Held(d) = FileBuf.packet /\ FileBuf.packet # 0 /\ FileBuf.packet \in 1..MaxPackets
    BY <1>1, <1>7, RouterAssumption DEF Held, IInv, WaitSmall, TypeOK
  <2>3. FileBuf'.empty /\ FileBuf'.destination = FileBuf.destination
        /\ FileBuf' \in [empty : BOOLEAN, destination : Host, packet : 0..MaxPackets]
    BY <2>1, <1>1 DEF TypeOK
  <2>4. Append(Append(o, p), FileBuf.packet) \in Seq(1..MaxPackets)
    BY <1>3, <2>2, SeqElem
  <2>5. out' \in [Host -> Seq(1..MaxPackets)] /\ out'[d] = out[d]
        /\ (out'[Other(d)] = Append(Append(o, p), FileBuf.packet) \/ out'[Other(d)] = Append(o, p))
    <3> HIDE DEF o, p
    <3>1. out \in [Host -> Seq(1..MaxPackets)] /\ Other(d) # d
      BY <1>1, HostFacts DEF TypeOK
    <3>2. ASSUME NEW q \in Seq(1..MaxPackets), out' = [out EXCEPT ![Other(d)] = q]
          PROVE  out' \in [Host -> Seq(1..MaxPackets)] /\ out'[d] = out[d] /\ out'[Other(d)] = q
      BY <1>3, <3>1, <3>2
    <3> QED BY <2>1, <2>4, <1>3, <3>2
  <2>6. TypeOK' BY <1>1, <1>2, <1>6, <2>1, <2>3, <2>5 DEF TypeOK
  <2>7. Held(d)' = 0 /\ Held(Other(d))' = 0 /\ Held(Other(d)) = 0
    BY <2>3, <1>7, HostFacts DEF Held
  <2>8. InOrder(out[Other(d)], Held(d), sock[d], sent[d])'
    BY <1>2, <1>5, <1>6, <2>2, <2>5, <2>7
  <2>9. \A e \in Host : InOrder(out[Other(e)], Held(e), sock[e], sent[e])'
    BY <1>2, <1>6, <2>5, <2>7, <2>8, OtherDirection DEF IInv
  <2>10. WaitSmall' BY <2>1, <2>3 DEF WaitSmall
  <2> QED BY <2>6, <2>9, <2>10 DEF IInv
<1>8. CASE ~taken
  <2>1. wait_count' = BusyCount /\ out' = [out EXCEPT ![Other(d)] = Append(o, p)]
        /\ FileBuf' = FileBuf
    BY <1>8 DEF ForwardPacket
  <2>2. out' \in [Host -> Seq(1..MaxPackets)] /\ out'[d] = out[d]
        /\ out'[Other(d)] = Append(o, p)
    BY <2>1, <1>1, <1>3, HostFacts DEF TypeOK
  <2>3. TypeOK' BY <1>1, <1>2, <1>6, <2>1, <2>2 DEF TypeOK, BusyCount
  <2>4. Held(d) = 0 /\ Held(d)' = 0 /\ Held(Other(d))' = Held(Other(d))
    BY <2>1, <1>8 DEF Held
  <2>5. InOrder(out[Other(d)], Held(d), sock[d], sent[d])'
    BY <1>2, <1>5, <1>6, <2>2, <2>4
  <2>6. \A e \in Host : InOrder(out[Other(e)], Held(e), sock[e], sent[e])'
    BY <1>2, <1>6, <2>2, <2>4, <2>5, OtherDirection DEF IInv
  <2>7. WaitSmall' BY <2>1, <1>1, <1>6, Types DEF IInv, WaitSmall, BusyCount
  <2> QED BY <2>3, <2>6, <2>7 DEF IInv
<1> QED BY <1>7, <1>8

LEMMA IdleInv ==
  ASSUME IInv, IdleCycle
  PROVE  IInv'
<1>1. TypeOK BY DEF IInv
<1>2. PICK d \in Host : Other(d) = FileBuf.destination
  BY <1>1, HostFacts DEF TypeOK
<1> DEFINE o == out[Other(d)]
<1>3. /\ ~FileBuf.empty /\ Held(d) = FileBuf.packet /\ Held(Other(d)) = 0
      /\ FileBuf.packet # 0 /\ FileBuf.packet \in 1..MaxPackets
  BY <1>1, <1>2, HostFacts, RouterAssumption DEF IdleCycle, Held, IInv, WaitSmall, TypeOK
<1>4. idle' = idle + 1 /\ idle <= 2 /\ idle <= wait_count /\ sock' = sock /\ sent' = sent
      /\ idle \in 0..3 /\ wait_count \in Nat
  BY <1>1, <1>3, Types DEF IdleCycle, IInv, WaitSmall, TypeOK
<1>5. CASE wait_count + 1 >= 3
  <2>1. /\ wait_count' = 0
        /\ FileBuf' = [FileBuf EXCEPT !.empty = TRUE]
        /\ \/ out' = [out EXCEPT ![Other(d)] = Append(o, FileBuf.packet)]
           \/ out' = [out EXCEPT ![Other(d)] = o]
    BY <1>2, <1>5 DEF IdleCycle, SendProc
  <2>2. FileBuf'.empty /\ FileBuf' \in [empty : BOOLEAN, destination : Host, packet : 0..MaxPackets]
    BY <2>1, <1>1 DEF TypeOK
  <2>3. o \in Seq(1..MaxPackets) /\ Append(o, FileBuf.packet) \in Seq(1..MaxPackets)
    BY <1>1, <1>3, HostFacts, SeqElem DEF TypeOK
  <2>4. out' \in [Host -> Seq(1..MaxPackets)] /\ out'[d] = out[d]
        /\ (out'[Other(d)] = Append(o, FileBuf.packet) \/ out'[Other(d)] = o)
    <3> HIDE DEF o
    <3>1. out \in [Host -> Seq(1..MaxPackets)] /\ Other(d) \in Host /\ Other(d) # d
      BY <1>1, HostFacts DEF TypeOK
    <3>2. ASSUME NEW q \in Seq(1..MaxPackets), out' = [out EXCEPT ![Other(d)] = q]
          PROVE  out' \in [Host -> Seq(1..MaxPackets)] /\ out'[d] = out[d] /\ out'[Other(d)] = q
      BY <3>1, <3>2
    <3> QED BY <2>1, <2>3, <3>2
  <2>5. TypeOK'
    <3>1. idle' \in 0..3 /\ wait_count' \in Nat BY <1>4, <2>1
    <3> QED BY <1>1, <1>4, <2>2, <2>4, <3>1 DEF TypeOK
  <2>6. Held(d)' = 0 /\ Held(Other(d))' = 0 BY <2>2 DEF Held
  <2>7. InOrder(out[Other(d)], Held(d), sock[d], sent[d])'
    <3>1. InOrder(o, 0, sock[d], sent[d])
          /\ InOrder(Append(o, FileBuf.packet), 0, sock[d], sent[d])
      BY <1>1, <1>3, Types, ReleaseKeepsOrder DEF IInv
    <3> QED BY <3>1, <1>4, <2>4, <2>6
  <2>8. \A e \in Host : InOrder(out[Other(e)], Held(e), sock[e], sent[e])'
    BY <1>3, <1>4, <2>4, <2>6, <2>7, OtherDirection DEF IInv
  <2>9. WaitSmall' BY <2>1, <2>2 DEF WaitSmall
  <2> QED BY <2>5, <2>8, <2>9 DEF IInv
<1>6. CASE ~(wait_count + 1 >= 3)
  <2>1. wait_count' = wait_count + 1 /\ FileBuf' = FileBuf /\ out' = out
    BY <1>6 DEF IdleCycle
  <2>2. TypeOK' BY <1>1, <1>4, <2>1 DEF TypeOK
  <2>3. \A e \in Host : InOrder(out[Other(e)], Held(e), sock[e], sent[e])'
    BY <1>4, <2>1 DEF IInv, Held
  <2>4. WaitSmall' BY <1>3, <1>4, <1>6, <2>1 DEF IInv, WaitSmall
  <2> QED BY <2>2, <2>3, <2>4 DEF IInv
<1> QED BY <1>5, <1>6

(* Every step of the router and of its peers keeps the order of both       *)
(* directions and the meaning of wait_count.                               *)
THEOREM RouterInvariant == Spec => []IInv
<1>1. IInv /\ [Next]_vars => IInv'
  <2> SUFFICES ASSUME IInv, [Next]_vars PROVE IInv'
    OBVIOUS
  <2>1. ASSUME NEW d \in Host, PeerSend(d) PROVE IInv' BY <2>1, PeerSendInv
  <2>2. ASSUME NEW d \in Host, Delay(d) PROVE IInv' BY <2>2, DelayInv
  <2>3. ASSUME NEW d \in Host, Damage(d) PROVE IInv' BY <2>3, DamageInv
  <2>4. ASSUME NEW d \in Host, ForwardPacket(d) PROVE IInv' BY <2>4, ForwardInv
  <2>5. ASSUME NEW d \in Host, RecvError(d) PROVE IInv' BY <2>5, RecvErrorInv
  <2>6. CASE IdleCycle BY <2>6, IdleInv
  <2>7. CASE UNCHANGED vars
    BY <2>7 DEF vars, IInv, TypeOK, Held, WaitSmall
  <2> QED BY <2>1, <2>2, <2>3, <2>4, <2>5, <2>6, <2>7 DEF Next, Run
<1> QED BY InitInv, <1>1, PTL DEF Spec

(* Types and bounds hold for every number of packets; in particular a      *)
(* packet is never held through more than three idle cycles.               *)
THEOREM RouterTypes == Spec => []TypeOK
<1>1. IInv => TypeOK BY DEF IInv
<1> QED BY <1>1, RouterInvariant, PTL

\* wait_count is 0 whenever FileBuf is empty.
THEOREM WaitCountRestarts == Spec => []WaitCountIsOfHeldPacket
<1>1. IInv => WaitCountIsOfHeldPacket BY DEF IInv, WaitSmall, WaitCountIsOfHeldPacket
<1> QED BY <1>1, RouterInvariant, PTL

(* The router never sends a packet twice, and never sends one it holds.    *)
THEOREM RouterNeverDuplicates == Spec => []NoDuplicate
<1>1. IInv => NoDuplicate
  <2> SUFFICES ASSUME IInv, NEW d \in Host
               PROVE  /\ \A i, j \in DOMAIN out[d] : i # j => out[d][i] # out[d][j]
                      /\ ~FileBuf.empty /\ FileBuf.destination = d =>
                           \A i \in DOMAIN out[d] : out[d][i] # FileBuf.packet
    BY DEF NoDuplicate
  <2> DEFINE e == Other(d)
  <2>1. e \in Host /\ Other(e) = d BY HostFacts
  <2>2. InOrder(out[d], Held(e), sock[e], sent[e]) BY <2>1 DEF IInv
  <2>3. out[d] \in Seq(1..MaxPackets) BY DEF IInv, TypeOK
  <2>4. DOMAIN out[d] = 1..Len(out[d]) /\ Len(out[d]) \in Nat
        /\ \A i \in 1..Len(out[d]) : out[d][i] \in 1..MaxPackets
    BY <2>3, SeqElem
  <2>5. \A i, j \in DOMAIN out[d] : i # j => out[d][i] # out[d][j]
    BY <2>2, <2>4 DEF InOrder, Distinct
  <2>6. ASSUME ~FileBuf.empty, FileBuf.destination = d
        PROVE  \A i \in DOMAIN out[d] : out[d][i] # FileBuf.packet
    <3>1. Held(e) = FileBuf.packet /\ FileBuf.packet # 0 /\ FileBuf.packet \in Nat
      BY <2>1, <2>6, Types DEF Held, IInv, WaitSmall
    <3> QED BY <2>2, <2>4, <3>1 DEF InOrder, UpTo
  <2> QED BY <2>5, <2>6
<1> QED BY <1>1, RouterInvariant, PTL

(* A packet is overtaken by at most one packet of its direction, however   *)
(* many there are (SendProc right after the forward).                      *)
THEOREM RouterOvertakesOnce == Spec => []OvertakenByOne
<1>1. IInv => OvertakenByOne
  <2> SUFFICES ASSUME IInv, NEW d \in Host
               PROVE  \A i, j \in DOMAIN out[d] : i + 2 <= j => out[d][i] < out[d][j]
    BY DEF OvertakenByOne
  <2> DEFINE e == Other(d)
  <2>1. e \in Host /\ Other(e) = d BY HostFacts
  <2>2. NearlyIncreasing(out[d]) BY <2>1 DEF IInv, InOrder
  <2>3. DOMAIN out[d] = 1..Len(out[d]) BY SeqElem DEF IInv, TypeOK
  <2> QED BY <2>2, <2>3 DEF NearlyIncreasing
<1> QED BY <1>1, RouterInvariant, PTL

(* Nothing overtakes a packet while FileBuf holds it: it is newer than all *)
(* that was sent to its destination.                                       *)
THEOREM RouterHoldsTheNewest == Spec => []HeldIsNewest
<1>1. IInv => HeldIsNewest
  <2> SUFFICES ASSUME IInv, ~FileBuf.empty, NEW i \in DOMAIN out[FileBuf.destination]
               PROVE  out[FileBuf.destination][i] < FileBuf.packet
    BY DEF HeldIsNewest
  <2> DEFINE d == FileBuf.destination
             e == Other(d)
  <2>1. d \in Host BY DEF IInv, TypeOK
  <2>2. e \in Host /\ Other(e) = d BY <2>1, HostFacts
  <2>3. InOrder(out[d], Held(e), sock[e], sent[e]) BY <2>2 DEF IInv
  <2>4. out[d] \in Seq(1..MaxPackets) BY <2>1 DEF IInv, TypeOK
  <2>5. DOMAIN out[d] = 1..Len(out[d]) /\ out[d][i] \in 1..MaxPackets BY <2>4, SeqElem
  <2>6. Held(e) = FileBuf.packet /\ FileBuf.packet # 0 /\ FileBuf.packet \in Nat
    BY <2>2, Types DEF Held, IInv, WaitSmall
  <2>7. UpTo(out[d], FileBuf.packet - 1) BY <2>3, <2>6 DEF InOrder
  <2>8. out[d][i] <= FileBuf.packet - 1 BY <2>5, <2>7 DEF UpTo
  <2> QED BY <2>5, <2>6, <2>8
<1> QED BY <1>1, RouterInvariant, PTL

-------------------------------------------------------------------------------
(* Each direction of the router implements the abstract link.  A step of   *)
(* the router is a Put of the packet it has read, a Release, or nothing,   *)
(* as one direction sees it.                                               *)
LEMMA HeldForFacts ==
  ASSUME TypeOK, NEW d \in Host
  PROVE  /\ HeldFor(d) # NoPacket <=> ~FileBuf.empty /\ FileBuf.destination = d
         /\ HeldFor(d) # NoPacket => HeldFor(d) = FileBuf.packet
  BY RouterAssumption DEF TypeOK, HeldFor

(* What a step of the router does to what travels to peer d: o and h are   *)
(* the link's queue and held packet.                                       *)
LinkStep(d) ==
  LET o == out[d]
      h == HeldFor(d)
  IN \/ \E p \in 1..MaxPackets :
          \/ /\ HeldFor(d)' = NoPacket
             /\ \/ out'[d] = Append(o, p)
                \/ h # NoPacket /\ out'[d] = Append(Append(o, p), h)
          \/ h = NoPacket /\ HeldFor(d)' = p /\ out'[d] = o
     \/ /\ h # NoPacket /\ HeldFor(d)' = NoPacket
        /\ out'[d] = o \/ out'[d] = Append(o, h)
     \/ out'[d] = o /\ HeldFor(d)' = h

LEMMA RunIsLinkStep ==
  ASSUME TypeOK, Next, NEW d \in Host
  PROVE  LinkStep(d)
<1>1. ASSUME NEW e \in Host, PeerSend(e) PROVE LinkStep(d)
  BY <1>1 DEF PeerSend, LinkStep, HeldFor
<1>2. ASSUME NEW e \in Host, Delay(e) PROVE LinkStep(d)
  <2>1. HeldFor(d) = NoPacket /\ out'[d] = out[d] BY <1>2 DEF Delay, HeldFor
  <2>2. Head(sock[e]) \in 1..MaxPackets BY <1>2, SeqElem DEF Delay, Readable, TypeOK
  <2>3. HeldFor(d)' = NoPacket \/ HeldFor(d)' = Head(sock[e]) BY <1>2 DEF Delay, HeldFor
  <2> QED BY <2>1, <2>2, <2>3 DEF LinkStep
<1>3. ASSUME NEW e \in Host, Damage(e) PROVE LinkStep(d)
  BY <1>3 DEF Damage, LinkStep, HeldFor
<1>4. ASSUME NEW e \in Host, ForwardPacket(e) PROVE LinkStep(d)
  <2> DEFINE p == Head(sock[e])
  <2>1. p \in 1..MaxPackets BY <1>4, SeqElem DEF ForwardPacket, Readable, TypeOK
  <2>2. Other(e) \in Host /\ (d # Other(e) => d = e) BY HostFacts
  <2>3. CASE ~FileBuf.empty /\ FileBuf.destination = Other(e)
    <3>1. /\ FileBuf' = [FileBuf EXCEPT !.empty = TRUE]
          /\ \/ out' = [out EXCEPT ![Other(e)] = Append(Append(out[Other(e)], p), FileBuf.packet)]
             \/ out' = [out EXCEPT ![Other(e)] = Append(out[Other(e)], p)]
      BY <1>4, <2>3 DEF ForwardPacket, SendProc
    <3>2. FileBuf'.empty BY <3>1 DEF TypeOK
    <3>3. HeldFor(d)' = NoPacket BY <3>2 DEF HeldFor
    <3> HIDE DEF p
    <3>4. CASE d = Other(e)
      <4>1. HeldFor(d) # NoPacket /\ HeldFor(d) = FileBuf.packet
        BY <2>3, <3>4, HeldForFacts
      <4>2. out'[d] = Append(Append(out[d], p), FileBuf.packet) \/ out'[d] = Append(out[d], p)
        BY <3>1, <3>4 DEF TypeOK
      <4> QED BY <2>1, <3>3, <4>1, <4>2 DEF LinkStep
    <3>5. CASE d # Other(e)
      <4>1. HeldFor(d) = NoPacket BY <2>3, <3>5 DEF HeldFor
      <4>2. out'[d] = out[d] BY <3>1, <3>5 DEF TypeOK
      <4> QED BY <3>3, <4>1, <4>2 DEF LinkStep
    <3> QED BY <3>4, <3>5
  <2>4. CASE ~(~FileBuf.empty /\ FileBuf.destination = Other(e))
    <3>1. FileBuf' = FileBuf /\ out' = [out EXCEPT ![Other(e)] = Append(out[Other(e)], p)]
      BY <1>4, <2>4 DEF ForwardPacket
    <3> HIDE DEF p
    <3>2. HeldFor(d)' = HeldFor(d) BY <3>1 DEF HeldFor
    <3>3. CASE d = Other(e)
      <4>1. HeldFor(d) = NoPacket BY <2>4, <3>3 DEF HeldFor
      <4>2. out'[d] = Append(out[d], p) BY <3>1, <3>3 DEF TypeOK
      <4> QED BY <2>1, <3>2, <4>1, <4>2 DEF LinkStep
    <3>4. CASE d # Other(e)
      <4>1. out'[d] = out[d] BY <3>1, <3>4 DEF TypeOK
      <4> QED BY <3>2, <4>1 DEF LinkStep
    <3> QED BY <3>3, <3>4
  <2> QED BY <2>3, <2>4
<1>5. ASSUME NEW e \in Host, RecvError(e) PROVE LinkStep(d)
  BY <1>5 DEF RecvError, LinkStep, HeldFor
<1>6. CASE IdleCycle
  <2>1. CASE wait_count + 1 >= 3
    <3>1. /\ FileBuf' = [FileBuf EXCEPT !.empty = TRUE]
          /\ \/ out' = [out EXCEPT ![FileBuf.destination] = Append(out[FileBuf.destination], FileBuf.packet)]
             \/ out' = [out EXCEPT ![FileBuf.destination] = out[FileBuf.destination]]
      BY <1>6, <2>1 DEF IdleCycle, SendProc
    <3>2. FileBuf'.empty /\ ~FileBuf.empty BY <1>6, <3>1 DEF TypeOK, IdleCycle
    <3>3. HeldFor(d)' = NoPacket BY <3>2 DEF HeldFor
    <3>4. CASE d = FileBuf.destination
      <4>1. HeldFor(d) # NoPacket /\ HeldFor(d) = FileBuf.packet BY <3>2, <3>4, HeldForFacts
      <4>2. out'[d] = Append(out[d], FileBuf.packet) \/ out'[d] = out[d]
        BY <3>1, <3>4 DEF TypeOK
      <4> QED BY <3>3, <4>1, <4>2 DEF LinkStep
    <3>5. CASE d # FileBuf.destination
      <4>1. HeldFor(d) = NoPacket BY <3>5 DEF HeldFor
      <4>2. out'[d] = out[d] BY <3>1, <3>5 DEF TypeOK
      <4> QED BY <3>3, <4>1, <4>2 DEF LinkStep
    <3> QED BY <3>4, <3>5
  <2>2. CASE ~(wait_count + 1 >= 3)
    BY <1>6, <2>2 DEF IdleCycle, LinkStep, HeldFor
  <2> QED BY <2>1, <2>2
<1> QED BY <1>1, <1>2, <1>3, <1>4, <1>5, <1>6 DEF Next, Run

(* The router implements the abstract link towards peer 1.                 *)
THEOREM RouterImplementsLink1 == Spec => ImplementsLink1
<1>1. Init => Link1!LinkInit
  BY DEF Init, Link1!LinkInit, HeldFor, Host
<1>2. TypeOK /\ [Next]_vars => [Link1!LinkNext]_(Link1!lvars)
  <2> SUFFICES ASSUME TypeOK, [Next]_vars PROVE [Link1!LinkNext]_(Link1!lvars)
    OBVIOUS
  <2>1. CASE UNCHANGED vars
    BY <2>1 DEF vars, Link1!lvars, HeldFor
  <2>2. CASE Next
    <3>1. out[1] \in Seq(1..MaxPackets) /\ 1 \in Host BY DEF TypeOK, Host
    <3>2. Len(out[1]) \in Nat /\ \A p \in 1..MaxPackets : Len(Append(out[1], p)) \in Nat
      BY <3>1, SeqElem
    <3>3. LinkStep(1) BY <2>2, <3>1, RunIsLinkStep
    <3>4. /\ \A x : Link1!Arrive(out[1], x) = Append(out[1], x)
          /\ \A p \in 1..MaxPackets : \A x :
               Link1!Arrive(Link1!Arrive(out[1], p), x) = Append(Append(out[1], p), x)
      BY <3>2 DEF Link1!Arrive
    <3>5. CASE \E p \in 1..MaxPackets :
                 /\ HeldFor(1)' = NoPacket
                 /\ \/ out'[1] = Append(out[1], p)
                    \/ HeldFor(1) # NoPacket /\ out'[1] = Append(Append(out[1], p), HeldFor(1))
      <4>1. PICK p \in 1..MaxPackets : Link1!Forward(p)
        BY <3>4, <3>5 DEF Link1!Forward
      <4> QED BY <4>1 DEF Link1!LinkNext, Link1!Put
    <3>6. CASE \E p \in 1..MaxPackets :
                 HeldFor(1) = NoPacket /\ HeldFor(1)' = p /\ out'[1] = out[1]
      BY <3>6 DEF Link1!LinkNext, Link1!Put, Link1!Hold
    <3>7. CASE /\ HeldFor(1) # NoPacket /\ HeldFor(1)' = NoPacket
               /\ out'[1] = out[1] \/ out'[1] = Append(out[1], HeldFor(1))
      BY <3>4, <3>7 DEF Link1!LinkNext, Link1!Release
    <3>8. CASE out'[1] = out[1] /\ HeldFor(1)' = HeldFor(1)
      BY <3>8 DEF Link1!lvars
    <3> QED BY <3>3, <3>5, <3>6, <3>7, <3>8 DEF LinkStep
  <2> QED BY <2>1, <2>2
<1> QED BY <1>1, <1>2, RouterTypes, PTL DEF Spec, ImplementsLink1, Link1!LinkSpec

(* The router implements the abstract link towards peer 2.                 *)
THEOREM RouterImplementsLink2 == Spec => ImplementsLink2
<1>1. Init => Link2!LinkInit
  BY DEF Init, Link2!LinkInit, HeldFor, Host
<1>2. TypeOK /\ [Next]_vars => [Link2!LinkNext]_(Link2!lvars)
  <2> SUFFICES ASSUME TypeOK, [Next]_vars PROVE [Link2!LinkNext]_(Link2!lvars)
    OBVIOUS
  <2>1. CASE UNCHANGED vars
    BY <2>1 DEF vars, Link2!lvars, HeldFor
  <2>2. CASE Next
    <3>1. out[2] \in Seq(1..MaxPackets) /\ 2 \in Host BY DEF TypeOK, Host
    <3>2. Len(out[2]) \in Nat /\ \A p \in 1..MaxPackets : Len(Append(out[2], p)) \in Nat
      BY <3>1, SeqElem
    <3>3. LinkStep(2) BY <2>2, <3>1, RunIsLinkStep
    <3>4. /\ \A x : Link2!Arrive(out[2], x) = Append(out[2], x)
          /\ \A p \in 1..MaxPackets : \A x :
               Link2!Arrive(Link2!Arrive(out[2], p), x) = Append(Append(out[2], p), x)
      BY <3>2 DEF Link2!Arrive
    <3>5. CASE \E p \in 1..MaxPackets :
                 /\ HeldFor(2)' = NoPacket
                 /\ \/ out'[2] = Append(out[2], p)
                    \/ HeldFor(2) # NoPacket /\ out'[2] = Append(Append(out[2], p), HeldFor(2))
      <4>1. PICK p \in 1..MaxPackets : Link2!Forward(p)
        BY <3>4, <3>5 DEF Link2!Forward
      <4> QED BY <4>1 DEF Link2!LinkNext, Link2!Put
    <3>6. CASE \E p \in 1..MaxPackets :
                 HeldFor(2) = NoPacket /\ HeldFor(2)' = p /\ out'[2] = out[2]
      BY <3>6 DEF Link2!LinkNext, Link2!Put, Link2!Hold
    <3>7. CASE /\ HeldFor(2) # NoPacket /\ HeldFor(2)' = NoPacket
               /\ out'[2] = out[2] \/ out'[2] = Append(out[2], HeldFor(2))
      BY <3>4, <3>7 DEF Link2!LinkNext, Link2!Release
    <3>8. CASE out'[2] = out[2] /\ HeldFor(2)' = HeldFor(2)
      BY <3>8 DEF Link2!lvars
    <3> QED BY <3>3, <3>5, <3>6, <3>7, <3>8 DEF LinkStep
  <2> QED BY <2>1, <2>2
<1> QED BY <1>1, <1>2, RouterTypes, PTL DEF Spec, ImplementsLink2, Link2!LinkSpec
===============================================================================
