-------------------------- MODULE SockTransferProofs --------------------------
(***************************************************************************)
(* The sender's and the receiver's bookkeeping, proved for every window    *)
(* size W, every number M > W of sequence numbers, every file and every    *)
(* number of retries: the types, and that the window always holds a run of *)
(* consecutive packets ending with the one stamped last.                   *)
(*                                                                         *)
(* The window is needed for the types: remove_packets_from_win finds a     *)
(* packet by its number modulo M, and only because the packets in use are  *)
(* consecutive and fewer than M is the slot it finds the only one.         *)
(***************************************************************************)
EXTENDS SockTransfer, FiniteSetTheorems, TLAPS

\* While a retry is being counted, and only then, retryCnt may be 0.
RetriesLeft ==
  /\ resend => spc = "burst"
  /\ spc # "sack" /\ ~resend => retryCnt > 0

\* srv_wait4cnn has a round left while it runs.
RoundsLeft == rpc \in {"recv", "linger"} => rounds > 0

\* Every chunk stamped has been read.
StampedIsRead == Len(stamp) < next

\* recv_file counts the chunks it has written.
GotCounted ==
  /\ expected = First + Len(got)
  /\ Len(got) <= Chunks
  /\ rpc = "recv" => Len(got) < Chunks

\* The packets that may be on their way: no number that was not stamped.
Known == {p \in DataPacket : p.type = "REQUEST" => p.id < seq}

DataStamped == dataQ \in Seq(Known) /\ dataHeld \in Known \cup {NoPacket}

\* The same for the slots, stale ones included; the first was written long ago.
SlotsStamped ==
  /\ \A k \in 1..W : winBuf[k] # NoPacket => winBuf[k] < seq
  /\ winBuf[1] # NoPacket

IInv == /\ TypeOK /\ WindowIsConsecutive
        /\ RetriesLeft /\ RoundsLeft /\ StampedIsRead /\ GotCounted
        /\ DataStamped /\ SlotsStamped

-------------------------------------------------------------------------------
\* Numbers that differ by less than M have different remainders.
LEMMA Nonlin ==
  ASSUME NEW m \in Nat \ {0}, NEW q \in Int, NEW r \in Int, q < r
  PROVE  m * q + m <= m * r
  OBVIOUS

LEMMA DivMod ==
  ASSUME NEW m \in Nat \ {0}, NEW a \in Int
  PROVE  /\ (a \div m) \in Int /\ (a % m) \in 0..(m - 1)
         /\ a = m * (a \div m) + (a % m)
  BY SMT

LEMMA ModInj ==
  ASSUME NEW m \in Nat \ {0}, NEW a \in Int, NEW b \in Int,
         (a % m) = (b % m), a - b < m, b - a < m
  PROVE  a = b
<1> DEFINE q == a \div m
           r == b \div m
<1>1. /\ q \in Int /\ r \in Int /\ (a % m) \in Int
      /\ a = m * q + (a % m) /\ b = m * r + (b % m)
  BY DivMod
<1> HIDE DEF q, r
<1>2. CASE q < r BY <1>1, <1>2, Nonlin
<1>3. CASE r < q BY <1>1, <1>3, Nonlin
<1>4. CASE q = r BY <1>1, <1>4
<1> QED BY <1>1, <1>2, <1>3, <1>4

LEMMA SentFacts ==
  /\ Sent \in Nat \ {0} /\ Chunks <= Sent
  /\ M \in Nat \ {0} /\ W \in Nat \ {0} /\ W < M /\ First \in Nat \ {0}
  /\ Ids \subseteq Nat /\ NoPacket \notin Ids
BY TransferAssumption DEF Sent, Ids

\* The slot a search finds is in use and carries the number.
LEMMA FirstSlotFound ==
  ASSUME WindowTypeOK, WindowIsConsecutive, NEW n \in Int, SlotsWith(n) # {}
  PROVE  FirstSlot(n) \in 1..winBufPos /\ Seq5(winBuf[FirstSlot(n)]) = n
<1>1. PICK k \in SlotsWith(n) : TRUE OBVIOUS
<1>2. Base \in Int
  BY SentFacts DEF WindowTypeOK, Base, seq
<1>3. winBufPos \in 0..W BY DEF WindowTypeOK
<1>4. \A j \in SlotsWith(n) : j = k
  <2> TAKE j \in SlotsWith(n)
  <2>1. /\ j \in 1..winBufPos /\ k \in 1..winBufPos
        /\ (winBuf[j] % M) = (winBuf[k] % M)
        /\ winBuf[j] = Base + j - 1 /\ winBuf[k] = Base + k - 1
    BY <1>1 DEF SlotsWith, Seq5, WindowIsConsecutive
  <2>2. winBuf[j] = winBuf[k]
    <3>1. winBuf[j] \in Int /\ winBuf[k] \in Int
      BY <1>2, <1>3, <2>1
    <3>2. winBuf[j] - winBuf[k] < M /\ winBuf[k] - winBuf[j] < M
      BY <1>2, <1>3, <2>1, SentFacts
    <3> QED BY <2>1, <3>1, <3>2, SentFacts, ModInj
  <2> QED BY <2>1, <2>2, <1>2, <1>3
<1>5. FirstSlot(n) \in SlotsWith(n)
  <2>1. k \in SlotsWith(n) /\ \A j \in SlotsWith(n) : k <= j
    BY <1>1, <1>3, <1>4 DEF SlotsWith
  <2> QED BY <2>1 DEF FirstSlot
<1> QED BY <1>5 DEF SlotsWith
-------------------------------------------------------------------------------
\* Where a call of send_all_win_packets ends and the next one starts.
CallLocals ==
  /\ spc' \in {"read", "burst", "top", "done"}
  /\ i' = 1 /\ resend' = FALSE /\ arrACK' = {} /\ waitForACK' = FALSE
  /\ retryCnt' = MaxRetry

LEMMA EnterSets ==
  ASSUME EnterSendAll
  PROVE  CallLocals
BY DEF EnterSendAll, CallLocals

LEMMA ReturnSets ==
  ASSUME NEW v \in Int, SendAllReturns(v), ret \in {-1, 0, 1}
  PROVE  CallLocals /\ ret' \in {-1, 0, 1}
BY EnterSets DEF SendAllReturns, LeaveSendAll, CallLocals

\* The sender's control state after a step that ends or starts a call.
LEMMA LocalsTyped ==
  ASSUME CallLocals, ret' \in {-1, 0, 1}, next' \in 1..(Sent + 1),
         drain' \in BOOLEAN, abandoned' \in BOOLEAN
  PROVE  SenderTypeOK' /\ RetriesLeft'
<1>1. 1 \in 1..W /\ MaxRetry \in 0..MaxRetry /\ MaxRetry > 0
  BY TransferAssumption
<1> QED BY <1>1 DEF CallLocals, SenderTypeOK, RetriesLeft, SenderPlace

\* Removing the first k packets of the window.
LEMMA RemoveStep ==
  ASSUME WindowTypeOK, WindowIsConsecutive, SlotsStamped,
         NEW k \in 0..winBufPos, Remove(k), UNCHANGED stamp
  PROVE  WindowTypeOK' /\ WindowIsConsecutive' /\ SlotsStamped'
<1>1. /\ winBufPos \in 0..W /\ winBufPos' = winBufPos - k /\ stamp' = stamp
      /\ winBufPos' \in 0..W
      /\ \A s \in 1..W : s <= winBufPos - k => s + k \in 1..W
  BY SentFacts DEF Remove, WindowTypeOK
<1>2. \A s \in 1..W : winBuf'[s] = IF s <= winBufPos - k THEN winBuf[s + k] ELSE winBuf[s]
  BY DEF Remove
<1>3. winBuf' \in [1..W -> Ids \cup {NoPacket}]
  BY <1>1 DEF Remove, WindowTypeOK
<1>4. \A s \in 1..winBufPos' : winBuf'[s] # NoPacket
  BY <1>1, <1>2, SentFacts DEF WindowTypeOK
<1>5. WindowTypeOK'
  BY <1>1, <1>3, <1>4 DEF WindowTypeOK
<1>6. Base' = Base + k
  BY <1>1, SentFacts DEF Base, seq, WindowTypeOK
<1>7. WindowIsConsecutive'
  <2>1. SUFFICES ASSUME NEW s \in 1..winBufPos' PROVE winBuf'[s] = Base' + s - 1
    BY DEF WindowIsConsecutive
  <2>2. winBuf'[s] = winBuf[s + k] /\ s + k \in 1..winBufPos
    BY <1>1, <1>2, SentFacts
  <2>3. winBuf[s + k] = Base + (s + k) - 1
    BY <2>2 DEF WindowIsConsecutive
  <2>4. Base \in Int BY <1>1, SentFacts DEF Base, seq, WindowTypeOK
  <2> QED BY <2>2, <2>3, <2>4, <1>1, <1>6
<1>8. SlotsStamped'
  <2>1. winBuf'[1] # NoPacket
    BY <1>1, <1>2, SentFacts DEF SlotsStamped, WindowTypeOK
  <2> QED BY <1>1, <1>2, <2>1 DEF SlotsStamped, seq
<1> QED BY <1>5, <1>7, <1>8

LEMMA NotFoundStep ==
  ASSUME WindowTypeOK, WindowIsConsecutive, SlotsStamped, abandoned \in BOOLEAN,
         NEW n \in Int, RemoveNotFound(n), UNCHANGED stamp
  PROVE  /\ WindowTypeOK' /\ WindowIsConsecutive' /\ SlotsStamped'
         /\ abandoned' \in BOOLEAN
<1>1. PICK match \in MatchesBehind(n) :
        /\ winBufPos' = IF match THEN 0 ELSE winBufPos
        /\ abandoned' = (abandoned \/ (match /\ winBufPos > 0))
  BY DEF RemoveNotFound
<1>2. winBuf' = winBuf /\ stamp' = stamp BY DEF RemoveNotFound
<1>3. winBufPos' = 0 \/ winBufPos' = winBufPos BY <1>1
<1>4. WindowTypeOK'
  BY <1>2, <1>3, SentFacts DEF WindowTypeOK
<1>5. WindowIsConsecutive'
  BY <1>2, <1>3 DEF WindowIsConsecutive, Base, seq
<1>6. SlotsStamped' BY <1>2 DEF SlotsStamped, seq
<1> QED BY <1>1, <1>4, <1>5, <1>6

\* The slots marked from the first on are some of those in use.
LEMMA PrefixCounted ==
  ASSUME WindowTypeOK, NEW marks
  PROVE  Cardinality(AckedPrefix(marks)) \in 0..winBufPos
<1>1. winBufPos \in Nat BY SentFacts DEF WindowTypeOK
<1>2. IsFiniteSet(1..winBufPos) /\ Cardinality(1..winBufPos) = winBufPos
  BY <1>1, FS_Interval
<1>3. AckedPrefix(marks) \in SUBSET (1..winBufPos) BY DEF AckedPrefix
<1>4. /\ IsFiniteSet(AckedPrefix(marks))
      /\ Cardinality(AckedPrefix(marks)) <= Cardinality(1..winBufPos)
  BY <1>2, <1>3, FS_Subset
<1> QED BY <1>1, <1>2, <1>4, FS_CardinalityType
-------------------------------------------------------------------------------
\* The links carry what is put into them.
LEMMA SeqGrows ==
  ASSUME NEW S, NEW T, S \subseteq T, NEW q \in Seq(S)
  PROVE  q \in Seq(T)
OBVIOUS

LEMMA SeqElement ==
  ASSUME NEW S, NEW q \in Seq(S), NEW k \in 1..Len(q)
  PROVE  q[k] \in S
OBVIOUS

LEMMA SeqAppended ==
  ASSUME NEW S, NEW q \in Seq(S), NEW e \in S
  PROVE  Append(q, e) \in Seq(S) /\ Len(Append(q, e)) = Len(q) + 1
OBVIOUS

LEMMA ArriveTyped ==
  ASSUME NEW S, NEW q \in Seq(S), NEW p \in S
  PROVE  Data!Arrive(q, p) \in Seq(S) /\ Ack!Arrive(q, p) \in Seq(S)
BY DEF Data!Arrive, Ack!Arrive

LEMMA DataPut ==
  ASSUME NEW S, dataQ \in Seq(S), dataHeld \in S \cup {NoPacket}, NEW p \in S,
         Data!Put(p)
  PROVE  dataQ' \in Seq(S) /\ dataHeld' \in S \cup {NoPacket}
<1>1. CASE Data!Forward(p)
  <2>1. Data!Arrive(dataQ, p) \in Seq(S) BY ArriveTyped
  <2>2. dataHeld # NoPacket => Data!Arrive(Data!Arrive(dataQ, p), dataHeld) \in Seq(S)
    BY <2>1, ArriveTyped
  <2> QED BY <1>1, <2>1, <2>2 DEF Data!Forward
<1>2. CASE Data!Lose BY <1>2 DEF Data!Lose, Data!lvars
<1>3. CASE Data!Hold(p) BY <1>3 DEF Data!Hold
<1> QED BY <1>1, <1>2, <1>3 DEF Data!Put

LEMMA AckPut ==
  ASSUME NEW S, ackQ \in Seq(S), ackHeld \in S \cup {NoPacket}, NEW p \in S,
         Ack!Put(p)
  PROVE  ackQ' \in Seq(S) /\ ackHeld' \in S \cup {NoPacket}
<1>1. CASE Ack!Forward(p)
  <2>1. Ack!Arrive(ackQ, p) \in Seq(S) BY ArriveTyped
  <2>2. ackHeld # NoPacket => Ack!Arrive(Ack!Arrive(ackQ, p), ackHeld) \in Seq(S)
    BY <2>1, ArriveTyped
  <2> QED BY <1>1, <2>1, <2>2 DEF Ack!Forward
<1>2. CASE Ack!Lose BY <1>2 DEF Ack!Lose, Ack!lvars
<1>3. CASE Ack!Hold(p) BY <1>3 DEF Ack!Hold
<1> QED BY <1>1, <1>2, <1>3 DEF Ack!Put

LEMMA DataTake ==
  ASSUME NEW S, dataQ \in Seq(S), dataHeld \in S \cup {NoPacket}, NEW p, Data!Take(p)
  PROVE  p \in S /\ dataQ' \in Seq(S) /\ dataHeld' = dataHeld
BY DEF Data!Take

LEMMA AckTake ==
  ASSUME NEW S, ackQ \in Seq(S), ackHeld \in S \cup {NoPacket}, NEW p, Ack!Take(p)
  PROVE  p \in S /\ ackQ' \in Seq(S) /\ ackHeld' = ackHeld
BY DEF Ack!Take

LEMMA ReleaseTyped ==
  ASSUME NEW S
  PROVE  /\ dataQ \in Seq(S) /\ dataHeld \in S \cup {NoPacket} /\ Data!Release
              => dataQ' \in Seq(S) /\ dataHeld' \in S \cup {NoPacket}
         /\ ackQ \in Seq(S) /\ ackHeld \in S \cup {NoPacket} /\ Ack!Release
              => ackQ' \in Seq(S) /\ ackHeld' \in S \cup {NoPacket}
BY ArriveTyped DEF Data!Release, Ack!Release

-------------------------------------------------------------------------------
\* The part of the invariant that speaks of the sender.
SenderInv == /\ SenderTypeOK /\ RetriesLeft /\ StampedIsRead
             /\ WindowTypeOK /\ WindowIsConsecutive /\ SlotsStamped

LEMMA ReadChunkStep ==
  ASSUME SenderInv, ReadChunk
  PROVE  SenderInv'
<1>1. /\ next' = next + 1 /\ next <= Sent /\ next \in 1..(Sent + 1)
      /\ winBufPos \in 0..W /\ Len(stamp) \in Nat /\ Len(stamp) < next
      /\ stamp \in Seq(1..Sent) /\ seq = First + Len(stamp)
      /\ spc = "read" /\ UNCHANGED <<drain, ret, abandoned>>
  BY DEF SenderInv, SenderTypeOK, WindowTypeOK, StampedIsRead, ReadChunk, seq
<1>2. SenderTypeOK' /\ RetriesLeft'
  <2>1. next' \in 1..(Sent + 1) /\ drain' \in BOOLEAN /\ abandoned' \in BOOLEAN
        /\ ret' \in {-1, 0, 1}
    BY <1>1, SentFacts DEF SenderInv, SenderTypeOK
  <2>2. CASE winBufPos' = W BY <2>1, <2>2, EnterSets, LocalsTyped DEF ReadChunk
  <2>3. CASE winBufPos' # W
    <3>1. UNCHANGED <<spc, i, resend, arrACK, waitForACK, retryCnt>>
      BY <2>3 DEF ReadChunk
    <3> QED BY <3>1, <2>1 DEF SenderInv, SenderTypeOK, RetriesLeft
  <2> QED BY <2>2, <2>3
<1>3. StampedIsRead' /\ WindowTypeOK' /\ WindowIsConsecutive' /\ SlotsStamped'
  <2>1. CASE winBufPos < W
    <3>1. /\ winBuf' = [winBuf EXCEPT ![winBufPos + 1] = seq]
          /\ winBufPos' = winBufPos + 1 /\ stamp' = Append(stamp, next)
      BY <2>1 DEF ReadChunk
    <3>2. /\ winBufPos + 1 \in 1..W /\ winBufPos' \in 0..W
          /\ seq \in Ids /\ seq # NoPacket /\ next \in 1..Sent
      <4>1. seq \in (First - 1)..(First + Sent) BY <1>1, SentFacts
      <4>2. seq \in Ids BY <4>1 DEF Ids
      <4> QED BY <1>1, <2>1, <3>1, <4>2, SentFacts
    <3>3. /\ stamp' \in Seq(1..Sent) /\ Len(stamp') = Len(stamp) + 1
          /\ seq' = seq + 1 /\ Base' = Base
      BY <1>1, <3>1, <3>2, SentFacts DEF seq, Base
    <3>4. \A s \in 1..W : winBuf'[s] = IF s = winBufPos + 1 THEN seq ELSE winBuf[s]
      BY <3>1 DEF SenderInv, WindowTypeOK
    <3>5. WindowTypeOK'
      BY <1>1, <3>1, <3>2, <3>3, <3>4, SentFacts DEF SenderInv, WindowTypeOK
    <3>6. WindowIsConsecutive'
      <4>1. SUFFICES ASSUME NEW s \in 1..winBufPos' PROVE winBuf'[s] = Base' + s - 1
        BY DEF WindowIsConsecutive
      <4>2. Base = seq - winBufPos /\ seq \in Int BY <1>1, SentFacts DEF Base
      <4>3. CASE s = winBufPos + 1
        BY <1>1, <3>2, <3>3, <3>4, <4>2, <4>3
      <4>4. CASE s \in 1..winBufPos
        <5>1. winBuf[s] = Base + s - 1 BY <4>4 DEF SenderInv, WindowIsConsecutive
        <5> QED BY <1>1, <3>3, <3>4, <4>4, <5>1, SentFacts
      <4> QED BY <1>1, <3>1, <4>3, <4>4
    <3>7. SlotsStamped'
      <4>1. winBuf'[1] # NoPacket
        BY <3>2, <3>4, SentFacts DEF SenderInv, SlotsStamped
      <4>2. SUFFICES ASSUME NEW s \in 1..W, winBuf'[s] # NoPacket
                     PROVE  winBuf'[s] < seq + 1
        BY <3>3, <4>1 DEF SlotsStamped
      <4>3. seq \in Int BY <1>1, SentFacts
      <4>4. CASE s # winBufPos + 1
        <5>1. winBuf[s] < seq /\ winBuf[s] \in Nat
          BY <3>4, <4>2, <4>4, SentFacts DEF SenderInv, SlotsStamped, WindowTypeOK
        <5> QED BY <3>4, <4>3, <4>4, <5>1
      <4> QED BY <3>4, <4>3, <4>4
    <3> QED BY <1>1, <3>3, <3>5, <3>6, <3>7 DEF StampedIsRead
  <2>2. CASE winBufPos >= W
    <3>1. UNCHANGED <<winBuf, winBufPos, stamp>>
      BY <1>1, <2>2, SentFacts DEF ReadChunk
    <3> QED BY <1>1, <3>1 DEF SenderInv, StampedIsRead, WindowTypeOK,
                              WindowIsConsecutive, SlotsStamped, Base, seq
  <2> QED BY <1>1, <2>1, <2>2, SentFacts
<1> QED BY <1>2, <1>3 DEF SenderInv
\* Steps that leave the window alone.
WindowInv == StampedIsRead /\ WindowTypeOK /\ WindowIsConsecutive /\ SlotsStamped

LEMMA WindowStutter ==
  ASSUME WindowInv, UNCHANGED <<next, winBuf, winBufPos, stamp>>
  PROVE  WindowInv'
BY DEF WindowInv, StampedIsRead, WindowTypeOK, WindowIsConsecutive, SlotsStamped, Base, seq

LEMMA ReturnStep ==
  ASSUME SenderInv, NEW v \in Int, SendAllReturns(v), UNCHANGED <<next, drain>>,
         abandoned' \in BOOLEAN
  PROVE  SenderTypeOK' /\ RetriesLeft'
<1>1. ret \in {-1, 0, 1} /\ next' \in 1..(Sent + 1) /\ drain' \in BOOLEAN
  BY DEF SenderInv, SenderTypeOK
<1> QED BY <1>1, ReturnSets, LocalsTyped

LEMMA SendingStep ==
  ASSUME SenderInv,
         StartDrain \/ BurstSend \/ ResendLast \/ SendLast \/ Timeout \/ SendSack
           \/ RecvAckOfEmptyWindow \/ SenderError
  PROVE  SenderInv'
<1>1. WindowInv BY DEF SenderInv, WindowInv
<1>2. /\ winBufPos \in 0..W /\ i \in 1..W /\ next \in 1..(Sent + 1)
      /\ ret \in {-1, 0, 1} /\ drain \in BOOLEAN /\ abandoned \in BOOLEAN
      /\ retryCnt \in 0..MaxRetry
  BY DEF SenderInv, SenderTypeOK, WindowTypeOK
<1>3. ASSUME SenderTypeOK', RetriesLeft', UNCHANGED <<next, winBuf, winBufPos, stamp>>
      PROVE  SenderInv'
  BY <1>1, <1>3, WindowStutter DEF SenderInv, WindowInv
<1>4. CASE StartDrain
  BY <1>2, <1>3, <1>4, EnterSets, LocalsTyped DEF StartDrain
<1>5. CASE BurstSend
  <2>1. /\ UNCHANGED <<next, drain, winBuf, winBufPos, resend, arrACK, waitForACK, retryCnt,
                       ret, stamp, abandoned>>
        /\ spc = "burst" /\ i < winBufPos
        /\ \/ i' = i + 1 /\ spc' = spc
           \/ i' = 1 /\ spc' = "top" /\ ~resend
    BY <1>5 DEF BurstSend
  <2>2. i' \in 1..W BY <1>2, <2>1, SentFacts
  <2> QED BY <1>3, <2>1, <2>2 DEF SenderInv, SenderTypeOK, RetriesLeft, SenderPlace
<1>6. CASE ResendLast
  <2>1. /\ UNCHANGED <<next, drain, winBuf, winBufPos, arrACK, waitForACK, retryCnt,
                       ret, stamp, abandoned>>
        /\ i' = 1 /\ resend' = FALSE
    BY <1>6 DEF ResendLast
  <2>2. \/ spc' = "sack"
        \/ (spc' = "recv" \/ spc' = "top") /\ retryCnt # 0
    <3>1. spc' = IF retryCnt = 0 THEN "sack" ELSE IF waitForACK THEN "recv" ELSE "top"
      BY <1>6 DEF ResendLast
    <3> QED BY <3>1
  <2>3. i' \in 1..W BY <2>1, SentFacts
  <2>4. SenderTypeOK'
    BY <2>1, <2>3, <2>2 DEF SenderInv, SenderTypeOK, SenderPlace
  <2>5. RetriesLeft'
    BY <1>2, <2>1, <2>2, TransferAssumption DEF RetriesLeft
  <2> QED BY <1>3, <2>1, <2>4, <2>5
<1>7. CASE SendLast
  BY <1>3, <1>7 DEF SendLast, SenderInv, SenderTypeOK, RetriesLeft, SenderPlace
<1>8. CASE Timeout
  <2>1. retryCnt > 0 BY <1>8 DEF Timeout, SenderInv, RetriesLeft
  <2>2. i' \in 1..W /\ retryCnt' \in 0..MaxRetry
    BY <1>2, <1>8, <2>1, SentFacts, TransferAssumption DEF Timeout
  <2> QED BY <1>3, <1>8, <2>2 DEF Timeout, SenderInv, SenderTypeOK, RetriesLeft, SenderPlace
<1>9. CASE SendSack BY <1>2, <1>3, <1>9, ReturnStep DEF SendSack
<1>10. CASE RecvAckOfEmptyWindow
  BY <1>2, <1>3, <1>10, ReturnStep DEF RecvAckOfEmptyWindow
<1>11. CASE SenderError BY <1>2, <1>3, <1>11, ReturnStep DEF SenderError
<1> QED BY <1>4, <1>5, <1>6, <1>7, <1>8, <1>9, <1>10, <1>11

LEMMA AckIdTyped ==
  ASSUME NEW m \in AckPacket
  PROVE  m.id \in Int
<1>1. m.id \in Ids BY DEF AckPacket
<1>2. m.id \in Nat BY <1>1, SentFacts, Zenon
<1> QED BY <1>2

LEMMA Seq5Typed ==
  ASSUME NEW a \in Int
  PROVE  Seq5(a) \in Int
<1>1. (a % M) \in 0..(M - 1) BY SentFacts, DivMod
<1> QED BY <1>1, SentFacts DEF Seq5

LEMMA RecvNackStep ==
  ASSUME SenderInv, LinksTypeOK, RecvNack
  PROVE  SenderInv'
<1>1. PICK m \in AckPacket :
        LET n == Seq5(m.id - 1) IN
        IF SlotsWith(n) # {} THEN Remove(FirstSlot(n)) ELSE RemoveNotFound(n)
  BY DEF RecvNack
<1> DEFINE n == Seq5(m.id - 1)
<1>2. n \in Int
  <2>1. m.id - 1 \in Int BY AckIdTyped
  <2> QED BY <2>1, Seq5Typed
<1>3. /\ UNCHANGED <<next, drain, stamp>> /\ SendAllReturns(winBufPos')
      /\ abandoned \in BOOLEAN /\ winBufPos \in 0..W /\ Len(stamp) < next
  BY DEF RecvNack, SenderInv, SenderTypeOK, WindowTypeOK, StampedIsRead
<1>4. WindowTypeOK' /\ WindowIsConsecutive' /\ SlotsStamped' /\ abandoned' \in BOOLEAN
  <2>1. CASE SlotsWith(n) # {}
    <3>1. Remove(FirstSlot(n)) BY <1>1, <2>1
    <3>2. FirstSlot(n) \in 0..winBufPos
      BY <1>2, <1>3, <2>1, FirstSlotFound, SentFacts DEF SenderInv
    <3>3. abandoned' = abandoned BY <3>1 DEF Remove
    <3> QED BY <1>3, <3>1, <3>2, <3>3, RemoveStep DEF SenderInv
  <2>2. CASE SlotsWith(n) = {}
    <3>1. RemoveNotFound(n) BY <1>1, <2>2
    <3> QED BY <1>2, <1>3, <3>1, NotFoundStep DEF SenderInv
  <2> QED BY <2>1, <2>2
<1>5. SenderTypeOK' /\ RetriesLeft'
  <2>1. winBufPos' \in Int BY <1>4, SentFacts DEF WindowTypeOK
  <2> QED BY <1>3, <1>4, <2>1, ReturnStep
<1> QED BY <1>3, <1>4, <1>5 DEF SenderInv, StampedIsRead

LEMMA RecvAckStep ==
  ASSUME SenderInv, LinksTypeOK, RecvAck
  PROVE  SenderInv'
<1>1. PICK m \in AckPacket :
        LET marks == Marked(Seq5(m.id))
            k     == Cardinality(AckedPrefix(marks))
        IN \/ /\ k = winBufPos
              /\ Remove(k)
              /\ SendAllReturns(0)
           \/ /\ k < winBufPos
              /\ Remove(k)
              /\ arrACK' = {s - k : s \in {x \in marks : x > k}}
              /\ waitForACK' = TRUE
              /\ UNCHANGED <<spc, i, resend, retryCnt, ret>>
  BY DEF RecvAck
<1> DEFINE marks == Marked(Seq5(m.id))
           k     == Cardinality(AckedPrefix(marks))
<1>2. /\ UNCHANGED <<next, drain, stamp>> /\ spc = "recv"
      /\ abandoned \in BOOLEAN /\ winBufPos \in 0..W /\ Len(stamp) < next
  BY DEF RecvAck, SenderInv, SenderTypeOK, WindowTypeOK, StampedIsRead
<1>3. marks \subseteq 1..W
  <2>1. Seq5(m.id) \in Int
    <3>1. m.id \in Int BY AckIdTyped
    <3> QED BY <3>1, Seq5Typed
  <2>2. SlotsWith(Seq5(m.id)) # {} => FirstSlot(Seq5(m.id)) \in 1..W
    BY <1>2, <2>1, FirstSlotFound, SentFacts DEF SenderInv
  <2> QED BY <2>2 DEF Marked, SenderInv, SenderTypeOK
<1>4. k \in 0..winBufPos BY PrefixCounted DEF SenderInv
<1>5. Remove(k) BY <1>1
<1> HIDE DEF k, marks
<1>6. WindowTypeOK' /\ WindowIsConsecutive' /\ SlotsStamped' /\ abandoned' = abandoned
  <2>1. abandoned' = abandoned BY <1>5 DEF Remove
  <2> QED BY <1>2, <1>4, <1>5, <2>1, RemoveStep DEF SenderInv
<1>7. SenderTypeOK' /\ RetriesLeft'
  <2>1. CASE SendAllReturns(0) BY <1>2, <1>6, <2>1, ReturnStep
  <2>2. CASE /\ arrACK' = {s - k : s \in {x \in marks : x > k}}
             /\ waitForACK' = TRUE
             /\ UNCHANGED <<spc, i, resend, retryCnt, ret>>
    <3>1. arrACK' \subseteq 1..W
      <4> SUFFICES ASSUME NEW s \in marks, s > k PROVE s - k \in 1..W
        BY <2>2
      <4> QED BY <1>2, <1>3, <1>4, SentFacts
    <3> QED BY <1>2, <1>6, <2>2, <3>1 DEF SenderInv, SenderTypeOK, RetriesLeft
  <2> QED BY <1>1, <2>1, <2>2 DEF k, marks
<1> QED BY <1>2, <1>6, <1>7 DEF SenderInv, StampedIsRead
-------------------------------------------------------------------------------
\* The part of the invariant that speaks of the receiver.
ReceiverInv == ReceiverTypeOK /\ RoundsLeft /\ GotCounted

LEMMA ChunkTyped ==
  ASSUME stamp \in Seq(1..Sent), NEW p \in Known, p.type = "REQUEST"
  PROVE  ChunkOf(p.id) \in 0..Sent
<1>1. p.id \in Ids /\ p.id < seq BY DEF Known, DataPacket
<1>2. p.id \in Nat BY <1>1, SentFacts, Zenon
<1>3. CASE p.id < First BY <1>3, SentFacts DEF ChunkOf
<1>4. CASE p.id >= First
  <2>1. p.id - First + 1 \in 1..Len(stamp) BY <1>1, <1>2, <1>4, SentFacts DEF seq
  <2>2. stamp[p.id - First + 1] \in 1..Sent BY <2>1, SeqElement
  <2> QED BY <1>2, <1>4, <2>2, SentFacts DEF ChunkOf
<1> QED BY <1>2, <1>3, <1>4, SentFacts

LEMMA ReceiverStepKeeps ==
  ASSUME ReceiverInv, DataStamped, stamp \in Seq(1..Sent), ReceiverStep
  PROVE  ReceiverInv'
<1>1. /\ got \in Seq(0..Sent) /\ rounds \in 0..Linger /\ Len(got) \in Nat
      /\ Len(got) <= Chunks /\ expected = First + Len(got)
      /\ rpc \in {"recv", "linger"} => rounds > 0
      /\ rpc = "recv" => Len(got) < Chunks
  BY DEF ReceiverInv, ReceiverTypeOK, RoundsLeft, GotCounted
<1>2. CASE RecvInSequence
  <2>1. PICK p \in DataPacket :
          Data!Take(p) /\ p.type = "REQUEST" /\ got' = Append(got, ChunkOf(p.id))
    BY <1>2 DEF RecvInSequence
  <2>2. p \in Known BY <2>1, DataTake DEF DataStamped
  <2>3. ChunkOf(p.id) \in 0..Sent BY <2>1, <2>2, ChunkTyped
  <2>4. got' \in Seq(0..Sent) /\ Len(got') = Len(got) + 1
    BY <1>1, <2>1, <2>3, SeqAppended
  <2>5. /\ Len(got') = Len(got) + 1
        /\ expected' = expected + 1 /\ rounds' = rounds /\ rpc = "recv"
        /\ rpc' = IF Len(got') = Chunks THEN "linger" ELSE "recv"
    BY <2>4, <1>2 DEF RecvInSequence
  <2>6. GotCounted' BY <1>1, <2>5, SentFacts, TransferAssumption DEF GotCounted
  <2>7. ReceiverTypeOK'
    BY <1>1, <2>4, <2>5, <2>6, SentFacts, TransferAssumption
    DEF ReceiverTypeOK, GotCounted, ReceiverPlace
  <2> QED BY <1>1, <2>5, <2>6, <2>7 DEF ReceiverInv, RoundsLeft
<1>3. CASE RecvOutOfSequence \/ RecvSpecialRequest
  BY <1>3 DEF RecvOutOfSequence, RecvSpecialRequest, receiver, ReceiverInv,
              ReceiverTypeOK, RoundsLeft, GotCounted
<1>4. CASE LingerRecv \/ LingerTimeout
  <2>1. rpc = "linger" /\ EndRound BY <1>4 DEF LingerRecv, LingerTimeout
  <2>2. /\ rounds' = rounds - 1 /\ UNCHANGED <<expected, got>>
        /\ rpc' = IF rounds = 1 THEN "closed" ELSE "linger"
    BY <2>1 DEF EndRound
  <2>3. rounds' \in 0..Linger BY <1>1, <2>1, <2>2, TransferAssumption
  <2> QED BY <1>1, <2>1, <2>2, <2>3
          DEF ReceiverInv, ReceiverTypeOK, RoundsLeft, GotCounted, ReceiverPlace
<1>5. CASE ReceiverError
  BY <1>5 DEF ReceiverError, ReceiverInv, ReceiverTypeOK, RoundsLeft, GotCounted,
              ReceiverPlace
<1> QED BY <1>2, <1>3, <1>4, <1>5 DEF ReceiverStep

-------------------------------------------------------------------------------
\* The packets on the links.
\* Sent packets are the window's, so they have been stamped.
LEMMA SentKnown ==
  ASSUME SenderInv, NEW k \in 1..W, winBuf[k] # NoPacket, SendPacket(winBuf[k]),
         DataStamped, UNCHANGED stamp
  PROVE  DataStamped'
<1>1. winBuf[k] \in Ids /\ winBuf[k] < seq
  BY DEF SenderInv, WindowTypeOK, SlotsStamped
<1> DEFINE p == [type |-> "REQUEST", id |-> winBuf[k]]
<1>2. p \in Known BY <1>1 DEF Known, DataPacket
<1>3. Data!Put(p) BY DEF SendPacket
<1>4. Known' = Known BY DEF Known, seq
<1> QED BY <1>2, <1>3, <1>4, DataPut DEF DataStamped

\* The sender puts only such packets on the link and takes none of them off.
LEMMA SenderKeepsData ==
  ASSUME SenderInv, DataStamped, SenderStep
  PROVE  DataStamped'
<1>1. /\ winBufPos \in 0..W /\ i \in 1..W /\ 1 \in 1..W /\ winBuf[1] # NoPacket
      /\ \A k \in 1..winBufPos : winBuf[k] # NoPacket
  BY SentFacts DEF SenderInv, SenderTypeOK, WindowTypeOK, SlotsStamped
<1>2. CASE ReadChunk
  <2>1. Len(stamp) \in Nat /\ Len(stamp') >= Len(stamp)
    BY <1>2, SentFacts DEF ReadChunk, SenderInv, WindowTypeOK
  <2>2. Known \subseteq Known'
    <3>1. SUFFICES ASSUME NEW p \in DataPacket, p.id < seq PROVE p.id < seq'
      BY DEF Known
    <3>2. p.id \in Ids BY DEF DataPacket
    <3>3. p.id \in Nat BY <3>2, SentFacts, Zenon
    <3> QED BY <2>1, <3>1, <3>3, SentFacts DEF seq
  <2>3. UNCHANGED <<dataQ, dataHeld>> BY <1>2 DEF ReadChunk, data
  <2> QED BY <2>2, <2>3, SeqGrows DEF DataStamped
<1>3. CASE BurstSend
  <2>1. i \in 1..W /\ winBuf[i] # NoPacket /\ UNCHANGED stamp /\ SendPacket(winBuf[i])
    BY <1>1, <1>3, SentFacts DEF BurstSend
  <2> QED BY <2>1, SentKnown
<1>4. CASE ResendLast
  <2>1. LastOfLoop \in 1..W /\ winBuf[LastOfLoop] # NoPacket
    BY <1>1, SentFacts DEF LastOfLoop
  <2>2. UNCHANGED stamp /\ SendPacket(winBuf[LastOfLoop]) BY <1>4 DEF ResendLast
  <2> QED BY <2>1, <2>2, SentKnown
<1>5. CASE SendLast
  <2>1. Flagged \in 1..W /\ winBuf[Flagged] # NoPacket
    BY <1>1, SentFacts DEF Flagged
  <2>2. UNCHANGED stamp /\ SendPacket(winBuf[Flagged]) BY <1>5 DEF SendLast
  <2> QED BY <2>1, <2>2, SentKnown
<1>6. CASE SendSack
  <2>1. Data!Put([type |-> "SACK", id |-> seq]) /\ UNCHANGED stamp BY <1>6 DEF SendSack
  <2>2. seq \in Ids
    <3>1. seq \in (First - 1)..(First + Sent)
      BY SentFacts DEF SenderInv, SenderTypeOK, WindowTypeOK, StampedIsRead, seq
    <3> QED BY <3>1 DEF Ids
  <2>3. [type |-> "SACK", id |-> seq] \in Known BY <2>2 DEF Known, DataPacket
  <2>4. Known' = Known BY <2>1 DEF Known, seq
  <2> QED BY <2>1, <2>3, <2>4, DataPut DEF DataStamped
<1>7. CASE UNCHANGED <<dataQ, dataHeld, stamp>>
  BY <1>7 DEF DataStamped, Known, seq
<1>8. \/ ReadChunk \/ BurstSend \/ ResendLast \/ SendLast \/ SendSack
      \/ UNCHANGED <<dataQ, dataHeld, stamp>>
  BY DEF SenderStep, StartDrain, Timeout, RecvNack, RecvAckOfEmptyWindow, RecvAck,
         SenderError, data
<1> QED BY <1>2, <1>3, <1>4, <1>5, <1>6, <1>7, <1>8
AcksTyped == ackQ \in Seq(AckPacket) /\ ackHeld \in AckPacket \cup {NoPacket}

LEMMA SenderKeepsAcks ==
  ASSUME AcksTyped, SenderStep
  PROVE  AcksTyped'
<1>1. ASSUME NEW m, Ack!Take(m) PROVE AcksTyped'
  BY <1>1, AckTake DEF AcksTyped
<1>2. ASSUME UNCHANGED <<ackQ, ackHeld>> PROVE AcksTyped'
  BY <1>2 DEF AcksTyped
<1>3. CASE RecvNack \/ RecvAckOfEmptyWindow \/ RecvAck
  BY <1>1, <1>3 DEF RecvNack, RecvAckOfEmptyWindow, RecvAck
<1>4. CASE ~(RecvNack \/ RecvAckOfEmptyWindow \/ RecvAck)
  BY <1>2, <1>4 DEF SenderStep, ReadChunk, StartDrain, BurstSend, ResendLast, SendLast,
                    Timeout, SendSack, SenderError, ack
<1> QED BY <1>3, <1>4

LEMMA ReceiverKeepsLinks ==
  ASSUME ReceiverTypeOK, DataStamped, AcksTyped, ReceiverStep
  PROVE  DataStamped' /\ AcksTyped'
<1>1. expected \in Ids BY SentFacts DEF ReceiverTypeOK, Ids
<1>2. /\ [type |-> "ACK", id |-> expected] \in AckPacket
      /\ [type |-> "NACK", id |-> expected] \in AckPacket
      /\ [type |-> "SACK", id |-> expected] \in AckPacket
  BY <1>1 DEF AckPacket
<1>3. UNCHANGED stamp
  BY DEF ReceiverStep, RecvInSequence, RecvOutOfSequence, RecvSpecialRequest,
         LingerRecv, LingerTimeout, ReceiverError, sender
<1>4. Known' = Known BY <1>3 DEF Known, seq
<1>5. ASSUME NEW p, Data!Take(p) PROVE DataStamped' /\ p \in DataPacket
  <2>1. p \in Known /\ dataQ' \in Seq(Known) /\ dataHeld' = dataHeld
    BY <1>5, DataTake DEF DataStamped
  <2> QED BY <2>1, <1>4 DEF DataStamped, Known
<1>6. ASSUME NEW m \in AckPacket, Ack!Put(m) PROVE AcksTyped'
  BY <1>6, AckPut DEF AcksTyped
<1>7. CASE RecvInSequence
  <2>1. \E p : Data!Take(p) BY <1>7 DEF RecvInSequence
  <2>2. Ack!Put([type |-> "ACK", id |-> expected]) BY <1>7 DEF RecvInSequence
  <2> QED BY <1>2, <1>5, <1>6, <2>1, <2>2
<1>8. CASE RecvOutOfSequence
  <2>1. \E p : Data!Take(p) BY <1>8 DEF RecvOutOfSequence
  <2>2. Ack!Put([type |-> "NACK", id |-> expected]) BY <1>8 DEF RecvOutOfSequence
  <2> QED BY <1>2, <1>5, <1>6, <2>1, <2>2
<1>9. CASE RecvSpecialRequest
  <2>1. \E p : Data!Take(p) BY <1>9 DEF RecvSpecialRequest
  <2>2. Ack!Put([type |-> "SACK", id |-> expected]) BY <1>9 DEF RecvSpecialRequest
  <2> QED BY <1>2, <1>5, <1>6, <2>1, <2>2
<1>10. CASE LingerRecv
  <2>1. PICK p \in DataPacket : Data!Take(p) /\ Ack!Put([type |-> "ACK", id |-> p.id])
    BY <1>10 DEF LingerRecv
  <2>2. p.id \in Ids BY DEF DataPacket
  <2>3. [type |-> "ACK", id |-> p.id] \in AckPacket BY <2>2 DEF AckPacket
  <2> QED BY <1>5, <1>6, <2>1, <2>3
<1>11. CASE LingerTimeout \/ ReceiverError
  <2>1. UNCHANGED <<dataQ, dataHeld, ackQ, ackHeld>>
    BY <1>11 DEF LingerTimeout, ReceiverError, data, ack
  <2> QED BY <2>1, <1>4 DEF DataStamped, AcksTyped
<1> QED BY <1>7, <1>8, <1>9, <1>10, <1>11 DEF ReceiverStep

-------------------------------------------------------------------------------
LEMMA InvParts ==
  /\ IInv <=> SenderInv /\ ReceiverInv /\ DataStamped /\ AcksTyped
  /\ IInv => TypeOK /\ WindowIsConsecutive
<1>1. DataStamped => dataQ \in Seq(DataPacket) /\ dataHeld \in DataPacket \cup {NoPacket}
  <2>1. Known \subseteq DataPacket BY DEF Known
  <2> QED BY <2>1, SeqGrows DEF DataStamped
<1> QED BY <1>1 DEF IInv, TypeOK, SenderInv, ReceiverInv, LinksTypeOK, AcksTyped

LEMMA InvPartsNext ==
  ASSUME SenderInv', ReceiverInv', DataStamped', AcksTyped'
  PROVE  IInv'
<1>1. Known' \subseteq DataPacket BY DEF Known
<1>2. dataQ' \in Seq(DataPacket) /\ dataHeld' \in DataPacket \cup {NoPacket}
  BY <1>1, SeqGrows DEF DataStamped
<1> QED BY <1>2 DEF IInv, TypeOK, SenderInv, ReceiverInv, LinksTypeOK, AcksTyped

(* The invariant of the bookkeeping on both sides of a transfer.           *)
THEOREM SockTransferInvariant == Spec => []IInv
<1>1. Init => IInv
  <2> SUFFICES ASSUME Init PROVE SenderInv /\ ReceiverInv /\ DataStamped /\ AcksTyped
    BY InvParts
  <2>1. /\ Header \in Ids /\ Header < First /\ Header # NoPacket
        /\ 1 \in 1..W /\ MaxRetry \in Nat /\ MaxRetry > 0
        /\ Len(<<>>) = 0 /\ \A S : <<>> \in Seq(S)
        /\ First \in First..(First + Sent)
    BY SentFacts, TransferAssumption DEF Header, Ids
  <2>2. stamp = <<>> /\ got = <<>> /\ seq = First /\ Base = First
    BY <2>1, SentFacts DEF Init, seq, Base
  <2>3. SenderTypeOK /\ RetriesLeft /\ StampedIsRead
    <3>1. SenderTypeOK
      <4>1. 1 \in 1..(Sent + 1) /\ MaxRetry \in 0..MaxRetry /\ 1 \in {-1, 0, 1}
        BY <2>1, SentFacts
      <4> QED BY <2>1, <4>1, Zenon DEF Init, SenderTypeOK, SenderPlace
    <3>2. RetriesLeft BY <2>1 DEF Init, RetriesLeft
    <3>3. StampedIsRead BY <2>1, <2>2 DEF Init, StampedIsRead
    <3> QED BY <3>1, <3>2, <3>3
  <2>4. winBuf = [k \in 1..W |-> IF k = 1 THEN Header ELSE NoPacket] /\ winBufPos = 0
    BY DEF Init
  <2>5. WindowTypeOK /\ WindowIsConsecutive
    BY <2>1, <2>2, <2>4, SentFacts DEF WindowTypeOK, WindowIsConsecutive
  <2>6. SlotsStamped BY <2>1, <2>2, <2>4 DEF SlotsStamped
  <2>7. ReceiverInv
    BY <2>1, <2>2, SentFacts, TransferAssumption
    DEF Init, ReceiverInv, ReceiverTypeOK, RoundsLeft, GotCounted, ReceiverPlace
  <2>8. /\ [type |-> "REQUEST", id |-> Header] \in Known
        /\ [type |-> "ACK", id |-> Header] \in AckPacket
    BY <2>1, <2>2 DEF Known, DataPacket, AckPacket
  <2>9. ASSUME NEW S, NEW e \in S PROVE <<e>> \in Seq(S)
    OBVIOUS
  <2>10. DataStamped BY <2>1, <2>8, <2>9 DEF Init, DataStamped
  <2>11. AcksTyped BY <2>1, <2>8, <2>9 DEF Init, AcksTyped
  <2> QED BY <2>3, <2>5, <2>6, <2>7, <2>10, <2>11 DEF SenderInv
<1>2. IInv /\ [Next]_vars => IInv'
  <2> SUFFICES ASSUME SenderInv, ReceiverInv, DataStamped, AcksTyped, [Next]_vars
               PROVE  SenderInv' /\ ReceiverInv' /\ DataStamped' /\ AcksTyped'
    BY InvParts, InvPartsNext
  <2>1. ASSUME UNCHANGED sender PROVE SenderInv'
    BY <2>1 DEF sender, SenderInv, SenderTypeOK, RetriesLeft, StampedIsRead,
                WindowTypeOK, WindowIsConsecutive, SlotsStamped, Base, seq
  <2>2. ASSUME UNCHANGED receiver PROVE ReceiverInv'
    BY <2>2 DEF receiver, ReceiverInv, ReceiverTypeOK, RoundsLeft, GotCounted
  <2>3. ASSUME UNCHANGED <<sender, data>> PROVE DataStamped'
    BY <2>3 DEF sender, data, DataStamped, Known, seq
  <2>4. ASSUME UNCHANGED ack PROVE AcksTyped'
    BY <2>4 DEF ack, AcksTyped
  <2>5. CASE SenderStep
    <3>1. UNCHANGED receiver
      BY <2>5 DEF SenderStep, ReadChunk, StartDrain, BurstSend, ResendLast, SendLast,
                  Timeout, SendSack, RecvNack, RecvAckOfEmptyWindow, RecvAck, SenderError
    <3>2. LinksTypeOK BY InvParts DEF IInv, TypeOK
    <3>3. SenderInv'
      BY <2>5, <3>2, ReadChunkStep, SendingStep, RecvNackStep, RecvAckStep DEF SenderStep
    <3> QED BY <2>2, <2>5, <3>1, <3>3, SenderKeepsData, SenderKeepsAcks
  <2>6. CASE ReceiverStep
    <3>1. UNCHANGED sender
      BY <2>6 DEF ReceiverStep, RecvInSequence, RecvOutOfSequence, RecvSpecialRequest,
                  LingerRecv, LingerTimeout, ReceiverError
    <3>2. stamp \in Seq(1..Sent) BY DEF SenderInv, WindowTypeOK
    <3>3. ReceiverTypeOK BY DEF ReceiverInv
    <3> QED BY <2>1, <2>6, <3>1, <3>2, <3>3, ReceiverStepKeeps, ReceiverKeepsLinks
  <2>7. CASE ReleaseData
    <3>1. Data!Release /\ UNCHANGED <<sender, receiver, ack>> BY <2>7 DEF ReleaseData
    <3>2. Known' = Known BY <3>1 DEF sender, Known, seq
    <3>3. DataStamped' BY <3>1, <3>2, ReleaseTyped DEF DataStamped
    <3> QED BY <2>1, <2>2, <2>4, <3>1, <3>3
  <2>8. CASE ReleaseAck
    <3>1. Ack!Release /\ UNCHANGED <<sender, receiver, data>> BY <2>8 DEF ReleaseAck
    <3>2. AcksTyped' BY <3>1, ReleaseTyped DEF AcksTyped
    <3> QED BY <2>1, <2>2, <2>3, <3>1, <3>2
  <2>9. CASE UNCHANGED vars
    <3>1. UNCHANGED <<sender, receiver, data, ack>> BY <2>9 DEF vars
    <3> QED BY <2>1, <2>2, <2>3, <2>4, <3>1
  <2> QED BY <2>5, <2>6, <2>7, <2>8, <2>9 DEF Next
<1> QED BY <1>1, <1>2, PTL DEF Spec

(* Types, for every file, window and number of sequence numbers: no        *)
(* counter of send_all_win_packets, udp_sendtoEx or srv_wait4cnn leaves    *)
(* its range and every slot index stays inside winBuf.                     *)
THEOREM SockTransferTypes == Spec => []TypeOK
<1>1. IInv => TypeOK BY InvParts
<1> QED BY <1>1, SockTransferInvariant, PTL

(* However copy_2_winbuf fills and remove_packets_from_win empties it,     *)
(* the window is the last winBufPos packets stamped, in order.             *)
THEOREM WindowStaysConsecutive == Spec => []WindowIsConsecutive
<1>1. IInv => WindowIsConsecutive BY InvParts
<1> QED BY <1>1, SockTransferInvariant, PTL
===============================================================================
