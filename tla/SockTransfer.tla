----------------------------- MODULE SockTransfer -----------------------------
(***************************************************************************)
(* One file transfer of sample-3: SockLib::send_file on one side,          *)
(* SockLib::recv_file and srv_wait4cnn on the other, with the router       *)
(* between them (socklib.cpp).                                             *)
(*                                                                         *)
(* The sender stamps chunks of the file with sequence numbers, keeps up to *)
(* W of them in winBuf, sends the window and waits for acknowledgements;   *)
(* the receiver takes packets strictly in sequence and answers every       *)
(* packet with an ACK or with a NACK naming the number it waits for.       *)
(*                                                                         *)
(* A packet's id is its number counted without wrapping; what is on the    *)
(* wire and what the code compares is Seq(id), the id in 5 bits.  The data *)
(* of packet id is the chunk number stamp[id - First + 1].                 *)
(*                                                                         *)
(* Each direction is a RouterLink.  What is still on its way to a socket   *)
(* and what waits in the socket's buffer are one queue, so a receive may   *)
(* time out whatever the queue holds.                                      *)
(***************************************************************************)
EXTENDS Integers, Sequences, FiniteSets

CONSTANTS
  W,            \* wSize, the window size
  M,            \* SEQUENCE_NUM_MAX, the number of sequence numbers
  Chunks,       \* chunks recv_file waits for: ceil(length / BUFFER_LENGTH)
  ExtraChunk,   \* the length is a multiple of BUFFER_LENGTH: feof is seen late
  First,        \* sequence number of the first packet of the file
  MaxRetry,     \* retryCnt's initial value (1000 in the code)
  Linger,       \* rounds of srv_wait4cnn (3 in the client, 26 in the server)
  SocketErrors, \* whether sendto, recvfrom or select may fail
  WildMatch,    \* whether memory never written may hold the number compared with
  Cap,          \* packets a socket buffer holds (bound)
  NoPacket      \* nothing held by the router; also a slot of unknown content

ASSUME TransferAssumption ==
  /\ W \in Nat \ {0} /\ M \in Nat /\ M > W
  /\ Chunks \in Nat /\ ExtraChunk \in BOOLEAN
  /\ First \in Nat \ {0}
  /\ MaxRetry \in Nat \ {0} /\ Linger \in Nat \ {0}
  /\ SocketErrors \in BOOLEAN /\ WildMatch \in BOOLEAN
  /\ Cap \in Nat /\ NoPacket \notin Nat

VARIABLES
  spc,         \* where the sender is, see SenderPlace
  next,        \* next chunk fread returns
  drain,       \* in send_file's second loop
  winBuf,      \* the W slots, stale ones included
  winBufPos,   \* how many of them are in use
  i,           \* next slot of send_all_win_packets' loop
  resend,      \* send_all_win_packets' flag
  arrACK,      \* slots whose ACK has come
  waitForACK,
  retryCnt,
  ret,         \* what send_file returned
  stamp,       \* history: the chunk each packet carries
  rpc,         \* where the receiver is
  expected,    \* lastSeq + 1
  got,         \* chunks written to the receiver's file
  rounds,      \* rounds srv_wait4cnn has left
  dataQ, dataHeld,   \* link from sender to receiver
  ackQ, ackHeld,     \* link from receiver to sender
  abandoned    \* history: remove_packets_from_win gave up an unmatched window

sender   == <<spc, next, drain, winBuf, winBufPos, i, resend, arrACK, waitForACK,
              retryCnt, ret, stamp, abandoned>>
receiver == <<rpc, expected, got, rounds>>
data     == <<dataQ, dataHeld>>
ack      == <<ackQ, ackHeld>>
vars     == <<sender, receiver, data, ack>>

Sent == IF ExtraChunk THEN Chunks + 1 ELSE IF Chunks = 0 THEN 1 ELSE Chunks

\* Mutated: SEQUENCE_NUM_MASK is one bit short.
ShortMask(id) == id % (M \div 2)

Seq5(id) == id % M

Ids == (First - 1)..(First + Sent)

DataPacket == [type : {"REQUEST", "SACK"}, id : Ids]
AckPacket  == [type : {"ACK", "NACK", "SACK"}, id : Ids]

Data == INSTANCE RouterLink WITH Packet <- DataPacket, queue <- dataQ, held <- dataHeld
Ack  == INSTANCE RouterLink WITH Packet <- AckPacket, queue <- ackQ, held <- ackHeld

SenderPlace   == {"read", "burst", "top", "recv", "sack", "done"}
ReceiverPlace == {"recv", "linger", "closed", "failed"}

seq  == First + Len(stamp)     \* SockLib::seq, the next number to stamp
Base == seq - winBufPos        \* the oldest packet still in the window

SenderTypeOK ==
  /\ spc \in SenderPlace
  /\ next \in 1..(Sent + 1)
  /\ drain \in BOOLEAN /\ resend \in BOOLEAN /\ waitForACK \in BOOLEAN
  /\ i \in 1..W
  /\ arrACK \subseteq 1..W
  /\ retryCnt \in 0..MaxRetry
  /\ ret \in {-1, 0, 1}
  /\ abandoned \in BOOLEAN

WindowTypeOK ==
  /\ winBuf \in [1..W -> Ids \cup {NoPacket}]
  /\ winBufPos \in 0..W
  /\ \A k \in 1..winBufPos : winBuf[k] # NoPacket
  /\ stamp \in Seq(1..Sent)

ReceiverTypeOK ==
  /\ rpc \in ReceiverPlace
  /\ expected \in First..(First + Sent)
  /\ got \in Seq(0..Sent)
  /\ rounds \in 0..Linger

LinksTypeOK ==
  /\ dataQ \in Seq(DataPacket) /\ dataHeld \in DataPacket \cup {NoPacket}
  /\ ackQ \in Seq(AckPacket) /\ ackHeld \in AckPacket \cup {NoPacket}

(* Every variable keeps its type; what is not evident of it is that        *)
(* retryCnt and rounds never fall below 0, that i stays inside the window, *)
(* and that a number stamped, expected or answered is one of the file's.   *)
TypeOK == SenderTypeOK /\ WindowTypeOK /\ ReceiverTypeOK /\ LinksTypeOK

(* The transfer follows a header sent through slot 1 of the same window:   *)
(* the slot keeps it, a copy of it may be late, and so may its ACK.  The   *)
(* other slots hold whatever new[] or an earlier transfer left there.      *)
Header == First - 1

Init ==
  /\ spc = "read" /\ next = 1 /\ drain = FALSE
  /\ winBuf = [k \in 1..W |-> IF k = 1 THEN Header ELSE NoPacket]
  /\ winBufPos = 0
  /\ i = 1 /\ resend = FALSE /\ arrACK = {} /\ waitForACK = FALSE
  /\ retryCnt = MaxRetry
  /\ ret = 1
  /\ stamp = <<>>
  /\ rpc = IF Chunks = 0 THEN "linger" ELSE "recv"
  /\ expected = First
  /\ got = <<>>
  /\ rounds = Linger
  /\ dataQ \in {<<>>, <<[type |-> "REQUEST", id |-> Header]>>}
  /\ ackQ \in {<<>>, <<[type |-> "ACK", id |-> Header]>>}
  /\ dataHeld = NoPacket /\ ackHeld = NoPacket
  /\ abandoned = FALSE

-------------------------------------------------------------------------------
(* send_all_win_packets(0) from its start, with udp_sendtoEx's locals as   *)
(* they are on entry.                                                      *)
EnterSendAll ==
  /\ spc' = IF winBufPos' > 1 THEN "burst" ELSE "top"
  /\ i' = 1 /\ resend' = FALSE /\ arrACK' = {} /\ waitForACK' = FALSE
  /\ retryCnt' = MaxRetry

LeaveSendAll(place) ==
  /\ spc' = place
  /\ i' = 1 /\ resend' = FALSE /\ arrACK' = {} /\ waitForACK' = FALSE
  /\ retryCnt' = MaxRetry

(* send_file's reaction to the value of send_all_win_packets: inside its   *)
(* first loop (through copy_2_winbuf) only an error ends it, in the second *)
(* loop 0 ends it too.                                                     *)
SendAllReturns(v) ==
  \/ /\ v < 0 \/ (drain /\ v = 0)
     /\ ret' = -1 /\ LeaveSendAll("done")
  \/ /\ v >= 0 /\ ~drain
     /\ UNCHANGED ret /\ LeaveSendAll("read")
  \/ /\ v > 0 /\ drain /\ winBufPos' > 0
     /\ UNCHANGED ret /\ EnterSendAll
  \/ /\ v > 0 /\ drain /\ winBufPos' = 0
     /\ ret' = 0 /\ LeaveSendAll("done")

(* One round of send_file's first loop: a chunk is read and copy_2_winbuf  *)
(* stamps it if the window has room; a full window is sent.                *)
ReadChunk ==
  /\ spc = "read" /\ next <= Sent
  /\ next' = next + 1
  /\ IF winBufPos < W
     THEN /\ winBuf' = [winBuf EXCEPT ![winBufPos + 1] = seq]
          /\ winBufPos' = winBufPos + 1
          /\ stamp' = Append(stamp, next)
     ELSE UNCHANGED <<winBuf, winBufPos, stamp>>
  /\ IF winBufPos' = W
     THEN EnterSendAll
     ELSE UNCHANGED <<spc, i, resend, arrACK, waitForACK, retryCnt>>
  /\ UNCHANGED <<drain, ret, abandoned, receiver, data, ack>>

\* End of file: send the packets left in the window buffer.
StartDrain ==
  /\ spc = "read" /\ next > Sent
  /\ drain' = TRUE
  /\ UNCHANGED <<next, winBuf, winBufPos, ret, stamp, abandoned, receiver, data, ack>>
  /\ EnterSendAll

SendPacket(id) == Data!Put([type |-> "REQUEST", id |-> id])

\* The last slot send_all_win_packets' loop sends, and the one it returns.
LastOfLoop == IF winBufPos >= 2 THEN winBufPos - 1 ELSE 1
Flagged    == IF winBufPos = 0 THEN 1 ELSE winBufPos

\* The loop of send_all_win_packets: every slot but the last.
BurstSend ==
  /\ spc = "burst" /\ i < winBufPos
  /\ SendPacket(winBuf[i])
  /\ IF i + 1 < winBufPos \/ resend
     THEN i' = i + 1 /\ UNCHANGED spc
     ELSE i' = 1 /\ spc' = "top"
  /\ UNCHANGED <<next, drain, winBuf, winBufPos, resend, arrACK, waitForACK, retryCnt,
                 ret, stamp, abandoned, receiver, ack>>

\* Mutated: the retries never run out.
ResendLastForever ==
  /\ spc = "burst" /\ resend /\ i >= winBufPos
  /\ SendPacket(winBuf[LastOfLoop])
  /\ spc' = IF waitForACK THEN "recv" ELSE "top"
  /\ i' = 1 /\ resend' = FALSE
  /\ UNCHANGED <<next, drain, winBuf, winBufPos, arrACK, waitForACK, retryCnt,
                 ret, stamp, abandoned, receiver, ack>>

(* The flagged call ends by sending once more what its loop sent last, or  *)
(* slot 1 when the loop sent nothing.                                      *)
ResendLast ==
  /\ spc = "burst" /\ resend /\ i >= winBufPos
  /\ SendPacket(winBuf[LastOfLoop])
  /\ spc' = IF retryCnt = 0 THEN "sack" ELSE IF waitForACK THEN "recv" ELSE "top"
  /\ i' = 1 /\ resend' = FALSE
  /\ UNCHANGED <<next, drain, winBuf, winBufPos, arrACK, waitForACK, retryCnt,
                 ret, stamp, abandoned, receiver, ack>>

(* udp_sendtoEx sends the packet it was called for: the last of the        *)
(* window, or slot 1 when the window is empty.                             *)
SendLast ==
  /\ spc = "top"
  /\ SendPacket(winBuf[Flagged])
  /\ spc' = "recv"
  /\ UNCHANGED <<next, drain, winBuf, winBufPos, i, resend, arrACK, waitForACK, retryCnt,
                 ret, stamp, abandoned, receiver, ack>>

\* Mutated: a timeout does not count as a retry.
TimeoutUncounted ==
  /\ spc = "recv"
  /\ UNCHANGED retryCnt
  /\ arrACK' = {}
  /\ spc' = "burst" /\ i' = 1 /\ resend' = TRUE
  /\ UNCHANGED <<next, drain, winBuf, winBufPos, waitForACK, ret, stamp, abandoned,
                 receiver, data, ack>>

\* No answer: resend the window.
Timeout ==
  /\ spc = "recv"
  /\ retryCnt' = retryCnt - 1
  /\ arrACK' = {}
  /\ spc' = "burst" /\ i' = 1 /\ resend' = TRUE
  /\ UNCHANGED <<next, drain, winBuf, winBufPos, waitForACK, ret, stamp, abandoned,
                 receiver, data, ack>>

\* send_special_request, after which the retries are exhausted.
SendSack ==
  /\ spc = "sack"
  /\ Data!Put([type |-> "SACK", id |-> seq])
  /\ UNCHANGED <<next, drain, winBuf, winBufPos, stamp, abandoned, receiver, ack>>
  /\ SendAllReturns(-1)

-------------------------------------------------------------------------------
\* Slots in use that carry sequence number n.
SlotsWith(n) == {k \in 1..winBufPos : Seq5(winBuf[k]) = n}
FirstSlot(n) == CHOOSE k \in SlotsWith(n) : \A j \in SlotsWith(n) : k <= j

\* Mutated: the packets left are not moved to the front.
RemoveWithoutShift(k) ==
  /\ winBufPos' = winBufPos - k
  /\ UNCHANGED <<winBuf, abandoned>>

(* remove_packets_from_win when the packet is found in slot k: k packets   *)
(* go, the others move to the left, nothing else is cleared.               *)
Remove(k) ==
  /\ winBufPos' = winBufPos - k
  /\ winBuf' = [s \in 1..W |-> IF s <= winBufPos - k THEN winBuf[s + k] ELSE winBuf[s]]
  /\ UNCHANGED abandoned

(* ... and when it is not found: the slot behind the last one in use is    *)
(* compared with recvSeq - 1.  That slot is stale, or past the end of the  *)
(* buffer, where any value may be read.                                    *)
Behind == IF winBufPos < W THEN winBuf[winBufPos + 1] ELSE NoPacket

MatchesBehind(n) ==
  IF n = 0 THEN {FALSE}
  ELSE IF Behind = NoPacket THEN {FALSE, WildMatch} ELSE {Seq5(Behind) = n - 1}

RemoveNotFound(n) ==
  /\ UNCHANGED winBuf
  /\ \E match \in MatchesBehind(n) :
       /\ winBufPos' = IF match THEN 0 ELSE winBufPos
       /\ abandoned' = (abandoned \/ (match /\ winBufPos > 0))

\* Mutated: the packet the receiver asks for is removed too.
RecvNackOffByOne ==
  /\ spc = "recv"
  /\ \E m \in AckPacket :
       /\ Ack!Take(m) /\ m.type \in {"NACK", "SACK"}
       /\ LET n == Seq5(m.id) IN
            IF SlotsWith(n) # {} THEN Remove(FirstSlot(n)) ELSE RemoveNotFound(n)
  /\ UNCHANGED <<next, drain, stamp, receiver, data>>
  /\ SendAllReturns(winBufPos')

(* A NACK or SACK names the packet the receiver waits for: all before it   *)
(* are removed and send_all_win_packets returns the number left.           *)
RecvNack ==
  /\ spc = "recv"
  /\ \E m \in AckPacket :
       /\ Ack!Take(m) /\ m.type \in {"NACK", "SACK"}
       /\ LET n == Seq5(m.id - 1) IN
            IF SlotsWith(n) # {} THEN Remove(FirstSlot(n)) ELSE RemoveNotFound(n)
  /\ UNCHANGED <<next, drain, stamp, receiver, data>>
  /\ SendAllReturns(winBufPos')

\* get_max_seq: mark the slot, then count the slots marked from the first on.
Marked(n) == IF SlotsWith(n) = {} THEN arrACK ELSE arrACK \cup {FirstSlot(n)}

AckedPrefix(marks) == {k \in 1..winBufPos : 1..k \subseteq marks}

RecvAckOfEmptyWindow ==
  /\ spc = "recv" /\ winBufPos = 0
  /\ \E m \in AckPacket : Ack!Take(m) /\ m.type = "ACK"
  /\ UNCHANGED <<next, drain, winBuf, winBufPos, stamp, abandoned, receiver, data>>
  /\ SendAllReturns(-1)

RecvAck ==
  /\ spc = "recv" /\ winBufPos > 0
  /\ \E m \in AckPacket :
       /\ Ack!Take(m) /\ m.type = "ACK"
       /\ LET marks == Marked(Seq5(m.id))
              k     == Cardinality(AckedPrefix(marks))
          IN \/ /\ k = winBufPos
                /\ Remove(k)
                /\ SendAllReturns(0)
             \/ /\ k < winBufPos
                /\ Remove(k)
                /\ arrACK' = {s - k : s \in {x \in marks : x > k}}
                /\ waitForACK' = TRUE
                /\ UNCHANGED <<spc, i, resend, retryCnt, ret>>
  /\ UNCHANGED <<next, drain, stamp, receiver, data>>

\* sendto, select or recvfrom fails: every caller passes -1 on.
SenderError ==
  /\ SocketErrors
  /\ spc \in {"burst", "top", "recv", "sack"}
  /\ UNCHANGED <<next, drain, winBuf, winBufPos, stamp, abandoned, receiver, data, ack>>
  /\ SendAllReturns(-1)

-------------------------------------------------------------------------------
ChunkOf(id) == IF id < First THEN 0 ELSE stamp[id - First + 1]

\* Mutated: the packet's number is not compared with lastSeq + 1.
RecvUnchecked ==
  /\ rpc = "recv"
  /\ \E p \in DataPacket :
       /\ Data!Take(p)
       /\ p.type = "REQUEST"
       /\ got' = Append(got, ChunkOf(p.id))
  /\ Ack!Put([type |-> "ACK", id |-> expected])
  /\ expected' = expected + 1
  /\ rpc' = IF Len(got') = Chunks THEN "linger" ELSE "recv"
  /\ UNCHANGED <<rounds, sender>>

(* recv_file, one packet: chk_seqEx answers and says whether the packet is *)
(* the expected one, whose data is then written.                           *)
RecvInSequence ==
  /\ rpc = "recv"
  /\ \E p \in DataPacket :
       /\ Data!Take(p)
       /\ p.type = "REQUEST" /\ Seq5(p.id) = Seq5(expected)
       /\ got' = Append(got, ChunkOf(p.id))
  /\ Ack!Put([type |-> "ACK", id |-> expected])
  /\ expected' = expected + 1
  /\ rpc' = IF Len(got') = Chunks THEN "linger" ELSE "recv"
  /\ UNCHANGED <<rounds, sender>>

RecvOutOfSequence ==
  /\ rpc = "recv"
  /\ \E p \in DataPacket :
       /\ Data!Take(p)
       /\ p.type = "REQUEST" /\ Seq5(p.id) # Seq5(expected)
  /\ Ack!Put([type |-> "NACK", id |-> expected])
  /\ UNCHANGED <<receiver, sender>>

RecvSpecialRequest ==
  /\ rpc = "recv"
  /\ \E p \in DataPacket : Data!Take(p) /\ p.type = "SACK"
  /\ Ack!Put([type |-> "SACK", id |-> expected])
  /\ UNCHANGED <<receiver, sender>>

(* srv_wait4cnn acknowledges whatever comes, for a number of rounds; a     *)
(* timeout is a round too.                                                 *)
EndRound ==
  /\ rounds' = rounds - 1
  /\ rpc' = IF rounds = 1 THEN "closed" ELSE "linger"
  /\ UNCHANGED <<expected, got>>

LingerRecv ==
  /\ rpc = "linger"
  /\ \E p \in DataPacket : Data!Take(p) /\ Ack!Put([type |-> "ACK", id |-> p.id])
  /\ EndRound
  /\ UNCHANGED sender

LingerTimeout ==
  /\ rpc = "linger"
  /\ EndRound
  /\ UNCHANGED <<sender, data, ack>>

ReceiverError ==
  /\ SocketErrors
  /\ rpc \in {"recv", "linger"}
  /\ rpc' = "failed"
  /\ UNCHANGED <<expected, got, rounds, sender, data, ack>>

-------------------------------------------------------------------------------
ReleaseData == Data!Release /\ UNCHANGED <<sender, receiver, ack>>
ReleaseAck  == Ack!Release /\ UNCHANGED <<sender, receiver, data>>

SenderStep == \/ ReadChunk \/ StartDrain \/ BurstSend \/ ResendLast \/ SendLast
              \/ Timeout \/ SendSack \/ RecvNack \/ RecvAckOfEmptyWindow \/ RecvAck
              \/ SenderError

ReceiverStep == \/ RecvInSequence \/ RecvOutOfSequence \/ RecvSpecialRequest
                \/ LingerRecv \/ LingerTimeout \/ ReceiverError

Next == SenderStep \/ ReceiverStep \/ ReleaseData \/ ReleaseAck

Spec == Init /\ [][Next]_vars
-------------------------------------------------------------------------------
InFlight(q, h) == {q[k] : k \in DOMAIN q} \cup ({h} \ {NoPacket})

(* What the receiver has written is what the sender stamped, in the order  *)
(* it was stamped: no packet twice, none left out, none in another's       *)
(* place.  It is chk_seqEx's comparison of 5-bit numbers that has to       *)
(* ensure it, against retransmissions and the router's reordering; once    *)
(* the sender has abandoned a window nothing is promised.                  *)
DeliveredInOrder ==
  ~abandoned => /\ Len(got) = expected - First
                /\ Len(got) <= Len(stamp)
                /\ \A k \in 1..Len(got) : got[k] = stamp[k]

(* 5 bits are enough: a packet still on its way whose sequence number is   *)
(* the expected one is the expected one, not one M packets older.          *)
SequenceNumbersSuffice ==
  ~abandoned =>
    \A p \in InFlight(dataQ, dataHeld) :
      p.type = "REQUEST" /\ Seq5(p.id) = Seq5(expected) => p.id = expected

(* The same for answers: the slot an ACK marks, and the slots a NACK       *)
(* removes, are those of the packet the receiver meant.                    *)
AnswersMatchTheirPacket ==
  ~abandoned =>
    \A m \in InFlight(ackQ, ackHeld), k \in 1..winBufPos :
      /\ m.type = "ACK" /\ Seq5(m.id) = Seq5(winBuf[k]) => m.id = winBuf[k]
      /\ m.type # "ACK" /\ Seq5(m.id - 1) = Seq5(winBuf[k]) => m.id - 1 = winBuf[k]

(* "remove received packets from window buffer" (socklib.cpp:683 and 703): *)
(* a packet that has left the window has been received, or the receiver    *)
(* has all it asked for and waits for no more.                             *)
RemovedWereReceived == Base <= expected \/ Len(got) = Chunks

OnlyReceivedLeaveWindow == ~abandoned => RemovedWereReceived

(* The window is a run of consecutive packets that ends with the packet    *)
(* stamped last, whatever was removed and shifted.                         *)
WindowIsConsecutive == \A k \in 1..winBufPos : winBuf[k] = Base + k - 1

(* Once the receiver has all it waits for it says so: client.cpp:204       *)
(* prints that the file was received, so what it wrote is the file.        *)
ReceivedFileIsTheFile ==
  rpc \in {"linger", "closed"} => got = [k \in 1..Chunks |-> k]
-------------------------------------------------------------------------------
Sends(id) ==
  \/ BurstSend /\ winBuf[i] = id
  \/ ResendLast /\ winBuf[LastOfLoop] = id
  \/ SendLast /\ winBuf[Flagged] = id

\* Put lengthens the queue only by taking the packet it is given along.
Arrives(id) == Sends(id) /\ Len(dataQ') > Len(dataQ)

(* The two programs keep running, and a packet that is sent again and      *)
(* again arrives again and again: neither the router's random loss nor a   *)
(* full socket buffer hits the same packet every time.  Nothing is assumed *)
(* of the answers.                                                         *)
Fairness ==
  /\ WF_vars(SenderStep) /\ WF_vars(ReceiverStep)
  /\ \A id \in First..(First + Sent - 1) :
       []<><<Sends(id)>>_vars => []<><<Arrives(id)>>_vars

FairSpec == Spec /\ Fairness

(* send_file comes to an end, by acknowledgement or by exhausting its      *)
(* retries, unless it has abandoned a window.                              *)
SendFileEnds == <>(spc = "done" \/ abandoned)
===============================================================================
