--------------------------- MODULE PairWindowProofs ---------------------------
(***************************************************************************)
(* Assign3, proved for every plan of commands, every file and directory,   *)
(* every network and every value the uninitialised numbers may have: the   *)
(* types, which say that the numbers of pairs end with the file on both    *)
(* sides, that no message is resent more often than it may be, and that    *)
(* what a side has received was sent.                                      *)
(*                                                                         *)
(* Neither Send_temp_Seq nor rec_temp_seq is bounded by a test: they are   *)
(* bounded by what the scripts have left, and on the receiving side by the *)
(* file's length in the packet that announces it.                          *)
(*                                                                         *)
(* Then the two scripts: what one side still receives is what the other    *)
(* has sent, as long as no receive returns another packet than the next.   *)
(***************************************************************************)
EXTENDS PairWindow, SequenceTheorems, TLAPS

Held(p) == IF p = "client" THEN toClientHeld ELSE toServerHeld

\* The packets of the first c calls, and the answers; a length is the file's.
Made(c) == {d \in Datagram : d.id \in 0..c /\ (d.kind = "info" => d.n = Chunks)}

Counters ==
  /\ plan \in Seq(Command)
  /\ \E s \in Scenarios : file = s.file /\ network = s.network
  /\ slideid \in [Peer -> SUBSET {1, 2}]
  /\ Send_Seq \in [Peer -> 0..1 \cup {NoSeq}]
  /\ prev_Recv_Seq \in [Peer -> PairSeq \cup {NoSeq}]
  /\ ackSeq \in [Peer -> PairSeq \cup {NoSeq}]
  /\ calls \in [Peer -> Nat]
  /\ accepted \in [Peer -> Nat] /\ \A p \in Peer : accepted[p] <= calls[Other(p)]
  /\ slips \subseteq Slip

Written ==
  /\ deleted \in BOOLEAN /\ told \in {"nothing", "missing", "deleted"} /\ opened \in BOOLEAN
  /\ got \in Seq([kind : Kind, n : Nat])

\* A message whose first loop goes on may be resent once more.
Stages ==
  /\ stage \in [Peer -> Stage] /\ resendcount \in [Peer -> 0..(Resends + 1)]
  /\ \A p \in Peer :
       /\ stage[p] # "none" => script[p] # <<>> /\ Head(script[p]).op \in Sends
       /\ stage[p] \notin {"settling", "settlingAck"} => resendcount[p] <= Resends

\* The receives before which the numbers of the file to come are not yet used.
Announced == {"info", "putinfo", "putinfo2"}

(* A script s of a side whose next pairs have the numbers st and rt: the   *)
(* pairs it sends are parts of the file no earlier than st, those it       *)
(* receives are as many as are left of the file.                           *)
Fits(s, st, rt) ==
  /\ s \in Seq(Call)
  /\ \A i \in 1..Len(s) :
       /\ s[i].kind = "info" /\ s[i].op = "send" => s[i].n = Chunks
       /\ s[i].op = "sendPair" =>
            /\ s[i].kind # "info" /\ st + 1 <= s[i].n /\ s[i].n <= 2 * Chunks - 1
            /\ \A j \in 1..Len(s) : i < j /\ s[j].op = "sendPair" => s[i].n + 2 <= s[j].n
       /\ s[i].op = "recvPair" => rt + 2 * i <= 2 * Chunks
       /\ s[i].op = "recv" /\ s[i].kind \in Announced =>
            rt = 0 /\ \A j \in 1..Len(s) : s[j].op # "recvPair"

Scripts ==
  /\ script \in [Peer -> Seq(Call)]
  /\ Send_temp_Seq \in [Peer -> PairSeq] /\ rec_temp_seq \in [Peer -> PairSeq]
  /\ \A p \in Peer : Fits(script[p], Send_temp_Seq[p], rec_temp_seq[p])

\* Nothing is on its way, or will be, that was not sent.
OnTheWay ==
  /\ DOMAIN outbox = Peer
  /\ \A p \in Peer : /\ outbox[p] \in Seq(Made(calls[p])) /\ Len(outbox[p]) <= 2
                     /\ Incoming(p) \in Seq(Made(calls[Other(p)]))
                     /\ Held(p) \in Made(calls[Other(p)]) \cup {NoPacket}

IInv == Counters /\ Written /\ Stages /\ Scripts /\ OnTheWay

-------------------------------------------------------------------------------
\* Sequences.
LEMMA Constants ==
  /\ Chunks \in Nat /\ Chunks > 0 /\ Entries \in Nat /\ Resends \in Nat /\ Cap \in Nat
  /\ Uninit \subseteq {0, 1, NoSeq} /\ ServerStart \in 0..1
  /\ \A s \in Scenarios : /\ s.plan \in Seq(Command)
                          /\ s.file \in [exists : BOOLEAN, extra : BOOLEAN, deletable : BOOLEAN]
BY PairWindowAssumption

LEMMA Appended ==
  ASSUME NEW S, NEW q \in Seq(S), NEW d \in S
  PROVE  Append(q, d) \in Seq(S)
OBVIOUS

LEMMA TailOf ==
  ASSUME NEW S, NEW q \in Seq(S), q # <<>>
  PROVE  /\ Head(q) \in S /\ Tail(q) \in Seq(S) /\ Len(q) \in Nat /\ Len(q) > 0
         /\ Head(q) = q[1] /\ Len(Tail(q)) = Len(q) - 1
         /\ \A i \in 1..Len(Tail(q)) : Tail(q)[i] = q[i + 1] /\ i + 1 \in 1..Len(q)
OBVIOUS

LEMMA OneOf ==
  ASSUME NEW S, NEW x \in S
  PROVE  <<x>> \in Seq(S) /\ Len(<<x>>) = 1 /\ <<x>>[1] = x
OBVIOUS

LEMMA FunctionIsSeq ==
  ASSUME NEW n \in Nat, NEW S, NEW f \in [1..n -> S]
  PROVE  f \in Seq(S) /\ Len(f) = n
OBVIOUS

LEMMA Joined ==
  ASSUME NEW S, NEW s \in Seq(S), NEW t \in Seq(S), NEW u, u = s \o t
  PROVE  /\ u \in Seq(S) /\ Len(s) \in Nat /\ Len(t) \in Nat /\ Len(u) = Len(s) + Len(t)
         /\ \A i \in 1..Len(u) : \/ i \in 1..Len(s) /\ u[i] = s[i]
                                 \/ i > Len(s) /\ i - Len(s) \in 1..Len(t) /\ u[i] = t[i - Len(s)]
<1>1. /\ s \o t \in Seq(S) /\ Len(s \o t) = Len(s) + Len(t)
      /\ \A i \in 1..Len(s) : (s \o t)[i] = s[i]
      /\ \A i \in 1..Len(t) : (s \o t)[Len(s) + i] = t[i]
  BY ConcatProperties
<1>2. Len(s) \in Nat /\ Len(t) \in Nat OBVIOUS
<1>3. ASSUME NEW i \in 1..Len(u), ~(i \in 1..Len(s))
      PROVE  i > Len(s) /\ i - Len(s) \in 1..Len(t) /\ u[i] = t[i - Len(s)]
  <2>1. i > Len(s) /\ i - Len(s) \in 1..Len(t) /\ Len(s) + (i - Len(s)) = i BY <1>1, <1>2, <1>3
  <2> QED BY <2>1, <1>1
<1> QED BY <1>1, <1>2, <1>3

LEMMA Peers ==
  /\ "client" \in Peer /\ "server" \in Peer /\ Peer = {"client", "server"}
  /\ \A p \in Peer : /\ Other(p) \in Peer /\ Other(p) # p /\ Other(Other(p)) = p
                     /\ \A o \in Peer : o = p \/ o = Other(p)
BY DEF Peer, Other

-------------------------------------------------------------------------------
\* The calls of a script without pairs, and without the announcement of a file.
UnpairedCall == {c \in Call : /\ c.op \notin {"sendPair", "recvPair"}
                              /\ c.op = "send" /\ c.kind = "info" => c.n = Chunks}
PlainCall    == {c \in UnpairedCall : ~(c.op = "recv" /\ c.kind \in Announced)}

\* A script that sends a file.
Sending(s, st) ==
  /\ s \in Seq(Call)
  /\ \A i \in 1..Len(s) :
       /\ s[i].kind = "info" /\ s[i].op = "send" => s[i].n = Chunks
       /\ s[i].op = "sendPair" =>
            /\ s[i].kind # "info" /\ st + 1 <= s[i].n /\ s[i].n <= 2 * Chunks - 1
            /\ \A j \in 1..Len(s) : i < j /\ s[j].op = "sendPair" => s[i].n + 2 <= s[j].n
       /\ s[i].op # "recvPair" /\ ~(s[i].op = "recv" /\ s[i].kind \in Announced)

LEMMA PlainSubset == PlainCall \subseteq UnpairedCall /\ UnpairedCall \subseteq Call
                     /\ PlainCall \subseteq Call
BY DEF PlainCall, UnpairedCall

LEMMA SendingFits ==
  ASSUME NEW s, NEW st, NEW rt, Sending(s, st)
  PROVE  Fits(s, st, rt)
BY DEF Sending, Fits

LEMMA PlainSending ==
  ASSUME NEW s \in Seq(PlainCall), NEW st
  PROVE  Sending(s, st)
<1>1. s \in Seq(Call) BY PlainSubset, SeqMonotonic
<1>2. \A i \in 1..Len(s) : s[i] \in PlainCall OBVIOUS
<1> QED BY <1>1, <1>2 DEF Sending, PlainCall, UnpairedCall

LEMMA UnpairedFits ==
  ASSUME NEW s \in Seq(UnpairedCall), NEW st
  PROVE  Fits(s, st, 0)
<1>1. s \in Seq(Call) BY PlainSubset, SeqMonotonic
<1>2. \A i \in 1..Len(s) : s[i] \in UnpairedCall OBVIOUS
<1> QED BY <1>1, <1>2 DEF Fits, UnpairedCall

\* Messages before a file, and behind it.
LEMMA PlainBefore ==
  ASSUME NEW s \in Seq(PlainCall), NEW t, NEW st, Sending(t, st)
  PROVE  Sending(s \o t, st)
<1> DEFINE u == s \o t
           n == Len(s)
<1>1. s \in Seq(Call) BY PlainSubset, SeqMonotonic
<1>2. t \in Seq(Call) BY DEF Sending
<1>3. /\ u \in Seq(Call) /\ n \in Nat /\ Len(t) \in Nat /\ Len(u) = n + Len(t)
      /\ \A i \in 1..Len(u) : \/ i \in 1..n /\ u[i] = s[i]
                              \/ i > n /\ i - n \in 1..Len(t) /\ u[i] = t[i - n]
  BY <1>1, <1>2, Joined
<1>4. \A i \in 1..n : s[i] \in PlainCall OBVIOUS
<1> HIDE DEF u, n
<1>5. ASSUME NEW i \in 1..Len(u)
      PROVE  /\ u[i].kind = "info" /\ u[i].op = "send" => u[i].n = Chunks
             /\ u[i].op = "sendPair" =>
                  /\ u[i].kind # "info" /\ st + 1 <= u[i].n /\ u[i].n <= 2 * Chunks - 1
                  /\ \A j \in 1..Len(u) : i < j /\ u[j].op = "sendPair" => u[i].n + 2 <= u[j].n
             /\ u[i].op # "recvPair" /\ ~(u[i].op = "recv" /\ u[i].kind \in Announced)
  <2>1. CASE i \in 1..n /\ u[i] = s[i]
    <3>1. u[i] \in PlainCall BY <2>1, <1>4
    <3> QED BY <3>1 DEF PlainCall, UnpairedCall
  <2>2. CASE i > n /\ i - n \in 1..Len(t) /\ u[i] = t[i - n]
    <3>1. ASSUME u[i].op = "sendPair", NEW j \in 1..Len(u), i < j, u[j].op = "sendPair"
          PROVE  u[i].n + 2 <= u[j].n
      <4>1. j > n /\ j - n \in 1..Len(t) /\ u[j] = t[j - n] /\ i - n < j - n
        BY <3>1, <2>2, <1>3
      <4> QED BY <4>1, <3>1, <2>2 DEF Sending
    <3> QED BY <3>1, <2>2 DEF Sending
  <2> QED BY <2>1, <2>2, <1>3
<1> QED BY <1>3, <1>5 DEF Sending, u

LEMMA PlainBehind ==
  ASSUME NEW t \in Seq(PlainCall), NEW s, NEW st, Sending(s, st)
  PROVE  Sending(s \o t, st)
<1> DEFINE u == s \o t
           n == Len(s)
<1>1. t \in Seq(Call) BY PlainSubset, SeqMonotonic
<1>2. s \in Seq(Call) BY DEF Sending
<1>3. /\ u \in Seq(Call) /\ n \in Nat /\ Len(t) \in Nat /\ Len(u) = n + Len(t)
      /\ \A i \in 1..Len(u) : \/ i \in 1..n /\ u[i] = s[i]
                              \/ i > n /\ i - n \in 1..Len(t) /\ u[i] = t[i - n]
  BY <1>1, <1>2, Joined
<1>4. \A i \in 1..Len(t) : t[i] \in PlainCall OBVIOUS
<1>5. \A i \in 1..Len(u) : i \in 1..n \/ u[i] \in PlainCall BY <1>3, <1>4
<1> HIDE DEF u
<1>6. ASSUME NEW i \in 1..Len(u)
      PROVE  /\ u[i].kind = "info" /\ u[i].op = "send" => u[i].n = Chunks
             /\ u[i].op = "sendPair" =>
                  /\ u[i].kind # "info" /\ st + 1 <= u[i].n /\ u[i].n <= 2 * Chunks - 1
                  /\ \A j \in 1..Len(u) : i < j /\ u[j].op = "sendPair" => u[i].n + 2 <= u[j].n
             /\ u[i].op # "recvPair" /\ ~(u[i].op = "recv" /\ u[i].kind \in Announced)
  <2>1. CASE u[i] \in PlainCall BY <2>1 DEF PlainCall, UnpairedCall
  <2>2. CASE i \in 1..n
    <3>1. u[i] = s[i] BY <2>2, <1>3
    <3>2. ASSUME u[i].op = "sendPair", NEW j \in 1..Len(u), i < j, u[j].op = "sendPair"
          PROVE  u[i].n + 2 <= u[j].n
      <4>1. u[j] \notin PlainCall BY <3>2 DEF PlainCall, UnpairedCall
      <4>2. j \in 1..n BY <4>1, <1>5
      <4>3. u[j] = s[j] BY <4>2, <1>3
      <4> QED BY <4>2, <4>3, <3>1, <3>2, <2>2 DEF Sending
    <3> QED BY <3>1, <3>2, <2>2 DEF Sending
  <2> QED BY <2>1, <2>2, <1>5
<1> QED BY <1>3, <1>6 DEF Sending, u

-------------------------------------------------------------------------------
\* The script's head is done with.
LEMMA CallTyped ==
  ASSUME NEW c \in Call
  PROVE  /\ c.n \in Nat /\ c.op \in Sends \cup {"handshake", "recv", "recvPair"}
         /\ c.op \in Sends => c.kind \in Kind
         /\ c.op = "recv" => c.kind \in Use
BY DEF Call, Sends

LEMMA FitsHead ==
  ASSUME NEW s, s # <<>>, NEW st \in Nat, NEW rt \in Nat, Fits(s, st, rt)
  PROVE  /\ Head(s) \in Call /\ Head(s) = s[1] /\ Tail(s) \in Seq(Call)
         /\ Len(s) \in Nat /\ Len(s) > 0 /\ 1 \in 1..Len(s) /\ Len(Tail(s)) = Len(s) - 1
         /\ \A i \in 1..Len(Tail(s)) : Tail(s)[i] = s[i + 1] /\ i + 1 \in 1..Len(s) /\ 1 < i + 1
<1>1. s \in Seq(Call) BY DEF Fits
<1>2. /\ Head(s) \in Call /\ Tail(s) \in Seq(Call) /\ Len(s) \in Nat /\ Len(s) > 0
      /\ Head(s) = s[1] /\ Len(Tail(s)) = Len(s) - 1
      /\ \A i \in 1..Len(Tail(s)) : Tail(s)[i] = s[i + 1] /\ i + 1 \in 1..Len(s)
  BY <1>1, TailOf
<1>3. 1 \in 1..Len(s) BY <1>2
<1>4. \A i \in 1..Len(Tail(s)) : 1 < i + 1 BY <1>2
<1> QED BY <1>2, <1>3, <1>4

LEMMA FitsTail ==
  ASSUME NEW s, s # <<>>, NEW st \in Nat, NEW rt \in Nat, Fits(s, st, rt),
         NEW st2 \in {st, st + 2}, st2 = st + 2 => Head(s).op = "sendPair",
         NEW rt2 \in {rt, rt + 2}, rt2 = rt + 2 => Head(s).op = "recvPair"
  PROVE  Fits(Tail(s), st2, rt2)
<1> DEFINE t == Tail(s)
<1>1. /\ Head(s) = s[1] /\ t \in Seq(Call) /\ Len(s) \in Nat /\ 1 \in 1..Len(s)
      /\ Len(t) = Len(s) - 1
      /\ \A i \in 1..Len(t) : t[i] = s[i + 1] /\ i + 1 \in 1..Len(s) /\ 1 < i + 1
  BY FitsHead
<1>2. \A i \in 1..Len(s) : s[i].n \in Nat
  <2>1. \A i \in 1..Len(s) : s[i] \in Call BY DEF Fits
  <2> QED BY <2>1, CallTyped
<1> HIDE DEF t
<1>3. ASSUME NEW i \in 1..Len(t)
      PROVE  /\ t[i].kind = "info" /\ t[i].op = "send" => t[i].n = Chunks
             /\ t[i].op = "sendPair" =>
                  /\ t[i].kind # "info" /\ st2 + 1 <= t[i].n /\ t[i].n <= 2 * Chunks - 1
                  /\ \A j \in 1..Len(t) : i < j /\ t[j].op = "sendPair" => t[i].n + 2 <= t[j].n
             /\ t[i].op = "recvPair" => rt2 + 2 * i <= 2 * Chunks
             /\ t[i].op = "recv" /\ t[i].kind \in Announced =>
                  rt2 = 0 /\ \A j \in 1..Len(t) : t[j].op # "recvPair"
  <2>1. t[i] = s[i + 1] /\ i + 1 \in 1..Len(s) /\ 1 < i + 1 /\ i \in Nat BY <1>1
  <2>2. t[i].kind = "info" /\ t[i].op = "send" => t[i].n = Chunks BY <2>1 DEF Fits
  <2>3. ASSUME t[i].op = "sendPair"
        PROVE  /\ t[i].kind # "info" /\ st2 + 1 <= t[i].n /\ t[i].n <= 2 * Chunks - 1
               /\ \A j \in 1..Len(t) : i < j /\ t[j].op = "sendPair" => t[i].n + 2 <= t[j].n
    <3>1. t[i].kind # "info" /\ st + 1 <= t[i].n /\ t[i].n <= 2 * Chunks - 1
      BY <2>1, <2>3 DEF Fits
    <3>2. st2 + 1 <= t[i].n
      <4>1. CASE st2 = st BY <4>1, <3>1
      <4>2. CASE st2 = st + 2
        <5>1. s[1].op = "sendPair" BY <4>2, <1>1
        <5>2. st + 1 <= s[1].n /\ s[1].n + 2 <= s[i + 1].n BY <5>1, <2>1, <2>3, <1>1 DEF Fits
        <5>3. s[1].n \in Nat /\ s[i + 1].n \in Nat BY <1>1, <1>2, <2>1
        <5> DEFINE a == s[1].n
                   b == s[i + 1].n
        <5>4. st + 1 <= a /\ a + 2 <= b /\ a \in Nat /\ b \in Nat BY <5>2, <5>3
        <5> HIDE DEF a, b
        <5>5. st + 2 + 1 <= b BY <5>4
        <5>6. t[i].n = b BY <2>1 DEF b
        <5> QED BY <5>5, <5>6, <4>2
      <4> QED BY <4>1, <4>2
    <3>3. ASSUME NEW j \in 1..Len(t), i < j, t[j].op = "sendPair" PROVE t[i].n + 2 <= t[j].n
      <4>1. t[j] = s[j + 1] /\ j + 1 \in 1..Len(s) BY <1>1
      <4>2. i + 1 < j + 1 BY <3>3, <2>1
      <4> QED BY <4>1, <4>2, <2>1, <2>3, <3>3 DEF Fits
    <3> QED BY <3>1, <3>2, <3>3
  <2>4. ASSUME t[i].op = "recvPair" PROVE rt2 + 2 * i <= 2 * Chunks
    <3>1. rt + 2 * (i + 1) <= 2 * Chunks BY <2>1, <2>4 DEF Fits
    <3> QED BY <3>1, <2>1, Constants
  <2>5. ASSUME t[i].op = "recv", t[i].kind \in Announced
        PROVE  rt2 = 0 /\ \A j \in 1..Len(t) : t[j].op # "recvPair"
    <3>1. rt = 0 /\ \A j \in 1..Len(s) : s[j].op # "recvPair" BY <2>1, <2>5 DEF Fits
    <3>2. rt2 = rt BY <3>1, <1>1
    <3> QED BY <3>1, <3>2, <1>1
  <2> QED BY <2>2, <2>3, <2>4, <2>5
<1> QED BY <1>1, <1>3 DEF Fits, t

\* The pair about to be sent, or to be received, has numbers of the file.
LEMMA FitsPairs ==
  ASSUME NEW s, s # <<>>, NEW st \in Nat, NEW rt \in Nat, Fits(s, st, rt)
  PROVE  /\ Head(s).op = "sendPair" => st + 2 <= 2 * Chunks /\ Head(s).kind # "info"
         /\ Head(s).op = "recvPair" => rt + 2 <= 2 * Chunks
         /\ Head(s).op = "send" /\ Head(s).kind = "info" => Head(s).n = Chunks
<1>1. Head(s) = s[1] /\ 1 \in 1..Len(s) /\ Head(s) \in Call BY FitsHead
<1>2. Head(s).n \in Nat BY <1>1, CallTyped
<1>3. Head(s).op = "sendPair" =>
        st + 1 <= Head(s).n /\ Head(s).n <= 2 * Chunks - 1 /\ Head(s).kind # "info"
  BY <1>1 DEF Fits
<1>4. Head(s).op = "recvPair" => rt + 2 * 1 <= 2 * Chunks BY <1>1 DEF Fits
<1>5. Head(s).op = "send" /\ Head(s).kind = "info" => Head(s).n = Chunks BY <1>1 DEF Fits
<1> QED BY <1>2, <1>3, <1>4, <1>5, Constants

-------------------------------------------------------------------------------
\* What the programs' calls are.
LEMMA SomeCalls ==
  /\ \A k \in Kind, n \in Nat : k # "info" \/ n = Chunks => udplastsend(k, n) \in PlainCall
  /\ \A u \in Use : udplastrecv(u) \in UnpairedCall
  /\ \A u \in Use : u \notin Announced => udplastrecv(u) \in PlainCall
BY DEF udplastsend, udplastrecv, PlainCall, UnpairedCall, Call, Sends

LEMMA Names ==
  /\ {"LIST", "GET", "PUT", "DEL"} = Command /\ Command \subseteq Kind
  /\ {"hello", "name", "info", "answer", "entry", "@", "#", "nofile", "pair", "last", "cut",
      "ack", "ACK", "NAK"} \subseteq Kind
  /\ {"command", "getname", "delname", "putinfo", "putinfo2", "info", "echo", "listed",
      "entry", "chunk", "answer", "verdict"} = Use
BY DEF Command, Kind, Use, Answers

LEMMA PlainCalls ==
  /\ \A c \in Command : udplastsend(c, 0) \in PlainCall
  /\ \A k \in {"name", "answer", "@", "#"} : udplastsend(k, 0) \in PlainCall
  /\ udplastsend("info", Chunks) \in PlainCall
  /\ \A n \in Nat : udplastsend("last", n) \in PlainCall /\ udplastsend("cut", n) \in PlainCall
                    /\ udplastsend("entry", n) \in PlainCall
  /\ \A u \in {"command", "getname", "delname", "echo", "entry", "chunk", "answer", "verdict"} :
       udplastrecv(u) \in PlainCall
  /\ udplastrecv("info") \in UnpairedCall /\ udplastrecv("putinfo") \in UnpairedCall
  /\ udplastrecv("putinfo2") \in UnpairedCall
<1>1. "info" \notin Command BY DEF Command
<1>2. Chunks \in Nat BY Constants
<1> QED BY <1>1, <1>2, SomeCalls, Names DEF Announced

LEMMA SendChunksFits ==
  ASSUME NEW last \in {"last", "cut"}
  PROVE  Sending(SendChunks(last), 0)
<1> DEFINE s == [k \in 1..(Chunks - 1) |-> udpsend("pair", 2 * k - 1)]
<1>1. Chunks \in Nat /\ Chunks > 0 /\ Chunks - 1 \in Nat BY Constants
<1>2. s \in Seq(Call) /\ Len(s) = Chunks - 1
  <2>1. \A k \in 1..(Chunks - 1) : 2 * k - 1 \in Nat BY <1>1
  <2>2. \A n \in Nat : udpsend("pair", n) \in Call BY Names DEF udpsend, Call, Sends
  <2>3. s \in [1..(Chunks - 1) -> Call] BY <2>1, <2>2
  <2> HIDE DEF s
  <2> QED BY <2>3, <1>1, FunctionIsSeq
<1>3. ASSUME NEW i \in 1..(Chunks - 1)
      PROVE  s[i].op = "sendPair" /\ s[i].kind = "pair" /\ s[i].n = 2 * i - 1
  BY DEF udpsend
<1> HIDE DEF s
<1>4. ASSUME NEW i \in 1..Len(s)
      PROVE  /\ s[i].kind = "info" /\ s[i].op = "send" => s[i].n = Chunks
             /\ s[i].op = "sendPair" =>
                  /\ s[i].kind # "info" /\ 0 + 1 <= s[i].n /\ s[i].n <= 2 * Chunks - 1
                  /\ \A j \in 1..Len(s) : i < j /\ s[j].op = "sendPair" => s[i].n + 2 <= s[j].n
             /\ s[i].op # "recvPair" /\ ~(s[i].op = "recv" /\ s[i].kind \in Announced)
  <2>1. i \in 1..(Chunks - 1) /\ i \in Nat BY <1>1, <1>2
  <2>2. s[i].op = "sendPair" /\ s[i].kind = "pair" /\ s[i].n = 2 * i - 1 BY <2>1, <1>3
  <2>3. 0 + 1 <= 2 * i - 1 /\ 2 * i - 1 <= 2 * Chunks - 1 BY <2>1, <1>1
  <2>4. ASSUME NEW j \in 1..Len(s), i < j PROVE s[i].n + 2 <= s[j].n
    <3>1. j \in 1..(Chunks - 1) /\ j \in Nat BY <1>1, <1>2
    <3>2. s[j].n = 2 * j - 1 BY <3>1, <1>3
    <3>3. (2 * i - 1) + 2 <= 2 * j - 1 BY <3>1, <2>1, <2>4
    <3> QED BY <2>2, <3>2, <3>3
  <2> QED BY <2>2, <2>3, <2>4
<1>5. Sending(s, 0) BY <1>2, <1>4 DEF Sending
<1>6. <<udplastsend(last, 2 * Chunks - 1)>> \in Seq(PlainCall)
  <2>1. 2 * Chunks - 1 \in Nat BY <1>1
  <2>2. udplastsend(last, 2 * Chunks - 1) \in PlainCall BY <2>1, PlainCalls
  <2> QED BY <2>2, OneOf
<1>7. Sending(s \o <<udplastsend(last, 2 * Chunks - 1)>>, 0) BY <1>5, <1>6, PlainBehind
<1> QED BY <1>7 DEF SendChunks, s

\* The pairs to receive, and the messages behind them.
LEMMA RecvFileFits ==
  ASSUME NEW size \in 0..Chunks, NEW t \in Seq(PlainCall), NEW st
  PROVE  Fits(RecvFile(size) \o t, st, 0)
<1> DEFINE s == RecvFile(size)
           u == s \o t
<1>1. size \in Nat /\ Chunks \in Nat /\ size <= Chunks BY Constants
<1>2. udprecv \in Call /\ udplastrecv("chunk") \in Call
      /\ udprecv.op = "recvPair" /\ udplastrecv("chunk").op = "recv"
      /\ udplastrecv("chunk").kind = "chunk"
  BY Names DEF udprecv, udplastrecv, Call
<1>3. s \in Seq(Call) /\ Len(s) = size
  <2>1. s \in [1..size -> Call] BY <1>2 DEF RecvFile
  <2> HIDE DEF s
  <2> QED BY <2>1, <1>1, FunctionIsSeq
<1>4. \A i \in 1..size : s[i] = IF i < size THEN udprecv ELSE udplastrecv("chunk")
  BY DEF RecvFile
<1>5. t \in Seq(Call) BY PlainSubset, SeqMonotonic
<1> HIDE DEF s
<1>6. u = s \o t OBVIOUS
<1> HIDE DEF u
<1>7. /\ u \in Seq(Call) /\ Len(t) \in Nat /\ Len(u) = size + Len(t)
      /\ \A i \in 1..Len(u) : \/ i \in 1..size /\ u[i] = s[i]
                              \/ i > size /\ i - size \in 1..Len(t) /\ u[i] = t[i - size]
  <2>1. /\ u \in Seq(Call) /\ Len(s) \in Nat /\ Len(t) \in Nat /\ Len(u) = Len(s) + Len(t)
        /\ \A i \in 1..Len(u) : \/ i \in 1..Len(s) /\ u[i] = s[i]
                                \/ i > Len(s) /\ i - Len(s) \in 1..Len(t) /\ u[i] = t[i - Len(s)]
    <3>1. s \in Seq(Call) BY <1>3
    <3> QED BY <3>1, <1>5, <1>6, Joined
  <2>2. Len(s) = size BY <1>3
  <2> QED BY <2>1, <2>2
<1>8. ASSUME NEW i \in 1..Len(u)
      PROVE  \/ u[i] \in PlainCall
             \/ u[i].op = "recvPair" /\ i < size
             \/ u[i].op = "recv" /\ u[i].kind = "chunk"
  <2>1. CASE i \in 1..size /\ u[i] = s[i] BY <2>1, <1>2, <1>4
  <2>2. CASE i > size /\ i - size \in 1..Len(t) /\ u[i] = t[i - size] BY <2>2
  <2> QED BY <2>1, <2>2, <1>7
<1>9. ASSUME NEW i \in 1..Len(u)
      PROVE  /\ u[i].kind = "info" /\ u[i].op = "send" => u[i].n = Chunks
             /\ u[i].op # "sendPair"
             /\ u[i].op = "recvPair" => 0 + 2 * i <= 2 * Chunks
             /\ ~(u[i].op = "recv" /\ u[i].kind \in Announced)
  <2>1. CASE u[i] \in PlainCall BY <2>1 DEF PlainCall, UnpairedCall
  <2>2. CASE u[i].op = "recvPair" /\ i < size
    <3>1. i \in Nat BY <1>7, <1>1
    <3>2. 0 + 2 * i <= 2 * Chunks BY <3>1, <2>2, <1>1
    <3> QED BY <2>2, <3>2
  <2>3. CASE u[i].op = "recv" /\ u[i].kind = "chunk" BY <2>3 DEF Announced
  <2> QED BY <2>1, <2>2, <2>3, <1>8
<1>10. Fits(u, st, 0) BY <1>7, <1>9 DEF Fits
<1> QED BY <1>10 DEF u, s

-------------------------------------------------------------------------------
\* What the programs go on with.
LEMMA Few ==
  ASSUME NEW S, NEW a \in S, NEW b \in S
  PROVE  <<>> \in Seq(S) /\ <<a>> \in Seq(S) /\ <<a, b>> \in Seq(S)
OBVIOUS

LEMMA Both ==
  ASSUME NEW S, NEW s \in Seq(S), NEW t \in Seq(S)
  PROVE  s \o t \in Seq(S)
OBVIOUS

LEMMA PlainFits ==
  ASSUME NEW s \in Seq(PlainCall), NEW st, NEW rt
  PROVE  Fits(s, st, rt)
BY PlainSending, SendingFits

LEMMA ClientCallsFit ==
  ASSUME NEW c \in Command, NEW st, NEW rt, c = "PUT" => st = 0, c = "GET" => rt = 0
  PROVE  Fits(ClientCalls(c), st, rt)
<1> DEFINE base == <<udplastsend(c, 0), udplastrecv("echo")>>
           get  == <<udplastsend("name", 0), udplastrecv("info")>>
           del  == <<udplastsend("name", 0), udplastrecv("verdict")>>
           list == <<udplastrecv("entry")>>
           put  == <<udplastsend("info", Chunks), udplastrecv("answer"), udplastsend("info", Chunks)>>
<1>1. base \in Seq(PlainCall) BY PlainCalls, Few
<1>2. del \in Seq(PlainCall) /\ list \in Seq(PlainCall) BY PlainCalls, Few
<1>3. get \in Seq(UnpairedCall)
  <2>1. udplastsend("name", 0) \in UnpairedCall BY PlainCalls, PlainSubset
  <2> QED BY <2>1, PlainCalls, Few
<1>4. put \in Seq(PlainCall)
  <2> DEFINE x == udplastsend("info", Chunks)
             y == udplastrecv("answer")
  <2>1. x \in PlainCall /\ y \in PlainCall BY PlainCalls
  <2> HIDE DEF x, y
  <2>2. <<x, y, x>> \in Seq(PlainCall) BY <2>1
  <2> QED BY <2>2 DEF x, y
<1> HIDE DEF base, get, del, list, put
<1>5. CASE c = "LIST"
  <2>1. ClientCalls(c) = base \o list BY <1>5 DEF ClientCalls, base, list
  <2> QED BY <2>1, <1>1, <1>2, Both, PlainFits
<1>6. CASE c = "GET"
  <2>1. ClientCalls(c) = base \o get BY <1>6 DEF ClientCalls, base, get
  <2>2. base \in Seq(UnpairedCall) BY <1>1, PlainSubset, SeqMonotonic
  <2>3. base \o get \in Seq(UnpairedCall) BY <2>2, <1>3, Both
  <2>4. rt = 0 BY <1>6
  <2> QED BY <2>1, <2>3, <2>4, UnpairedFits
<1>7. CASE c = "DEL"
  <2>1. ClientCalls(c) = base \o del BY <1>7 DEF ClientCalls, base, del
  <2> QED BY <2>1, <1>1, <1>2, Both, PlainFits
<1>8. CASE c = "PUT"
  <2>1. ClientCalls(c) = base \o (IF ~file.exists THEN <<>> ELSE put \o SendChunks("last"))
    BY <1>8 DEF ClientCalls, base, put
  <2>2. CASE ~file.exists
    <3>1. ClientCalls(c) = base \o <<>> BY <2>1, <2>2
    <3>2. base \o <<>> = base BY <1>1, ConcatEmptySeq
    <3> QED BY <3>1, <3>2, <1>1, PlainFits
  <2>3. CASE file.exists
    <3>1. ClientCalls(c) = base \o (put \o SendChunks("last")) BY <2>1, <2>3
    <3>2. Sending(put \o SendChunks("last"), 0) BY <1>4, SendChunksFits, PlainBefore
    <3>3. Sending(base \o (put \o SendChunks("last")), 0) BY <1>1, <3>2, PlainBefore
    <3>4. st = 0 BY <1>8
    <3> QED BY <3>1, <3>3, <3>4, SendingFits
  <2> QED BY <2>2, <2>3
<1> QED BY <1>5, <1>6, <1>7, <1>8, Names

LEMMA ServeFits ==
  ASSUME NEW kind \in Kind, NEW st, NEW rt, kind = "PUT" => rt = 0
  PROVE  Fits(Serve(kind) \o
                IF kind \in {"GET", "DEL", "PUT"} THEN <<>> ELSE <<udplastrecv("command")>>, st, rt)
<1> DEFINE run  == <<udplastrecv("command")>>
           back == <<udplastsend(kind, 0)>>
           dir  == [k \in 1..Entries |-> udplastsend("entry", k)]
           end  == <<udplastsend("@", 0)>>
<1>1. run \in Seq(PlainCall) /\ end \in Seq(PlainCall) BY PlainCalls, Few
<1>2. dir \in Seq(PlainCall)
  <2>1. Entries \in Nat BY Constants
  <2>2. \A k \in 1..Entries : udplastsend("entry", k) \in PlainCall BY PlainCalls
  <2>3. dir \in [1..Entries -> PlainCall] BY <2>2
  <2> HIDE DEF dir
  <2> QED BY <2>1, <2>3, FunctionIsSeq
<1> HIDE DEF run, dir, end
<1>3. CASE kind \notin Command
  <2>1. Serve(kind) = <<>> /\ kind \notin {"GET", "DEL", "PUT"} BY <1>3 DEF Serve, Command
  <2>2. <<>> \o run = run BY <1>1, ConcatEmptySeq
  <2>3. Fits(run, st, rt) BY <1>1, PlainFits
  <2> QED BY <2>1, <2>2, <2>3 DEF run
<1>4. CASE kind \in Command
  <2>1. back \in Seq(PlainCall) BY <1>4, PlainCalls, Few
  <2> HIDE DEF back
  <2>2. CASE kind = "LIST"
    <3>1. Serve(kind) = back \o (dir \o end) BY <1>4, <2>2 DEF Serve, back, dir, end
    <3>2. (back \o (dir \o end)) \o run \in Seq(PlainCall) BY <1>1, <1>2, <2>1, Both
    <3>3. Fits((back \o (dir \o end)) \o run, st, rt) BY <3>2, PlainFits
    <3> QED BY <3>1, <3>3, <2>2 DEF run
  <2>3. ASSUME NEW use \in {"getname", "delname", "putinfo"}, Serve(kind) = back \o <<udplastrecv(use)>>,
               kind \in {"GET", "DEL", "PUT"}, use = "putinfo" => rt = 0
        PROVE  Fits(Serve(kind) \o <<>>, st, rt)
    <3> DEFINE next == <<udplastrecv(use)>>
               all  == back \o next
    <3>1. CASE use # "putinfo"
      <4>1. next \in Seq(PlainCall) BY <3>1, PlainCalls, Few
      <4>2. all \in Seq(PlainCall) BY <4>1, <2>1, Both
      <4>3. Fits(all, st, rt) BY <4>2, PlainFits
      <4> HIDE DEF all
      <4>4. all \o <<>> = all BY <4>2, ConcatEmptySeq
      <4>5. Serve(kind) = all BY <2>3 DEF all
      <4> QED BY <4>3, <4>4, <4>5
    <3>2. CASE use = "putinfo"
      <4>1. next \in Seq(UnpairedCall) BY <3>2, PlainCalls, Few
      <4>2. back \in Seq(UnpairedCall) BY <2>1, PlainSubset, SeqMonotonic
      <4>3. all \in Seq(UnpairedCall) BY <4>1, <4>2, Both
      <4>4. rt = 0 BY <3>2, <2>3
      <4>5. Fits(all, st, rt) BY <4>3, <4>4, UnpairedFits
      <4> HIDE DEF all
      <4>6. all \o <<>> = all BY <4>3, ConcatEmptySeq
      <4>7. Serve(kind) = all BY <2>3 DEF all
      <4> QED BY <4>5, <4>6, <4>7
    <3> QED BY <3>1, <3>2
  <2>4. CASE kind = "GET"
    <3>1. Serve(kind) = back \o <<udplastrecv("getname")>> BY <2>4, <1>4 DEF Serve, back
    <3>2. Fits(Serve(kind) \o <<>>, st, rt) BY <3>1, <2>3, <2>4
    <3> QED BY <3>2, <2>4
  <2>5. CASE kind = "DEL"
    <3>1. Serve(kind) = back \o <<udplastrecv("delname")>> BY <2>5, <1>4 DEF Serve, back
    <3>2. Fits(Serve(kind) \o <<>>, st, rt) BY <3>1, <2>3, <2>5
    <3> QED BY <3>2, <2>5
  <2>6. CASE kind = "PUT"
    <3>1. Serve(kind) = back \o <<udplastrecv("putinfo")>> BY <2>6, <1>4 DEF Serve, back
    <3>2. Fits(Serve(kind) \o <<>>, st, rt) BY <3>1, <2>3, <2>6
    <3> QED BY <3>2, <2>6
  <2> QED BY <1>4, <2>2, <2>4, <2>5, <2>6, Names
<1> QED BY <1>3, <1>4

LEMMA PutFileFits ==
  ASSUME NEW m, NEW s \in PutFileToClient(m), NEW rt
  PROVE  Fits(s, 0, rt)
<1> DEFINE run  == <<udplastrecv("command")>>
           info == <<udplastsend("info", Chunks)>>
           more == <<udplastsend("last", 2 * Chunks)>>
           no   == <<udpsend("nofile", 1)>>
           whole == info \o SendChunks("cut")
<1>1. run \in Seq(PlainCall) /\ info \in Seq(PlainCall) BY PlainCalls, Few
<1>2. more \in Seq(PlainCall)
  <2>1. 2 * Chunks \in Nat BY Constants
  <2>2. udplastsend("last", 2 * Chunks) \in PlainCall BY <2>1, PlainCalls
  <2> QED BY <2>2, Few
<1>3. Sending(no, 0)
  <2>1. udpsend("nofile", 1) \in Call BY Names DEF udpsend, Call, Sends
  <2>2. no \in Seq(Call) /\ Len(no) = 1 /\ no[1] = udpsend("nofile", 1) BY <2>1, OneOf
  <2> HIDE DEF no
  <2>3. \A i \in 1..Len(no) : i = 1 BY <2>2
  <2>4. /\ udpsend("nofile", 1).op = "sendPair" /\ udpsend("nofile", 1).kind = "nofile"
        /\ udpsend("nofile", 1).n = 1
    BY DEF udpsend
  <2>5. 0 + 1 <= 1 /\ 1 <= 2 * Chunks - 1 BY Constants
  <2>6. \A i \in 1..Len(no), j \in 1..Len(no) : ~(i < j) BY <2>3
  <2>7. \A i \in 1..Len(no) : no[i].op = "sendPair" /\ no[i].kind = "nofile" /\ no[i].n = 1
    BY <2>2, <2>3, <2>4
  <2> QED BY <2>2, <2>5, <2>6, <2>7 DEF Sending
<1>4. Sending(whole, 0) BY <1>1, SendChunksFits, PlainBefore
<1> HIDE DEF run, info, more, no, whole
<1>5. s \in {no \o run, whole, (whole \o more) \o run, whole \o run}
  BY DEF PutFileToClient, run, info, more, no, whole
<1>6. Sending(no \o run, 0) BY <1>1, <1>3, PlainBehind
<1>7. Sending(whole \o more, 0) BY <1>2, <1>4, PlainBehind
<1>8. Sending((whole \o more) \o run, 0) BY <1>1, <1>7, PlainBehind
<1>9. Sending(whole \o run, 0) BY <1>1, <1>4, PlainBehind
<1> QED BY <1>4, <1>5, <1>6, <1>8, <1>9, SendingFits

LEMMA RecvFileAloneFits ==
  ASSUME NEW size \in 0..Chunks, NEW st
  PROVE  Fits(RecvFile(size), st, 0) /\ Fits(<<>>, st, 0)
<1>1. <<>> \in Seq(PlainCall) BY PlainCalls, Few
<1>2. Fits(RecvFile(size) \o <<>>, st, 0) BY <1>1, RecvFileFits
<1>3. RecvFile(size) \in Seq(Call)
  <2>1. size \in Nat BY Constants
  <2>2. udprecv \in Call /\ udplastrecv("chunk") \in Call BY Names DEF udprecv, udplastrecv, Call
  <2>3. RecvFile(size) \in [1..size -> Call] BY <2>2 DEF RecvFile
  <2> QED BY <2>1, <2>3, FunctionIsSeq
<1>4. RecvFile(size) \o <<>> = RecvFile(size) BY <1>3, ConcatEmptySeq
<1>5. Fits(<<>>, st, 0) BY <1>1, PlainFits
<1> QED BY <1>2, <1>4, <1>5

\* The length announced is the file's, another packet's is 0 or any.
LEMMA GetFileSizes ==
  ASSUME NEW m \in Datagram, m.kind = "info" => m.n = Chunks, NEW s \in GetFileFromClient(m)
  PROVE  \E size \in 0..Chunks : s = RecvFile(size)
<1>1. Chunks \in 0..Chunks /\ 0 \in 0..Chunks BY Constants
<1> DEFINE sizes == CASE m.kind = "info"                  -> {m.n}
                      [] m.kind \in {"pair", "last", "cut"} -> 0..Chunks
                      [] OTHER                            -> {0}
<1>2. sizes \subseteq 0..Chunks
  <2>1. CASE m.kind = "info" BY <2>1, <1>1
  <2>2. CASE m.kind \in {"pair", "last", "cut"} BY <2>2
  <2>3. CASE m.kind \notin {"info", "pair", "last", "cut"} BY <2>3, <1>1
  <2> QED BY <2>1, <2>2, <2>3
<1>3. \E size \in sizes : s = RecvFile(size) BY DEF GetFileFromClient
<1> QED BY <1>2, <1>3

\* After udplastrecv has returned a packet, with what its call resets.
LEMMA NextCallsFit ==
  ASSUME NEW p \in Peer, script[p] # <<>>, Head(script[p]).op = "recv",
         NEW st \in Nat, NEW rt \in Nat, Fits(script[p], st, rt),
         NEW m \in Datagram, m.kind = "info" => m.n = Chunks,
         NEW st2, st2 = IF Head(script[p]).kind = "getname" THEN 0 ELSE st,
         NEW rt2, rt2 = IF Head(script[p]).kind = "command" /\ m.kind = "PUT" THEN 0 ELSE rt,
         NEW s \in NextCalls(p, m)
  PROVE  Fits(s, st2, rt2)
<1> DEFINE use == Head(script[p]).kind
           rest == Tail(script[p])
           run == <<udplastrecv("command")>>
<1>1. run \in Seq(PlainCall) BY PlainCalls, Few
<1>2. use \in Use /\ m.kind \in Kind
  <2>1. Head(script[p]) \in Call BY FitsHead
  <2> QED BY <2>1, CallTyped DEF Datagram
<1>3. use \in Announced => rt = 0
  <2>1. Head(script[p]) = script[p][1] /\ 1 \in 1..Len(script[p]) BY FitsHead
  <2> QED BY <2>1 DEF Fits
<1>4. Fits(rest, st, rt) BY FitsTail
<1>5. CASE use = "command"
  <2>1. s = Serve(m.kind) \o IF m.kind \in {"GET", "DEL", "PUT"} THEN <<>> ELSE run
    BY <1>5 DEF NextCalls
  <2>2. m.kind = "PUT" => rt2 = 0 BY <1>5
  <2> QED BY <1>2, <2>1, <2>2, ServeFits
<1>6. CASE use = "getname"
  <2>1. s \in PutFileToClient(m) BY <1>6 DEF NextCalls
  <2>2. st2 = 0 BY <1>6
  <2> QED BY <2>1, <2>2, PutFileFits
<1>7. CASE use = "delname"
  <2>1. s = delFiles(m) \o run BY <1>7 DEF NextCalls
  <2>2. delFiles(m) \in Seq(PlainCall) BY PlainCalls, Few DEF delFiles
  <2>3. s \in Seq(PlainCall) BY <1>1, <2>1, <2>2, Both
  <2> QED BY <2>3, PlainFits
<1>8. CASE use = "putinfo"
  <2> DEFINE x == udplastsend("answer", 0)
             y == udplastrecv("putinfo2")
  <2>1. s = <<x, y>> BY <1>8 DEF NextCalls
  <2>2. x \in UnpairedCall /\ y \in UnpairedCall BY PlainCalls, PlainSubset
  <2> HIDE DEF x, y
  <2>3. s \in Seq(UnpairedCall) BY <2>1, <2>2
  <2>4. rt2 = 0 BY <1>3, <1>8 DEF Announced
  <2> QED BY <2>3, <2>4, UnpairedFits
<1>9. CASE use = "putinfo2"
  <2>1. \E f \in GetFileFromClient(m) : s = f \o run BY <1>9 DEF NextCalls
  <2>2. PICK size \in 0..Chunks : s = RecvFile(size) \o run BY <2>1, GetFileSizes
  <2>3. rt2 = 0 BY <1>3, <1>9 DEF Announced
  <2> QED BY <1>1, <2>2, <2>3, RecvFileFits
<1>10. CASE use = "info"
  <2>1. s = IF m.kind = "info" THEN RecvFile(m.n) ELSE <<>> BY <1>10 DEF NextCalls
  <2>2. Chunks \in 0..Chunks BY Constants
  <2>3. s = RecvFile(Chunks) \/ s = <<>> BY <2>1
  <2>4. rt2 = 0 BY <1>3, <1>10 DEF Announced
  <2> QED BY <2>2, <2>3, <2>4, RecvFileAloneFits
<1>11. CASE use = "entry"
  <2>1. s = rest \/ s = script[p] BY <1>11 DEF NextCalls
  <2>2. st2 = st /\ rt2 = rt BY <1>11
  <2> QED BY <1>4, <2>1, <2>2
<1>12. CASE use \in {"echo", "listed", "chunk", "answer", "verdict"}
  <2>1. s = rest BY <1>12 DEF NextCalls
  <2>2. st2 = st /\ rt2 = rt BY <1>12
  <2> QED BY <1>4, <2>1, <2>2
<1> QED BY <1>2, <1>5, <1>6, <1>7, <1>8, <1>9, <1>10, <1>11, <1>12, Names

-------------------------------------------------------------------------------
\* The links.
LEMMA MadeGrows ==
  ASSUME NEW c \in Nat, NEW e \in Nat, c <= e
  PROVE  Made(c) \subseteq Made(e) /\ Made(c) \subseteq Datagram
<1>1. 0..c \subseteq 0..e OBVIOUS
<1> QED BY <1>1 DEF Made

LEMMA MadeIs ==
  ASSUME NEW c \in Nat, NEW d \in Made(c)
  PROVE  d \in Datagram /\ d.id \in 0..c /\ (d.kind = "info" => d.n = Chunks)
BY DEF Made

\* A packet entering a link, and what the link then holds.
Stored(q, d) == IF Len(q) = Cap THEN q ELSE Append(q, d)

Entered(q, h, d, q2, h2) ==
  \/ q2 = q /\ h2 = h
  \/ q2 = q /\ h2 = d
  \/ /\ h2 = NoPacket
     /\ \/ q2 = Stored(q, d)
        \/ h # NoPacket /\ q2 = Stored(Stored(q, d), h)

LEMMA StoredTyped ==
  ASSUME NEW S, NEW q \in Seq(S), NEW d \in S
  PROVE  Stored(q, d) \in Seq(S)
BY Appended DEF Stored

LEMMA EnteredTyped ==
  ASSUME NEW S, NEW q \in Seq(S), NEW h \in S \cup {NoPacket}, NEW d \in S,
         NEW q2, NEW h2, Entered(q, h, d, q2, h2)
  PROVE  q2 \in Seq(S) /\ h2 \in S \cup {NoPacket}
<1>1. Stored(q, d) \in Seq(S) BY StoredTyped
<1>2. h # NoPacket => Stored(Stored(q, d), h) \in Seq(S)
  <2>1. ASSUME h # NoPacket PROVE h \in S BY <2>1
  <2> QED BY <1>1, <2>1, StoredTyped
<1> QED BY <1>1, <1>2 DEF Entered

\* p's step reads nothing, one datagram or two.
Reading(p) == UNCHANGED links \/ (\E d : Read(p, d)) \/ ReadTwo(p)

LEMMA ReadTakes ==
  ASSUME NEW p \in Peer, NEW d, Read(p, d)
  PROVE  /\ Incoming(p) # <<>> /\ Incoming(p)' = Tail(Incoming(p)) /\ Held(p)' = Held(p)
         /\ Incoming(Other(p))' = Incoming(Other(p)) /\ Held(Other(p))' = Held(Other(p))
BY DEF Read, Peer, Other, Incoming, Held, KeepLink, Up!Take, Down!Take

LEMMA ReadTwoTakes ==
  ASSUME NEW p \in Peer, ReadTwo(p)
  PROVE  /\ Len(Incoming(p)) >= 2 /\ Incoming(p)' = Tail(Tail(Incoming(p))) /\ Held(p)' = Held(p)
         /\ Incoming(Other(p))' = Incoming(Other(p)) /\ Held(Other(p))' = Held(Other(p))
BY DEF ReadTwo, Peer, Other, Incoming, Held, KeepLink

LEMMA TwoTaken ==
  ASSUME NEW S, NEW q \in Seq(S), Len(q) >= 2
  PROVE  q[1] \in S /\ q[2] \in S /\ Tail(Tail(q)) \in Seq(S)
<1>1. 1 \in 1..Len(q) /\ 2 \in 1..Len(q) /\ q # <<>> OBVIOUS
<1>2. q[1] \in S /\ q[2] \in S BY <1>1
<1>3. Tail(q) \in Seq(S) /\ Len(Tail(q)) = Len(q) - 1 /\ Len(q) \in Nat BY <1>1, TailOf
<1>4. Tail(q) # <<>>
  <2>1. Len(Tail(q)) # 0 BY <1>3
  <2>2. Len(<<>>) = 0 OBVIOUS
  <2> QED BY <2>1, <2>2
<1>5. Tail(Tail(q)) \in Seq(S) BY <1>3, <1>4, TailOf
<1> QED BY <1>2, <1>5

LEMMA LinksKept ==
  ASSUME OnTheWay, Counters, NEW p \in Peer, Reading(p), NEW o \in Peer
  PROVE  Incoming(o)' \in Seq(Made(calls[Other(o)])) /\ Held(o)' \in Made(calls[Other(o)]) \cup {NoPacket}
<1>1. Incoming(o) \in Seq(Made(calls[Other(o)])) /\ Held(o) \in Made(calls[Other(o)]) \cup {NoPacket}
  BY DEF OnTheWay
<1>2. CASE UNCHANGED links BY <1>1, <1>2 DEF links, Incoming, Held
<1>3. CASE \E d : Read(p, d)
  <2>1. PICK d : Read(p, d) BY <1>3
  <2>2. /\ Incoming(p) # <<>> /\ Incoming(p)' = Tail(Incoming(p)) /\ Held(p)' = Held(p)
        /\ Incoming(Other(p))' = Incoming(Other(p)) /\ Held(Other(p))' = Held(Other(p))
    BY <2>1, ReadTakes
  <2>3. CASE o = p BY <1>1, <2>2, <2>3, TailOf
  <2>4. CASE o = Other(p) BY <1>1, <2>2, <2>4
  <2> QED BY <2>3, <2>4, Peers
<1>4. CASE ReadTwo(p)
  <2>2. /\ Len(Incoming(p)) >= 2 /\ Incoming(p)' = Tail(Tail(Incoming(p))) /\ Held(p)' = Held(p)
        /\ Incoming(Other(p))' = Incoming(Other(p)) /\ Held(Other(p))' = Held(Other(p))
    BY <1>4, ReadTwoTakes
  <2>3. CASE o = p BY <1>1, <2>2, <2>3, TwoTaken
  <2>4. CASE o = Other(p) BY <1>1, <2>2, <2>4
  <2> QED BY <2>3, <2>4, Peers
<1> QED BY <1>2, <1>3, <1>4 DEF Reading

\* Every step but SendTo and Release.
LEMMA WayKept ==
  ASSUME OnTheWay, Counters, calls' \in [Peer -> Nat], \A r \in Peer : calls[r] <= calls'[r],
         NEW p \in Peer, Reading(p),
         \/ outbox' = outbox
         \/ \E q \in Seq(Made(calls'[p])) : Len(q) <= 2 /\ outbox' = [outbox EXCEPT ![p] = q]
  PROVE  OnTheWay'
<1>1. ASSUME NEW r \in Peer
      PROVE  /\ calls[r] \in Nat /\ calls'[r] \in Nat
             /\ Made(calls[r]) \subseteq Made(calls'[r])
             /\ Seq(Made(calls[r])) \subseteq Seq(Made(calls'[r]))
  <2>1. calls[r] \in Nat /\ calls'[r] \in Nat /\ calls[r] <= calls'[r] BY DEF Counters
  <2>2. Made(calls[r]) \subseteq Made(calls'[r]) BY <2>1, MadeGrows
  <2> QED BY <2>1, <2>2, SeqMonotonic
<1>2. ASSUME NEW o \in Peer
      PROVE  Incoming(o)' \in Seq(Made(calls'[Other(o)])) /\ Held(o)' \in Made(calls'[Other(o)]) \cup {NoPacket}
  <2>1. Other(o) \in Peer BY Peers
  <2>2. Incoming(o)' \in Seq(Made(calls[Other(o)])) /\ Held(o)' \in Made(calls[Other(o)]) \cup {NoPacket}
    BY LinksKept
  <2> QED BY <1>1, <2>1, <2>2
<1>3. DOMAIN outbox' = Peer BY DEF OnTheWay
<1>4. ASSUME NEW o \in Peer
      PROVE  outbox'[o] \in Seq(Made(calls'[o])) /\ Len(outbox'[o]) <= 2
  <2>1. outbox[o] \in Seq(Made(calls'[o])) /\ Len(outbox[o]) <= 2 BY <1>1 DEF OnTheWay
  <2>2. CASE outbox' = outbox BY <2>1, <2>2
  <2>3. CASE \E q \in Seq(Made(calls'[p])) : Len(q) <= 2 /\ outbox' = [outbox EXCEPT ![p] = q]
    BY <2>1, <2>3 DEF OnTheWay
  <2> QED BY <2>2, <2>3
<1> QED BY <1>2, <1>3, <1>4 DEF OnTheWay, Made, Other

-------------------------------------------------------------------------------
\* Parts of the invariant of which nothing, or what is p's, changes.
LEMMA CountersSame ==
  ASSUME Counters,
         UNCHANGED <<plan, file, network, slideid, Send_Seq, prev_Recv_Seq, ackSeq, calls, accepted, slips>>
  PROVE  Counters'
BY DEF Counters, Other

LEMMA WrittenSame ==
  ASSUME Written, UNCHANGED files
  PROVE  Written'
BY DEF Written, files

LEMMA StagesSame ==
  ASSUME Stages, UNCHANGED <<script, stage, resendcount>>
  PROVE  Stages'
BY DEF Stages

LEMMA ScriptsSame ==
  ASSUME Scripts, UNCHANGED <<script, Send_temp_Seq, rec_temp_seq>>
  PROVE  Scripts'
BY DEF Scripts

LEMMA Unaltered ==
  ASSUME NEW S, NEW f \in [Peer -> S], NEW p \in Peer
  PROVE  f = [f EXCEPT ![p] = f[p]] /\ f[p] \in S
OBVIOUS

LEMMA ExceptTyped ==
  ASSUME NEW S, NEW f \in [Peer -> S], NEW p \in Peer, NEW x \in S
  PROVE  /\ [f EXCEPT ![p] = x] \in [Peer -> S] /\ [f EXCEPT ![p] = x][p] = x
         /\ [f EXCEPT ![p] = x][Other(p)] = f[Other(p)]
BY Peers

LEMMA StagesSet ==
  ASSUME Stages, NEW p \in Peer, NEW g \in Stage, NEW n \in 0..(Resends + 1),
         stage' = [stage EXCEPT ![p] = g], resendcount' = [resendcount EXCEPT ![p] = n],
         script'[Other(p)] = script[Other(p)],
         g # "none" => script'[p] # <<>> /\ Head(script'[p]).op \in Sends,
         g \notin {"settling", "settlingAck"} => n <= Resends
  PROVE  Stages'
<1>1. stage \in [Peer -> Stage] /\ resendcount \in [Peer -> 0..(Resends + 1)] BY DEF Stages
<1>2. /\ stage' \in [Peer -> Stage] /\ stage'[p] = g /\ stage'[Other(p)] = stage[Other(p)]
      /\ resendcount' \in [Peer -> 0..(Resends + 1)] /\ resendcount'[p] = n
      /\ resendcount'[Other(p)] = resendcount[Other(p)]
  <2>1. /\ stage' \in [Peer -> Stage] /\ stage'[p] = g /\ stage'[Other(p)] = stage[Other(p)]
    <3> DEFINE f == [stage EXCEPT ![p] = g]
    <3>1. stage \in [Peer -> Stage] BY <1>1
    <3>2. f \in [Peer -> Stage] /\ f[p] = g /\ f[Other(p)] = stage[Other(p)] BY <3>1, Peers
    <3> QED BY <3>2
  <2>2. /\ resendcount' \in [Peer -> 0..(Resends + 1)] /\ resendcount'[p] = n
        /\ resendcount'[Other(p)] = resendcount[Other(p)]
    <3> DEFINE f == [resendcount EXCEPT ![p] = n]
    <3>1. resendcount \in [Peer -> 0..(Resends + 1)] BY <1>1
    <3>2. /\ f \in [Peer -> 0..(Resends + 1)] /\ f[p] = n
          /\ f[Other(p)] = resendcount[Other(p)]
      BY <3>1, Peers
    <3> QED BY <3>2
  <2> QED BY <2>1, <2>2
<1>3. ASSUME NEW o \in Peer
      PROVE  /\ stage'[o] # "none" => script'[o] # <<>> /\ Head(script'[o]).op \in Sends
             /\ stage'[o] \notin {"settling", "settlingAck"} => resendcount'[o] <= Resends
  <2>1. CASE o = p BY <1>2, <2>1
  <2>2. CASE o = Other(p) BY <1>2, <2>2 DEF Stages
  <2> QED BY <2>1, <2>2, Peers
<1> QED BY <1>2, <1>3 DEF Stages

LEMMA ScriptsSet ==
  ASSUME Scripts, NEW p \in Peer, NEW s, NEW st \in PairSeq, NEW rt \in PairSeq, Fits(s, st, rt),
         script' = [script EXCEPT ![p] = s],
         Send_temp_Seq' = [Send_temp_Seq EXCEPT ![p] = st],
         rec_temp_seq' = [rec_temp_seq EXCEPT ![p] = rt]
  PROVE  Scripts' /\ script'[p] = s /\ script'[Other(p)] = script[Other(p)]
<1>1. Send_temp_Seq \in [Peer -> PairSeq] /\ rec_temp_seq \in [Peer -> PairSeq] BY DEF Scripts
<1>2. /\ Send_temp_Seq' \in [Peer -> PairSeq] /\ Send_temp_Seq'[p] = st
      /\ Send_temp_Seq'[Other(p)] = Send_temp_Seq[Other(p)]
      /\ rec_temp_seq' \in [Peer -> PairSeq] /\ rec_temp_seq'[p] = rt
      /\ rec_temp_seq'[Other(p)] = rec_temp_seq[Other(p)]
  <2>1. /\ Send_temp_Seq' \in [Peer -> PairSeq] /\ Send_temp_Seq'[p] = st
        /\ Send_temp_Seq'[Other(p)] = Send_temp_Seq[Other(p)]
    <3>1. Send_temp_Seq \in [Peer -> PairSeq] BY <1>1
    <3> QED BY <3>1, ExceptTyped
  <2>2. /\ rec_temp_seq' \in [Peer -> PairSeq] /\ rec_temp_seq'[p] = rt
        /\ rec_temp_seq'[Other(p)] = rec_temp_seq[Other(p)]
    <3>1. rec_temp_seq \in [Peer -> PairSeq] BY <1>1
    <3> QED BY <3>1, ExceptTyped
  <2> QED BY <2>1, <2>2
<1>3. script' \in [Peer -> Seq(Call)] /\ script'[p] = s /\ script'[Other(p)] = script[Other(p)]
  <2>1. script \in [Peer -> Seq(Call)] /\ s \in Seq(Call) BY DEF Scripts, Fits
  <2>2. /\ [script EXCEPT ![p] = s] \in [Peer -> Seq(Call)] /\ [script EXCEPT ![p] = s][p] = s
        /\ [script EXCEPT ![p] = s][Other(p)] = script[Other(p)]
    BY <2>1, Peers
  <2> QED BY <2>2
<1>4. \A o \in Peer : Fits(script'[o], Send_temp_Seq'[o], rec_temp_seq'[o])
  <2>1. Fits(script[Other(p)], Send_temp_Seq[Other(p)], rec_temp_seq[Other(p)])
    BY Peers DEF Scripts
  <2>2. \A o \in Peer : o = p \/ o = Other(p) BY Peers
  <2> QED BY <1>2, <1>3, <2>1, <2>2
<1> QED BY <1>2, <1>3, <1>4 DEF Scripts

\* What the steps of p read off the invariant.
LEMMA OwnFacts ==
  ASSUME Scripts, Counters, NEW p \in Peer
  PROVE  /\ Fits(script[p], Send_temp_Seq[p], rec_temp_seq[p])
         /\ Send_temp_Seq[p] \in PairSeq /\ rec_temp_seq[p] \in PairSeq
         /\ Send_temp_Seq[p] \in Nat /\ rec_temp_seq[p] \in Nat
         /\ Send_Seq[p] \in PairSeq \cup {NoSeq} /\ ackSeq[p] \in PairSeq \cup {NoSeq}
         /\ calls[p] \in Nat /\ calls[Other(p)] \in Nat /\ accepted[p] \in Nat
<1>1. PairSeq \subseteq Nat /\ 0..1 \subseteq PairSeq
  <2>1. 2 * Chunks + 1 \in Nat /\ 2 * Chunks + 1 > 1 BY Constants
  <2> QED BY <2>1 DEF PairSeq
<1>2. Send_temp_Seq[p] \in PairSeq /\ rec_temp_seq[p] \in PairSeq
      /\ Fits(script[p], Send_temp_Seq[p], rec_temp_seq[p])
  BY DEF Scripts
<1>3. Other(p) \in Peer BY Peers
<1> QED BY <1>1, <1>2, <1>3 DEF Counters

\* Only p's packet that comes is looked at.
LEMMA ComesIn ==
  ASSUME OnTheWay, Counters, NEW p \in Peer, Incoming(p) # <<>>
  PROVE  /\ Head(Incoming(p)) \in Datagram /\ Head(Incoming(p)).id \in 0..calls[Other(p)]
         /\ Head(Incoming(p)).kind = "info" => Head(Incoming(p)).n = Chunks
<1>1. Incoming(p) \in Seq(Made(calls[Other(p)])) BY DEF OnTheWay
<1>2. Head(Incoming(p)) \in Made(calls[Other(p)]) BY <1>1, TailOf
<1>3. calls[Other(p)] \in Nat BY Peers DEF Counters
<1> QED BY <1>2, <1>3, MadeIs

LEMMA TwoComeIn ==
  ASSUME OnTheWay, Counters, NEW p \in Peer, Len(Incoming(p)) >= 2, NEW h \in 1..2
  PROVE  Incoming(p)[h] \in Datagram /\ Incoming(p)[h].id \in 0..calls[Other(p)]
<1>1. Incoming(p) \in Seq(Made(calls[Other(p)])) BY DEF OnTheWay
<1>2. Incoming(p)[1] \in Made(calls[Other(p)]) /\ Incoming(p)[2] \in Made(calls[Other(p)])
  BY <1>1, TwoTaken
<1>3. Incoming(p)[h] \in Made(calls[Other(p)]) BY <1>2
<1>4. calls[Other(p)] \in Nat BY Peers DEF Counters
<1> QED BY <1>3, <1>4, MadeIs

-------------------------------------------------------------------------------
\* The router.
LEMMA SendToInv ==
  ASSUME IInv, NEW p \in Peer, SendTo(p)
  PROVE  IInv'
<1> DEFINE d == Head(outbox[p])
           o == Other(p)
<1>1. /\ UNCHANGED <<plan, file, network, script, stage, slideid, resendcount, Send_Seq, prev_Recv_Seq,
                     Send_temp_Seq, rec_temp_seq, ackSeq, files, calls, accepted, slips>>
      /\ outbox[p] # <<>> /\ outbox' = [outbox EXCEPT ![p] = Tail(@)]
  BY DEF SendTo, given, control, seqs, history
<1>2. Counters' /\ Written' /\ Stages' /\ Scripts'
  BY <1>1, CountersSame, WrittenSame, StagesSame, ScriptsSame DEF IInv
<1>3. OnTheWay'
  <2>1. \A r \in Peer : /\ outbox[r] \in Seq(Made(calls[r])) /\ Len(outbox[r]) <= 2
                        /\ Incoming(r) \in Seq(Made(calls[Other(r)]))
                        /\ Held(r) \in Made(calls[Other(r)]) \cup {NoPacket}
    BY DEF IInv, OnTheWay
  <2>2. d \in Made(calls[p]) /\ Tail(outbox[p]) \in Seq(Made(calls[p])) /\ Len(Tail(outbox[p])) <= 2
    <3>1. outbox[p] \in Seq(Made(calls[p])) /\ Len(outbox[p]) <= 2 BY <2>1
    <3>2. /\ d \in Made(calls[p]) /\ Tail(outbox[p]) \in Seq(Made(calls[p]))
          /\ Len(outbox[p]) \in Nat /\ Len(Tail(outbox[p])) = Len(outbox[p]) - 1
      BY <3>1, <1>1, TailOf
    <3> QED BY <3>1, <3>2
  <2>3. /\ o \in Peer /\ o # p /\ Other(o) = p /\ \A r \in Peer : r = p \/ r = o BY Peers
  <2>4. DOMAIN outbox' = Peer /\ outbox'[p] = Tail(outbox[p]) /\ outbox'[o] = outbox[o]
    BY <1>1, <2>3 DEF IInv, OnTheWay
  <2>5. Incoming(p)' = Incoming(p) /\ Held(p)' = Held(p)
    BY DEF SendTo, KeepLink, Incoming, Held, Peer
  <2>6. Entered(Incoming(o), Held(o), d, Incoming(o)', Held(o)')
    <3>1. CASE p = "client"
      BY <3>1 DEF SendTo, Entered, Stored, Incoming, Held, Other, KeepLink,
                  Up!Forward, Up!Hold, Up!Arrive
    <3>2. CASE p = "server"
      BY <3>2 DEF SendTo, Entered, Stored, Incoming, Held, Other, KeepLink,
                  Down!Forward, Down!Hold, Down!Arrive
    <3> QED BY <3>1, <3>2, Peers
  <2>7. Incoming(o)' \in Seq(Made(calls[p])) /\ Held(o)' \in Made(calls[p]) \cup {NoPacket}
    <3>1. Incoming(o) \in Seq(Made(calls[p])) /\ Held(o) \in Made(calls[p]) \cup {NoPacket}
      BY <2>1, <2>3
    <3> QED BY <3>1, <2>2, <2>6, EnteredTyped
  <2> HIDE DEF o, d
  <2>8. \A r \in Peer : /\ Incoming(r)' \in Seq(Made(calls[Other(r)]))
                        /\ Held(r)' \in Made(calls[Other(r)]) \cup {NoPacket}
    BY <2>1, <2>3, <2>5, <2>7
  <2>9. \A r \in Peer : outbox'[r] \in Seq(Made(calls[r])) /\ Len(outbox'[r]) <= 2
    BY <2>1, <2>2, <2>3, <2>4
  <2> QED BY <1>1, <2>4, <2>8, <2>9 DEF OnTheWay, Made, Other
<1> QED BY <1>2, <1>3 DEF IInv

LEMMA ReleaseInv == IInv /\ Release => IInv'
<1> SUFFICES ASSUME IInv, Release PROVE IInv'
  OBVIOUS
<1>1. UNCHANGED <<plan, file, network, script, stage, slideid, resendcount, Send_Seq, prev_Recv_Seq,
                  Send_temp_Seq, rec_temp_seq, ackSeq, files, calls, accepted, slips, outbox>>
  BY DEF Release, given, control, seqs, history
<1>2. Counters' /\ Written' /\ Stages' /\ Scripts'
  BY <1>1, CountersSame, WrittenSame, StagesSame, ScriptsSame DEF IInv
<1>3. OnTheWay'
  <2>1. \A r \in Peer : /\ Incoming(r) \in Seq(Made(calls[Other(r)]))
                        /\ Held(r) \in Made(calls[Other(r)]) \cup {NoPacket}
    BY DEF IInv, OnTheWay
  <2>2. ASSUME NEW r \in Peer
        PROVE  \/ Incoming(r)' = Incoming(r) /\ Held(r)' = Held(r)
               \/ Held(r) # NoPacket /\ Held(r)' = NoPacket
                    /\ Incoming(r)' \in {Incoming(r), Stored(Incoming(r), Held(r))}
    BY DEF Release, Incoming, Held, Stored, KeepLink, Peer,
           Up!Release, Up!Arrive, Down!Release, Down!Arrive
  <2>3. ASSUME NEW r \in Peer
        PROVE  /\ Incoming(r)' \in Seq(Made(calls[Other(r)]))
               /\ Held(r)' \in Made(calls[Other(r)]) \cup {NoPacket}
    <3>1. Held(r) # NoPacket => Stored(Incoming(r), Held(r)) \in Seq(Made(calls[Other(r)]))
      <4>1. ASSUME Held(r) # NoPacket PROVE Held(r) \in Made(calls[Other(r)]) BY <4>1, <2>1
      <4> QED BY <4>1, <2>1, StoredTyped
    <3> QED BY <3>1, <2>1, <2>2
  <2> QED BY <1>1, <2>3 DEF IInv, OnTheWay, Made, Other
<1> QED BY <1>2, <1>3 DEF IInv

-------------------------------------------------------------------------------
\* The menu and the handshake.
LEMMA Numbers ==
  /\ PairSeq \subseteq Nat /\ 0 \in PairSeq /\ 0..1 \subseteq PairSeq
  /\ 0..1 \cup {NoSeq} \subseteq PairSeq \cup {NoSeq}
  /\ Uninit \subseteq 0..1 \cup {NoSeq} /\ Uninit \subseteq PairSeq \cup {NoSeq}
<1>1. 2 * Chunks + 1 \in Nat /\ 2 * Chunks + 1 > 1 BY Constants
<1>2. PairSeq \subseteq Nat /\ 0 \in PairSeq /\ 0..1 \subseteq PairSeq BY <1>1 DEF PairSeq
<1>3. {0, 1} \subseteq 0..1 OBVIOUS
<1> QED BY <1>2, <1>3, Constants

LEMMA HelloMade ==
  ASSUME Counters, NEW p \in Peer
  PROVE  /\ <<hello(p)>> \in Seq(Made(calls[p])) /\ Len(<<hello(p)>>) <= 2
<1>1. ackSeq[p] \in PairSeq \cup {NoSeq} /\ calls[p] \in Nat BY DEF Counters
<1>2. "hello" \in Kind BY Names
<1>3. hello(p) \in Datagram BY <1>1, <1>2 DEF hello, Datagram
<1>4. hello(p).id = 0 /\ hello(p).kind = "hello" BY DEF hello
<1>5. 0 \in 0..calls[p] BY <1>1
<1>6. hello(p) \in Made(calls[p]) BY <1>3, <1>4, <1>5 DEF Made
<1> HIDE DEF hello
<1> QED BY <1>6, OneOf

\* In a call that is no send, no answer is waited for.
LEMMA NotSending ==
  ASSUME Stages, NEW p \in Peer, script[p] = <<>> \/ Head(script[p]).op \notin Sends
  PROVE  stage[p] = "none" /\ resendcount[p] \in 0..(Resends + 1) /\ resendcount[p] <= Resends
<1>1. stage[p] = "none" BY DEF Stages
<1> QED BY <1>1 DEF Stages

LEMMA NotSendingSame ==
  ASSUME Stages, NEW p \in Peer, script[p] = <<>> \/ Head(script[p]).op \notin Sends,
         UNCHANGED <<stage, resendcount>>, script'[Other(p)] = script[Other(p)]
  PROVE  Stages'
<1>1. stage[p] = "none" BY DEF Stages
<1>2. \A o \in Peer : stage[o] # "none" => script'[o] = script[o] BY <1>1, Peers
<1> QED BY <1>2 DEF Stages

LEMMA ChooseInv ==
  ASSUME IInv, Choose
  PROVE  IInv'
<1> DEFINE c == Head(plan)
           st == IF c = "PUT" THEN 0 ELSE Send_temp_Seq["client"]
           rt == IF c = "GET" THEN 0 ELSE rec_temp_seq["client"]
<1>1. /\ script["client"] = <<>> /\ plan # <<>> /\ plan' = Tail(plan)
      /\ script' = [script EXCEPT !["client"] = ClientCalls(c)]
      /\ Send_Seq' = IF c = "PUT" THEN [Send_Seq EXCEPT !["client"] = 0] ELSE Send_Seq
      /\ Send_temp_Seq' = IF c = "PUT" THEN [Send_temp_Seq EXCEPT !["client"] = 0] ELSE Send_temp_Seq
      /\ rec_temp_seq' = IF c = "GET" THEN [rec_temp_seq EXCEPT !["client"] = 0] ELSE rec_temp_seq
      /\ UNCHANGED <<file, network, stage, slideid, resendcount, outbox, prev_Recv_Seq, ackSeq, files,
                     links, calls, accepted, slips>>
  BY DEF Choose, given, history
<1>2. plan' \in Seq(Command) /\ c \in Command BY <1>1, TailOf DEF IInv, Counters
<1>3. Counters'
  <2>1. Send_Seq' \in [Peer -> 0..1 \cup {NoSeq}]
    <3>1. Send_Seq \in [Peer -> 0..1 \cup {NoSeq}] BY DEF IInv, Counters
    <3>2. 0 \in 0..1 \cup {NoSeq} OBVIOUS
    <3>3. [Send_Seq EXCEPT !["client"] = 0] \in [Peer -> 0..1 \cup {NoSeq}]
      BY <3>1, <3>2, Peers, ExceptTyped
    <3> HIDE DEF c
    <3> QED BY <1>1, <3>1, <3>3
  <2>2. \A p \in Peer : accepted[p] <= calls[Other(p)] BY DEF IInv, Counters
  <2> QED BY <1>1, <1>2, <2>1, <2>2 DEF IInv, Counters, Other
<1>4. Written' BY <1>1, WrittenSame DEF IInv
<1>5. Scripts' /\ script'[Other("client")] = script[Other("client")]
  <2>1. Send_temp_Seq \in [Peer -> PairSeq] /\ rec_temp_seq \in [Peer -> PairSeq]
    BY DEF IInv, Scripts
  <2>2. st \in PairSeq /\ rt \in PairSeq BY <2>1, Numbers, Peers
  <2>3. Send_temp_Seq' = [Send_temp_Seq EXCEPT !["client"] = st] BY <1>1, <2>1
  <2>4. rec_temp_seq' = [rec_temp_seq EXCEPT !["client"] = rt] BY <1>1, <2>1
  <2>5. Fits(ClientCalls(c), st, rt) BY <1>2, ClientCallsFit
  <2> HIDE DEF st, rt, c
  <2> QED BY <1>1, <2>2, <2>3, <2>4, <2>5, Peers, ScriptsSet DEF IInv
<1>6. Stages' BY <1>1, <1>5, Peers, NotSendingSame DEF IInv
<1>7. OnTheWay'
  <2>1. calls' \in [Peer -> Nat] /\ \A r \in Peer : calls[r] <= calls'[r]
    BY <1>1 DEF IInv, Counters
  <2>2. Reading("client") BY <1>1 DEF Reading
  <2> QED BY <1>1, <2>1, <2>2, Peers, WayKept DEF IInv
<1> QED BY <1>3, <1>4, <1>5, <1>6, <1>7 DEF IInv

LEMMA ServerHandshakeInv ==
  ASSUME IInv, ServerHandshake
  PROVE  IInv'
<1> DEFINE p == "server"
<1>1. /\ script[p] # <<>> /\ Head(script[p]).op = "handshake" /\ Read(p, Head(toServer))
      /\ script' = [script EXCEPT ![p] = Tail(script[p])]
      /\ \/ outbox' = outbox
         \/ outbox' = [outbox EXCEPT ![p] = <<hello(p)>>]
      /\ UNCHANGED <<plan, file, network, stage, slideid, resendcount, Send_Seq, prev_Recv_Seq,
                     Send_temp_Seq, rec_temp_seq, ackSeq, files, calls, accepted, slips>>
  BY DEF ServerHandshake, InCall, given, seqs, history
<1>2. p \in Peer /\ "handshake" \notin Sends BY Peers DEF Sends
<1> HIDE DEF p
<1>3. Counters' /\ Written' BY <1>1, CountersSame, WrittenSame DEF IInv
<1>4. Scripts' /\ script'[Other(p)] = script[Other(p)]
  <2>1. Send_temp_Seq \in [Peer -> PairSeq] /\ rec_temp_seq \in [Peer -> PairSeq]
    BY DEF IInv, Scripts
  <2> DEFINE st == Send_temp_Seq[p]
             rt == rec_temp_seq[p]
  <2>2. st \in PairSeq /\ rt \in PairSeq /\ st \in Nat /\ rt \in Nat /\ Fits(script[p], st, rt)
    BY <1>2, OwnFacts DEF IInv
  <2>3. Send_temp_Seq' = [Send_temp_Seq EXCEPT ![p] = st] BY <1>1, <1>2, <2>1
  <2>4. rec_temp_seq' = [rec_temp_seq EXCEPT ![p] = rt] BY <1>1, <1>2, <2>1
  <2> HIDE DEF st, rt
  <2>5. Fits(Tail(script[p]), st, rt) BY <1>1, <2>2, FitsTail
  <2> QED BY <1>1, <1>2, <2>2, <2>3, <2>4, <2>5, ScriptsSet DEF IInv
<1>5. Stages' BY <1>1, <1>2, <1>4, NotSendingSame DEF IInv
<1>6. OnTheWay'
  <2>1. calls' \in [Peer -> Nat] /\ \A r \in Peer : calls[r] <= calls'[r]
    BY <1>1 DEF IInv, Counters
  <2>2. Reading(p) BY <1>1 DEF Reading
  <2>3. <<hello(p)>> \in Seq(Made(calls'[p])) /\ Len(<<hello(p)>>) <= 2
    BY <1>1, <1>2, HelloMade DEF IInv
  <2> QED BY <1>1, <1>2, <2>1, <2>2, <2>3, WayKept DEF IInv
<1> QED BY <1>3, <1>4, <1>5, <1>6 DEF IInv

\* The client's script is the handshake alone.
LEMMA ClientEmptied ==
  ASSUME Scripts, Counters, script' = [script EXCEPT !["client"] = <<>>],
         UNCHANGED <<Send_temp_Seq, rec_temp_seq>>
  PROVE  Scripts' /\ script'[Other("client")] = script[Other("client")]
<1> DEFINE p == "client"
           st == Send_temp_Seq[p]
           rt == rec_temp_seq[p]
<1>1. Send_temp_Seq \in [Peer -> PairSeq] /\ rec_temp_seq \in [Peer -> PairSeq] /\ p \in Peer
  BY Peers DEF Scripts
<1>2. st \in PairSeq /\ rt \in PairSeq BY <1>1
<1>3. Send_temp_Seq' = [Send_temp_Seq EXCEPT ![p] = st] /\ rec_temp_seq' = [rec_temp_seq EXCEPT ![p] = rt]
  BY <1>1
<1>4. Fits(<<>>, st, rt)
  <2>1. <<>> \in Seq(PlainCall) BY PlainCalls, Few
  <2> QED BY <2>1, PlainFits
<1>5. script' = [script EXCEPT ![p] = <<>>] OBVIOUS
<1> HIDE DEF p, st, rt
<1>6. Scripts' /\ script'[Other(p)] = script[Other(p)]
  BY <1>1, <1>2, <1>3, <1>4, <1>5, ScriptsSet
<1> QED BY <1>6 DEF p

LEMMA ClientHandshakeInv ==
  ASSUME IInv, ClientHandshake \/ HandshakeFails
  PROVE  IInv'
<1> DEFINE p == "client"
<1>1. /\ script[p] # <<>> /\ Head(script[p]).op = "handshake" /\ script' = [script EXCEPT ![p] = <<>>]
      /\ UNCHANGED <<plan, file, network, stage, slideid, resendcount, Send_temp_Seq, rec_temp_seq,
                     ackSeq, files, calls, accepted, slips>>
  BY DEF ClientHandshake, HandshakeFails, InCall, given, seqs, history
<1>2. \/ /\ UNCHANGED <<Send_Seq, prev_Recv_Seq, outbox, links>>
      \/ /\ \E s \in 0..1 : Send_Seq' = [Send_Seq EXCEPT ![p] = s]
         /\ prev_Recv_Seq' = [prev_Recv_Seq EXCEPT ![p] = NoSeq]
         /\ outbox' = [outbox EXCEPT ![p] = <<hello(p)>>] /\ Read(p, Head(toClient))
  BY DEF ClientHandshake, HandshakeFails, seqs
<1>3. p \in Peer /\ "handshake" \notin Sends BY Peers DEF Sends
<1>4. Scripts' /\ script'[Other(p)] = script[Other(p)] BY <1>1, ClientEmptied DEF IInv
<1> HIDE DEF p
<1>5. Counters'
  <2>1. Send_Seq \in [Peer -> 0..1 \cup {NoSeq}] /\ prev_Recv_Seq \in [Peer -> PairSeq \cup {NoSeq}]
    BY DEF IInv, Counters
  <2>2. Send_Seq' \in [Peer -> 0..1 \cup {NoSeq}]
    <3>1. ASSUME NEW s \in 0..1 PROVE [Send_Seq EXCEPT ![p] = s] \in [Peer -> 0..1 \cup {NoSeq}]
      <4>1. s \in 0..1 \cup {NoSeq} OBVIOUS
      <4>2. Send_Seq \in [Peer -> 0..1 \cup {NoSeq}] BY <2>1
      <4> QED BY <4>1, <4>2, <1>3, ExceptTyped
    <3> QED BY <1>2, <2>1, <3>1
  <2>3. prev_Recv_Seq' \in [Peer -> PairSeq \cup {NoSeq}]
    <3>1. prev_Recv_Seq \in [Peer -> PairSeq \cup {NoSeq}] /\ NoSeq \in PairSeq \cup {NoSeq} BY <2>1
    <3>2. [prev_Recv_Seq EXCEPT ![p] = NoSeq] \in [Peer -> PairSeq \cup {NoSeq}]
      BY <3>1, <1>3, ExceptTyped
    <3> QED BY <1>2, <3>1, <3>2
  <2> QED BY <1>1, <2>2, <2>3 DEF IInv, Counters, Other
<1>6. Written' BY <1>1, WrittenSame DEF IInv
<1>7. Stages' BY <1>1, <1>3, <1>4, NotSendingSame DEF IInv
<1>8. OnTheWay'
  <2>1. calls' \in [Peer -> Nat] /\ \A r \in Peer : calls[r] <= calls'[r]
    BY <1>1 DEF IInv, Counters
  <2>2. Reading(p) BY <1>2 DEF Reading
  <2>3. <<hello(p)>> \in Seq(Made(calls'[p])) /\ Len(<<hello(p)>>) <= 2
    BY <1>1, <1>3, HelloMade DEF IInv
  <2> QED BY <1>2, <1>3, <2>1, <2>2, <2>3, WayKept DEF IInv
<1> QED BY <1>4, <1>5, <1>6, <1>7, <1>8 DEF IInv

-------------------------------------------------------------------------------
\* What a send hands to the router.
LEMMA PacketMade ==
  ASSUME Counters, Scripts, NEW p \in Peer, InCall(p, "send"), calls'[p] \in Nat
  PROVE  /\ <<Packet(p)>> \in Seq(Made(calls'[p])) /\ Len(<<Packet(p)>>) <= 2
         /\ <<Resent(p)>> \in Seq(Made(calls'[p])) /\ Len(<<Resent(p)>>) <= 2
<1> DEFINE c == Head(script[p])
           e == calls'[p]
<1>1. script[p] # <<>> /\ c.op = "send" BY DEF InCall
<1>2. /\ Fits(script[p], Send_temp_Seq[p], rec_temp_seq[p])
      /\ Send_temp_Seq[p] \in Nat /\ rec_temp_seq[p] \in Nat /\ Send_Seq[p] \in PairSeq \cup {NoSeq}
  BY OwnFacts
<1>3. c \in Call /\ (c.kind = "info" => c.n = Chunks) BY <1>1, <1>2, FitsHead, FitsPairs
<1>4. c.kind \in Kind /\ c.n \in Nat BY <1>1, <1>3, CallTyped DEF Sends
<1>5. "cut" \in Kind BY Names
<1>6. /\ Packet(p) = [seqNo |-> Send_Seq[p], kind |-> c.kind, n |-> c.n, id |-> e]
      /\ Resent(p) = [seqNo |-> Send_Seq[p],
                      kind  |-> IF p = "client" /\ c.kind = "last" THEN "cut" ELSE c.kind,
                      n     |-> c.n, id |-> e]
  BY DEF Packet, Resent
<1>7. e \in Nat OBVIOUS
<1> HIDE DEF c, e
<1>8. e \in 0..e BY <1>7
<1>9. ASSUME NEW k \in Kind, k = "info" => c.n = Chunks, NEW d,
             d = [seqNo |-> Send_Seq[p], kind |-> k, n |-> c.n, id |-> e]
      PROVE  <<d>> \in Seq(Made(e)) /\ Len(<<d>>) <= 2
  <2>1. d \in Datagram BY <1>2, <1>4, <1>7, <1>9 DEF Datagram
  <2>2. d.kind = k /\ d.n = c.n /\ d.id = e BY <1>9
  <2>3. d \in Made(e) BY <2>1, <2>2, <1>8, <1>9 DEF Made
  <2>4. Len(<<d>>) = 1 OBVIOUS
  <2> QED BY <2>3, <2>4, OneOf
<1>10. <<Packet(p)>> \in Seq(Made(e)) /\ Len(<<Packet(p)>>) <= 2 BY <1>3, <1>4, <1>6, <1>9
<1>11. <<Resent(p)>> \in Seq(Made(e)) /\ Len(<<Resent(p)>>) <= 2
  <2> DEFINE k == IF p = "client" /\ c.kind = "last" THEN "cut" ELSE c.kind
  <2>1. k \in Kind /\ (k = "info" => c.n = Chunks) BY <1>3, <1>4, <1>5
  <2>2. Resent(p) = [seqNo |-> Send_Seq[p], kind |-> k, n |-> c.n, id |-> e] BY <1>6
  <2> HIDE DEF k
  <2> QED BY <2>1, <2>2, <1>9
<1> QED BY <1>10, <1>11 DEF e

LEMMA PairMade ==
  ASSUME Counters, Scripts, NEW p \in Peer, InCall(p, "sendPair"), calls'[p] \in Nat
  PROVE  Pair(p) \in Seq(Made(calls'[p])) /\ Len(Pair(p)) <= 2
<1> DEFINE c == Head(script[p])
           e == calls'[p]
           st == Send_temp_Seq[p]
<1>1. script[p] # <<>> /\ c.op = "sendPair" BY DEF InCall
<1>2. /\ Fits(script[p], st, rec_temp_seq[p])
      /\ st \in Nat /\ rec_temp_seq[p] \in Nat
  BY OwnFacts
<1>3. c \in Call /\ c.kind # "info" /\ st + 2 <= 2 * Chunks BY <1>1, <1>2, FitsHead, FitsPairs
<1>4. c.kind \in Kind /\ c.n \in Nat BY <1>1, <1>3, CallTyped DEF Sends
<1>5. Pair(p) = [h \in 1..2 |-> [seqNo |-> st + h - 1, kind |-> c.kind, n |-> c.n + h - 1, id |-> e]]
  BY DEF Pair
<1>6. e \in Nat OBVIOUS
<1> HIDE DEF c, e, st
<1>7. ASSUME NEW h \in 1..2
      PROVE  [seqNo |-> st + h - 1, kind |-> c.kind, n |-> c.n + h - 1, id |-> e] \in Made(e)
  <2> DEFINE d == [seqNo |-> st + h - 1, kind |-> c.kind, n |-> c.n + h - 1, id |-> e]
  <2>1. Chunks \in Nat BY Constants
  <2>2. st + h - 1 \in PairSeq BY <1>2, <1>3, <2>1 DEF PairSeq
  <2>3. c.n + h - 1 \in Nat BY <1>4
  <2>4. d \in Datagram BY <2>2, <2>3, <1>4, <1>6 DEF Datagram
  <2>5. d.kind # "info" /\ d.id = e /\ e \in 0..e BY <1>3, <1>6
  <2> HIDE DEF d
  <2>6. d \in Made(e) BY <2>4, <2>5 DEF Made
  <2> QED BY <2>6 DEF d
<1>8. Pair(p) \in [1..2 -> Made(e)] BY <1>5, <1>7
<1>9. Pair(p) \in Seq(Made(e)) /\ Len(Pair(p)) = 2 BY <1>8, FunctionIsSeq
<1> QED BY <1>9 DEF e

\* A send begins: its packets have the next id.
LEMMA SendInv ==
  ASSUME IInv, NEW p \in Peer, SendLast(p) \/ SendPair(p)
  PROVE  IInv'
<1> DEFINE o == Other(p)
<1>1. /\ script[p] # <<>> /\ Head(script[p]).op \in Sends /\ stage[p] = "none"
      /\ stage' = [stage EXCEPT ![p] = "resending"]
      /\ calls' = [calls EXCEPT ![p] = calls[p] + 1]
      /\ ackSeq' = [ackSeq EXCEPT ![p] = Send_Seq[p]] \/ ackSeq' = [ackSeq EXCEPT ![p] = Send_temp_Seq[p]]
      /\ UNCHANGED <<plan, file, network, script, slideid, resendcount, Send_Seq, prev_Recv_Seq,
                     Send_temp_Seq, rec_temp_seq, files, links, accepted, slips>>
  BY DEF SendLast, SendPair, InCall, Sends, given, seqs
<1>2. /\ o \in Peer /\ o # p /\ Other(o) = p /\ \A r \in Peer : r = p \/ r = o BY Peers
<1>3. /\ calls \in [Peer -> Nat] /\ ackSeq \in [Peer -> PairSeq \cup {NoSeq}]
      /\ accepted \in [Peer -> Nat] /\ \A r \in Peer : accepted[r] <= calls[Other(r)]
  BY DEF IInv, Counters
<1>4. /\ calls' \in [Peer -> Nat] /\ calls'[p] = calls[p] + 1 /\ calls'[o] = calls[o]
  <2>1. calls \in [Peer -> Nat] /\ calls[p] + 1 \in Nat BY <1>3
  <2>2. calls' = [calls EXCEPT ![p] = calls[p] + 1] BY <1>1
  <2> QED BY <1>2, <2>1, <2>2
<1>5. \A r \in Peer : calls[r] <= calls'[r] BY <1>2, <1>3, <1>4
<1>6. Counters'
  <2>1. ackSeq' \in [Peer -> PairSeq \cup {NoSeq}]
    <3>1. Send_Seq[p] \in PairSeq \cup {NoSeq} /\ Send_temp_Seq[p] \in PairSeq \cup {NoSeq}
      BY OwnFacts DEF IInv
    <3>2. /\ [ackSeq EXCEPT ![p] = Send_Seq[p]] \in [Peer -> PairSeq \cup {NoSeq}]
          /\ [ackSeq EXCEPT ![p] = Send_temp_Seq[p]] \in [Peer -> PairSeq \cup {NoSeq}]
      BY <1>3, <3>1, ExceptTyped
    <3> QED BY <1>1, <3>2
  <2>2. \A r \in Peer : accepted[r] <= calls'[Other(r)]
    BY <1>3, <1>4, <1>5, Peers
  <2> QED BY <1>1, <1>4, <2>1, <2>2 DEF IInv, Counters, Other
<1>7. Written' /\ Scripts' BY <1>1, WrittenSame, ScriptsSame DEF IInv
<1>8. Stages'
  <2>1. resendcount \in [Peer -> 0..(Resends + 1)] /\ resendcount[p] <= Resends
    BY <1>1 DEF IInv, Stages
  <2> DEFINE n == resendcount[p]
  <2>2. n \in 0..(Resends + 1) /\ n <= Resends /\ resendcount' = [resendcount EXCEPT ![p] = n]
    BY <1>1, <2>1
  <2>3. "resending" \in Stage BY DEF Stage
  <2> HIDE DEF n
  <2> QED BY <1>1, <2>2, <2>3, StagesSet DEF IInv
<1>9. OnTheWay'
  <2>1. Reading(p) BY <1>1 DEF Reading
  <2>2. calls'[p] \in Nat BY <1>4
  <2>3. \E q \in Seq(Made(calls'[p])) : Len(q) <= 2 /\ outbox' = [outbox EXCEPT ![p] = q]
    <3>1. CASE SendLast(p)
      <4>1. InCall(p, "send") /\ outbox' = [outbox EXCEPT ![p] = <<Packet(p)>>] BY <3>1 DEF SendLast
      <4>2. <<Packet(p)>> \in Seq(Made(calls'[p])) /\ Len(<<Packet(p)>>) <= 2
        BY <2>2, <4>1, PacketMade DEF IInv
      <4> QED BY <4>1, <4>2
    <3>2. CASE SendPair(p)
      <4>1. InCall(p, "sendPair") /\ outbox' = [outbox EXCEPT ![p] = Pair(p)] BY <3>2 DEF SendPair
      <4>2. Pair(p) \in Seq(Made(calls'[p])) /\ Len(Pair(p)) <= 2
        BY <2>2, <4>1, PairMade DEF IInv
      <4> QED BY <4>1, <4>2
    <3> QED BY <3>1, <3>2
  <2> QED BY <1>4, <1>5, <2>1, <2>3, WayKept DEF IInv
<1> QED BY <1>6, <1>7, <1>8, <1>9 DEF IInv

\* A timeout resends: resendcount counts it, and the last one ends the loop.
LEMMA ResendLastInv ==
  ASSUME IInv, NEW p \in Peer, ResendLast(p)
  PROVE  IInv'
<1> DEFINE n == resendcount[p] + 1
           g == IF resendcount[p] < Resends THEN "resending" ELSE "settling"
<1>1. /\ InCall(p, "send") /\ stage[p] = "resending" /\ calls' = calls
      /\ outbox' = [outbox EXCEPT ![p] = <<Resent(p)>>]
      /\ resendcount' = [resendcount EXCEPT ![p] = n]
      /\ stage' = [stage EXCEPT ![p] = g]
      /\ slips' \in {slips, slips \cup {"gaveUp"}}
      /\ UNCHANGED <<plan, file, network, script, slideid, Send_Seq, prev_Recv_Seq,
                     Send_temp_Seq, rec_temp_seq, ackSeq, files, links, accepted>>
  BY DEF ResendLast, given, seqs
<1>2. Counters' BY <1>1 DEF IInv, Counters, Other, Slip
<1>3. Written' /\ Scripts' BY <1>1, WrittenSame, ScriptsSame DEF IInv
<1>4. Stages'
  <2>1. resendcount \in [Peer -> 0..(Resends + 1)] /\ resendcount[p] <= Resends
    BY <1>1 DEF IInv, Stages
  <2>2. n \in 0..(Resends + 1) /\ (g = "resending" => n <= Resends) BY <2>1, Constants
  <2>3. g \in Stage /\ g \in {"resending", "settling"} BY DEF Stage
  <2>4. script'[p] # <<>> /\ Head(script'[p]).op \in Sends /\ script' = script
    BY <1>1 DEF InCall, Sends
  <2> HIDE DEF n, g
  <2> QED BY <1>1, <2>2, <2>3, <2>4, StagesSet DEF IInv
<1>5. OnTheWay'
  <2>1. Reading(p) BY <1>1 DEF Reading
  <2>2. calls' \in [Peer -> Nat] /\ calls'[p] \in Nat /\ \A r \in Peer : calls[r] <= calls'[r]
    BY <1>1 DEF IInv, Counters
  <2>3. <<Resent(p)>> \in Seq(Made(calls'[p])) /\ Len(<<Resent(p)>>) <= 2
    BY <1>1, <2>2, PacketMade DEF IInv
  <2> QED BY <1>1, <2>1, <2>2, <2>3, WayKept DEF IInv
<1> QED BY <1>2, <1>3, <1>4, <1>5 DEF IInv

LEMMA ResendPairInv ==
  ASSUME IInv, NEW p \in Peer, ResendPair(p)
  PROVE  IInv'
<1>1. /\ InCall(p, "sendPair") /\ outbox' = [outbox EXCEPT ![p] = Pair(p)]
      /\ UNCHANGED <<plan, file, network, script, stage, slideid, resendcount, Send_Seq, prev_Recv_Seq,
                     Send_temp_Seq, rec_temp_seq, ackSeq, files, links, calls, accepted, slips>>
  BY DEF ResendPair, given, control, seqs
<1>2. Counters' /\ Written' /\ Stages' /\ Scripts'
  BY <1>1, CountersSame, WrittenSame, StagesSame, ScriptsSame DEF IInv
<1>3. OnTheWay'
  <2>1. Reading(p) BY <1>1 DEF Reading
  <2>2. calls' \in [Peer -> Nat] /\ calls'[p] \in Nat /\ \A r \in Peer : calls[r] <= calls'[r]
    BY <1>1 DEF IInv, Counters
  <2>3. Pair(p) \in Seq(Made(calls'[p])) /\ Len(Pair(p)) <= 2
    BY <1>1, <2>2, PairMade DEF IInv
  <2> QED BY <1>1, <2>1, <2>2, <2>3, WayKept DEF IInv
<1> QED BY <1>2, <1>3 DEF IInv

\* A wait of a send goes on to the next: nothing of the message changes.
LEMMA WaitInv ==
  ASSUME IInv, NEW p \in Peer, script[p] # <<>>, Head(script[p]).op \in Sends, stage[p] # "none",
         NEW g \in Stage, stage' = [stage EXCEPT ![p] = g],
         stage[p] \in {"settling", "settlingAck"} => g \in {"settling", "settlingAck"},
         slideid' \in [Peer -> SUBSET {1, 2}], Reading(p),
         UNCHANGED <<plan, file, network, script, resendcount, outbox, Send_Seq, prev_Recv_Seq,
                     Send_temp_Seq, rec_temp_seq, ackSeq, files, calls, accepted, slips>>
  PROVE  IInv'
<1>1. Counters' BY DEF IInv, Counters, Other
<1>2. Written' /\ Scripts' BY WrittenSame, ScriptsSame DEF IInv
<1>3. Stages'
  <2>1. /\ resendcount \in [Peer -> 0..(Resends + 1)] /\ resendcount[p] \in 0..(Resends + 1)
        /\ g \notin {"settling", "settlingAck"} => resendcount[p] <= Resends
    BY DEF IInv, Stages
  <2> DEFINE n == resendcount[p]
  <2>2. n \in 0..(Resends + 1) /\ (g \notin {"settling", "settlingAck"} => n <= Resends) BY <2>1
  <2>3. resendcount' = [resendcount EXCEPT ![p] = n] BY <2>1
  <2>4. script'[p] # <<>> /\ Head(script'[p]).op \in Sends /\ script' = script OBVIOUS
  <2> HIDE DEF n
  <2> QED BY <2>2, <2>3, <2>4, StagesSet DEF IInv
<1>4. OnTheWay'
  <2>1. calls' \in [Peer -> Nat] /\ \A r \in Peer : calls[r] <= calls'[r]
    BY DEF IInv, Counters
  <2> QED BY <2>1, WayKept DEF IInv
<1> QED BY <1>1, <1>2, <1>3, <1>4 DEF IInv

LEMMA FirstWaits ==
  ASSUME IInv, NEW p \in Peer, AnyAck(p) \/ FirstAck(p) \/ SecondAckLate(p)
  PROVE  IInv'
<1>1. /\ script[p] # <<>> /\ Head(script[p]).op \in Sends /\ Reading(p)
      /\ UNCHANGED <<plan, file, network, script, resendcount, outbox, Send_Seq, prev_Recv_Seq,
                     Send_temp_Seq, rec_temp_seq, ackSeq, files, calls, accepted, slips>>
  BY DEF AnyAck, FirstAck, SecondAckLate, InCall, Sends, given, seqs, history, Reading
<1>2. slideid \in [Peer -> SUBSET {1, 2}] BY DEF IInv, Counters
<1>3. ASSUME NEW k \in Stage, stage' = [stage EXCEPT ![p] = k],
             stage[p] \in {"settling", "settlingAck"} => k \in {"settling", "settlingAck"},
             NEW a \in SUBSET {1, 2}, slideid' = slideid \/ slideid' = [slideid EXCEPT ![p] = a],
             stage[p] # "none"
      PROVE  IInv'
  <2>1. slideid' \in [Peer -> SUBSET {1, 2}]
    <3>1. [slideid EXCEPT ![p] = a] \in [Peer -> SUBSET {1, 2}] BY <1>2
    <3> QED BY <1>2, <1>3, <3>1
  <2> QED BY <1>1, <1>3, <2>1, WaitInv
<1>4. slideid[p] \in SUBSET {1, 2} BY <1>2
<1>5. CASE AnyAck(p)
  <2>1. /\ stage[p] = "resending" /\ stage' = [stage EXCEPT ![p] = "settling"]
        /\ slideid' = slideid
    BY <1>5 DEF AnyAck
  <2>2. "settling" \in Stage BY DEF Stage
  <2> QED BY <2>1, <2>2, <1>3, <1>4
<1>6. CASE FirstAck(p)
  <2> DEFINE k == IF stage[p] = "resending" THEN "secondAck" ELSE "settlingAck"
             a == IF AckOf(p, Head(Incoming(p)), 1) THEN slideid[p] \cup {1} ELSE slideid[p]
  <2>1. /\ stage[p] \in {"resending", "settling"} /\ stage' = [stage EXCEPT ![p] = k]
        /\ slideid' = [slideid EXCEPT ![p] = a]
    BY <1>6 DEF FirstAck
  <2>2. k \in Stage BY DEF Stage
  <2>3. a \in SUBSET {1, 2} BY <1>4
  <2>4. stage[p] \in {"settling", "settlingAck"} => k \in {"settling", "settlingAck"} BY <2>1
  <2>5. stage[p] # "none" BY <2>1
  <2> HIDE DEF k, a
  <2> QED BY <2>1, <2>2, <2>3, <2>4, <2>5, <1>3
<1>7. CASE SecondAckLate(p)
  <2> DEFINE k == IF stage[p] = "secondAck" THEN "resending" ELSE "settling"
             a == slideid[p] \ {2}
  <2>1. /\ stage[p] \in {"secondAck", "settlingAck"} /\ stage' = [stage EXCEPT ![p] = k]
        /\ slideid' = [slideid EXCEPT ![p] = a]
    BY <1>7 DEF SecondAckLate
  <2>2. k \in Stage BY DEF Stage
  <2>3. a \in SUBSET {1, 2} BY <1>4
  <2>4. stage[p] \in {"settling", "settlingAck"} => k \in {"settling", "settlingAck"} BY <2>1
  <2>5. stage[p] # "none" BY <2>1
  <2> HIDE DEF k, a
  <2> QED BY <2>1, <2>2, <2>3, <2>4, <2>5, <1>3
<1> QED BY <1>5, <1>6, <1>7

\* A send returns; only a pair's counts on.
LEMMA ReturnInv ==
  ASSUME IInv, NEW p \in Peer, script[p] # <<>>, Head(script[p]).op \in Sends, Return(p), Reading(p),
         NEW st2 \in {Send_temp_Seq[p], Send_temp_Seq[p] + 2},
         st2 = Send_temp_Seq[p] + 2 => Head(script[p]).op = "sendPair",
         Send_temp_Seq' = [Send_temp_Seq EXCEPT ![p] = st2],
         Send_Seq' \in [Peer -> 0..1 \cup {NoSeq}],
         UNCHANGED <<plan, file, network, outbox, prev_Recv_Seq, rec_temp_seq, ackSeq, files, calls,
                     accepted, slips>>
  PROVE  IInv'
<1>1. /\ script' = [script EXCEPT ![p] = Tail(script[p])] /\ stage' = [stage EXCEPT ![p] = "none"]
      /\ slideid' = [slideid EXCEPT ![p] = {}] /\ resendcount' = [resendcount EXCEPT ![p] = 0]
  BY DEF Return
<1>2. Counters'
  <2>1. slideid' \in [Peer -> SUBSET {1, 2}] BY <1>1 DEF IInv, Counters
  <2> QED BY <2>1 DEF IInv, Counters, Other
<1>3. Written' BY WrittenSame DEF IInv
<1>4. Scripts' /\ script'[Other(p)] = script[Other(p)]
  <2> DEFINE st == Send_temp_Seq[p]
             rt == rec_temp_seq[p]
  <2>1. /\ st \in PairSeq /\ rt \in PairSeq /\ st \in Nat /\ rt \in Nat /\ Fits(script[p], st, rt)
    BY OwnFacts DEF IInv
  <2>2. rec_temp_seq' = [rec_temp_seq EXCEPT ![p] = rt]
    <3>1. rec_temp_seq \in [Peer -> PairSeq] BY DEF IInv, Scripts
    <3> QED BY <3>1
  <2>3. st2 \in {st, st + 2} /\ (st2 = st + 2 => Head(script[p]).op = "sendPair") OBVIOUS
  <2> HIDE DEF st, rt
  <2>4. Head(script[p]).op = "sendPair" => st + 2 <= 2 * Chunks BY <2>1, FitsPairs
  <2>5. st2 \in PairSeq BY <2>1, <2>3, <2>4, Constants DEF PairSeq
  <2>6. Fits(Tail(script[p]), st2, rt) BY <2>1, <2>3, FitsTail
  <2> QED BY <1>1, <2>1, <2>2, <2>5, <2>6, ScriptsSet DEF IInv
<1>5. Stages'
  <2>1. "none" \in Stage /\ 0 \in 0..(Resends + 1) /\ 0 <= Resends BY Constants DEF Stage
  <2> QED BY <1>1, <1>4, <2>1, StagesSet DEF IInv
<1>6. OnTheWay'
  <2>1. calls' \in [Peer -> Nat] /\ \A r \in Peer : calls[r] <= calls'[r]
    BY DEF IInv, Counters
  <2> QED BY <2>1, WayKept DEF IInv
<1> QED BY <1>2, <1>3, <1>4, <1>5, <1>6 DEF IInv

LEMMA SettleLastInv ==
  ASSUME IInv, NEW p \in Peer, SettleLast(p)
  PROVE  IInv'
<1>1. /\ script[p] # <<>> /\ Head(script[p]).op \in Sends /\ Return(p) /\ Reading(p)
      /\ Send_Seq' = [Send_Seq EXCEPT ![p] = (Send_Seq[p] + 1) % 2]
      /\ UNCHANGED <<plan, file, network, outbox, prev_Recv_Seq, Send_temp_Seq, rec_temp_seq, ackSeq,
                     files, calls, accepted, slips>>
  BY DEF SettleLast, InCall, Sends, given, history, Reading
<1>2. Send_Seq' \in [Peer -> 0..1 \cup {NoSeq}]
  <2>1. Send_Seq \in [Peer -> 0..1 \cup {NoSeq}] BY DEF IInv, Counters
  <2>2. Send_Seq[p] \in Nat BY <2>1 DEF NoSeq
  <2>3. (Send_Seq[p] + 1) % 2 \in 0..1 \cup {NoSeq} BY <2>2
  <2>4. [Send_Seq EXCEPT ![p] = (Send_Seq[p] + 1) % 2] \in [Peer -> 0..1 \cup {NoSeq}]
    BY <2>1, <2>3, ExceptTyped
  <2> QED BY <1>1, <2>4
<1> DEFINE st == Send_temp_Seq[p]
<1>3. Send_temp_Seq' = [Send_temp_Seq EXCEPT ![p] = st]
  <2>1. Send_temp_Seq \in [Peer -> PairSeq] BY DEF IInv, Scripts
  <2> QED BY <1>1, <2>1
<1>4. st \in Nat /\ st # st + 2
  <2>1. st \in Nat BY OwnFacts DEF IInv
  <2> QED BY <2>1
<1>5. st \in {Send_temp_Seq[p], Send_temp_Seq[p] + 2}
      /\ (st = Send_temp_Seq[p] + 2 => Head(script[p]).op = "sendPair")
  BY <1>4
<1> HIDE DEF st
<1> QED BY <1>1, <1>2, <1>3, <1>5, ReturnInv

LEMMA PairReturns ==
  ASSUME IInv, NEW p \in Peer, script[p] # <<>>, Head(script[p]).op = "sendPair", ReturnPair(p),
         Reading(p),
         UNCHANGED <<plan, file, network, outbox, ackSeq, files, calls, accepted, slips>>
  PROVE  IInv'
<1> DEFINE st2 == Send_temp_Seq[p] + 2
<1>1. /\ Return(p) /\ Send_temp_Seq' = [Send_temp_Seq EXCEPT ![p] = st2]
      /\ UNCHANGED <<Send_Seq, prev_Recv_Seq, rec_temp_seq>>
  BY DEF ReturnPair
<1>2. Send_Seq' \in [Peer -> 0..1 \cup {NoSeq}] BY <1>1 DEF IInv, Counters
<1>3. Head(script[p]).op \in Sends BY DEF Sends
<1>4. st2 \in {Send_temp_Seq[p], Send_temp_Seq[p] + 2}
      /\ (st2 = Send_temp_Seq[p] + 2 => Head(script[p]).op = "sendPair")
  OBVIOUS
<1> HIDE DEF st2
<1> QED BY <1>1, <1>2, <1>3, <1>4, ReturnInv

LEMMA SettlePairInv ==
  ASSUME IInv, NEW p \in Peer, SettlePair(p)
  PROVE  IInv'
<1>1. /\ script[p] # <<>> /\ Head(script[p]).op = "sendPair" /\ ReturnPair(p) /\ Reading(p)
      /\ UNCHANGED <<plan, file, network, outbox, ackSeq, files, calls, accepted, slips>>
  BY DEF SettlePair, InCall, given, history, Reading
<1> QED BY <1>1, PairReturns

LEMMA SecondAckInv ==
  ASSUME IInv, NEW p \in Peer, SecondAck(p)
  PROVE  IInv'
<1> DEFINE acked == IF AckOf(p, Head(Incoming(p)), 2) THEN slideid[p] \cup {2} ELSE slideid[p]
           g == IF acked = {1, 2} \/ stage[p] = "settlingAck" THEN "settling" ELSE "resending"
<1>1. /\ script[p] # <<>> /\ Head(script[p]).op = "sendPair" /\ Reading(p)
      /\ stage[p] \in {"secondAck", "settlingAck"}
      /\ UNCHANGED <<plan, file, network, outbox, ackSeq, files, calls, accepted, slips>>
      /\ \/ ReturnPair(p)
         \/ /\ slideid' = [slideid EXCEPT ![p] = acked] /\ stage' = [stage EXCEPT ![p] = g]
            /\ UNCHANGED <<script, resendcount, Send_Seq, prev_Recv_Seq, Send_temp_Seq, rec_temp_seq>>
  BY DEF SecondAck, InCall, given, seqs, history, Reading
<1>2. CASE ReturnPair(p) BY <1>1, <1>2, PairReturns
<1>3. CASE /\ slideid' = [slideid EXCEPT ![p] = acked] /\ stage' = [stage EXCEPT ![p] = g]
           /\ UNCHANGED <<script, resendcount, Send_Seq, prev_Recv_Seq, Send_temp_Seq, rec_temp_seq>>
  <2>1. slideid' \in [Peer -> SUBSET {1, 2}]
    <3>1. slideid \in [Peer -> SUBSET {1, 2}] BY DEF IInv, Counters
    <3>2. slideid[p] \in SUBSET {1, 2} BY <3>1
    <3>3. acked \in SUBSET {1, 2} BY <3>2
    <3> HIDE DEF acked
    <3> QED BY <1>3, <3>1, <3>3
  <2>2. g \in Stage /\ (stage[p] \in {"settling", "settlingAck"} => g \in {"settling", "settlingAck"})
    BY <1>1 DEF Stage
  <2>3. Head(script[p]).op \in Sends /\ stage[p] # "none" BY <1>1 DEF Sends
  <2> HIDE DEF g, acked
  <2> QED BY <1>1, <1>3, <2>1, <2>2, <2>3, WaitInv
<1> QED BY <1>1, <1>2, <1>3

-------------------------------------------------------------------------------
\* A receive.
LEMMA AnswerMade ==
  ASSUME Counters, NEW p \in Peer, NEW kind \in Answers, NEW n \in PairSeq \cup {NoSeq}
  PROVE  Answer(p, kind, n) \in Made(calls[p])
<1> DEFINE d == Answer(p, kind, n)
<1>1. kind \in Kind /\ kind # "info" BY DEF Kind, Answers
<1>2. calls[p] \in Nat BY DEF Counters
<1>3. d = [seqNo |-> n, kind |-> kind, n |-> 0, id |-> 0] BY DEF Answer
<1> HIDE DEF d
<1>4. d \in Datagram BY <1>1, <1>3 DEF Datagram
<1>5. d.id = 0 /\ d.kind = kind BY <1>3
<1>6. 0 \in 0..calls[p] BY <1>2
<1>7. d \in Made(calls[p]) BY <1>1, <1>4, <1>5, <1>6 DEF Made
<1> QED BY <1>7 DEF d

LEMMA AckMade ==
  ASSUME Counters, NEW p \in Peer
  PROVE  <<Answer(p, "ack", ackSeq[p])>> \in Seq(Made(calls[p])) /\ Len(<<Answer(p, "ack", ackSeq[p])>>) <= 2
<1> DEFINE d == Answer(p, "ack", ackSeq[p])
<1>1. ackSeq[p] \in PairSeq \cup {NoSeq} /\ "ack" \in Answers BY DEF Counters, Answers
<1>2. d \in Made(calls[p]) BY <1>1, AnswerMade
<1> HIDE DEF d
<1>3. <<d>> \in Seq(Made(calls[p])) /\ Len(<<d>>) = 1 BY <1>2, OneOf
<1>4. <<d>> \in Seq(Made(calls[p])) /\ Len(<<d>>) <= 2 BY <1>3
<1> QED BY <1>4 DEF d

LEMMA AckPairMade ==
  ASSUME Counters, OnTheWay, NEW p \in Peer, Len(Incoming(p)) >= 2, NEW kind \in Answers
  PROVE  AnswerPair(p, kind) \in Seq(Made(calls[p])) /\ Len(AnswerPair(p, kind)) <= 2
<1>1. ASSUME NEW h \in 1..2 PROVE Answer(p, kind, Incoming(p)[h].seqNo) \in Made(calls[p])
  <2>1. Incoming(p)[h] \in Datagram BY TwoComeIn
  <2>2. Incoming(p)[h].seqNo \in PairSeq \cup {NoSeq} BY <2>1 DEF Datagram
  <2> QED BY <2>2, AnswerMade
<1>2. AnswerPair(p, kind) \in [1..2 -> Made(calls[p])] BY <1>1 DEF AnswerPair
<1>3. AnswerPair(p, kind) \in Seq(Made(calls[p])) /\ Len(AnswerPair(p, kind)) = 2
  BY <1>2, FunctionIsSeq
<1> QED BY <1>3

LEMMA NoteTyped ==
  ASSUME Counters, NEW p \in Peer, NEW id \in 0..calls[Other(p)], Note(p, id)
  PROVE  /\ accepted' \in [Peer -> Nat] /\ \A r \in Peer : accepted'[r] <= calls[Other(r)]
         /\ slips' \subseteq Slip
<1> DEFINE a == IF id > accepted[p] THEN id ELSE accepted[p]
<1>1. accepted \in [Peer -> Nat] /\ \A r \in Peer : accepted[r] <= calls[Other(r)] BY DEF Counters
<1>2. accepted' = [accepted EXCEPT ![p] = a] BY DEF Note
<1>3. calls[Other(p)] \in Nat BY Peers DEF Counters
<1>4. a \in Nat /\ a <= calls[Other(p)] BY <1>1, <1>3
<1> HIDE DEF a
<1>5. accepted' \in [Peer -> Nat] BY <1>1, <1>2, <1>4
<1>6. \A r \in Peer : accepted'[r] <= calls[Other(r)] BY <1>1, <1>2, <1>4
<1>7. slips' \subseteq Slip BY DEF Note, Counters, Slip
<1> QED BY <1>5, <1>6, <1>7

LEMMA DropInv ==
  ASSUME IInv, NEW p \in Peer, Drop(p)
  PROVE  IInv'
<1>1. /\ Reading(p) /\ slips' \in {slips, slips \cup {"newDropped"}}
      /\ outbox' = [outbox EXCEPT ![p] = <<Answer(p, "ack", ackSeq[p])>>]
      /\ UNCHANGED <<plan, file, network, script, stage, slideid, resendcount, Send_Seq, prev_Recv_Seq,
                     Send_temp_Seq, rec_temp_seq, ackSeq, files, calls, accepted>>
  BY DEF Drop, given, control, seqs, Reading
<1>2. Counters' BY <1>1 DEF IInv, Counters, Other, Slip
<1>3. Written' /\ Stages' /\ Scripts'
  BY <1>1, WrittenSame, StagesSame, ScriptsSame DEF IInv
<1>4. OnTheWay'
  <2>1. calls' \in [Peer -> Nat] /\ \A r \in Peer : calls[r] <= calls'[r]
    BY <1>1 DEF IInv, Counters
  <2>2. /\ <<Answer(p, "ack", ackSeq[p])>> \in Seq(Made(calls'[p]))
        /\ Len(<<Answer(p, "ack", ackSeq[p])>>) <= 2
    BY <1>1, AckMade DEF IInv
  <2> QED BY <1>1, <2>1, <2>2, WayKept DEF IInv
<1> QED BY <1>2, <1>3, <1>4 DEF IInv

LEMMA RefuseInv ==
  ASSUME IInv, NEW p \in Peer, AckAgain(p) \/ Refuse(p)
  PROVE  IInv'
<1>1. /\ ReadTwo(p) /\ \E kind \in {"ACK", "NAK"} : outbox' = [outbox EXCEPT ![p] = AnswerPair(p, kind)]
      /\ \E h \in 1..2 : ackSeq' = [ackSeq EXCEPT ![p] = Incoming(p)[h].seqNo]
      /\ UNCHANGED <<plan, file, network, script, stage, slideid, resendcount, Send_Seq, prev_Recv_Seq,
                     Send_temp_Seq, rec_temp_seq, files, calls, accepted, slips>>
  BY DEF AckAgain, Refuse, given, control, seqs, history
<1>2. Len(Incoming(p)) >= 2 BY <1>1 DEF ReadTwo
<1>3. Counters'
  <2>1. PICK h \in 1..2 : ackSeq' = [ackSeq EXCEPT ![p] = Incoming(p)[h].seqNo] BY <1>1
  <2>2. Incoming(p)[h] \in Datagram BY <1>2, TwoComeIn DEF IInv
  <2>3. Incoming(p)[h].seqNo \in PairSeq \cup {NoSeq} BY <2>2 DEF Datagram
  <2>4. ackSeq \in [Peer -> PairSeq \cup {NoSeq}] BY DEF IInv, Counters
  <2>5. ackSeq' \in [Peer -> PairSeq \cup {NoSeq}] BY <2>1, <2>3, <2>4, ExceptTyped
  <2> QED BY <1>1, <2>5 DEF IInv, Counters, Other
<1>4. Written' /\ Stages' /\ Scripts'
  BY <1>1, WrittenSame, StagesSame, ScriptsSame DEF IInv
<1>5. OnTheWay'
  <2>1. calls' \in [Peer -> Nat] /\ \A r \in Peer : calls[r] <= calls'[r]
    BY <1>1 DEF IInv, Counters
  <2>2. PICK kind \in {"ACK", "NAK"} : outbox' = [outbox EXCEPT ![p] = AnswerPair(p, kind)] BY <1>1
  <2>3. kind \in Answers BY DEF Answers
  <2>4. AnswerPair(p, kind) \in Seq(Made(calls'[p])) /\ Len(AnswerPair(p, kind)) <= 2
    BY <1>1, <1>2, <2>3, AckPairMade DEF IInv
  <2>5. Reading(p) BY <1>1 DEF Reading
  <2> QED BY <2>1, <2>2, <2>4, <2>5, WayKept DEF IInv
<1> QED BY <1>3, <1>4, <1>5 DEF IInv

LEMMA WriteTyped ==
  ASSUME NEW d \in Datagram
  PROVE  Write(d) \in [kind : Kind, n : Nat]
BY DEF Write, Datagram

\* What is accepted is written, and the script goes on.
LEMMA AcceptInv ==
  ASSUME IInv, NEW p \in Peer, Accept(p)
  PROVE  IInv'
<1> DEFINE d   == Head(Incoming(p))
           use == Head(script[p]).kind
           st  == Send_temp_Seq[p]
           rt  == rec_temp_seq[p]
           st2 == IF use = "getname" THEN 0 ELSE st
           rt2 == IF use = "command" /\ d.kind = "PUT" THEN 0 ELSE rt
<1>1. /\ script[p] # <<>> /\ Head(script[p]).op = "recv" /\ Incoming(p) # <<>>
      /\ Reading(p)
      /\ prev_Recv_Seq' = [prev_Recv_Seq EXCEPT ![p] = d.seqNo]
      /\ outbox' = [outbox EXCEPT ![p] = <<Answer(p, "ack", ackSeq[p])>>]
      /\ \E s \in NextCalls(p, d) : script' = [script EXCEPT ![p] = s]
      /\ Note(p, d.id)
      /\ UNCHANGED <<plan, file, network, stage, slideid, resendcount, Send_Seq, ackSeq, calls>>
  BY DEF Accept, InCall, given, Reading
<1>2. /\ rec_temp_seq' = IF use = "command" /\ d.kind = "PUT" THEN [rec_temp_seq EXCEPT ![p] = 0]
                         ELSE rec_temp_seq
      /\ Send_temp_Seq' = IF use = "getname" THEN [Send_temp_Seq EXCEPT ![p] = 0] ELSE Send_temp_Seq
  BY DEF Accept
<1>3. /\ got' = IF use = "chunk" THEN Append(got, Write(d)) ELSE got
      /\ opened' = (opened \/ (use = "info" /\ NamesFile(d)))
      /\ deleted' = (deleted \/ (use = "delname" /\ Deletes(d)))
      /\ told' = IF use = "verdict" THEN IF d.kind = "#" THEN "missing" ELSE "deleted" ELSE told
  BY DEF Accept
<1>4. /\ d \in Datagram /\ d.id \in 0..calls[Other(p)] /\ (d.kind = "info" => d.n = Chunks)
  BY <1>1, ComesIn DEF IInv
<1>5. /\ Fits(script[p], st, rt) /\ st \in PairSeq /\ rt \in PairSeq /\ st \in Nat /\ rt \in Nat
  BY OwnFacts DEF IInv
<1>6. Send_temp_Seq \in [Peer -> PairSeq] /\ rec_temp_seq \in [Peer -> PairSeq]
  BY DEF IInv, Scripts
<1> HIDE DEF d
<1>7. Counters'
  <2>1. prev_Recv_Seq' \in [Peer -> PairSeq \cup {NoSeq}]
    <3>1. d.seqNo \in PairSeq \cup {NoSeq} BY <1>4 DEF Datagram
    <3>2. prev_Recv_Seq \in [Peer -> PairSeq \cup {NoSeq}] BY DEF IInv, Counters
    <3>3. [prev_Recv_Seq EXCEPT ![p] = d.seqNo] \in [Peer -> PairSeq \cup {NoSeq}]
      BY <3>1, <3>2, ExceptTyped
    <3> QED BY <1>1, <3>3
  <2>2. /\ accepted' \in [Peer -> Nat] /\ \A r \in Peer : accepted'[r] <= calls[Other(r)]
        /\ slips' \subseteq Slip
    BY <1>1, <1>4, NoteTyped DEF IInv
  <2> QED BY <1>1, <2>1, <2>2 DEF IInv, Counters, Other
<1>8. Written'
  <2>1. got' \in Seq([kind : Kind, n : Nat])
    <3>1. got \in Seq([kind : Kind, n : Nat]) BY DEF IInv, Written
    <3>2. Append(got, Write(d)) \in Seq([kind : Kind, n : Nat])
      BY <1>4, <3>1, WriteTyped, Appended
    <3> HIDE DEF use
    <3> QED BY <1>3, <3>1, <3>2
  <2>2. opened' \in BOOLEAN /\ deleted' \in BOOLEAN BY <1>3
  <2>3. told' \in {"nothing", "missing", "deleted"}
    <3>1. told \in {"nothing", "missing", "deleted"} BY DEF IInv, Written
    <3> HIDE DEF use
    <3> QED BY <1>3, <3>1
  <2> QED BY <2>1, <2>2, <2>3 DEF Written
<1>9. Scripts' /\ script'[Other(p)] = script[Other(p)]
  <2>1. PICK s \in NextCalls(p, d) : script' = [script EXCEPT ![p] = s] BY <1>1
  <2>2. Send_temp_Seq' = [Send_temp_Seq EXCEPT ![p] = st2] BY <1>2, <1>6
  <2>3. rec_temp_seq' = [rec_temp_seq EXCEPT ![p] = rt2] BY <1>2, <1>6
  <2>4. st2 \in PairSeq /\ rt2 \in PairSeq BY <1>5, Numbers
  <2>5. /\ st2 = IF Head(script[p]).kind = "getname" THEN 0 ELSE st
        /\ rt2 = IF Head(script[p]).kind = "command" /\ d.kind = "PUT" THEN 0 ELSE rt
    OBVIOUS
  <2> HIDE DEF st, rt, st2, rt2, use
  <2>6. Fits(s, st2, rt2) BY <1>1, <1>4, <1>5, <2>5, NextCallsFit
  <2> QED BY <2>1, <2>2, <2>3, <2>4, <2>6, ScriptsSet DEF IInv
<1>10. Stages'
  <2>1. "recv" \notin Sends BY DEF Sends
  <2> QED BY <1>1, <1>9, <2>1, NotSendingSame DEF IInv
<1>11. OnTheWay'
  <2>1. calls' \in [Peer -> Nat] /\ \A r \in Peer : calls[r] <= calls'[r]
    BY <1>1 DEF IInv, Counters
  <2>2. /\ <<Answer(p, "ack", ackSeq[p])>> \in Seq(Made(calls'[p]))
        /\ Len(<<Answer(p, "ack", ackSeq[p])>>) <= 2
    BY <1>1, AckMade DEF IInv
  <2> QED BY <1>1, <2>1, <2>2, WayKept DEF IInv
<1> QED BY <1>7, <1>8, <1>9, <1>10, <1>11 DEF IInv

LEMMA AcceptPairInv ==
  ASSUME IInv, NEW p \in Peer, AcceptPair(p)
  PROVE  IInv'
<1> DEFINE st  == Send_temp_Seq[p]
           rt  == rec_temp_seq[p]
           id  == IF Incoming(p)[1].id = Incoming(p)[2].id THEN Incoming(p)[1].id ELSE 0
           two == [h \in 1..2 |-> Write(Incoming(p)[h])]
<1>1. /\ script[p] # <<>> /\ Head(script[p]).op = "recvPair" /\ ReadTwo(p)
      /\ outbox' = [outbox EXCEPT ![p] = AnswerPair(p, "ACK")]
      /\ ackSeq' = [ackSeq EXCEPT ![p] = Incoming(p)[1].seqNo]
      /\ rec_temp_seq' = [rec_temp_seq EXCEPT ![p] = rt + 2]
      /\ script' = [script EXCEPT ![p] = Tail(script[p])]
      /\ got' = got \o two
      /\ Note(p, id)
      /\ UNCHANGED <<plan, file, network, stage, slideid, resendcount, Send_Seq, prev_Recv_Seq,
                     Send_temp_Seq, deleted, told, opened, calls>>
  BY DEF AcceptPair, InCall, given
<1>2. Len(Incoming(p)) >= 2 BY <1>1 DEF ReadTwo
<1>3. \A h \in 1..2 : Incoming(p)[h] \in Datagram /\ Incoming(p)[h].id \in 0..calls[Other(p)]
  BY <1>2, TwoComeIn DEF IInv
<1>4. Incoming(p)[1] \in Datagram /\ Incoming(p)[1].id \in 0..calls[Other(p)] BY <1>3
<1>5. id \in 0..calls[Other(p)]
  <2>1. 0 \in 0..calls[Other(p)]
    <3>1. calls[Other(p)] \in Nat BY Peers DEF IInv, Counters
    <3> QED BY <3>1
  <2> QED BY <1>4, <2>1
<1> HIDE DEF id
<1>6. Counters'
  <2>1. ackSeq' \in [Peer -> PairSeq \cup {NoSeq}]
    <3>1. Incoming(p)[1].seqNo \in PairSeq \cup {NoSeq} BY <1>4 DEF Datagram
    <3>2. ackSeq \in [Peer -> PairSeq \cup {NoSeq}] BY DEF IInv, Counters
    <3>3. [ackSeq EXCEPT ![p] = Incoming(p)[1].seqNo] \in [Peer -> PairSeq \cup {NoSeq}]
      BY <3>1, <3>2, ExceptTyped
    <3> QED BY <1>1, <3>3
  <2>2. /\ accepted' \in [Peer -> Nat] /\ \A r \in Peer : accepted'[r] <= calls[Other(r)]
        /\ slips' \subseteq Slip
    BY <1>1, <1>5, NoteTyped DEF IInv
  <2> QED BY <1>1, <2>1, <2>2 DEF IInv, Counters, Other
<1>7. Written'
  <2>1. two \in [1..2 -> [kind : Kind, n : Nat]] BY <1>3, WriteTyped
  <2> HIDE DEF two
  <2>2. two \in Seq([kind : Kind, n : Nat]) BY <2>1, FunctionIsSeq
  <2>3. got \in Seq([kind : Kind, n : Nat]) BY DEF IInv, Written
  <2>4. got \o two \in Seq([kind : Kind, n : Nat]) BY <2>2, <2>3, Both
  <2> QED BY <1>1, <2>4 DEF IInv, Written
<1>8. Scripts' /\ script'[Other(p)] = script[Other(p)]
  <2>1. /\ Fits(script[p], st, rt) /\ st \in PairSeq /\ st \in Nat /\ rt \in Nat
    BY OwnFacts DEF IInv
  <2>2. Send_temp_Seq' = [Send_temp_Seq EXCEPT ![p] = st]
    <3>1. Send_temp_Seq \in [Peer -> PairSeq] BY DEF IInv, Scripts
    <3> QED BY <1>1, <3>1
  <2> HIDE DEF st, rt
  <2>3. rt + 2 <= 2 * Chunks BY <1>1, <2>1, FitsPairs
  <2>4. rt + 2 \in PairSeq BY <2>1, <2>3, Constants DEF PairSeq
  <2>5. Fits(Tail(script[p]), st, rt + 2) BY <1>1, <2>1, FitsTail
  <2> QED BY <1>1, <2>1, <2>2, <2>4, <2>5, ScriptsSet DEF IInv
<1>9. Stages'
  <2>1. "recvPair" \notin Sends BY DEF Sends
  <2> QED BY <1>1, <1>8, <2>1, NotSendingSame DEF IInv
<1>10. OnTheWay'
  <2>1. calls' \in [Peer -> Nat] /\ \A r \in Peer : calls[r] <= calls'[r]
    BY <1>1 DEF IInv, Counters
  <2>2. "ACK" \in Answers BY DEF Answers
  <2>3. AnswerPair(p, "ACK") \in Seq(Made(calls'[p])) /\ Len(AnswerPair(p, "ACK")) <= 2
    BY <1>1, <1>2, <2>2, AckPairMade DEF IInv
  <2>4. Reading(p) BY <1>1 DEF Reading
  <2> QED BY <1>1, <2>1, <2>3, <2>4, WayKept DEF IInv
<1> QED BY <1>6, <1>7, <1>8, <1>9, <1>10 DEF IInv

-------------------------------------------------------------------------------
LEMMA FirstScripts ==
  /\ Fits(<<threewayhandshake(1)>>, 0, 0)
  /\ Fits(<<threewayhandshake(1), threewayhandshake(2), udplastrecv("command")>>, 0, 0)
<1> DEFINE a == threewayhandshake(1)
           b == threewayhandshake(2)
           c == udplastrecv("command")
<1>1. "hello" \in Kind BY Names
<1>2. a \in PlainCall /\ b \in PlainCall
  BY <1>1 DEF threewayhandshake, PlainCall, UnpairedCall, Call, Sends
<1>3. c \in PlainCall BY PlainCalls
<1> HIDE DEF a, b, c
<1>4. <<a>> \in Seq(PlainCall) /\ <<a, b, c>> \in Seq(PlainCall) BY <1>2, <1>3
<1>5. Fits(<<a>>, 0, 0) /\ Fits(<<a, b, c>>, 0, 0) BY <1>4, PlainFits
<1> QED BY <1>5 DEF a, b, c

LEMMA InitInv == Init => IInv
<1> SUFFICES ASSUME Init PROVE IInv
  OBVIOUS
<1>1. /\ \E s \in Scenarios : plan = s.plan /\ file = s.file /\ network = s.network
      /\ slideid = [p \in Peer |-> {}] /\ resendcount = [p \in Peer |-> 0]
      /\ stage = [p \in Peer |-> "none"]
      /\ prev_Recv_Seq \in [Peer -> Uninit] /\ ackSeq \in [Peer -> Uninit]
      /\ calls = [p \in Peer |-> 0] /\ accepted = [p \in Peer |-> 0] /\ slips = {}
  BY DEF Init
<1>2. Counters
  <2>1. plan \in Seq(Command) BY <1>1, Constants
  <2>2. Send_Seq \in [Peer -> 0..1 \cup {NoSeq}]
    <3>1. /\ Send_Seq \in [client : Uninit, server : {ServerStart}] BY DEF Init
    <3>2. Uninit \subseteq 0..1 \cup {NoSeq} /\ ServerStart \in 0..1 \cup {NoSeq}
      BY Numbers, Constants
    <3> QED BY <3>1, <3>2 DEF Peer
  <2>3. prev_Recv_Seq \in [Peer -> PairSeq \cup {NoSeq}] /\ ackSeq \in [Peer -> PairSeq \cup {NoSeq}]
    <3>1. Uninit \subseteq PairSeq \cup {NoSeq} BY Numbers
    <3> QED BY <1>1, <3>1
  <2>4. calls \in [Peer -> Nat] /\ accepted \in [Peer -> Nat] BY <1>1
  <2>5. \A p \in Peer : accepted[p] <= calls[Other(p)] BY <1>1, Peers
  <2>6. slideid \in [Peer -> SUBSET {1, 2}] /\ slips \subseteq Slip BY <1>1
  <2> QED BY <1>1, <2>1, <2>2, <2>3, <2>4, <2>5, <2>6 DEF Counters
<1>3. Written
  <2>1. got = <<>> /\ deleted = FALSE /\ told = "nothing" /\ opened = FALSE BY DEF Init
  <2> QED BY <2>1, EmptySeq DEF Written
<1>4. Stages
  <2>1. Resends \in Nat BY Constants
  <2> QED BY <1>1, <2>1 DEF Stages, Stage
<1>5. Scripts
  <2>1. /\ script = [client |-> <<threewayhandshake(1)>>,
                     server |-> <<threewayhandshake(1), threewayhandshake(2), udplastrecv("command")>>]
        /\ Send_temp_Seq = [p \in Peer |-> 0] /\ rec_temp_seq = [p \in Peer |-> 0]
    BY DEF Init
  <2>2. script \in [Peer -> Seq(Call)]
    <3>1. \A a, b \in Seq(Call) : [client |-> a, server |-> b] \in [Peer -> Seq(Call)] BY DEF Peer
    <3>2. /\ <<threewayhandshake(1)>> \in Seq(Call)
          /\ <<threewayhandshake(1), threewayhandshake(2), udplastrecv("command")>> \in Seq(Call)
      BY FirstScripts DEF Fits
    <3> QED BY <2>1, <3>1, <3>2
  <2>3. Send_temp_Seq \in [Peer -> PairSeq] /\ rec_temp_seq \in [Peer -> PairSeq] BY <2>1, Numbers
  <2>4. Fits(script["client"], 0, 0) /\ Fits(script["server"], 0, 0) BY <2>1, FirstScripts
  <2>5. ASSUME NEW p \in Peer PROVE Fits(script[p], Send_temp_Seq[p], rec_temp_seq[p])
    <3>1. Send_temp_Seq[p] = 0 /\ rec_temp_seq[p] = 0 BY <2>1
    <3>2. Fits(script[p], 0, 0) BY <2>4, Peers
    <3> QED BY <3>1, <3>2
  <2> QED BY <2>2, <2>3, <2>5 DEF Scripts
<1>6. OnTheWay
  <2>1. outbox = [client |-> <<hello("client")>>, server |-> <<>>] BY DEF Init
  <2>2. /\ toServer = <<>> /\ toServerHeld = NoPacket /\ toClient = <<>> /\ toClientHeld = NoPacket
    BY DEF Init, Up!LinkInit, Down!LinkInit
  <2>3. DOMAIN outbox = Peer BY <2>1 DEF Peer
  <2>4. \A p \in Peer : Incoming(p) = <<>> /\ Held(p) = NoPacket BY <2>2 DEF Incoming, Held
  <2>5. outbox["client"] \in Seq(Made(calls["client"])) /\ Len(outbox["client"]) <= 2
    BY <1>2, <2>1, Peers, HelloMade
  <2>6. outbox["server"] \in Seq(Made(calls["server"])) /\ Len(outbox["server"]) <= 2
    <3>1. outbox["server"] = <<>> BY <2>1
    <3>2. <<>> \in Seq(Made(calls["server"])) /\ Len(<<>>) = 0 BY EmptySeq
    <3> QED BY <3>1, <3>2
  <2>7. \A p \in Peer : <<>> \in Seq(Made(calls[Other(p)])) BY EmptySeq
  <2> QED BY <2>3, <2>4, <2>5, <2>6, <2>7, Peers DEF OnTheWay
<1> QED BY <1>2, <1>3, <1>4, <1>5, <1>6 DEF IInv

LEMMA StepInv ==
  ASSUME IInv, NEW p \in Peer, Step(p)
  PROVE  IInv'
<1>1. \/ SendTo(p) \/ SendLast(p) \/ SendPair(p) \/ ResendLast(p) \/ ResendPair(p)
      \/ AnyAck(p) \/ FirstAck(p) \/ SecondAckLate(p) \/ SecondAck(p) \/ SettleLast(p)
      \/ SettlePair(p) \/ Accept(p) \/ Drop(p) \/ AcceptPair(p) \/ AckAgain(p) \/ Refuse(p)
  BY DEF Step, LastStep, PairStep
<1>2. CASE SendTo(p) BY <1>2, SendToInv
<1>3. CASE SendLast(p) \/ SendPair(p) BY <1>3, SendInv
<1>4. CASE ResendLast(p) BY <1>4, ResendLastInv
<1>5. CASE ResendPair(p) BY <1>5, ResendPairInv
<1>6. CASE AnyAck(p) \/ FirstAck(p) \/ SecondAckLate(p) BY <1>6, FirstWaits
<1>7. CASE SecondAck(p) BY <1>7, SecondAckInv
<1>8. CASE SettleLast(p) BY <1>8, SettleLastInv
<1>9. CASE SettlePair(p) BY <1>9, SettlePairInv
<1>10. CASE Accept(p) BY <1>10, AcceptInv
<1>11. CASE Drop(p) BY <1>11, DropInv
<1>12. CASE AcceptPair(p) BY <1>12, AcceptPairInv
<1>13. CASE AckAgain(p) \/ Refuse(p) BY <1>13, RefuseInv
<1> QED BY <1>1, <1>2, <1>3, <1>4, <1>5, <1>6, <1>7, <1>8, <1>9, <1>10, <1>11, <1>12, <1>13

LEMMA NextInv ==
  ASSUME IInv, [Next]_vars
  PROVE  IInv'
<1>1. CASE Choose BY <1>1, ChooseInv
<1>2. CASE ServerHandshake BY <1>2, ServerHandshakeInv
<1>3. CASE ClientHandshake \/ HandshakeFails BY <1>3, ClientHandshakeInv
<1>4. ASSUME NEW p \in Peer, Step(p) PROVE IInv' BY <1>4, StepInv
<1>5. CASE Release BY <1>5, ReleaseInv
<1>6. CASE UNCHANGED vars
  <2>1. /\ UNCHANGED <<plan, file, network, script, stage, slideid, resendcount, outbox, Send_Seq,
                       prev_Recv_Seq, Send_temp_Seq, rec_temp_seq, ackSeq, calls, accepted, slips>>
        /\ UNCHANGED files /\ UNCHANGED links
    BY <1>6 DEF vars, given, control, seqs, history
  <2>2. Counters' /\ Written' /\ Stages' /\ Scripts'
    BY <2>1, CountersSame, WrittenSame, StagesSame, ScriptsSame DEF IInv
  <2>3. OnTheWay'
    <3>1. calls' \in [Peer -> Nat] /\ \A r \in Peer : calls[r] <= calls'[r]
      BY <2>1 DEF IInv, Counters
    <3>2. Reading("client") BY <2>1 DEF Reading
    <3> QED BY <2>1, <3>1, <3>2, Peers, WayKept DEF IInv
  <2> QED BY <2>2, <2>3 DEF IInv
<1>7. \/ Choose \/ ServerHandshake \/ ClientHandshake \/ HandshakeFails
      \/ (\E p \in Peer : Step(p)) \/ Release \/ UNCHANGED vars
  BY DEF Next, Handshake
<1> QED BY <1>1, <1>2, <1>3, <1>4, <1>5, <1>6, <1>7

LEMMA RenamingStep ==
  ASSUME renaming \in BOOLEAN, [Next]_vars
  PROVE  renaming' \in BOOLEAN
<1>1. ASSUME NEW p \in Peer, Step(p) PROVE renaming' \in BOOLEAN
  <2>1. StillRenaming(p) \in BOOLEAN BY DEF StillRenaming
  <2>2. CASE SendTo(p) \/ ResendPair(p) BY <2>2 DEF SendTo, ResendPair, control
  <2>3. CASE SendLast(p) \/ SendPair(p) \/ ResendLast(p) \/ AnyAck(p) \/ FirstAck(p)
             \/ SecondAck(p) \/ SecondAckLate(p) \/ SettleLast(p) \/ SettlePair(p)
    BY <2>3 DEF SendLast, SendPair, ResendLast, AnyAck, FirstAck, SecondAck, SecondAckLate,
                SettleLast, SettlePair
  <2>4. CASE Accept(p) BY <2>1, <2>4 DEF Accept
  <2>5. CASE Drop(p) BY <2>1, <2>5 DEF Drop
  <2>6. CASE AcceptPair(p) \/ AckAgain(p) \/ Refuse(p)
    BY <2>1, <2>6 DEF AcceptPair, AckAgain, Refuse, ReadTwo
  <2> QED BY <1>1, <2>2, <2>3, <2>4, <2>5, <2>6 DEF Step, LastStep, PairStep
<1>2. CASE Choose \/ Handshake \/ Release \/ UNCHANGED vars
  BY <1>2 DEF Choose, Handshake, ServerHandshake, ClientHandshake, HandshakeFails, Release, vars,
              control
<1> QED BY <1>1, <1>2 DEF Next

(* The calls a side has left tie the numbers of its pairs to the file, and *)
(* only what was sent travels: the inductive invariant.                    *)
THEOREM PairWindowInvariant == Spec => []IInv
<1> QED BY NextInv, InitInv, PTL DEF Spec

(* The numbers of pairs, which no test bounds, end with the file on both   *)
(* sides; no message is resent more than Resends + 1 times; a side waits   *)
(* for an answer only in a send, and receives only what was sent.          *)
THEOREM PairWindowTypes == Spec => []TypeOK
<1>1. IInv /\ renaming \in BOOLEAN => TypeOK
  <2> SUFFICES ASSUME IInv, renaming \in BOOLEAN PROVE TypeOK
    OBVIOUS
  <2>1. script \in [Peer -> Seq(Call)] BY DEF IInv, Scripts
  <2>2. ASSUME NEW c \in Nat PROVE Seq(Made(c)) \subseteq Seq(Datagram) /\ Made(c) \subseteq Datagram
    <3>1. Made(c) \subseteq Datagram BY DEF Made
    <3> QED BY <3>1, SeqMonotonic
  <2>3. \A p \in Peer : calls[p] \in Nat BY DEF IInv, Counters
  <2>4. \A p \in Peer : outbox[p] \in Seq(Datagram) /\ Len(outbox[p]) <= 2
    BY <2>2, <2>3 DEF IInv, OnTheWay
  <2>5. ASSUME NEW p \in Peer
        PROVE  Incoming(p) \in Seq(Datagram) /\ Held(p) \in Datagram \cup {NoPacket}
    BY <2>2, <2>3, Peers DEF IInv, OnTheWay
  <2>6. /\ toServer \in Seq(Datagram) /\ toServerHeld \in Datagram \cup {NoPacket}
        /\ toClient \in Seq(Datagram) /\ toClientHeld \in Datagram \cup {NoPacket}
    <3>1. /\ Incoming("server") = toServer /\ Incoming("client") = toClient
          /\ Held("server") = toServerHeld /\ Held("client") = toClientHeld
      BY DEF Incoming, Held
    <3> QED BY <3>1, <2>5, Peers
  <2>7. \A p \in Peer : accepted[p] \in 0..calls[Other(p)]
    BY Peers DEF IInv, Counters
  <2> QED BY <2>1, <2>4, <2>6, <2>7 DEF TypeOK, IInv, Counters, Written, Stages, Scripts
<1>2. Init => renaming \in BOOLEAN BY DEF Init
<1>3. renaming \in BOOLEAN /\ [Next]_vars => (renaming \in BOOLEAN)' BY RenamingStep
<1>4. Spec => [](renaming \in BOOLEAN) BY <1>2, <1>3, PTL DEF Spec
<1> QED BY <1>1, <1>4, PairWindowInvariant, PTL

-------------------------------------------------------------------------------
(* What the two scripts have to do with each other as long as no receive   *)
(* misreads, that is, returns another packet than the next one sent: what  *)
(* one side still receives is then what the other has sent, whatever the   *)
(* network has done and whatever the waits of the sends have thrown away.  *)

\* GET and PUT come last: a second file would be appended to got, and a packet
\* too many of the first (PutFileToClient) would be read as the next command.
OneTransfer == \A s \in Scenarios : \A i \in 1..(Len(s.plan) - 1) : s.plan[i] \in {"LIST", "DEL"}

PlanLeft == \A i \in 1..(Len(plan) - 1) : plan[i] \in {"LIST", "DEL"}

\* The calls p has left that it has not begun to send, and the number of the
\* pair that comes after the one p is sending.
Left(p) == IF stage[p] = "none" THEN script[p] ELSE Tail(script[p])

NextPair(p) == IF stage[p] # "none" /\ Head(script[p]).op = "sendPair"
               THEN Send_temp_Seq[p] + 2 ELSE Send_temp_Seq[p]

\* What is on its way from p, and what p's send may still hand to the router.
Elems(q) == {q[i] : i \in 1..Len(q)}

InLink(q, h) == Elems(q) \cup ({h} \ {NoPacket})

Way(p) == Elems(outbox[p]) \cup InLink(Incoming(Other(p)), Held(Other(p)))

LastCopies(c, seqNo, id) ==
  {[seqNo |-> seqNo, kind |-> k, n |-> c.n, id |-> id] :
     k \in {c.kind, IF c.kind = "last" THEN "cut" ELSE c.kind}}

PairCopies(c, seqNo, id) ==
  {[seqNo |-> seqNo + h - 1, kind |-> c.kind, n |-> c.n + h - 1, id |-> id] : h \in 1..2}

Copies(p) ==
  IF stage[p] = "none" THEN {}
  ELSE IF Head(script[p]).op = "send" THEN LastCopies(Head(script[p]), Send_Seq[p], calls[p])
  ELSE PairCopies(Head(script[p]), Send_temp_Seq[p], calls[p])

\* Of that, what the other side has not yet returned.
Coming(p) == {d \in Way(p) \cup Copies(p) : d.id > accepted[Other(p)]}

Heard(p)      == calls[p] = accepted[Other(p)]
Said(p, kind) == calls[p] = accepted[Other(p)] + 1 /\ \A d \in Coming(p) : d.kind = kind

\* p's call a is what the other side receives next, p going on with left then.
Says(p, a, left, to) ==
  /\ Left(Other(p)) = to /\ Heard(Other(p))
  /\ \/ Left(p) = <<a>> \o left /\ Heard(p)
     \/ Left(p) = left /\ Said(p, a.kind)

-------------------------------------------------------------------------------
Only(use) == <<udplastrecv(use)>>
Ready     == Only("command")

Greetings == {<<threewayhandshake(1), threewayhandshake(2), udplastrecv("command")>>,
              <<threewayhandshake(2), udplastrecv("command")>>, Ready}

Menu ==
  /\ Left("client") \in {<<>>, <<threewayhandshake(1)>>} /\ Left("server") \in Greetings
  /\ Heard("client") /\ Heard("server")

\* The packet of a command that the server waits for, and its answer.
Awaited(x) == CASE x = "GET" -> "getname" [] x = "DEL" -> "delname" [] x = "PUT" -> "putinfo"
Wanted(x)  == IF x = "GET" THEN "info" ELSE "verdict"

Asks(x) ==
  \E g \in Greetings : Says("client", udplastsend(x, 0), Tail(ClientCalls(x)), g)

Echoes(x) == Says("server", udplastsend(x, 0), Only(Awaited(x)), Tail(ClientCalls(x)))

GivesName(x) == Says("client", udplastsend("name", 0), Only(Wanted(x)), Only(Awaited(x)))

\* The end of a listing is the last packet the server sends.
Listing(s) ==
  /\ Len(s) >= 1 /\ s[Len(s)] = udplastrecv("command")
  /\ \A i \in 1..(Len(s) - 1) : s[i].op = "send" /\ (s[i].kind = "@" => i = Len(s) - 1)

Lists ==
  /\ Left("client") \in {Tail(ClientCalls("LIST")), Only("entry")} /\ Heard("client")
  /\ Listing(Left("server"))
  /\ \A d \in Coming("server") : d.kind = "@" => d.id = calls["server"] /\ Left("server") = Ready

\* A file that cannot be deleted is not spoken of.
Judges ==
  \/ /\ Left("client") = Only("verdict") /\ Left("server") = Ready
     /\ Heard("client") /\ Heard("server")
  \/ \E v \in {"@", "#"} :
       Says("server", udplastsend(v, 0), Ready, Only("verdict")) /\ (v = "@" => deleted)

Refuses == Says("server", udpsend("nofile", 1), Ready, Only("info"))

PutCalls == Tail(Tail(ClientCalls("PUT")))

Announces ==
  file.exists /\ Says("client", udplastsend("info", Chunks), Tail(PutCalls), Only("putinfo"))

Agrees ==
  file.exists /\ Says("server", udplastsend("answer", 0), Only("putinfo2"), Tail(PutCalls))

(* p sends a file, of which the other side has written g halves: before    *)
(* the D chunks to come, there are "a" announcements.  The call or packet  *)
(* that is received as the k-th from now is the chunk k - a.               *)
ChunkCall(c, j, D, g) ==
  /\ j = 0 => c.op = "send" /\ c.kind = "info"
  /\ 1 <= j /\ j < D => c.op = "sendPair" /\ c.kind = "pair" /\ c.n = g + 2 * j - 1
  /\ j = D => c.op = "send" /\ c.kind \in {"last", "cut"} /\ c.n = g + 2 * j - 1
  /\ j > D => c.op = "send" \/ c = udplastrecv("command")

ChunkPacket(d, j, D, g) ==
  /\ j = 0 => d.kind = "info"
  /\ 1 <= j /\ j < D => d.kind = "pair" /\ d.n = d.seqNo + 1 /\ d.n \in {g + 2 * j - 1, g + 2 * j}
  /\ j = D => d.kind \in {"last", "cut"} /\ d.n = g + 2 * j - 1

Receives(o, a, D) ==
  IF a = 1 THEN Only(IF o = "client" THEN "info" ELSE "putinfo2")
  ELSE RecvFile(D) \o IF o = "client" THEN <<>> ELSE Ready

TransferOf(p, a, D) ==
  LET o == Other(p)
      r == calls[p] - accepted[o]
      g == Len(got)
  IN /\ Left(o) = Receives(o, a, D) /\ Heard(o)
     /\ a = 1 => D = Chunks /\ g = 0
     /\ a + D <= r + Len(Left(p)) /\ (p = "client" => r + Len(Left(p)) = a + D)
     /\ \A i \in 1..Len(Left(p)) : ChunkCall(Left(p)[i], r + i - a, D, g)
     /\ \A d \in Coming(p) : ChunkPacket(d, d.id - accepted[o] - a, D, g)
     /\ r + 1 - a = 0 => NextPair(p) = 0
     /\ 1 <= r + 1 - a /\ r + 1 - a < D => NextPair(p) = g + 2 * (r - a)

Transfers == \E p \in Peer, a \in 0..1, D \in 1..Chunks : TransferOf(p, a, D)

\* The client is back in its menu, and the server has nothing to receive.
Finished ==
  /\ Left("client") = <<>> /\ Heard("client")
  /\ \A i \in 1..Len(Left("server")) :
       LET c == Left("server")[i]
       IN c.op \in Sends \/ (c.op = "recv" /\ c.kind \in {"command", "putinfo"})

InOrder == \A k \in 1..Len(got) : got[k].n = k /\ got[k].kind \in {"pair", "last", "cut"}

Talk ==
  \/ /\ got = <<>>
     /\ \/ Menu \/ Asks("LIST") \/ Lists
        \/ Asks("DEL") \/ Echoes("DEL") \/ GivesName("DEL") \/ Judges
  \/ /\ plan = <<>> /\ got = <<>>
     /\ \/ Asks("GET") \/ Echoes("GET") \/ GivesName("GET") \/ Refuses
        \/ /\ NextPair("client") = 0
           /\ Asks("PUT") \/ Echoes("PUT") \/ Announces \/ Agrees
  \/ plan = <<>> /\ (Transfers \/ Finished)

InTruth == InOrder /\ (told = "deleted" => deleted)

TalkInv == IInv /\ PlanLeft /\ ("misread" \notin slips => Talk /\ InTruth)

-------------------------------------------------------------------------------
LEMMA ElemsOf ==
  ASSUME NEW S, NEW q \in Seq(S)
  PROVE  /\ Elems(q) \subseteq S
         /\ q # <<>> => Head(q) \in Elems(q) /\ Elems(Tail(q)) \subseteq Elems(q)
         /\ \A d \in S : Elems(Append(q, d)) \subseteq Elems(q) \cup {d}
<1>1. Elems(q) \subseteq S BY DEF Elems
<1>2. ASSUME q # <<>> PROVE Head(q) \in Elems(q) /\ Elems(Tail(q)) \subseteq Elems(q)
  <2>1. /\ Tail(q) \in Seq(S) /\ Len(q) \in Nat /\ Len(q) > 0 /\ Head(q) = q[1]
        /\ \A i \in 1..Len(Tail(q)) : Tail(q)[i] = q[i + 1] /\ i + 1 \in 1..Len(q)
    BY <1>2, TailOf
  <2>2. 1 \in 1..Len(q) BY <2>1
  <2> QED BY <2>1, <2>2 DEF Elems
<1>3. ASSUME NEW d \in S PROVE Elems(Append(q, d)) \subseteq Elems(q) \cup {d}
  <2>1. /\ Len(Append(q, d)) = Len(q) + 1 /\ Len(q) \in Nat /\ Append(q, d)[Len(q) + 1] = d
        /\ \A i \in 1..Len(q) : Append(q, d)[i] = q[i]
    OBVIOUS
  <2>2. ASSUME NEW i \in 1..Len(Append(q, d)) PROVE Append(q, d)[i] \in Elems(q) \cup {d}
    <3>1. i \in 1..Len(q) \/ i = Len(q) + 1 BY <2>1
    <3> QED BY <2>1, <3>1 DEF Elems
  <2> QED BY <2>2 DEF Elems
<1> QED BY <1>1, <1>2, <1>3

LEMMA ElemsOfTwo ==
  ASSUME NEW S, NEW q \in Seq(S), Len(q) >= 2
  PROVE  q[1] \in Elems(q) /\ q[2] \in Elems(q) /\ Elems(Tail(Tail(q))) \subseteq Elems(q)
<1>1. 1 \in 1..Len(q) /\ 2 \in 1..Len(q) /\ q # <<>> OBVIOUS
<1>2. Tail(q) \in Seq(S) /\ Len(Tail(q)) = Len(q) - 1 /\ Elems(Tail(q)) \subseteq Elems(q)
  BY <1>1, TailOf, ElemsOf
<1>3. Tail(q) # <<>>
  <2>1. Len(Tail(q)) # 0 BY <1>2
  <2>2. Len(<<>>) = 0 OBVIOUS
  <2> QED BY <2>1, <2>2
<1>4. Elems(Tail(Tail(q))) \subseteq Elems(Tail(q)) BY <1>2, <1>3, ElemsOf
<1> QED BY <1>1, <1>2, <1>4 DEF Elems

LEMMA ElemsStored ==
  ASSUME NEW S, NEW q \in Seq(S), NEW d \in S
  PROVE  Elems(Stored(q, d)) \subseteq Elems(q) \cup {d} /\ Stored(q, d) \in Seq(S)
BY ElemsOf, StoredTyped DEF Stored

\* The router makes no packets.
LEMMA ElemsEntered ==
  ASSUME NEW S, NEW q \in Seq(S), NEW h \in S \cup {NoPacket}, NEW d \in S,
         NEW q2, NEW h2, Entered(q, h, d, q2, h2)
  PROVE  InLink(q2, h2) \subseteq InLink(q, h) \cup {d}
<1>1. Elems(Stored(q, d)) \subseteq Elems(q) \cup {d} /\ Stored(q, d) \in Seq(S) BY ElemsStored
<1>2. h # NoPacket => Elems(Stored(Stored(q, d), h)) \subseteq Elems(q) \cup {d} \cup {h}
  <2>1. ASSUME h # NoPacket PROVE h \in S BY <2>1
  <2>2. ASSUME h \in S
        PROVE  Elems(Stored(Stored(q, d), h)) \subseteq Elems(Stored(q, d)) \cup {h}
    BY <1>1, <2>2, ElemsStored
  <2> QED BY <1>1, <2>1, <2>2
<1> QED BY <1>1, <1>2 DEF Entered, InLink

\* A step of r that reads adds nothing to what is in the links.
LEMMA LinksShrink ==
  ASSUME OnTheWay, NEW r \in Peer, Reading(r), NEW o \in Peer
  PROVE  Elems(Incoming(o))' \subseteq Elems(Incoming(o)) /\ Held(o)' = Held(o)
<1>1. Incoming(o) \in Seq(Made(calls[Other(o)])) BY DEF OnTheWay
<1>2. CASE UNCHANGED links BY <1>2 DEF links, Incoming, Held, Elems
<1>3. CASE \E d : Read(r, d)
  <2>1. PICK d : Read(r, d) BY <1>3
  <2>2. /\ Incoming(r) # <<>> /\ Incoming(r)' = Tail(Incoming(r)) /\ Held(r)' = Held(r)
        /\ Incoming(Other(r))' = Incoming(Other(r)) /\ Held(Other(r))' = Held(Other(r))
    BY <2>1, ReadTakes
  <2>3. CASE o = r
    <3>1. Elems(Tail(Incoming(r))) \subseteq Elems(Incoming(r)) BY <1>1, <2>2, <2>3, ElemsOf
    <3> QED BY <2>2, <2>3, <3>1 DEF Elems
  <2>4. CASE o = Other(r) BY <2>2, <2>4 DEF Elems
  <2> QED BY <2>3, <2>4, Peers
<1>4. CASE ReadTwo(r)
  <2>1. /\ Len(Incoming(r)) >= 2 /\ Incoming(r)' = Tail(Tail(Incoming(r))) /\ Held(r)' = Held(r)
        /\ Incoming(Other(r))' = Incoming(Other(r)) /\ Held(Other(r))' = Held(Other(r))
    BY <1>4, ReadTwoTakes
  <2>2. CASE o = r
    <3>1. Elems(Tail(Tail(Incoming(r)))) \subseteq Elems(Incoming(r)) BY <1>1, <2>1, <2>2, ElemsOfTwo
    <3> QED BY <2>1, <2>2, <3>1 DEF Elems
  <2>3. CASE o = Other(r) BY <2>1, <2>3 DEF Elems
  <2> QED BY <2>2, <2>3, Peers
<1> QED BY <1>2, <1>3, <1>4 DEF Reading

LEMMA WayTyped ==
  ASSUME OnTheWay, NEW p \in Peer
  PROVE  Way(p) \subseteq Made(calls[p])
<1>1. /\ outbox[p] \in Seq(Made(calls[p])) /\ Incoming(Other(p)) \in Seq(Made(calls[p]))
      /\ Held(Other(p)) \in Made(calls[p]) \cup {NoPacket}
  BY Peers DEF OnTheWay
<1>2. Elems(outbox[p]) \subseteq Made(calls[p]) /\ Elems(Incoming(Other(p))) \subseteq Made(calls[p])
  BY <1>1, ElemsOf
<1> QED BY <1>1, <1>2 DEF Way, InLink

\* What is to come has not been returned, and was sent.
LEMMA ComingIds ==
  ASSUME OnTheWay, Counters, NEW p \in Peer, NEW d \in Coming(p)
  PROVE  /\ d.id \in Nat /\ accepted[Other(p)] < d.id /\ d.id <= calls[p]
         /\ accepted[Other(p)] \in Nat /\ calls[p] \in Nat
<1>1. calls[p] \in Nat /\ accepted[Other(p)] \in Nat BY Peers DEF Counters
<1>2. d \in Way(p) \cup Copies(p) /\ d.id > accepted[Other(p)] BY DEF Coming
<1>3. d \in Way(p) => d.id \in 0..calls[p] BY <1>1, WayTyped, MadeIs
<1>4. d \in Copies(p) => d.id = calls[p] BY DEF Copies, LastCopies, PairCopies
<1> QED BY <1>1, <1>2, <1>3, <1>4

\* What p has to come grows only by copies of what it is sending.
LEMMA ComingGrows ==
  ASSUME OnTheWay, Counters, NEW r \in Peer, Reading(r), NEW p \in Peer, NEW New,
         Copies(p)' \subseteq New,
         \A d \in Elems(outbox'[p]) : d.id = 0 \/ d \in Elems(outbox[p]) \/ d \in New,
         accepted[Other(p)] \in Nat, accepted'[Other(p)] \in Nat,
         accepted[Other(p)] <= accepted'[Other(p)]
  PROVE  \A d \in Coming(p)' : d \in Coming(p) \/ d \in New
<1> DEFINE o == Other(p)
<1>1. o \in Peer BY Peers
<1>2. Elems(Incoming(o))' \subseteq Elems(Incoming(o)) /\ Held(o)' = Held(o) BY <1>1, LinksShrink
<1> SUFFICES ASSUME NEW d \in Coming(p)' PROVE d \in Coming(p) \/ d \in New
  OBVIOUS
<1>3. d.id > accepted'[o] /\ d \in Way(p)' \cup Copies(p)' BY DEF Coming, Other
<1>4. CASE d \in New BY <1>4
<1>5. CASE d \in Way(p)' /\ d \notin New
  <2>1. d \in Elems(outbox'[p]) \/ d \in Elems(Incoming(o))' \/ d \in ({Held(o)'} \ {NoPacket})
    BY <1>5 DEF Way, InLink, Elems, Other
  <2>2. d.id # 0 BY <1>3
  <2>3. d \in Way(p) BY <1>2, <1>5, <2>1, <2>2 DEF Way, InLink
  <2>4. d.id > accepted[o]
    <3>1. \A x, a, b \in Nat : a <= b /\ x > b => x > a OBVIOUS
    <3>2. calls[p] \in Nat BY DEF Counters
    <3>3. d \in Made(calls[p]) BY <2>3, WayTyped
    <3>4. d.id \in Nat BY <3>2, <3>3, MadeIs
    <3> QED BY <1>3, <3>1, <3>4
  <2> QED BY <2>3, <2>4 DEF Coming
<1> QED BY <1>3, <1>4, <1>5

-------------------------------------------------------------------------------
\* A step that the scripts do not see, but for packets that get lost.
Unseen ==
  /\ UNCHANGED <<plan, file, got, deleted, told, calls, accepted>>
  /\ \A p \in Peer : /\ Left(p)' = Left(p) /\ NextPair(p)' = NextPair(p)
                     /\ Coming(p)' \subseteq Coming(p)

\* In a send, no more than copies of its packet are given to the router.
LEMMA CopiesOf ==
  ASSUME NEW p \in Peer, stage[p] # "none", calls' = calls
  PROVE  /\ Head(script[p]).op = "send" => Resent(p) \in Copies(p)
         /\ Head(script[p]).op = "sendPair" => \A h \in 1..2 : Pair(p)[h] \in Copies(p)
<1>1. ASSUME Head(script[p]).op = "send" PROVE Resent(p) \in Copies(p)
  <2>1. Resent(p) = [seqNo |-> Send_Seq[p],
                     kind  |-> IF p = "client" /\ Head(script[p]).kind = "last" THEN "cut"
                               ELSE Head(script[p]).kind,
                     n     |-> Head(script[p]).n, id |-> calls[p]]
    BY DEF Resent, Packet
  <2> QED BY <1>1, <2>1 DEF Copies, LastCopies
<1>2. ASSUME Head(script[p]).op = "sendPair", NEW h \in 1..2 PROVE Pair(p)[h] \in Copies(p)
  <2>1. Pair(p)[h] = [seqNo |-> Send_temp_Seq[p] + h - 1, kind |-> Head(script[p]).kind,
                      n |-> Head(script[p]).n + h - 1, id |-> calls[p]]
    BY DEF Pair
  <2> QED BY <1>2, <2>1 DEF Copies, PairCopies
<1> QED BY <1>1, <1>2

LEMMA SendingSame ==
  ASSUME NEW p \in Peer, UNCHANGED <<script, Send_temp_Seq, Send_Seq, calls>>,
         stage'[p] = "none" <=> stage[p] = "none"
  PROVE  Left(p)' = Left(p) /\ NextPair(p)' = NextPair(p) /\ Copies(p)' = Copies(p)
BY DEF Left, NextPair, Copies

LEMMA LeftTyped ==
  ASSUME IInv, NEW p \in Peer
  PROVE  Left(p) \in Seq(Call)
<1>1. script[p] \in Seq(Call) /\ (stage[p] # "none" => script[p] # <<>>)
  BY DEF IInv, Scripts, Stages
<1>2. script[p] # <<>> => Tail(script[p]) \in Seq(Call) BY <1>1, TailOf
<1> QED BY <1>1, <1>2 DEF Left

LEMMA ComingShrinks ==
  ASSUME IInv, NEW r \in Peer, Reading(r), UNCHANGED <<calls, accepted>>,
         NEW p \in Peer, Copies(p)' \subseteq Copies(p),
         \A d \in Elems(outbox'[p]) : d.id = 0 \/ d \in Elems(outbox[p]) \/ d \in Copies(p)
  PROVE  Coming(p)' \subseteq Coming(p)
<1>1. accepted[Other(p)] \in Nat /\ accepted'[Other(p)] = accepted[Other(p)]
  BY Peers DEF IInv, Counters
<1>2. \A x \in Nat : x <= x OBVIOUS
<1> DEFINE New == Copies(p)
<1>3. Copies(p)' \subseteq New OBVIOUS
<1>4. \A d \in Elems(outbox'[p]) : d.id = 0 \/ d \in Elems(outbox[p]) \/ d \in New OBVIOUS
<1> HIDE DEF New
<1>5. \A d \in Coming(p)' : d \in Coming(p) \/ d \in New
  BY <1>1, <1>2, <1>3, <1>4, ComingGrows DEF IInv
<1>6. ASSUME NEW d \in Coming(p)', d \in New PROVE d \in Coming(p)
  <2>1. d.id > accepted[Other(p)] BY <1>1 DEF Coming, Other
  <2> QED BY <2>1, <1>6 DEF Coming, New
<1> QED BY <1>5, <1>6

LEMMA UnseenIf ==
  ASSUME IInv, NEW r \in Peer, Reading(r),
         UNCHANGED <<plan, file, got, deleted, told, calls, accepted>>,
         \A p \in Peer : /\ Left(p)' = Left(p) /\ NextPair(p)' = NextPair(p)
                         /\ Copies(p)' \subseteq Copies(p)
                         /\ \A d \in Elems(outbox'[p]) : \/ d.id = 0 \/ d \in Elems(outbox[p])
                                                         \/ d \in Copies(p)
  PROVE  Unseen
<1>1. ASSUME NEW p \in Peer PROVE Coming(p)' \subseteq Coming(p)
  <2>1. Copies(p)' \subseteq Copies(p) OBVIOUS
  <2>2. \A d \in Elems(outbox'[p]) : d.id = 0 \/ d \in Elems(outbox[p]) \/ d \in Copies(p) OBVIOUS
  <2> QED BY <2>1, <2>2, ComingShrinks
<1> QED BY <1>1 DEF Unseen

\* r stays in its call: it reads, and resends or answers.
LEMMA UnseenInCall ==
  ASSUME IInv, NEW r \in Peer, Reading(r),
         UNCHANGED <<plan, file, got, deleted, told, script, Send_temp_Seq, Send_Seq, calls, accepted>>,
         stage' = stage \/ (stage[r] # "none" /\ \E g \in Stage \ {"none"} : stage' = [stage EXCEPT ![r] = g]),
         \/ outbox' = outbox
         \/ \E q : /\ outbox' = [outbox EXCEPT ![r] = q]
                   /\ \A d \in Elems(q) : d.id = 0 \/ d \in Copies(r)
  PROVE  Unseen
<1>1. ASSUME NEW p \in Peer PROVE stage'[p] = "none" <=> stage[p] = "none"
  <2>1. stage \in [Peer -> Stage] BY DEF IInv, Stages
  <2> QED BY <2>1
<1>2. ASSUME NEW p \in Peer, NEW d \in Elems(outbox'[p])
      PROVE  d.id = 0 \/ d \in Elems(outbox[p]) \/ d \in Copies(p)
  <2>1. CASE outbox'[p] = outbox[p] BY <1>2, <2>1
  <2>2. CASE outbox'[p] # outbox[p]
    <3>1. PICK q : /\ outbox' = [outbox EXCEPT ![r] = q]
                   /\ \A e \in Elems(q) : e.id = 0 \/ e \in Copies(r)
      BY <2>2
    <3>2. p = r /\ outbox'[p] = q BY <2>2, <3>1 DEF IInv, OnTheWay
    <3> QED BY <1>2, <3>1, <3>2
  <2> QED BY <2>1, <2>2
<1>3. \A p \in Peer : Left(p)' = Left(p) /\ NextPair(p)' = NextPair(p) /\ Copies(p)' \subseteq Copies(p)
  BY <1>1, SendingSame
<1> QED BY <1>2, <1>3, UnseenIf

LEMMA ElemsOfOne == \A x : Elems(<<x>>) = {x}
<1> SUFFICES ASSUME NEW x PROVE Elems(<<x>>) = {x}
  OBVIOUS
<1>1. Len(<<x>>) = 1 /\ <<x>>[1] = x /\ 1..1 = {1} OBVIOUS
<1> QED BY <1>1 DEF Elems

LEMMA ElemsOfPair ==
  ASSUME NEW f, f = [h \in 1..2 |-> f[h]]
  PROVE  \A d \in Elems(f) : \E h \in 1..2 : d = f[h]
<1>1. Len(f) = 2 OBVIOUS
<1> QED BY <1>1 DEF Elems

LEMMA ResendsUnseen ==
  ASSUME IInv, NEW p \in Peer, ResendLast(p) \/ ResendPair(p)
  PROVE  Unseen
<1>1. /\ Reading(p) /\ stage[p] # "none"
      /\ UNCHANGED <<plan, file, got, deleted, told, script, Send_temp_Seq, Send_Seq, calls, accepted>>
  BY DEF ResendLast, ResendPair, Reading, files, given, seqs, control
<1>2. CASE ResendLast(p)
  <2> DEFINE g == IF resendcount[p] < Resends THEN "resending" ELSE "settling"
             q == <<Resent(p)>>
  <2>1. /\ outbox' = [outbox EXCEPT ![p] = q] /\ Head(script[p]).op = "send"
        /\ stage' = [stage EXCEPT ![p] = g] /\ g \in Stage \ {"none"}
    BY <1>2, <1>1 DEF ResendLast, InCall, Stage
  <2>2. \A d \in Elems(q) : d.id = 0 \/ d \in Copies(p)
    <3>1. Resent(p) \in Copies(p) BY <1>1, <2>1, CopiesOf
    <3> QED BY <3>1, ElemsOfOne
  <2> HIDE DEF g, q
  <2> QED BY <1>1, <2>1, <2>2, UnseenInCall
<1>3. CASE ResendPair(p)
  <2> DEFINE q == Pair(p)
  <2>1. /\ outbox' = [outbox EXCEPT ![p] = q] /\ Head(script[p]).op = "sendPair" /\ stage' = stage
    BY <1>3 DEF ResendPair, InCall, control
  <2>2. \A d \in Elems(q) : d.id = 0 \/ d \in Copies(p)
    <3>1. \A h \in 1..2 : Pair(p)[h] \in Copies(p) BY <1>1, <2>1, CopiesOf
    <3>2. q = [h \in 1..2 |-> q[h]] BY DEF Pair
    <3>3. \A d \in Elems(q) : \E h \in 1..2 : d = q[h]
      <4> HIDE DEF q
      <4> QED BY <3>2, ElemsOfPair
    <3> QED BY <3>1, <3>3
  <2> HIDE DEF q
  <2> QED BY <1>1, <2>1, <2>2, UnseenInCall
<1> QED BY <1>2, <1>3

LEMMA WaitsUnseen ==
  ASSUME IInv, NEW p \in Peer,
         AnyAck(p) \/ FirstAck(p) \/ SecondAckLate(p) \/ (SecondAck(p) /\ script' = script)
  PROVE  Unseen
<1>1. /\ Reading(p) /\ stage[p] # "none" /\ outbox' = outbox
      /\ UNCHANGED <<plan, file, got, deleted, told, calls, accepted>>
  BY DEF AnyAck, FirstAck, SecondAckLate, SecondAck, Reading, files, given, seqs, history
<1>2. CASE AnyAck(p) \/ FirstAck(p) \/ SecondAckLate(p)
  <2>1. UNCHANGED <<script, Send_temp_Seq, Send_Seq>>
    BY <1>2 DEF AnyAck, FirstAck, SecondAckLate, seqs
  <2>2. \E g \in Stage \ {"none"} : stage' = [stage EXCEPT ![p] = g]
    <3>1. /\ {"settling", "secondAck", "settlingAck", "resending"} \subseteq Stage \ {"none"}
      BY DEF Stage
    <3>2. \E g \in {"settling", "secondAck", "settlingAck", "resending"} :
             stage' = [stage EXCEPT ![p] = g]
      BY <1>2 DEF AnyAck, FirstAck, SecondAckLate
    <3> QED BY <3>1, <3>2
  <2> QED BY <1>1, <2>1, <2>2, UnseenInCall
<1>3. CASE SecondAck(p) /\ script' = script
  <2>1. script[p] # <<>> BY <1>3 DEF SecondAck, InCall
  <2>2. ~ReturnPair(p)
    <3>1. script \in [Peer -> Seq(Call)] /\ script[p] \in Seq(Call) BY DEF IInv, Scripts
    <3>2. Len(Tail(script[p])) = Len(script[p]) - 1 /\ Len(script[p]) \in Nat
      BY <2>1, <3>1, TailOf
    <3>3. Tail(script[p]) # script[p]
      <4>1. Len(Tail(script[p])) # Len(script[p]) BY <3>2
      <4> QED BY <4>1
    <3>4. ReturnPair(p) => script'[p] = Tail(script[p]) BY <3>1 DEF ReturnPair, Return
    <3> QED BY <1>3, <3>3, <3>4
  <2>3. UNCHANGED <<Send_temp_Seq, Send_Seq>> /\ \E g \in {"settling", "resending"} : stage' = [stage EXCEPT ![p] = g]
    BY <1>3, <2>2 DEF SecondAck, seqs
  <2>4. \E g \in Stage \ {"none"} : stage' = [stage EXCEPT ![p] = g]
    <3>1. {"settling", "resending"} \subseteq Stage \ {"none"} BY DEF Stage
    <3> QED BY <2>3, <3>1
  <2> QED BY <1>1, <1>3, <2>3, <2>4, UnseenInCall
<1> QED BY <1>2, <1>3

LEMMA AnswersUnseen ==
  ASSUME IInv, NEW p \in Peer, Drop(p) \/ AckAgain(p) \/ Refuse(p)
  PROVE  Unseen
<1>1. /\ Reading(p) /\ stage' = stage
      /\ UNCHANGED <<plan, file, got, deleted, told, script, Send_temp_Seq, Send_Seq, calls, accepted>>
  BY DEF Drop, AckAgain, Refuse, Reading, files, given, seqs, control, history
<1>2. \E q : /\ outbox' = [outbox EXCEPT ![p] = q]
             /\ \A d \in Elems(q) : d.id = 0 \/ d \in Copies(p)
  <2>1. CASE Drop(p)
    <3>1. outbox' = [outbox EXCEPT ![p] = <<Answer(p, "ack", ackSeq[p])>>] BY <2>1 DEF Drop
    <3>2. Answer(p, "ack", ackSeq[p]).id = 0 BY DEF Answer
    <3> QED BY <3>1, <3>2, ElemsOfOne
  <2>2. CASE AckAgain(p) \/ Refuse(p)
    <3>1. PICK kind \in {"ACK", "NAK"} : outbox' = [outbox EXCEPT ![p] = AnswerPair(p, kind)]
      BY <2>2 DEF AckAgain, Refuse
    <3>2. \A h \in 1..2 : AnswerPair(p, kind)[h].id = 0 BY DEF AnswerPair, Answer
    <3> DEFINE q == AnswerPair(p, kind)
    <3>3. q = [h \in 1..2 |-> q[h]] BY DEF AnswerPair
    <3> HIDE DEF q
    <3>4. \A d \in Elems(q) : \E h \in 1..2 : d = q[h] BY <3>3, ElemsOfPair
    <3>5. \A d \in Elems(q) : d.id = 0 BY <3>2, <3>4 DEF q
    <3>6. outbox' = [outbox EXCEPT ![p] = q] BY <3>1 DEF q
    <3> QED BY <3>5, <3>6
  <2> QED BY <2>1, <2>2
<1> QED BY <1>1, <1>2, UnseenInCall

\* A send that returns was seen when it began.
LEMMA ReturnsUnseen ==
  ASSUME IInv, NEW p \in Peer, Reading(p), Return(p), outbox' = outbox,
         script[p] # <<>>, Head(script[p]).op \in Sends, stage[p] # "none",
         Send_temp_Seq' = IF Head(script[p]).op = "sendPair"
                          THEN [Send_temp_Seq EXCEPT ![p] = @ + 2] ELSE Send_temp_Seq,
         Send_Seq' = Send_Seq \/ \E x : Send_Seq' = [Send_Seq EXCEPT ![p] = x],
         UNCHANGED <<plan, file, got, deleted, told, calls, accepted>>
  PROVE  Unseen
<1>1. /\ script' = [script EXCEPT ![p] = Tail(script[p])] /\ stage' = [stage EXCEPT ![p] = "none"]
  BY DEF Return
<1>2. /\ script \in [Peer -> Seq(Call)] /\ stage \in [Peer -> Stage]
      /\ Send_temp_Seq \in [Peer -> PairSeq] /\ Send_Seq \in [Peer -> 0..1 \cup {NoSeq}]
  BY DEF IInv, Scripts, Stages, Counters
<1>3. Left(p)' = Left(p) /\ NextPair(p)' = NextPair(p) /\ Copies(p)' \subseteq Copies(p)
  <2>1. script'[p] = Tail(script[p]) /\ stage'[p] = "none" BY <1>1, <1>2
  <2>2. Send_temp_Seq'[p] = IF Head(script[p]).op = "sendPair" THEN Send_temp_Seq[p] + 2
                            ELSE Send_temp_Seq[p]
    BY <1>2
  <2> QED BY <2>1, <2>2 DEF Left, NextPair, Copies
<1>4. ASSUME NEW r \in Peer, r # p
      PROVE  Left(r)' = Left(r) /\ NextPair(r)' = NextPair(r) /\ Copies(r)' \subseteq Copies(r)
  <2>1. /\ script'[r] = script[r] /\ stage'[r] = stage[r] /\ Send_temp_Seq'[r] = Send_temp_Seq[r]
        /\ Send_Seq'[r] = Send_Seq[r] /\ calls'[r] = calls[r]
    BY <1>1, <1>2, <1>4
  <2> QED BY <2>1 DEF Left, NextPair, Copies
<1> QED BY <1>3, <1>4, UnseenIf

LEMMA SettlesUnseen ==
  ASSUME IInv, NEW p \in Peer, SettleLast(p) \/ SettlePair(p) \/ SecondAck(p)
  PROVE  Unseen
<1>1. /\ Reading(p) /\ stage[p] # "none" /\ outbox' = outbox
      /\ script[p] # <<>> /\ Head(script[p]).op \in Sends
      /\ UNCHANGED <<plan, file, got, deleted, told, calls, accepted>>
  BY DEF SettleLast, SettlePair, SecondAck, InCall, Sends, Reading, files, given, history
<1>2. CASE SettleLast(p)
  <2>1. /\ Return(p) /\ Head(script[p]).op = "send" /\ Send_temp_Seq' = Send_temp_Seq
        /\ \E x : Send_Seq' = [Send_Seq EXCEPT ![p] = x]
    BY <1>2 DEF SettleLast, InCall
  <2> QED BY <1>1, <2>1, ReturnsUnseen
<1>3. CASE (SettlePair(p) \/ SecondAck(p)) /\ ReturnPair(p)
  <2>1. /\ Return(p) /\ Head(script[p]).op = "sendPair"
        /\ Send_temp_Seq' = [Send_temp_Seq EXCEPT ![p] = @ + 2] /\ Send_Seq' = Send_Seq
    BY <1>3 DEF SettlePair, SecondAck, InCall, ReturnPair
  <2> QED BY <1>1, <2>1, ReturnsUnseen
<1>4. CASE SecondAck(p) /\ ~ReturnPair(p)
  <2>1. script' = script BY <1>4 DEF SecondAck
  <2> QED BY <1>4, <2>1, WaitsUnseen
<1> QED BY <1>2, <1>3, <1>4 DEF SettlePair

\* The router, too, brings nothing that was not to come.
LEMMA RouterUnseen ==
  ASSUME IInv, (\E p \in Peer : SendTo(p)) \/ Release
  PROVE  Unseen
<1>1. UNCHANGED <<plan, file, got, deleted, told, script, stage, Send_temp_Seq, Send_Seq, calls, accepted>>
  BY DEF SendTo, Release, files, given, seqs, control, history
<1>2. ASSUME NEW p \in Peer, Way(p)' \subseteq Way(p)
      PROVE  /\ Left(p)' = Left(p) /\ NextPair(p)' = NextPair(p) /\ Coming(p)' \subseteq Coming(p)
  <2>1. Left(p)' = Left(p) /\ NextPair(p)' = NextPair(p) /\ Copies(p)' = Copies(p)
    BY <1>1, SendingSame
  <2> QED BY <1>1, <1>2, <2>1 DEF Coming, Other
<1>3. \A p \in Peer : /\ outbox[p] \in Seq(Made(calls[p])) /\ Incoming(Other(p)) \in Seq(Made(calls[p]))
                      /\ Held(Other(p)) \in Made(calls[p]) \cup {NoPacket}
  BY Peers DEF IInv, OnTheWay
<1>4. ASSUME NEW p \in Peer, SendTo(p) PROVE Way(p)' \subseteq Way(p) /\ Way(Other(p))' \subseteq Way(Other(p))
  <2> DEFINE o == Other(p)
             d == Head(outbox[p])
  <2>1. outbox[p] # <<>> /\ outbox' = [outbox EXCEPT ![p] = Tail(outbox[p])] BY <1>4 DEF SendTo
  <2>2. Incoming(p)' = Incoming(p) /\ Held(p)' = Held(p)
    BY <1>4 DEF SendTo, KeepLink, Incoming, Held, Peer
  <2>3. Entered(Incoming(o), Held(o), d, Incoming(o)', Held(o)')
    <3>1. CASE p = "client"
      BY <1>4, <3>1 DEF SendTo, Entered, Stored, Incoming, Held, Other, KeepLink,
                        Up!Forward, Up!Hold, Up!Arrive
    <3>2. CASE p = "server"
      BY <1>4, <3>2 DEF SendTo, Entered, Stored, Incoming, Held, Other, KeepLink,
                        Down!Forward, Down!Hold, Down!Arrive
    <3> QED BY <3>1, <3>2, Peers
  <2>4. /\ d \in Made(calls[p]) /\ d \in Elems(outbox[p]) /\ Elems(Tail(outbox[p])) \subseteq Elems(outbox[p])
    BY <1>3, <2>1, TailOf, ElemsOf
  <2>5. o \in Peer /\ o # p /\ Other(o) = p BY Peers
  <2>6. outbox'[p] = Tail(outbox[p]) /\ outbox'[o] = outbox[o] BY <2>1, <2>5 DEF IInv, OnTheWay
  <2>7. InLink(Incoming(o)', Held(o)') \subseteq InLink(Incoming(o), Held(o)) \cup {d}
    <3>1. PICK q2, h2 : q2 = Incoming(o)' /\ h2 = Held(o)' OBVIOUS
    <3> DEFINE S == Made(calls[p])
               q == Incoming(o)
               h == Held(o)
    <3>2. q \in Seq(S) /\ h \in S \cup {NoPacket} /\ d \in S BY <1>3, <2>4
    <3>3. Entered(q, h, d, q2, h2) BY <2>3, <3>1
    <3> HIDE DEF d, S, q, h
    <3>4. InLink(q2, h2) \subseteq InLink(q, h) \cup {d}
      BY <3>2, <3>3, ElemsEntered
    <3> QED BY <3>1, <3>4 DEF q, h
  <2>8. Way(p)' = Elems(outbox'[p]) \cup InLink(Incoming(o)', Held(o)')
    BY DEF Way, InLink, Elems, Other
  <2>9. Way(o)' = Elems(outbox'[o]) \cup InLink(Incoming(p)', Held(p)')
    BY <2>5 DEF Way, InLink, Elems, Other
  <2> HIDE DEF d, o
  <2>10. Way(p)' \subseteq Way(p) BY <2>4, <2>6, <2>7, <2>8 DEF Way, o
  <2>11. Way(o)' \subseteq Way(o) BY <2>2, <2>5, <2>6, <2>9 DEF Way, InLink
  <2> QED BY <2>10, <2>11 DEF o
<1>5. ASSUME Release, NEW p \in Peer PROVE Way(p)' \subseteq Way(p)
  <2> DEFINE o == Other(p)
  <2>1. outbox' = outbox /\ o \in Peer BY <1>5, Peers DEF Release
  <2>2. \/ Incoming(o)' = Incoming(o) /\ Held(o)' = Held(o)
        \/ Held(o) # NoPacket /\ Held(o)' = NoPacket
             /\ Incoming(o)' \in {Incoming(o), Stored(Incoming(o), Held(o))}
    BY <1>5, <2>1 DEF Release, Incoming, Held, Stored, KeepLink, Peer,
           Up!Release, Up!Arrive, Down!Release, Down!Arrive
  <2>3. Held(o) # NoPacket => Elems(Stored(Incoming(o), Held(o))) \subseteq Elems(Incoming(o)) \cup {Held(o)}
    <3>1. ASSUME Held(o) # NoPacket PROVE Held(o) \in Made(calls[p]) BY <3>1, <1>3
    <3>2. ASSUME Held(o) \in Made(calls[p])
          PROVE  Elems(Stored(Incoming(o), Held(o))) \subseteq Elems(Incoming(o)) \cup {Held(o)}
      BY <1>3, <3>2, ElemsStored
    <3> QED BY <3>1, <3>2
  <2>4. Way(p)' = Elems(outbox[p]) \cup InLink(Incoming(o)', Held(o)')
    BY <2>1 DEF Way, InLink, Elems, Other
  <2>5. InLink(Incoming(o)', Held(o)') \subseteq InLink(Incoming(o), Held(o))
    <3> HIDE DEF o
    <3> QED BY <2>2, <2>3 DEF InLink
  <2> HIDE DEF o
  <2> QED BY <2>4, <2>5 DEF Way, o
<1>6. \A p \in Peer : Way(p)' \subseteq Way(p)
  <2>1. ASSUME NEW r \in Peer, SendTo(r), NEW p \in Peer PROVE Way(p)' \subseteq Way(p)
    <3>1. p = r \/ p = Other(r) BY Peers
    <3> QED BY <2>1, <3>1, <1>4
  <2> QED BY <1>5, <2>1
<1> QED BY <1>1, <1>2, <1>6 DEF Unseen

-------------------------------------------------------------------------------
\* What the scripts see stays as it is when nothing of it changes.
LEMMA UnseenSays ==
  ASSUME Unseen, NEW p \in Peer, NEW a, NEW left, NEW to, Says(p, a, left, to)
  PROVE  Says(p, a, left, to)'
<1>1. /\ Left(p)' = Left(p) /\ Left(Other(p))' = Left(Other(p)) /\ Coming(p)' \subseteq Coming(p)
      /\ calls' = calls /\ accepted' = accepted
  BY Peers DEF Unseen
<1>2. Heard(p)' = Heard(p) /\ Heard(Other(p))' = Heard(Other(p)) /\ (Said(p, a.kind) => Said(p, a.kind)')
  BY <1>1 DEF Heard, Said, Other
<1>3. Left(Other(p))' = to /\ Heard(Other(p))' BY <1>1, <1>2 DEF Says
<1>4. \/ Left(p)' = <<a>> \o left /\ Heard(p)'
      \/ Left(p)' = left /\ Said(p, a.kind)'
  BY <1>1, <1>2 DEF Says
<1> QED BY <1>3, <1>4 DEF Says, Other

LEMMA CallsSame ==
  ASSUME file' = file
  PROVE  (\A x \in Command : ClientCalls(x)' = ClientCalls(x)) /\ PutCalls' = PutCalls
BY DEF ClientCalls, PutCalls

LEMMA UnseenTransfer ==
  ASSUME Unseen, NEW p \in Peer, NEW a, NEW D, TransferOf(p, a, D)
  PROVE  TransferOf(p, a, D)'
<1>1. /\ Left(p)' = Left(p) /\ Left(Other(p))' = Left(Other(p)) /\ Coming(p)' \subseteq Coming(p)
      /\ NextPair(p)' = NextPair(p) /\ calls' = calls /\ accepted' = accepted /\ got' = got
  BY Peers DEF Unseen
<1> DEFINE o == Other(p)
           r == calls[p] - accepted[o]
           g == Len(got)
<1>2. Left(o)' = Receives(o, a, D) /\ Heard(o)' BY <1>1 DEF TransferOf, Heard, Other
<1>3. /\ a = 1 => D = Chunks /\ Len(got') = 0
      /\ a + D <= r + Len(Left(p)') /\ (p = "client" => r + Len(Left(p)') = a + D)
      /\ \A i \in 1..Len(Left(p)') : ChunkCall(Left(p)'[i], r + i - a, D, Len(got'))
      /\ r + 1 - a = 0 => NextPair(p)' = 0
      /\ 1 <= r + 1 - a /\ r + 1 - a < D => NextPair(p)' = Len(got') + 2 * (r - a)
  BY <1>1 DEF TransferOf
<1>4. \A d \in Coming(p)' : ChunkPacket(d, d.id - accepted[o] - a, D, Len(got'))
  BY <1>1 DEF TransferOf
<1>5. Receives(o, a, D)' = Receives(o, a, D) BY DEF Receives
<1> QED BY <1>1, <1>2, <1>3, <1>4, <1>5 DEF TransferOf, Other, ChunkCall, ChunkPacket, Receives

LEMMA UnseenTalk ==
  ASSUME Unseen, Talk
  PROVE  Talk'
<1>1. /\ \A p \in Peer : /\ Left(p)' = Left(p) /\ NextPair(p)' = NextPair(p)
                         /\ Coming(p)' \subseteq Coming(p)
      /\ plan' = plan /\ file' = file /\ got' = got /\ deleted' = deleted /\ calls' = calls
      /\ accepted' = accepted
  BY DEF Unseen
<1>2. /\ "client" \in Peer /\ "server" \in Peer
      /\ Heard("client")' = Heard("client") /\ Heard("server")' = Heard("server")
  BY <1>1, Peers DEF Heard, Other
<1>3. \A x \in Command : ClientCalls(x)' = ClientCalls(x) BY <1>1, CallsSame
<1>4. PutCalls' = PutCalls BY <1>1, CallsSame
<1>5. Menu => Menu' BY <1>1, <1>2 DEF Menu, Greetings, Ready
<1>6. ASSUME NEW x \in Command, Asks(x) PROVE Asks(x)'
  <2>1. PICK t : t = Tail(ClientCalls(x)) OBVIOUS
  <2>2. t = Tail(ClientCalls(x)') BY <1>3, <2>1
  <2>3. PICK g \in Greetings : Says("client", udplastsend(x, 0), t, g) BY <1>6, <2>1 DEF Asks
  <2>4. Says("client", udplastsend(x, 0), t, g)' BY <2>3, <1>2, UnseenSays
  <2> QED BY <2>2, <2>3, <2>4 DEF Asks, Greetings, Ready
<1>7. ASSUME NEW x \in Command, Echoes(x) PROVE Echoes(x)'
  <2>1. PICK t : t = Tail(ClientCalls(x)) OBVIOUS
  <2>2. t = Tail(ClientCalls(x)') BY <1>3, <2>1
  <2>3. Says("server", udplastsend(x, 0), Only(Awaited(x)), t) BY <1>7, <2>1 DEF Echoes
  <2>4. Says("server", udplastsend(x, 0), Only(Awaited(x)), t)' BY <2>3, <1>2, UnseenSays
  <2> QED BY <2>2, <2>4 DEF Echoes
<1>8. ASSUME NEW x \in Command, GivesName(x) PROVE GivesName(x)'
  BY <1>8, <1>2, UnseenSays DEF GivesName
<1>9. Lists => Lists'
  <2>1. "LIST" \in Command BY DEF Command
  <2>2. ClientCalls("LIST")' = ClientCalls("LIST") BY <1>3, <2>1
  <2> QED BY <1>1, <1>2, <2>2 DEF Lists, Listing, Only, Ready
<1>10. ASSUME Judges PROVE Judges'
  <2>1. CASE /\ Left("client") = Only("verdict") /\ Left("server") = Ready
             /\ Heard("client") /\ Heard("server")
    BY <2>1, <1>1, <1>2 DEF Judges, Ready
  <2>2. CASE \E v \in {"@", "#"} :
               Says("server", udplastsend(v, 0), Ready, Only("verdict")) /\ (v = "@" => deleted)
    <3>1. PICK v \in {"@", "#"} :
               Says("server", udplastsend(v, 0), Ready, Only("verdict")) /\ (v = "@" => deleted)
      BY <2>2
    <3>2. Says("server", udplastsend(v, 0), Ready, Only("verdict"))' BY <3>1, <1>2, UnseenSays
    <3> QED BY <1>1, <3>1, <3>2 DEF Judges
  <2> QED BY <1>10, <2>1, <2>2 DEF Judges
<1>11. Refuses => Refuses' BY <1>2, UnseenSays DEF Refuses
<1>12. ASSUME Announces PROVE Announces'
  <2>1. PICK t : t = Tail(PutCalls) OBVIOUS
  <2>2. t = Tail(PutCalls') BY <1>4, <2>1
  <2>3. file.exists /\ Says("client", udplastsend("info", Chunks), t, Only("putinfo"))
    BY <1>12, <2>1 DEF Announces
  <2>4. Says("client", udplastsend("info", Chunks), t, Only("putinfo"))' BY <2>3, <1>2, UnseenSays
  <2> QED BY <1>1, <2>2, <2>3, <2>4 DEF Announces
<1>13. ASSUME Agrees PROVE Agrees'
  <2>1. PICK t : t = Tail(PutCalls) OBVIOUS
  <2>2. t = Tail(PutCalls') BY <1>4, <2>1
  <2>3. file.exists /\ Says("server", udplastsend("answer", 0), Only("putinfo2"), t)
    BY <1>13, <2>1 DEF Agrees
  <2>4. Says("server", udplastsend("answer", 0), Only("putinfo2"), t)' BY <2>3, <1>2, UnseenSays
  <2> QED BY <1>1, <2>2, <2>3, <2>4 DEF Agrees
<1>14. ASSUME Transfers PROVE Transfers'
  <2>1. PICK p \in Peer, a \in 0..1, D \in 1..Chunks : TransferOf(p, a, D) BY <1>14 DEF Transfers
  <2>2. TransferOf(p, a, D)' BY <2>1, UnseenTransfer
  <2> QED BY <2>2 DEF Transfers
<1>15. Finished => Finished' BY <1>1, <1>2 DEF Finished
<1>16. Command = {"LIST", "GET", "PUT", "DEL"} BY DEF Command
<1>17. CASE /\ got = <<>>
            /\ \/ Menu \/ Asks("LIST") \/ Lists
               \/ Asks("DEL") \/ Echoes("DEL") \/ GivesName("DEL") \/ Judges
  BY <1>1, <1>5, <1>6, <1>7, <1>8, <1>9, <1>10, <1>16, <1>17 DEF Talk
<1>18. CASE /\ plan = <<>> /\ got = <<>>
            /\ \/ Asks("GET") \/ Echoes("GET") \/ GivesName("GET") \/ Refuses
               \/ /\ NextPair("client") = 0
                  /\ Asks("PUT") \/ Echoes("PUT") \/ Announces \/ Agrees
  BY <1>1, <1>2, <1>6, <1>7, <1>8, <1>11, <1>12, <1>13, <1>16, <1>18 DEF Talk
<1>19. CASE plan = <<>> /\ (Transfers \/ Finished)
  BY <1>1, <1>14, <1>15, <1>19 DEF Talk
<1> QED BY <1>17, <1>18, <1>19 DEF Talk

-------------------------------------------------------------------------------
\* p begins a send.
Begins(p) ==
  LET o == Other(p)
      c == Head(Left(p))
  IN /\ Left(p) # <<>> /\ c.op \in Sends
     /\ UNCHANGED <<plan, file, got, deleted, told, accepted>>
     /\ calls'[p] = calls[p] + 1 /\ calls'[o] = calls[o]
     /\ Left(p)' = Tail(Left(p)) /\ Left(o)' = Left(o)
     /\ NextPair(p)' = (IF c.op = "sendPair" THEN NextPair(p) + 2 ELSE NextPair(p))
     /\ NextPair(o)' = NextPair(o)
     /\ Coming(o)' \subseteq Coming(o)
     /\ Coming(p)' \subseteq Coming(p) \cup
          IF c.op = "send" THEN LastCopies(c, Send_Seq[p], calls[p] + 1)
                           ELSE PairCopies(c, NextPair(p), calls[p] + 1)

LEMMA SendBegins ==
  ASSUME IInv, NEW p \in Peer, SendLast(p) \/ SendPair(p)
  PROVE  Begins(p)
<1> DEFINE o == Other(p)
           c == Head(Left(p))
           New == IF c.op = "send" THEN LastCopies(c, Send_Seq[p], calls[p] + 1)
                                   ELSE PairCopies(c, NextPair(p), calls[p] + 1)
<1>1. /\ script[p] # <<>> /\ Head(script[p]).op \in Sends /\ stage[p] = "none" /\ Reading(p)
      /\ stage' = [stage EXCEPT ![p] = "resending"] /\ calls' = [calls EXCEPT ![p] = calls[p] + 1]
      /\ UNCHANGED <<plan, file, got, deleted, told, accepted, script, Send_temp_Seq, Send_Seq>>
  BY DEF SendLast, SendPair, InCall, Sends, given, seqs, files, Reading
<1>2. o \in Peer /\ o # p /\ Other(o) = p BY Peers
<1>3. stage \in [Peer -> Stage] /\ calls \in [Peer -> Nat] /\ accepted \in [Peer -> Nat]
  BY DEF IInv, Stages, Counters
<1>4. /\ stage'[p] = "resending" /\ stage'[o] = stage[o]
      /\ calls'[p] = calls[p] + 1 /\ calls'[o] = calls[o]
  BY <1>1, <1>2, <1>3
<1>5. Left(p) = script[p] /\ Left(p)' = Tail(script[p]) /\ NextPair(p) = Send_temp_Seq[p]
  BY <1>1, <1>4 DEF Left, NextPair
<1>6. NextPair(p)' = (IF c.op = "sendPair" THEN NextPair(p) + 2 ELSE NextPair(p))
  BY <1>1, <1>4, <1>5 DEF NextPair
<1>7. Left(o)' = Left(o) /\ NextPair(o)' = NextPair(o) /\ Copies(o)' = Copies(o)
  BY <1>1, <1>4 DEF Left, NextPair, Copies
<1>8. Copies(p)' = New BY <1>1, <1>4, <1>5 DEF Copies
<1>9. \E q : outbox' = [outbox EXCEPT ![p] = q] /\ \A d \in Elems(q) : d \in New
  <2>1. CASE SendLast(p)
    <3>1. outbox' = [outbox EXCEPT ![p] = <<Packet(p)>>] /\ c.op = "send"
      BY <2>1, <1>5 DEF SendLast, InCall
    <3>2. Packet(p) \in New BY <1>4, <1>5, <3>1 DEF Packet, LastCopies
    <3> QED BY <3>1, <3>2, ElemsOfOne
  <2>2. CASE SendPair(p)
    <3> DEFINE q == Pair(p)
    <3>1. outbox' = [outbox EXCEPT ![p] = q] /\ c.op = "sendPair"
      BY <2>2, <1>5 DEF SendPair, InCall
    <3>2. \A h \in 1..2 : q[h] \in New BY <1>4, <1>5, <3>1 DEF Pair, PairCopies
    <3>3. q = [h \in 1..2 |-> q[h]] BY DEF Pair
    <3> HIDE DEF q, New
    <3>4. \A d \in Elems(q) : \E h \in 1..2 : d = q[h] BY <3>3, ElemsOfPair
    <3>5. \A d \in Elems(q) : d \in New BY <3>2, <3>4
    <3> QED BY <3>1, <3>5
  <2> QED BY <2>1, <2>2
<1> HIDE DEF New
<1>10. PICK q : outbox' = [outbox EXCEPT ![p] = q] /\ \A d \in Elems(q) : d \in New BY <1>9
<1>11. outbox'[p] = q /\ outbox'[o] = outbox[o] BY <1>2, <1>10 DEF IInv, OnTheWay
<1>12. \A r \in Peer : /\ accepted[Other(r)] \in Nat /\ accepted'[Other(r)] \in Nat
                       /\ accepted[Other(r)] <= accepted'[Other(r)]
  BY <1>1, <1>3, Peers
<1>13. Coming(p)' \subseteq Coming(p) \cup New
  <2>1. Copies(p)' \subseteq New BY <1>8
  <2>2. \A d \in Elems(outbox'[p]) : d.id = 0 \/ d \in Elems(outbox[p]) \/ d \in New
    BY <1>10, <1>11
  <2>3. \A d \in Coming(p)' : d \in Coming(p) \/ d \in New
    BY <1>1, <1>12, <2>1, <2>2, ComingGrows DEF IInv
  <2> QED BY <2>3
<1>14. Coming(o)' \subseteq Coming(o)
  <2> DEFINE Old == Copies(o)
  <2>1. Copies(o)' \subseteq Old BY <1>7
  <2>2. \A d \in Elems(outbox'[o]) : d.id = 0 \/ d \in Elems(outbox[o]) \/ d \in Old BY <1>11
  <2> HIDE DEF Old
  <2>3. \A d \in Coming(o)' : d \in Coming(o) \/ d \in Old
    <3> HIDE DEF o
    <3> QED BY <1>1, <1>2, <1>12, <2>1, <2>2, ComingGrows DEF IInv
  <2>4. ASSUME NEW d \in Coming(o)', d \in Old PROVE d \in Coming(o)
    <3>1. d.id > accepted[Other(o)] BY <1>1 DEF Coming, Other
    <3> QED BY <3>1, <2>4 DEF Coming, Old
  <2> QED BY <2>3, <2>4
<1> QED BY <1>1, <1>4, <1>5, <1>6, <1>7, <1>13, <1>14 DEF Begins, New

\* p returns the packet d, which is the next one sent to it.
Hears(p, d) ==
  LET o == Other(p)
  IN /\ Left(p) = script[p] /\ script[p] # <<>> /\ d \in Coming(o) /\ d.id = accepted[p] + 1
     /\ UNCHANGED <<plan, file, calls>> /\ accepted'[p] = d.id /\ accepted'[o] = accepted[o]
     /\ Left(o)' = Left(o) /\ NextPair(o)' = NextPair(o)
     /\ Coming(p)' \subseteq Coming(p) /\ Coming(o)' \subseteq Coming(o)

LEMMA ReceivesNext ==
  ASSUME IInv, NEW p \in Peer, script[p] # <<>>, Head(script[p]).op \notin Sends, Reading(p),
         NEW d \in Elems(Incoming(p)), Note(p, d.id), "misread" \notin slips',
         NEW s, script' = [script EXCEPT ![p] = s],
         \/ Send_temp_Seq' = Send_temp_Seq \/ Send_temp_Seq' = [Send_temp_Seq EXCEPT ![p] = 0],
         NEW q, outbox' = [outbox EXCEPT ![p] = q], \A e \in Elems(q) : e.id = 0,
         UNCHANGED <<plan, file, stage, Send_Seq, calls>>
  PROVE  Hears(p, d) /\ Left(p)' = s /\ NextPair(p)' = Send_temp_Seq'[p] /\ NextPair(p) = Send_temp_Seq[p]
<1> DEFINE o == Other(p)
<1>1. o \in Peer /\ o # p /\ Other(o) = p BY Peers
<1>2. stage[p] = "none" BY NotSending DEF IInv
<1>3. /\ script \in [Peer -> Seq(Call)] /\ Send_temp_Seq \in [Peer -> PairSeq]
      /\ accepted \in [Peer -> Nat] /\ calls \in [Peer -> Nat]
  BY DEF IInv, Scripts, Counters
<1>4. d.id = accepted[p] + 1 BY DEF Note
<1>5. accepted'[p] = d.id /\ accepted'[o] = accepted[o]
  <2>1. accepted[p] + 1 > accepted[p] BY <1>3
  <2> QED BY <1>1, <1>3, <1>4, <2>1 DEF Note
<1>6. d \in Coming(o)
  <2>1. d \in Way(o) BY <1>1 DEF Way, InLink
  <2>2. d.id > accepted[p] BY <1>3, <1>4
  <2> QED BY <1>1, <2>1, <2>2 DEF Coming
<1>7. script'[p] = s /\ script'[o] = script[o] BY <1>1, <1>3
<1>8. Left(p) = script[p] /\ Left(p)' = s /\ NextPair(p)' = Send_temp_Seq'[p]
      /\ NextPair(p) = Send_temp_Seq[p] /\ Copies(p)' = {}
  BY <1>2, <1>7 DEF Left, NextPair, Copies
<1>9. Send_temp_Seq'[o] = Send_temp_Seq[o] BY <1>1, <1>3
<1>10. Left(o)' = Left(o) /\ NextPair(o)' = NextPair(o) /\ Copies(o)' = Copies(o)
  BY <1>7, <1>9 DEF Left, NextPair, Copies
<1>11. outbox'[p] = q /\ outbox'[o] = outbox[o] BY <1>1 DEF IInv, OnTheWay
<1>12. \A r \in Peer : /\ accepted[Other(r)] \in Nat /\ accepted'[Other(r)] \in Nat
                       /\ accepted[Other(r)] <= accepted'[Other(r)]
  <2>1. /\ accepted[p] \in Nat /\ accepted'[p] \in Nat /\ accepted[p] <= accepted'[p]
        /\ accepted[o] \in Nat /\ accepted'[o] \in Nat /\ accepted[o] <= accepted'[o]
    BY <1>1, <1>3, <1>4, <1>5
  <2> QED BY <1>1, <2>1, Peers
<1>13. ASSUME NEW r \in Peer, Copies(r)' \subseteq Copies(r),
              \A e \in Elems(outbox'[r]) : e.id = 0 \/ e \in Elems(outbox[r])
       PROVE  Coming(r)' \subseteq Coming(r)
  <2> DEFINE Old == Copies(r)
  <2>1. Copies(r)' \subseteq Old BY <1>13
  <2> HIDE DEF Old
  <2>2. \A e \in Elems(outbox'[r]) : e.id = 0 \/ e \in Elems(outbox[r]) \/ e \in Old BY <1>13
  <2>3. \A e \in Coming(r)' : e \in Coming(r) \/ e \in Old
    BY <1>12, <2>1, <2>2, ComingGrows DEF IInv
  <2>4. ASSUME NEW e \in Coming(r)', e \in Old PROVE e \in Coming(r)
    <3>1. e \in Way(r)' \cup Copies(r)' /\ e.id > accepted'[Other(r)] BY DEF Coming, Other
    <3>2. e.id = calls[r] BY <2>4 DEF Old, Copies, LastCopies, PairCopies
    <3>3. calls[r] \in Nat BY <1>3
    <3>4. e.id > accepted[Other(r)] BY <1>12, <3>1, <3>2, <3>3
    <3> QED BY <3>4, <2>4 DEF Coming, Old
  <2> QED BY <2>3, <2>4
<1>14. Coming(p)' \subseteq Coming(p) BY <1>8, <1>11, <1>13
<1>15. Coming(o)' \subseteq Coming(o) BY <1>1, <1>10, <1>11, <1>13
<1> QED BY <1>4, <1>5, <1>6, <1>8, <1>10, <1>14, <1>15 DEF Hears

\* udplastrecv returns d, and what that does.
Accepts(p, d) ==
  LET use == Head(script[p]).kind
  IN /\ Hears(p, d) /\ Head(script[p]).op = "recv" /\ Left(p)' \in NextCalls(p, d)
     /\ NextPair(p)' = (IF use = "getname" THEN 0 ELSE NextPair(p))
     /\ got' = (IF use = "chunk" THEN Append(got, Write(d)) ELSE got)
     /\ deleted' = (deleted \/ (use = "delname" /\ Deletes(d)))
     /\ told' = IF use = "verdict" THEN IF d.kind = "#" THEN "missing" ELSE "deleted" ELSE told

LEMMA AcceptSeen ==
  ASSUME IInv, NEW p \in Peer, Accept(p), "misread" \notin slips'
  PROVE  \E d \in Datagram : Accepts(p, d) /\ (d.kind = "info" => d.n = Chunks)
<1> DEFINE d   == Head(Incoming(p))
           use == Head(script[p]).kind
           q   == <<Answer(p, "ack", ackSeq[p])>>
<1>1. /\ script[p] # <<>> /\ Head(script[p]).op = "recv" /\ Incoming(p) # <<>> /\ Reading(p)
      /\ outbox' = [outbox EXCEPT ![p] = q]
      /\ \E s \in NextCalls(p, d) : script' = [script EXCEPT ![p] = s]
      /\ Note(p, d.id)
      /\ UNCHANGED <<plan, file, stage, Send_Seq, calls>>
  BY DEF Accept, InCall, given, Reading
<1>2. /\ Send_temp_Seq' = (IF use = "getname" THEN [Send_temp_Seq EXCEPT ![p] = 0] ELSE Send_temp_Seq)
      /\ got' = (IF use = "chunk" THEN Append(got, Write(d)) ELSE got)
      /\ deleted' = (deleted \/ (use = "delname" /\ Deletes(d)))
      /\ told' = IF use = "verdict" THEN IF d.kind = "#" THEN "missing" ELSE "deleted" ELSE told
  BY DEF Accept
<1>3. d \in Datagram /\ (d.kind = "info" => d.n = Chunks) BY <1>1, ComesIn DEF IInv
<1>4. d \in Elems(Incoming(p))
  <2>1. Incoming(p) \in Seq(Made(calls[Other(p)])) BY DEF IInv, OnTheWay
  <2> QED BY <1>1, <2>1, ElemsOf
<1>5. \A e \in Elems(q) : e.id = 0
  <2>1. Answer(p, "ack", ackSeq[p]).id = 0 BY DEF Answer
  <2> QED BY <2>1, ElemsOfOne
<1>6. "recv" \notin Sends BY DEF Sends
<1> HIDE DEF d, q
<1>7. PICK s \in NextCalls(p, d) : script' = [script EXCEPT ![p] = s] BY <1>1
<1>8. Hears(p, d) /\ Left(p)' = s /\ NextPair(p)' = Send_temp_Seq'[p] /\ NextPair(p) = Send_temp_Seq[p]
  <2>1. Send_temp_Seq' = Send_temp_Seq \/ Send_temp_Seq' = [Send_temp_Seq EXCEPT ![p] = 0] BY <1>2
  <2>2. Head(script[p]).op \notin Sends BY <1>1, <1>6
  <2> HIDE DEF use
  <2> QED BY <1>1, <1>4, <1>5, <1>7, <2>1, <2>2, ReceivesNext
<1>9. NextPair(p)' = (IF use = "getname" THEN 0 ELSE NextPair(p))
  <2>1. Send_temp_Seq \in [Peer -> PairSeq] BY DEF IInv, Scripts
  <2> HIDE DEF use
  <2> QED BY <1>2, <1>8, <2>1
<1>10. Accepts(p, d) BY <1>1, <1>2, <1>7, <1>8, <1>9 DEF Accepts
<1> QED BY <1>3, <1>10

\* udprecv returns the halves d and e of a pair.
AcceptsPair(p, d, e) ==
  /\ Hears(p, d) /\ e \in Coming(Other(p)) /\ e.id = d.id /\ e.seqNo = d.seqNo + 1
  /\ Head(script[p]).op = "recvPair" /\ Left(p)' = Tail(script[p]) /\ NextPair(p)' = NextPair(p)
  /\ got' = got \o <<Write(d), Write(e)>> /\ UNCHANGED <<deleted, told>>

LEMMA AcceptPairSeen ==
  ASSUME IInv, NEW p \in Peer, AcceptPair(p), "misread" \notin slips'
  PROVE  \E d, e \in Datagram : AcceptsPair(p, d, e)
<1> DEFINE d == Incoming(p)[1]
           e == Incoming(p)[2]
           q == AnswerPair(p, "ACK")
<1>1. /\ script[p] # <<>> /\ Head(script[p]).op = "recvPair" /\ ReadTwo(p) /\ Reading(p)
      /\ outbox' = [outbox EXCEPT ![p] = q]
      /\ script' = [script EXCEPT ![p] = Tail(script[p])]
      /\ got' = got \o [h \in 1..2 |-> Write(Incoming(p)[h])]
      /\ Note(p, IF d.id = e.id THEN d.id ELSE 0)
      /\ e.seqNo = rec_temp_seq[p] + 1 /\ d.seqNo = rec_temp_seq[p]
      /\ UNCHANGED <<plan, file, stage, Send_Seq, calls, Send_temp_Seq, deleted, told>>
  BY DEF AcceptPair, InCall, given, HaveNumbers, Reading
<1>2. Len(Incoming(p)) >= 2 BY <1>1 DEF ReadTwo
<1>3. d \in Datagram /\ e \in Datagram
  <2>1. 1 \in 1..2 /\ 2 \in 1..2 OBVIOUS
  <2> QED BY <1>2, <2>1, TwoComeIn DEF IInv
<1>4. d \in Elems(Incoming(p)) /\ e \in Elems(Incoming(p))
  <2>1. Incoming(p) \in Seq(Made(calls[Other(p)])) BY DEF IInv, OnTheWay
  <2> QED BY <1>2, <2>1, ElemsOfTwo
<1>5. \A x \in Elems(q) : x.id = 0
  <2>1. \A h \in 1..2 : q[h].id = 0 BY DEF AnswerPair, Answer
  <2>2. q = [h \in 1..2 |-> q[h]] BY DEF AnswerPair
  <2> HIDE DEF q
  <2>3. \A x \in Elems(q) : \E h \in 1..2 : x = q[h] BY <2>2, ElemsOfPair
  <2> QED BY <2>1, <2>3
<1>6. got' = got \o <<Write(d), Write(e)>>
  <2>1. [h \in 1..2 |-> Write(Incoming(p)[h])] = <<Write(d), Write(e)>> BY DEF Write
  <2> QED BY <1>1, <2>1
<1>7. d.id = e.id /\ Note(p, d.id)
  <2>1. accepted[p] \in Nat BY DEF IInv, Counters
  <2>2. 0 # accepted[p] + 1 BY <2>1
  <2> HIDE DEF d, e
  <2> QED BY <1>1, <2>2 DEF Note
<1>8. "recvPair" \notin Sends BY DEF Sends
<1> HIDE DEF d, e, q
<1>9. /\ Hears(p, d) /\ Left(p)' = Tail(script[p]) /\ NextPair(p)' = Send_temp_Seq'[p]
      /\ NextPair(p) = Send_temp_Seq[p]
  <2> DEFINE s == Tail(script[p])
  <2>1. script' = [script EXCEPT ![p] = s] /\ Head(script[p]).op \notin Sends BY <1>1, <1>8
  <2>2. /\ script[p] # <<>> /\ Reading(p) /\ outbox' = [outbox EXCEPT ![p] = q]
        /\ UNCHANGED <<plan, file, stage, Send_Seq, calls>>
        /\ Send_temp_Seq' = Send_temp_Seq \/ Send_temp_Seq' = [Send_temp_Seq EXCEPT ![p] = 0]
    BY <1>1
  <2> HIDE DEF s
  <2>3. Hears(p, d) /\ Left(p)' = s /\ NextPair(p)' = Send_temp_Seq'[p] /\ NextPair(p) = Send_temp_Seq[p]
    BY <1>4, <1>5, <1>7, <2>1, <2>2, ReceivesNext
  <2> QED BY <2>3 DEF s
<1>10. e \in Coming(Other(p))
  <2>1. e \in Way(Other(p)) BY <1>4, Peers DEF Way, InLink
  <2>2. e.id > accepted[p]
    <3>1. accepted[p] \in Nat /\ e.id = accepted[p] + 1 BY <1>7, <1>9 DEF Hears, IInv, Counters
    <3> QED BY <3>1
  <2> QED BY <2>1, <2>2, Peers DEF Coming
<1>11. AcceptsPair(p, d, e) BY <1>1, <1>6, <1>7, <1>9, <1>10 DEF AcceptsPair
<1> QED BY <1>3, <1>11

-------------------------------------------------------------------------------
LEMMA NothingComes ==
  ASSUME IInv, NEW p \in Peer, Heard(p)
  PROVE  Coming(p) = {}
<1> SUFFICES ASSUME NEW d \in Coming(p) PROVE FALSE
  OBVIOUS
<1>1. accepted[Other(p)] < d.id /\ d.id <= calls[p] /\ d.id \in Nat /\ calls[p] \in Nat
  BY ComingIds DEF IInv
<1> QED BY <1>1 DEF Heard

\* Only p may send when it is p's turn to say a, and it says a.
LEMMA BeginsSays ==
  ASSUME IInv, NEW q \in Peer, Begins(q), NEW p \in Peer, NEW a \in Call, NEW left \in Seq(Call), NEW to,
         Says(p, a, left, to), to # <<>> /\ Head(to).op \notin Sends,
         left = <<>> \/ Head(left).op \notin Sends, a.kind # "last"
  PROVE  /\ Says(p, a, left, to)' /\ NextPair(Other(p))' = NextPair(Other(p))
         /\ a.op = "send" => NextPair(p)' = NextPair(p)
<1> DEFINE o == Other(p)
<1>1. Left(o) = to /\ Heard(o) /\ o \in Peer BY Peers DEF Says
<1>2. q = p
  <2>1. q # o BY <1>1 DEF Begins
  <2> QED BY <2>1, Peers
<1>3. Left(p) = <<a>> \o left /\ Heard(p)
  <2>1. Left(p) # left BY <1>2 DEF Begins
  <2> QED BY <2>1 DEF Says
<1>4. Head(<<a>> \o left) = a /\ Tail(<<a>> \o left) = left OBVIOUS
<1>5. /\ Left(p)' = left /\ Left(o)' = to /\ calls'[p] = calls[p] + 1 /\ calls'[o] = calls[o]
      /\ accepted' = accepted /\ NextPair(o)' = NextPair(o)
      /\ NextPair(p)' = (IF a.op = "sendPair" THEN NextPair(p) + 2 ELSE NextPair(p))
      /\ Coming(p)' \subseteq Coming(p) \cup
          IF a.op = "send" THEN LastCopies(a, Send_Seq[p], calls[p] + 1)
                           ELSE PairCopies(a, NextPair(p), calls[p] + 1)
  BY <1>1, <1>2, <1>3, <1>4 DEF Begins
<1>6. Heard(o)' BY <1>1, <1>5 DEF Heard, Other
<1>7. Said(p, a.kind)'
  <2>1. calls'[p] = accepted'[o] + 1 BY <1>3, <1>5 DEF Heard
  <2>2. Coming(p) = {} BY <1>3, NothingComes
  <2>3. ASSUME NEW d \in Coming(p)' PROVE d.kind = a.kind
    BY <1>5, <2>2 DEF LastCopies, PairCopies
  <2> QED BY <2>1, <2>3 DEF Said, Other
<1>8. Says(p, a, left, to)' BY <1>5, <1>6, <1>7 DEF Says, Other
<1> QED BY <1>5, <1>8

\* Only the other side may return a packet, and it is the one p has said.
LEMMA HearsSays ==
  ASSUME IInv, NEW q \in Peer, NEW d, Hears(q, d), NEW p \in Peer, NEW a, NEW left, NEW to,
         Says(p, a, left, to)
  PROVE  /\ q = Other(p) /\ script[q] = to /\ Left(q) = to /\ d.kind = a.kind
         /\ Left(p)' = left /\ Heard(p)' /\ Heard(q)' /\ NextPair(p)' = NextPair(p)
<1> DEFINE o == Other(p)
<1>1. Left(o) = to /\ Heard(o) /\ o \in Peer /\ o # p /\ Other(o) = p BY Peers DEF Says
<1>2. q = o
  <2>1. ASSUME q = p PROVE FALSE
    <3>1. d \in Coming(o) BY <2>1 DEF Hears
    <3> QED BY <1>1, <3>1, NothingComes
  <2> QED BY <2>1, Peers
<1>3. /\ script[o] = to /\ d \in Coming(p) /\ d.id = accepted[o] + 1 /\ calls' = calls
      /\ accepted'[o] = d.id /\ accepted'[p] = accepted[p] /\ Left(p)' = Left(p)
      /\ NextPair(p)' = NextPair(p)
  BY <1>1, <1>2 DEF Hears
<1>4. ~Heard(p) BY <1>3, NothingComes
<1>5. Left(p) = left /\ Said(p, a.kind) BY <1>4 DEF Says
<1>6. d.kind = a.kind /\ calls[p] = accepted[o] + 1 BY <1>3, <1>5 DEF Said
<1>7. Heard(p)' BY <1>3, <1>6 DEF Heard, Other
<1>8. Heard(o)' BY <1>1, <1>3 DEF Heard, Other
<1> QED BY <1>1, <1>2, <1>3, <1>5, <1>6, <1>7, <1>8

-------------------------------------------------------------------------------
\* What the scripts look like.
LEMMA Begun ==
  ASSUME NEW S, NEW a \in S, NEW r \in Seq(S)
  PROVE  /\ <<a>> \o r \in Seq(S) /\ <<a>> \o r # <<>>
         /\ Head(<<a>> \o r) = a /\ Tail(<<a>> \o r) = r
OBVIOUS

LEMMA TwoBefore ==
  ASSUME NEW S, NEW a \in S, NEW b \in S, NEW r \in Seq(S)
  PROVE  <<a, b>> \o r = <<a>> \o (<<b>> \o r)
<1>1. <<a>> \in Seq(S) /\ <<b>> \in Seq(S) BY OneOf
<1>2. <<a, b>> = <<a>> \o <<b>>
  <2>1. Len(<<a>> \o <<b>>) = 2 /\ (<<a>> \o <<b>>)[1] = a /\ (<<a>> \o <<b>>)[2] = b
        /\ <<a>> \o <<b>> \in Seq(S)
    OBVIOUS
  <2>2. <<a, b>> \in Seq(S) /\ Len(<<a, b>>) = 2 OBVIOUS
  <2>3. \A i \in 1..2 : (<<a>> \o <<b>>)[i] = <<a, b>>[i]
    <3>1. 1..2 = {1, 2} OBVIOUS
    <3> QED BY <2>1, <3>1
  <2> QED BY <2>1, <2>2, <2>3, SeqEqual
<1> QED BY <1>1, <1>2, ConcatAssociative

\* A side that only has to receive a message.
LEMMA OnlyIs ==
  /\ \A u : /\ Only(u) # <<>> /\ Head(Only(u)) = udplastrecv(u) /\ Tail(Only(u)) = <<>>
            /\ udplastrecv(u).op = "recv" /\ udplastrecv(u).kind = u
            /\ Len(Only(u)) = 1 /\ Only(u)[1] = udplastrecv(u)
  /\ \A u \in Use : Only(u) \in Seq(Call) /\ udplastrecv(u) \in Call
  /\ "recv" \notin Sends /\ "recvPair" \notin Sends /\ "handshake" \notin Sends
<1>1. \A u : Only(u) = <<udplastrecv(u)>> /\ Head(<<udplastrecv(u)>>) = udplastrecv(u)
             /\ Tail(<<udplastrecv(u)>>) = <<>> /\ <<udplastrecv(u)>> # <<>>
             /\ Len(<<udplastrecv(u)>>) = 1 /\ <<udplastrecv(u)>>[1] = udplastrecv(u)
  BY DEF Only
<1>2. \A u : udplastrecv(u).op = "recv" /\ udplastrecv(u).kind = u BY DEF udplastrecv
<1>3. \A u \in Use : udplastrecv(u) \in Call BY DEF udplastrecv, Call
<1>4. ASSUME NEW u \in Use PROVE Only(u) \in Seq(Call) BY <1>1, <1>3, OneOf
<1> QED BY <1>1, <1>2, <1>3, <1>4 DEF Sends

\* The messages of the two programs.
LEMMA SaidCalls ==
  /\ \A x \in Command \cup {"name", "answer", "@", "#"} :
       /\ udplastsend(x, 0) \in Call /\ udplastsend(x, 0).op = "send" /\ udplastsend(x, 0).kind = x
       /\ x # "last"
  /\ udplastsend("info", Chunks) \in Call /\ udplastsend("info", Chunks).op = "send"
  /\ udplastsend("info", Chunks).kind = "info"
  /\ udpsend("nofile", 1) \in Call /\ udpsend("nofile", 1).op = "sendPair"
  /\ udpsend("nofile", 1).kind = "nofile"
<1>1. PlainCall \subseteq Call BY PlainSubset
<1>2. \A k, n : udplastsend(k, n).op = "send" /\ udplastsend(k, n).kind = k BY DEF udplastsend
<1>3. "last" \notin Command \cup {"name", "answer", "@", "#"} BY DEF Command
<1>4. udpsend("nofile", 1) \in Call BY Names DEF udpsend, Call, Sends
<1>5. udpsend("nofile", 1).op = "sendPair" /\ udpsend("nofile", 1).kind = "nofile" BY DEF udpsend
<1> QED BY <1>1, <1>2, <1>3, <1>4, <1>5, PlainCalls

LEMMA ClientScript ==
  ASSUME NEW x \in Command
  PROVE  /\ ClientCalls(x) = <<udplastsend(x, 0)>> \o Tail(ClientCalls(x))
         /\ Tail(ClientCalls(x)) \in Seq(Call) /\ Tail(ClientCalls(x)) # <<>>
         /\ Head(Tail(ClientCalls(x))) = udplastrecv("echo")
         /\ x = "LIST" => Tail(Tail(ClientCalls(x))) = Only("entry")
         /\ x = "GET"  => Tail(Tail(ClientCalls(x))) = <<udplastsend("name", 0)>> \o Only("info")
         /\ x = "DEL"  => Tail(Tail(ClientCalls(x))) = <<udplastsend("name", 0)>> \o Only("verdict")
<1> DEFINE a == udplastsend(x, 0)
           b == udplastrecv("echo")
           n == udplastsend("name", 0)
           y == CASE x = "LIST" -> <<udplastrecv("entry")>>
                  [] x = "GET"  -> <<udplastsend("name", 0), udplastrecv("info")>>
                  [] x = "DEL"  -> <<udplastsend("name", 0), udplastrecv("verdict")>>
                  [] x = "PUT"  -> IF ~file.exists THEN <<>>
                                   ELSE <<udplastsend("info", Chunks), udplastrecv("answer"),
                                          udplastsend("info", Chunks)>> \o SendChunks("last")
<1>1. a \in Call /\ b \in Call /\ n \in Call BY SaidCalls, OnlyIs, Names
<1>2. ClientCalls(x) = <<a, b>> \o y BY DEF ClientCalls
<1>3. y \in Seq(Call)
  <2>1. CASE x = "LIST"
    <3>1. y = Only("entry") BY <2>1 DEF Only
    <3> QED BY <3>1, OnlyIs, Names
  <2>2. CASE x = "GET"
    <3>1. y = <<n, udplastrecv("info")>> BY <2>2
    <3>2. udplastrecv("info") \in Call BY OnlyIs, Names
    <3> HIDE DEF y, n
    <3> QED BY <3>1, <3>2, <1>1
  <2>3. CASE x = "DEL"
    <3>1. y = <<n, udplastrecv("verdict")>> BY <2>3
    <3>2. udplastrecv("verdict") \in Call BY OnlyIs, Names
    <3> HIDE DEF y, n
    <3> QED BY <3>1, <3>2, <1>1
  <2>4. CASE x = "PUT"
    <3>1. y = IF ~file.exists THEN <<>>
              ELSE <<udplastsend("info", Chunks), udplastrecv("answer"),
                     udplastsend("info", Chunks)>> \o SendChunks("last")
      BY <2>4
    <3>2. SendChunks("last") \in Seq(Call) BY SendChunksFits DEF Sending
    <3> DEFINE c == udplastsend("info", Chunks)
               e == udplastrecv("answer")
    <3>3. c \in Call /\ e \in Call BY SaidCalls, OnlyIs, Names
    <3> HIDE DEF y, c, e
    <3>4. <<c, e, c>> \in Seq(Call) BY <3>3
    <3>5. <<c, e, c>> \o SendChunks("last") \in Seq(Call) BY <3>2, <3>4, ConcatProperties
    <3>6. <<>> \in Seq(Call) OBVIOUS
    <3> QED BY <3>1, <3>5, <3>6 DEF c, e
  <2> QED BY <2>1, <2>2, <2>3, <2>4, Names
<1>4. /\ x = "LIST" => y = Only("entry")
      /\ x = "GET" => y = <<n>> \o Only("info")
      /\ x = "DEL" => y = <<n>> \o Only("verdict")
  <2>1. \A u \in Use : <<n, udplastrecv(u)>> = <<n>> \o Only(u) BY DEF Only
  <2>2. x = "LIST" => y = Only("entry") BY DEF Only
  <2>3. x = "GET" => y = <<n, udplastrecv("info")>> OBVIOUS
  <2>4. x = "DEL" => y = <<n, udplastrecv("verdict")>> OBVIOUS
  <2>5. "info" \in Use /\ "verdict" \in Use BY Names
  <2> HIDE DEF y, n
  <2> QED BY <2>1, <2>2, <2>3, <2>4, <2>5
<1> HIDE DEF y, a, b, n
<1>5. ClientCalls(x) = <<a>> \o (<<b>> \o y) BY <1>1, <1>2, <1>3, TwoBefore
<1>6. /\ <<b>> \o y \in Seq(Call) /\ <<b>> \o y # <<>> /\ Head(<<b>> \o y) = b
      /\ Tail(<<b>> \o y) = y
  BY <1>1, <1>3, Begun
<1>7. Tail(ClientCalls(x)) = <<b>> \o y BY <1>1, <1>5, <1>6, Begun
<1> QED BY <1>4, <1>5, <1>6, <1>7 DEF a, b, n

\* Those of a PUT after the answer, of which there are none for a missing file.
LEMMA PutScript ==
  /\ ~file.exists => PutCalls = <<>>
  /\ file.exists =>
       /\ PutCalls = <<udplastsend("info", Chunks)>> \o Tail(PutCalls)
       /\ Tail(PutCalls) \in Seq(Call) /\ Tail(PutCalls) # <<>>
       /\ Head(Tail(PutCalls)) = udplastrecv("answer")
       /\ Tail(Tail(PutCalls)) = <<udplastsend("info", Chunks)>> \o SendChunks("last")
<1> DEFINE a == udplastsend("PUT", 0)
           b == udplastrecv("echo")
           c == udplastsend("info", Chunks)
           e == udplastrecv("answer")
           f == SendChunks("last")
           y == IF ~file.exists THEN <<>> ELSE <<c, e, c>> \o f
<1>1. a \in Call /\ b \in Call /\ c \in Call /\ e \in Call BY SaidCalls, OnlyIs, Names
<1>2. f \in Seq(Call) BY SendChunksFits DEF Sending
<1>3. ClientCalls("PUT") = <<a, b>> \o y BY DEF ClientCalls
<1> HIDE DEF a, b, c, e, f
<1>4. <<c, e, c>> \o f = <<c>> \o (<<e>> \o (<<c>> \o f))
  <2>1. <<c, e, c>> = <<c, e>> \o <<c>> OBVIOUS
  <2>2. <<c, e>> \in Seq(Call) /\ <<c>> \in Seq(Call) BY <1>1
  <2>3. <<c, e, c>> \o f = <<c, e>> \o (<<c>> \o f) BY <2>1, <2>2, <1>2, ConcatAssociative
  <2>4. PICK z \in Seq(Call) : z = <<c>> \o f BY <1>1, <1>2, Begun
  <2>5. <<c, e>> \o z = <<c>> \o (<<e>> \o z) BY <1>1, TwoBefore
  <2> QED BY <2>3, <2>4, <2>5
<1>5. /\ <<c>> \o f \in Seq(Call) /\ <<e>> \o (<<c>> \o f) \in Seq(Call)
      /\ <<c>> \o (<<e>> \o (<<c>> \o f)) \in Seq(Call)
  BY <1>1, <1>2, Begun
<1>6. y \in Seq(Call)
  <2>1. <<>> \in Seq(Call) OBVIOUS
  <2> QED BY <2>1, <1>4, <1>5
<1>7. PutCalls = y
  <2> HIDE DEF y
  <2>1. ClientCalls("PUT") = <<a>> \o (<<b>> \o y) BY <1>1, <1>3, <1>6, TwoBefore
  <2>2. <<b>> \o y \in Seq(Call) /\ Tail(<<b>> \o y) = y BY <1>1, <1>6, Begun
  <2>3. Tail(ClientCalls("PUT")) = <<b>> \o y BY <1>1, <2>1, <2>2, Begun
  <2> QED BY <2>2, <2>3 DEF PutCalls
<1>8. ASSUME file.exists
      PROVE  /\ PutCalls = <<c>> \o Tail(PutCalls) /\ Tail(PutCalls) \in Seq(Call)
             /\ Tail(PutCalls) # <<>> /\ Head(Tail(PutCalls)) = e
             /\ Tail(Tail(PutCalls)) = <<c>> \o f
  <2>1. PutCalls = <<c>> \o (<<e>> \o (<<c>> \o f)) BY <1>4, <1>7, <1>8
  <2>2. Tail(PutCalls) = <<e>> \o (<<c>> \o f) BY <2>1, <1>1, <1>5, Begun
  <2>3. /\ <<e>> \o (<<c>> \o f) # <<>> /\ Head(<<e>> \o (<<c>> \o f)) = e
        /\ Tail(<<e>> \o (<<c>> \o f)) = <<c>> \o f
    BY <1>1, <1>5, Begun
  <2> QED BY <2>1, <2>2, <2>3, <1>5
<1>9. ~file.exists => PutCalls = <<>> BY <1>7
<1> QED BY <1>8, <1>9 DEF c, e, f

\* A file's length and the file, and what may follow them.
SendsFile(s) ==
  /\ s \in Seq(Call) /\ Len(s) >= Chunks + 1
  /\ \A i \in 1..Len(s) : ChunkCall(s[i], i - 1, Chunks, 0)

SendsOn(s) == \A i \in 1..Len(s) : s[i].op = "send" \/ s[i] = udplastrecv("command")

LEMMA FileScript ==
  ASSUME NEW last \in {"last", "cut"},
         NEW s, s = <<udplastsend("info", Chunks)>> \o SendChunks(last)
  PROVE  SendsFile(s) /\ Len(s) = Chunks + 1
<1> DEFINE a == udplastsend("info", Chunks)
           f == [k \in 1..(Chunks - 1) |-> udpsend("pair", 2 * k - 1)]
           z == udplastsend(last, 2 * Chunks - 1)
           t == SendChunks(last)
           u == <<a>> \o t
<1>1. Chunks \in Nat /\ Chunks - 1 \in Nat /\ Chunks > 0 BY Constants
<1>2. a.op = "send" /\ a.kind = "info" /\ z.op = "send" /\ z.kind = last /\ z.n = 2 * Chunks - 1
  BY DEF udplastsend
<1>3. \A k \in 1..(Chunks - 1) : f[k].op = "sendPair" /\ f[k].kind = "pair" /\ f[k].n = 2 * k - 1
  BY DEF udpsend
<1>4. f \in Seq(Call) /\ Len(f) = Chunks - 1
  <2>1. \A k \in 1..(Chunks - 1) : 2 * k - 1 \in Nat BY <1>1
  <2>2. \A n \in Nat : udpsend("pair", n) \in Call BY Names DEF udpsend, Call, Sends
  <2>3. f \in [1..(Chunks - 1) -> Call] BY <2>1, <2>2
  <2> HIDE DEF f
  <2> QED BY <2>3, <1>1, FunctionIsSeq
<1>5. a \in Call BY SaidCalls
<1>6. z \in Call
  <2>1. 2 * Chunks - 1 \in Nat BY <1>1
  <2>2. \A k \in Kind, n \in Nat : udplastsend(k, n) \in Call BY DEF udplastsend, Call, Sends
  <2> QED BY <2>1, <2>2, Names
<1>7. t = f \o <<z>> BY DEF SendChunks
<1>8. s = u OBVIOUS
<1> HIDE DEF a, f, z, t
<1>9. t \in Seq(Call) /\ Len(t) = Chunks
      /\ \A i \in 1..Len(t) : \/ i \in 1..(Chunks - 1) /\ t[i] = f[i]
                              \/ i = Chunks /\ t[i] = z
  <2>1. PICK y \in Seq(Call) : y = <<z>> /\ Len(y) = 1 /\ y[1] = z BY <1>6, OneOf
  <2>2. /\ t \in Seq(Call) /\ Len(t) = Len(f) + Len(y) /\ Len(f) \in Nat
        /\ \A i \in 1..Len(t) : \/ i \in 1..Len(f) /\ t[i] = f[i]
                                \/ i > Len(f) /\ i - Len(f) \in 1..Len(y) /\ t[i] = y[i - Len(f)]
    BY <1>4, <1>7, <2>1, Joined
  <2>3. Len(t) = Chunks BY <1>1, <1>4, <2>1, <2>2
  <2>4. ASSUME NEW i \in 1..Len(t), i > Len(f), i - Len(f) \in 1..Len(y), t[i] = y[i - Len(f)]
        PROVE  i = Chunks /\ t[i] = z
    <3>1. i \in Nat BY <2>3, <1>1
    <3>2. i - Len(f) = 1 BY <2>1, <2>4
    <3> QED BY <2>1, <2>4, <3>1, <3>2, <1>1, <1>4
  <2>5. ASSUME NEW i \in 1..Len(t)
        PROVE  \/ i \in 1..(Chunks - 1) /\ t[i] = f[i]
               \/ i = Chunks /\ t[i] = z
    <3>1. CASE i \in 1..Len(f) /\ t[i] = f[i] BY <3>1, <1>4
    <3>2. CASE i > Len(f) /\ i - Len(f) \in 1..Len(y) /\ t[i] = y[i - Len(f)] BY <3>2, <2>4
    <3> QED BY <2>2, <3>1, <3>2
  <2> QED BY <2>2, <2>3, <2>5
<1>10. u \in Seq(Call) /\ Len(u) = Chunks + 1
       /\ \A i \in 1..Len(u) : \/ i = 1 /\ u[i] = a
                               \/ i > 1 /\ i - 1 \in 1..Len(t) /\ u[i] = t[i - 1]
  <2>1. PICK y \in Seq(Call) : y = <<a>> /\ Len(y) = 1 /\ y[1] = a BY <1>5, OneOf
  <2>2. u = y \o t BY <2>1
  <2> HIDE DEF u
  <2>3. /\ u \in Seq(Call) /\ Len(u) = Len(y) + Len(t)
        /\ \A i \in 1..Len(u) : \/ i \in 1..Len(y) /\ u[i] = y[i]
                                \/ i > Len(y) /\ i - Len(y) \in 1..Len(t) /\ u[i] = t[i - Len(y)]
    <3>1. t \in Seq(Call) BY <1>9
    <3> QED BY <2>1, <2>2, <3>1, Joined
  <2>4. Len(u) = Chunks + 1 BY <1>1, <1>9, <2>1, <2>3
  <2>5. ASSUME NEW i \in 1..Len(u)
        PROVE  \/ i = 1 /\ u[i] = a
               \/ i > 1 /\ i - 1 \in 1..Len(t) /\ u[i] = t[i - 1]
    <3>1. CASE i \in 1..Len(y) /\ u[i] = y[i]
      <4>1. i = 1 BY <3>1, <2>1
      <4> QED BY <2>1, <3>1, <4>1
    <3>2. CASE i > Len(y) /\ i - Len(y) \in 1..Len(t) /\ u[i] = t[i - Len(y)] BY <2>1, <3>2
    <3> QED BY <2>3, <3>1, <3>2
  <2> QED BY <2>3, <2>4, <2>5
<1> HIDE DEF u
<1>11. ASSUME NEW i \in 1..Len(u) PROVE ChunkCall(u[i], i - 1, Chunks, 0)
  <2>0. i \in Nat /\ i >= 1 BY <1>1, <1>10
  <2>1. CASE i = 1 /\ u[i] = a BY <2>1, <1>1, <1>2 DEF ChunkCall
  <2>2. CASE i - 1 \in 1..(Chunks - 1) /\ u[i] = f[i - 1]
    <3> DEFINE k == i - 1
    <3>1. f[k].op = "sendPair" /\ f[k].kind = "pair" /\ f[k].n = 2 * k - 1 BY <2>2, <1>3
    <3>2. k \in Nat /\ k >= 1 /\ k < Chunks BY <2>2, <1>1
    <3> HIDE DEF k
    <3>3. ChunkCall(f[k], k, Chunks, 0) BY <3>1, <3>2, <1>1 DEF ChunkCall
    <3> QED BY <2>2, <3>3 DEF k
  <2>3. CASE i - 1 = Chunks /\ u[i] = z
    <3>1. ChunkCall(z, Chunks, Chunks, 0) BY <1>1, <1>2 DEF ChunkCall
    <3> QED BY <2>3, <3>1
  <2>4. CASE i > 1 /\ i - 1 \in 1..Len(t) /\ u[i] = t[i - 1] BY <2>2, <2>3, <2>4, <1>9
  <2> QED BY <2>1, <2>4, <1>10
<1>12. Len(u) >= Chunks + 1 BY <1>1, <1>10
<1> QED BY <1>8, <1>10, <1>11, <1>12 DEF SendsFile

LEMMA FileAndMore ==
  ASSUME NEW u, SendsFile(u), NEW more \in Seq(Call), SendsOn(more)
  PROVE  SendsFile(u \o more)
<1> DEFINE s == u \o more
<1>1. /\ s \in Seq(Call) /\ Len(s) = Len(u) + Len(more) /\ Len(more) \in Nat /\ Len(u) \in Nat
      /\ \A i \in 1..Len(u) : s[i] = u[i]
      /\ \A i \in 1..Len(more) : s[Len(u) + i] = more[i]
  <2>1. u \in Seq(Call) BY DEF SendsFile
  <2> QED BY <2>1, ConcatProperties
<1> HIDE DEF s
<1>2. ASSUME NEW i \in 1..Len(s) PROVE ChunkCall(s[i], i - 1, Chunks, 0)
  <2>1. CASE i \in 1..Len(u) BY <2>1, <1>1 DEF SendsFile
  <2>2. CASE i \notin 1..Len(u)
    <3> DEFINE k == i - Len(u)
    <3>0. i \in Nat /\ i > Len(u) /\ Len(u) >= Chunks + 1 BY <1>1, <2>2 DEF SendsFile
    <3>1. k \in 1..Len(more) /\ Len(u) + k = i /\ Chunks \in Nat /\ Chunks > 0
      BY <1>1, <2>2, Constants
    <3>2. s[Len(u) + k] = more[k]
      <4> HIDE DEF k
      <4> QED BY <1>1, <3>1
    <3>3. s[i].op = "send" \/ s[i] = udplastrecv("command")
      <4> HIDE DEF k
      <4> QED BY <3>1, <3>2 DEF SendsOn
    <3>4. i - 1 \in Nat /\ i - 1 > Chunks BY <3>0, <3>1
    <3> QED BY <3>1, <3>3, <3>4 DEF ChunkCall
  <2> QED BY <2>1, <2>2
<1>3. Len(s) >= Chunks + 1
  <2>1. Len(u) >= Chunks + 1 BY DEF SendsFile
  <2> QED BY <2>1, <1>1, Constants
<1> QED BY <1>1, <1>2, <1>3 DEF SendsFile, s

\* The file that comes in, chunk by chunk.
LEMMA RecvFileNext ==
  ASSUME NEW D \in 1..Chunks, NEW rest \in Seq(Call)
  PROVE  /\ RecvFile(D) \o rest \in Seq(Call) /\ RecvFile(D) \o rest # <<>>
         /\ Head(RecvFile(D) \o rest) = (IF D > 1 THEN udprecv ELSE udplastrecv("chunk"))
         /\ D > 1 => Tail(RecvFile(D) \o rest) = RecvFile(D - 1) \o rest
         /\ D = 1 => Tail(RecvFile(D) \o rest) = rest
<1> DEFINE a == IF D > 1 THEN udprecv ELSE udplastrecv("chunk")
           g == RecvFile(D - 1)
<1>1. D \in Nat /\ D >= 1 /\ D - 1 \in Nat BY Constants
<1>2. udprecv \in Call /\ udplastrecv("chunk") \in Call BY Names DEF udprecv, udplastrecv, Call
<1>3. \A n \in Nat : RecvFile(n) \in Seq(Call) /\ Len(RecvFile(n)) = n
                     /\ \A k \in 1..n : RecvFile(n)[k] = IF k < n THEN udprecv ELSE udplastrecv("chunk")
  <2> SUFFICES ASSUME NEW n \in Nat
               PROVE  RecvFile(n) \in Seq(Call) /\ Len(RecvFile(n)) = n
                      /\ \A k \in 1..n : RecvFile(n)[k] = IF k < n THEN udprecv ELSE udplastrecv("chunk")
    OBVIOUS
  <2>1. RecvFile(n) \in [1..n -> Call] BY <1>2 DEF RecvFile
  <2>2. RecvFile(n) \in Seq(Call) /\ Len(RecvFile(n)) = n BY <2>1, FunctionIsSeq
  <2> QED BY <2>2 DEF RecvFile
<1>4. RecvFile(D) = <<a>> \o g
  <2>1. a \in Call /\ <<a>> \in Seq(Call) /\ Len(<<a>>) = 1 /\ <<a>>[1] = a BY <1>2, OneOf
  <2>2. g \in Seq(Call) /\ Len(g) = D - 1 BY <1>1, <1>3
  <2> DEFINE u == <<a>> \o g
  <2>3. /\ u \in Seq(Call) /\ Len(u) = 1 + Len(g)
        /\ \A i \in 1..Len(u) : \/ i \in 1..1 /\ u[i] = <<a>>[i]
                                \/ i > 1 /\ i - 1 \in 1..Len(g) /\ u[i] = g[i - 1]
    <3> HIDE DEF a, g
    <3> QED BY <2>1, <2>2, Joined
  <2>4. ASSUME NEW i \in 1..D PROVE u[i] = RecvFile(D)[i]
    <3>1. i \in 1..Len(u) /\ i \in Nat BY <2>2, <2>3, <1>1
    <3>2. RecvFile(D)[i] = IF i < D THEN udprecv ELSE udplastrecv("chunk") BY <1>1, <1>3
    <3>3. CASE i \in 1..1 /\ u[i] = <<a>>[i]
      <4>1. i = 1 BY <3>3
      <4> QED BY <3>2, <3>3, <4>1, <2>1, <1>1
    <3>4. CASE i > 1 /\ i - 1 \in 1..Len(g) /\ u[i] = g[i - 1]
      <4>1. g[i - 1] = IF i - 1 < D - 1 THEN udprecv ELSE udplastrecv("chunk")
        BY <3>4, <2>2, <1>1, <1>3
      <4>2. i - 1 < D - 1 <=> i < D BY <3>1, <1>1
      <4> HIDE DEF u, g, a
      <4> QED BY <3>2, <3>4, <4>1, <4>2
    <3> QED BY <3>1, <3>3, <3>4, <2>3
  <2>5. Len(u) = D /\ Len(RecvFile(D)) = D /\ RecvFile(D) \in Seq(Call) BY <2>2, <2>3, <1>1, <1>3
  <2> HIDE DEF u
  <2>6. u = RecvFile(D) BY <2>3, <2>4, <2>5, SeqEqual
  <2> QED BY <2>6 DEF u
<1>5. a \in Call /\ g \in Seq(Call) BY <1>1, <1>2, <1>3
<1>6. D = 1 => g = <<>>
  <2>1. D = 1 => Len(g) = 0 BY <1>1, <1>3
  <2> HIDE DEF g
  <2> QED BY <1>5, <2>1, EmptySeq
<1> HIDE DEF g, a
<1>7. <<a>> \in Seq(Call) BY <1>5, OneOf
<1>8. RecvFile(D) \o rest = <<a>> \o (g \o rest) BY <1>4, <1>5, <1>7, ConcatAssociative
<1>9. g \o rest \in Seq(Call) BY <1>5, ConcatProperties
<1>10. /\ RecvFile(D) \o rest \in Seq(Call) /\ RecvFile(D) \o rest # <<>>
       /\ Head(RecvFile(D) \o rest) = a /\ Tail(RecvFile(D) \o rest) = g \o rest
  BY <1>5, <1>8, <1>9, Begun
<1>11. D = 1 => g \o rest = rest BY <1>6, ConcatEmptySeq
<1> QED BY <1>10, <1>11 DEF a, g

\* What the server sends for a name.
LEMMA FileServed ==
  ASSUME NEW m, NEW s \in PutFileToClient(m)
  PROVE  /\ ~Found(m) => s = <<udpsend("nofile", 1)>> \o Ready
         /\ Found(m) => SendsFile(s)
<1> DEFINE u == <<udplastsend("info", Chunks)>> \o SendChunks("cut")
           x == <<udplastsend("last", 2 * Chunks)>>
           r == <<udplastrecv("command")>>
<1>1. SendsFile(u) BY FileScript
<1>2. r \in Seq(Call) /\ SendsOn(r)
  <2>1. r = Ready BY DEF Ready, Only
  <2>2. Ready \in Seq(Call) /\ Len(Ready) = 1 /\ Ready[1] = udplastrecv("command")
    BY OnlyIs, Names DEF Ready
  <2>3. \A i \in 1..1 : i = 1 OBVIOUS
  <2> QED BY <2>1, <2>2, <2>3 DEF SendsOn
<1>3. x \in Seq(Call) /\ SendsOn(x)
  <2>1. 2 * Chunks \in Nat BY Constants
  <2>2. udplastsend("last", 2 * Chunks) \in Call BY <2>1, Names DEF udplastsend, Call, Sends
  <2>3. x \in Seq(Call) /\ Len(x) = 1 /\ x[1] = udplastsend("last", 2 * Chunks) BY <2>2, OneOf
  <2>4. udplastsend("last", 2 * Chunks).op = "send" BY DEF udplastsend
  <2>5. \A i \in 1..1 : i = 1 OBVIOUS
  <2> HIDE DEF x
  <2> QED BY <2>3, <2>4, <2>5 DEF SendsOn
<1>4. Found(m) => s \in {u, (u \o x) \o r, u \o r} BY DEF PutFileToClient
<1>5. ~Found(m) => s = <<udpsend("nofile", 1)>> \o Ready BY DEF PutFileToClient, Ready, Only
<1> HIDE DEF u, x, r
<1>6. SendsFile(u \o r) BY <1>1, <1>2, FileAndMore
<1>7. SendsFile(u \o x) BY <1>1, <1>3, FileAndMore
<1>8. SendsFile((u \o x) \o r) BY <1>2, <1>7, FileAndMore
<1> QED BY <1>1, <1>4, <1>5, <1>6, <1>8

\* A listing, and what is left of it after an entry.
LEMMA ListingGoesOn ==
  ASSUME NEW s \in Seq(Call), Listing(s), s # <<>>, Head(s).op \in Sends
  PROVE  /\ Listing(Tail(s)) /\ Head(s).op = "send"
         /\ Head(s).kind = "@" => Tail(s) = Ready
<1> DEFINE t == Tail(s)
<1>1. /\ t \in Seq(Call) /\ Len(s) \in Nat /\ Len(s) > 0 /\ Head(s) = s[1] /\ Len(t) = Len(s) - 1
      /\ \A i \in 1..Len(t) : t[i] = s[i + 1] /\ i + 1 \in 1..Len(s)
  BY TailOf
<1>2. s[Len(s)] = udplastrecv("command") BY DEF Listing
<1>3. udplastrecv("command").op \notin Sends BY OnlyIs
<1>4. Len(s) # 1 BY <1>1, <1>2, <1>3
<1>5. 1 \in 1..(Len(s) - 1) /\ Len(t) >= 1 /\ Len(t) \in 1..Len(t) BY <1>1, <1>4
<1>6. s[1].op = "send" /\ (s[1].kind = "@" => 1 = Len(s) - 1) BY <1>5 DEF Listing
<1> HIDE DEF t
<1>7. t[Len(t)] = udplastrecv("command")
  <2>1. t[Len(t)] = s[Len(t) + 1] /\ Len(t) + 1 = Len(s) BY <1>1, <1>5
  <2> QED BY <2>1, <1>2
<1>8. ASSUME NEW i \in 1..(Len(t) - 1) PROVE t[i].op = "send" /\ (t[i].kind = "@" => i = Len(t) - 1)
  <2>1. i \in 1..Len(t) /\ i + 1 \in 1..(Len(s) - 1) /\ i \in Nat BY <1>1
  <2>2. t[i] = s[i + 1] BY <2>1, <1>1
  <2>3. s[i + 1].op = "send" /\ (s[i + 1].kind = "@" => i + 1 = Len(s) - 1) BY <2>1 DEF Listing
  <2>4. i + 1 = Len(s) - 1 => i = Len(t) - 1 BY <2>1, <1>1
  <2> QED BY <2>2, <2>3, <2>4
<1>9. Listing(t) BY <1>5, <1>7, <1>8 DEF Listing
<1>10. s[1].kind = "@" => t = Ready
  <2>1. ASSUME s[1].kind = "@" PROVE t = Ready
    <3>1. Len(t) = 1 BY <2>1, <1>1, <1>6
    <3>2. t[1] = udplastrecv("command") BY <3>1, <1>7
    <3>3. Ready \in Seq(Call) /\ Len(Ready) = 1 /\ Ready[1] = udplastrecv("command")
      BY OnlyIs, Names DEF Ready
    <3>4. \A i \in 1..1 : i = 1 OBVIOUS
    <3>5. \A i \in 1..Len(t) : t[i] = Ready[i] BY <3>1, <3>2, <3>3, <3>4
    <3> QED BY <1>1, <3>1, <3>3, <3>5, SeqEqual
  <2> QED BY <2>1
<1> QED BY <1>1, <1>6, <1>9, <1>10 DEF t

LEMMA ListingStarts == Listing(Serve("LIST") \o Ready)
<1> DEFINE f == [k \in 1..Entries |-> udplastsend("entry", k)]
           b == udplastsend("LIST", 0)
           e == udplastsend("@", 0)
           v == f \o <<e>>
           w == <<b>> \o v
           s == w \o Ready
<1>1. Entries \in Nat /\ b \in Call /\ e \in Call BY Constants, SaidCalls, Names
<1>2. /\ \A k \in 1..Entries : f[k].op = "send" /\ f[k].kind = "entry"
      /\ b.op = "send" /\ b.kind = "LIST" /\ e.op = "send" /\ e.kind = "@"
  BY DEF udplastsend
<1>3. f \in Seq(Call) /\ Len(f) = Entries
  <2>1. \A n \in Nat : udplastsend("entry", n) \in Call BY Names DEF udplastsend, Call, Sends
  <2>2. f \in [1..Entries -> Call] BY <1>1, <2>1
  <2> HIDE DEF f
  <2> QED BY <1>1, <2>2, FunctionIsSeq
<1>4. Serve("LIST") = w BY DEF Serve, Command
<1>5. Ready \in Seq(Call) /\ Len(Ready) = 1 /\ Ready[1] = udplastrecv("command")
  BY OnlyIs, Names DEF Ready
<1> HIDE DEF f, b, e
<1>6. /\ v \in Seq(Call) /\ Len(v) = Entries + 1 /\ v[Entries + 1] = e
      /\ \A i \in 1..Entries : v[i] = f[i]
  <2>1. <<e>> \in Seq(Call) /\ Len(<<e>>) = 1 /\ <<e>>[1] = e BY <1>1, OneOf
  <2>2. 1 \in 1..1 OBVIOUS
  <2> QED BY <1>3, <2>1, <2>2, ConcatProperties
<1> HIDE DEF v
<1>7. /\ w \in Seq(Call) /\ Len(w) = Entries + 2 /\ w[1] = b
      /\ \A i \in 1..(Entries + 1) : w[1 + i] = v[i]
  <2>1. <<b>> \in Seq(Call) /\ Len(<<b>>) = 1 /\ <<b>>[1] = b BY <1>1, OneOf
  <2>2. 1 \in 1..1 OBVIOUS
  <2>3. /\ w \in Seq(Call) /\ Len(w) = 1 + Len(v) /\ (\A i \in 1..1 : w[i] = <<b>>[i])
        /\ \A i \in 1..Len(v) : w[1 + i] = v[i]
    BY <1>6, <2>1, ConcatProperties
  <2>4. Len(w) = Entries + 2 BY <1>1, <1>6, <2>3
  <2> HIDE DEF w
  <2> QED BY <1>6, <2>1, <2>2, <2>3, <2>4
<1> HIDE DEF w
<1>8. /\ s \in Seq(Call) /\ Len(s) = Entries + 3 /\ s[Entries + 3] = udplastrecv("command")
      /\ \A i \in 1..(Entries + 2) : s[i] = w[i]
  <2>1. /\ s \in Seq(Call) /\ Len(s) = Len(w) + Len(Ready) /\ (\A i \in 1..Len(w) : s[i] = w[i])
        /\ \A i \in 1..Len(Ready) : s[Len(w) + i] = Ready[i]
    <3>1. w \in Seq(Call) /\ Ready \in Seq(Call) BY <1>5, <1>7
    <3> QED BY <3>1, ConcatProperties
  <2>2. 1 \in 1..Len(Ready) /\ (Entries + 2) + 1 = Entries + 3 BY <1>1, <1>5
  <2> HIDE DEF s
  <2>3. s[Len(w) + 1] = Ready[1] BY <2>1, <2>2
  <2> QED BY <1>5, <1>7, <2>1, <2>2, <2>3
<1> HIDE DEF s
<1>9. ASSUME NEW i \in 1..(Len(s) - 1)
      PROVE  s[i].op = "send" /\ (s[i].kind = "@" => i = Len(s) - 1)
  <2>1. i \in 1..(Entries + 2) /\ i \in Nat BY <1>1, <1>8
  <2>2. s[i] = w[i] BY <2>1, <1>8
  <2>3. CASE i = 1 BY <2>2, <2>3, <1>2, <1>7
  <2>4. CASE i > 1
    <3> DEFINE k == i - 1
    <3>1. k \in 1..(Entries + 1) /\ 1 + k = i BY <2>1, <2>4, <1>1
    <3>2. w[1 + k] = v[k]
      <4> HIDE DEF k
      <4> QED BY <3>1, <1>7
    <3>3. CASE k = Entries + 1
      <4>1. i = Len(s) - 1 BY <3>1, <3>3, <1>1, <1>8
      <4>2. s[i] = e BY <3>1, <3>2, <3>3, <2>2, <1>6
      <4> QED BY <4>1, <4>2, <1>2
    <3>4. CASE k \in 1..Entries
      <4>1. v[k] = f[k] BY <3>4, <1>6
      <4>2. f[k].op = "send" /\ f[k].kind = "entry" BY <3>4, <1>2
      <4> QED BY <4>1, <4>2, <3>1, <3>2, <2>2
    <3> QED BY <3>1, <3>3, <3>4, <1>1
  <2> QED BY <2>1, <2>3, <2>4
<1>10. Len(s) >= 1 /\ s[Len(s)] = udplastrecv("command") BY <1>1, <1>8
<1>11. Listing(s) BY <1>9, <1>10 DEF Listing
<1> QED BY <1>4, <1>11 DEF s

-------------------------------------------------------------------------------
\* A send that begins.
LEMMA GreetingsListen ==
  \A g \in Greetings : /\ g # <<>> /\ Head(g).op \notin Sends /\ Head(g).op # "recvPair"
                       /\ Head(g).op = "recv" => g = Ready
<1> SUFFICES ASSUME NEW g \in Greetings
             PROVE  /\ g # <<>> /\ Head(g).op \notin Sends /\ Head(g).op # "recvPair"
                    /\ Head(g).op = "recv" => g = Ready
  OBVIOUS
<1>1. CASE g = Ready BY <1>1, OnlyIs DEF Ready
<1>2. CASE g # Ready
  <2>1. g # <<>> /\ \E n \in {1, 2} : Head(g) = threewayhandshake(n) BY <1>2 DEF Greetings
  <2>2. \A n \in {1, 2} : threewayhandshake(n).op = "handshake" BY DEF threewayhandshake
  <2> QED BY <2>1, <2>2, OnlyIs
<1> QED BY <1>1, <1>2

\* The server goes on with its listing.
LEMMA BeginsLists ==
  ASSUME IInv, NEW q \in Peer, Begins(q), Lists
  PROVE  Lists'
<1> DEFINE c == Head(Left("server"))
           s == Left("server")
           New == LastCopies(c, Send_Seq["server"], calls["server"] + 1)
<1>1. "LIST" \in Command /\ "entry" \in Use BY Names
<1>2. "client" \in Peer /\ "server" \in Peer /\ Other("server") = "client" /\ Other("client") = "server"
  BY DEF Peer, Other
<1>3. Head(Left("client")).op \notin Sends
  <2>1. Head(Tail(ClientCalls("LIST"))) = udplastrecv("echo") BY <1>1, ClientScript
  <2>2. Left("client") \in {Tail(ClientCalls("LIST")), Only("entry")} BY DEF Lists
  <2>3. udplastrecv("echo").op \notin Sends /\ Head(Only("entry")).op \notin Sends BY OnlyIs
  <2> QED BY <2>1, <2>2, <2>3
<1>4. q = "server" BY <1>3 DEF Begins, Peer
<1>5. /\ s # <<>> /\ c.op \in Sends /\ file' = file /\ accepted' = accepted
      /\ calls'["server"] = calls["server"] + 1 /\ calls'["client"] = calls["client"]
      /\ Left("server")' = Tail(s) /\ Left("client")' = Left("client")
      /\ Coming("server")' \subseteq Coming("server") \cup
           IF c.op = "send" THEN New ELSE PairCopies(c, NextPair("server"), calls["server"] + 1)
  BY <1>2, <1>4 DEF Begins
<1>6. s \in Seq(Call) BY <1>2, LeftTyped
<1>7. Listing(s) BY DEF Lists
<1> HIDE DEF s
<1>8. Listing(Tail(s)) /\ c.op = "send" /\ (c.kind = "@" => Tail(s) = Ready)
  BY <1>5, <1>6, <1>7, ListingGoesOn DEF s
<1>9. Left("server") # Ready BY <1>5, OnlyIs DEF Ready, s
<1>10. \A d \in Coming("server") : d.kind # "@" BY <1>9 DEF Lists
<1>11. ASSUME NEW d \in Coming("server")', d.kind = "@"
       PROVE  d.id = calls'["server"] /\ Left("server")' = Ready
  <2>1. d \in New BY <1>5, <1>8, <1>10, <1>11
  <2>2. d.id = calls["server"] + 1 /\ c.kind = "@" BY <2>1, <1>11 DEF New, LastCopies
  <2> QED BY <2>2, <1>5, <1>8
<1>12. ClientCalls("LIST")' = ClientCalls("LIST") BY <1>1, <1>5, CallsSame
<1>13. Heard("client")' BY <1>2, <1>5 DEF Heard, Lists
<1>14. Left("client")' \in {Tail(ClientCalls("LIST")'), Only("entry")} BY <1>5, <1>12 DEF Lists
<1>15. Listing(Left("server")') BY <1>5, <1>8
<1> QED BY <1>11, <1>13, <1>14, <1>15 DEF Lists, Listing, Only, Ready

\* So does the sender of a file.
LEMMA BeginsTransfer ==
  ASSUME IInv, NEW q \in Peer, Begins(q), NEW p \in Peer, NEW a \in 0..1, NEW D \in 1..Chunks,
         TransferOf(p, a, D)
  PROVE  TransferOf(p, a, D)'
<1> DEFINE o == Other(p)
           r == calls[p] - accepted[o]
           g == Len(got)
           s == Left(p)
           c == Head(s)
           New == IF c.op = "send" THEN LastCopies(c, Send_Seq[p], calls[p] + 1)
                                   ELSE PairCopies(c, NextPair(p), calls[p] + 1)
<1>1. o \in Peer /\ o # p /\ Other(o) = p BY Peers
<1>2. a \in Nat /\ D \in Nat /\ D >= 1 /\ a <= 1 BY Constants
<1>3. Left(o) = Receives(o, a, D) /\ Heard(o) BY DEF TransferOf
<1>4. Head(Left(o)).op \notin Sends
  <2>1. CASE a = 1 BY <2>1, <1>3, OnlyIs DEF Receives
  <2>2. CASE a # 1
    <3>1. PICK rest \in Seq(Call) : Left(o) = RecvFile(D) \o rest
      <4>1. Ready \in Seq(Call) BY OnlyIs, Names DEF Ready
      <4>2. <<>> \in Seq(Call) OBVIOUS
      <4> QED BY <1>3, <2>2, <4>1, <4>2 DEF Receives
    <3>2. Head(Left(o)) \in {udprecv, udplastrecv("chunk")} BY <3>1, RecvFileNext
    <3>3. udprecv.op = "recvPair" BY DEF udprecv
    <3> QED BY <3>2, <3>3, OnlyIs
  <2> QED BY <2>1, <2>2
<1>5. q = p
  <2>1. q # o BY <1>4 DEF Begins
  <2> QED BY <2>1, Peers
<1>6. /\ s # <<>> /\ c.op \in Sends /\ got' = got /\ accepted' = accepted
      /\ calls'[p] = calls[p] + 1 /\ calls'[o] = calls[o]
      /\ Left(p)' = Tail(s) /\ Left(o)' = Left(o)
      /\ NextPair(p)' = (IF c.op = "sendPair" THEN NextPair(p) + 2 ELSE NextPair(p))
      /\ Coming(p)' \subseteq Coming(p) \cup New
  BY <1>5 DEF Begins
<1>7. s \in Seq(Call) BY LeftTyped
<1>8. /\ a = 1 => D = Chunks /\ g = 0
      /\ a + D <= r + Len(s) /\ (p = "client" => r + Len(s) = a + D)
      /\ \A i \in 1..Len(s) : ChunkCall(s[i], r + i - a, D, g)
      /\ \A d \in Coming(p) : ChunkPacket(d, d.id - accepted[o] - a, D, g)
      /\ r + 1 - a = 0 => NextPair(p) = 0
      /\ 1 <= r + 1 - a /\ r + 1 - a < D => NextPair(p) = g + 2 * (r - a)
  BY DEF TransferOf
<1>9. calls[p] \in Nat /\ accepted[o] \in Nat /\ r \in Nat /\ calls[p] = accepted[o] + r
  <2>1. calls[p] \in Nat /\ accepted[o] \in Nat /\ accepted[o] <= calls[p] BY <1>1 DEF IInv, Counters
  <2> QED BY <2>1
<1>10. g \in Nat
  <2>1. got \in Seq([kind : Kind, n : Nat]) BY DEF IInv, Written
  <2> QED BY <2>1
<1>11. r' = r + 1 /\ g' = g BY <1>6, <1>9 DEF Other
<1>12. Heard(o)' /\ Left(o)' = Receives(o, a, D) BY <1>1, <1>3, <1>6 DEF Heard
<1> HIDE DEF s, r, g, New
<1>13. /\ Len(s) \in Nat /\ Len(s) > 0 /\ c = s[1] /\ Len(Tail(s)) = Len(s) - 1 /\ c \in Call
       /\ \A i \in 1..Len(Tail(s)) : Tail(s)[i] = s[i + 1] /\ i + 1 \in 1..Len(s)
  BY <1>6, <1>7, TailOf
<1> DEFINE j == r + 1 - a
<1>14. j \in Nat /\ ChunkCall(c, j, D, g)
  <2>1. 1 \in 1..Len(s) BY <1>13
  <2>2. ChunkCall(s[1], r + 1 - a, D, g) BY <1>8, <2>1
  <2> QED BY <2>2, <1>2, <1>9, <1>13
<1>15. ASSUME NEW d \in New PROVE d.id = calls[p] + 1 /\ ChunkPacket(d, j, D, g)
  <2>0. NextPair(p) \in Nat /\ c.n \in Nat
    <3>1. Send_temp_Seq[p] \in PairSeq BY DEF IInv, Scripts
    <3>2. PairSeq \subseteq Nat BY Constants DEF PairSeq
    <3>3. NextPair(p) \in Nat
      <4>1. Send_temp_Seq[p] \in Nat BY <3>1, <3>2
      <4>2. \A x \in Nat : x + 2 \in Nat OBVIOUS
      <4> QED BY <4>1, <4>2 DEF NextPair
    <3> QED BY <3>3, <1>13, CallTyped
  <2>1. CASE c.op = "send"
    <3>1. d.id = calls[p] + 1 /\ d.n = c.n /\ d.kind \in {c.kind, IF c.kind = "last" THEN "cut" ELSE c.kind}
      BY <2>1 DEF New, LastCopies
    <3>2. c.op # "sendPair" BY <2>1
    <3> HIDE DEF c, j
    <3>3. ChunkPacket(d, j, D, g) BY <3>1, <3>2, <1>14 DEF ChunkCall, ChunkPacket
    <3> QED BY <3>1, <3>3
  <2>2. CASE c.op = "sendPair"
    <3>1. PICK h \in 1..2 : d = [seqNo |-> NextPair(p) + h - 1, kind |-> c.kind, n |-> c.n + h - 1,
                                 id |-> calls[p] + 1]
      <4>1. c.op # "send" BY <2>2
      <4> QED BY <4>1 DEF New, PairCopies
    <3>2. d.id = calls[p] + 1 /\ d.n = c.n + h - 1 /\ d.kind = c.kind /\ d.seqNo = NextPair(p) + h - 1
      BY <3>1
    <3>3. 1 <= j /\ j < D
      <4>1. j # 0 /\ j # D BY <2>2, <1>14 DEF ChunkCall
      <4>2. ~(j > D)
        <5>1. udplastrecv("command").op # "sendPair" BY OnlyIs DEF Sends
        <5> QED BY <2>2, <5>1, <1>14 DEF ChunkCall
      <4> QED BY <4>1, <4>2, <1>2, <1>14
    <3>4. c.kind = "pair" /\ c.n = g + 2 * j - 1 BY <3>3, <1>14 DEF ChunkCall
    <3>5. NextPair(p) = g + 2 * (r - a) BY <3>3, <1>8 DEF j, r, g
    <3>6. d.n = d.seqNo + 1 /\ d.n \in {g + 2 * j - 1, g + 2 * j}
      BY <3>2, <3>4, <3>5, <2>0, <1>2, <1>9, <1>10
    <3> HIDE DEF j
    <3>7. ChunkPacket(d, j, D, g)
      BY <3>2, <3>3, <3>4, <3>6, <1>2, <1>14 DEF ChunkPacket
    <3> QED BY <3>2, <3>7
  <2> QED BY <2>1, <2>2, <1>6 DEF Sends
<1>16. ASSUME NEW d \in Coming(p)' PROVE ChunkPacket(d, d.id - accepted[o] - a, D, g)
  <2>1. CASE d \in Coming(p) BY <2>1, <1>8 DEF g
  <2>2. CASE d \in New
    <3>1. d.id - accepted[o] - a = j BY <2>2, <1>2, <1>9, <1>15
    <3> QED BY <2>2, <3>1, <1>15
  <2> QED BY <2>1, <2>2, <1>6
<1>17. ASSUME NEW i \in 1..Len(Tail(s)) PROVE ChunkCall(Tail(s)[i], (r + 1) + i - a, D, g)
  <2>1. Tail(s)[i] = s[i + 1] /\ i + 1 \in 1..Len(s) /\ i \in Nat BY <1>13
  <2>2. r + (i + 1) - a = (r + 1) + i - a BY <2>1, <1>2, <1>9
  <2>3. ChunkCall(s[i + 1], r + (i + 1) - a, D, g) BY <2>1, <1>8 DEF s, r, g
  <2> QED BY <2>1, <2>2, <2>3
<1>18. /\ a + D <= (r + 1) + Len(Tail(s))
       /\ p = "client" => (r + 1) + Len(Tail(s)) = a + D
  <2>1. (r + 1) + Len(Tail(s)) = r + Len(s)
    <3>1. \A x, y, z \in Nat : z = y - 1 => (x + 1) + z = x + y OBVIOUS
    <3>2. Len(Tail(s)) \in Nat /\ Len(Tail(s)) = Len(s) - 1 /\ Len(s) \in Nat BY <1>13
    <3> QED BY <1>9, <3>1, <3>2
  <2>2. a + D <= r + Len(s) /\ (p = "client" => r + Len(s) = a + D) BY <1>8 DEF r, s
  <2> QED BY <2>1, <2>2
<1>19. /\ (r + 1) + 1 - a = 0 => NextPair(p)' = 0
       /\ 1 <= (r + 1) + 1 - a /\ (r + 1) + 1 - a < D => NextPair(p)' = g + 2 * ((r + 1) - a)
  <2>1. (r + 1) + 1 - a # 0 BY <1>2, <1>9
  <2>2. ASSUME (r + 1) + 1 - a < D PROVE NextPair(p)' = g + 2 * ((r + 1) - a)
    <3>1. j + 1 < D BY <2>2, <1>2, <1>9
    <3>2. CASE j = 0
      <4>1. c.op = "send" /\ c.op # "sendPair" BY <3>2, <1>14 DEF ChunkCall
      <4>2. NextPair(p) = 0 BY <3>2, <1>8 DEF j, r
      <4>3. r = 0 /\ a = 1 /\ g = 0 BY <3>2, <1>2, <1>8, <1>9 DEF j, g
      <4> QED BY <4>1, <4>2, <4>3, <1>6
    <3>3. CASE j # 0
      <4>1. 1 <= j /\ j < D BY <3>1, <3>3, <1>2, <1>14
      <4>2. c.op = "sendPair" BY <4>1, <1>14 DEF ChunkCall
      <4>3. NextPair(p) = g + 2 * (r - a) BY <4>1, <1>8 DEF j, r, g
      <4> QED BY <4>2, <4>3, <1>2, <1>6, <1>9, <1>10
    <3> QED BY <3>2, <3>3
  <2> QED BY <2>1, <2>2
<1>20. a = 1 => D = Chunks /\ g = 0 BY <1>8 DEF g
<1> QED BY <1>6, <1>11, <1>12, <1>16, <1>17, <1>18, <1>19, <1>20
        DEF TransferOf, ChunkCall, ChunkPacket, Receives, Other, r, g, s

LEMMA BeginsFinished ==
  ASSUME IInv, NEW q \in Peer, Begins(q), Finished
  PROVE  Finished'
<1> DEFINE s == Left("server")
<1>1. "client" \in Peer /\ "server" \in Peer /\ Other("server") = "client" /\ Other("client") = "server"
  BY DEF Peer, Other
<1>2. q = "server" BY DEF Begins, Finished, Peer
<1>3. /\ s # <<>> /\ accepted' = accepted /\ calls'["client"] = calls["client"]
      /\ Left("server")' = Tail(s) /\ Left("client")' = Left("client")
  BY <1>1, <1>2 DEF Begins
<1>4. s \in Seq(Call) BY <1>1, LeftTyped
<1>5. \A i \in 1..Len(s) : s[i].op \in Sends \/ (s[i].op = "recv" /\ s[i].kind \in {"command", "putinfo"})
  BY DEF Finished
<1> HIDE DEF s
<1>6. \A i \in 1..Len(Tail(s)) : Tail(s)[i] = s[i + 1] /\ i + 1 \in 1..Len(s) BY <1>3, <1>4, TailOf
<1>7. ASSUME NEW i \in 1..Len(Left("server")')
      PROVE  \/ Left("server")'[i].op \in Sends
             \/ (Left("server")'[i].op = "recv" /\ Left("server")'[i].kind \in {"command", "putinfo"})
  <2>1. i \in 1..Len(Tail(s)) BY <1>3
  <2>2. Left("server")'[i] = s[i + 1] /\ i + 1 \in 1..Len(s) BY <1>3, <1>6, <2>1
  <2> QED BY <1>5, <2>2
<1>8. Left("client")' = <<>> /\ Heard("client")' BY <1>1, <1>3 DEF Heard, Finished
<1> QED BY <1>7, <1>8 DEF Finished

\* Where neither side may send.
LEMMA NothingToBegin ==
  ASSUME NEW q \in Peer, Begins(q),
         Left("client") = <<>> \/ Head(Left("client")).op \notin Sends,
         Left("server") = <<>> \/ Head(Left("server")).op \notin Sends
  PROVE  FALSE
BY DEF Begins, Peer

LEMMA BeginsTalk ==
  ASSUME IInv, NEW q \in Peer, Begins(q), Talk
  PROVE  Talk'
<1>1. plan' = plan /\ file' = file /\ got' = got /\ deleted' = deleted BY DEF Begins
<1>2. "client" \in Peer /\ "server" \in Peer /\ Other("server") = "client" /\ Other("client") = "server"
  BY DEF Peer, Other
<1>3. (\A x \in Command : ClientCalls(x)' = ClientCalls(x)) /\ PutCalls' = PutCalls BY <1>1, CallsSame
<1>4. ~Menu
  <2>1. ASSUME Menu PROVE FALSE
    <3>1. threewayhandshake(1).op = "handshake" BY DEF threewayhandshake
    <3>2. Head(<<threewayhandshake(1)>>) = threewayhandshake(1) OBVIOUS
    <3>3. Left("client") = <<>> \/ Head(Left("client")).op \notin Sends
      BY <2>1, <3>1, <3>2, OnlyIs DEF Menu
    <3>4. Head(Left("server")).op \notin Sends BY <2>1, GreetingsListen DEF Menu
    <3> QED BY <3>3, <3>4, NothingToBegin
  <2> QED BY <2>1
<1>5. ASSUME NEW x \in Command, Asks(x)
      PROVE  Asks(x)' /\ NextPair("client")' = NextPair("client")
  <2>1. PICK t : t = Tail(ClientCalls(x)) OBVIOUS
  <2>2. t = Tail(ClientCalls(x)') BY <1>3, <2>1
  <2>3. PICK g \in Greetings : Says("client", udplastsend(x, 0), t, g) BY <1>5, <2>1 DEF Asks
  <2>4. t \in Seq(Call) /\ Head(t).op \notin Sends BY <2>1, ClientScript, OnlyIs
  <2>5. g # <<>> /\ Head(g).op \notin Sends BY GreetingsListen
  <2>6. /\ udplastsend(x, 0) \in Call /\ udplastsend(x, 0).op = "send"
        /\ udplastsend(x, 0).kind # "last"
    BY SaidCalls
  <2>7. Says("client", udplastsend(x, 0), t, g)' /\ NextPair("client")' = NextPair("client")
    BY <1>2, <2>3, <2>4, <2>5, <2>6, BeginsSays
  <2> QED BY <2>2, <2>7 DEF Asks, Greetings, Ready
<1>6. ASSUME NEW x \in Command \ {"LIST"}, Echoes(x)
      PROVE  Echoes(x)' /\ NextPair("client")' = NextPair("client")
  <2>1. PICK t : t = Tail(ClientCalls(x)) OBVIOUS
  <2>2. t = Tail(ClientCalls(x)') BY <1>3, <2>1
  <2>3. PICK w : w = Only(Awaited(x)) OBVIOUS
  <2>4. Says("server", udplastsend(x, 0), w, t) BY <1>6, <2>1, <2>3 DEF Echoes
  <2>5. t # <<>> /\ Head(t).op \notin Sends
    <3>1. x \in Command OBVIOUS
    <3>2. t # <<>> /\ Head(t) = udplastrecv("echo") BY <2>1, <3>1, ClientScript
    <3> QED BY <3>2, OnlyIs
  <2>6. w \in Seq(Call) /\ Head(w).op \notin Sends
    <3>1. Awaited(x) \in Use BY Names DEF Awaited, Command
    <3> QED BY <2>3, <3>1, OnlyIs
  <2>7. udplastsend(x, 0) \in Call /\ udplastsend(x, 0).kind # "last" BY SaidCalls
  <2>8. Says("server", udplastsend(x, 0), w, t)' /\ NextPair("client")' = NextPair("client")
    BY <1>2, <2>4, <2>5, <2>6, <2>7, BeginsSays
  <2> QED BY <2>2, <2>3, <2>8 DEF Echoes
<1>7. ASSUME NEW x \in {"GET", "DEL"}, GivesName(x) PROVE GivesName(x)'
  <2>1. PICK w, t : w = Only(Awaited(x)) /\ t = Only(Wanted(x)) OBVIOUS
  <2>2. Says("client", udplastsend("name", 0), t, w) BY <1>7, <2>1 DEF GivesName
  <2>3. w # <<>> /\ Head(w).op \notin Sends /\ t \in Seq(Call) /\ Head(t).op \notin Sends
    <3>1. Wanted(x) \in Use BY Names DEF Wanted
    <3> QED BY <2>1, <3>1, OnlyIs
  <2>4. udplastsend("name", 0) \in Call /\ udplastsend("name", 0).kind # "last" BY SaidCalls
  <2>5. Says("client", udplastsend("name", 0), t, w)' BY <1>2, <2>2, <2>3, <2>4, BeginsSays
  <2> QED BY <2>1, <2>5 DEF GivesName
<1>8. ASSUME Judges PROVE Judges'
  <2>1. ~(Left("client") = Only("verdict") /\ Left("server") = Ready)
    <3>1. ASSUME Left("client") = Only("verdict"), Left("server") = Ready PROVE FALSE
      <4>1. Head(Left("client")).op \notin Sends /\ Head(Left("server")).op \notin Sends
        BY <3>1, OnlyIs DEF Ready
      <4> QED BY <4>1, NothingToBegin
    <3> QED BY <3>1
  <2>2. PICK v \in {"@", "#"} :
             Says("server", udplastsend(v, 0), Ready, Only("verdict")) /\ (v = "@" => deleted)
    BY <1>8, <2>1 DEF Judges
  <2>3. PICK w, t : w = Only("verdict") /\ t = Ready OBVIOUS
  <2>4. w # <<>> /\ Head(w).op \notin Sends /\ t \in Seq(Call) /\ Head(t).op \notin Sends
    BY <2>3, OnlyIs, Names DEF Ready
  <2>5. udplastsend(v, 0) \in Call /\ udplastsend(v, 0).kind # "last" BY SaidCalls
  <2>6. Says("server", udplastsend(v, 0), t, w) BY <2>2, <2>3
  <2>7. Says("server", udplastsend(v, 0), t, w)' BY <1>2, <2>4, <2>5, <2>6, BeginsSays
  <2> QED BY <1>1, <2>2, <2>3, <2>7 DEF Judges
<1>9. ASSUME Refuses PROVE Refuses'
  <2>1. PICK w, t : w = Only("info") /\ t = Ready OBVIOUS
  <2>2. w # <<>> /\ Head(w).op \notin Sends /\ t \in Seq(Call) /\ Head(t).op \notin Sends
    BY <2>1, OnlyIs, Names DEF Ready
  <2>3. udpsend("nofile", 1) \in Call /\ udpsend("nofile", 1).kind # "last" BY SaidCalls
  <2>4. Says("server", udpsend("nofile", 1), t, w) BY <1>9, <2>1 DEF Refuses
  <2>5. Says("server", udpsend("nofile", 1), t, w)' BY <1>2, <2>2, <2>3, <2>4, BeginsSays
  <2> QED BY <2>1, <2>5 DEF Refuses
<1>10. ASSUME Announces PROVE Announces' /\ NextPair("client")' = NextPair("client")
  <2>1. PICK w, t : w = Only("putinfo") /\ t = Tail(PutCalls) OBVIOUS
  <2>2. t = Tail(PutCalls') BY <1>3, <2>1
  <2>3. file.exists /\ Says("client", udplastsend("info", Chunks), t, w) BY <1>10, <2>1 DEF Announces
  <2>4. w # <<>> /\ Head(w).op \notin Sends /\ t \in Seq(Call) /\ Head(t).op \notin Sends
    <3>1. t \in Seq(Call) /\ Head(t) = udplastrecv("answer") BY <2>1, <2>3, PutScript
    <3>2. udplastrecv("answer").op \notin Sends /\ w # <<>> /\ Head(w).op \notin Sends
      BY <2>1, OnlyIs
    <3> QED BY <3>1, <3>2
  <2>5. /\ udplastsend("info", Chunks) \in Call /\ udplastsend("info", Chunks).kind # "last"
        /\ udplastsend("info", Chunks).op = "send"
    BY SaidCalls
  <2>6. Says("client", udplastsend("info", Chunks), t, w)' /\ NextPair("client")' = NextPair("client")
    BY <1>2, <2>3, <2>4, <2>5, BeginsSays
  <2> QED BY <1>1, <2>1, <2>2, <2>3, <2>6 DEF Announces
<1>11. ASSUME Agrees PROVE Agrees' /\ NextPair("client")' = NextPair("client")
  <2>1. PICK w, t : w = Tail(PutCalls) /\ t = Only("putinfo2") OBVIOUS
  <2>2. w = Tail(PutCalls') BY <1>3, <2>1
  <2>3. file.exists /\ Says("server", udplastsend("answer", 0), t, w) BY <1>11, <2>1 DEF Agrees
  <2>4. w # <<>> /\ Head(w).op \notin Sends /\ t \in Seq(Call) /\ Head(t).op \notin Sends
    <3>1. w # <<>> /\ Head(w) = udplastrecv("answer") BY <2>1, <2>3, PutScript
    <3>2. udplastrecv("answer").op \notin Sends /\ t \in Seq(Call) /\ Head(t).op \notin Sends
      BY <2>1, OnlyIs, Names
    <3> QED BY <3>1, <3>2
  <2>5. udplastsend("answer", 0) \in Call /\ udplastsend("answer", 0).kind # "last" BY SaidCalls
  <2>6. Says("server", udplastsend("answer", 0), t, w)' /\ NextPair("client")' = NextPair("client")
    BY <1>2, <2>3, <2>4, <2>5, BeginsSays
  <2> QED BY <1>1, <2>1, <2>2, <2>3, <2>6 DEF Agrees
<1>12. Lists => Lists' BY BeginsLists
<1>13. ASSUME Transfers PROVE Transfers'
  <2>1. PICK p \in Peer, a \in 0..1, D \in 1..Chunks : TransferOf(p, a, D) BY <1>13 DEF Transfers
  <2>2. TransferOf(p, a, D)' BY <2>1, BeginsTransfer
  <2> QED BY <2>2 DEF Transfers
<1>14. Finished => Finished' BY BeginsFinished
<1>15. {"LIST", "GET", "PUT", "DEL"} = Command BY Names
<1>16. CASE /\ got = <<>>
            /\ \/ Menu \/ Asks("LIST") \/ Lists
               \/ Asks("DEL") \/ Echoes("DEL") \/ GivesName("DEL") \/ Judges
  BY <1>1, <1>4, <1>5, <1>6, <1>7, <1>8, <1>12, <1>15, <1>16 DEF Talk
<1>17. CASE /\ plan = <<>> /\ got = <<>>
            /\ \/ Asks("GET") \/ Echoes("GET") \/ GivesName("GET") \/ Refuses
               \/ /\ NextPair("client") = 0
                  /\ Asks("PUT") \/ Echoes("PUT") \/ Announces \/ Agrees
  BY <1>1, <1>5, <1>6, <1>7, <1>9, <1>10, <1>11, <1>15, <1>17 DEF Talk
<1>18. CASE plan = <<>> /\ (Transfers \/ Finished)
  BY <1>1, <1>13, <1>14, <1>18 DEF Talk
<1> QED BY <1>16, <1>17, <1>18 DEF Talk

-------------------------------------------------------------------------------
\* The answer to a packet that was to come.
LEMMA AcceptsSaid ==
  ASSUME IInv, NEW q \in Peer, NEW d, Accepts(q, d), NEW p \in Peer, NEW a, NEW left, NEW to,
         Says(p, a, left, to), NEW u, Head(to) = udplastrecv(u)
  PROVE  /\ q = Other(p) /\ script[q] = to /\ Head(script[q]).kind = u /\ d.kind = a.kind
         /\ Left(p)' = left /\ Heard(p)' /\ Heard(q)' /\ Left(q)' \in NextCalls(q, d)
         /\ NextPair(p)' = NextPair(p) /\ (u = "getname" => NextPair(q)' = 0)
         /\ u # "getname" => NextPair(q)' = NextPair(q)
         /\ Coming(q)' = {} /\ UNCHANGED <<plan, file>>
         /\ u # "chunk" => got' = got
         /\ u = "delname" => deleted' = (deleted \/ Deletes(d))
         /\ u # "delname" => deleted' = deleted
         /\ u # "verdict" => told' = told
         /\ u = "verdict" => told' = IF d.kind = "#" THEN "missing" ELSE "deleted"
<1>1. Hears(q, d) BY DEF Accepts
<1>2. /\ q = Other(p) /\ script[q] = to /\ d.kind = a.kind
      /\ Left(p)' = left /\ Heard(p)' /\ Heard(q)' /\ NextPair(p)' = NextPair(p)
  BY <1>1, HearsSays
<1>3. Head(script[q]).kind = u BY <1>2, OnlyIs
<1>4. Coming(q)' = {}
  <2>1. Heard(q) BY <1>2 DEF Says
  <2>2. Coming(q) = {} BY <2>1, NothingComes
  <2> QED BY <1>1, <2>2 DEF Hears
<1>5. UNCHANGED <<plan, file>> BY <1>1 DEF Hears
<1>6. deleted \in BOOLEAN BY DEF IInv, Written
<1>7. /\ Left(q)' \in NextCalls(q, d)
      /\ NextPair(q)' = (IF u = "getname" THEN 0 ELSE NextPair(q))
      /\ got' = (IF u = "chunk" THEN Append(got, Write(d)) ELSE got)
      /\ deleted' = (deleted \/ (u = "delname" /\ Deletes(d)))
      /\ told' = IF u = "verdict" THEN IF d.kind = "#" THEN "missing" ELSE "deleted" ELSE told
  BY <1>3 DEF Accepts
<1> QED BY <1>2, <1>3, <1>4, <1>5, <1>6, <1>7

LEMMA TruthSame ==
  ASSUME InTruth, UNCHANGED <<got, deleted, told>>
  PROVE  InTruth'
BY DEF InTruth, InOrder

\* The command gets to the server,
LEMMA AcceptsCommand ==
  ASSUME IInv, InTruth, NEW q \in Peer, NEW d, Accepts(q, d), NEW x \in Command, Asks(x)
  PROVE  /\ InTruth' /\ UNCHANGED <<plan, got>> /\ NextPair("client")' = NextPair("client")
         /\ x = "LIST" => Lists'
         /\ x # "LIST" => Echoes(x)'
<1>1. "client" \in Peer /\ "server" \in Peer /\ Other("server") = "client" /\ Other("client") = "server"
  BY DEF Peer, Other
<1>2. PICK t : t = Tail(ClientCalls(x)) OBVIOUS
<1>3. PICK g \in Greetings : Says("client", udplastsend(x, 0), t, g) BY <1>2 DEF Asks
<1>4. g = Ready
  <2>1. script[q] = g /\ Head(script[q]).op = "recv" BY <1>1, <1>3, HearsSays DEF Accepts
  <2> QED BY <2>1, GreetingsListen
<1>5. Head(g) = udplastrecv("command") BY <1>4, OnlyIs DEF Ready
<1>6. udplastsend(x, 0).kind = x BY SaidCalls
<1>7. /\ q = "server" /\ Head(script[q]).kind = "command" /\ d.kind = x
      /\ Left("client")' = t /\ Heard("client")' /\ Heard("server")' /\ Left("server")' \in NextCalls(q, d)
      /\ NextPair("client")' = NextPair("client") /\ Coming("server")' = {}
      /\ UNCHANGED <<plan, file, got, deleted, told>>
  BY <1>1, <1>3, <1>5, <1>6, AcceptsSaid
<1>8. InTruth' BY <1>7, TruthSame
<1>9. t = Tail(ClientCalls(x)') BY <1>2, <1>7, CallsSame
<1>10. Left("server")' = Serve(x) \o IF x \in {"GET", "DEL", "PUT"} THEN <<>> ELSE <<udplastrecv("command")>>
  BY <1>7 DEF NextCalls
<1>11. x = "LIST" => Lists'
  <2>1. ASSUME x = "LIST" PROVE Lists'
    <3>1. Left("server")' = Serve("LIST") \o Ready BY <2>1, <1>10 DEF Ready, Only
    <3>2. PICK s : s = Left("server")' OBVIOUS
    <3>3. Listing(s) BY <3>1, <3>2, ListingStarts
    <3>4. Left("client")' = Tail(ClientCalls("LIST")') BY <2>1, <1>7, <1>9
    <3> QED BY <3>2, <3>3, <3>4, <1>7 DEF Lists, Listing
  <2> QED BY <2>1
<1>12. x # "LIST" => Echoes(x)'
  <2>1. ASSUME x # "LIST" PROVE Echoes(x)'
    <3>1. x \in {"GET", "DEL", "PUT"} BY <2>1 DEF Command
    <3>2. Awaited(x) \in Use BY <3>1, Names DEF Awaited
    <3>3. Serve(x) = <<udplastsend(x, 0)>> \o Only(Awaited(x))
      BY <3>1 DEF Serve, Awaited, Command, Only
    <3>4. Serve(x) \o <<>> = Serve(x)
      <4>1. Only(Awaited(x)) \in Seq(Call) /\ udplastsend(x, 0) \in Call BY <3>2, OnlyIs, SaidCalls
      <4>2. Serve(x) \in Seq(Call) BY <3>3, <4>1, Begun
      <4> QED BY <4>2, ConcatEmptySeq
    <3>5. Left("server")' = <<udplastsend(x, 0)>> \o Only(Awaited(x)) BY <1>10, <3>1, <3>3, <3>4
    <3>6. Says("server", udplastsend(x, 0), Only(Awaited(x)), t)'
      BY <1>1, <1>7, <3>5 DEF Says, Only
    <3> QED BY <3>6, <1>9 DEF Echoes
  <2> QED BY <2>1
<1> QED BY <1>7, <1>8, <1>11, <1>12

\* its echo to the client,
LEMMA AcceptsEcho ==
  ASSUME IInv, InTruth, NEW q \in Peer, NEW d, Accepts(q, d), NEW x \in {"GET", "DEL", "PUT"}, Echoes(x)
  PROVE  /\ InTruth' /\ UNCHANGED <<plan, got>> /\ NextPair("client")' = NextPair("client")
         /\ x # "PUT" => GivesName(x)'
         /\ x = "PUT" => Announces' \/ Finished'
<1>1. "client" \in Peer /\ "server" \in Peer /\ Other("server") = "client" /\ Other("client") = "server"
  BY DEF Peer, Other
<1>2. x \in Command BY Names
<1>3. PICK t, w : t = Tail(ClientCalls(x)) /\ w = Only(Awaited(x)) OBVIOUS
<1>4. Says("server", udplastsend(x, 0), w, t) BY <1>3 DEF Echoes
<1>5. Head(t) = udplastrecv("echo") BY <1>2, <1>3, ClientScript
<1>6. /\ q = "client" /\ script[q] = t /\ Head(script[q]).kind = "echo"
      /\ Left("server")' = w /\ Heard("client")' /\ Heard("server")' /\ Left("client")' \in NextCalls(q, d)
      /\ NextPair("client")' = NextPair("client")
      /\ UNCHANGED <<plan, file, got, deleted, told>>
  BY <1>1, <1>4, <1>5, AcceptsSaid
<1>7. InTruth' BY <1>6, TruthSame
<1>8. Left("client")' = Tail(t) BY <1>6 DEF NextCalls
<1>9. ASSUME x # "PUT" PROVE GivesName(x)'
  <2>1. Tail(t) = <<udplastsend("name", 0)>> \o Only(Wanted(x))
    BY <1>2, <1>3, <1>9, ClientScript DEF Wanted
  <2>2. Says("client", udplastsend("name", 0), Only(Wanted(x)), Only(Awaited(x)))'
    BY <1>1, <1>3, <1>6, <1>8, <2>1 DEF Says, Only
  <2> QED BY <2>2 DEF GivesName
<1>10. ASSUME x = "PUT" PROVE Announces' \/ Finished'
  <2>1. Left("client")' = PutCalls /\ w = Only("putinfo") BY <1>3, <1>8, <1>10 DEF PutCalls, Awaited
  <2>2. CASE file.exists
    <3>1. PICK z : z = Tail(PutCalls) OBVIOUS
    <3>2. z = Tail(PutCalls') BY <3>1, <1>6, CallsSame
    <3>3. PutCalls = <<udplastsend("info", Chunks)>> \o z BY <2>2, <3>1, PutScript
    <3>4. Says("client", udplastsend("info", Chunks), z, w)' BY <1>1, <1>6, <2>1, <3>3 DEF Says
    <3> QED BY <1>6, <2>1, <2>2, <3>2, <3>4 DEF Announces
  <2>3. CASE ~file.exists
    <3>1. Left("client")' = <<>> BY <2>1, <2>3, PutScript
    <3>2. \A i \in 1..Len(Left("server")') :
            /\ Left("server")'[i].op = "recv" /\ Left("server")'[i].kind = "putinfo"
      <4>1. \A i \in 1..1 : i = 1 OBVIOUS
      <4> QED BY <1>6, <2>1, <4>1, OnlyIs
    <3> QED BY <3>1, <3>2, <1>6 DEF Finished
  <2> QED BY <2>2, <2>3
<1> QED BY <1>6, <1>7, <1>9, <1>10

\* A file is about to be announced.
LEMMA StartsTransfer ==
  ASSUME NEW p \in Peer, NEW s, SendsFile(s), Left(p)' = s, p = "client" => Len(s) = Chunks + 1,
         Left(Other(p))' = Only(IF Other(p) = "client" THEN "info" ELSE "putinfo2"),
         Heard(p)', Heard(Other(p))', calls'[p] \in Nat, got' = <<>>, Coming(p)' = {}, NextPair(p)' = 0
  PROVE  TransferOf(p, 1, Chunks)'
<1> DEFINE o == Other(p)
           r == calls[p] - accepted[o]
<1>1. calls'[p] = accepted'[o] BY DEF Heard
<1>2. r' = 0 BY <1>1 DEF Other
<1>3. Chunks \in Nat /\ Chunks > 0 /\ Len(s) \in Nat /\ Len(s) >= Chunks + 1
  BY Constants DEF SendsFile
<1>4. Left(o)' = Receives(o, 1, Chunks) BY DEF Receives, Only
<1>5. Len(got') = 0 OBVIOUS
<1>6. ASSUME NEW i \in 1..Len(s) PROVE ChunkCall(s[i], r' + i - 1, Chunks, Len(got'))
  <2>1. i \in Nat /\ r' + i - 1 = i - 1 BY <1>2, <1>3
  <2> QED BY <2>1, <1>5 DEF SendsFile
<1>7. 1 + Chunks <= r' + Len(s) /\ (p = "client" => r' + Len(s) = 1 + Chunks) BY <1>2, <1>3
<1>8. ~(1 <= r' + 1 - 1) BY <1>2
<1> HIDE DEF r
<1>9. Left(p)' = s /\ Heard(o)' /\ Coming(p)' = {} /\ NextPair(p)' = 0 OBVIOUS
<1> QED BY <1>4, <1>5, <1>6, <1>7, <1>8, <1>9
        DEF TransferOf, r, ChunkCall, ChunkPacket, Receives, Other, Only

\* the name to the server,
LEMMA AcceptsNameToDelete ==
  ASSUME IInv, InTruth, NEW q \in Peer, NEW d, Accepts(q, d), GivesName("DEL")
  PROVE  InTruth' /\ UNCHANGED <<plan, got>> /\ Judges'
<1> DEFINE w == Only("delname")
           t == Only("verdict")
<1>1. "client" \in Peer /\ "server" \in Peer /\ Other("server") = "client" /\ Other("client") = "server"
  BY DEF Peer, Other
<1>2. Says("client", udplastsend("name", 0), t, w) BY DEF GivesName, Awaited, Wanted
<1>3. Head(w) = udplastrecv("delname") BY OnlyIs
<1> HIDE DEF w, t
<1>4. /\ Head(script[q]).kind = "delname"
      /\ Left("client")' = t /\ Heard("client")' /\ Heard("server")' /\ Left("server")' \in NextCalls(q, d)
      /\ UNCHANGED <<plan, file, got, told>> /\ deleted' = (deleted \/ Deletes(d))
  BY <1>1, <1>2, <1>3, AcceptsSaid
<1>5. InTruth' BY <1>4 DEF InTruth, InOrder
<1>6. Left("server")' = delFiles(d) \o Ready BY <1>4 DEF NextCalls, Ready, Only
<1>7. ASSUME NEW v \in {"@", "#"}, delFiles(d) = <<udplastsend(v, 0)>>, v = "@" => deleted'
      PROVE  Judges'
  <2>1. Says("server", udplastsend(v, 0), Ready, t)' BY <1>1, <1>4, <1>6, <1>7 DEF Says, Ready, Only
  <2> QED BY <2>1, <1>7 DEF Judges, t
<1>8. ASSUME delFiles(d) = <<>> PROVE Judges'
  <2>1. Ready \in Seq(Call) BY OnlyIs, Names DEF Ready
  <2>2. Left("server")' = Ready BY <2>1, <1>6, <1>8, ConcatEmptySeq
  <2> QED BY <2>2, <1>4 DEF Judges, t, Ready, Only
<1>9. \/ delFiles(d) = <<udplastsend("@", 0)>> /\ Deletes(d)
      \/ delFiles(d) = <<udplastsend("#", 0)>>
      \/ delFiles(d) = <<>>
  BY DEF delFiles
<1>10. Judges' BY <1>4, <1>7, <1>8, <1>9
<1> QED BY <1>4, <1>5, <1>10

LEMMA AcceptsNameToGet ==
  ASSUME IInv, InTruth, NEW q \in Peer, NEW d, Accepts(q, d), GivesName("GET"), got = <<>>
  PROVE  InTruth' /\ UNCHANGED <<plan, got>> /\ (Refuses' \/ Transfers')
<1> DEFINE w == Only("getname")
           t == Only("info")
<1>1. "client" \in Peer /\ "server" \in Peer /\ Other("server") = "client" /\ Other("client") = "server"
  BY DEF Peer, Other
<1>2. Says("client", udplastsend("name", 0), t, w) BY DEF GivesName, Awaited, Wanted
<1>3. Head(w) = udplastrecv("getname") BY OnlyIs
<1> HIDE DEF w, t
<1>4. /\ q = "server" /\ Head(script[q]).kind = "getname"
      /\ Left("client")' = t /\ Heard("client")' /\ Heard("server")' /\ Left("server")' \in NextCalls(q, d)
      /\ NextPair("server")' = 0 /\ Coming("server")' = {}
      /\ UNCHANGED <<plan, file, got, deleted, told>>
  BY <1>1, <1>2, <1>3, AcceptsSaid
<1>5. InTruth' BY <1>4, TruthSame
<1>6. PICK s \in PutFileToClient(d) : s = Left("server")' BY <1>4 DEF NextCalls
<1>7. ASSUME ~Found(d) PROVE Refuses'
  <2>1. s = <<udpsend("nofile", 1)>> \o Ready BY <1>7, FileServed
  <2>2. Says("server", udpsend("nofile", 1), Ready, t)' BY <1>1, <1>4, <1>6, <2>1 DEF Says, Ready, Only
  <2> QED BY <2>2 DEF Refuses, t
<1>8. ASSUME Found(d) PROVE Transfers'
  <2>1. SendsFile(s) BY <1>8, FileServed
  <2>2. calls'["server"] \in Nat
    <3>1. calls \in [Peer -> Nat] /\ calls' = calls BY DEF IInv, Counters, Accepts, Hears
    <3> QED BY <3>1, <1>1
  <2>3. Left("client")' = Only(IF "client" = "client" THEN "info" ELSE "putinfo2") BY <1>4 DEF t
  <2>4. "server" # "client" OBVIOUS
  <2>5. TransferOf("server", 1, Chunks)' BY <1>1, <1>4, <1>6, <2>1, <2>2, <2>3, <2>4, StartsTransfer
  <2>6. Chunks \in 1..Chunks /\ 1 \in 0..1 BY Constants
  <2> QED BY <1>1, <2>5, <2>6 DEF Transfers
<1> QED BY <1>4, <1>5, <1>7, <1>8

\* and its verdict to the client.
LEMMA AcceptsVerdict ==
  ASSUME IInv, InTruth, NEW q \in Peer, NEW d, Accepts(q, d), Judges
  PROVE  InTruth' /\ UNCHANGED <<plan, got>> /\ Menu'
<1> DEFINE w == Only("verdict")
<1>1. "client" \in Peer /\ "server" \in Peer /\ Other("server") = "client" /\ Other("client") = "server"
  BY DEF Peer, Other
<1>2. ~(Heard("client") /\ Heard("server"))
  <2>1. d \in Coming(Other(q)) BY DEF Accepts, Hears
  <2> QED BY <1>1, <2>1, NothingComes DEF Peer
<1>3. PICK v \in {"@", "#"} : Says("server", udplastsend(v, 0), Ready, w) /\ (v = "@" => deleted)
  BY <1>2 DEF Judges
<1>4. Head(w) = udplastrecv("verdict") /\ Tail(w) = <<>> BY OnlyIs
<1> HIDE DEF w
<1>5. PICK t : t = Ready OBVIOUS
<1>6. udplastsend(v, 0).kind = v BY SaidCalls
<1>7. /\ q = "client" /\ script[q] = w /\ Head(script[q]).kind = "verdict" /\ d.kind = v
      /\ Left("server")' = t /\ Heard("client")' /\ Heard("server")' /\ Left("client")' \in NextCalls(q, d)
      /\ UNCHANGED <<plan, file, got, deleted>>
      /\ told' = IF d.kind = "#" THEN "missing" ELSE "deleted"
  BY <1>1, <1>3, <1>4, <1>5, <1>6, AcceptsSaid
<1>8. InTruth' BY <1>3, <1>7 DEF InTruth, InOrder
<1>9. Left("client")' = <<>> BY <1>4, <1>7 DEF NextCalls
<1>10. Left("server")' \in Greetings' BY <1>5, <1>7 DEF Greetings, Ready, Only
<1> QED BY <1>7, <1>8, <1>9, <1>10 DEF Menu

\* A file that is missing is refused,
LEMMA AcceptsRefusal ==
  ASSUME IInv, InTruth, NEW q \in Peer, NEW d, Accepts(q, d), Refuses
  PROVE  InTruth' /\ UNCHANGED <<plan, got>> /\ Finished'
<1> DEFINE w == Only("info")
<1>1. "client" \in Peer /\ "server" \in Peer /\ Other("server") = "client" /\ Other("client") = "server"
  BY DEF Peer, Other
<1>2. Says("server", udpsend("nofile", 1), Ready, w) BY DEF Refuses
<1>3. Head(w) = udplastrecv("info") BY OnlyIs
<1> HIDE DEF w
<1>4. PICK t : t = Ready OBVIOUS
<1>5. udpsend("nofile", 1).kind = "nofile" BY SaidCalls
<1>6. /\ q = "client" /\ Head(script[q]).kind = "info" /\ d.kind = "nofile"
      /\ Left("server")' = t /\ Heard("client")' /\ Left("client")' \in NextCalls(q, d)
      /\ UNCHANGED <<plan, file, got, deleted, told>>
  BY <1>1, <1>2, <1>3, <1>4, <1>5, AcceptsSaid
<1>7. InTruth' BY <1>6, TruthSame
<1>8. Left("client")' = <<>> BY <1>6 DEF NextCalls
<1>9. \A i \in 1..Len(Left("server")') :
        Left("server")'[i].op = "recv" /\ Left("server")'[i].kind = "command"
  <2>1. \A i \in 1..1 : i = 1 OBVIOUS
  <2> QED BY <1>4, <1>6, <2>1, OnlyIs DEF Ready
<1> QED BY <1>6, <1>7, <1>8, <1>9 DEF Finished

\* one that the client has is announced to the server,
LEMMA AcceptsAnnouncement ==
  ASSUME IInv, InTruth, NEW q \in Peer, NEW d, Accepts(q, d), Announces
  PROVE  InTruth' /\ UNCHANGED <<plan, got>> /\ Agrees' /\ NextPair("client")' = NextPair("client")
<1> DEFINE w == Only("putinfo")
<1>1. "client" \in Peer /\ "server" \in Peer /\ Other("server") = "client" /\ Other("client") = "server"
  BY DEF Peer, Other
<1>2. PICK t : t = Tail(PutCalls) OBVIOUS
<1>3. file.exists /\ Says("client", udplastsend("info", Chunks), t, w) BY <1>2 DEF Announces
<1>4. Head(w) = udplastrecv("putinfo") BY OnlyIs
<1> HIDE DEF w
<1>5. /\ q = "server" /\ Head(script[q]).kind = "putinfo"
      /\ Left("client")' = t /\ Heard("client")' /\ Heard("server")' /\ Left("server")' \in NextCalls(q, d)
      /\ NextPair("client")' = NextPair("client")
      /\ UNCHANGED <<plan, file, got, deleted, told>>
  BY <1>1, <1>3, <1>4, AcceptsSaid
<1>6. InTruth' BY <1>5, TruthSame
<1>7. t = Tail(PutCalls') BY <1>2, <1>5, CallsSame
<1>8. Left("server")' = <<udplastsend("answer", 0)>> \o Only("putinfo2")
  BY <1>5 DEF NextCalls, Only
<1>9. Says("server", udplastsend("answer", 0), Only("putinfo2"), t)' BY <1>1, <1>5, <1>8 DEF Says, Only
<1>10. file'.exists BY <1>3, <1>5
<1> QED BY <1>5, <1>6, <1>7, <1>9, <1>10 DEF Agrees

\* whose answer sets the client going.
LEMMA AcceptsAgreement ==
  ASSUME IInv, InTruth, NEW q \in Peer, NEW d, Accepts(q, d), Agrees, got = <<>>, NextPair("client") = 0
  PROVE  InTruth' /\ UNCHANGED <<plan, got>> /\ Transfers'
<1> DEFINE w == Only("putinfo2")
<1>1. "client" \in Peer /\ "server" \in Peer /\ Other("server") = "client" /\ Other("client") = "server"
  BY DEF Peer, Other
<1>2. PICK t, s : t = Tail(PutCalls) /\ s = Tail(Tail(PutCalls)) OBVIOUS
<1>3. file.exists /\ Says("server", udplastsend("answer", 0), w, t) BY <1>2 DEF Agrees
<1>4. Head(t) = udplastrecv("answer") BY <1>2, <1>3, PutScript
<1> HIDE DEF w
<1>5. /\ q = "client" /\ script[q] = t /\ Head(script[q]).kind = "answer"
      /\ Left("server")' = w /\ Heard("client")' /\ Heard("server")' /\ Left("client")' \in NextCalls(q, d)
      /\ NextPair("client")' = NextPair("client") /\ Coming("client")' = {}
      /\ UNCHANGED <<plan, file, got, deleted, told>>
  BY <1>1, <1>3, <1>4, AcceptsSaid
<1>6. InTruth' BY <1>5, TruthSame
<1>7. Left("client")' = s BY <1>2, <1>5 DEF NextCalls
<1>8. SendsFile(s) /\ Len(s) = Chunks + 1
  <2>1. s = <<udplastsend("info", Chunks)>> \o SendChunks("last") BY <1>2, <1>3, PutScript
  <2> QED BY <2>1, FileScript
<1>9. calls'["client"] \in Nat
  <2>1. calls \in [Peer -> Nat] /\ calls' = calls BY DEF IInv, Counters, Accepts, Hears
  <2> QED BY <2>1, <1>1
<1>10. Left("server")' = Only(IF "server" = "client" THEN "info" ELSE "putinfo2") BY <1>5 DEF w
<1>11. TransferOf("client", 1, Chunks)' BY <1>1, <1>5, <1>7, <1>8, <1>9, <1>10, StartsTransfer
<1>12. Chunks \in 1..Chunks /\ 1 \in 0..1 BY Constants
<1> QED BY <1>1, <1>5, <1>6, <1>11, <1>12 DEF Transfers

\* The client reads the listing up to its end.
LEMMA AcceptsEntry ==
  ASSUME IInv, InTruth, NEW q \in Peer, NEW d, Accepts(q, d), Lists
  PROVE  InTruth' /\ UNCHANGED <<plan, got>> /\ (Lists' \/ Menu')
<1> DEFINE w == Only("entry")
<1>1. "client" \in Peer /\ "server" \in Peer /\ Other("server") = "client" /\ Other("client") = "server"
  BY DEF Peer, Other
<1>2. Heard("client") BY DEF Lists
<1>3. /\ Left(q) = script[q] /\ d \in Coming(Other(q)) /\ Head(script[q]).op = "recv"
      /\ d.id = accepted[q] + 1 /\ UNCHANGED <<plan, file, calls>> /\ accepted'[q] = d.id
      /\ accepted'[Other(q)] = accepted[Other(q)]
      /\ Left(Other(q))' = Left(Other(q)) /\ Coming(Other(q))' \subseteq Coming(Other(q))
      /\ Left(q)' \in NextCalls(q, d)
  BY DEF Accepts, Hears
<1>4. q = "client"
  <2>1. q # "server" BY <1>1, <1>2, <1>3, NothingComes
  <2> QED BY <2>1 DEF Peer
<1>5. "LIST" \in Command BY Names
<1>6. PICK t : t = Tail(ClientCalls("LIST")) OBVIOUS
<1>7. Head(t) = udplastrecv("echo") /\ Tail(t) = w BY <1>5, <1>6, ClientScript
<1>8. script["client"] \in {t, w} BY <1>3, <1>4, <1>6 DEF Lists
<1>9. Head(w) = udplastrecv("entry") /\ Tail(w) = <<>> BY OnlyIs
<1> HIDE DEF w
<1>10. PICK u \in {"echo", "entry"} : Head(script[q]).kind = u /\ Head(script[q]) = udplastrecv(u)
  BY <1>4, <1>7, <1>8, <1>9, OnlyIs
<1>11. UNCHANGED <<got, deleted, told>>
  <2>1. deleted \in BOOLEAN BY DEF IInv, Written
  <2> QED BY <1>10, <2>1 DEF Accepts
<1>12. InTruth' BY <1>11, TruthSame
<1>13. \/ Left("client")' = w
       \/ Left("client")' = <<>> /\ d.kind = "@"
  <2>1. CASE script["client"] = t
    <3>1. Head(script[q]).kind = "echo" BY <1>4, <1>7, <2>1, OnlyIs
    <3> QED BY <1>3, <1>4, <1>7, <2>1, <3>1 DEF NextCalls
  <2>2. CASE script["client"] = w
    <3>1. Head(script[q]).kind = "entry" BY <1>4, <1>9, <2>2, OnlyIs
    <3>2. Left("client")' = IF d.kind = "@" THEN <<>> ELSE w
      BY <1>3, <1>4, <1>9, <2>2, <3>1 DEF NextCalls
    <3> QED BY <3>2
  <2> QED BY <1>8, <2>1, <2>2
<1>14. Heard("client")' BY <1>1, <1>2, <1>3, <1>4 DEF Heard
<1>15. ASSUME Left("client")' = w PROVE Lists'
  <2>1. Listing(Left("server")') BY <1>1, <1>3, <1>4 DEF Lists
  <2>2. ASSUME NEW e \in Coming("server")', e.kind = "@"
        PROVE  e.id = calls'["server"] /\ Left("server")' = Ready
    BY <1>1, <1>3, <1>4, <2>2 DEF Lists
  <2> QED BY <1>14, <1>15, <2>1, <2>2 DEF Lists, Listing, w, Only, Ready
<1>16. ASSUME Left("client")' = <<>>, d.kind = "@" PROVE Menu'
  <2>1. d.id = calls["server"] /\ Left("server") = Ready BY <1>1, <1>3, <1>4, <1>16 DEF Lists
  <2>2. Heard("server")' BY <1>1, <1>3, <1>4, <2>1 DEF Heard
  <2>3. Left("server")' \in Greetings' BY <1>1, <1>3, <1>4, <2>1 DEF Greetings, Ready, Only
  <2> QED BY <1>14, <1>16, <2>2, <2>3 DEF Menu
<1> QED BY <1>3, <1>11, <1>12, <1>13, <1>15, <1>16

\* Where nothing has been sent that was not returned.
LEMMA NothingToAccept ==
  ASSUME IInv, NEW q \in Peer, NEW d, Hears(q, d), Menu \/ Finished
  PROVE  FALSE
<1>1. "client" \in Peer /\ "server" \in Peer /\ Other("server") = "client" /\ Other("client") = "server"
  BY DEF Peer, Other
<1>2. Heard("client") BY DEF Menu, Finished
<1>3. d \in Coming(Other(q)) /\ Left(q) # <<>> BY DEF Hears
<1>4. q = "client"
  <2>1. q # "server" BY <1>1, <1>2, <1>3, NothingComes
  <2> QED BY <2>1 DEF Peer
<1>5. Menu
  <2>1. ~Finished BY <1>3, <1>4 DEF Finished
  <2> QED BY <2>1
<1>6. Heard("server") BY <1>5 DEF Menu
<1> QED BY <1>1, <1>3, <1>4, <1>6, NothingComes

\* The side that a file comes to returns the next packet of it.
LEMMA HearsTransfer ==
  ASSUME IInv, NEW q \in Peer, NEW d, Hears(q, d), NEW p \in Peer, NEW a \in 0..1,
         NEW D \in 1..Chunks, TransferOf(p, a, D)
  PROVE  /\ q = Other(p) /\ Other(q) = p /\ script[q] = Receives(q, a, D) /\ Heard(q)'
         /\ UNCHANGED <<plan, calls>> /\ d \in Coming(p) /\ d.id = accepted[q] + 1
         /\ accepted'[q] = accepted[q] + 1 /\ Left(p)' = Left(p) /\ NextPair(p)' = NextPair(p)
         /\ Coming(p)' \subseteq Coming(p) /\ \A e \in Coming(p)' : e.id > accepted[q] + 1
         /\ \A e \in Coming(p) : e.id \in Nat /\ (e.id = d.id => ChunkPacket(e, 1 - a, D, Len(got)))
         /\ calls[p] \in Nat /\ accepted[q] \in Nat /\ calls[p] >= accepted[q] + 1
         /\ Len(got) \in Nat /\ Left(p) \in Seq(Call)
<1> DEFINE o == Other(p)
<1>1. o \in Peer /\ o # p /\ Other(o) = p BY Peers
<1>2. /\ Left(o) = Receives(o, a, D) /\ Heard(o)
      /\ \A e \in Coming(p) : ChunkPacket(e, e.id - accepted[o] - a, D, Len(got))
  BY DEF TransferOf
<1>3. q = o
  <2>1. d \in Coming(Other(q)) BY DEF Hears
  <2>2. q # p BY <1>1, <1>2, <2>1, NothingComes
  <2> QED BY <1>1, <2>2, Peers
<1>4. /\ script[o] = Left(o) /\ d \in Coming(p) /\ d.id = accepted[o] + 1
      /\ UNCHANGED <<plan, calls>> /\ accepted'[o] = d.id /\ accepted'[p] = accepted[p]
      /\ Left(p)' = Left(p) /\ NextPair(p)' = NextPair(p) /\ Coming(p)' \subseteq Coming(p)
  BY <1>1, <1>3 DEF Hears
<1>5. Heard(o)' BY <1>1, <1>2, <1>4 DEF Heard
<1>6. calls[p] \in Nat /\ accepted[o] \in Nat BY <1>1 DEF IInv, Counters
<1>7. \A e \in Coming(p) : e.id \in Nat BY ComingIds DEF IInv
<1>8. calls[p] >= accepted[o] + 1
  <2>1. d.id <= calls[p] BY <1>4, ComingIds DEF IInv
  <2> QED BY <2>1, <1>4, <1>6
<1>9. ASSUME NEW e \in Coming(p)' PROVE e.id > accepted[o] + 1
  <2>1. e.id > accepted'[o] BY DEF Coming, Other
  <2> QED BY <2>1, <1>4
<1>10. ASSUME NEW e \in Coming(p), e.id = d.id PROVE ChunkPacket(e, 1 - a, D, Len(got))
  <2>1. e.id - accepted[o] - a = 1 - a BY <1>4, <1>6, <1>10, Constants
  <2> QED BY <1>2, <2>1
<1>11. Len(got) \in Nat
  <2>1. got \in Seq([kind : Kind, n : Nat]) BY DEF IInv, Written
  <2> QED BY <2>1
<1>12. Left(p) \in Seq(Call) BY LeftTyped
<1> HIDE DEF o
<1> QED BY <1>1, <1>2, <1>3, <1>4, <1>5, <1>6, <1>7, <1>8, <1>9, <1>10, <1>11, <1>12 DEF o

\* The file's length sets it going.
LEMMA AcceptsLength ==
  ASSUME IInv, InTruth, NEW q \in Peer, NEW d, Accepts(q, d), d.kind = "info" => d.n = Chunks,
         NEW p \in Peer, NEW D \in 1..Chunks, TransferOf(p, 1, D)
  PROVE  InTruth' /\ UNCHANGED plan /\ TransferOf(p, 0, D)'
<1> DEFINE r == calls[p] - accepted[q]
           g == Len(got)
           s == Left(p)
<1>1. 1 \in 0..1 /\ D \in Nat BY Constants
<1>2. Hears(q, d) /\ Head(script[q]).op = "recv" /\ Left(q)' \in NextCalls(q, d) BY DEF Accepts
<1>3. /\ q = Other(p) /\ Other(q) = p /\ script[q] = Receives(q, 1, D) /\ Heard(q)'
      /\ UNCHANGED <<plan, calls>> /\ d \in Coming(p)
      /\ accepted'[q] = accepted[q] + 1 /\ Left(p)' = Left(p) /\ NextPair(p)' = NextPair(p)
      /\ Coming(p)' \subseteq Coming(p)
      /\ ChunkPacket(d, 1 - 1, D, Len(got))
      /\ calls[p] \in Nat /\ accepted[q] \in Nat
  BY <1>1, <1>2, HearsTransfer
<1>4. /\ D = Chunks /\ g = 0 /\ 1 + D <= r + Len(s) /\ (p = "client" => r + Len(s) = 1 + D)
      /\ \A i \in 1..Len(s) : ChunkCall(s[i], r + i - 1, D, g)
      /\ \A e \in Coming(p) : ChunkPacket(e, e.id - accepted[q] - 1, D, g)
      /\ 1 <= r + 1 - 1 /\ r + 1 - 1 < D => NextPair(p) = g + 2 * (r - 1)
  BY <1>3 DEF TransferOf
<1>5. PICK u \in {"info", "putinfo2"} :
        Head(script[q]).kind = u /\ (u = "info" <=> q = "client")
  <2>1. script[q] = Only(IF q = "client" THEN "info" ELSE "putinfo2") BY <1>3 DEF Receives
  <2> QED BY <2>1, OnlyIs
<1>6. d.n = D /\ d.kind = "info" BY <1>3, <1>4 DEF ChunkPacket
<1>7. Left(q)' = Receives(q, 0, D)
  <2>1. CASE u = "info"
    <3>1. Left(q)' = RecvFile(D) BY <1>2, <1>5, <1>6, <2>1 DEF NextCalls
    <3>2. RecvFile(D) \in Seq(Call)
      <4>1. udprecv \in Call /\ udplastrecv("chunk") \in Call BY Names DEF udprecv, udplastrecv, Call
      <4>2. RecvFile(D) \in [1..D -> Call] BY <4>1 DEF RecvFile
      <4> QED BY <1>1, <4>2, FunctionIsSeq
    <3>3. RecvFile(D) \o <<>> = RecvFile(D) BY <3>2, ConcatEmptySeq
    <3>4. Receives(q, 0, D) = RecvFile(D) \o <<>>
      <4>1. q = "client" BY <1>5, <2>1
      <4>2. 0 # 1 OBVIOUS
      <4> QED BY <4>1, <4>2 DEF Receives
    <3> QED BY <3>1, <3>3, <3>4
  <2>2. CASE u = "putinfo2"
    <3>1. GetFileFromClient(d) = {RecvFile(D)} BY <1>6 DEF GetFileFromClient
    <3>2. Left(q)' = RecvFile(D) \o Ready BY <1>2, <1>5, <2>2, <3>1 DEF NextCalls, Ready, Only
    <3> QED BY <3>2, <1>5, <2>2 DEF Receives
  <2> QED BY <2>1, <2>2
<1>8. UNCHANGED <<got, deleted, told>>
  <2>1. deleted \in BOOLEAN BY DEF IInv, Written
  <2> QED BY <1>5, <2>1 DEF Accepts
<1>9. InTruth' BY <1>8, TruthSame
<1>10. Len(s) \in Nat /\ r \in Nat /\ r' = r - 1 /\ r >= 1
  <2>1. s \in Seq(Call) /\ calls[p] >= accepted[q] + 1 BY <1>1, <1>2, HearsTransfer
  <2>2. r' = calls[p] - (accepted[q] + 1) BY <1>3
  <2>3. calls[p] \in Nat /\ accepted[q] \in Nat BY <1>3
  <2>4. Len(s) \in Nat BY <2>1
  <2> HIDE DEF s
  <2> QED BY <2>1, <2>2, <2>3, <2>4
<1>11. PICK z : z = r' OBVIOUS
<1>12. z = r - 1 BY <1>10, <1>11
<1> HIDE DEF r, s
<1>13. 0 + D <= z + Len(s) /\ (p = "client" => z + Len(s) = 0 + D) BY <1>1, <1>4, <1>10, <1>12
<1>14. ASSUME NEW i \in 1..Len(s) PROVE ChunkCall(s[i], z + i - 0, D, g)
  <2>1. i \in Nat /\ z + i - 0 = r + i - 1 BY <1>10, <1>12
  <2> QED BY <2>1, <1>4
<1>15. ASSUME NEW e \in Coming(p)' PROVE ChunkPacket(e, e.id - accepted'[q] - 0, D, g)
  <2>1. e.id \in Nat /\ e \in Coming(p) BY <1>1, <1>2, <1>3, HearsTransfer
  <2>2. e.id - accepted'[q] - 0 = e.id - accepted[q] - 1 BY <1>3, <2>1
  <2> QED BY <2>1, <2>2, <1>4
<1>16. z + 1 - 0 # 0 /\ (1 <= z + 1 - 0 /\ z + 1 - 0 < D => NextPair(p) = g + 2 * (z - 0))
  <2>1. z + 1 - 0 = r + 1 - 1 /\ z - 0 = r - 1 /\ z + 1 - 0 # 0 BY <1>10, <1>12
  <2> QED BY <2>1, <1>4
<1>17. Left(p)' = s /\ NextPair(p)' = NextPair(p) /\ Len(got') = g BY <1>3, <1>8 DEF s
<1>18. calls'[p] - accepted'[q] = z BY <1>11 DEF r
<1> HIDE DEF g
<1>19. TransferOf(p, 0, D)'
  BY SMTT(30), <1>3, <1>7, <1>13, <1>14, <1>15, <1>16, <1>17, <1>18
     DEF TransferOf, ChunkCall, ChunkPacket, Receives, Other
<1> QED BY <1>3, <1>9, <1>19

\* What is received first, in a file of D chunks.
LEMMA ReceivesFirst ==
  ASSUME NEW q \in Peer, NEW D \in 1..Chunks
  PROVE  /\ D > 1 => /\ Head(Receives(q, 0, D)) = udprecv
                     /\ Tail(Receives(q, 0, D)) = Receives(q, 0, D - 1)
         /\ D = 1 => /\ Head(Receives(q, 0, D)) = udplastrecv("chunk")
                     /\ Tail(Receives(q, 0, D)) = IF q = "client" THEN <<>> ELSE Ready
<1>1. PICK rest \in Seq(Call) : rest = IF q = "client" THEN <<>> ELSE Ready
  <2>1. Ready \in Seq(Call) BY OnlyIs, Names DEF Ready
  <2>2. <<>> \in Seq(Call) OBVIOUS
  <2> QED BY <2>1, <2>2
<1>2. \A n : Receives(q, 0, n) = RecvFile(n) \o rest
  <2>1. 0 # 1 OBVIOUS
  <2> QED BY <1>1, <2>1 DEF Receives
<1>3. /\ Head(RecvFile(D) \o rest) = (IF D > 1 THEN udprecv ELSE udplastrecv("chunk"))
      /\ D > 1 => Tail(RecvFile(D) \o rest) = RecvFile(D - 1) \o rest
      /\ D = 1 => Tail(RecvFile(D) \o rest) = rest
  BY RecvFileNext
<1>4. D = 1 => ~(D > 1) OBVIOUS
<1> QED BY <1>1, <1>2, <1>3, <1>4

\* Two halves that follow what is written.
LEMMA PairInOrder ==
  ASSUME InOrder, NEW S, got \in Seq(S), NEW x \in S, NEW y \in S, got' = got \o <<x, y>>,
         x.kind = "pair", y.kind = "pair", x.n = Len(got) + 1, y.n = Len(got) + 2
  PROVE  InOrder' /\ Len(got') = Len(got) + 2
<1>1. <<x, y>> \in Seq(S) /\ Len(<<x, y>>) = 2 /\ <<x, y>>[1] = x /\ <<x, y>>[2] = y /\ Len(got) \in Nat
  OBVIOUS
<1>2. PICK w \in Seq(S) : w = <<x, y>> /\ Len(w) = 2 /\ w[1] = x /\ w[2] = y BY <1>1
<1>3. PICK g \in Seq(S) : g = got BY <1>1
<1>4. /\ Len(g \o w) = Len(g) + 2 /\ (\A k \in 1..Len(g) : (g \o w)[k] = g[k])
      /\ \A k \in 1..2 : (g \o w)[Len(g) + k] = w[k]
  BY <1>2, ConcatProperties
<1>5. ASSUME NEW k \in 1..Len(got')
      PROVE  got'[k].n = k /\ got'[k].kind \in {"pair", "last", "cut"}
  <2>1. Len(g) \in Nat /\ k \in 1..(Len(g) + 2) BY <1>1, <1>2, <1>3, <1>4
  <2>2. CASE k \in 1..Len(g)
    <3>1. got'[k] = got[k] BY <2>2, <1>2, <1>3, <1>4
    <3> QED BY <3>1, <2>2, <1>3 DEF InOrder
  <2>3. CASE k = Len(g) + 1
    <3>1. 1 \in 1..2 OBVIOUS
    <3>2. got'[k] = x BY <2>3, <3>1, <1>2, <1>3, <1>4
    <3> QED BY <3>2, <2>3, <1>3
  <2>4. CASE k = Len(g) + 2
    <3>1. 2 \in 1..2 OBVIOUS
    <3>2. got'[k] = y BY <2>4, <3>1, <1>2, <1>3, <1>4
    <3> QED BY <3>2, <2>4, <1>3
  <2> QED BY <2>1, <2>2, <2>3, <2>4
<1>6. Len(got') = Len(got) + 2 BY <1>2, <1>3, <1>4
<1> QED BY <1>5, <1>6 DEF InOrder

\* A transfer, put together after a step.
FileCalls(s, r, a, D, g)   == \A i \in 1..Len(s) : ChunkCall(s[i], r + i - a, D, g)
FilePackets(S, b, a, D, g) == \A d \in S : ChunkPacket(d, d.id - b - a, D, g)

LEMMA TransferIs ==
  ASSUME NEW p \in Peer, NEW q, q = Other(p), NEW a, NEW D, NEW r, NEW b, NEW s, NEW g, NEW S,
         Left(q)' = Receives(q, a, D), Heard(q)', a = 1 => D = Chunks /\ g = 0,
         Left(p)' = s, calls'[p] - accepted'[q] = r, accepted'[q] = b, Len(got') = g, Coming(p)' = S,
         a + D <= r + Len(s), p = "client" => r + Len(s) = a + D,
         FileCalls(s, r, a, D, g), FilePackets(S, b, a, D, g),
         r + 1 - a = 0 => NextPair(p)' = 0,
         1 <= r + 1 - a /\ r + 1 - a < D => NextPair(p)' = g + 2 * (r - a)
  PROVE  TransferOf(p, a, D)'
BY DEF TransferOf, FileCalls, FilePackets, ChunkCall, ChunkPacket, Receives, Other

\* The next pair comes in.
LEMMA AcceptsHalves ==
  ASSUME IInv, InTruth, NEW q \in Peer, NEW d \in Datagram, NEW e \in Datagram, AcceptsPair(q, d, e),
         NEW p \in Peer, NEW D \in 1..Chunks, TransferOf(p, 0, D)
  PROVE  InTruth' /\ UNCHANGED plan /\ D > 1 /\ TransferOf(p, 0, D - 1)'
<1> DEFINE r == calls[p] - accepted[q]
           g == Len(got)
           s == Left(p)
<1>1. 0 \in 0..1 /\ D \in Nat /\ D >= 1 BY Constants
<1>2. /\ Hears(q, d) /\ e \in Coming(Other(q)) /\ e.id = d.id /\ e.seqNo = d.seqNo + 1
      /\ Head(script[q]).op = "recvPair" /\ Left(q)' = Tail(script[q])
      /\ got' = got \o <<Write(d), Write(e)>> /\ UNCHANGED <<deleted, told>>
  BY DEF AcceptsPair
<1>3. /\ q = Other(p) /\ Other(q) = p /\ script[q] = Receives(q, 0, D) /\ Heard(q)'
      /\ UNCHANGED <<plan, calls>> /\ d \in Coming(p)
      /\ accepted'[q] = accepted[q] + 1 /\ Left(p)' = Left(p) /\ NextPair(p)' = NextPair(p)
      /\ Coming(p)' \subseteq Coming(p)
      /\ calls[p] \in Nat /\ accepted[q] \in Nat /\ calls[p] >= accepted[q] + 1
      /\ Len(got) \in Nat /\ Left(p) \in Seq(Call)
  BY <1>1, <1>2, HearsTransfer
<1>4. ChunkPacket(d, 1 - 0, D, g) /\ ChunkPacket(e, 1 - 0, D, g)
  <2>1. \A x \in Coming(p) : x.id = d.id => ChunkPacket(x, 1 - 0, D, Len(got))
    BY <1>1, <1>2, HearsTransfer
  <2> QED BY <2>1, <1>2, <1>3
<1>5. D > 1
  <2>1. ASSUME D = 1 PROVE FALSE
    <3>1. Head(script[q]) = udplastrecv("chunk") BY <2>1, <1>3, ReceivesFirst
    <3> QED BY <3>1, <1>2, OnlyIs
  <2> QED BY <2>1, <1>1
<1>6. Left(q)' = Receives(q, 0, D - 1) BY <1>2, <1>3, <1>5, ReceivesFirst
<1>7. d.kind = "pair" /\ e.kind = "pair" /\ d.n = g + 1 /\ e.n = g + 2
  <2>1. /\ d.kind = "pair" /\ d.n = d.seqNo + 1 /\ d.n \in {g + 2 * (1 - 0) - 1, g + 2 * (1 - 0)}
        /\ e.kind = "pair" /\ e.n = e.seqNo + 1 /\ e.n \in {g + 2 * (1 - 0) - 1, g + 2 * (1 - 0)}
    <3>1. 1 <= 1 - 0 /\ 1 - 0 < D BY <1>1, <1>5
    <3> QED BY <3>1, <1>4 DEF ChunkPacket
  <2>2. d.seqNo \in Nat /\ e.seqNo \in Nat
    <3>1. PairSeq \subseteq Nat /\ NoSeq \in Nat BY Constants DEF PairSeq, NoSeq
    <3> QED BY <3>1 DEF Datagram
  <2> HIDE DEF g
  <2>3. g \in Nat BY <1>3 DEF g
  <2> QED BY <1>2, <2>1, <2>2, <2>3
<1>8. InOrder' /\ Len(got') = g + 2
  <2> DEFINE S == [kind : Kind, n : Nat]
  <2>1. got \in Seq(S) BY DEF IInv, Written
  <2>2. Write(d) \in S /\ Write(e) \in S BY DEF Write, Datagram
  <2>3. /\ Write(d).kind = "pair" /\ Write(e).kind = "pair"
        /\ Write(d).n = Len(got) + 1 /\ Write(e).n = Len(got) + 2
    BY <1>7 DEF Write
  <2>4. InOrder BY DEF InTruth
  <2> HIDE DEF S
  <2> QED BY <1>2, <2>1, <2>2, <2>3, <2>4, PairInOrder
<1>9. InTruth' BY <1>2, <1>8 DEF InTruth
<1>10. /\ 0 + D <= r + Len(s) /\ (p = "client" => r + Len(s) = 0 + D)
       /\ \A i \in 1..Len(s) : ChunkCall(s[i], r + i - 0, D, g)
       /\ \A x \in Coming(p) : ChunkPacket(x, x.id - accepted[q] - 0, D, g)
       /\ 1 <= r + 1 - 0 /\ r + 1 - 0 < D => NextPair(p) = g + 2 * (r - 0)
  BY <1>3 DEF TransferOf
<1>11. Len(s) \in Nat /\ r \in Nat /\ r' = r - 1 /\ r >= 1 /\ g \in Nat
  <2>1. r' = calls[p] - (accepted[q] + 1) BY <1>3
  <2>2. Len(s) \in Nat BY <1>3
  <2> QED BY <2>1, <2>2, <1>3
<1>12. PICK z : z = r' OBVIOUS
<1>13. z = r - 1 BY <1>11, <1>12
<1>14. Left(p)' = s /\ NextPair(p)' = NextPair(p) BY <1>3
<1>15. calls'[p] - accepted'[q] = z BY <1>12
<1> HIDE DEF r, s, g
<1>16. 0 + (D - 1) <= z + Len(s) /\ (p = "client" => z + Len(s) = 0 + (D - 1))
  BY <1>1, <1>10, <1>11, <1>13
<1>17. ASSUME NEW i \in 1..Len(s) PROVE ChunkCall(s[i], z + i - 0, D - 1, g + 2)
  <2> DEFINE j == z + i - 0
  <2>1. i \in Nat /\ j \in Nat /\ j >= 1 /\ r + i - 0 = j + 1 BY <1>11, <1>13
  <2>2. ChunkCall(s[i], j + 1, D, g) BY <2>1, <1>10
  <2> HIDE DEF j
  <2>3. (j < D - 1 <=> j + 1 < D) /\ (j = D - 1 <=> j + 1 = D) /\ (j > D - 1 <=> j + 1 > D)
        /\ (g + 2) + 2 * j - 1 = g + 2 * (j + 1) - 1 /\ j # 0 /\ 1 <= j + 1
    BY <2>1, <1>1, <1>11
  <2>4. ChunkCall(s[i], j, D - 1, g + 2) BY <2>2, <2>3 DEF ChunkCall
  <2> QED BY <2>4 DEF j
<1>18. ASSUME NEW x \in Coming(p)' PROVE ChunkPacket(x, x.id - accepted'[q] - 0, D - 1, g + 2)
  <2> DEFINE j == x.id - accepted'[q] - 0
  <2>1. x \in Coming(p) /\ x.id \in Nat /\ x.id > accepted[q] + 1
    BY <1>1, <1>2, <1>3, HearsTransfer
  <2>2. j \in Nat /\ j >= 1 /\ x.id - accepted[q] - 0 = j + 1 BY <2>1, <1>3
  <2>3. ChunkPacket(x, j + 1, D, g) BY <2>1, <2>2, <1>10
  <2> HIDE DEF j
  <2>4. (j < D - 1 <=> j + 1 < D) /\ (j = D - 1 <=> j + 1 = D) /\ j # 0 /\ 1 <= j + 1
        /\ (g + 2) + 2 * j - 1 = g + 2 * (j + 1) - 1 /\ (g + 2) + 2 * j = g + 2 * (j + 1)
    BY <2>2, <1>1, <1>11
  <2>5. ChunkPacket(x, j, D - 1, g + 2) BY <2>3, <2>4 DEF ChunkPacket
  <2> QED BY <2>5 DEF j
<1>19. z + 1 - 0 # 0
       /\ (1 <= z + 1 - 0 /\ z + 1 - 0 < D - 1 => NextPair(p) = (g + 2) + 2 * (z - 0))
  <2>1. z + 1 - 0 # 0 BY <1>11, <1>13
  <2>2. ASSUME z + 1 - 0 < D - 1 PROVE NextPair(p) = (g + 2) + 2 * (z - 0)
    <3>1. 1 <= r + 1 - 0 /\ r + 1 - 0 < D BY <2>2, <1>1, <1>11, <1>13
    <3>2. NextPair(p) = g + 2 * (r - 0) BY <3>1, <1>10
    <3> QED BY <3>2, <1>11, <1>13
  <2> QED BY <2>1, <2>2
<1>20. PICK n, y : n = Len(got') /\ n = g + 2 /\ y = D - 1 BY <1>8
<1>21. TransferOf(p, 0, y)'
  <2>1. Left(q)' = Receives(q, 0, y) BY <1>6, <1>20
  <2>2. 0 + y <= z + Len(s) /\ (p = "client" => z + Len(s) = 0 + y) BY <1>16, <1>20
  <2>3. FileCalls(s, z, 0, y, n) BY <1>17, <1>20 DEF FileCalls
  <2>4. PICK S, b : S = Coming(p)' /\ b = accepted'[q] OBVIOUS
  <2>5. FilePackets(S, b, 0, y, n) BY <1>18, <1>20, <2>4 DEF FilePackets
  <2>6. z + 1 - 0 # 0 /\ (1 <= z + 1 - 0 /\ z + 1 - 0 < y => NextPair(p)' = n + 2 * (z - 0))
    BY <1>14, <1>19, <1>20
  <2>7. Len(got') = n /\ 0 # 1 BY <1>20
  <2> QED BY <1>3, <1>14, <1>15, <2>1, <2>2, <2>3, <2>4, <2>5, <2>6, <2>7, TransferIs
<1> QED BY <1>3, <1>5, <1>9, <1>20, <1>21

\* So does the last chunk.
LEMMA LastInOrder ==
  ASSUME InOrder, NEW S, got \in Seq(S), NEW x \in S, got' = Append(got, x),
         x.kind \in {"last", "cut"}, x.n = Len(got) + 1
  PROVE  InOrder'
<1>1. PICK g \in Seq(S) : g = got OBVIOUS
<1>2. /\ Len(Append(g, x)) = Len(g) + 1 /\ Len(g) \in Nat /\ Append(g, x)[Len(g) + 1] = x
      /\ \A k \in 1..Len(g) : Append(g, x)[k] = g[k]
  OBVIOUS
<1>3. ASSUME NEW k \in 1..Len(got')
      PROVE  got'[k].n = k /\ got'[k].kind \in {"pair", "last", "cut"}
  <2>1. k \in 1..Len(g) \/ k = Len(g) + 1 BY <1>1, <1>2
  <2>2. CASE k \in 1..Len(g)
    <3>1. got'[k] = got[k] BY <2>2, <1>1, <1>2
    <3> QED BY <3>1, <2>2, <1>1 DEF InOrder
  <2>3. CASE k = Len(g) + 1
    <3>1. got'[k] = x BY <2>3, <1>1, <1>2
    <3> QED BY <3>1, <2>3, <1>1
  <2> QED BY <2>1, <2>2, <2>3
<1> QED BY <1>3 DEF InOrder

LEMMA AcceptsLastChunk ==
  ASSUME IInv, InTruth, NEW q \in Peer, NEW d \in Datagram, Accepts(q, d),
         NEW p \in Peer, NEW D \in 1..Chunks, TransferOf(p, 0, D)
  PROVE  InTruth' /\ UNCHANGED plan /\ Finished'
<1> DEFINE r == calls[p] - accepted[q]
           g == Len(got)
           s == Left(p)
<1>1. 0 \in 0..1 /\ D \in Nat /\ D >= 1 BY Constants
<1>2. Hears(q, d) /\ Head(script[q]).op = "recv" /\ Left(q)' \in NextCalls(q, d) BY DEF Accepts
<1>3. /\ q = Other(p) /\ Other(q) = p /\ script[q] = Receives(q, 0, D) /\ Heard(q)'
      /\ UNCHANGED <<plan, calls>> /\ accepted'[q] = accepted[q] + 1 /\ Left(p)' = Left(p)
      /\ calls[p] \in Nat /\ accepted[q] \in Nat /\ calls[p] >= accepted[q] + 1
      /\ Len(got) \in Nat /\ Left(p) \in Seq(Call)
  BY <1>1, <1>2, HearsTransfer
<1>4. ChunkPacket(d, 1 - 0, D, g)
  <2>1. d \in Coming(p) /\ \A x \in Coming(p) : x.id = d.id => ChunkPacket(x, 1 - 0, D, Len(got))
    BY <1>1, <1>2, HearsTransfer
  <2> QED BY <2>1
<1>5. D = 1
  <2>1. ASSUME D > 1 PROVE FALSE
    <3>1. Head(script[q]) = udprecv BY <2>1, <1>3, ReceivesFirst
    <3>2. udprecv.op = "recvPair" BY DEF udprecv
    <3> QED BY <3>1, <3>2, <1>2
  <2> QED BY <2>1, <1>1
<1>6. /\ Head(script[q]) = udplastrecv("chunk")
      /\ Tail(script[q]) = IF q = "client" THEN <<>> ELSE Ready
  BY <1>3, <1>5, ReceivesFirst
<1>7. Head(script[q]).kind = "chunk" BY <1>6, OnlyIs
<1>8. Left(q)' = IF q = "client" THEN <<>> ELSE Ready BY <1>2, <1>6, <1>7 DEF NextCalls
<1>9. d.kind \in {"last", "cut"} /\ d.n = g + 1
  <2>1. d.kind \in {"last", "cut"} /\ d.n = g + 2 * (1 - 0) - 1
    <3>1. 1 - 0 = D BY <1>5
    <3> QED BY <3>1, <1>4 DEF ChunkPacket
  <2> HIDE DEF g
  <2>2. g \in Nat BY <1>3 DEF g
  <2> QED BY <2>1, <2>2
<1>10. got' = Append(got, Write(d)) /\ UNCHANGED <<deleted, told>>
  <2>1. deleted \in BOOLEAN BY DEF IInv, Written
  <2> QED BY <1>7, <2>1 DEF Accepts
<1>11. InOrder'
  <2> DEFINE S == [kind : Kind, n : Nat]
  <2>1. got \in Seq(S) BY DEF IInv, Written
  <2>2. Write(d) \in S BY DEF Write, Datagram
  <2>3. Write(d).kind \in {"last", "cut"} /\ Write(d).n = Len(got) + 1 BY <1>9 DEF Write
  <2>4. InOrder BY DEF InTruth
  <2> HIDE DEF S
  <2> QED BY <1>10, <2>1, <2>2, <2>3, <2>4, LastInOrder
<1>12. InTruth' BY <1>10, <1>11 DEF InTruth
<1>13. /\ p = "client" => r + Len(s) = 0 + D
       /\ \A i \in 1..Len(s) : ChunkCall(s[i], r + i - 0, D, g)
  BY <1>3 DEF TransferOf
<1>14. Len(s) \in Nat /\ r \in Nat /\ r >= 1
  <2>1. Len(s) \in Nat BY <1>3
  <2> QED BY <2>1, <1>3
<1>15. Left(p)' = s /\ calls[p] = accepted[q] + r BY <1>3
<1>16. CASE q = "client"
  <2>1. p = "server" BY <1>3, <1>16 DEF Other
  <2> HIDE DEF s, r, g
  <2>2. ASSUME NEW i \in 1..Len(s)
        PROVE  s[i].op \in Sends \/ (s[i].op = "recv" /\ s[i].kind \in {"command", "putinfo"})
    <3>1. r + i - 0 > D BY <1>5, <1>14
    <3>2. s[i].op = "send" \/ s[i] = udplastrecv("command") BY <3>1, <1>13 DEF ChunkCall
    <3> QED BY <3>2, OnlyIs DEF Sends
  <2>3. Left("server")' = s BY <1>15, <2>1
  <2>4. \A i \in 1..Len(Left("server")') :
          \/ Left("server")'[i].op \in Sends
          \/ (Left("server")'[i].op = "recv" /\ Left("server")'[i].kind \in {"command", "putinfo"})
    BY <2>2, <2>3
  <2>5. Left("client")' = <<>> /\ Heard("client")' BY <1>3, <1>8, <1>16
  <2>6. Finished' BY <2>4, <2>5 DEF Finished
  <2> QED BY <2>6, <1>3, <1>12
<1>17. CASE q # "client"
  <2>1. q = "server" /\ p = "client" BY <1>3, <1>17 DEF Other, Peer
  <2> HIDE DEF s, r, g
  <2>2. Len(s) = 0 /\ r = 1 BY <2>1, <1>5, <1>13, <1>14
  <2>3. s = <<>>
    <3>1. s \in Seq(Call) BY <1>3 DEF s
    <3> QED BY <3>1, <2>2, EmptySeq
  <2>4. Left("client")' = <<>> BY <2>1, <2>3, <1>15
  <2>5. Heard("client")' BY <2>1, <2>2, <1>3, <1>15 DEF Heard
  <2>6. Left("server")' = Ready BY <2>1, <1>8
  <2>7. \A i \in 1..Len(Left("server")') :
          Left("server")'[i].op = "recv" /\ Left("server")'[i].kind = "command"
    <3>1. \A i \in 1..1 : i = 1 OBVIOUS
    <3> QED BY <2>6, <3>1, OnlyIs DEF Ready
  <2>8. Finished' BY <2>4, <2>5, <2>7 DEF Finished
  <2> QED BY <2>8, <1>3, <1>12
<1> QED BY <1>16, <1>17

\* udplastrecv returns: the scripts go on together.
LEMMA AcceptsTalk ==
  ASSUME IInv, Talk, InTruth, NEW q \in Peer, NEW d \in Datagram, Accepts(q, d),
         d.kind = "info" => d.n = Chunks
  PROVE  Talk' /\ InTruth'
<1>1. {"LIST", "GET", "PUT", "DEL"} = Command BY Names
<1>2. Hears(q, d) BY DEF Accepts
<1>3. ~Menu /\ ~Finished BY <1>2, NothingToAccept
<1>4. CASE /\ got = <<>>
           /\ \/ Menu \/ Asks("LIST") \/ Lists
              \/ Asks("DEL") \/ Echoes("DEL") \/ GivesName("DEL") \/ Judges
  <2>1. CASE Asks("LIST")
    <3>1. InTruth' /\ got' = got /\ Lists' BY <2>1, <1>1, AcceptsCommand
    <3> QED BY <3>1, <1>4 DEF Talk
  <2>2. CASE Lists
    <3>1. InTruth' /\ got' = got /\ (Lists' \/ Menu') BY <2>2, AcceptsEntry
    <3> QED BY <3>1, <1>4 DEF Talk
  <2>3. CASE Asks("DEL")
    <3>1. InTruth' /\ got' = got /\ Echoes("DEL")' BY <2>3, <1>1, AcceptsCommand
    <3> QED BY <3>1, <1>4 DEF Talk
  <2>4. CASE Echoes("DEL")
    <3>1. InTruth' /\ got' = got /\ GivesName("DEL")' BY <2>4, AcceptsEcho
    <3> QED BY <3>1, <1>4 DEF Talk
  <2>5. CASE GivesName("DEL")
    <3>1. InTruth' /\ got' = got /\ Judges' BY <2>5, AcceptsNameToDelete
    <3> QED BY <3>1, <1>4 DEF Talk
  <2>6. CASE Judges
    <3>1. InTruth' /\ got' = got /\ Menu' BY <2>6, AcceptsVerdict
    <3> QED BY <3>1, <1>4 DEF Talk
  <2> QED BY <1>3, <1>4, <2>1, <2>2, <2>3, <2>4, <2>5, <2>6
<1>5. CASE /\ plan = <<>> /\ got = <<>>
           /\ \/ Asks("GET") \/ Echoes("GET") \/ GivesName("GET") \/ Refuses
              \/ /\ NextPair("client") = 0
                 /\ Asks("PUT") \/ Echoes("PUT") \/ Announces \/ Agrees
  <2>1. CASE Asks("GET")
    <3>1. InTruth' /\ got' = got /\ plan' = plan /\ Echoes("GET")' BY <2>1, <1>1, AcceptsCommand
    <3> QED BY <3>1, <1>5 DEF Talk
  <2>2. CASE Echoes("GET")
    <3>1. InTruth' /\ got' = got /\ plan' = plan /\ GivesName("GET")' BY <2>2, AcceptsEcho
    <3> QED BY <3>1, <1>5 DEF Talk
  <2>3. CASE GivesName("GET")
    <3>1. InTruth' /\ got' = got /\ plan' = plan /\ (Refuses' \/ Transfers')
      BY <2>3, <1>5, AcceptsNameToGet
    <3> QED BY <3>1, <1>5 DEF Talk
  <2>4. CASE Refuses
    <3>1. InTruth' /\ plan' = plan /\ Finished' BY <2>4, AcceptsRefusal
    <3> QED BY <3>1, <1>5 DEF Talk
  <2>5. CASE NextPair("client") = 0 /\ Asks("PUT")
    <3>1. /\ InTruth' /\ got' = got /\ plan' = plan /\ Echoes("PUT")'
          /\ NextPair("client")' = NextPair("client")
      BY <2>5, <1>1, AcceptsCommand
    <3> QED BY <3>1, <2>5, <1>5 DEF Talk
  <2>6. CASE NextPair("client") = 0 /\ Echoes("PUT")
    <3>1. /\ InTruth' /\ got' = got /\ plan' = plan /\ (Announces' \/ Finished')
          /\ NextPair("client")' = NextPair("client")
      BY <2>6, AcceptsEcho
    <3> QED BY <3>1, <2>6, <1>5 DEF Talk
  <2>7. CASE NextPair("client") = 0 /\ Announces
    <3>1. /\ InTruth' /\ got' = got /\ plan' = plan /\ Agrees'
          /\ NextPair("client")' = NextPair("client")
      BY <2>7, AcceptsAnnouncement
    <3> QED BY <3>1, <2>7, <1>5 DEF Talk
  <2>8. CASE NextPair("client") = 0 /\ Agrees
    <3>1. InTruth' /\ plan' = plan /\ Transfers' BY <2>8, <1>5, AcceptsAgreement
    <3> QED BY <3>1, <1>5 DEF Talk
  <2> QED BY <1>5, <2>1, <2>2, <2>3, <2>4, <2>5, <2>6, <2>7, <2>8
<1>6. CASE plan = <<>> /\ (Transfers \/ Finished)
  <2>1. PICK p \in Peer, a \in 0..1, D \in 1..Chunks : TransferOf(p, a, D)
    BY <1>3, <1>6 DEF Transfers
  <2>2. CASE a = 1
    <3>1. InTruth' /\ plan' = plan /\ TransferOf(p, 0, D)' BY <2>1, <2>2, AcceptsLength
    <3>2. 0 \in 0..1 OBVIOUS
    <3> QED BY <3>1, <3>2, <1>6 DEF Talk, Transfers
  <2>3. CASE a = 0
    <3>1. InTruth' /\ plan' = plan /\ Finished' BY <2>1, <2>3, AcceptsLastChunk
    <3> QED BY <3>1, <1>6 DEF Talk
  <2> QED BY <2>2, <2>3
<1> QED BY <1>4, <1>5, <1>6 DEF Talk

\* Where a message is awaited, no pair is received.
LEMMA SaidNotPair ==
  ASSUME IInv, NEW q \in Peer, NEW d, Hears(q, d), Head(script[q]).op = "recvPair",
         NEW p \in Peer, NEW a, NEW left, NEW to, Says(p, a, left, to)
  PROVE  Head(to).op = "recvPair"
BY HearsSays

\* udprecv returns: that happens in a transfer only.
LEMMA AcceptsPairTalk ==
  ASSUME IInv, Talk, InTruth, NEW q \in Peer, NEW d \in Datagram, NEW e \in Datagram,
         AcceptsPair(q, d, e)
  PROVE  Talk' /\ InTruth'
<1>1. Hears(q, d) /\ Head(script[q]).op = "recvPair" BY DEF AcceptsPair
<1>2. ~Menu /\ ~Finished BY <1>1, NothingToAccept
<1>3. "client" \in Peer /\ "server" \in Peer BY DEF Peer
<1>4. \A u : Head(Only(u)).op # "recvPair" BY OnlyIs
<1>5. ASSUME NEW x \in Command PROVE ~Asks(x) /\ ~Echoes(x)
  <2>1. PICK t : t = Tail(ClientCalls(x)) OBVIOUS
  <2>2. Head(t).op # "recvPair" BY <2>1, ClientScript, OnlyIs
  <2>3. ASSUME Echoes(x) PROVE FALSE
    <3>1. Says("server", udplastsend(x, 0), Only(Awaited(x)), t) BY <2>1, <2>3 DEF Echoes
    <3> QED BY <3>1, <2>2, <1>1, <1>3, SaidNotPair
  <2>4. ASSUME Asks(x) PROVE FALSE
    <3>1. PICK g \in Greetings : Says("client", udplastsend(x, 0), t, g) BY <2>1, <2>4 DEF Asks
    <3>2. Head(g).op # "recvPair" BY GreetingsListen
    <3> QED BY <3>1, <3>2, <1>1, <1>3, SaidNotPair
  <2> QED BY <2>3, <2>4
<1>6. ASSUME NEW x, GivesName(x) PROVE FALSE
  <2>1. PICK w : w = Only(Awaited(x)) OBVIOUS
  <2>2. Says("client", udplastsend("name", 0), Only(Wanted(x)), w) BY <2>1, <1>6 DEF GivesName
  <2> QED BY <2>1, <2>2, <1>1, <1>3, <1>4, SaidNotPair
<1>7. ASSUME Judges PROVE FALSE
  <2>1. ~(Left("client") = Only("verdict") /\ Heard("client") /\ Heard("server"))
    <3>1. d \in Coming(Other(q)) /\ Other(q) \in {"client", "server"} BY <1>1, Peers DEF Hears, Other
    <3> QED BY <1>3, <3>1, NothingComes
  <2>2. PICK w : w = Only("verdict") OBVIOUS
  <2>3. PICK v \in {"@", "#"} : Says("server", udplastsend(v, 0), Ready, w)
    BY <2>1, <2>2, <1>7 DEF Judges
  <2> QED BY <2>2, <2>3, <1>1, <1>3, <1>4, SaidNotPair
<1>8. ASSUME Refuses PROVE FALSE
  <2>1. PICK w : w = Only("info") /\ Says("server", udpsend("nofile", 1), Ready, w)
    BY <1>8 DEF Refuses
  <2> QED BY <2>1, <1>1, <1>3, <1>4, SaidNotPair
<1>9. ASSUME Announces PROVE FALSE
  <2>1. PICK w : w = Only("putinfo") /\ Says("client", udplastsend("info", Chunks), Tail(PutCalls), w)
    BY <1>9 DEF Announces
  <2> QED BY <2>1, <1>1, <1>3, <1>4, SaidNotPair
<1>10. ASSUME Agrees PROVE FALSE
  <2>1. PICK t : t = Tail(PutCalls) OBVIOUS
  <2>2. file.exists /\ Says("server", udplastsend("answer", 0), Only("putinfo2"), t)
    BY <2>1, <1>10 DEF Agrees
  <2>3. Head(t).op # "recvPair" BY <2>1, <2>2, PutScript, OnlyIs
  <2> QED BY <2>2, <2>3, <1>1, <1>3, SaidNotPair
<1>11. ASSUME Lists PROVE FALSE
  <2>1. d \in Coming(Other(q)) /\ Left(q) = script[q] BY <1>1 DEF Hears
  <2>2. Heard("client") BY <1>11 DEF Lists
  <2>3. q = "client"
    <3>1. Other("server") = "client" BY DEF Other
    <3>2. q # "server" BY <1>3, <2>1, <2>2, <3>1, NothingComes
    <3> QED BY <3>2 DEF Peer
  <2>4. Head(Tail(ClientCalls("LIST"))) = udplastrecv("echo") /\ Head(Only("entry")) = udplastrecv("entry")
    <3>1. "LIST" \in Command BY Names
    <3> QED BY <3>1, ClientScript, OnlyIs
  <2>5. Left("client") \in {Tail(ClientCalls("LIST")), Only("entry")} BY <1>11 DEF Lists
  <2>6. Head(Left("client")) \in {udplastrecv("echo"), udplastrecv("entry")} BY <2>4, <2>5
  <2>7. udplastrecv("echo").op = "recv" /\ udplastrecv("entry").op = "recv" BY OnlyIs
  <2> QED BY <2>1, <2>3, <2>6, <2>7, <1>1
<1>12. {"LIST", "GET", "PUT", "DEL"} = Command BY Names
<1>13. plan = <<>> /\ Transfers
  BY <1>2, <1>5, <1>6, <1>7, <1>8, <1>9, <1>10, <1>11, <1>12 DEF Talk
<1>14. PICK p \in Peer, a \in 0..1, D \in 1..Chunks : TransferOf(p, a, D) BY <1>13 DEF Transfers
<1>15. a = 0
  <2>1. ASSUME a = 1 PROVE FALSE
    <3>1. script[q] = Receives(q, 1, D) BY <1>1, <1>14, <2>1, HearsTransfer
    <3>2. \E u : script[q] = Only(u) BY <3>1 DEF Receives
    <3> QED BY <3>2, <1>1, <1>4
  <2> QED BY <2>1
<1>16. InTruth' /\ plan' = plan /\ D > 1 /\ TransferOf(p, 0, D - 1)' BY <1>14, <1>15, AcceptsHalves
<1>17. 0 \in 0..1 /\ D - 1 \in 1..Chunks BY <1>16, Constants
<1> QED BY <1>13, <1>16, <1>17 DEF Talk, Transfers

-------------------------------------------------------------------------------
\* q goes on in the handshake, or is through with it.
Greets(q) ==
  /\ Left(q) # <<>> /\ Head(Left(q)).op = "handshake"
  /\ UNCHANGED <<plan, file, got, deleted, told, calls, accepted>>
  /\ Left(q)' = (IF q = "client" THEN <<>> ELSE Tail(Left(q))) /\ Left(Other(q))' = Left(Other(q))
  /\ \A p \in Peer : NextPair(p)' = NextPair(p) /\ Coming(p)' \subseteq Coming(p)

LEMMA HandshakeGreets ==
  ASSUME IInv, Handshake
  PROVE  \E q \in Peer : Greets(q)
<1>1. PICK q \in Peer :
        /\ script[q] # <<>> /\ Head(script[q]).op = "handshake" /\ Reading(q)
        /\ script' = [script EXCEPT ![q] = IF q = "client" THEN <<>> ELSE Tail(script[q])]
        /\ outbox' = outbox \/ outbox' = [outbox EXCEPT ![q] = <<hello(q)>>]
        /\ UNCHANGED <<plan, file, got, deleted, told, stage, Send_temp_Seq, calls, accepted>>
        /\ UNCHANGED <<Send_Seq>> \/ q = "client"
  <2>1. "client" \in Peer /\ "server" \in Peer /\ "server" # "client" BY DEF Peer
  <2>2. CASE ServerHandshake
    BY <2>1, <2>2 DEF ServerHandshake, InCall, given, seqs, files, history, Reading
  <2>3. CASE ClientHandshake \/ HandshakeFails
    BY <2>1, <2>3 DEF ClientHandshake, HandshakeFails, InCall, given, seqs, files, history, Reading
  <2> QED BY <2>2, <2>3 DEF Handshake
<1> DEFINE o == Other(q)
           s == IF q = "client" THEN <<>> ELSE Tail(script[q])
<1>2. o \in Peer /\ o # q /\ \A p \in Peer : p = q \/ p = o BY Peers
<1>3. stage[q] = "none"
  <2>1. Head(script[q]).op \notin Sends BY <1>1, OnlyIs
  <2> QED BY <2>1, NotSending DEF IInv
<1>4. script \in [Peer -> Seq(Call)] BY DEF IInv, Scripts
<1>5. script'[q] = s /\ script'[o] = script[o] BY <1>1, <1>2, <1>4
<1>6. Left(q) = script[q] /\ Left(q)' = s /\ NextPair(q)' = NextPair(q) /\ Copies(q)' = {}
  BY <1>1, <1>3, <1>5 DEF Left, NextPair, Copies
<1>7. Left(o)' = Left(o) /\ NextPair(o)' = NextPair(o)
  <2>1. script'[o] = script[o] /\ stage' = stage /\ Send_temp_Seq' = Send_temp_Seq BY <1>1, <1>5
  <2> HIDE DEF o
  <2> QED BY <2>1 DEF Left, NextPair
<1>8. Copies(o)' \subseteq Copies(o)
  <2>1. CASE Send_Seq' = Send_Seq BY <2>1, <1>1, <1>5 DEF Copies
  <2>2. CASE q = "client" /\ Send_Seq' # Send_Seq
    <3>1. Send_Seq'[o] = Send_Seq[o]
      <4>1. \/ UNCHANGED Send_Seq
            \/ \E n \in 0..1 : Send_Seq' = [Send_Seq EXCEPT !["client"] = n]
        BY DEF Handshake, ServerHandshake, ClientHandshake, HandshakeFails, seqs
      <4>2. Send_Seq \in [Peer -> 0..1 \cup {NoSeq}] BY DEF IInv, Counters
      <4> QED BY <4>1, <4>2, <2>2, <1>2
    <3> QED BY <3>1, <1>1, <1>5 DEF Copies
  <2> QED BY <1>1, <2>1, <2>2
<1>9. \A p \in Peer : \A d \in Elems(outbox'[p]) : d.id = 0 \/ d \in Elems(outbox[p])
  <2>1. CASE outbox' = outbox BY <2>1
  <2>2. CASE outbox' = [outbox EXCEPT ![q] = <<hello(q)>>]
    <3>1. outbox'[o] = outbox[o] /\ outbox'[q] = <<hello(q)>> BY <2>2, <1>2 DEF IInv, OnTheWay
    <3>2. Elems(<<hello(q)>>) = {hello(q)} /\ hello(q).id = 0 BY ElemsOfOne DEF hello
    <3> QED BY <3>1, <3>2, <1>2
  <2> QED BY <1>1, <2>1, <2>2
<1>10. ASSUME NEW p \in Peer PROVE NextPair(p)' = NextPair(p) /\ Coming(p)' \subseteq Coming(p)
  <2>1. Copies(p)' \subseteq Copies(p) BY <1>2, <1>6, <1>8
  <2>2. Coming(p)' \subseteq Coming(p) BY <1>1, <1>9, <2>1, ComingShrinks
  <2> QED BY <2>2, <1>2, <1>6, <1>7
<1>11. Greets(q) BY <1>1, <1>6, <1>7, <1>10 DEF Greets
<1> QED BY <1>11

\* Once a message is awaited, the handshake is over but for the server's.
LEMMA SaidNotGreeting ==
  ASSUME NEW q \in Peer, Left(q) # <<>>, Head(Left(q)).op = "handshake",
         NEW p \in Peer, NEW a \in Call, NEW left \in Seq(Call), NEW to, Says(p, a, left, to),
         a.op \in Sends, left = <<>> \/ Head(left).op # "handshake"
  PROVE  q = Other(p) /\ Head(to).op = "handshake"
<1>1. Head(<<a>> \o left) = a /\ a.op # "handshake" BY OnlyIs
<1>2. Left(p) = <<>> \/ Head(Left(p)).op # "handshake" BY <1>1 DEF Says
<1>3. q = Other(p) BY <1>2, Peers
<1> QED BY <1>3 DEF Says

LEMMA GreetsTalk ==
  ASSUME IInv, Talk, NEW q \in Peer, Greets(q)
  PROVE  Talk'
<1>1. /\ Left(q) # <<>> /\ Head(Left(q)).op = "handshake"
      /\ UNCHANGED <<plan, file, got, deleted, told, calls, accepted>>
      /\ Left(q)' = (IF q = "client" THEN <<>> ELSE Tail(Left(q)))
      /\ Left(Other(q))' = Left(Other(q))
      /\ \A p \in Peer : NextPair(p)' = NextPair(p) /\ Coming(p)' \subseteq Coming(p)
  BY DEF Greets
<1>2. /\ "client" \in Peer /\ "server" \in Peer /\ Other("server") = "client"
      /\ Other("client") = "server" /\ Peer = {"client", "server"}
  BY DEF Peer, Other
<1>3. Heard("client")' = Heard("client") /\ Heard("server")' = Heard("server")
  BY <1>1, <1>2 DEF Heard
<1>4. \A u : Head(Only(u)).op # "handshake" /\ udplastrecv(u).op # "handshake" BY OnlyIs
<1>5. ASSUME NEW g \in Greetings, Head(g).op = "handshake" PROVE Tail(g) \in Greetings
  <2>1. g # Ready BY <1>4, <1>5 DEF Ready
  <2>2. /\ Tail(<<threewayhandshake(1), threewayhandshake(2), udplastrecv("command")>>) =
             <<threewayhandshake(2), udplastrecv("command")>>
        /\ Tail(<<threewayhandshake(2), udplastrecv("command")>>) = Ready
    BY DEF Ready, Only
  <2> QED BY <2>1, <2>2, <1>5 DEF Greetings
<1>6. Greetings' = Greetings BY DEF Greetings, Ready, Only
<1>7. ASSUME Menu PROVE Menu'
  <2>1. CASE q = "client" BY <2>1, <1>1, <1>2, <1>3, <1>6, <1>7 DEF Menu
  <2>2. CASE q = "server"
    <3>1. Left("server")' \in Greetings BY <2>2, <1>1, <1>5, <1>7 DEF Menu
    <3> QED BY <3>1, <2>2, <1>1, <1>2, <1>3, <1>6, <1>7 DEF Menu
  <2> QED BY <1>2, <2>1, <2>2
<1>8. ASSUME NEW x \in Command, Asks(x) PROVE Asks(x)' /\ NextPair("client")' = NextPair("client")
  <2>1. PICK t : t = Tail(ClientCalls(x)) OBVIOUS
  <2>2. t = Tail(ClientCalls(x)') BY <1>1, <2>1, CallsSame
  <2>3. PICK g \in Greetings : Says("client", udplastsend(x, 0), t, g) BY <1>8, <2>1 DEF Asks
  <2>4. t \in Seq(Call) /\ Head(t).op # "handshake"
    BY <1>4, <2>1, ClientScript
  <2>5. udplastsend(x, 0) \in Call /\ udplastsend(x, 0).op \in Sends BY SaidCalls DEF Sends
  <2>6. q = "server" /\ Head(g).op = "handshake"
    BY <1>1, <1>2, <2>3, <2>4, <2>5, SaidNotGreeting
  <2>7. Left("server")' = Tail(g) /\ Tail(g) \in Greetings
    BY <1>1, <1>2, <1>5, <2>3, <2>6 DEF Says
  <2>8. Left("client")' = Left("client") /\ Coming("client")' \subseteq Coming("client")
    BY <1>1, <1>2, <2>6
  <2>9. Says("client", udplastsend(x, 0), t, Tail(g))'
    <3>1. Said("client", udplastsend(x, 0).kind) => Said("client", udplastsend(x, 0).kind)'
      BY <1>1, <1>2, <2>8 DEF Said
    <3> QED BY <3>1, <2>3, <2>7, <2>8, <1>2, <1>3 DEF Says
  <2> QED BY <2>2, <2>7, <2>9, <1>1, <1>2, <1>6 DEF Asks
<1>9. ASSUME NEW x \in {"GET", "DEL", "PUT"} PROVE ~Echoes(x)
  <2>1. PICK t, w : t = Tail(ClientCalls(x)) /\ w = Only(Awaited(x)) OBVIOUS
  <2>2. ASSUME Echoes(x) PROVE FALSE
    <3>1. Says("server", udplastsend(x, 0), w, t) BY <2>1, <2>2 DEF Echoes
    <3>2. x \in Command /\ Awaited(x) \in Use BY Names DEF Awaited
    <3>3. w \in Seq(Call) /\ Head(w).op # "handshake" BY <1>4, <2>1, <3>2, OnlyIs
    <3>4. Head(t).op # "handshake" BY <1>4, <2>1, <3>2, ClientScript
    <3>5. udplastsend(x, 0) \in Call /\ udplastsend(x, 0).op \in Sends
      BY <3>2, SaidCalls DEF Sends
    <3> QED BY <1>1, <1>2, <3>1, <3>3, <3>4, <3>5, SaidNotGreeting
  <2> QED BY <2>2
<1>10. ASSUME NEW x \in {"GET", "DEL"} PROVE ~GivesName(x)
  <2>1. PICK w, t : w = Only(Awaited(x)) /\ t = Only(Wanted(x)) OBVIOUS
  <2>2. ASSUME GivesName(x) PROVE FALSE
    <3>1. Says("client", udplastsend("name", 0), t, w) BY <2>1, <2>2 DEF GivesName
    <3>2. Wanted(x) \in Use BY Names DEF Wanted
    <3>3. t \in Seq(Call) /\ Head(t).op # "handshake" /\ Head(w).op # "handshake"
      BY <1>4, <2>1, <3>2, OnlyIs
    <3>4. udplastsend("name", 0) \in Call /\ udplastsend("name", 0).op \in Sends
      BY SaidCalls DEF Sends
    <3> QED BY <1>1, <1>2, <3>1, <3>3, <3>4, SaidNotGreeting
  <2> QED BY <2>2
<1>11. ~Judges
  <2>1. ASSUME Left("client") = Only("verdict"), Left("server") = Ready PROVE FALSE
    BY <2>1, <1>1, <1>2, <1>4 DEF Ready
  <2>2. ASSUME NEW v \in {"@", "#"}, Says("server", udplastsend(v, 0), Ready, Only("verdict"))
        PROVE  FALSE
    <3>1. PICK w, t : w = Only("verdict") /\ t = Ready OBVIOUS
    <3>2. Says("server", udplastsend(v, 0), t, w) BY <2>2, <3>1
    <3>3. t \in Seq(Call) /\ Head(t).op # "handshake" /\ Head(w).op # "handshake"
      BY <1>4, <3>1, OnlyIs, Names DEF Ready
    <3>4. udplastsend(v, 0) \in Call /\ udplastsend(v, 0).op \in Sends BY SaidCalls DEF Sends
    <3> QED BY <1>1, <1>2, <3>2, <3>3, <3>4, SaidNotGreeting
  <2> QED BY <2>1, <2>2 DEF Judges
<1>12. ~Refuses
  <2>1. PICK w, t : w = Only("info") /\ t = Ready OBVIOUS
  <2>2. ASSUME Refuses PROVE FALSE
    <3>1. Says("server", udpsend("nofile", 1), t, w) BY <2>1, <2>2 DEF Refuses
    <3>2. t \in Seq(Call) /\ Head(t).op # "handshake" /\ Head(w).op # "handshake"
      BY <1>4, <2>1, OnlyIs, Names DEF Ready
    <3>3. udpsend("nofile", 1) \in Call /\ udpsend("nofile", 1).op \in Sends
      BY SaidCalls DEF Sends
    <3> QED BY <1>1, <1>2, <3>1, <3>2, <3>3, SaidNotGreeting
  <2> QED BY <2>2
<1>13. ~Announces /\ ~Agrees
  <2>1. PICK t : t = Tail(PutCalls) OBVIOUS
  <2>2. file.exists => t \in Seq(Call) /\ Head(t).op # "handshake" BY <1>4, <2>1, PutScript
  <2>3. ASSUME Announces PROVE FALSE
    <3>1. PICK w : w = Only("putinfo") OBVIOUS
    <3>2. file.exists /\ Says("client", udplastsend("info", Chunks), t, w)
      BY <2>1, <2>3, <3>1 DEF Announces
    <3>3. udplastsend("info", Chunks) \in Call /\ udplastsend("info", Chunks).op \in Sends
      BY SaidCalls DEF Sends
    <3> QED BY <1>1, <1>2, <1>4, <2>2, <3>1, <3>2, <3>3, SaidNotGreeting
  <2>4. ASSUME Agrees PROVE FALSE
    <3>1. PICK w : w = Only("putinfo2") OBVIOUS
    <3>2. file.exists /\ Says("server", udplastsend("answer", 0), w, t)
      BY <2>1, <2>4, <3>1 DEF Agrees
    <3>3. w \in Seq(Call) /\ Head(w).op # "handshake" BY <1>4, <3>1, OnlyIs, Names
    <3>4. udplastsend("answer", 0) \in Call /\ udplastsend("answer", 0).op \in Sends
      BY SaidCalls DEF Sends
    <3> QED BY <1>1, <1>2, <2>2, <3>2, <3>3, <3>4, SaidNotGreeting
  <2> QED BY <2>3, <2>4
<1>14. ~Lists
  <2>1. ASSUME Lists PROVE FALSE
    <3>1. "LIST" \in Command BY Names
    <3>2. Head(Tail(ClientCalls("LIST"))) = udplastrecv("echo") BY <3>1, ClientScript
    <3>3. Head(Left("client")).op # "handshake" BY <1>4, <2>1, <3>2 DEF Lists
    <3>4. Listing(Left("server")) BY <2>1 DEF Lists
    <3>5. PICK s : s = Left("server") OBVIOUS
    <3>6. s[1].op # "handshake"
      <4>1. Len(s) >= 1 /\ s[Len(s)] = udplastrecv("command") BY <3>4, <3>5 DEF Listing
      <4>2. CASE Len(s) = 1 BY <4>1, <4>2, <1>4
      <4>3. CASE 1 \in 1..(Len(s) - 1)
        <5>1. s[1].op = "send" BY <3>4, <3>5, <4>3 DEF Listing
        <5> QED BY <5>1
      <4>4. Len(s) = 1 \/ 1 \in 1..(Len(s) - 1)
        <5>1. s \in Seq(Call) BY <1>2, <3>5, LeftTyped
        <5>2. Len(s) \in Nat BY <5>1
        <5> QED BY <4>1, <5>2
      <4> QED BY <4>2, <4>3, <4>4
    <3>7. Head(s) = s[1] BY DEF Head
    <3> QED BY <1>1, <1>2, <3>3, <3>5, <3>6, <3>7
  <2> QED BY <2>1
<1>15. ~Transfers
  <2>1. ASSUME NEW p \in Peer, NEW a \in 0..1, NEW D \in 1..Chunks, TransferOf(p, a, D) PROVE FALSE
    <3>1. CASE q = Other(p)
      <4>1. Left(q) = Receives(q, a, D) BY <2>1, <3>1 DEF TransferOf
      <4>2. CASE a = 1
        <5>1. \E u : Left(q) = Only(u) BY <4>1, <4>2 DEF Receives
        <5> QED BY <5>1, <1>1, <1>4
      <4>3. CASE a = 0
        <5>1. Head(Left(q)) \in {udprecv, udplastrecv("chunk")}
          <6>1. D > 1 \/ D = 1 BY Constants
          <6> QED BY <4>1, <4>3, <6>1, ReceivesFirst
        <5>2. udprecv.op # "handshake" BY DEF udprecv
        <5> QED BY <5>1, <5>2, <1>1, <1>4
      <4> QED BY <4>2, <4>3
    <3>2. CASE q = p
      <4>1. PICK s : s = Left(p) OBVIOUS
      <4>2. s \in Seq(Call) /\ s # <<>> BY <1>1, <3>2, <4>1, LeftTyped
      <4>3. 1 \in 1..Len(s) /\ Head(s) = s[1] BY <4>2, TailOf
      <4>4. PICK j : j = calls[p] - accepted[Other(p)] + 1 - a OBVIOUS
      <4>5. ChunkCall(s[1], j, D, Len(got)) BY <2>1, <4>1, <4>3, <4>4 DEF TransferOf
      <4>6. j \in Nat /\ D \in Nat
        <5>1. calls[p] \in Nat /\ accepted[Other(p)] \in Nat /\ accepted[Other(p)] <= calls[p]
          BY Peers DEF IInv, Counters
        <5> QED BY <4>4, <5>1, Constants
      <4>7. j = 0 \/ (1 <= j /\ j < D) \/ j = D \/ j > D BY <4>6
      <4>8. s[1].op \in {"send", "sendPair", "recv"}
        <5>1. udplastrecv("command").op = "recv" BY OnlyIs
        <5> QED BY <4>5, <4>7, <5>1 DEF ChunkCall
      <4> QED BY <1>1, <3>2, <4>1, <4>3, <4>8
    <3> QED BY <3>1, <3>2, Peers
  <2> QED BY <2>1 DEF Transfers
<1>16. ~Finished
  <2>1. ASSUME Finished PROVE FALSE
    <3>1. q = "server" BY <1>1, <1>2, <2>1 DEF Finished
    <3>2. PICK s : s = Left("server") OBVIOUS
    <3>3. s \in Seq(Call) /\ s # <<>> BY <1>1, <3>1, <3>2, LeftTyped
    <3>4. 1 \in 1..Len(s) /\ Head(s) = s[1] BY <3>3, TailOf
    <3>5. s[1].op \in Sends \/ s[1].op = "recv" BY <2>1, <3>2, <3>4 DEF Finished
    <3> QED BY <1>1, <3>1, <3>2, <3>4, <3>5, OnlyIs
  <2> QED BY <2>1
<1>17. {"LIST", "GET", "PUT", "DEL"} = Command BY Names
<1>18. CASE got = <<>> /\ (Menu \/ Asks("LIST") \/ Asks("DEL"))
  BY <1>1, <1>7, <1>8, <1>17, <1>18 DEF Talk
<1>19. CASE plan = <<>> /\ got = <<>> /\ (Asks("GET") \/ (NextPair("client") = 0 /\ Asks("PUT")))
  BY <1>1, <1>8, <1>17, <1>19 DEF Talk
<1> QED BY <1>9, <1>10, <1>11, <1>12, <1>13, <1>14, <1>15, <1>16, <1>18, <1>19 DEF Talk

\* The user chooses what comes next.
LEMMA ChooseTalk ==
  ASSUME IInv, PlanLeft, Talk, Choose
  PROVE  Talk' /\ PlanLeft' /\ UNCHANGED <<got, deleted, told>>
<1>0. PICK x : x = Head(plan) OBVIOUS
<1>1. /\ script["client"] = <<>> /\ plan # <<>> /\ plan' = Tail(plan)
      /\ script' = [script EXCEPT !["client"] = ClientCalls(x)]
      /\ Send_temp_Seq' = (IF x = "PUT" THEN [Send_temp_Seq EXCEPT !["client"] = 0] ELSE Send_temp_Seq)
      /\ Send_Seq' = (IF x = "PUT" THEN [Send_Seq EXCEPT !["client"] = 0] ELSE Send_Seq)
      /\ UNCHANGED <<file, stage, outbox, got, deleted, told, links, calls, accepted>>
  BY <1>0 DEF Choose, given, files, history
<1>2. /\ "client" \in Peer /\ "server" \in Peer /\ Other("server") = "client"
      /\ Other("client") = "server" /\ "server" # "client"
  BY DEF Peer, Other
<1>3. x \in Command /\ plan \in Seq(Command)
  <2>1. plan \in Seq(Command) BY DEF IInv, Counters
  <2> QED BY <1>0, <1>1, <2>1, TailOf
<1>4. stage["client"] = "none" BY <1>1, <1>2, NotSending DEF IInv
<1>5. script'["client"] = ClientCalls(x) /\ script'["server"] = script["server"]
  <2>1. script \in [Peer -> Seq(Call)] BY DEF IInv, Scripts
  <2> QED BY <2>1, <1>1, <1>2
<1>6. Left("client") = <<>> /\ Left("client")' = ClientCalls(x) /\ Copies("client")' = {}
  BY <1>1, <1>4, <1>5 DEF Left, Copies
<1>7. Send_Seq'["server"] = Send_Seq["server"] /\ Send_temp_Seq'["server"] = Send_temp_Seq["server"]
      /\ (x = "PUT" => Send_temp_Seq'["client"] = 0)
  <2>1. Send_temp_Seq \in [Peer -> PairSeq] BY DEF IInv, Scripts
  <2>2. Send_Seq \in [Peer -> 0..1 \cup {NoSeq}] BY DEF IInv, Counters
  <2>3. Send_Seq'["server"] = Send_Seq["server"] BY <1>1, <1>2, <2>2
  <2>4. Send_temp_Seq'["server"] = Send_temp_Seq["server"] BY <1>1, <1>2, <2>1
  <2>5. x = "PUT" => Send_temp_Seq'["client"] = 0 BY <1>1, <1>2, <2>1
  <2> QED BY <2>3, <2>4, <2>5
<1>8. Left("server")' = Left("server") BY <1>1, <1>5 DEF Left
<1>9. x = "PUT" => NextPair("client")' = 0 BY <1>1, <1>4, <1>7 DEF NextPair
<1>10. Heard("client")' = Heard("client") /\ Heard("server")' = Heard("server")
  BY <1>1, <1>2 DEF Heard
<1>11. ASSUME NEW y \in Command
       PROVE  Tail(ClientCalls(y)) # <<>> /\ ClientCalls(y) = <<udplastsend(y, 0)>> \o Tail(ClientCalls(y))
  BY <1>11, ClientScript
<1>12. \A a \in Call : \A r \in Seq(Call) : <<a>> \o r # <<>> BY Begun
<1>13. \A u : Only(u) # <<>> BY OnlyIs
<1>14. got = <<>> /\ Menu
  <2>1. ~Asks("LIST") /\ ~Asks("DEL")
    <3>1. ASSUME NEW y \in Command, Asks(y) PROVE FALSE
      <4>1. PICK t : t = Tail(ClientCalls(y)) OBVIOUS
      <4>2. PICK g \in Greetings : Says("client", udplastsend(y, 0), t, g) BY <3>1, <4>1 DEF Asks
      <4>3. t # <<>> /\ t \in Seq(Call) /\ udplastsend(y, 0) \in Call
        BY <4>1, ClientScript, SaidCalls
      <4>4. <<udplastsend(y, 0)>> \o t # <<>> BY <4>3, Begun
      <4> QED BY <4>2, <4>3, <4>4, <1>6 DEF Says
    <3>2. {"LIST", "GET", "PUT", "DEL"} = Command BY Names
    <3> QED BY <3>1, <3>2
  <2>2. ~Echoes("DEL")
    <3>1. PICK t : t = Tail(ClientCalls("DEL")) OBVIOUS
    <3>2. t # <<>>
      <4>1. "DEL" \in Command BY Names
      <4> QED BY <3>1, <4>1, ClientScript
    <3>3. Echoes("DEL") => Left("client") = t BY <1>2, <3>1 DEF Echoes, Says
    <3> QED BY <3>2, <3>3, <1>6
  <2>3. ~GivesName("DEL")
    <3>1. PICK t : t = Only("verdict") OBVIOUS
    <3>2. t \in Seq(Call) /\ t # <<>> /\ udplastsend("name", 0) \in Call
      BY <3>1, OnlyIs, Names, SaidCalls
    <3>3. <<udplastsend("name", 0)>> \o t # <<>> BY <3>2, Begun
    <3>4. GivesName("DEL") => Left("client") = <<udplastsend("name", 0)>> \o t \/ Left("client") = t
      BY <3>1 DEF GivesName, Says, Wanted
    <3> QED BY <3>2, <3>3, <3>4, <1>6
  <2>4. ~Judges
    <3>1. Judges => Left("client") = Only("verdict") BY <1>2 DEF Judges, Says
    <3> QED BY <3>1, <1>6, <1>13
  <2>5. ~Lists
    <3>1. "LIST" \in Command BY Names
    <3>2. Tail(ClientCalls("LIST")) # <<>> BY <3>1, ClientScript
    <3> QED BY <3>2, <1>6, <1>13 DEF Lists
  <2> QED BY <2>1, <2>2, <2>3, <2>4, <2>5, <1>1 DEF Talk
<1>15. Asks(x)'
  <2>1. PICK t : t = Tail(ClientCalls(x)) OBVIOUS
  <2>2. t = Tail(ClientCalls(x)') BY <1>1, <1>3, <2>1, CallsSame
  <2>3. ClientCalls(x) = <<udplastsend(x, 0)>> \o t BY <1>3, <2>1, ClientScript
  <2>4. PICK g : g = Left("server") OBVIOUS
  <2>5. g \in Greetings BY <1>14, <2>4 DEF Menu
  <2>6. Heard("client")' /\ Heard("server")' BY <1>10, <1>14 DEF Menu
  <2>7. Says("client", udplastsend(x, 0), t, g)' BY <1>2, <1>6, <1>8, <2>3, <2>4, <2>6 DEF Says
  <2> QED BY <2>2, <2>5, <2>7 DEF Asks, Greetings, Ready, Only
<1>16. /\ plan' \in Seq(Command) /\ Len(plan) \in Nat /\ Len(plan) > 0 /\ Len(plan') = Len(plan) - 1
       /\ x = plan[1] /\ \A i \in 1..Len(plan') : plan'[i] = plan[i + 1] /\ i + 1 \in 1..Len(plan)
  BY <1>0, <1>1, <1>3, TailOf
<1>17. PlanLeft'
  <2>1. ASSUME NEW i \in 1..(Len(plan') - 1) PROVE plan'[i] \in {"LIST", "DEL"}
    <3>1. i \in 1..Len(plan') /\ i + 1 \in 1..(Len(plan) - 1) BY <1>16
    <3> QED BY <3>1, <1>16 DEF PlanLeft
  <2> QED BY <2>1 DEF PlanLeft
<1>18. x \notin {"LIST", "DEL"} => plan' = <<>>
  <2>1. ASSUME x \notin {"LIST", "DEL"} PROVE Len(plan') = 0
    <3>1. ~(1 \in 1..(Len(plan) - 1)) BY <2>1, <1>16 DEF PlanLeft
    <3> QED BY <3>1, <1>16
  <2> QED BY <2>1, <1>16, EmptySeq
<1>19. x \in {"LIST", "GET", "PUT", "DEL"} BY <1>3, Names
<1>20. Talk'
  <2>1. CASE x \in {"LIST", "DEL"} BY <2>1, <1>1, <1>14, <1>15 DEF Talk
  <2>2. CASE x = "GET" BY <2>2, <1>1, <1>14, <1>15, <1>18 DEF Talk
  <2>3. CASE x = "PUT" BY <2>3, <1>1, <1>9, <1>14, <1>15, <1>18 DEF Talk
  <2> QED BY <2>1, <2>2, <2>3, <1>19
<1> QED BY <1>1, <1>17, <1>20

\* What has gone wrong is not forgotten.
LEMMA SlipsStay ==
  ASSUME [Next]_vars
  PROVE  slips \subseteq slips'
<1>1. CASE Choose BY <1>1 DEF Choose, history
<1>2. CASE Handshake
  BY <1>2 DEF Handshake, ServerHandshake, ClientHandshake, HandshakeFails, history
<1>3. CASE Release BY <1>3 DEF Release, history
<1>4. ASSUME NEW p \in Peer, Step(p) PROVE slips \subseteq slips'
  <2>1. CASE SendTo(p) BY <2>1 DEF SendTo, history
  <2>2. CASE SendLast(p) \/ SendPair(p) BY <2>2 DEF SendLast, SendPair
  <2>3. CASE ResendLast(p) \/ ResendPair(p) BY <2>3 DEF ResendLast, ResendPair
  <2>4. CASE AnyAck(p) \/ SettleLast(p) BY <2>4 DEF AnyAck, SettleLast, history
  <2>5. CASE FirstAck(p) \/ SecondAck(p) \/ SecondAckLate(p) \/ SettlePair(p)
    BY <2>5 DEF FirstAck, SecondAck, SecondAckLate, SettlePair, history
  <2>6. CASE Accept(p) BY <2>6 DEF Accept, Note
  <2>7. CASE AcceptPair(p) BY <2>7 DEF AcceptPair, Note
  <2>8. CASE Drop(p) BY <2>8 DEF Drop
  <2>9. CASE AckAgain(p) \/ Refuse(p) BY <2>9 DEF AckAgain, Refuse, history
  <2> QED BY <1>4, <2>1, <2>2, <2>3, <2>4, <2>5, <2>6, <2>7, <2>8, <2>9
          DEF Step, LastStep, PairStep
<1>5. CASE UNCHANGED vars BY <1>5 DEF vars, history
<1> QED BY <1>1, <1>2, <1>3, <1>4, <1>5 DEF Next

LEMMA InitTalk ==
  ASSUME OneTransfer, Init
  PROVE  TalkInv
<1>1. IInv BY InitInv
<1>2. PlanLeft
  <2>1. PICK s \in Scenarios : plan = s.plan BY DEF Init
  <2> QED BY <2>1 DEF OneTransfer, PlanLeft
<1>3. /\ script = [client |-> <<threewayhandshake(1)>>,
                   server |-> <<threewayhandshake(1), threewayhandshake(2), udplastrecv("command")>>]
      /\ stage = [p \in Peer |-> "none"] /\ calls = [p \in Peer |-> 0] /\ accepted = [p \in Peer |-> 0]
      /\ got = <<>> /\ told = "nothing"
  BY DEF Init
<1>4. "client" \in Peer /\ "server" \in Peer /\ Other("server") = "client" /\ Other("client") = "server"
  BY DEF Peer, Other
<1>5. /\ Left("client") = <<threewayhandshake(1)>>
      /\ Left("server") = <<threewayhandshake(1), threewayhandshake(2), udplastrecv("command")>>
  BY <1>3, <1>4 DEF Left
<1>6. Heard("client") /\ Heard("server") BY <1>3, <1>4 DEF Heard
<1>7. Menu BY <1>5, <1>6 DEF Menu, Greetings
<1>8. Talk BY <1>3, <1>7 DEF Talk
<1>9. InTruth BY <1>3 DEF InTruth, InOrder
<1> QED BY <1>1, <1>2, <1>8, <1>9 DEF TalkInv

LEMMA NextTalk ==
  ASSUME IInv, PlanLeft, Talk, InTruth, [Next]_vars, "misread" \notin slips'
  PROVE  PlanLeft' /\ Talk' /\ InTruth'
<1>1. ASSUME Unseen PROVE PlanLeft' /\ Talk' /\ InTruth'
  <2>1. Talk' BY <1>1, UnseenTalk
  <2> QED BY <2>1, <1>1, TruthSame DEF Unseen, PlanLeft
<1>2. CASE Choose
  <2>1. Talk' /\ PlanLeft' /\ UNCHANGED <<got, deleted, told>> BY <1>2, ChooseTalk
  <2> QED BY <2>1, TruthSame
<1>3. CASE Handshake
  <2>1. PICK q \in Peer : Greets(q) BY <1>3, HandshakeGreets
  <2>2. Talk' BY <2>1, GreetsTalk
  <2>3. UNCHANGED <<plan, got, deleted, told>> BY <2>1 DEF Greets
  <2> QED BY <2>2, <2>3, TruthSame DEF PlanLeft
<1>4. CASE Release BY <1>1, <1>4, RouterUnseen
<1>5. ASSUME NEW p \in Peer, Step(p) PROVE PlanLeft' /\ Talk' /\ InTruth'
  <2>1. CASE SendTo(p) BY <2>1, <1>1, RouterUnseen
  <2>2. CASE SendLast(p) \/ SendPair(p)
    <3>1. Begins(p) BY <2>2, SendBegins
    <3>2. Talk' BY <3>1, BeginsTalk
    <3>3. UNCHANGED <<plan, got, deleted, told>> BY <3>1 DEF Begins
    <3> QED BY <3>2, <3>3, TruthSame DEF PlanLeft
  <2>3. CASE ResendLast(p) \/ ResendPair(p) BY <2>3, <1>1, ResendsUnseen
  <2>4. CASE AnyAck(p) \/ FirstAck(p) \/ SecondAckLate(p) BY <2>4, <1>1, WaitsUnseen
  <2>5. CASE SettleLast(p) \/ SettlePair(p) \/ SecondAck(p) BY <2>5, <1>1, SettlesUnseen
  <2>6. CASE Drop(p) \/ AckAgain(p) \/ Refuse(p) BY <2>6, <1>1, AnswersUnseen
  <2>7. CASE Accept(p)
    <3>1. PICK d \in Datagram : Accepts(p, d) /\ (d.kind = "info" => d.n = Chunks)
      BY <2>7, AcceptSeen
    <3>2. Talk' /\ InTruth' BY <3>1, AcceptsTalk
    <3>3. plan' = plan BY <3>1 DEF Accepts, Hears
    <3> QED BY <3>2, <3>3 DEF PlanLeft
  <2>8. CASE AcceptPair(p)
    <3>1. PICK d, e \in Datagram : AcceptsPair(p, d, e) BY <2>8, AcceptPairSeen
    <3>2. Talk' /\ InTruth' BY <3>1, AcceptsPairTalk
    <3>3. plan' = plan BY <3>1 DEF AcceptsPair, Hears
    <3> QED BY <3>2, <3>3 DEF PlanLeft
  <2> QED BY <1>5, <2>1, <2>2, <2>3, <2>4, <2>5, <2>6, <2>7, <2>8
          DEF Step, LastStep, PairStep
<1>6. CASE UNCHANGED vars
  <2>1. /\ UNCHANGED <<plan, file, got, deleted, told, script, stage, Send_Seq, Send_temp_Seq,
                       outbox, calls, accepted>>
        /\ UNCHANGED links
    BY <1>6 DEF vars, given, control, seqs, files, history
  <2>2. ASSUME NEW p \in Peer
        PROVE  /\ Left(p)' = Left(p) /\ NextPair(p)' = NextPair(p) /\ Copies(p)' \subseteq Copies(p)
               /\ \A d \in Elems(outbox'[p]) : d \in Elems(outbox[p])
    BY <2>1 DEF Left, NextPair, Copies
  <2>3. Reading("client") BY <2>1 DEF Reading
  <2>4. Unseen BY <2>1, <2>2, <2>3, Peers, UnseenIf
  <2> QED BY <2>4, <1>1
<1> QED BY <1>2, <1>3, <1>4, <1>5, <1>6 DEF Next


\* The plan only gets shorter.
LEMMA PlanStays ==
  ASSUME IInv, PlanLeft, [Next]_vars
  PROVE  PlanLeft'
<1>1. CASE Choose
  <2>1. plan # <<>> /\ plan' = Tail(plan) BY <1>1 DEF Choose
  <2>2. plan \in Seq(Command) BY DEF IInv, Counters
  <2>3. /\ Len(plan) \in Nat /\ Len(plan') = Len(plan) - 1
        /\ \A i \in 1..Len(plan') : plan'[i] = plan[i + 1]
    BY <2>1, <2>2, TailOf
  <2>4. ASSUME NEW i \in 1..(Len(plan') - 1) PROVE plan'[i] \in {"LIST", "DEL"}
    <3>1. i \in 1..Len(plan') /\ i + 1 \in 1..(Len(plan) - 1) BY <2>3
    <3> QED BY <3>1, <2>3 DEF PlanLeft
  <2> QED BY <2>4 DEF PlanLeft
<1>2. CASE plan' = plan BY <1>2 DEF PlanLeft
<1>3. Handshake => plan' = plan
  BY DEF Handshake, ServerHandshake, ClientHandshake, HandshakeFails, given
<1>4. Release => plan' = plan BY DEF Release, given
<1>5. ASSUME NEW p \in Peer, Step(p) PROVE plan' = plan
  <2>1. SendTo(p) => plan' = plan BY DEF SendTo, given
  <2>2. SendLast(p) \/ SendPair(p) => plan' = plan BY DEF SendLast, SendPair, given
  <2>3. ResendLast(p) \/ ResendPair(p) => plan' = plan BY DEF ResendLast, ResendPair, given
  <2>4. AnyAck(p) \/ SettleLast(p) => plan' = plan BY DEF AnyAck, SettleLast, given
  <2>5. FirstAck(p) \/ SecondAck(p) \/ SecondAckLate(p) \/ SettlePair(p) => plan' = plan
    BY DEF FirstAck, SecondAck, SecondAckLate, SettlePair, given
  <2>6. Accept(p) => plan' = plan BY DEF Accept, given
  <2>7. AcceptPair(p) => plan' = plan BY DEF AcceptPair, given
  <2>8. Drop(p) \/ AckAgain(p) \/ Refuse(p) => plan' = plan BY DEF Drop, AckAgain, Refuse, given
  <2> QED BY <1>5, <2>1, <2>2, <2>3, <2>4, <2>5, <2>6, <2>7, <2>8 DEF Step, LastStep, PairStep
<1>6. UNCHANGED vars => plan' = plan BY DEF vars, given
<1> QED BY <1>1, <1>2, <1>3, <1>4, <1>5, <1>6 DEF Next

(* The scripts of Cllient.cpp and Server.cpp stay together: for any file,  *)
(* directory, network and uninitialised numbers, and any plan whose        *)
(* commands but the last list or delete, the two sides are always at the   *)
(* same point of a command, or one message apart, until a receive returns  *)
(* another packet than the next one sent.                                  *)
THEOREM PairWindowTalk == OneTransfer => (Spec => []TalkInv)
<1>1. OneTransfer /\ Init => TalkInv BY InitTalk
<1>2. TalkInv /\ [Next]_vars => TalkInv'
  <2> SUFFICES ASSUME TalkInv, [Next]_vars PROVE TalkInv'
    OBVIOUS
  <2>1. IInv' BY NextInv DEF TalkInv
  <2>2. PlanLeft' BY PlanStays DEF TalkInv
  <2>3. ASSUME "misread" \notin slips' PROVE Talk' /\ InTruth'
    <3>1. "misread" \notin slips BY <2>3, SlipsStay
    <3> QED BY <2>3, <3>1, NextTalk DEF TalkInv
  <2> QED BY <2>1, <2>2, <2>3 DEF TalkInv
<1> QED BY <1>1, <1>2, PTL DEF Spec

(* Cllient.cpp:640-643, for any file, directory and uninitialised numbers, *)
(* and any plan whose commands but the last list or delete: where no send  *)
(* gives up and no wait throws a message away, the client says that the    *)
(* file is gone only if the server has deleted it.                         *)
THEOREM PairWindowToldDeleted == OneTransfer => (Spec => []ToldDeletedIsDeleted)
<1>1. TalkInv => ToldDeletedIsDeleted BY DEF TalkInv, InTruth, ToldDeletedIsDeleted
<1>2. OneTransfer => (Spec => []TalkInv) BY PairWindowTalk
<1> QED BY <1>1, <1>2, PTL

(* GetFileFromServer and GetFileFromClient (Cllient.cpp:708, Server.cpp:   *)
(* 653), for a file of any length and any network: as long as no receive   *)
(* returns another packet than the next one sent, the halves of the file   *)
(* are written in order and none twice.                                    *)
THEOREM PairWindowWritten ==
  OneTransfer => (Spec => []("misread" \notin slips => InOrder /\ WrittenInOrder))
<1>1. TalkInv => ("misread" \notin slips => InOrder /\ WrittenInOrder)
  BY DEF TalkInv, InTruth, InOrder, WrittenInOrder
<1>2. OneTransfer => (Spec => []TalkInv) BY PairWindowTalk
<1> QED BY <1>1, <1>2, PTL
===============================================================================
