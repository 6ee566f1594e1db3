-------------------------- MODULE StopWaitTalkProofs --------------------------
(***************************************************************************)
(* Build 2: what the two scripts have to do with each other.               *)
(*                                                                         *)
(* Over a network that loses packets but no ACK, the two sides are in step:*)
(* leaving aside the call whose ACK is on its way, what the client and the *)
(* server still have to do fits together, one sending what the other is    *)
(* about to receive, and a socket holds that ACK and the packet being sent.*)
(***************************************************************************)
EXTENDS StopWaitProofs

\* After GET, PUT and DEL the server has closed its socket (server.cpp:444), so a
\* user who wants to be served types such a command last.
OneTransfer == \A pl \in Plans : \A i \in 1..(Len(pl) - 1) : pl[i] = "LIST"

PlanLeft == \A i \in 1..(Len(plan) - 1) : plan[i] = "LIST"

-------------------------------------------------------------------------------
\* What the client has left of a command, c, and the server, s.
AllSends(s)  == \A i \in 1..Len(s) : s[i].op = "send"
AllChunks(s) == \A i \in 1..Len(s) : s[i] = RecvCall("chunk")

Listing(s) ==
  /\ Len(s) >= 2
  /\ \A i \in 1..(Len(s) - 2) : s[i].op = "send" /\ s[i].kind = "entry"
  /\ s[Len(s) - 1] = SendCall("@", 0) /\ s[Len(s)] = RecvCall("command")

SendsFile(s) == /\ s # <<>> /\ Head(s) = SendCall("info", Size)
                /\ AllSends(Tail(s)) /\ Len(Tail(s)) \in {Size, Size + 1}

\* The sender of a file may have a packet more to send than is waited for.
Transfer(from, to) ==
  AllSends(from) /\ AllChunks(to) /\ Len(from) \in {Len(to), Len(to) + 1}

Browsing(c, s) ==
  \/ c = <<>> /\ s = <<RecvCall("command")>>
  \/ c = listServerFiles /\ s = <<RecvCall("command")>>
  \/ c = <<RecvCall("entry")>> /\ Listing(s)

Putting(c, s) ==
  LET Echo(t) == /\ t # <<>> /\ Head(t) = RecvCall("echo")
                 /\ Tail(t) = <<>> \/ SendsFile(Tail(t))
  IN \/ c # <<>> /\ Head(c) = SendCall("PUT", 0) /\ Echo(Tail(c)) /\ s = <<RecvCall("command")>>
     \/ Echo(c) /\ s = <<SendCall("PUT", 0), RecvCall("putinfo")>>
     \/ (c = <<>> \/ SendsFile(c)) /\ s = <<RecvCall("putinfo")>>

Getting(c, s) ==
  \/ c = GetFileFromServer /\ s = <<RecvCall("command")>>
  \/ /\ c = <<RecvCall("echo"), SendCall("name", 0), RecvCall("info")>>
     /\ s = <<SendCall("GET", 0), RecvCall("getname")>>
  \/ c = <<SendCall("name", 0), RecvCall("info")>> /\ s = <<RecvCall("getname")>>
  \/ c = <<RecvCall("info")>> /\ (SendsFile(s) \/ s = <<SendCall("nofile", 0)>>)

Deleting(c, s) ==
  \/ c = DeleteServerFiles /\ s = <<RecvCall("command")>>
  \/ /\ c = <<RecvCall("echo"), SendCall("name", 0), RecvCall("verdict")>>
     /\ s = <<SendCall("DEL", 0), RecvCall("delname")>>
  \/ c = <<SendCall("name", 0), RecvCall("verdict")>> /\ s = <<RecvCall("delname")>>
  \/ c = <<RecvCall("verdict")>> /\ s \in {<<SendCall("@", 0)>>, <<SendCall("#", 0)>>, <<>>}

Fits(c, s) ==
  \/ Browsing(c, s)
  \/ /\ plan = <<>>
     /\ \/ Putting(c, s) \/ Getting(c, s) \/ Deleting(c, s)
        \/ Transfer(c, s) \/ Transfer(s, c)

-------------------------------------------------------------------------------
\* o has returned the packet p waits in, and its ACK is on its way; or not yet.
Answered(p) == waiting[p] /\ calls[p] = Len(accepted[Other(p)])
Pending(p)  == waiting[p] /\ calls[p] = Len(accepted[Other(p)]) + 1

\* The calls p has left besides the one that was answered.
Rest(p) == IF Answered(p) THEN Tail(script[p]) ELSE script[p]

\* What p has sent was returned in order, all but the packet it waits in.
Counted(p) ==
  /\ accepted[Other(p)] = [k \in 1..Len(accepted[Other(p)]) |-> k]
  /\ calls[p] = Len(accepted[Other(p)]) \/ Pending(p)

IsPacket(d, p) ==
  d.id = calls[p] /\ d.kind = Head(script[p]).kind /\ d.n = Head(script[p]).n

\* In p's socket are the ACK it waits for and the packet the other side waits in.
Unread(p) ==
  LET q == Incoming(p)
      o == Other(p)
  IN \/ q = <<>> /\ ~Answered(p)
     \/ Len(q) = 1 /\ Answered(p)
     \/ Len(q) = 1 /\ ~Answered(p) /\ Pending(o) /\ IsPacket(q[1], o)
     \/ Len(q) = 2 /\ Answered(p) /\ Pending(o) /\ IsPacket(q[2], o)

\* p reads no more; its socket may be full of copies of what is being sent.
Finished(p) == script[p] = <<>> /\ (p = "client" => plan = <<>>)

InStep ==
  /\ \A p \in Peer : /\ Counted(p) /\ (Finished(p) \/ Unread(p))
                     /\ Cap = 0 => Incoming(p) = <<>>
  /\ Fits(Rest("client"), Rest("server"))

StepInv == IInv /\ PlanLeft /\ (network = {} /\ ~newDropped => InStep)


-------------------------------------------------------------------------------
LEMMA TupleOfOne ==
  ASSUME NEW S, NEW q \in Seq(S), Len(q) = 1
  PROVE  q = <<q[1]>>
OBVIOUS

LEMMA TailOfOne == \A x : Tail(<<x>>) = <<>>
OBVIOUS

\* Scripts: what their heads and tails are.
LEMMA FileSent ==
  SendsFile(SendFile)
<1> DEFINE n == IF file.extra THEN Size + 1 ELSE Size
           f == [k \in 1..n |-> SendCall("chunk", k)]
           a == SendCall("info", Size)
<1>1. Size \in Nat /\ n \in Nat BY StopWaitAssumption
<1>2. a \in Call /\ \A k \in 1..n : SendCall("chunk", k) \in Call
  BY <1>1, SingleCalls, KindsAndUses
<1>3. f \in Seq(Call) /\ Len(f) = n /\ \A k \in 1..n : f[k] = SendCall("chunk", k)
  <2>1. f \in [1..n -> Call] BY <1>2
  <2> QED BY <2>1, <1>1, FunctionIsSeq
<1> HIDE DEF f, n
<1>4. SendFile = <<a>> \o f BY DEF SendFile, f, n
<1> HIDE DEF a
<1>5. <<a>> \o f # <<>> /\ Head(<<a>> \o f) = a /\ Tail(<<a>> \o f) = f
  BY <1>2, <1>3
<1>6. AllSends(f) BY <1>3 DEF AllSends, SendCall
<1>7. n \in {Size, Size + 1} BY <1>1 DEF n
<1> QED BY <1>3, <1>4, <1>5, <1>6, <1>7 DEF SendsFile, a

LEMMA RecvFileChunks ==
  ASSUME NEW n \in Nat
  PROVE  AllChunks(RecvFile(n)) /\ Len(RecvFile(n)) = n
<1>1. RecvFile(n) \in [1..n -> {RecvCall("chunk")}] BY DEF RecvFile
<1>2. Len(RecvFile(n)) = n BY <1>1 DEF RecvFile
<1> QED BY <1>1, <1>2 DEF AllChunks

LEMMA ListingStarts ==
  Listing(listFiles \o <<RecvCall("command")>>)
<1> DEFINE f == [k \in 1..Entries |-> SendCall("entry", k)]
           a == SendCall("@", 0)
           b == RecvCall("command")
<1>1. Entries \in Nat BY StopWaitAssumption
<1>2. a \in Call /\ b \in Call /\ \A k \in 1..Entries : SendCall("entry", k) \in Call
  BY <1>1, SingleCalls, KindsAndUses
<1>3. f \in Seq(Call) /\ Len(f) = Entries /\ \A k \in 1..Entries : f[k] = SendCall("entry", k)
  <2>1. f \in [1..Entries -> Call] BY <1>2
  <2> QED BY <2>1, <1>1, FunctionIsSeq
<1> HIDE DEF f
<1>4. listFiles = f \o <<a>> BY DEF listFiles, f
<1> DEFINE t == (f \o <<a>>) \o <<b>>
<1> HIDE DEF a, b
<1>5. /\ Len(t) = Entries + 2 /\ \A k \in 1..Entries : t[k] = f[k]
      /\ t[Entries + 1] = a /\ t[Entries + 2] = b
  BY <1>1, <1>2, <1>3
<1> HIDE DEF t
<1>6. \A k \in 1..(Len(t) - 2) : t[k].op = "send" /\ t[k].kind = "entry"
  BY <1>1, <1>3, <1>5 DEF SendCall
<1>7. Listing(t) BY <1>1, <1>5, <1>6 DEF Listing, a, b
<1> QED BY <1>4, <1>7 DEF t, b

LEMMA ListingGoesOn ==
  ASSUME NEW s \in Seq(Call), Listing(s)
  PROVE  /\ s # <<>> /\ Head(s).op = "send"
         /\ Head(s).kind # "@" => Listing(Tail(s))
         /\ Head(s).kind = "@" => Tail(s) = <<RecvCall("command")>>
<1> USE DEF Listing
<1>1. Len(s) \in Nat /\ Len(s) >= 2 /\ s # <<>> /\ Head(s) = s[1]
  OBVIOUS
<1>2. CASE Len(s) = 2
  <2>1. s[1] = SendCall("@", 0) /\ s[2] = RecvCall("command") BY <1>2 DEF Listing
  <2>2. Tail(s) = <<s[2]>>
    <3>1. /\ Tail(s) \in Seq(Call) /\ Len(Tail(s)) = Len(s) - 1
          /\ \A i \in 1..Len(Tail(s)) : Tail(s)[i] = s[i + 1]
      BY <1>1, TailOf
    <3> HIDE DEF Listing
    <3>2. Len(Tail(s)) = 1 BY <3>1, <1>2
    <3>3. Tail(s)[1] = s[2]
      <4>1. 1 \in 1..Len(Tail(s)) /\ 1 + 1 = 2 BY <3>2
      <4>2. Tail(s)[1] = s[1 + 1] BY <3>1, <4>1
      <4> QED BY <4>1, <4>2
    <3> QED BY <3>1, <3>2, <3>3, TupleOfOne
  <2> QED BY <1>1, <2>1, <2>2 DEF SendCall
<1>3. CASE Len(s) > 2
  <2> DEFINE t == Tail(s)
  <2>1. Len(t) = Len(s) - 1 /\ \A a \in 1..Len(t) : t[a] = s[a + 1] BY <1>1, TailOf
  <2> HIDE DEF t
  <2>2. 1 \in 1..(Len(s) - 2) BY <1>1, <1>3
  <2>3. s[1].op = "send" /\ s[1].kind = "entry" BY <2>2 DEF Listing
  <2>4. ASSUME NEW i \in 1..(Len(t) - 2) PROVE t[i].op = "send" /\ t[i].kind = "entry"
    <3>1. i + 1 \in 1..(Len(s) - 2) /\ i \in 1..Len(t) BY <2>1, <1>1
    <3> QED BY <3>1, <2>1 DEF Listing
  <2>5. t[Len(t) - 1] = SendCall("@", 0) /\ t[Len(t)] = RecvCall("command")
    <3>1. /\ Len(t) - 1 \in 1..Len(t) /\ Len(t) \in 1..Len(t)
          /\ Len(t) - 1 + 1 = Len(s) - 1 /\ Len(t) + 1 = Len(s)
      BY <2>1, <1>1, <1>3
    <3>2. t[Len(t) - 1] = s[Len(s) - 1] /\ t[Len(t)] = s[Len(s)] BY <3>1, <2>1
    <3> QED BY <3>2 DEF Listing
  <2>6. Len(t) >= 2 BY <2>1, <1>1, <1>3
  <2>7. Listing(t) BY <2>4, <2>5, <2>6 DEF Listing
  <2> QED BY <1>1, <2>3, <2>7 DEF t
<1>4. \A n \in Nat : n >= 2 => n = 2 \/ n > 2 OBVIOUS
<1> QED BY <1>1, <1>2, <1>3, <1>4

LEMMA TransferGoesOn ==
  ASSUME NEW from \in Seq(Call), NEW to \in Seq(Call), Transfer(from, to)
  PROVE  /\ from # <<>> => Head(from).op = "send"
         /\ to # <<>> => from # <<>> /\ Head(to) = RecvCall("chunk")
                         /\ Transfer(Tail(from), Tail(to))
<1> USE DEF Transfer
<1>1. from # <<>> => Head(from).op = "send"
  BY DEF AllSends
<1>2. ASSUME to # <<>>
      PROVE  from # <<>> /\ Head(to) = RecvCall("chunk") /\ Transfer(Tail(from), Tail(to))
  <2>1. Len(to) \in Nat /\ Len(to) > 0 /\ Head(to) = RecvCall("chunk")
    BY <1>2 DEF Transfer, AllChunks
  <2>2. Len(from) \in Nat /\ Len(from) > 0 /\ from # <<>> BY <2>1 DEF Transfer
  <2>3. /\ Len(Tail(from)) = Len(from) - 1 /\ Len(Tail(to)) = Len(to) - 1
        /\ \A a \in 1..Len(Tail(from)) : Tail(from)[a] = from[a + 1] /\ a + 1 \in 1..Len(from)
        /\ \A a \in 1..Len(Tail(to)) : Tail(to)[a] = to[a + 1] /\ a + 1 \in 1..Len(to)
    BY <1>2, <2>2, TailOf
  <2>4. AllSends(Tail(from)) /\ AllChunks(Tail(to))
    BY <2>3 DEF Transfer, AllSends, AllChunks
  <2>5. Len(Tail(from)) \in {Len(Tail(to)), Len(Tail(to)) + 1}
    <3>1. \A m, n \in Nat : m \in {n, n + 1} => m - 1 \in {n - 1, n - 1 + 1} OBVIOUS
    <3>2. Len(from) \in {Len(to), Len(to) + 1} OBVIOUS
    <3> QED BY <2>1, <2>2, <2>3, <3>1, <3>2
  <2> QED BY <2>1, <2>2, <2>4, <2>5 DEF Transfer
<1> QED BY <1>1, <1>2

\* The beginning of a command.
LEMMA CommandStarts ==
  ASSUME NEW x \in Command
  PROVE  LET c == ClientCalls(x)
             s == <<RecvCall("command")>>
         IN IF x = "LIST" THEN Browsing(c, s)
                          ELSE Putting(c, s) \/ Getting(c, s) \/ Deleting(c, s)
<1>1. CASE x = "LIST" BY <1>1 DEF ClientCalls, Browsing
<1>2. CASE x = "GET" BY <1>2 DEF ClientCalls, Getting
<1>3. CASE x = "DEL" BY <1>3 DEF ClientCalls, Deleting
<1>4. CASE x = "PUT"
  <2> DEFINE a == SendCall("PUT", 0)
             b == RecvCall("echo")
             f == IF file.exists THEN SendFile ELSE <<>>
             c == <<a, b>> \o f
  <2>1. a \in Call /\ b \in Call /\ f \in Seq(Call)
    <3>1. "PUT" \in Kind BY KindsAndUses
    <3>2. a \in Call /\ b \in Call BY <3>1, SingleCalls, KindsAndUses
    <3> QED BY <3>2, FileCallsTyped
  <2>2. f = <<>> \/ SendsFile(f) BY FileSent
  <2>3. ClientCalls("PUT") = c BY DEF ClientCalls, PutFileToServer
  <2> HIDE DEF a, b, f
  <2>4. c # <<>> /\ Head(c) = a BY <2>1
  <2>5. Tail(c) # <<>> /\ Head(Tail(c)) = b /\ Tail(Tail(c)) = f
    <3>1. Tail(c) = <<b>> \o f
      <4>1. Tail(c) \in Seq(Call) /\ <<b>> \o f \in Seq(Call) BY <2>1, <2>4
      <4>2. Len(Tail(c)) = Len(<<b>> \o f) BY <2>1
      <4>3. \A i \in 1..Len(Tail(c)) : Tail(c)[i] = (<<b>> \o f)[i] BY <2>1
      <4> QED BY <4>1, <4>2, <4>3, SeqEqual
    <3>2. Tail(<<b>> \o f) = f /\ Head(<<b>> \o f) = b /\ <<b>> \o f # <<>> BY <2>1
    <3> QED BY <3>1, <3>2
  <2>6. Putting(c, <<RecvCall("command")>>)
    BY <2>2, <2>4, <2>5 DEF Putting, a, b
  <2> QED BY <1>4, <2>3, <2>6
<1> QED BY <1>1, <1>2, <1>3, <1>4 DEF Command

LEMMA NothingToTransfer == Transfer(<<>>, <<>>)
BY DEF Transfer, AllSends, AllChunks

LEMMA Returns ==
  ASSUME NEW p, NEW m, NEW c, script[p] = c
  PROVE  LET use == Head(c).kind
         IN /\ use = "command" => NextCalls(p, m) = {Serve(m.kind)}
            /\ use = "getname" => NextCalls(p, m) = {PutFileToClient(m)}
            /\ use = "delname" => NextCalls(p, m) = {delFiles(m)}
            /\ use = "putinfo" => NextCalls(p, m) = GetFileFromClient(m)
            /\ use = "info" => NextCalls(p, m) = {IF m.kind = "info" THEN RecvFile(m.n)
                                                  ELSE Tail(c)}
            /\ use = "entry" => NextCalls(p, m) = {IF m.kind = "@" THEN Tail(c) ELSE c}
            /\ use \in {"echo", "chunk", "verdict"} => NextCalls(p, m) = {Tail(c)}
BY DEF NextCalls

(* The server returns the packet that is the client's next: what both have *)
(* left fits again.                                                        *)
LEMMA ServerReturns ==
  ASSUME NEW c \in Seq(Call), NEW s \in Seq(Call), Fits(c, s),
         c # <<>>, Head(c).op = "send", s # <<>>, Head(s).op = "recv", script["server"] = s,
         NEW m, m.kind = Head(c).kind, m.n = Head(c).n, NEW s2 \in NextCalls("server", m)
  PROVE  Fits(Tail(c), s2)
<1> USE DEF SendCall, RecvCall
<1>1. CASE Browsing(c, s)
  <2>1. c = listServerFiles /\ s = <<RecvCall("command")>>
    BY <1>1 DEF Browsing
  <2>2. m.kind = "LIST" /\ Tail(c) = <<RecvCall("entry")>> BY <2>1 DEF listServerFiles
  <2>3. s2 = Serve("LIST")
    <3>1. Head(s).kind = "command" BY <2>1, <2>2
    <3> QED BY <3>1, <2>2, Returns
  <2>4. Listing(s2) BY <2>3, ListingStarts DEF Serve
  <2> QED BY <2>2, <2>4 DEF Fits, Browsing
<1>2. ASSUME plan = <<>>, Putting(c, s) PROVE Fits(Tail(c), s2)
  <2>1. CASE Head(c) = SendCall("PUT", 0) /\ s = <<RecvCall("command")>>
    <3>1. m.kind = "PUT" BY <2>1
    <3>2. s2 = Serve("PUT")
      <4>1. Head(s).kind = "command" BY <2>1, <3>1
      <4> QED BY <4>1, <3>1, Returns
    <3>3. s2 = <<SendCall("PUT", 0), RecvCall("putinfo")>> BY <3>2 DEF Serve
    <3>4. ~(c = <<>> \/ SendsFile(c)) BY <2>1 DEF SendsFile
    <3>5. Putting(Tail(c), s2) BY <1>2, <2>1, <3>3, <3>4 DEF Putting
    <3> QED BY <1>2, <3>5 DEF Fits
  <2>2. CASE SendsFile(c) /\ s = <<RecvCall("putinfo")>>
    <3>1. m.kind = "info" /\ m.n = Size BY <2>2 DEF SendsFile
    <3>2. s2 = RecvFile(Size)
      <4>1. s2 \in GetFileFromClient(m)
        <5>1. Head(s).kind = "putinfo" BY <2>2
        <5> QED BY <5>1, <2>2, Returns
      <4> QED BY <3>1, <4>1 DEF GetFileFromClient
    <3>3. Size \in Nat BY StopWaitAssumption
    <3>4. Transfer(Tail(c), s2) BY <2>2, <3>2, <3>3, RecvFileChunks DEF SendsFile, Transfer
    <3> QED BY <1>2, <3>4 DEF Fits
  <2> QED BY <1>2, <2>1, <2>2 DEF Putting
<1>3. ASSUME plan = <<>>, Getting(c, s) PROVE Fits(Tail(c), s2)
  <2>1. CASE c = GetFileFromServer /\ s = <<RecvCall("command")>>
    <3>1. m.kind = "GET" /\ Tail(c) = <<RecvCall("echo"), SendCall("name", 0), RecvCall("info")>>
      BY <2>1 DEF GetFileFromServer
    <3>2. s2 = Serve("GET")
      <4>1. Head(s).kind = "command" BY <2>1, <3>1
      <4> QED BY <4>1, <3>1, Returns
    <3>3. s2 = <<SendCall("GET", 0), RecvCall("getname")>> BY <3>2 DEF Serve
    <3> QED BY <1>3, <3>1, <3>3 DEF Fits, Getting
  <2>2. CASE c = <<SendCall("name", 0), RecvCall("info")>> /\ s = <<RecvCall("getname")>>
    <3>1. Tail(c) = <<RecvCall("info")>> BY <2>2
    <3>2. s2 = PutFileToClient(m)
      <4>1. Head(s).kind = "getname" BY <2>2
      <4> QED BY <4>1, <2>2, Returns
    <3>3. SendsFile(s2) \/ s2 = <<SendCall("nofile", 0)>>
      BY <3>2, FileSent DEF PutFileToClient
    <3> QED BY <1>3, <3>1, <3>3 DEF Fits, Getting
  <2> QED BY <1>3, <2>1, <2>2 DEF Getting
<1>4. ASSUME plan = <<>>, Deleting(c, s) PROVE Fits(Tail(c), s2)
  <2>1. CASE c = DeleteServerFiles /\ s = <<RecvCall("command")>>
    <3>1. m.kind = "DEL" /\ Tail(c) = <<RecvCall("echo"), SendCall("name", 0), RecvCall("verdict")>>
      BY <2>1 DEF DeleteServerFiles
    <3>2. s2 = Serve("DEL")
      <4>1. Head(s).kind = "command" BY <2>1, <3>1
      <4> QED BY <4>1, <3>1, Returns
    <3>3. s2 = <<SendCall("DEL", 0), RecvCall("delname")>> BY <3>2 DEF Serve
    <3> QED BY <1>4, <3>1, <3>3 DEF Fits, Deleting
  <2>2. CASE c = <<SendCall("name", 0), RecvCall("verdict")>> /\ s = <<RecvCall("delname")>>
    <3>1. Tail(c) = <<RecvCall("verdict")>> BY <2>2
    <3>2. s2 = delFiles(m)
      <4>1. Head(s).kind = "delname" BY <2>2
      <4> QED BY <4>1, <2>2, Returns
    <3>3. s2 \in {<<SendCall("@", 0)>>, <<SendCall("#", 0)>>, <<>>}
      BY <3>2 DEF delFiles
    <3> QED BY <1>4, <3>1, <3>3 DEF Fits, Deleting
  <2> QED BY <1>4, <2>1, <2>2 DEF Deleting
<1>5. ASSUME plan = <<>>, Transfer(c, s) PROVE Fits(Tail(c), s2)
  <2>1. Head(s) = RecvCall("chunk") /\ Transfer(Tail(c), Tail(s)) BY <1>5, TransferGoesOn
  <2>2. s2 = Tail(s)
    <3>1. Head(s).kind = "chunk" BY <2>1
    <3> QED BY <3>1, Returns
  <2> QED BY <1>5, <2>1, <2>2 DEF Fits
<1>6. ASSUME Transfer(s, c) PROVE FALSE
  BY <1>6, TransferGoesOn
<1> QED BY <1>1, <1>2, <1>3, <1>4, <1>5, <1>6 DEF Fits

\* The same for the client.
LEMMA ClientReturns ==
  ASSUME NEW c \in Seq(Call), NEW s \in Seq(Call), Fits(c, s),
         s # <<>>, Head(s).op = "send", c # <<>>, Head(c).op = "recv", script["client"] = c,
         NEW m, m.kind = Head(s).kind, m.n = Head(s).n, NEW c2 \in NextCalls("client", m)
  PROVE  Fits(c2, Tail(s))
<1> USE DEF SendCall, RecvCall
<1>1. CASE Browsing(c, s)
  <2>1. c = <<RecvCall("entry")>> /\ Listing(s)
    <3>1. c # listServerFiles BY DEF listServerFiles
    <3> QED BY <1>1, <3>1 DEF Browsing
  <2>2. c2 = IF m.kind = "@" THEN Tail(c) ELSE c
    <3>1. Head(c).kind = "entry" BY <2>1
    <3> QED BY <3>1, Returns
  <2>3. /\ m.kind # "@" => Listing(Tail(s))
        /\ m.kind = "@" => Tail(s) = <<RecvCall("command")>>
    BY <2>1, ListingGoesOn
  <2>4. Tail(c) = <<>> BY <2>1
  <2> QED BY <2>1, <2>2, <2>3, <2>4 DEF Fits, Browsing
<1>2. ASSUME plan = <<>>, Putting(c, s) PROVE Fits(c2, Tail(s))
  <2>1. /\ Head(c) = RecvCall("echo") /\ (Tail(c) = <<>> \/ SendsFile(Tail(c)))
        /\ s = <<SendCall("PUT", 0), RecvCall("putinfo")>>
    BY <1>2 DEF Putting
  <2>2. c2 = Tail(c) /\ Tail(s) = <<RecvCall("putinfo")>>
    <3>1. Head(c).kind = "echo" BY <2>1
    <3>2. c2 = Tail(c) BY <3>1, Returns
    <3> QED BY <2>1, <3>2
  <2> QED BY <1>2, <2>1, <2>2 DEF Fits, Putting
<1>3. ASSUME plan = <<>>, Getting(c, s) PROVE Fits(c2, Tail(s))
  <2>1. CASE /\ c = <<RecvCall("echo"), SendCall("name", 0), RecvCall("info")>>
             /\ s = <<SendCall("GET", 0), RecvCall("getname")>>
    <3>1. Tail(s) = <<RecvCall("getname")>> /\ Tail(c) = <<SendCall("name", 0), RecvCall("info")>>
      BY <2>1
    <3>2. c2 = Tail(c)
      <4>1. Head(c).kind = "echo" BY <2>1
      <4> QED BY <4>1, Returns
    <3> QED BY <1>3, <3>1, <3>2 DEF Fits, Getting
  <2>2. CASE c = <<RecvCall("info")>> /\ SendsFile(s)
    <3>1. m.kind = "info" /\ m.n = Size BY <2>2 DEF SendsFile
    <3>2. c2 = RecvFile(Size)
      <4>1. Head(c).kind = "info" BY <2>2, <3>1
      <4> QED BY <4>1, <3>1, <2>2, Returns
    <3>3. Size \in Nat BY StopWaitAssumption
    <3>4. Transfer(Tail(s), c2) BY <2>2, <3>2, <3>3, RecvFileChunks DEF SendsFile, Transfer
    <3> QED BY <1>3, <3>4 DEF Fits
  <2>3. CASE c = <<RecvCall("info")>> /\ s = <<SendCall("nofile", 0)>>
    <3>1. m.kind = "nofile" /\ Tail(s) = <<>> /\ Tail(c) = <<>> BY <2>3
    <3>2. c2 = <<>>
      <4>1. Head(c).kind = "info" BY <2>3, <3>1
      <4>2. m.kind # "info" BY <3>1
      <4>3. c2 = Tail(c) BY <4>1, <4>2, Returns
      <4> QED BY <3>1, <4>3
    <3> QED BY <1>3, <3>1, <3>2, NothingToTransfer DEF Fits
  <2> QED BY <1>3, <2>1, <2>2, <2>3 DEF Getting, GetFileFromServer
<1>4. ASSUME plan = <<>>, Deleting(c, s) PROVE Fits(c2, Tail(s))
  <2>1. CASE /\ c = <<RecvCall("echo"), SendCall("name", 0), RecvCall("verdict")>>
             /\ s = <<SendCall("DEL", 0), RecvCall("delname")>>
    <3>1. Tail(s) = <<RecvCall("delname")>> /\ Tail(c) = <<SendCall("name", 0), RecvCall("verdict")>>
      BY <2>1
    <3>2. c2 = Tail(c)
      <4>1. Head(c).kind = "echo" BY <2>1
      <4> QED BY <4>1, Returns
    <3> QED BY <1>4, <3>1, <3>2 DEF Fits, Deleting
  <2>2. CASE c = <<RecvCall("verdict")>> /\ s \in {<<SendCall("@", 0)>>, <<SendCall("#", 0)>>, <<>>}
    <3>1. Tail(s) = <<>> /\ Tail(c) = <<>>
      <4>1. s = <<SendCall("@", 0)>> \/ s = <<SendCall("#", 0)>> BY <2>2
      <4>2. Tail(s) = <<>> BY <4>1, TailOfOne
      <4>3. c = <<RecvCall("verdict")>> BY <2>2
      <4> QED BY <4>2, <4>3
    <3>2. c2 = Tail(c)
      <4>1. Head(c).kind = "verdict" BY <2>2
      <4> QED BY <4>1, <2>2, Returns
    <3> QED BY <1>4, <3>1, <3>2, NothingToTransfer DEF Fits
  <2> QED BY <1>4, <2>1, <2>2 DEF Deleting, DeleteServerFiles
<1>5. ASSUME plan = <<>>, Transfer(s, c) PROVE Fits(c2, Tail(s))
  <2>1. Head(c) = RecvCall("chunk") /\ Transfer(Tail(s), Tail(c)) BY <1>5, TransferGoesOn
  <2>2. c2 = Tail(c)
    <3>1. Head(c).kind = "chunk" BY <2>1
    <3> QED BY <3>1, Returns
  <2> QED BY <1>5, <2>1, <2>2 DEF Fits
<1>6. ASSUME Transfer(c, s) PROVE FALSE
  BY <1>6, TransferGoesOn
<1> QED BY <1>1, <1>2, <1>3, <1>4, <1>5, <1>6 DEF Fits

\* Never do both sides send.
LEMMA OneSends ==
  ASSUME NEW c \in Seq(Call), NEW s \in Seq(Call), Fits(c, s),
         c # <<>>, Head(c).op = "send", s # <<>>
  PROVE  Head(s).op = "recv"
<1> USE DEF SendCall, RecvCall
<1>1. CASE Browsing(c, s) BY <1>1 DEF Browsing
<1>2. CASE Putting(c, s) BY <1>2 DEF Putting
<1>3. CASE Getting(c, s) BY <1>3 DEF Getting
<1>4. CASE Deleting(c, s) BY <1>4 DEF Deleting
<1>5. CASE Transfer(c, s) BY <1>5, TransferGoesOn
<1>6. CASE Transfer(s, c)
  <2>1. Head(c) = RecvCall("chunk") BY <1>6, TransferGoesOn
  <2> QED BY <2>1
<1> QED BY <1>1, <1>2, <1>3, <1>4, <1>5, <1>6 DEF Fits

\* While commands are left, a client without calls is between two of them.
LEMMA InTheMenu ==
  ASSUME NEW s, Fits(<<>>, s), plan # <<>>
  PROVE  s = <<RecvCall("command")>>
BY DEF Fits, Browsing, listServerFiles

-------------------------------------------------------------------------------
\* The sockets, when nothing is delayed and no ACK is lost.
LEMMA ShortQueues ==
  ASSUME NEW S, NEW q \in Seq(S)
  PROVE  /\ Len(q) = 1 => Tail(q) = <<>> /\ q # <<>> /\ Head(q) = q[1]
         /\ Len(q) = 2 => Len(Tail(q)) = 1 /\ Tail(q)[1] = q[2] /\ q # <<>>
         /\ Len(q) = 0 <=> q = <<>>
<1>1. ASSUME Len(q) = 1 PROVE Tail(q) = <<>> /\ q # <<>> /\ Head(q) = q[1]
  <2>1. q # <<>> /\ Head(q) = q[1] BY <1>1
  <2>2. Tail(q) \in Seq(S) /\ Len(Tail(q)) = 0 BY <1>1, <2>1, TailOf
  <2>3. Tail(q) = <<>> BY <2>2, EmptySeq
  <2> QED BY <2>1, <2>3
<1>2. ASSUME Len(q) = 2 PROVE Len(Tail(q)) = 1 /\ Tail(q)[1] = q[2] /\ q # <<>>
  <2>1. q # <<>> BY <1>2
  <2> DEFINE t == Tail(q)
  <2>2. Len(t) = Len(q) - 1 /\ \A a \in 1..Len(t) : t[a] = q[a + 1] BY <2>1, TailOf
  <2> HIDE DEF t
  <2>3. Len(t) = 1 /\ t[1] = q[2] BY <1>2, <2>2
  <2> QED BY <2>1, <2>3 DEF t
<1>3. Len(q) = 0 <=> q = <<>> OBVIOUS
<1> QED BY <1>1, <1>2, <1>3

LEMMA Arrivals ==
  ASSUME NEW p \in Peer, NEW d, network = {}, Held(Other(p)) = NoPacket, Transmit(p, d)
  PROVE  LET q  == Incoming(Other(p))
             q2 == Incoming(Other(p))'
         IN /\ q2 = q \/ q2 = Append(q, d)
            /\ Cap = 0 /\ q = <<>> => q2 = <<>>
            /\ Cap # 0 /\ q = <<>> /\ d.kind = "ack" => Len(q2) = 1
<1> DEFINE q == Incoming(Other(p))
           q2 == Incoming(Other(p))'
<1>1. q2 = Arrived(q, d) \/ (q2 = q /\ d.kind # "ack")
  <2>1. CASE p = "client"
    BY <2>1 DEF Transmit, Arrived, Incoming, Held, Other, KeepOutgoing, KeepIncoming,
                Up!Forward, Up!Hold, Up!Arrive
  <2>2. CASE p = "server"
    BY <2>2 DEF Transmit, Arrived, Incoming, Held, Other, KeepOutgoing, KeepIncoming,
                Down!Forward, Down!Hold, Down!Arrive
  <2> QED BY <2>1, <2>2 DEF Peer
<1> HIDE DEF q, q2
<1>2. q2 = q \/ q2 = Append(q, d) BY <1>1 DEF Arrived
<1>3. Cap = 0 /\ q = <<>> => q2 = <<>> BY <1>1 DEF Arrived
<1>4. Cap # 0 /\ q = <<>> /\ d.kind = "ack" => Len(q2) = 1
  <2> SUFFICES ASSUME Cap # 0, q = <<>>, d.kind = "ack" PROVE Len(q2) = 1
    OBVIOUS
  <2>1. q2 = Append(<<>>, d) BY <1>1 DEF Arrived
  <2> QED BY <2>1
<1> QED BY <1>2, <1>3, <1>4 DEF q, q2

\* What the invariant says of one side.
Side(p) == /\ Counted(p) /\ (Finished(p) \/ Unread(p))
           /\ Cap = 0 => Incoming(p) = <<>>

LEMMA SideFacts ==
  ASSUME IInv, InStep, NEW p \in Peer, network = {}
  PROVE  /\ Side(p) /\ Side(Other(p)) /\ Fits(Rest("client"), Rest("server"))
         /\ TypeOK /\ Shapes
         /\ calls[p] \in Nat /\ waiting[p] \in BOOLEAN /\ script[p] \in Seq(Call)
         /\ accepted[p] \in Seq(0..calls[Other(p)]) /\ Len(accepted[p]) \in Nat
         /\ Incoming(p) \in Seq(Made(calls[Other(p)])) /\ Held(p) = NoPacket
         /\ waiting[p] => script[p] # <<>> /\ Head(script[p]).op = "send" /\ ~Finished(p)
         /\ script[p] # <<>> => ~Finished(p)
<1>1. Other(p) \in Peer BY Others
<1>2. Side(p) /\ Side(Other(p)) BY <1>1 DEF InStep, Side
<1>3. TypeOK /\ Shapes /\ LinksMade BY DEF IInv
<1>4. Held(p) = NoPacket BY DEF IInv, Undelayed
<1>5. accepted[p] \in Seq(0..calls[Other(p)]) /\ calls[p] \in Nat /\ waiting[p] \in BOOLEAN
      /\ script[p] \in Seq(Call)
  BY <1>1, <1>3 DEF TypeOK, Shapes
<1>6. Incoming(p) \in Seq(Made(calls[Other(p)])) BY <1>3 DEF LinksMade
<1>7. waiting[p] => script[p] # <<>> /\ Head(script[p]).op = "send"
  BY <1>3 DEF TypeOK, InCall
<1>8. Fits(Rest("client"), Rest("server")) BY DEF InStep
<1>9. Len(accepted[p]) \in Nat BY <1>5
<1> QED BY <1>2, <1>3, <1>4, <1>5, <1>6, <1>7, <1>8, <1>9 DEF Finished

\* The two sides may be named either way.
LEMMA BothSides ==
  ASSUME NEW p \in Peer, Side(p)', Side(Other(p))', Fits(Rest("client"), Rest("server"))'
  PROVE  InStep'
<1>1. \A r \in Peer : Side(r)'
  <2>1. \A r \in Peer : r = p \/ r = Other(p) BY Others
  <2> QED BY <2>1
<1> QED BY <1>1 DEF InStep, Side

(* A relation between two scripts that holds of c and s, now, holds of the *)
(* scripts that are c and s after a step.                                  *)
LEMMA FitsFrom ==
  ASSUME NEW c, NEW s, Rest("client")' = c, Rest("server")' = s,
         \/ Browsing(c, s)
         \/ /\ plan' = <<>>
            /\ \/ Putting(c, s) \/ Getting(c, s) \/ Deleting(c, s)
               \/ Transfer(c, s) \/ Transfer(s, c)
  PROVE  Fits(Rest("client"), Rest("server"))'
<1> HIDE DEF Rest
<1> DEFINE a == Rest("client")
           b == Rest("server")
<1>1. Browsing(a, b)' <=> Browsing(c, s) BY DEF Browsing, listServerFiles, Listing
<1>2. Putting(a, b)' <=> Putting(c, s) BY DEF Putting, SendsFile, AllSends
<1>3. Getting(a, b)' <=> Getting(c, s) BY DEF Getting, GetFileFromServer, SendsFile, AllSends
<1>4. Deleting(a, b)' <=> Deleting(c, s) BY DEF Deleting, DeleteServerFiles
<1>5. Transfer(a, b)' <=> Transfer(c, s) BY DEF Transfer, AllSends, AllChunks
<1>6. Transfer(b, a)' <=> Transfer(s, c) BY DEF Transfer, AllSends, AllChunks
<1> HIDE DEF a, b
<1> QED BY <1>1, <1>2, <1>3, <1>4, <1>5, <1>6 DEF Fits, a, b

LEMMA FitsLater ==
  ASSUME NEW c, NEW s, Fits(c, s), Rest("client")' = c, Rest("server")' = s, plan' = plan
  PROVE  Fits(Rest("client"), Rest("server"))'
BY FitsFrom DEF Fits

LEMMA RestsFit ==
  ASSUME NEW p \in Peer, Fits(Rest("client"), Rest("server")),
         Rest(p)' = Rest(p), Rest(Other(p))' = Rest(Other(p)), plan' = plan
  PROVE  Fits(Rest("client"), Rest("server"))'
<1>1. Rest("client")' = Rest("client") /\ Rest("server")' = Rest("server")
  BY DEF Peer, Other
<1>2. PICK c, s : c = Rest("client") /\ s = Rest("server") OBVIOUS
<1> HIDE DEF Rest
<1>3. Fits(c, s) BY <1>2
<1> QED BY <1>1, <1>2, <1>3, FitsLater

\* Two sides that both wait for an answer cannot both be unanswered.
LEMMA NotBothPending ==
  ASSUME IInv, InStep, network = {}, NEW p \in Peer, waiting[p], ~Answered(p),
         waiting[Other(p)], ~Answered(Other(p))
  PROVE  FALSE
<1>1. \A r \in Peer : /\ Rest(r) = script[r] /\ script[r] \in Seq(Call)
                      /\ script[r] # <<>> /\ Head(script[r]).op = "send"
  <2>1. \A r \in Peer : r = p \/ r = Other(p) BY Others
  <2>2. \A r \in Peer : waiting[r] /\ ~Answered(r) BY <2>1
  <2> QED BY <2>2, SideFacts DEF Rest
<1>2. "client" \in Peer /\ "server" \in Peer BY DEF Peer
<1>3. Fits(script["client"], script["server"]) BY <1>1, <1>2 DEF InStep
<1>4. Head(script["server"]).op = "recv" BY <1>1, <1>2, <1>3, OneSends
<1> QED BY <1>1, <1>2, <1>4

-------------------------------------------------------------------------------
\* A copy of the packet p waits in reaches a socket without one.
LEMMA PacketArrives ==
  ASSUME NEW o \in Peer, NEW S, NEW q \in Seq(S), NEW d \in S, Incoming(o) = q,
         Incoming(o)' = q \/ Incoming(o)' = Append(q, d),
         \/ q = <<>> /\ ~Answered(o)
         \/ Len(q) = 1 /\ Answered(o),
         Answered(o)' = Answered(o), Pending(Other(o))', IsPacket(d, Other(o))'
  PROVE  Unread(o)'
<1>1. CASE Incoming(o)' = q BY <1>1 DEF Unread
<1>2. CASE Incoming(o)' = Append(q, d)
  <2> DEFINE t == Append(q, d)
  <2>1. Len(t) = Len(q) + 1 /\ t[Len(q) + 1] = d /\ Len(q) \in Nat BY Appended
  <2>2. q = <<>> => Len(q) = 0 OBVIOUS
  <2> HIDE DEF t
  <2>3. CASE q = <<>> /\ ~Answered(o)
    <3>1. Len(t) = 1 /\ t[1] = d BY <2>1, <2>2, <2>3
    <3> QED BY <1>2, <2>3, <3>1 DEF Unread, t
  <2>4. CASE Len(q) = 1 /\ Answered(o)
    <3>1. Len(t) = 2 /\ t[2] = d BY <2>1, <2>4
    <3> QED BY <1>2, <2>4, <3>1 DEF Unread, t
  <2> QED BY <2>3, <2>4
<1> QED BY <1>1, <1>2

\* udpsend's packet is the next to be returned by the other side.
LEMMA udpsendInStep ==
  ASSUME IInv, InStep, network = {}, NEW p \in Peer, udpsend(p)
  PROVE  InStep'
<1> DEFINE o == Other(p)
<1>1. /\ InCall(p, "send") /\ ~waiting[p]
      /\ waiting' = [waiting EXCEPT ![p] = TRUE]
      /\ calls' = [calls EXCEPT ![p] = calls[p] + 1]
      /\ Transmit(p, Packet(p)) /\ KeepIncoming(p)
      /\ UNCHANGED <<plan, script, accepted>>
  BY DEF udpsend
<1>2. o \in Peer /\ o # p /\ Other(o) = p BY Others
<1>3. /\ Side(p) /\ Side(o) /\ Fits(Rest("client"), Rest("server"))
      /\ calls[p] \in Nat /\ script[p] # <<>> /\ Held(o) = NoPacket /\ TypeOK
      /\ DOMAIN waiting = Peer /\ DOMAIN calls = Peer
      /\ ~Finished(p)
  <2>1. script[p] # <<>> BY <1>1 DEF InCall
  <2>2. TypeOK /\ Shapes BY DEF IInv
  <2>3. DOMAIN waiting = Peer /\ DOMAIN calls = Peer BY <2>2 DEF TypeOK, Shapes
  <2> QED BY <1>2, <2>1, <2>2, <2>3, SideFacts
<1>4. Incoming(o) \in Seq(Made(calls[p])) /\ Len(accepted[o]) \in Nat
  BY <1>2, SideFacts
<1>5. /\ calls'[p] = calls[p] + 1 /\ calls'[o] = calls[o]
      /\ waiting'[p] = TRUE /\ waiting'[o] = waiting[o]
      /\ script' = script /\ accepted' = accepted /\ plan' = plan
  BY <1>1, <1>2, <1>3
<1>6. ~Answered(p) /\ ~Pending(p) /\ calls[p] = Len(accepted[o])
  BY <1>1, <1>3 DEF Answered, Pending, Side, Counted
<1>7. /\ ~Answered(p)' /\ Pending(p)'
      /\ Answered(o)' = Answered(o) /\ Pending(o)' = Pending(o)
  BY <1>2, <1>3, <1>4, <1>5, <1>6 DEF Answered, Pending
<1>8. Rest(p)' = Rest(p) /\ Rest(o)' = Rest(o)
  BY <1>5, <1>6, <1>7 DEF Rest
<1>9. PICK d : d = Packet(p) OBVIOUS
<1>10. IsPacket(d, p)' /\ d \in Made(calls[p] + 1)
  <2>1. calls'[p] \in Nat BY <1>3, <1>5
  <2>2. d \in Made(calls'[p]) BY <1>1, <1>3, <1>9, <2>1, PacketMade
  <2>3. d.id = calls'[p] /\ d.kind = Head(script[p]).kind /\ d.n = Head(script[p]).n
    BY <1>9 DEF Packet
  <2> QED BY <1>5, <2>2, <2>3 DEF IsPacket
<1>11. Counted(p)' /\ Counted(o)'
  BY <1>2, <1>3, <1>5, <1>7 DEF Side, Counted
<1>12. Incoming(p)' = Incoming(p) BY <1>1, IncomingKept
<1>13. Unread(p)'
  BY <1>2, <1>3, <1>5, <1>6, <1>7, <1>12 DEF Side, Unread, IsPacket
<1>14. Transmit(p, d) BY <1>1, <1>9
<1>15. /\ Incoming(o)' = Incoming(o) \/ Incoming(o)' = Append(Incoming(o), d)
       /\ Cap = 0 /\ Incoming(o) = <<>> => Incoming(o)' = <<>>
  BY <1>3, <1>14, Arrivals
<1>16. Finished(o)' \/ Unread(o)'
  <2>1. CASE Finished(o) BY <2>1, <1>5 DEF Finished
  <2>2. CASE Unread(o)
    <3>1. \/ Incoming(o) = <<>> /\ ~Answered(o)
          \/ Len(Incoming(o)) = 1 /\ Answered(o)
      BY <1>2, <1>6, <2>2 DEF Unread
    <3>2. Made(calls[p]) \subseteq Made(calls[p] + 1) BY <1>3 DEF Made
    <3>3. Incoming(o) \in Seq(Made(calls[p] + 1)) BY <1>4, <3>2, SeqMonotonic
    <3> HIDE DEF o
    <3>4. Unread(o)'
      BY <1>2, <1>7, <1>10, <1>15, <3>1, <3>3, PacketArrives
    <3> QED BY <3>4
  <2> QED BY <1>3, <2>1, <2>2 DEF Side
<1>17. Side(p)' /\ Side(o)'
  BY <1>3, <1>11, <1>12, <1>13, <1>15, <1>16 DEF Side
<1>18. Fits(Rest("client"), Rest("server"))' BY <1>3, <1>5, <1>8, RestsFit
<1> QED BY <1>17, <1>18, BothSides

\* A resent packet finds the other side's socket empty, or a side that has finished.
LEMMA ResendInStep ==
  ASSUME IInv, InStep, network = {}, NEW p \in Peer, Resend(p)
  PROVE  InStep'
<1> DEFINE o == Other(p)
<1>1. /\ waiting[p] /\ Incoming(p) = <<>> /\ Quiet(p)
      /\ Transmit(p, Packet(p)) /\ KeepIncoming(p)
      /\ waiting' = waiting /\ calls' = calls
      /\ script' = script /\ accepted' = accepted /\ plan' = plan
  BY DEF Resend, seqs
<1>2. o \in Peer /\ o # p /\ Other(o) = p BY Others
<1>3. /\ Side(p) /\ Side(o) /\ Fits(Rest("client"), Rest("server"))
      /\ calls[p] \in Nat /\ Held(o) = NoPacket /\ TypeOK
      /\ script[p] # <<>> /\ Head(script[p]).op = "send" /\ ~Finished(p)
      /\ waiting[o] => script[o] # <<>>
  <2>1. TypeOK BY DEF IInv
  <2> QED BY <1>1, <1>2, <2>1, SideFacts
<1>4. Incoming(o) \in Seq(Made(calls[p])) /\ Len(accepted[o]) \in Nat
  BY <1>2, SideFacts
<1>5. ~Answered(p) /\ Pending(p)
  <2>1. Unread(p) BY <1>3 DEF Side
  <2>2. Len(Incoming(p)) = 0 BY <1>1
  <2>3. ~Answered(p) BY <1>1, <2>1, <2>2 DEF Unread
  <2> QED BY <1>1, <1>2, <1>3, <2>3 DEF Side, Counted, Answered
<1>6. /\ Answered(p)' = Answered(p) /\ Pending(p)' = Pending(p)
      /\ Answered(o)' = Answered(o) /\ Pending(o)' = Pending(o)
      /\ Rest(p)' = Rest(p) /\ Rest(o)' = Rest(o)
      /\ Counted(p)' = Counted(p) /\ Counted(o)' = Counted(o)
  BY <1>1, <1>2 DEF Answered, Pending, Rest, Counted
<1>7. PICK d : d = Packet(p) OBVIOUS
<1>8. IsPacket(d, p)' /\ d \in Made(calls[p])
  <2>1. calls'[p] \in Nat BY <1>1, <1>3
  <2>2. InCall(p, "send") BY <1>3 DEF InCall
  <2>3. d \in Made(calls'[p]) BY <1>3, <1>7, <2>1, <2>2, PacketMade
  <2>4. d.id = calls'[p] /\ d.kind = Head(script[p]).kind /\ d.n = Head(script[p]).n
    BY <1>7 DEF Packet
  <2> QED BY <1>1, <2>3, <2>4 DEF IsPacket
<1>9. Incoming(p)' = Incoming(p) BY <1>1, IncomingKept
<1>10. Unread(p)' BY <1>1, <1>5, <1>6, <1>9 DEF Unread
<1>11. /\ Incoming(o)' = Incoming(o) \/ Incoming(o)' = Append(Incoming(o), d)
       /\ Cap = 0 /\ Incoming(o) = <<>> => Incoming(o)' = <<>>
  <2>1. Transmit(p, d) BY <1>1, <1>7
  <2> QED BY <1>3, <2>1, Arrivals
<1>12. Finished(o) \/ Incoming(o) = <<>>
  <2> SUFFICES ASSUME AtPrompt(o), ~Finished(o) PROVE FALSE
    BY <1>1 DEF Quiet
  <2>1. o = "client" /\ p = "server" BY <1>2 DEF AtPrompt, Finished, Peer, Other
  <2>2. Rest("server") = script["server"] BY <1>5, <2>1 DEF Rest
  <2>3. ~Answered("client") BY <1>3, <2>1 DEF AtPrompt, Answered
  <2>4. Rest("client") = script["client"] BY <2>3 DEF Rest
  <2>5. CASE script["client"] = <<>>
    <3>1. plan # <<>> BY <2>1, <2>5 DEF Finished
    <3>2. Fits(<<>>, script["server"]) BY <1>3, <2>2, <2>4, <2>5
    <3>3. script["server"] = <<RecvCall("command")>> BY <3>1, <3>2, InTheMenu
    <3> QED BY <1>3, <2>1, <3>3 DEF RecvCall
  <2>6. CASE InCall("client", "send")
    <3>1. Fits(script["client"], script["server"]) BY <1>3, <2>2, <2>4
    <3>2. script["client"] \in Seq(Call) /\ script["server"] \in Seq(Call)
      BY <1>2, <2>1, SideFacts
    <3>3. Head(script["server"]).op = "recv" BY <1>3, <2>1, <2>6, <3>1, <3>2, OneSends DEF InCall
    <3> QED BY <1>3, <2>1, <3>3
  <2> QED BY <2>1, <2>5, <2>6 DEF AtPrompt
<1>13. Finished(o)' \/ Unread(o)'
  <2>1. CASE Finished(o) BY <2>1, <1>1 DEF Finished
  <2>2. CASE Unread(o) /\ Incoming(o) = <<>>
    <3>1. ~Answered(o)
      <4>1. Len(Incoming(o)) = 0 BY <2>2
      <4> QED BY <2>2, <4>1 DEF Unread
    <3> HIDE DEF o
    <3>2. Unread(o)'
      BY <1>2, <1>4, <1>5, <1>6, <1>8, <1>11, <2>2, <3>1, PacketArrives
    <3> QED BY <3>2
  <2> QED BY <1>3, <1>12, <2>1, <2>2 DEF Side
<1>14. Side(p)' /\ Side(o)'
  BY <1>3, <1>6, <1>9, <1>10, <1>11, <1>13 DEF Side
<1>15. Fits(Rest("client"), Rest("server"))' BY <1>1, <1>3, <1>6, RestsFit
<1> QED BY <1>14, <1>15, BothSides

\* udpsend ends at the ACK of its packet.
LEMMA RecvAckInStep ==
  ASSUME IInv, InStep, network = {}, NEW p \in Peer, RecvAck(p)
  PROVE  InStep'
<1> DEFINE o == Other(p)
           q == Incoming(p)
<1>1. /\ waiting[p] /\ q # <<>> /\ Consume(p) /\ KeepOutgoing(p)
      /\ waiting' = [waiting EXCEPT ![p] = FALSE]
      /\ script' = [script EXCEPT ![p] = Tail(script[p])]
      /\ calls' = calls /\ accepted' = accepted /\ plan' = plan
  BY DEF RecvAck
<1>2. o \in Peer /\ o # p /\ Other(o) = p BY Others
<1>3. /\ Side(p) /\ Side(o) /\ Fits(Rest("client"), Rest("server"))
      /\ DOMAIN waiting = Peer /\ DOMAIN script = Peer /\ ~Finished(p)
      /\ q \in Seq(Made(calls[o])) /\ waiting[o] \in BOOLEAN
  <2>1. TypeOK /\ Shapes BY DEF IInv
  <2>2. DOMAIN waiting = Peer /\ DOMAIN script = Peer BY <2>1 DEF TypeOK, Shapes
  <2> QED BY <1>1, <1>2, <2>2, SideFacts
<1>4. calls[p] \in Nat /\ Len(accepted[o]) \in Nat BY <1>2, SideFacts
<1>5. /\ waiting'[p] = FALSE /\ waiting'[o] = waiting[o]
      /\ script'[p] = Tail(script[p]) /\ script'[o] = script[o]
  BY <1>1, <1>2, <1>3
<1>6. Answered(p)
  <2> SUFFICES ASSUME ~Answered(p) PROVE FALSE OBVIOUS
  <2>1. Unread(p) BY <1>3 DEF Side
  <2>2. Pending(o) BY <1>1, <2>1 DEF Unread
  <2>3. waiting[o] /\ ~Answered(o)
    <3>1. Len(accepted[p]) \in Nat BY SideFacts
    <3> QED BY <1>2, <2>2, <3>1 DEF Pending, Answered
  <2> QED BY <1>1, <2>3, NotBothPending
<1>7. ~Pending(p) /\ calls[p] = Len(accepted[o])
  BY <1>4, <1>6 DEF Answered, Pending
<1>8. /\ ~Answered(p)' /\ ~Pending(p)'
      /\ Answered(o)' = Answered(o) /\ Pending(o)' = Pending(o)
  BY <1>1, <1>2, <1>5 DEF Answered, Pending
<1>9. Rest(p)' = Rest(p) /\ Rest(o)' = Rest(o)
  BY <1>5, <1>6, <1>8 DEF Rest
<1>10. Counted(p)' /\ Counted(o)'
  BY <1>1, <1>2, <1>3, <1>7, <1>8 DEF Side, Counted
<1>11. /\ Incoming(p)' = Tail(q) /\ Incoming(o)' = Incoming(o)
  BY <1>1, <1>2, ConsumeTakes, IncomingKept DEF KeepOutgoing
<1>12. Unread(p)'
  <2>1. Unread(p) BY <1>3 DEF Side
  <2>2. CASE Len(q) = 1
    <3>1. Incoming(p)' = <<>> BY <1>3, <1>11, <2>2, ShortQueues
    <3> QED BY <1>8, <3>1 DEF Unread
  <2>3. CASE Len(q) = 2 /\ Pending(o) /\ IsPacket(q[2], o)
    <3>1. PICK d : d = q[2] OBVIOUS
    <3>2. Len(Incoming(p)') = 1 /\ Incoming(p)'[1] = d
      BY <1>3, <1>11, <2>3, <3>1, ShortQueues
    <3>3. IsPacket(d, o)' BY <1>1, <1>5, <2>3, <3>1 DEF IsPacket
    <3>4. IsPacket(Incoming(p)[1], o)' BY <3>2, <3>3 DEF IsPacket
    <3> QED BY <1>8, <2>3, <3>2, <3>4 DEF Unread
  <2> QED BY <1>1, <1>6, <2>1, <2>2, <2>3 DEF Unread
<1>13. Finished(o)' \/ Unread(o)'
  <2>1. CASE Finished(o) BY <2>1, <1>1, <1>5 DEF Finished
  <2>2. CASE Unread(o) BY <2>2, <1>2, <1>7, <1>8, <1>11 DEF Unread
  <2> QED BY <1>3, <2>1, <2>2 DEF Side
<1>14. Cap = 0 => Incoming(p)' = <<>> BY <1>1, <1>3 DEF Side
<1>15. Side(p)' /\ Side(o)'
  BY <1>3, <1>10, <1>11, <1>12, <1>13, <1>14 DEF Side
<1>16. Fits(Rest("client"), Rest("server"))' BY <1>1, <1>3, <1>9, RestsFit
<1> QED BY <1>15, <1>16, BothSides

\* What a side finds in its socket in udprecv is the packet the other waits in.
LEMMA FoundInStep ==
  ASSUME IInv, InStep, network = {}, NEW p \in Peer, InCall(p, "recv"), Incoming(p) # <<>>
  PROVE  LET o == Other(p)
             d == Head(Incoming(p))
         IN /\ Len(Incoming(p)) = 1 /\ Cap # 0 /\ ~Answered(p) /\ ~Pending(p)
            /\ Pending(o) /\ ~Answered(o) /\ ~Finished(o) /\ IsPacket(d, o)
            /\ Incoming(o) = <<>> /\ d.id = Len(accepted[p]) + 1
<1> DEFINE o == Other(p)
           q == Incoming(p)
<1>1. o \in Peer /\ o # p /\ Other(o) = p BY Others
<1>2. ~waiting[p]
  <2>1. waiting[p] => Head(script[p]).op = "send" BY SideFacts
  <2> QED BY <2>1 DEF InCall
<1>3. ~Answered(p) /\ ~Pending(p) BY <1>2 DEF Answered, Pending
<1>4. Unread(p) /\ (Cap = 0 => q = <<>>)
  <2>1. ~Finished(p) BY SideFacts DEF InCall
  <2> QED BY <2>1, SideFacts DEF Side
<1>5. Len(q) = 1 /\ Pending(o) /\ IsPacket(q[1], o)
  BY <1>3, <1>4 DEF Unread
<1>6. q \in Seq(Made(calls[o])) BY SideFacts
<1>7. Head(q) = q[1] BY <1>5, <1>6, ShortQueues
<1>8. ~Answered(o) /\ waiting[o] /\ calls[o] = Len(accepted[p]) + 1
  <2>1. Len(accepted[p]) \in Nat BY SideFacts
  <2> QED BY <1>1, <1>5, <2>1 DEF Pending, Answered
<1>9. ~Finished(o) /\ Unread(o) BY <1>1, <1>8, SideFacts DEF Side
<1>10. Incoming(o) = <<>> BY <1>1, <1>3, <1>8, <1>9 DEF Unread
<1>11. Head(q).id = Len(accepted[p]) + 1 BY <1>5, <1>7, <1>8 DEF IsPacket
<1> QED BY <1>3, <1>4, <1>5, <1>7, <1>8, <1>9, <1>10, <1>11

\* What is returned is the packet the other side waits in, and its ACK arrives.
LEMMA AcceptInStep ==
  ASSUME IInv, InStep, network = {}, NEW p \in Peer, Accept(p)
  PROVE  InStep'
<1> DEFINE o == Other(p)
           q == Incoming(p)
           m == Head(q)
<1>1. /\ InCall(p, "recv") /\ q # <<>>
      /\ \E s \in NextCalls(p, m) : script' = [script EXCEPT ![p] = s]
      /\ accepted' = [accepted EXCEPT ![p] = Append(accepted[p], m.id)]
      /\ Consume(p) /\ SendAck(p)
      /\ waiting' = waiting /\ calls' = calls /\ plan' = plan
  BY DEF Accept
<1>2. o \in Peer /\ o # p /\ Other(o) = p BY Others
<1>3. /\ Side(p) /\ Side(o) /\ Fits(Rest("client"), Rest("server"))
      /\ DOMAIN accepted = Peer /\ DOMAIN script = Peer
      /\ Held(o) = NoPacket /\ q \in Seq(Made(calls[o])) /\ TypeOK
      /\ accepted[p] \in Seq(0..calls[o]) /\ Len(accepted[p]) \in Nat
      /\ script[p] \in Seq(Call) /\ script[o] \in Seq(Call)
  <2>1. TypeOK /\ Shapes BY DEF IInv
  <2>2. DOMAIN accepted = Peer /\ DOMAIN script = Peer BY <2>1 DEF TypeOK, Shapes
  <2> QED BY <1>2, <2>1, <2>2, SideFacts
<1>4. /\ Len(q) = 1 /\ Cap # 0 /\ ~Answered(p) /\ ~Pending(p)
      /\ Pending(o) /\ ~Answered(o) /\ IsPacket(m, o)
      /\ Incoming(o) = <<>> /\ m.id = Len(accepted[p]) + 1
  BY <1>1, FoundInStep
<1>5. PICK s \in NextCalls(p, m) : script' = [script EXCEPT ![p] = s] BY <1>1
<1>6. /\ script'[p] = s /\ script'[o] = script[o]
      /\ accepted'[p] = Append(accepted[p], m.id) /\ accepted'[o] = accepted[o]
  BY <1>1, <1>2, <1>3, <1>5
<1>7. /\ Len(accepted'[p]) = Len(accepted[p]) + 1
      /\ accepted'[p] = [k \in 1..Len(accepted'[p]) |-> k]
  <2> DEFINE acc == accepted[p]
             n == Len(acc)
             t == Append(acc, m.id)
  <2>1. m.id \in 0..calls[o]
    <3>1. m \in Made(calls[o]) BY <1>1, <1>3, TailOf
    <3> QED BY <3>1 DEF Made
  <2>2. n \in Nat /\ acc \in Seq(Nat) /\ m.id \in Nat
    <3>1. calls[o] \in Nat BY <1>2, SideFacts
    <3>2. 0..calls[o] \subseteq Nat BY <3>1
    <3> QED BY <1>3, <2>1, <3>2, SeqMonotonic
  <2>3. acc = [k \in 1..n |-> k] BY <1>2, <1>3 DEF Side, Counted
  <2>4. \A k \in 1..n : acc[k] = k BY <2>3
  <2>5. /\ t \in Seq(Nat) /\ Len(t) = n + 1 /\ t[n + 1] = n + 1
        /\ \A k \in 1..n : t[k] = k
    BY <1>4, <2>2, <2>4, Appended
  <2> HIDE DEF acc, n, t
  <2>6. \A k \in 1..(n + 1) : t[k] = k BY <2>2, <2>5
  <2>7. t = [k \in 1..(n + 1) |-> t[k]] BY <2>5, LenProperties
  <2>8. t = [k \in 1..(n + 1) |-> k] BY <2>6, <2>7
  <2> QED BY <1>6, <2>5, <2>8 DEF acc, n, t
<1>8. /\ ~Answered(p)' /\ ~Pending(p)' /\ Answered(o)' /\ ~Pending(o)'
  <2>1. ~waiting[p]
    <3>1. waiting[p] => Head(script[p]).op = "send" BY SideFacts
    <3> QED BY <1>1, <3>1 DEF InCall
  <2>2. calls[o] = Len(accepted[p]) + 1 /\ waiting[o] BY <1>2, <1>4 DEF Pending
  <2> QED BY <1>1, <1>2, <1>3, <1>7, <2>1, <2>2 DEF Answered, Pending
<1>9. Rest(p)' = s /\ Rest(o)' = Tail(script[o]) /\ Rest(p) = script[p] /\ Rest(o) = script[o]
  BY <1>4, <1>6, <1>8 DEF Rest
<1>10. Counted(p)' /\ Counted(o)'
  <2>1. calls[p] = Len(accepted[o]) BY <1>3, <1>4 DEF Side, Counted
  <2>2. calls[o] = Len(accepted'[p]) BY <1>2, <1>4, <1>7 DEF Pending
  <2> QED BY <1>1, <1>2, <1>3, <1>6, <1>7, <2>1, <2>2 DEF Side, Counted
<1>11. Incoming(p)' = <<>>
  <2>1. Incoming(p)' = Tail(q) BY <1>1, ConsumeTakes
  <2> QED BY <1>3, <1>4, <2>1, ShortQueues
<1>12. Len(Incoming(o)') = 1
  <2> DEFINE d == [seqNo |-> ackSeq[p], kind |-> "ack", n |-> 0, id |-> 0]
  <2>1. Transmit(p, d) /\ d.kind = "ack" BY <1>1 DEF SendAck
  <2> HIDE DEF d
  <2> QED BY <1>3, <1>4, <2>1, Arrivals
<1>13. Unread(p)' BY <1>8, <1>11 DEF Unread
<1>14. Unread(o)' BY <1>8, <1>12 DEF Unread
<1>15. Side(p)' /\ Side(o)'
  BY <1>4, <1>10, <1>11, <1>13, <1>14 DEF Side
<1>16. Fits(Rest("client"), Rest("server"))'
  <2>1. /\ script[o] # <<>> /\ Head(script[o]).op = "send"
        /\ script[p] # <<>> /\ Head(script[p]).op = "recv"
    <3>1. waiting[o] BY <1>4 DEF Pending
    <3> QED BY <1>1, <1>2, <3>1, SideFacts DEF InCall
  <2>2. m.kind = Head(script[o]).kind /\ m.n = Head(script[o]).n BY <1>4 DEF IsPacket
  <2> HIDE DEF m
  <2>3. CASE p = "server"
    <3>1. o = "client" BY <2>3 DEF Other
    <3>2. Fits(script["client"], script["server"]) BY <1>3, <1>9, <2>3, <3>1
    <3>3. Fits(Tail(script["client"]), s)
      BY <1>3, <2>1, <2>2, <2>3, <3>1, <3>2, ServerReturns
    <3> QED BY <1>1, <1>9, <2>3, <3>1, <3>3, FitsLater
  <2>4. CASE p = "client"
    <3>1. o = "server" BY <2>4 DEF Other
    <3>2. Fits(script["client"], script["server"]) BY <1>3, <1>9, <2>4, <3>1
    <3>3. Fits(s, Tail(script["server"]))
      BY <1>3, <2>1, <2>2, <2>4, <3>1, <3>2, ClientReturns
    <3> QED BY <1>1, <1>9, <2>4, <3>1, <3>3, FitsLater
  <2> QED BY <2>3, <2>4 DEF Peer
<1> QED BY <1>15, <1>16, BothSides

\* What is dropped for a duplicate is new, and newDropped says so.
LEMMA DropOutOfStep ==
  ASSUME IInv, InStep, network = {}, NEW p \in Peer, Drop(p)
  PROVE  newDropped'
<1> DEFINE d == Head(Incoming(p))
<1>1. InCall(p, "recv") /\ Incoming(p) # <<>>
      /\ newDropped' = (newDropped \/ (d.id > 0 /\ \A k \in DOMAIN accepted[p] : accepted[p][k] # d.id))
  BY DEF Drop
<1>2. d.id = Len(accepted[p]) + 1 BY <1>1, FoundInStep
<1>3. Len(accepted[p]) \in Nat /\ DOMAIN accepted[p] = 1..Len(accepted[p])
  BY SideFacts, LenProperties
<1>4. \A k \in 1..Len(accepted[p]) : accepted[p][k] = k
  <2>1. accepted[p] = [k \in 1..Len(accepted[p]) |-> k]
    BY Others, SideFacts DEF Side, Counted
  <2> QED BY <2>1
<1> HIDE DEF d
<1>5. d.id > 0 /\ \A k \in 1..Len(accepted[p]) : accepted[p][k] # d.id
  BY <1>2, <1>3, <1>4
<1> QED BY <1>1, <1>3, <1>5

\* The next command is chosen in the menu, where the server waits for one.
LEMMA ChooseInStep ==
  ASSUME IInv, PlanLeft, Choose
  PROVE  PlanLeft' /\ (network = {} /\ InStep => InStep')
<1>1. /\ script["client"] = <<>> /\ plan # <<>> /\ plan' = Tail(plan)
      /\ script' = [script EXCEPT !["client"] = ClientCalls(Head(plan))]
      /\ toServer' = toServer /\ toClient' = toClient
      /\ waiting' = waiting /\ calls' = calls /\ accepted' = accepted
  BY DEF Choose, links
<1>2. plan \in Seq(Command) /\ TypeOK /\ Shapes BY DEF IInv, TypeOK
<1>3. /\ plan' \in Seq(Command) /\ Len(plan) \in Nat /\ Len(plan) > 0
      /\ Len(plan') = Len(plan) - 1
      /\ \A a \in 1..Len(plan') : plan'[a] = plan[a + 1]
      /\ Head(plan) = plan[1] /\ Head(plan) \in Command
  BY <1>1, <1>2, TailOf
<1>4. PlanLeft'
  <2>1. ASSUME NEW i \in 1..(Len(plan') - 1) PROVE plan'[i] = "LIST"
    <3>1. i + 1 \in 1..(Len(plan) - 1) /\ i \in 1..Len(plan') BY <1>3
    <3> QED BY <1>3, <3>1 DEF PlanLeft
  <2> QED BY <2>1 DEF PlanLeft
<1>5. Head(plan) = "LIST" \/ plan' = <<>>
  <2>1. CASE Len(plan) = 1
    <3>1. Len(plan') = 0 BY <1>3, <2>1
    <3> QED BY <1>3, <3>1, EmptySeq
  <2>2. CASE Len(plan) > 1
    <3>1. 1 \in 1..(Len(plan) - 1) BY <1>3, <2>2
    <3> QED BY <1>3, <3>1 DEF PlanLeft
  <2> QED BY <1>3, <2>1, <2>2
<1>6. ASSUME network = {}, InStep PROVE InStep'
  <2>1. "client" \in Peer /\ "server" \in Peer /\ Other("client") = "server"
        /\ Other("server") = "client" /\ DOMAIN script = Peer
    BY <1>2 DEF Peer, Other, TypeOK
  <2>2. Side("client") /\ Side("server") /\ Fits(Rest("client"), Rest("server"))
    BY <1>6, <2>1, SideFacts
  <2>3. ~waiting["client"] BY <1>1, <1>6, <2>1, SideFacts
  <2>4. ~Answered("client") /\ ~Pending("client") BY <2>3 DEF Answered, Pending
  <2>5. script'["client"] = ClientCalls(Head(plan)) /\ script'["server"] = script["server"]
    BY <1>1, <2>1
  <2>6. \A p \in Peer : /\ Answered(p)' = Answered(p) /\ Pending(p)' = Pending(p)
                        /\ Incoming(p)' = Incoming(p) /\ Counted(p)' = Counted(p)
    BY <1>1 DEF Answered, Pending, Incoming, Counted
  <2>7. Rest("client")' = ClientCalls(Head(plan)) /\ Rest("server")' = <<RecvCall("command")>>
    <3>1. Rest("client") = <<>> BY <1>1, <2>4 DEF Rest
    <3>2. Rest("server") = <<RecvCall("command")>> BY <1>1, <2>2, <3>1, InTheMenu
    <3>3. Rest("server")' = Rest("server") BY <2>1, <2>5, <2>6 DEF Rest
    <3>4. Rest("client")' = script'["client"] BY <2>1, <2>4, <2>6 DEF Rest
    <3> QED BY <2>5, <3>2, <3>3, <3>4
  <2>8. Unread("client")'
    <3>1. ~Finished("client") BY <1>1 DEF Finished
    <3>2. Unread("client") BY <2>2, <3>1 DEF Side
    <3> QED BY <1>1, <2>1, <2>5, <2>6, <3>2 DEF Unread, IsPacket
  <2>9. Finished("server")' \/ Unread("server")'
    <3>1. CASE Finished("server") BY <2>5, <3>1 DEF Finished
    <3>2. CASE Unread("server") BY <2>1, <2>4, <2>6, <3>2 DEF Unread
    <3> QED BY <2>2, <3>1, <3>2 DEF Side
  <2>10. Side("client")' /\ Side("server")'
    BY <2>1, <2>2, <2>6, <2>8, <2>9 DEF Side
  <2>11. Fits(Rest("client"), Rest("server"))'
    <3>1. PICK c : c = ClientCalls(Head(plan)) OBVIOUS
    <3>2. IF Head(plan) = "LIST"
          THEN Browsing(c, <<RecvCall("command")>>)
          ELSE Putting(c, <<RecvCall("command")>>) \/ Getting(c, <<RecvCall("command")>>)
                 \/ Deleting(c, <<RecvCall("command")>>)
      BY <1>3, <3>1, CommandStarts
    <3>3. Rest("client")' = c BY <2>7, <3>1
    <3> QED BY <1>5, <2>7, <3>2, <3>3, FitsFrom
  <2> QED BY <2>1, <2>10, <2>11, BothSides
<1> QED BY <1>4, <1>6

LEMMA InitStepInv ==
  ASSUME OneTransfer, Init
  PROVE  StepInv
<1>1. IInv BY InitIInv
<1>2. PlanLeft
  <2>1. plan \in Plans BY DEF Init
  <2> QED BY <2>1 DEF OneTransfer, PlanLeft
<1>3. \A p \in Peer : ~waiting[p] /\ calls[p] = 0 /\ accepted[p] = <<>> /\ Other(p) \in Peer
  BY Others DEF Init
<1>4. \A p \in Peer : ~Answered(p) /\ Incoming(p) = <<>>
  BY <1>3 DEF Init, Up!LinkInit, Down!LinkInit, Incoming, Answered
<1>5. \A p \in Peer : Counted(p)
  <2>1. <<>> = [k \in 1..0 |-> k] /\ Len(<<>>) = 0 OBVIOUS
  <2> QED BY <1>3, <2>1 DEF Counted
<1>6. Fits(Rest("client"), Rest("server"))
  <2>1. Rest("client") = <<>> /\ Rest("server") = <<RecvCall("command")>>
    BY <1>4 DEF Init, Rest, Peer
  <2> QED BY <2>1 DEF Fits, Browsing
<1>7. InStep BY <1>4, <1>5, <1>6 DEF InStep, Unread
<1> QED BY <1>1, <1>2, <1>7 DEF StepInv

(* Over a network that loses packets but no ACK and delays nothing, and as *)
(* long as no command is taken for a duplicate, the client and the server  *)
(* stay in step, for all plans a server can serve to the end.              *)
THEOREM StopWaitStaysInStep == OneTransfer => (Spec => []StepInv)
<1> SUFFICES ASSUME OneTransfer PROVE Spec => []StepInv
  OBVIOUS
<1>1. Init => StepInv BY InitStepInv
<1>2. StepInv /\ [Next]_vars => StepInv'
  <2> SUFFICES ASSUME StepInv, [Next]_vars PROVE StepInv'
    OBVIOUS
  <2>1. IInv /\ PlanLeft /\ (network = {} /\ ~newDropped => InStep) BY DEF StepInv
  <2>2. IInv'
    <3>1. CASE Choose BY <2>1, <3>1, ChooseIInv
    <3>2. ASSUME NEW p \in Peer, Step(p) PROVE IInv'
      BY <2>1, <3>2, udpsendIInv, ResendIInv, RecvAckIInv, AcceptIInv, DropIInv DEF Step
    <3>3. CASE Release BY <2>1, <3>3, ReleaseIInv
    <3>4. CASE UNCHANGED vars
      BY <2>1, <3>4 DEF vars, seqs, files, links, IInv, TypeOK, Shapes, LinksMade,
                        WaitsWithItsNumber, Undelayed, Incoming, Held, InCall
    <3> QED BY <3>1, <3>2, <3>3, <3>4 DEF Next
  <2>3. CASE Choose
    <3>1. network' = network /\ newDropped' = newDropped BY <2>3 DEF Choose
    <3> QED BY <2>1, <2>2, <2>3, <3>1, ChooseInStep DEF StepInv
  <2>4. ASSUME NEW p \in Peer, Step(p) PROVE StepInv'
    <3>1. plan' = plan /\ network' = network
      BY <2>4 DEF Step, udpsend, Resend, RecvAck, Accept, Drop
    <3>2. PlanLeft' BY <2>1, <3>1 DEF PlanLeft
    <3>3. newDropped => newDropped'
      BY <2>4 DEF Step, udpsend, Resend, RecvAck, Accept, Drop
    <3>4. ASSUME network = {}, ~newDropped' PROVE InStep'
      <4>1. IInv /\ InStep BY <2>1, <3>3, <3>4
      <4>2. ~Drop(p) BY <3>4, <4>1, DropOutOfStep
      <4> QED BY <2>4, <3>4, <4>1, <4>2, udpsendInStep, ResendInStep, RecvAckInStep,
                 AcceptInStep DEF Step
    <3> QED BY <2>2, <3>1, <3>2, <3>4 DEF StepInv
  <2>5. CASE Release
    <3>1. plan' = plan /\ network' = network BY <2>5 DEF Release
    <3>2. PlanLeft' BY <2>1, <3>1 DEF PlanLeft
    <3>3. network # {}
      <4>1. \E p \in Peer : Held(p) # NoPacket
        BY <2>5 DEF Release, Up!Release, Down!Release, Peer, Held
      <4> QED BY <2>1, <4>1 DEF IInv, Undelayed
    <3> QED BY <2>2, <3>1, <3>2, <3>3 DEF StepInv
  <2>6. CASE UNCHANGED vars
    <3>1. /\ plan' = plan /\ network' = network /\ newDropped' = newDropped
          /\ script' = script /\ waiting' = waiting /\ calls' = calls /\ accepted' = accepted
          /\ toClient' = toClient /\ toServer' = toServer
      BY <2>6 DEF vars, links
    <3>2. PlanLeft' BY <2>1, <3>1 DEF PlanLeft
    <3>3. InStep => InStep'
      <4> SUFFICES ASSUME InStep PROVE InStep' OBVIOUS
      <4>1. \A p \in Peer : /\ Answered(p)' = Answered(p) /\ Pending(p)' = Pending(p)
                            /\ Incoming(p)' = Incoming(p) /\ Counted(p)' = Counted(p)
                            /\ Rest(p)' = Rest(p) /\ Finished(p)' = Finished(p)
        BY <3>1 DEF Answered, Pending, Incoming, Counted, Rest, Finished
      <4>2. ASSUME NEW p \in Peer PROVE Side(p)'
        <5>1. Side(p) BY <4>2 DEF InStep, Side
        <5>2. Unread(p)' = Unread(p)
          BY <3>1, <4>1, Others DEF Unread, IsPacket
        <5> QED BY <4>1, <5>1, <5>2 DEF Side
      <4>3. PICK p \in Peer : TRUE BY DEF Peer
      <4>4. Other(p) \in Peer BY Others
      <4>5. Fits(Rest("client"), Rest("server"))'
        BY <3>1, <4>1, <4>3, <4>4, RestsFit DEF InStep
      <4> QED BY <4>2, <4>3, <4>4, <4>5, BothSides
    <3> QED BY <2>1, <2>2, <3>1, <3>2, <3>3 DEF StepInv
  <2> QED BY <2>3, <2>4, <2>5, <2>6 DEF Next
<1> QED BY <1>1, <1>2, PTL DEF Spec

(* Over such a network every packet sent is returned once and in order, and*)
(* udpsend does not end before, for any files, socket buffers and initial  *)
(* numbers, and any plan that the server can serve to the end.             *)
THEOREM StopWaitInOrder == OneTransfer => (Spec => []SentIsReceivedInOrder)
<1> SUFFICES ASSUME OneTransfer PROVE Spec => []SentIsReceivedInOrder
  OBVIOUS
<1>1. StepInv => SentIsReceivedInOrder
  <2> SUFFICES ASSUME StepInv, network = {}, ~newDropped, NEW p \in Peer
               PROVE  /\ accepted[p] = [k \in 1..Len(accepted[p]) |-> k]
                      /\ Returned(Other(p)) <= Len(accepted[p])
    BY DEF SentIsReceivedInOrder
  <2>1. IInv /\ InStep BY DEF StepInv
  <2>2. Other(p) \in Peer /\ Other(Other(p)) = p BY Others
  <2>3. Counted(Other(p)) BY <2>1, <2>2, SideFacts DEF Side
  <2>4. Len(accepted[p]) \in Nat BY <2>1, SideFacts
  <2> QED BY <2>2, <2>3, <2>4 DEF Counted, Pending, Returned
<1>2. Spec => []StepInv BY StopWaitStaysInStep
<1> QED BY <1>1, <1>2, PTL

-------------------------------------------------------------------------------
(* When ACKs are lost and timeouts come early, the two sides are not in    *)
(* step, and an ACK may be taken for a packet.  What the client may take   *)
(* for the answer to DEL is told by the numbers: with nothing delayed, a   *)
(* number comes after another only if the server has called udpsend.       *)

\* What numbers are in the socket q, whose reader returned prev last and whose
\* other side sends ack.
AllOf(q, n)      == \A b \in 1..Len(q) : q[b].seqNo = n
OldOr(q, n, K)   == \A b \in 1..Len(q) : q[b].seqNo = n \/ q[b].kind \in K
OneTurn(q, n, m) == \A a, b \in 1..Len(q) : a <= b /\ q[a].seqNo # n => q[b].seqNo = m
BehindHead(q, m) == \A b \in 2..Len(q) : q[b].seqNo = m

\* Nothing p would return can come before the other side sends a new packet.
CaughtUp(p) ==
  prev_Recv_Seq[p] = ackSeq[Other(p)] /\ AllOf(Incoming(p), prev_Recv_Seq[p])

\* p has at most one change of the number to see.
Turned(p) == OneTurn(Incoming(p), prev_Recv_Seq[p], ackSeq[Other(p)])

\* All that comes is of the number sent now, but what is first.
Fresh(p)   == AllOf(Incoming(p), ackSeq[Other(p)])
Settled(p) == BehindHead(Incoming(p), ackSeq[Other(p)])

\* p returns nothing but packets of the kinds K.
OnlyNew(p, K) == OldOr(Incoming(p), prev_Recv_Seq[p], K)

\* Where the client is in a LIST and in a DEL.
Reading == <<RecvCall("entry")>>
Asking  == DeleteServerFiles
Echoed  == <<RecvCall("echo"), SendCall("name", 0), RecvCall("verdict")>>
Naming  == <<SendCall("name", 0), RecvCall("verdict")>>
Judging == <<RecvCall("verdict")>>

\* Where the server is.
Ready   == <<RecvCall("command")>>
Ending  == <<SendCall("@", 0), RecvCall("command")>>
Echoing == <<SendCall("DEL", 0), RecvCall("delname")>>
Finding == <<RecvCall("delname")>>
Missing == <<SendCall("#", 0)>>

\* The server waits for a command, or for the end of the last listing.
Idle == \/ script["server"] = Ready
        \/ script["server"] = Ending /\ waiting["server"]

\* The server has sent nothing.
Nothing == calls["server"] = 0 /\ Incoming("client") = <<>>

\* The listings were all returned to the end.
Was(id) == \E j \in 1..Len(accepted["client"]) : accepted["client"][j] = id

Over ==
  /\ calls["server"] = 0 \/ Was(calls["server"])
  /\ \A b \in 1..Len(Incoming("client")) :
       Incoming("client")[b].kind = "@" => Was(Incoming("client")[b].id)

\* No command is under way.
InMenu ==
  /\ ~waiting["client"] /\ Idle /\ Over
  /\ \/ script["client"] \in {<<>>, listServerFiles}
     \/ script["client"] = Asking /\ plan = <<>>
  /\ \/ CaughtUp("client") /\ CaughtUp("server")
     \/ Nothing /\ Incoming("server") = <<>>

\* The command x was sent and not returned, or never will be.
Sent(x) ==
  /\ Idle /\ Over /\ OnlyNew("server", {x, "ack"}) /\ Turned("server")
  /\ \/ CaughtUp("client")
     \/ Nothing /\ waiting["client"] /\ Fresh("server")
     \/ /\ calls["server"] = 0
        /\ Fresh("client") /\ Turned("client") /\ CaughtUp("server")

ListSent == /\ Sent("LIST")
            /\ \/ script["client"] = listServerFiles /\ waiting["client"]
               \/ script["client"] = Reading

DelSent == /\ Sent("DEL")
           /\ \/ script["client"] = Asking /\ waiting["client"]
              \/ script["client"] = Echoed

\* The "@" the client has not returned is the server's last packet.
EndIsLast ==
  \A b \in 1..Len(Incoming("client")) : Incoming("client")[b].kind = "@" =>
    \/ Was(Incoming("client")[b].id)
    \/ Incoming("client")[b].id = calls["server"] /\ Idle

\* A listing goes on.
ListServed ==
  /\ \/ script["client"] = listServerFiles /\ waiting["client"]
     \/ script["client"] = Reading
  /\ CaughtUp("server")
  /\ Listing(script["server"]) \/ Idle
  /\ EndIsLast

\* DEL was returned, and the server's echo is to be sent or was sent.
EchoDue ==
  /\ script["server"] = Echoing /\ ~waiting["server"] /\ CaughtUp("server")
  /\ \/ script["client"] = Asking /\ waiting["client"]
     \/ script["client"] = Echoed
  /\ \/ CaughtUp("client")
     \/ Nothing
     \/ calls["server"] = 0 /\ Len(Incoming("client")) = 1 /\ waiting["client"]

EchoSent ==
  /\ \/ script["server"] = Echoing /\ waiting["server"]
     \/ script["server"] = Finding
  /\ \/ /\ script["client"] = Asking /\ waiting["client"]
        /\ CaughtUp("server") /\ (Turned("client") \/ Settled("client"))
     \/ script["client"] = Echoed /\ CaughtUp("server") /\ Turned("client")
     \/ script["client"] \in {Naming, Judging} /\ CaughtUp("client")

\* Up to a command that still comes, the server returns nothing.
NoCommand ==
  \A b \in 1..Len(Incoming("server")) : Incoming("server")[b].kind \in Command =>
    \A a \in 1..b : Incoming("server")[a].seqNo = prev_Recv_Seq["server"]

\* DEL was never returned, and the client took its ACK for the echo.
Ignored ==
  /\ script["client"] \in {Naming, Judging} /\ script["server"] = Ready
  /\ CaughtUp("client") /\ NoCommand

\* The server has decided; if the file is still there, it says so or nothing.
Decided ==
  /\ script["client"] \in {Naming, Judging}
  /\ \/ deleted
     \/ script["server"] \in {<<>>, Missing} /\ OnlyNew("client", {"#"})

\* The client asks for no verdict any more.
Unjudged(s) == \A i \in 1..Len(s) : s[i].op = "send" \/ s[i].kind # "verdict"

NoVerdict == plan = <<>> /\ Unjudged(script["client"])

Situation ==
  \/ InMenu \/ ListSent \/ ListServed
  \/ plan = <<>> /\ (DelSent \/ EchoDue \/ EchoSent \/ Ignored \/ Decided)
  \/ NoVerdict

\* Packets have a number of their own, no ACK is taken for the end of a listing, and
\* the server waits for no verdict.
Called  == \A p \in Peer : waiting[p] => calls[p] > 0
Honest  == told = "deleted" => deleted
Marked  == \A b \in 1..Len(Incoming("client")) :
             Incoming("client")[b].id = 0 => Incoming("client")[b].kind # "@"

ToldInv == /\ IInv /\ PlanLeft /\ Called /\ Unjudged(script["server"])
           /\ "delay" \notin network => Situation /\ Honest /\ Marked

-------------------------------------------------------------------------------
\* What a packet that comes, is taken or is returned does to these numbers.
Came(q, d, q2) == q2 \in {q, Append(q, d)}

LEMMA LastOf ==
  ASSUME NEW q \in Seq(Datagram), NEW d \in Datagram, NEW q2, Came(q, d, q2)
  PROVE  /\ Len(q) \in Nat /\ Len(q2) \in Nat /\ Len(q) <= Len(q2)
         /\ \A b \in 1..Len(q2) : \/ b \in 1..Len(q) /\ q2[b] = q[b]
                                  \/ b = Len(q) + 1 /\ q2[b] = d
BY DEF Came

LEMMA NumbersCome ==
  ASSUME NEW q \in Seq(Datagram), NEW d \in Datagram, NEW q2, Came(q, d, q2), NEW n
  PROVE  /\ d.seqNo = n /\ AllOf(q, n) => AllOf(q2, n)
         /\ OneTurn(q, n, d.seqNo) => OneTurn(q2, n, d.seqNo)
         /\ AllOf(q, n) => OneTurn(q2, n, d.seqNo)
         /\ d.seqNo = n /\ BehindHead(q, n) => BehindHead(q2, n)
         /\ d.seqNo = n /\ Len(q) = 1 => BehindHead(q2, n)
<1>1. /\ Len(q) \in Nat /\ Len(q2) \in Nat /\ Len(q) <= Len(q2)
      /\ \A b \in 1..Len(q2) : \/ b \in 1..Len(q) /\ q2[b] = q[b]
                               \/ b = Len(q) + 1 /\ q2[b] = d
  BY LastOf
<1>2. \A a, b \in 1..Len(q2) : a <= b /\ b \in 1..Len(q) => a \in 1..Len(q) /\ q2[a] = q[a]
  BY <1>1
<1>3. d.seqNo = n /\ AllOf(q, n) => AllOf(q2, n) BY <1>1 DEF AllOf
<1>4. OneTurn(q, n, d.seqNo) => OneTurn(q2, n, d.seqNo) BY <1>1, <1>2 DEF OneTurn
<1>5. AllOf(q, n) => OneTurn(q2, n, d.seqNo) BY <1>1, <1>2 DEF AllOf, OneTurn
<1>6. ASSUME d.seqNo = n, BehindHead(q, n) PROVE BehindHead(q2, n)
  <2> SUFFICES ASSUME NEW b \in 2..Len(q2) PROVE q2[b].seqNo = n
    BY DEF BehindHead
  <2>1. b \in 1..Len(q2) /\ (b \in 1..Len(q) => b \in 2..Len(q)) BY <1>1
  <2> QED BY <1>1, <1>6, <2>1 DEF BehindHead
<1>7. d.seqNo = n /\ Len(q) = 1 => BehindHead(q2, n) BY <1>1 DEF BehindHead
<1> QED BY <1>3, <1>4, <1>5, <1>6, <1>7

LEMMA KindsCome ==
  ASSUME NEW q \in Seq(Datagram), NEW d \in Datagram, NEW q2, Came(q, d, q2), NEW n, NEW K,
         OldOr(q, n, K), d.kind \in K
  PROVE  OldOr(q2, n, K)
BY LastOf DEF OldOr

LEMMA NumbersGo ==
  ASSUME NEW q \in Seq(Datagram), q # <<>>, NEW n, NEW m, NEW K
  PROVE  /\ AllOf(q, n) => AllOf(Tail(q), n) /\ Head(q).seqNo = n
         /\ OldOr(q, n, K) => OldOr(Tail(q), n, K)
                              /\ (Head(q).seqNo # n => Head(q).kind \in K)
         /\ OneTurn(q, n, m) => OneTurn(Tail(q), n, m)
                                /\ (Head(q).seqNo # n => AllOf(q, m))
         /\ BehindHead(q, m) => AllOf(Tail(q), m)
         /\ AllOf(q, m) => OneTurn(q, n, m)
<1> DEFINE t == Tail(q)
<1>1. /\ Len(q) \in Nat /\ Len(q) > 0 /\ Len(t) = Len(q) - 1
      /\ \A a \in 1..Len(t) : t[a] = q[a + 1] /\ a + 1 \in 1..Len(q)
      /\ Head(q) = q[1]
  BY TailOf
<1> HIDE DEF t
<1>2. 1 \in 1..Len(q) /\ \A a \in 1..Len(t) : a + 1 \in 2..Len(q)
  BY <1>1
<1>3. AllOf(q, n) => AllOf(t, n) /\ Head(q).seqNo = n BY <1>1, <1>2 DEF AllOf
<1>4. OldOr(q, n, K) => OldOr(t, n, K) /\ (Head(q).seqNo # n => Head(q).kind \in K)
  BY <1>1, <1>2 DEF OldOr
<1>5. OneTurn(q, n, m) => OneTurn(t, n, m)
  <2> SUFFICES ASSUME OneTurn(q, n, m), NEW a \in 1..Len(t), NEW b \in 1..Len(t),
                      a <= b, t[a].seqNo # n
               PROVE  t[b].seqNo = m
    BY DEF OneTurn
  <2>1. a + 1 <= b + 1 BY <1>1
  <2> QED BY <1>1, <2>1 DEF OneTurn
<1>6. OneTurn(q, n, m) /\ Head(q).seqNo # n => AllOf(q, m)
  <2>1. \A b \in 1..Len(q) : 1 <= b OBVIOUS
  <2> QED BY <1>1, <1>2, <2>1 DEF OneTurn, AllOf
<1>7. BehindHead(q, m) => AllOf(t, m) BY <1>1, <1>2 DEF BehindHead, AllOf
<1>8. AllOf(q, m) => OneTurn(q, n, m) BY DEF AllOf, OneTurn
<1> QED BY <1>3, <1>4, <1>5, <1>6, <1>7, <1>8 DEF t

LEMMA NumbersOfNone ==
  ASSUME NEW q \in Seq(Datagram), q = <<>>, NEW n
  PROVE  AllOf(q, n)
<1>1. Len(q) = 0 OBVIOUS
<1> QED BY <1>1 DEF AllOf

-------------------------------------------------------------------------------
\* The same of the packets before p, as p or the other side takes a step.
LEMMA IncomingTyped ==
  ASSUME IInv, NEW p \in Peer
  PROVE  Incoming(p) \in Seq(Datagram) /\ Incoming(p) \in Seq(Made(calls[Other(p)]))
<1>1. Incoming(p) \in Seq(Made(calls[Other(p)])) BY DEF IInv, LinksMade
<1>2. Made(calls[Other(p)]) \subseteq Datagram BY DEF Made
<1> QED BY <1>1, <1>2, SeqMonotonic

LEMMA Stays ==
  ASSUME NEW p \in Peer, Incoming(p)' = Incoming(p), prev_Recv_Seq'[p] = prev_Recv_Seq[p],
         ackSeq'[Other(p)] = ackSeq[Other(p)]
  PROVE  /\ CaughtUp(p)' = CaughtUp(p) /\ Turned(p)' = Turned(p)
         /\ Fresh(p)' = Fresh(p) /\ Settled(p)' = Settled(p)
         /\ \A K : OnlyNew(p, K)' = OnlyNew(p, K)
BY DEF CaughtUp, Turned, Fresh, Settled, OnlyNew, AllOf, OneTurn, BehindHead, OldOr

\* The other side sends d.
LEMMA Comes ==
  ASSUME IInv, NEW p \in Peer, NEW d \in Datagram, d.seqNo = ackSeq'[Other(p)],
         Incoming(p)' \in {Incoming(p), Append(Incoming(p), d)},
         prev_Recv_Seq'[p] = prev_Recv_Seq[p]
  PROVE  /\ ackSeq'[Other(p)] = ackSeq[Other(p)] =>
              /\ CaughtUp(p) => CaughtUp(p)'
              /\ Turned(p) => Turned(p)'
              /\ Fresh(p) => Fresh(p)'
              /\ Settled(p) => Settled(p)'
         /\ CaughtUp(p) => Turned(p)'
         /\ Incoming(p) = <<>> => Turned(p)' /\ Fresh(p)'
         /\ Len(Incoming(p)) = 1 => Settled(p)'
         /\ \A K : OnlyNew(p, K) /\ d.kind \in K => OnlyNew(p, K)'
<1> DEFINE q == Incoming(p)
           n == prev_Recv_Seq[p]
           m == d.seqNo
<1>1. q \in Seq(Datagram) BY IncomingTyped
<1>2. PICK q2 : Came(q, d, q2) /\ q2 = Incoming(p)' BY DEF Came
<1>3. PICK c : c = prev_Recv_Seq[p] OBVIOUS
<1>4. /\ CaughtUp(p) <=> c = ackSeq[Other(p)] /\ AllOf(q, c)
      /\ Turned(p) <=> OneTurn(q, c, ackSeq[Other(p)])
      /\ Fresh(p) <=> AllOf(q, ackSeq[Other(p)])
      /\ Settled(p) <=> BehindHead(q, ackSeq[Other(p)])
      /\ \A K : OnlyNew(p, K) <=> OldOr(q, c, K)
  BY <1>3 DEF CaughtUp, Turned, Fresh, Settled, OnlyNew
<1>5. /\ CaughtUp(p)' <=> c = m /\ AllOf(q2, c)
      /\ Turned(p)' <=> OneTurn(q2, c, m)
      /\ Fresh(p)' <=> AllOf(q2, m)
      /\ Settled(p)' <=> BehindHead(q2, m)
      /\ \A K : OnlyNew(p, K)' <=> OldOr(q2, c, K)
  BY <1>2, <1>3 DEF CaughtUp, Turned, Fresh, Settled, OnlyNew, AllOf, OneTurn, BehindHead, OldOr
<1> HIDE DEF q, m
<1>6. /\ m = c /\ AllOf(q, c) => AllOf(q2, c)
      /\ AllOf(q, m) => AllOf(q2, m)
      /\ OneTurn(q, c, m) => OneTurn(q2, c, m)
      /\ BehindHead(q, m) => BehindHead(q2, m)
      /\ AllOf(q, c) => OneTurn(q2, c, m)
      /\ Len(q) = 1 => BehindHead(q2, m)
      /\ \A K : OldOr(q, c, K) /\ d.kind \in K => OldOr(q2, c, K)
  <2>1. d.seqNo = m BY DEF m
  <2>2. /\ m = c /\ AllOf(q, c) => AllOf(q2, c)
        /\ OneTurn(q, c, m) => OneTurn(q2, c, m)
        /\ AllOf(q, c) => OneTurn(q2, c, m)
    BY <1>1, <1>2, <2>1, NumbersCome
  <2>3. /\ AllOf(q, m) => AllOf(q2, m)
        /\ BehindHead(q, m) => BehindHead(q2, m)
        /\ Len(q) = 1 => BehindHead(q2, m)
    BY <1>1, <1>2, <2>1, NumbersCome
  <2>4. \A K : OldOr(q, c, K) /\ d.kind \in K => OldOr(q2, c, K)
    BY <1>1, <1>2, KindsCome
  <2> QED BY <2>2, <2>3, <2>4
<1>7. q = <<>> => AllOf(q, c) /\ AllOf(q, m) BY <1>1, NumbersOfNone
<1> QED BY <1>4, <1>5, <1>6, <1>7 DEF q, m

\* p takes the first packet: as the end of udpsend, or as a duplicate.
LEMMA Goes ==
  ASSUME IInv, NEW p \in Peer, Incoming(p) # <<>>, Incoming(p)' = Tail(Incoming(p)),
         prev_Recv_Seq'[p] = prev_Recv_Seq[p], ackSeq'[Other(p)] = ackSeq[Other(p)]
  PROVE  /\ CaughtUp(p) => CaughtUp(p)'
         /\ Turned(p) => Turned(p)'
         /\ Fresh(p) => Fresh(p)' /\ Turned(p)'
                        /\ (Head(Incoming(p)).seqNo = prev_Recv_Seq[p] => CaughtUp(p)')
         /\ Settled(p) => Turned(p)'
         /\ \A K : OnlyNew(p, K) => OnlyNew(p, K)'
<1> DEFINE q == Incoming(p)
<1>1. q \in Seq(Datagram) BY IncomingTyped
<1>2. PICK t : t = Tail(q) OBVIOUS
<1>3. PICK c : c = prev_Recv_Seq[p] OBVIOUS
<1>4. PICK m : m = ackSeq[Other(p)] OBVIOUS
<1>5. /\ CaughtUp(p) <=> c = m /\ AllOf(q, c)
      /\ Turned(p) <=> OneTurn(q, c, m)
      /\ Fresh(p) <=> AllOf(q, m)
      /\ Settled(p) <=> BehindHead(q, m)
      /\ \A K : OnlyNew(p, K) <=> OldOr(q, c, K)
  BY <1>3, <1>4 DEF CaughtUp, Turned, Fresh, Settled, OnlyNew
<1>6. /\ CaughtUp(p)' <=> c = m /\ AllOf(t, c)
      /\ Turned(p)' <=> OneTurn(t, c, m)
      /\ Fresh(p)' <=> AllOf(t, m)
      /\ \A K : OnlyNew(p, K)' <=> OldOr(t, c, K)
  BY <1>2, <1>3, <1>4
     DEF CaughtUp, Turned, Fresh, OnlyNew, AllOf, OneTurn, OldOr
<1>7. q # <<>> OBVIOUS
<1> HIDE DEF q
<1>8. /\ AllOf(q, c) => AllOf(t, c)
      /\ AllOf(q, m) => AllOf(t, m) /\ Head(q).seqNo = m
      /\ OneTurn(q, c, m) => OneTurn(t, c, m)
      /\ AllOf(q, m) => OneTurn(q, c, m)
      /\ BehindHead(q, m) => AllOf(t, m)
      /\ \A K : OldOr(q, c, K) => OldOr(t, c, K)
  BY <1>1, <1>2, <1>7, NumbersGo
<1>9. AllOf(t, m) => OneTurn(t, c, m) BY DEF AllOf, OneTurn
<1>10. Head(q).seqNo = prev_Recv_Seq[p] <=> Head(q).seqNo = c BY <1>3
<1> QED BY <1>5, <1>6, <1>8, <1>9, <1>10 DEF q

\* p returns the first packet.
LEMMA IsReturned ==
  ASSUME IInv, NEW p \in Peer, Incoming(p) # <<>>, Incoming(p)' = Tail(Incoming(p)),
         Head(Incoming(p)).seqNo # prev_Recv_Seq[p],
         prev_Recv_Seq'[p] = Head(Incoming(p)).seqNo,
         ackSeq'[Other(p)] = ackSeq[Other(p)]
  PROVE  /\ ~CaughtUp(p)
         /\ Turned(p) \/ Fresh(p) => CaughtUp(p)'
         /\ \A K : OnlyNew(p, K) => Head(Incoming(p)).kind \in K
<1> DEFINE q == Incoming(p)
<1>1. q \in Seq(Datagram) BY IncomingTyped
<1>2. PICK t : t = Tail(q) OBVIOUS
<1>3. PICK c : c = prev_Recv_Seq[p] OBVIOUS
<1>4. PICK m : m = ackSeq[Other(p)] OBVIOUS
<1>5. /\ CaughtUp(p) <=> c = m /\ AllOf(q, c)
      /\ Turned(p) <=> OneTurn(q, c, m)
      /\ Fresh(p) <=> AllOf(q, m)
      /\ \A K : OnlyNew(p, K) <=> OldOr(q, c, K)
  BY <1>3, <1>4 DEF CaughtUp, Turned, Fresh, OnlyNew
<1>6. PICK x : x = Head(q).seqNo OBVIOUS
<1>7. CaughtUp(p)' <=> x = m /\ AllOf(t, x)
  BY <1>2, <1>4, <1>6 DEF CaughtUp, AllOf
<1>8. q # <<>> /\ x # c BY <1>3, <1>6
<1> HIDE DEF q
<1>9. /\ AllOf(q, c) => x = c
      /\ AllOf(q, m) => AllOf(t, m) /\ x = m
      /\ OneTurn(q, c, m) => AllOf(q, m)
      /\ \A K : OldOr(q, c, K) => Head(q).kind \in K
  BY <1>1, <1>2, <1>6, <1>8, NumbersGo
<1> QED BY <1>5, <1>7, <1>8, <1>9 DEF q

-------------------------------------------------------------------------------
\* What the steps of a side do, when nothing is delayed.
LEMMA Transmits ==
  ASSUME IInv, "delay" \notin network, NEW p \in Peer, NEW d, Transmit(p, d)
  PROVE  Came(Incoming(Other(p)), d, Incoming(Other(p))')
<1>1. Other(p) \in Peer BY Others
<1>2. Held(Other(p)) = NoPacket BY <1>1 DEF IInv, Undelayed
<1> QED BY <1>2, TransmitEnters, EnteredUndelayed DEF Came

LEMMA Sends ==
  ASSUME IInv, Called, "delay" \notin network, NEW p \in Peer, udpsend(p) \/ Resend(p)
  PROVE  LET o == Other(p)
         IN /\ InCall(p, "send") /\ waiting'[p] /\ waiting'[o] = waiting[o]
            /\ ackSeq'[o] = ackSeq[o] /\ calls'[o] = calls[o] /\ calls'[p] > 0
            /\ waiting[p] => ackSeq'[p] = ackSeq[p] /\ calls'[p] = calls[p]
            /\ ~waiting[p] => calls'[p] = calls[p] + 1
            /\ Incoming(p)' = Incoming(p)
            /\ \E d \in Datagram :
                 /\ d.seqNo = ackSeq'[p] /\ d.kind = Head(script[p]).kind /\ d.id = calls'[p]
                 /\ Came(Incoming(o), d, Incoming(o)')
            /\ UNCHANGED <<plan, network, script, prev_Recv_Seq, accepted, deleted, told>>
<1> DEFINE o == Other(p)
           d == Packet(p)
<1>1. TypeOK /\ Shapes /\ WaitsWithItsNumber BY DEF IInv
<1>2. /\ Transmit(p, d) /\ KeepIncoming(p)
      /\ UNCHANGED <<plan, network, script, Send_Seq, prev_Recv_Seq, accepted, deleted, told>>
  BY DEF udpsend, Resend, files, seqs
<1>3. InCall(p, "send")
  <2>1. waiting[p] => InCall(p, "send") BY <1>1 DEF TypeOK
  <2> QED BY <2>1 DEF udpsend, Resend
<1>4. o \in Peer /\ o # p BY Others
<1>5. /\ calls \in [Peer -> Nat] /\ ackSeq \in [Peer -> 0..NoSeq] /\ waiting \in [Peer -> BOOLEAN]
  BY <1>1 DEF TypeOK, Shapes
<1>6. CASE udpsend(p)
  <2>1. /\ waiting' = [waiting EXCEPT ![p] = TRUE] /\ ~waiting[p]
        /\ ackSeq' = [ackSeq EXCEPT ![p] = Send_Seq[p]]
        /\ calls' = [calls EXCEPT ![p] = calls[p] + 1]
    BY <1>6 DEF udpsend
  <2>2. /\ waiting'[p] /\ waiting'[o] = waiting[o] /\ ackSeq'[o] = ackSeq[o]
        /\ calls'[o] = calls[o] /\ calls'[p] = calls[p] + 1 /\ ackSeq'[p] = Send_Seq[p]
        /\ calls[p] \in Nat
    BY <1>4, <1>5, <2>1
  <2>3. calls'[p] \in Nat /\ calls'[p] > 0 BY <2>2
  <2>4. d \in Made(calls'[p]) /\ d.id = calls'[p] /\ d.seqNo = ackSeq'[p]
    BY <1>1, <1>3, <2>2, <2>3, PacketMade
  <2>5. d \in Datagram /\ d.kind = Head(script[p]).kind BY <2>4 DEF Made, Packet
  <2>6. Came(Incoming(o), d, Incoming(o)') BY <1>2, Transmits
  <2>7. Incoming(p)' = Incoming(p) BY <1>2, IncomingKept
  <2> HIDE DEF d, o
  <2> QED BY <1>2, <1>3, <2>1, <2>2, <2>3, <2>4, <2>5, <2>6, <2>7 DEF o
<1>7. CASE Resend(p)
  <2>1. waiting[p] /\ UNCHANGED <<waiting, ackSeq, calls>> BY <1>7 DEF Resend, seqs
  <2>2. calls'[p] \in Nat /\ calls'[p] > 0 BY <1>5, <2>1 DEF Called
  <2>3. d \in Made(calls'[p]) /\ d.id = calls'[p] /\ d.seqNo = Send_Seq[p]
    BY <1>1, <1>3, <2>2, PacketMade
  <2>4. Send_Seq[p] = ackSeq'[p] BY <1>1, <2>1 DEF WaitsWithItsNumber
  <2>5. d \in Datagram /\ d.kind = Head(script[p]).kind BY <2>3 DEF Made, Packet
  <2>6. Came(Incoming(o), d, Incoming(o)') BY <1>2, Transmits
  <2>7. Incoming(p)' = Incoming(p) BY <1>2, IncomingKept
  <2> HIDE DEF d, o
  <2> QED BY <1>2, <1>3, <2>1, <2>2, <2>3, <2>4, <2>5, <2>6, <2>7 DEF o
<1> QED BY <1>6, <1>7

LEMMA TakesAck ==
  ASSUME IInv, NEW p \in Peer, RecvAck(p)
  PROVE  LET o == Other(p)
         IN /\ waiting[p] /\ InCall(p, "send") /\ ~waiting'[p] /\ waiting'[o] = waiting[o]
            /\ Incoming(p) # <<>> /\ Incoming(p)' = Tail(Incoming(p))
            /\ Incoming(o)' = Incoming(o)
            /\ script'[p] = Tail(script[p]) /\ script'[o] = script[o]
            /\ UNCHANGED <<plan, network, prev_Recv_Seq, ackSeq, calls, accepted, deleted, told>>
<1> DEFINE o == Other(p)
<1>1. TypeOK /\ Shapes BY DEF IInv
<1>2. /\ waiting[p] /\ Consume(p) /\ KeepOutgoing(p)
      /\ waiting' = [waiting EXCEPT ![p] = FALSE]
      /\ script' = [script EXCEPT ![p] = Tail(script[p])]
      /\ UNCHANGED <<plan, network, prev_Recv_Seq, ackSeq, calls, accepted, deleted, told>>
  BY DEF RecvAck, files
<1>3. o \in Peer /\ o # p BY Others
<1>4. waiting \in [Peer -> BOOLEAN] /\ script \in [Peer -> Seq(Call)]
  BY <1>1 DEF TypeOK, Shapes
<1>5. /\ ~waiting'[p] /\ waiting'[o] = waiting[o]
      /\ script'[p] = Tail(script[p]) /\ script'[o] = script[o]
  BY <1>2, <1>3, <1>4
<1>6. Incoming(p) # <<>> /\ Incoming(p)' = Tail(Incoming(p)) BY <1>2, ConsumeTakes
<1>7. Incoming(o)' = Incoming(o) BY <1>2, <1>3, IncomingKept DEF KeepOutgoing
<1>8. InCall(p, "send") BY <1>1, <1>2 DEF TypeOK
<1> QED BY <1>2, <1>5, <1>6, <1>7, <1>8

LEMMA Receives ==
  ASSUME IInv, "delay" \notin network, NEW p \in Peer, Accept(p) \/ Drop(p)
  PROVE  LET o == Other(p)
         IN /\ InCall(p, "recv") /\ ~waiting[p]
            /\ Incoming(p) # <<>> /\ Incoming(p)' = Tail(Incoming(p))
            /\ \E d \in Datagram :
                 /\ d.seqNo = ackSeq'[p] /\ d.kind = "ack" /\ d.id = 0
                 /\ Came(Incoming(o), d, Incoming(o)')
            /\ UNCHANGED <<plan, network, waiting, ackSeq, calls>>
            /\ script'[o] = script[o] /\ prev_Recv_Seq'[o] = prev_Recv_Seq[o]
            /\ accepted'[o] = accepted[o]
<1> DEFINE o == Other(p)
           d == [seqNo |-> ackSeq[p], kind |-> "ack", n |-> 0, id |-> 0]
<1>1. TypeOK /\ Shapes BY DEF IInv
<1>2. /\ InCall(p, "recv") /\ Consume(p) /\ Transmit(p, d)
      /\ UNCHANGED <<plan, network, waiting, ackSeq, calls>>
  BY DEF Accept, Drop, SendAck, seqs
<1>3. o \in Peer /\ o # p BY Others
<1>4. ~waiting[p] BY <1>1, <1>2 DEF TypeOK, InCall
<1>5. Incoming(p) # <<>> /\ Incoming(p)' = Tail(Incoming(p)) BY <1>2, ConsumeTakes
<1>6. Came(Incoming(o), d, Incoming(o)') BY <1>2, Transmits
<1>7. d \in Datagram
  <2>1. ackSeq[p] \in 0..NoSeq BY <1>1 DEF TypeOK
  <2>2. "ack" \in Kind BY DEF Kind
  <2> QED BY <2>1, <2>2 DEF Datagram
<1>8. d.seqNo = ackSeq'[p] /\ d.kind = "ack" /\ d.id = 0 BY <1>2
<1>9. script'[o] = script[o] /\ prev_Recv_Seq'[o] = prev_Recv_Seq[o] /\ accepted'[o] = accepted[o]
  <2>1. CASE Accept(p)
    <3>1. /\ \E s : script' = [script EXCEPT ![p] = s]
          /\ \E n : prev_Recv_Seq' = [prev_Recv_Seq EXCEPT ![p] = n]
          /\ \E a : accepted' = [accepted EXCEPT ![p] = a]
      BY <2>1 DEF Accept
    <3>2. script \in [Peer -> Seq(Call)] /\ prev_Recv_Seq \in [Peer -> 0..NoSeq]
          /\ DOMAIN accepted = Peer
      BY <1>1 DEF TypeOK, Shapes
    <3> QED BY <1>3, <3>1, <3>2
  <2>2. CASE Drop(p) BY <2>2 DEF Drop, seqs
  <2> QED BY <2>1, <2>2
<1> HIDE DEF d, o
<1> QED BY <1>2, <1>4, <1>5, <1>6, <1>7, <1>8, <1>9 DEF o

\* What comes is returned, or is a duplicate.
LEMMA Accepts ==
  ASSUME IInv, NEW p \in Peer, Accept(p)
  PROVE  LET d   == Head(Incoming(p))
             use == Head(script[p]).kind
         IN /\ d.seqNo # prev_Recv_Seq[p] /\ prev_Recv_Seq'[p] = d.seqNo
            /\ script'[p] \in NextCalls(p, d)
            /\ Len(accepted'[p]) = Len(accepted[p]) + 1 /\ Len(accepted[p]) \in Nat
            /\ accepted'[p][Len(accepted[p]) + 1] = d.id
            /\ \A j \in 1..Len(accepted[p]) : accepted'[p][j] = accepted[p][j]
            /\ deleted' = (deleted \/ (use = "delname" /\ Deletes(d)))
            /\ told' = IF use = "verdict" THEN IF d.kind = "#" THEN "missing" ELSE "deleted"
                       ELSE told
<1> DEFINE d == Head(Incoming(p))
           use == Head(script[p]).kind
<1>1. /\ TypeOK /\ Shapes BY DEF IInv
<1>2. /\ d.seqNo # prev_Recv_Seq[p] /\ Incoming(p) # <<>>
      /\ prev_Recv_Seq' = [prev_Recv_Seq EXCEPT ![p] = d.seqNo]
      /\ accepted' = [accepted EXCEPT ![p] = Append(accepted[p], d.id)]
      /\ \E s \in NextCalls(p, d) : script' = [script EXCEPT ![p] = s]
      /\ deleted' = (deleted \/ (use = "delname" /\ Deletes(d)))
      /\ told' = IF use = "verdict" THEN IF d.kind = "#" THEN "missing" ELSE "deleted"
                 ELSE told
  BY DEF Accept
<1>3. /\ script \in [Peer -> Seq(Call)] /\ prev_Recv_Seq \in [Peer -> 0..NoSeq]
      /\ DOMAIN accepted = Peer /\ accepted[p] \in Seq(0..calls[Other(p)])
  BY <1>1 DEF TypeOK, Shapes
<1>4. d.id \in 0..calls[Other(p)]
  <2>1. Incoming(p) \in Seq(Made(calls[Other(p)])) BY IncomingTyped
  <2>2. d \in Made(calls[Other(p)]) BY <1>2, <2>1, TailOf
  <2> QED BY <2>2 DEF Made
<1> HIDE DEF d, use
<1>5. prev_Recv_Seq'[p] = d.seqNo /\ script'[p] \in NextCalls(p, d)
      /\ accepted'[p] = Append(accepted[p], d.id)
  BY <1>2, <1>3
<1>6. /\ Len(accepted'[p]) = Len(accepted[p]) + 1 /\ Len(accepted[p]) \in Nat
      /\ accepted'[p][Len(accepted[p]) + 1] = d.id
      /\ \A j \in 1..Len(accepted[p]) : accepted'[p][j] = accepted[p][j]
  BY <1>3, <1>4, <1>5, Appended
<1> QED BY <1>2, <1>5, <1>6 DEF d, use

-------------------------------------------------------------------------------
\* The calls of a script, and what is left after the first.
GoesOn(s, op, kind, rest) ==
  s # <<>> /\ Head(s).op = op /\ Head(s).kind = kind /\ Tail(s) = rest

LEMMA ScriptsGoOn ==
  /\ GoesOn(listServerFiles, "send", "LIST", Reading)
  /\ GoesOn(Reading, "recv", "entry", <<>>)
  /\ GoesOn(Asking, "send", "DEL", Echoed)
  /\ GoesOn(Echoed, "recv", "echo", Naming)
  /\ GoesOn(Naming, "send", "name", Judging)
  /\ GoesOn(Judging, "recv", "verdict", <<>>)
  /\ GoesOn(Ready, "recv", "command", <<>>)
  /\ GoesOn(Ending, "send", "@", Ready)
  /\ GoesOn(Echoing, "send", "DEL", Finding)
  /\ GoesOn(Finding, "recv", "delname", <<>>)
  /\ GoesOn(Missing, "send", "#", <<>>)
BY TailOfOne DEF GoesOn, SendCall, RecvCall, listServerFiles, Reading, Asking, DeleteServerFiles,
   Echoed, Naming, Judging, Ready, Ending, Echoing, Finding, Missing

LEMMA Names ==
  /\ "client" \in Peer /\ "server" \in Peer
  /\ Other("client") = "server" /\ Other("server") = "client"
BY DEF Peer, Other

\* What is in a socket after a step was there or has come.
LEMMA WasThere ==
  ASSUME NEW q \in Seq(Datagram), NEW q2
  PROVE  /\ q # <<>> /\ q2 = Tail(q) => \A b \in 1..Len(q2) : \E a \in 1..Len(q) : q2[b] = q[a]
         /\ \A d \in Datagram : Came(q, d, q2) =>
              \A b \in 1..Len(q2) : q2[b] = d \/ \E a \in 1..Len(q) : q2[b] = q[a]
<1>1. q # <<>> /\ q2 = Tail(q) => \A b \in 1..Len(q2) : \E a \in 1..Len(q) : q2[b] = q[a]
  BY TailOf
<1>2. ASSUME NEW d \in Datagram, Came(q, d, q2), NEW b \in 1..Len(q2)
      PROVE  q2[b] = d \/ \E a \in 1..Len(q) : q2[b] = q[a]
  BY <1>2, LastOf
<1> QED BY <1>1, <1>2

\* No step of the server but udpsend's first disturbs what is over.
LEMMA OverStays ==
  ASSUME IInv, NEW q2, q2 = Incoming("client")',
         \A b \in 1..Len(q2) : q2[b].kind = "@" => Was(q2[b].id)
                                                   \/ \E a \in 1..Len(Incoming("client")) :
                                                        q2[b] = Incoming("client")[a],
         \A id : Was(id) => Was(id)', calls'["server"] = calls["server"]
  PROVE  Over => Over'
<1> SUFFICES ASSUME Over PROVE Over'
  OBVIOUS
<1>1. calls'["server"] = 0 \/ Was(calls["server"])' BY DEF Over
<1>2. ASSUME NEW b \in 1..Len(q2), q2[b].kind = "@" PROVE Was(q2[b].id)'
  <2>1. CASE Was(q2[b].id) BY <2>1
  <2>2. ASSUME NEW a \in 1..Len(Incoming("client")), q2[b] = Incoming("client")[a]
        PROVE  Was(q2[b].id)
    BY <1>2, <2>2 DEF Over
  <2> QED BY <1>2, <2>1, <2>2
<1>3. Over' <=> /\ calls'["server"] = 0 \/ Was(calls["server"])'
                /\ \A b \in 1..Len(q2) : q2[b].kind = "@" => Was(q2[b].id)'
  BY DEF Over, Was
<1> QED BY <1>1, <1>2, <1>3

\* The server still returns no command, unless one is sent.
LEMMA NoCommandStays ==
  ASSUME IInv, NoCommand, prev_Recv_Seq'["server"] = prev_Recv_Seq["server"],
         \/ Incoming("server")' = Incoming("server")
         \/ Incoming("server") # <<>> /\ Incoming("server")' = Tail(Incoming("server"))
         \/ \E d \in Datagram : /\ d.kind \notin Command
                                /\ Came(Incoming("server"), d, Incoming("server")')
  PROVE  NoCommand'
<1> DEFINE q == Incoming("server")
<1>1. q \in Seq(Datagram) BY Names, IncomingTyped
<1>2. PICK q2 : q2 = Incoming("server")' OBVIOUS
<1>3. PICK n : n = prev_Recv_Seq["server"] OBVIOUS
<1>4. \A b \in 1..Len(q) : q[b].kind \in Command => \A a \in 1..b : q[a].seqNo = n
  BY <1>3 DEF NoCommand
<1>5. NoCommand' <=> \A b \in 1..Len(q2) : q2[b].kind \in Command =>
                       \A a \in 1..b : q2[a].seqNo = n
  BY <1>2, <1>3 DEF NoCommand, Command
<1> HIDE DEF q
<1>6. CASE q2 = q BY <1>4, <1>5, <1>6
<1>7. CASE q # <<>> /\ q2 = Tail(q)
  <2> SUFFICES ASSUME NEW b \in 1..Len(q2), q2[b].kind \in Command, NEW a \in 1..b
               PROVE  q2[a].seqNo = n
    BY <1>5
  <2>1. /\ Len(q2) = Len(q) - 1 /\ Len(q) \in Nat
        /\ \A i \in 1..Len(q2) : q2[i] = q[i + 1] /\ i + 1 \in 1..Len(q)
    BY <1>1, <1>7, TailOf
  <2>2. a \in 1..Len(q2) /\ a + 1 \in 1..(b + 1) BY <2>1
  <2> QED BY <1>4, <2>1, <2>2
<1>8. ASSUME NEW d \in Datagram, d.kind \notin Command, Came(q, d, q2)
      PROVE  NoCommand'
  <2> SUFFICES ASSUME NEW b \in 1..Len(q2), q2[b].kind \in Command, NEW a \in 1..b
               PROVE  q2[a].seqNo = n
    BY <1>5
  <2>1. /\ Len(q) \in Nat /\ Len(q2) \in Nat
        /\ \A i \in 1..Len(q2) : \/ i \in 1..Len(q) /\ q2[i] = q[i]
                                 \/ i = Len(q) + 1 /\ q2[i] = d
    BY <1>1, <1>8, LastOf
  <2>2. b \in 1..Len(q) /\ q2[b] = q[b] BY <1>8, <2>1
  <2>3. a \in 1..Len(q) /\ a \in 1..Len(q2) /\ a # Len(q) + 1 BY <2>1, <2>2
  <2> QED BY <1>4, <2>1, <2>2, <2>3
<1> QED BY <1>2, <1>6, <1>7, <1>8 DEF q

-------------------------------------------------------------------------------
\* The client sends a packet, for the first time or again.
LEMMA ClientSends ==
  ASSUME IInv, Called, "delay" \notin network, Situation,
         udpsend("client") \/ Resend("client")
  PROVE  Situation'
<1>1. /\ InCall("client", "send") /\ waiting'["client"] /\ waiting'["server"] = waiting["server"]
      /\ ackSeq'["server"] = ackSeq["server"] /\ calls'["server"] = calls["server"]
      /\ waiting["client"] => ackSeq'["client"] = ackSeq["client"]
      /\ Incoming("client")' = Incoming("client")
      /\ UNCHANGED <<plan, network, script, prev_Recv_Seq, accepted, deleted, told>>
  BY Names, Sends
<1>2. PICK d \in Datagram : /\ d.seqNo = ackSeq'["client"]
                            /\ d.kind = Head(script["client"]).kind
                            /\ Came(Incoming("server"), d, Incoming("server")')
  BY Names, Sends
<1>3. /\ CaughtUp("client")' = CaughtUp("client") /\ Turned("client")' = Turned("client")
      /\ Fresh("client")' = Fresh("client") /\ Settled("client")' = Settled("client")
      /\ \A K : OnlyNew("client", K)' = OnlyNew("client", K)
  BY <1>1, Names, Stays
<1>4. /\ waiting["client"] => /\ CaughtUp("server") => CaughtUp("server")'
                              /\ Turned("server") => Turned("server")'
                              /\ Fresh("server") => Fresh("server")'
      /\ CaughtUp("server") => Turned("server")'
      /\ Incoming("server") = <<>> => Turned("server")' /\ Fresh("server")'
      /\ \A K : OnlyNew("server", K) /\ d.kind \in K => OnlyNew("server", K)'
  BY <1>1, <1>2, Names, Comes DEF Came
<1>5. /\ Idle' = Idle /\ Over' = Over /\ Nothing' = Nothing /\ EndIsLast' = EndIsLast
  BY <1>1 DEF Idle, Over, Nothing, EndIsLast, Was
<1>6. script["client"] # <<>> /\ Head(script["client"]).op = "send" BY <1>1 DEF InCall
<1>7. \A K : CaughtUp("server") \/ Incoming("server") = <<>> => OnlyNew("server", K)
  BY DEF CaughtUp, AllOf, OnlyNew, OldOr
<1>8. CASE InMenu
  <2>1. ~waiting["client"] /\ Idle' /\ Over' BY <1>5, <1>8 DEF InMenu
  <2>2. ASSUME NEW x, d.kind = x PROVE Sent(x)'
    <3>1. OnlyNew("server", {x, "ack"}) BY <1>7, <1>8 DEF InMenu
    <3>2. OnlyNew("server", {x, "ack"})' BY <1>4, <2>2, <3>1
    <3>3. Turned("server")' BY <1>4, <1>8 DEF InMenu
    <3>4. CaughtUp("client")' \/ (Nothing' /\ waiting'["client"] /\ Fresh("server")')
      BY <1>1, <1>3, <1>4, <1>5, <1>8 DEF InMenu
    <3> QED BY <2>1, <3>2, <3>3, <3>4 DEF Sent
  <2>3. CASE script["client"] = listServerFiles
    <3>1. Sent("LIST")' BY <1>2, <2>2, <2>3, ScriptsGoOn DEF GoesOn
    <3> QED BY <1>1, <2>3, <3>1 DEF ListSent, Situation
  <2>4. CASE script["client"] = Asking /\ plan = <<>>
    <3>1. Sent("DEL")' BY <1>2, <2>2, <2>4, ScriptsGoOn DEF GoesOn
    <3> QED BY <1>1, <2>4, <3>1 DEF DelSent, Situation
  <2> QED BY <1>6, <1>8, <2>3, <2>4 DEF InMenu
<1>9. ASSUME NEW x, Sent(x), waiting["client"], d.kind = x PROVE Sent(x)'
  <2>1. Idle' /\ Over' BY <1>5, <1>9 DEF Sent
  <2>2. OnlyNew("server", {x, "ack"})' /\ Turned("server")' BY <1>4, <1>9 DEF Sent
  <2>3. \/ CaughtUp("client")'
        \/ Nothing' /\ waiting'["client"] /\ Fresh("server")'
        \/ /\ calls'["server"] = 0
           /\ Fresh("client")' /\ Turned("client")' /\ CaughtUp("server")'
    BY <1>1, <1>3, <1>4, <1>5, <1>9 DEF Sent
  <2> QED BY <2>1, <2>2, <2>3 DEF Sent
<1>10. CASE ListSent
  <2>1. script["client"] = listServerFiles /\ waiting["client"] /\ Sent("LIST")
    BY <1>6, <1>10, ScriptsGoOn DEF ListSent, GoesOn
  <2>2. Sent("LIST")' BY <1>2, <1>9, <2>1, ScriptsGoOn DEF GoesOn
  <2> QED BY <1>1, <2>1, <2>2 DEF ListSent, Situation
<1>11. CASE plan = <<>> /\ DelSent
  <2>1. script["client"] = Asking /\ waiting["client"] /\ Sent("DEL")
    BY <1>6, <1>11, ScriptsGoOn DEF DelSent, GoesOn
  <2>2. Sent("DEL")' BY <1>2, <1>9, <2>1, ScriptsGoOn DEF GoesOn
  <2> QED BY <1>1, <1>11, <2>1, <2>2 DEF DelSent, Situation
<1>12. CASE ListServed
  BY <1>1, <1>4, <1>5, <1>6, <1>12, ScriptsGoOn DEF ListServed, GoesOn, Situation
<1>13. CASE plan = <<>> /\ EchoDue
  <2>1. script["client"] = Asking /\ waiting["client"]
    BY <1>6, <1>13, ScriptsGoOn DEF EchoDue, GoesOn
  <2>2. EchoDue' BY <1>1, <1>3, <1>4, <1>5, <1>13, <2>1 DEF EchoDue
  <2> QED BY <1>1, <1>13, <2>2 DEF Situation
<1>14. CASE plan = <<>> /\ EchoSent
  <2>1. script["client"] # Echoed BY <1>6, ScriptsGoOn DEF GoesOn
  <2>2. EchoSent' BY <1>1, <1>3, <1>4, <1>14, <2>1 DEF EchoSent
  <2> QED BY <1>1, <1>14, <2>2 DEF Situation
<1>15. CASE plan = <<>> /\ Ignored
  <2>1. d.kind = "name" BY <1>2, <1>6, <1>15, ScriptsGoOn DEF Ignored, GoesOn
  <2>2. NoCommand' BY <1>1, <1>2, <1>15, <2>1, NoCommandStays DEF Ignored, Command
  <2> QED BY <1>1, <1>3, <1>15, <2>2 DEF Ignored, Situation
<1>16. CASE plan = <<>> /\ Decided
  BY <1>1, <1>3, <1>16 DEF Decided, Situation
<1>17. CASE NoVerdict
  BY <1>1, <1>17 DEF NoVerdict, Situation
<1> QED BY <1>8, <1>10, <1>11, <1>12, <1>13, <1>14, <1>15, <1>16, <1>17 DEF Situation

\* The end of a listing stays the last packet of the server.
LEMMA EndStays ==
  ASSUME IInv, NEW q2, q2 = Incoming("client")',
         \A b \in 1..Len(q2) : q2[b].kind = "@" => \/ q2[b].id = calls'["server"] /\ Idle'
                                                   \/ \E a \in 1..Len(Incoming("client")) :
                                                        q2[b] = Incoming("client")[a],
         \A id : Was(id) => Was(id)', Idle => Idle' /\ calls'["server"] = calls["server"]
  PROVE  EndIsLast => EndIsLast'
<1> SUFFICES ASSUME EndIsLast PROVE EndIsLast'
  OBVIOUS
<1>1. ASSUME NEW b \in 1..Len(q2), q2[b].kind = "@"
      PROVE  Was(q2[b].id)' \/ (q2[b].id = calls'["server"] /\ Idle')
  <2>1. ASSUME NEW a \in 1..Len(Incoming("client")), q2[b] = Incoming("client")[a]
        PROVE  Was(q2[b].id) \/ (q2[b].id = calls["server"] /\ Idle)
    BY <1>1, <2>1 DEF EndIsLast
  <2> QED BY <1>1, <2>1
<1>2. EndIsLast' <=> \A b \in 1..Len(q2) : q2[b].kind = "@" =>
                       Was(q2[b].id)' \/ (q2[b].id = calls'["server"] /\ Idle')
  BY DEF EndIsLast, Was, Idle
<1> QED BY <1>1, <1>2

LEMMA ListingEnds ==
  ASSUME NEW s \in Seq(Call), Listing(s), Head(s).kind = "@"
  PROVE  s = Ending
<1> USE DEF Listing
<1>1. Len(s) \in Nat /\ Len(s) >= 2 /\ Head(s) = s[1] OBVIOUS
<1>2. Len(s) = 2
  <2>1. ASSUME Len(s) > 2 PROVE FALSE
    <3>1. 1 \in 1..(Len(s) - 2) BY <1>1, <2>1
    <3> QED BY <1>1, <3>1
  <2>2. PICK n \in Nat : n = Len(s) BY <1>1
  <2>3. n >= 2 => n = 2 \/ n > 2 OBVIOUS
  <2> QED BY <1>1, <2>1, <2>2, <2>3
<1>3. s[1] = SendCall("@", 0) /\ s[2] = RecvCall("command") BY <1>2
<1> HIDE DEF Listing
<1>4. s = <<s[1], s[2]>> BY <1>2
<1> QED BY <1>3, <1>4 DEF Ending

\* The server sends a packet, for the first time or again.
LEMMA ServerSends ==
  ASSUME IInv, Called, "delay" \notin network, Situation,
         udpsend("server") \/ Resend("server")
  PROVE  Situation'
<1>1. /\ InCall("server", "send") /\ waiting'["server"] /\ waiting'["client"] = waiting["client"]
      /\ ackSeq'["client"] = ackSeq["client"] /\ calls'["server"] > 0
      /\ waiting["server"] => ackSeq'["server"] = ackSeq["server"]
                              /\ calls'["server"] = calls["server"]
      /\ Incoming("server")' = Incoming("server")
      /\ UNCHANGED <<plan, network, script, prev_Recv_Seq, accepted, deleted, told>>
  BY Names, Sends
<1>2. PICK d \in Datagram : /\ d.seqNo = ackSeq'["server"] /\ d.id = calls'["server"]
                            /\ d.kind = Head(script["server"]).kind
                            /\ Came(Incoming("client"), d, Incoming("client")')
  BY Names, Sends
<1>3. /\ CaughtUp("server")' = CaughtUp("server") /\ Turned("server")' = Turned("server")
      /\ Fresh("server")' = Fresh("server")
      /\ \A K : OnlyNew("server", K)' = OnlyNew("server", K)
  BY <1>1, Names, Stays
<1>4. /\ waiting["server"] => /\ CaughtUp("client") => CaughtUp("client")'
                              /\ Turned("client") => Turned("client")'
                              /\ Fresh("client") => Fresh("client")'
                              /\ Settled("client") => Settled("client")'
      /\ CaughtUp("client") => Turned("client")'
      /\ Incoming("client") = <<>> => Turned("client")' /\ Fresh("client")'
      /\ Len(Incoming("client")) = 1 => Settled("client")'
      /\ \A K : OnlyNew("client", K) /\ d.kind \in K => OnlyNew("client", K)'
  BY <1>1, <1>2, Names, Comes DEF Came
<1>5. \A id : Was(id)' = Was(id) BY <1>1 DEF Was
<1>6. PICK q2 : q2 = Incoming("client")' OBVIOUS
<1>7. \A b \in 1..Len(q2) : q2[b] = d \/ \E a \in 1..Len(Incoming("client")) :
                                           q2[b] = Incoming("client")[a]
  <2>1. Incoming("client") \in Seq(Datagram) BY Names, IncomingTyped
  <2> QED BY <1>2, <1>6, <2>1, WasThere
<1>8. script["server"] # <<>> /\ Head(script["server"]).op = "send" BY <1>1 DEF InCall
<1>9. /\ Idle => script["server"] = Ending /\ waiting["server"]
      /\ script["server"] = Ending => Idle'
  BY <1>1, <1>8, ScriptsGoOn DEF Idle, GoesOn
<1>10. Idle => Idle' /\ calls'["server"] = calls["server"] BY <1>1, <1>9
<1>11. ASSUME Idle, Over PROVE Over'
  <2>1. Was(d.id) BY <1>1, <1>2, <1>10, <1>11 DEF Over
  <2> QED BY <1>5, <1>6, <1>7, <1>10, <1>11, <2>1, OverStays
<1>12. ASSUME NEW x, Sent(x) PROVE Sent(x)'
  <2>1. Idle /\ Over /\ waiting["server"] /\ calls["server"] # 0
    BY <1>1, <1>9, <1>12 DEF Sent
  <2>2. CaughtUp("client") BY <1>12, <2>1 DEF Sent, Nothing
  <2>3. OnlyNew("server", {x, "ack"})' /\ Turned("server")' BY <1>3, <1>12 DEF Sent
  <2> QED BY <1>4, <1>10, <1>11, <2>1, <2>2, <2>3 DEF Sent
<1>13. CASE InMenu
  <2>1. Idle /\ Over /\ waiting["server"] /\ calls["server"] # 0
    BY <1>1, <1>9, <1>13 DEF InMenu
  <2>2. CaughtUp("client") /\ CaughtUp("server") BY <1>13, <2>1 DEF InMenu, Nothing
  <2>3. InMenu' BY <1>1, <1>3, <1>4, <1>10, <1>11, <1>13, <2>1, <2>2 DEF InMenu
  <2> QED BY <2>3 DEF Situation
<1>14. CASE ListSent BY <1>1, <1>12, <1>14 DEF ListSent, Situation
<1>15. CASE plan = <<>> /\ DelSent BY <1>1, <1>12, <1>15 DEF DelSent, Situation
<1>16. CASE ListServed
  <2>1. d.kind = "@" => Idle'
    <3>1. CASE Idle BY <3>1, <1>10
    <3>2. CASE Listing(script["server"]) /\ d.kind = "@"
      <4>1. script["server"] \in Seq(Call) BY Names DEF IInv, TypeOK
      <4>2. script["server"] = Ending BY <1>2, <3>2, <4>1, ListingEnds
      <4> QED BY <4>2, <1>9
    <3> QED BY <1>16, <3>1, <3>2 DEF ListServed
  <2>2. EndIsLast' BY <1>2, <1>5, <1>6, <1>7, <1>10, <1>16, <2>1, EndStays DEF ListServed
  <2>3. Listing(script["server"])' \/ Idle'
    BY <1>1, <1>10, <1>16 DEF ListServed, Listing
  <2>4. ListServed' BY <1>1, <1>3, <1>16, <2>2, <2>3 DEF ListServed
  <2> QED BY <2>4 DEF Situation
<1>17. CASE plan = <<>> /\ EchoDue
  <2>1. script["client"] = Echoed => ~waiting["client"]
    BY ScriptsGoOn DEF IInv, TypeOK, InCall, GoesOn, Peer
  <2>2. EchoSent' BY <1>1, <1>3, <1>4, <1>17, <2>1 DEF EchoDue, EchoSent, Nothing
  <2> QED BY <1>1, <1>17, <2>2 DEF Situation
<1>18. CASE plan = <<>> /\ EchoSent
  <2>1. waiting["server"] BY <1>8, <1>18, ScriptsGoOn DEF EchoSent, GoesOn
  <2>2. EchoSent' BY <1>1, <1>3, <1>4, <1>18, <2>1 DEF EchoSent
  <2> QED BY <1>1, <1>18, <2>2 DEF Situation
<1>19. CASE plan = <<>> /\ Ignored
  BY <1>8, <1>19, ScriptsGoOn DEF Ignored, GoesOn
<1>20. CASE plan = <<>> /\ Decided
  <2>1. CASE deleted BY <1>1, <1>20, <2>1 DEF Decided, Situation
  <2>2. CASE ~deleted
    <3>1. script["server"] = Missing /\ OnlyNew("client", {"#"})
      BY <1>8, <1>20, <2>2 DEF Decided
    <3>2. d.kind \in {"#"} BY <1>2, <3>1, ScriptsGoOn DEF GoesOn
    <3>3. OnlyNew("client", {"#"})' BY <1>4, <3>1, <3>2
    <3>4. Decided' BY <1>1, <1>20, <3>1, <3>3 DEF Decided
    <3> QED BY <1>1, <1>20, <3>4 DEF Situation
  <2> QED BY <2>1, <2>2
<1>21. CASE NoVerdict BY <1>1, <1>21 DEF NoVerdict, Situation
<1> QED BY <1>13, <1>14, <1>15, <1>16, <1>17, <1>18, <1>19, <1>20, <1>21 DEF Situation

-------------------------------------------------------------------------------
LEMMA UnjudgedTail ==
  ASSUME NEW s \in Seq(Call), s # <<>>, Unjudged(s)
  PROVE  Unjudged(Tail(s))
BY TailOf DEF Unjudged

\* Whatever came ends the client's udpsend.
LEMMA ClientTakesAck ==
  ASSUME IInv, "delay" \notin network, Situation, RecvAck("client")
  PROVE  Situation'
<1>1. /\ waiting["client"] /\ InCall("client", "send")
      /\ waiting'["server"] = waiting["server"]
      /\ Incoming("client") # <<>> /\ Incoming("client")' = Tail(Incoming("client"))
      /\ Incoming("server")' = Incoming("server")
      /\ script'["client"] = Tail(script["client"]) /\ script'["server"] = script["server"]
      /\ UNCHANGED <<plan, network, prev_Recv_Seq, ackSeq, calls, accepted, deleted, told>>
  BY Names, TakesAck
<1>2. /\ CaughtUp("client") => CaughtUp("client")'
      /\ Turned("client") => Turned("client")'
      /\ Fresh("client") => Fresh("client")'
      /\ Settled("client") => Turned("client")'
      /\ \A K : OnlyNew("client", K) => OnlyNew("client", K)'
  BY <1>1, Names, Goes
<1>3. /\ CaughtUp("server")' = CaughtUp("server") /\ Turned("server")' = Turned("server")
      /\ Fresh("server")' = Fresh("server") /\ NoCommand' = NoCommand
      /\ \A K : OnlyNew("server", K)' = OnlyNew("server", K)
  BY <1>1, Names, Stays DEF NoCommand, Command
<1>4. \A id : Was(id)' = Was(id) BY <1>1 DEF Was
<1>5. Idle' = Idle BY <1>1 DEF Idle
<1>6. PICK q2 : q2 = Incoming("client")' OBVIOUS
<1>7. \A b \in 1..Len(q2) : \E a \in 1..Len(Incoming("client")) : q2[b] = Incoming("client")[a]
  <2>1. Incoming("client") \in Seq(Datagram) BY Names, IncomingTyped
  <2> QED BY <1>1, <1>6, <2>1, WasThere
<1>8. Over => Over' BY <1>1, <1>4, <1>6, <1>7, OverStays
<1>9. EndIsLast => EndIsLast' BY <1>1, <1>4, <1>5, <1>6, <1>7, EndStays
<1>10. script["client"] # <<>> /\ Head(script["client"]).op = "send" BY <1>1 DEF InCall
<1>11. ASSUME NEW x, Sent(x) PROVE Sent(x)'
  <2>1. CaughtUp("client")' \/ (calls["server"] = 0 /\ Fresh("client")' /\ Turned("client")'
                                  /\ CaughtUp("server"))
    BY <1>1, <1>2, <1>11 DEF Sent, Nothing
  <2> QED BY <1>1, <1>3, <1>5, <1>8, <1>11, <2>1 DEF Sent
<1>12. CASE InMenu BY <1>1, <1>12 DEF InMenu
<1>13. CASE ListSent
  <2>1. script'["client"] = Reading BY <1>1, <1>10, <1>13, ScriptsGoOn DEF ListSent, GoesOn
  <2> QED BY <1>11, <1>13, <2>1 DEF ListSent, Situation
<1>14. CASE plan = <<>> /\ DelSent
  <2>1. script'["client"] = Echoed BY <1>1, <1>10, <1>14, ScriptsGoOn DEF DelSent, GoesOn
  <2> QED BY <1>1, <1>11, <1>14, <2>1 DEF DelSent, Situation
<1>15. CASE ListServed
  <2>1. script'["client"] = Reading BY <1>1, <1>10, <1>15, ScriptsGoOn DEF ListServed, GoesOn
  <2>2. Listing(script["server"])' \/ Idle' BY <1>1, <1>5, <1>15 DEF ListServed, Listing
  <2> QED BY <1>3, <1>9, <1>15, <2>1, <2>2 DEF ListServed, Situation
<1>16. CASE plan = <<>> /\ EchoDue
  <2>1. script'["client"] = Echoed BY <1>1, <1>10, <1>16, ScriptsGoOn DEF EchoDue, GoesOn
  <2>2. CaughtUp("client")' \/ Nothing'
    <3>1. CASE CaughtUp("client") BY <1>2, <3>1
    <3>2. CASE calls["server"] = 0 /\ Len(Incoming("client")) = 1
      <4>1. Incoming("client") \in Seq(Datagram) BY Names, IncomingTyped
      <4>2. Incoming("client")' \in Seq(Datagram) /\ Len(Incoming("client")') = 0
        BY <1>1, <3>2, <4>1, TailOf
      <4> QED BY <1>1, <3>2, <4>2, EmptySeq DEF Nothing
    <3> QED BY <1>1, <1>16, <3>1, <3>2 DEF EchoDue, Nothing
  <2> QED BY <1>1, <1>3, <1>16, <2>1, <2>2 DEF EchoDue, Situation
<1>17. CASE plan = <<>> /\ EchoSent
  <2>1. CASE script["client"] = Asking
    <3>1. script'["client"] = Echoed BY <1>1, <2>1, ScriptsGoOn DEF GoesOn
    <3>2. script["client"] # Naming /\ script["client"] # Judging /\ script["client"] # Echoed
      BY <1>10, <2>1, ScriptsGoOn DEF GoesOn
    <3>3. EchoSent' BY <1>1, <1>2, <1>3, <1>17, <3>1, <3>2 DEF EchoSent
    <3> QED BY <1>1, <1>17, <3>3 DEF Situation
  <2>2. CASE script["client"] = Naming /\ CaughtUp("client")
    <3>1. script'["client"] = Judging BY <1>1, <2>2, ScriptsGoOn DEF GoesOn
    <3>2. EchoSent' BY <1>1, <1>2, <1>17, <2>2, <3>1 DEF EchoSent
    <3> QED BY <1>1, <1>17, <3>2 DEF Situation
  <2>3. script["client"] \notin {Echoed, Judging} BY <1>10, ScriptsGoOn DEF GoesOn
  <2> QED BY <1>17, <2>1, <2>2, <2>3 DEF EchoSent
<1>18. CASE plan = <<>> /\ Ignored
  <2>1. script'["client"] = Judging BY <1>1, <1>10, <1>18, ScriptsGoOn DEF Ignored, GoesOn
  <2> QED BY <1>1, <1>2, <1>3, <1>18, <2>1 DEF Ignored, Situation
<1>19. CASE plan = <<>> /\ Decided
  <2>1. script'["client"] = Judging BY <1>1, <1>10, <1>19, ScriptsGoOn DEF Decided, GoesOn
  <2> QED BY <1>1, <1>2, <1>19, <2>1 DEF Decided, Situation
<1>20. CASE NoVerdict
  <2>1. script["client"] \in Seq(Call) BY Names DEF IInv, TypeOK
  <2>2. Unjudged(script'["client"])
    BY <1>1, <1>10, <1>20, <2>1, UnjudgedTail DEF NoVerdict
  <2> QED BY <1>1, <1>20, <2>2 DEF NoVerdict, Situation, Unjudged
<1> QED BY <1>12, <1>13, <1>14, <1>15, <1>16, <1>17, <1>18, <1>19, <1>20 DEF Situation

\* Whatever came ends the server's udpsend.
LEMMA ServerTakesAck ==
  ASSUME IInv, Called, "delay" \notin network, Situation, RecvAck("server")
  PROVE  Situation'
<1>1. /\ waiting["server"] /\ InCall("server", "send") /\ ~waiting'["server"]
      /\ waiting'["client"] = waiting["client"]
      /\ Incoming("server") # <<>> /\ Incoming("server")' = Tail(Incoming("server"))
      /\ Incoming("client")' = Incoming("client")
      /\ script'["server"] = Tail(script["server"]) /\ script'["client"] = script["client"]
      /\ UNCHANGED <<plan, network, prev_Recv_Seq, ackSeq, calls, accepted, deleted, told>>
  BY Names, TakesAck
<1>2. /\ CaughtUp("server") => CaughtUp("server")'
      /\ Turned("server") => Turned("server")'
      /\ \A K : OnlyNew("server", K) => OnlyNew("server", K)'
  BY <1>1, Names, Goes
<1>3. /\ CaughtUp("client")' = CaughtUp("client") /\ Turned("client")' = Turned("client")
      /\ Fresh("client")' = Fresh("client") /\ Settled("client")' = Settled("client")
      /\ \A K : OnlyNew("client", K)' = OnlyNew("client", K)
  BY <1>1, Names, Stays
<1>4. calls["server"] # 0 /\ ~Nothing
  <2>1. calls["server"] > 0 BY <1>1, Names DEF Called
  <2> QED BY <2>1 DEF Nothing
<1>5. script["server"] # <<>> /\ Head(script["server"]).op = "send" BY <1>1 DEF InCall
<1>6. Idle => Idle'
  <2> SUFFICES ASSUME Idle PROVE Idle'
    OBVIOUS
  <2>1. script["server"] = Ending BY <1>5, ScriptsGoOn DEF Idle, GoesOn
  <2> QED BY <1>1, <2>1, ScriptsGoOn DEF Idle, GoesOn
<1>7. Over' = Over BY <1>1 DEF Over, Was
<1>8. EndIsLast => EndIsLast' BY <1>1, <1>6 DEF EndIsLast, Was
<1>9. ASSUME NEW x, Sent(x) PROVE Sent(x)'
  BY <1>2, <1>3, <1>4, <1>6, <1>7, <1>9 DEF Sent
<1>10. CASE InMenu
  BY <1>1, <1>2, <1>3, <1>4, <1>6, <1>7, <1>10 DEF InMenu, Situation
<1>11. CASE ListSent BY <1>1, <1>9, <1>11 DEF ListSent, Situation
<1>12. CASE plan = <<>> /\ DelSent BY <1>1, <1>9, <1>12 DEF DelSent, Situation
<1>13. CASE ListServed
  <2>1. Listing(script["server"])' \/ Idle'
    <3>1. CASE Idle BY <1>6, <3>1
    <3>2. CASE Listing(script["server"])
      <4>1. script["server"] \in Seq(Call) BY Names DEF IInv, TypeOK
      <4>2. PICK t : t = Tail(script["server"]) OBVIOUS
      <4>3. Listing(t) \/ t = Ready BY <3>2, <4>1, <4>2, ListingGoesOn DEF Ready
      <4> QED BY <1>1, <4>2, <4>3 DEF Idle, Listing
    <3> QED BY <1>13, <3>1, <3>2 DEF ListServed
  <2> QED BY <1>1, <1>2, <1>8, <1>13, <2>1 DEF ListServed, Situation
<1>14. CASE plan = <<>> /\ EchoDue BY <1>1, <1>14 DEF EchoDue
<1>15. CASE plan = <<>> /\ EchoSent
  <2>1. script'["server"] = Finding BY <1>1, <1>5, <1>15, ScriptsGoOn DEF EchoSent, GoesOn
  <2>2. EchoSent' BY <1>1, <1>2, <1>3, <1>15, <2>1 DEF EchoSent
  <2> QED BY <1>1, <1>15, <2>2 DEF Situation
<1>16. CASE plan = <<>> /\ Ignored BY <1>5, <1>16, ScriptsGoOn DEF Ignored, GoesOn
<1>17. CASE plan = <<>> /\ Decided
  <2>1. deleted \/ (script'["server"] = <<>> /\ OnlyNew("client", {"#"})')
    BY <1>1, <1>3, <1>5, <1>17, ScriptsGoOn DEF Decided, GoesOn
  <2> QED BY <1>1, <1>17, <2>1 DEF Decided, Situation
<1>18. CASE NoVerdict BY <1>1, <1>18 DEF NoVerdict, Situation
<1> QED BY <1>10, <1>11, <1>12, <1>13, <1>14, <1>15, <1>16, <1>17, <1>18 DEF Situation

-------------------------------------------------------------------------------
\* The client drops a duplicate and answers it.
LEMMA ClientDrops ==
  ASSUME IInv, "delay" \notin network, Situation, Drop("client")
  PROVE  Situation'
<1>1. /\ InCall("client", "recv") /\ ~waiting["client"]
      /\ Incoming("client") # <<>> /\ Incoming("client")' = Tail(Incoming("client"))
      /\ UNCHANGED <<plan, network, waiting, ackSeq, calls>>
  BY Names, Receives
<1>2. UNCHANGED <<script, prev_Recv_Seq, accepted, deleted, told>> BY DEF Drop, seqs, files
<1>3. PICK d \in Datagram : /\ d.seqNo = ackSeq'["client"] /\ d.kind = "ack"
                            /\ Came(Incoming("server"), d, Incoming("server")')
  BY Names, Receives
<1>4. /\ CaughtUp("client") => CaughtUp("client")'
      /\ Turned("client") => Turned("client")'
      /\ Fresh("client") => Fresh("client")'
      /\ \A K : OnlyNew("client", K) => OnlyNew("client", K)'
  BY <1>1, <1>2, Names, Goes
<1>5. /\ CaughtUp("server") => CaughtUp("server")'
      /\ Turned("server") => Turned("server")'
      /\ \A K : OnlyNew("server", K) /\ "ack" \in K => OnlyNew("server", K)'
  BY <1>1, <1>2, <1>3, Names, Comes DEF Came
<1>6. /\ \A id : Was(id)' = Was(id)
      /\ Idle' = Idle
  BY <1>1, <1>2 DEF Was, Idle
<1>7. PICK q2 : q2 = Incoming("client")' OBVIOUS
<1>8. \A b \in 1..Len(q2) : \E a \in 1..Len(Incoming("client")) : q2[b] = Incoming("client")[a]
  <2>1. Incoming("client") \in Seq(Datagram) BY Names, IncomingTyped
  <2> QED BY <1>1, <1>7, <2>1, WasThere
<1>9. Over => Over' BY <1>1, <1>6, <1>7, <1>8, OverStays
<1>10. EndIsLast => EndIsLast' BY <1>1, <1>6, <1>7, <1>8, EndStays
<1>11. script["client"] # <<>> /\ Head(script["client"]).op = "recv" BY <1>1 DEF InCall
<1>12. ASSUME NEW x, Sent(x) PROVE Sent(x)'
  BY <1>1, <1>4, <1>5, <1>6, <1>9, <1>12 DEF Sent
<1>13. CASE InMenu BY <1>11, <1>13, ScriptsGoOn DEF InMenu, GoesOn
<1>14. CASE ListSent BY <1>1, <1>2, <1>12, <1>14 DEF ListSent, Situation
<1>15. CASE plan = <<>> /\ DelSent BY <1>1, <1>2, <1>12, <1>15 DEF DelSent, Situation
<1>16. CASE ListServed
  <2>1. Listing(script["server"])' \/ Idle'
    BY <1>2, <1>6, <1>16 DEF ListServed, Listing
  <2> QED BY <1>1, <1>2, <1>5, <1>10, <1>16, <2>1 DEF ListServed, Situation
<1>17. CASE plan = <<>> /\ EchoDue
  <2>1. CaughtUp("client") BY <1>1, <1>17 DEF EchoDue, Nothing
  <2> QED BY <1>1, <1>2, <1>4, <1>5, <1>17, <2>1 DEF EchoDue, Situation
<1>18. CASE plan = <<>> /\ EchoSent
  BY <1>1, <1>2, <1>4, <1>5, <1>18 DEF EchoSent, Situation
<1>19. CASE plan = <<>> /\ Ignored
  <2>1. NoCommand' BY <1>2, <1>3, <1>19, NoCommandStays DEF Ignored, Command
  <2> QED BY <1>1, <1>2, <1>4, <1>19, <2>1 DEF Ignored, Situation
<1>20. CASE plan = <<>> /\ Decided BY <1>1, <1>2, <1>4, <1>20 DEF Decided, Situation
<1>21. CASE NoVerdict BY <1>1, <1>2, <1>21 DEF NoVerdict, Situation
<1> QED BY <1>13, <1>14, <1>15, <1>16, <1>17, <1>18, <1>19, <1>20, <1>21 DEF Situation

\* What the server returns, or drops, when it waits for a command.
LEMMA ServerReads ==
  ASSUME IInv, Situation, InCall("server", "recv")
  PROVE  /\ Idle => script["server"] = Ready
         /\ ListServed => Idle
         /\ ~EchoDue
         /\ EchoSent => script["server"] = Finding
         /\ Decided => deleted
<1>1. script["server"] # <<>> /\ Head(script["server"]).op = "recv" BY DEF InCall
<1>2. Idle => script["server"] = Ready BY <1>1, ScriptsGoOn DEF Idle, GoesOn
<1>3. ListServed => Idle
  <2>1. ASSUME Listing(script["server"]) PROVE FALSE
    <3>1. script["server"] \in Seq(Call) BY Names DEF IInv, TypeOK
    <3>2. Head(script["server"]).op = "send" BY <2>1, <3>1, ListingGoesOn
    <3> QED BY <1>1, <3>2
  <2> QED BY <2>1 DEF ListServed
<1>4. ~EchoDue BY <1>1, ScriptsGoOn DEF EchoDue, GoesOn
<1>5. EchoSent => script["server"] = Finding BY <1>1, ScriptsGoOn DEF EchoSent, GoesOn
<1>6. Decided => deleted BY <1>1, ScriptsGoOn DEF Decided, GoesOn
<1> QED BY <1>2, <1>3, <1>4, <1>5, <1>6

\* The server drops a duplicate, or what seems one, and answers it.
LEMMA ServerDrops ==
  ASSUME IInv, "delay" \notin network, Situation, Drop("server")
  PROVE  Situation'
<1>1. /\ InCall("server", "recv") /\ ~waiting["server"]
      /\ Incoming("server") # <<>> /\ Incoming("server")' = Tail(Incoming("server"))
      /\ UNCHANGED <<plan, network, waiting, ackSeq, calls>>
  BY Names, Receives
<1>2. /\ UNCHANGED <<script, prev_Recv_Seq, accepted, deleted, told>>
      /\ Head(Incoming("server")).seqNo = prev_Recv_Seq["server"]
  BY DEF Drop, seqs, files
<1>3. PICK d \in Datagram : /\ d.seqNo = ackSeq'["server"] /\ d.kind = "ack"
                            /\ Came(Incoming("client"), d, Incoming("client")')
  BY Names, Receives
<1>4. /\ CaughtUp("server") => CaughtUp("server")'
      /\ Turned("server") => Turned("server")'
      /\ Fresh("server") => CaughtUp("server")'
      /\ \A K : OnlyNew("server", K) => OnlyNew("server", K)'
  BY <1>1, <1>2, Names, Goes
<1>5. /\ CaughtUp("client") => CaughtUp("client")'
      /\ Turned("client") => Turned("client")'
      /\ Fresh("client") => Fresh("client")'
      /\ Settled("client") => Settled("client")'
      /\ Incoming("client") = <<>> => Turned("client")' /\ Fresh("client")'
  BY <1>1, <1>2, <1>3, Names, Comes DEF Came
<1>6. (\A id : Was(id)' = Was(id)) /\ Idle' = Idle BY <1>1, <1>2 DEF Was, Idle
<1>7. PICK q2 : q2 = Incoming("client")' OBVIOUS
<1>8. \A b \in 1..Len(q2) : q2[b].kind = "@" => \E a \in 1..Len(Incoming("client")) :
                                                  q2[b] = Incoming("client")[a]
  <2>1. Incoming("client") \in Seq(Datagram) BY Names, IncomingTyped
  <2> QED BY <1>3, <1>7, <2>1, WasThere
<1>9. Over => Over' BY <1>1, <1>6, <1>7, <1>8, OverStays
<1>10. EndIsLast => EndIsLast' BY <1>1, <1>6, <1>7, <1>8, EndStays
<1>11. ASSUME NEW x, Sent(x) PROVE Sent(x)'
  <2>1. \/ CaughtUp("client")'
        \/ /\ calls'["server"] = 0
           /\ Fresh("client")' /\ Turned("client")' /\ CaughtUp("server")'
    BY <1>1, <1>4, <1>5, <1>11 DEF Sent, Nothing
  <2> QED BY <1>4, <1>6, <1>9, <1>11, <2>1 DEF Sent
<1>12. CASE InMenu
  <2>1. CaughtUp("client") /\ CaughtUp("server") BY <1>1, <1>12 DEF InMenu
  <2> QED BY <1>1, <1>2, <1>4, <1>5, <1>6, <1>9, <1>12, <2>1 DEF InMenu, Situation
<1>13. CASE ListSent BY <1>1, <1>2, <1>11, <1>13 DEF ListSent, Situation
<1>14. CASE plan = <<>> /\ DelSent BY <1>1, <1>2, <1>11, <1>14 DEF DelSent, Situation
<1>15. CASE ListServed
  <2>1. Idle BY <1>1, <1>15, ServerReads
  <2> QED BY <1>1, <1>2, <1>4, <1>6, <1>10, <1>15, <2>1 DEF ListServed, Situation
<1>16. CASE plan = <<>> /\ EchoDue BY <1>1, <1>16, ServerReads
<1>17. CASE plan = <<>> /\ EchoSent
  BY <1>1, <1>2, <1>4, <1>5, <1>17 DEF EchoSent, Situation
<1>18. CASE plan = <<>> /\ Ignored
  <2>1. NoCommand' BY <1>1, <1>2, <1>18, NoCommandStays DEF Ignored
  <2> QED BY <1>1, <1>2, <1>5, <1>18, <2>1 DEF Ignored, Situation
<1>19. CASE plan = <<>> /\ Decided
  <2>1. deleted BY <1>1, <1>19, ServerReads
  <2> QED BY <1>1, <1>2, <1>19, <2>1 DEF Decided, Situation
<1>20. CASE NoVerdict BY <1>1, <1>2, <1>20 DEF NoVerdict, Situation
<1> QED BY <1>12, <1>13, <1>14, <1>15, <1>16, <1>17, <1>18, <1>19, <1>20 DEF Situation

-------------------------------------------------------------------------------
\* A side that waits for no verdict waits for none by what it returns.
LEMMA UnjudgedFile == Unjudged(SendFile)
<1>1. PICK t : t = SendFile OBVIOUS
<1>2. t \in Seq(Call) /\ SendsFile(t) BY <1>1, FileCallsTyped, FileSent
<1>3. t # <<>> /\ Head(t).op = "send" /\ AllSends(Tail(t))
  BY <1>2 DEF SendsFile, SendCall
<1>4. /\ Len(t) \in Nat /\ Len(Tail(t)) = Len(t) - 1 /\ Head(t) = t[1]
      /\ \A a \in 1..Len(Tail(t)) : Tail(t)[a] = t[a + 1]
  BY <1>2, <1>3, TailOf
<1>5. ASSUME NEW i \in 1..Len(t) PROVE t[i].op = "send"
  <2>1. i = 1 \/ (i - 1 \in 1..Len(Tail(t)) /\ i - 1 + 1 = i) BY <1>4
  <2>2. \A a \in 1..Len(Tail(t)) : t[a + 1].op = "send" BY <1>3, <1>4 DEF AllSends
  <2> QED BY <1>3, <1>4, <2>1, <2>2
<1> QED BY <1>1, <1>5 DEF Unjudged

LEMMA NextUnjudged ==
  ASSUME NEW p, NEW m \in Datagram, script[p] \in Seq(Call), script[p] # <<>>,
         Unjudged(script[p]), NEW s \in NextCalls(p, m)
  PROVE  Unjudged(s)
<1> DEFINE use == Head(script[p]).kind
<1>1. Unjudged(Tail(script[p])) BY UnjudgedTail
<1>2. Unjudged(<<>>) BY DEF Unjudged
<1>3. ASSUME NEW k PROVE Unjudged(Serve(k))
  <2>1. /\ Unjudged(<<RecvCall("command")>>)
        /\ Unjudged(<<SendCall("PUT", 0), RecvCall("putinfo")>>)
        /\ Unjudged(<<SendCall("GET", 0), RecvCall("getname")>>)
        /\ Unjudged(<<SendCall("DEL", 0), RecvCall("delname")>>)
    BY DEF Unjudged, SendCall, RecvCall
  <2>2. Unjudged(listFiles \o <<RecvCall("command")>>)
    <3>1. PICK t : t = listFiles \o <<RecvCall("command")>> OBVIOUS
    <3>2. Listing(t) BY <3>1, ListingStarts
    <3>3. t \in Seq(Call)
      <4>1. <<RecvCall("command")>> \in Seq(Call) BY SingleCalls, KindsAndUses
      <4> QED BY <3>1, <4>1, FileCallsTyped, ConcatProperties
    <3>4. Unjudged(t)
      <4> SUFFICES ASSUME NEW i \in 1..Len(t) PROVE t[i].op = "send" \/ t[i].kind # "verdict"
        BY DEF Unjudged
      <4>1. Len(t) \in Nat /\ Len(t) >= 2 BY <3>2, <3>3 DEF Listing
      <4>2. i \in 1..(Len(t) - 2) \/ i = Len(t) - 1 \/ i = Len(t) BY <4>1
      <4> QED BY <3>2, <4>2 DEF Listing, SendCall, RecvCall
    <3> QED BY <3>1, <3>4
  <2> QED BY <2>1, <2>2 DEF Serve
<1>4. Unjudged(PutFileToClient(m))
  <2>1. Unjudged(<<SendCall("nofile", 0)>>) BY DEF Unjudged, SendCall
  <2> QED BY <2>1, UnjudgedFile DEF PutFileToClient
<1>5. Unjudged(delFiles(m))
  <2>1. \A k : Unjudged(<<SendCall(k, 0)>>) BY DEF Unjudged, SendCall
  <2> QED BY <1>2, <2>1 DEF delFiles
<1>6. \A n \in Nat : Unjudged(RecvFile(n))
  BY RecvFileChunks DEF AllChunks, Unjudged, RecvCall
<1>7. m.n \in Nat BY DEF Datagram
<1>8. \A t \in GetFileFromClient(m) : Unjudged(t)
  <2>1. {m.n} \subseteq Nat /\ 0..Size \subseteq Nat /\ {0} \subseteq Nat BY <1>7
  <2>2. (CASE m.kind = "info" -> {m.n} [] m.kind = "chunk" -> 0..Size [] OTHER -> {0})
          \subseteq Nat
    BY <2>1
  <2> QED BY <1>6, <2>2 DEF GetFileFromClient
<1>9. CASE use = "command" BY <1>3, <1>9 DEF NextCalls
<1>10. CASE use = "getname" BY <1>4, <1>10 DEF NextCalls
<1>11. CASE use = "delname" BY <1>5, <1>11 DEF NextCalls
<1>12. CASE use = "putinfo" BY <1>8, <1>12 DEF NextCalls
<1>13. CASE use = "info" BY <1>1, <1>6, <1>7, <1>13 DEF NextCalls
<1>14. CASE use = "entry" BY <1>1, <1>14 DEF NextCalls
<1>15. CASE use \notin {"command", "getname", "delname", "putinfo", "info", "entry"}
  BY <1>1, <1>15 DEF NextCalls
<1> QED BY <1>9, <1>10, <1>11, <1>12, <1>13, <1>14, <1>15

-------------------------------------------------------------------------------
\* The client returns a packet.
LEMMA ClientAccepts ==
  ASSUME IInv, IInv', "delay" \notin network, Situation, Called, Honest, Marked,
         Accept("client")
  PROVE  Situation' /\ Honest'
<1> DEFINE use == Head(script["client"]).kind
<1>m. PICK m : m = Head(Incoming("client")) OBVIOUS
<1>acc. PICK acc : acc = accepted["client"] OBVIOUS
<1>1. /\ InCall("client", "recv") /\ ~waiting["client"]
      /\ Incoming("client") # <<>> /\ Incoming("client")' = Tail(Incoming("client"))
      /\ UNCHANGED <<plan, network, waiting, ackSeq, calls>>
      /\ script'["server"] = script["server"] /\ prev_Recv_Seq'["server"] = prev_Recv_Seq["server"]
  BY Names, Receives
<1>2. PICK d \in Datagram : /\ d.seqNo = ackSeq'["client"] /\ d.kind = "ack"
                            /\ Came(Incoming("server"), d, Incoming("server")')
  BY Names, Receives
<1>3. /\ m.seqNo # prev_Recv_Seq["client"] /\ prev_Recv_Seq'["client"] = m.seqNo
      /\ script'["client"] \in NextCalls("client", m)
      /\ Len(accepted'["client"]) = Len(acc) + 1 /\ Len(acc) \in Nat
      /\ accepted'["client"][Len(acc) + 1] = m.id
      /\ \A j \in 1..Len(acc) : accepted'["client"][j] = acc[j]
      /\ deleted => deleted'
      /\ told' = IF use = "verdict" THEN IF m.kind = "#" THEN "missing" ELSE "deleted"
                 ELSE told
  BY <1>m, <1>acc, Names, Accepts
<1>4. /\ ~CaughtUp("client")
      /\ Turned("client") \/ Fresh("client") => CaughtUp("client")'
      /\ \A K : OnlyNew("client", K) => m.kind \in K
  BY <1>1, <1>3, <1>m, Names, IsReturned
<1>5. /\ CaughtUp("server") => CaughtUp("server")'
      /\ Turned("server") => Turned("server")'
      /\ \A K : OnlyNew("server", K) /\ "ack" \in K => OnlyNew("server", K)'
  BY <1>1, <1>2, Names, Comes DEF Came
<1>6. /\ \A id : Was(id) => Was(id)'
      /\ \E j \in 1..Len(accepted'["client"]) : accepted'["client"][j] = m.id
      /\ Idle' = Idle
  <2>1. ASSUME NEW id, Was(id) PROVE Was(id)'
    <3>1. PICK j \in 1..Len(acc) : acc[j] = id BY <1>acc, <2>1 DEF Was
    <3>2. j \in 1..Len(accepted'["client"]) /\ accepted'["client"][j] = id BY <1>3, <3>1
    <3> QED BY <3>2 DEF Was
  <2>2. Len(acc) + 1 \in 1..Len(accepted'["client"]) BY <1>3
  <2> QED BY <1>1, <1>3, <2>1, <2>2 DEF Idle
<1>7. PICK q2 : q2 = Incoming("client")' OBVIOUS
<1>8. \A b \in 1..Len(q2) : \E a \in 1..Len(Incoming("client")) : q2[b] = Incoming("client")[a]
  <2>1. Incoming("client") \in Seq(Datagram) BY Names, IncomingTyped
  <2> QED BY <1>1, <1>7, <2>1, WasThere
<1>9. Over => Over' BY <1>1, <1>6, <1>7, <1>8, OverStays
<1>10. EndIsLast => EndIsLast' BY <1>1, <1>6, <1>7, <1>8, EndStays
<1>11. script["client"] # <<>> /\ Head(script["client"]).op = "recv" BY <1>1 DEF InCall
<1>12. use # "verdict" => Honest' BY <1>3 DEF Honest
<1>13. Incoming("client")[1] = m /\ 1 \in 1..Len(Incoming("client"))
       /\ m.id \in 0..calls["server"] /\ calls["server"] \in Nat
  <2>1. Incoming("client") \in Seq(Made(calls["server"])) BY Names, IncomingTyped
  <2>2. Incoming("client")[1] = m /\ 1 \in 1..Len(Incoming("client")) /\ m \in Made(calls["server"])
    BY <1>1, <1>m, <2>1, TailOf
  <2>3. calls["server"] \in Nat BY Names DEF IInv, TypeOK
  <2> QED BY <2>2, <2>3 DEF Made
<1>14. m.kind = "@" => m.id # 0 /\ ~Was(m.id)
  <2> SUFFICES ASSUME m.kind = "@" PROVE m.id # 0 /\ ~Was(m.id)
    OBVIOUS
  <2>1. m.id # 0 BY <1>13 DEF Marked
  <2>2. ASSUME NEW j \in 1..Len(acc), acc[j] = m.id PROVE FALSE
    <3>1. Read(Incoming("client"), acc, prev_Recv_Seq["client"], calls["server"], ackSeq["server"])
      BY <1>acc, Names DEF IInv, Undelayed, Agree
    <3>2. \A b \in 1..1 : Incoming("client")[b].seqNo = prev_Recv_Seq["client"]
      BY <1>13, <2>1, <2>2, <3>1 DEF Read
    <3> QED BY <1>3, <1>13, <3>2
  <2> QED BY <1>acc, <2>1, <2>2 DEF Was
<1>15. ASSUME NEW x, Sent(x)
       PROVE  /\ CaughtUp("client")' /\ calls["server"] = 0 /\ CaughtUp("server")'
              /\ Idle' /\ Over' /\ OnlyNew("server", {x, "ack"})' /\ Turned("server")'
              /\ m.kind # "@"
  <2>1. /\ calls["server"] = 0 /\ Fresh("client") /\ CaughtUp("server")
        /\ Idle /\ Over /\ OnlyNew("server", {x, "ack"}) /\ Turned("server")
    BY <1>1, <1>4, <1>15 DEF Sent
  <2>2. m.kind # "@" BY <1>13, <1>14, <2>1
  <2> QED BY <1>4, <1>5, <1>6, <1>9, <2>1, <2>2
<1>16. CASE InMenu BY <1>11, <1>16, ScriptsGoOn DEF InMenu, GoesOn
<1>17. CASE ListSent
  <2>1. script["client"] = Reading /\ Sent("LIST") BY <1>1, <1>17 DEF ListSent
  <2>2. use = "entry" BY <2>1, ScriptsGoOn DEF GoesOn
  <2>3. script'["client"] = Reading
    <3>1. m.kind # "@" BY <1>15, <2>1
    <3>2. NextCalls("client", m) = {Reading} BY <2>1, <2>2, <3>1, Returns
    <3> QED BY <1>3, <3>2
  <2>4. ListSent' BY <1>15, <2>1, <2>3 DEF ListSent, Sent
  <2> QED BY <1>12, <2>2, <2>4 DEF Situation
<1>18. CASE plan = <<>> /\ DelSent
  <2>1. script["client"] = Echoed /\ Sent("DEL") BY <1>1, <1>18 DEF DelSent
  <2>2. use = "echo" BY <2>1, ScriptsGoOn DEF GoesOn
  <2>3. script'["client"] = Naming
    <3>1. NextCalls("client", m) = {Tail(Echoed)} BY <2>1, <2>2, Returns
    <3> QED BY <1>3, <3>1, ScriptsGoOn DEF GoesOn
  <2>4. script'["server"] = Ready
    <3>1. ~waiting["server"]
      <4>1. calls["server"] = 0 BY <1>15, <2>1
      <4> QED BY <4>1, <1>1, Names DEF Called
    <3> QED BY <1>1, <1>18, <3>1 DEF DelSent, Sent, Idle
  <2>5. NoCommand'
    <3>1. CaughtUp("server")' BY <1>15, <2>1
    <3>2. Incoming("server")' \in Seq(Datagram) BY DEF IInv, TypeOK, Incoming
    <3> QED BY <3>1, <3>2 DEF CaughtUp, AllOf, NoCommand
  <2>6. Ignored' BY <1>15, <2>1, <2>3, <2>4, <2>5 DEF Ignored
  <2> QED BY <1>1, <1>12, <1>18, <2>2, <2>6 DEF Situation
<1>19. CASE ListServed
  <2>1. script["client"] = Reading /\ CaughtUp("server")' BY <1>1, <1>5, <1>19 DEF ListServed
  <2>2. use = "entry" BY <2>1, ScriptsGoOn DEF GoesOn
  <2>3. CASE m.kind = "@"
    <3>1. script'["client"] = <<>>
      <4>1. NextCalls("client", m) = {Tail(Reading)} BY <2>1, <2>2, <2>3, Returns
      <4> QED BY <1>3, <4>1, ScriptsGoOn DEF GoesOn
    <3>2. m.id = calls["server"] /\ Idle /\ calls["server"] # 0
      BY <1>13, <1>14, <1>19, <2>3 DEF ListServed, EndIsLast
    <3>3. Over'
      <4>1. \A id : Was(id)' <=>
                    \E j \in 1..Len(accepted'["client"]) : accepted'["client"][j] = id
        BY DEF Was
      <4>2. Was(m.id)' BY <1>6, <4>1
      <4>3. ASSUME NEW b \in 1..Len(q2), q2[b].kind = "@" PROVE Was(q2[b].id)'
        <5>1. PICK a \in 1..Len(Incoming("client")) : q2[b] = Incoming("client")[a] BY <1>8
        <5>2. Was(q2[b].id) \/ q2[b].id = m.id
          BY <1>19, <3>2, <4>3, <5>1 DEF ListServed, EndIsLast
        <5> QED BY <1>6, <4>2, <5>2
      <4>4. Over' <=> /\ calls'["server"] = 0 \/ Was(calls["server"])'
                      /\ \A b \in 1..Len(q2) : q2[b].kind = "@" => Was(q2[b].id)'
        BY <1>7 DEF Over, Was
      <4>5. Was(calls["server"])' BY <1>1, <1>6, <3>2 DEF Was
      <4> QED BY <4>3, <4>4, <4>5
    <3>4. CaughtUp("client")'
      <4>1. PICK n : n = prev_Recv_Seq'["client"] OBVIOUS
      <4>2. Read(Incoming("client"), accepted["client"], prev_Recv_Seq["client"],
                 calls["server"], ackSeq["server"])'
        <5>1. "delay" \notin network' BY <1>1
        <5>2. Undelayed("client")' BY <5>1, Names DEF IInv
        <5> QED BY <5>2, Names DEF Undelayed, Agree, Read
      <4>3. Len(acc) + 1 \in 1..Len(accepted'["client"]) BY <1>3
      <4>4. /\ prev_Recv_Seq'["client"] = ackSeq'["server"]
            /\ \A b \in 1..Len(q2) : q2[b].seqNo = ackSeq'["server"]
        BY <1>1, <1>3, <1>7, <3>2, <4>2, <4>3 DEF Read
      <4> QED BY <1>7, <4>4, Names DEF CaughtUp, AllOf
    <3>5. InMenu' BY <1>1, <1>6, <2>1, <3>1, <3>2, <3>3, <3>4 DEF InMenu
    <3> QED BY <1>12, <2>2, <3>5 DEF Situation
  <2>4. CASE m.kind # "@"
    <3>1. script'["client"] = Reading
      <4>1. NextCalls("client", m) = {Reading} BY <2>1, <2>2, <2>4, Returns
      <4> QED BY <1>3, <4>1
    <3>2. Listing(script["server"])' \/ Idle'
      BY <1>1, <1>6, <1>19 DEF ListServed, Listing
    <3>3. ListServed' BY <1>10, <1>19, <2>1, <3>1, <3>2 DEF ListServed
    <3> QED BY <1>12, <2>2, <3>3 DEF Situation
  <2> QED BY <2>3, <2>4
<1>20. CASE plan = <<>> /\ EchoDue
  BY <1>1, <1>4, <1>20 DEF EchoDue, Nothing
<1>21. CASE plan = <<>> /\ EchoSent
  <2>1. script["client"] = Echoed /\ Turned("client")
    BY <1>1, <1>4, <1>21 DEF EchoSent
  <2>2. use = "echo" BY <2>1, ScriptsGoOn DEF GoesOn
  <2>3. script'["client"] = Naming
    <3>1. NextCalls("client", m) = {Tail(Echoed)} BY <2>1, <2>2, Returns
    <3> QED BY <1>3, <3>1, ScriptsGoOn DEF GoesOn
  <2>4. EchoSent' BY <1>1, <1>4, <1>21, <2>1, <2>3 DEF EchoSent
  <2> QED BY <1>1, <1>12, <1>21, <2>2, <2>4 DEF Situation
<1>22. CASE plan = <<>> /\ Ignored BY <1>4, <1>22 DEF Ignored
<1>23. CASE plan = <<>> /\ Decided
  <2>1. script["client"] = Judging BY <1>11, <1>23, ScriptsGoOn DEF Decided, GoesOn
  <2>2. use = "verdict" BY <2>1, ScriptsGoOn DEF GoesOn
  <2>3. script'["client"] = <<>>
    <3>1. NextCalls("client", m) = {Tail(Judging)} BY <2>1, <2>2, Returns
    <3> QED BY <1>3, <3>1, ScriptsGoOn DEF GoesOn
  <2>4. NoVerdict' BY <1>1, <1>23, <2>3 DEF NoVerdict, Unjudged
  <2>5. deleted \/ m.kind \in {"#"} BY <1>4, <1>23 DEF Decided
  <2>6. Honest' BY <1>3, <2>2, <2>5 DEF Honest
  <2> QED BY <2>4, <2>6 DEF Situation
<1>24. CASE NoVerdict
  <2>1. script["client"] \in Seq(Call) BY Names DEF IInv, TypeOK
  <2>2. use # "verdict"
    <3>1. Head(script["client"]) = script["client"][1] /\ 1 \in 1..Len(script["client"])
      BY <1>11, <2>1, TailOf
    <3> QED BY <1>11, <1>24, <3>1 DEF NoVerdict, Unjudged
  <2>3. Unjudged(script'["client"])
    <3>1. m \in Datagram BY <1>1, <1>m, Names, IncomingTyped, TailOf
    <3> QED BY <1>3, <1>11, <1>24, <2>1, <3>1, NextUnjudged DEF NoVerdict
  <2>4. NoVerdict' BY <1>1, <1>24, <2>3 DEF NoVerdict, Unjudged
  <2> QED BY <1>12, <2>2, <2>4 DEF Situation
<1> QED BY <1>16, <1>17, <1>18, <1>19, <1>20, <1>21, <1>22, <1>23, <1>24 DEF Situation

\* The server returns a packet.
LEMMA ServerAccepts ==
  ASSUME IInv, "delay" \notin network, Situation, Honest, Unjudged(script["server"]),
         Accept("server")
  PROVE  Situation' /\ Honest' /\ Unjudged(script'["server"])
<1> DEFINE use == Head(script["server"]).kind
<1>m. PICK m : m = Head(Incoming("server")) OBVIOUS
<1>1. /\ InCall("server", "recv") /\ ~waiting["server"]
      /\ Incoming("server") # <<>> /\ Incoming("server")' = Tail(Incoming("server"))
      /\ UNCHANGED <<plan, network, waiting, ackSeq, calls>>
      /\ script'["client"] = script["client"] /\ prev_Recv_Seq'["client"] = prev_Recv_Seq["client"]
      /\ accepted'["client"] = accepted["client"]
  BY Names, Receives
<1>2. PICK d \in Datagram : /\ d.seqNo = ackSeq'["server"] /\ d.kind = "ack"
                            /\ Came(Incoming("client"), d, Incoming("client")')
  BY Names, Receives
<1>3. /\ m.seqNo # prev_Recv_Seq["server"] /\ prev_Recv_Seq'["server"] = m.seqNo
      /\ script'["server"] \in NextCalls("server", m)
      /\ deleted' = (deleted \/ (use = "delname" /\ Deletes(m)))
      /\ use # "verdict" => told' = told
  BY <1>m, Names, Accepts
<1>4. /\ ~CaughtUp("server")
      /\ Turned("server") \/ Fresh("server") => CaughtUp("server")'
      /\ \A K : OnlyNew("server", K) => m.kind \in K
  BY <1>1, <1>3, <1>m, Names, IsReturned
<1>5. /\ CaughtUp("client") => CaughtUp("client")'
      /\ Incoming("client") = <<>> => Turned("client")' /\ Fresh("client")'
  BY <1>1, <1>2, Names, Comes DEF Came
<1>6. \A id : Was(id)' = Was(id) BY <1>1 DEF Was
<1>7. PICK q2 : q2 = Incoming("client")' OBVIOUS
<1>8. \A b \in 1..Len(q2) : q2[b].kind = "@" => \E a \in 1..Len(Incoming("client")) :
                                                  q2[b] = Incoming("client")[a]
  <2>1. Incoming("client") \in Seq(Datagram) BY Names, IncomingTyped
  <2> QED BY <1>2, <1>7, <2>1, WasThere
<1>9. Over => Over' BY <1>1, <1>6, <1>7, <1>8, OverStays
<1>10. script["server"] # <<>> /\ Head(script["server"]).op = "recv" BY <1>1 DEF InCall
<1>11. script["server"] \in Seq(Call) BY Names DEF IInv, TypeOK
<1>12. use # "verdict"
  <2>1. Head(script["server"]) = script["server"][1] /\ 1 \in 1..Len(script["server"])
    BY <1>10, <1>11, TailOf
  <2> QED BY <1>10, <2>1 DEF Unjudged
<1>13. Honest' BY <1>3, <1>12 DEF Honest
<1>14. m \in Datagram BY <1>1, <1>m, Names, IncomingTyped, TailOf
<1>15. Unjudged(script'["server"]) BY <1>3, <1>10, <1>11, <1>14, NextUnjudged
<1>16. ASSUME script["server"] = Ready PROVE script'["server"] = Serve(m.kind)
  <2>1. use = "command" BY <1>16, ScriptsGoOn DEF GoesOn
  <2>2. NextCalls("server", m) = {Serve(m.kind)} BY <2>1, Returns
  <2> QED BY <1>3, <2>2
<1>17. ASSUME NEW x, Sent(x)
       PROVE  /\ script["server"] = Ready /\ m.kind \in {x, "ack"} /\ CaughtUp("server")'
              /\ Over /\ Over'
              /\ \/ CaughtUp("client")'
                 \/ Nothing /\ waiting["client"] /\ Fresh("client")' /\ Turned("client")'
  <2>1. /\ Idle /\ Over /\ OnlyNew("server", {x, "ack"}) /\ Turned("server")
        /\ CaughtUp("client") \/ (Nothing /\ waiting["client"])
    BY <1>4, <1>17 DEF Sent
  <2>2. script["server"] = Ready BY <1>1, <2>1, ServerReads
  <2> QED BY <1>4, <1>5, <1>9, <2>1, <2>2 DEF Nothing
<1>18. ASSUME NEW x, Sent(x), m.kind = "ack" PROVE Sent(x)'
  <2>1. script'["server"] = Ready
    <3>1. Serve("ack") = Ready BY DEF Serve, Ready
    <3> QED BY <1>16, <1>17, <1>18, <3>1
  <2>2. OnlyNew("server", {x, "ack"})' /\ Turned("server")'
    BY <1>17, <1>18 DEF CaughtUp, AllOf, OnlyNew, OldOr, Turned, OneTurn
  <2> QED BY <1>1, <1>17, <1>18, <2>1, <2>2 DEF Sent, Idle, Nothing
<1>19. CASE InMenu BY <1>1, <1>4, <1>19 DEF InMenu
<1>20. CASE ListSent
  <2>1. Sent("LIST") BY <1>20 DEF ListSent
  <2>2. CASE m.kind = "ack"
    <3>1. ListSent' BY <1>1, <1>18, <1>20, <2>1, <2>2 DEF ListSent
    <3> QED BY <1>13, <1>15, <3>1 DEF Situation
  <2>3. CASE m.kind = "LIST"
    <3>1. PICK t : t = script'["server"] OBVIOUS
    <3>2. t = listFiles \o <<RecvCall("command")>>
      BY <1>16, <1>17, <2>1, <2>3, <3>1 DEF Serve
    <3>3. Listing(t) BY <3>2, ListingStarts
    <3>4. Listing(script["server"])' BY <3>1, <3>3 DEF Listing
    <3>5. EndIsLast'
      <4>1. ASSUME NEW b \in 1..Len(q2), q2[b].kind = "@" PROVE Was(q2[b].id)'
        <5>1. Over BY <1>17, <2>1
        <5> QED BY <1>6, <1>8, <4>1, <5>1 DEF Over
      <4> QED BY <1>7, <4>1 DEF EndIsLast, Was
    <3>6. ListServed' BY <1>1, <1>17, <1>20, <2>1, <3>4, <3>5 DEF ListServed, ListSent
    <3> QED BY <1>13, <1>15, <3>6 DEF Situation
  <2> QED BY <1>17, <2>1, <2>2, <2>3
<1>21. CASE plan = <<>> /\ DelSent
  <2>1. Sent("DEL") BY <1>21 DEF DelSent
  <2>2. CASE m.kind = "ack"
    <3>1. DelSent' BY <1>1, <1>18, <1>21, <2>1, <2>2 DEF DelSent
    <3> QED BY <1>1, <1>13, <1>15, <1>21, <3>1 DEF Situation
  <2>3. CASE m.kind = "DEL"
    <3>1. script'["server"] = Echoing
      BY <1>16, <1>17, <2>1, <2>3 DEF Serve, Echoing
    <3>2. \/ CaughtUp("client")'
          \/ Nothing'
          \/ calls'["server"] = 0 /\ Len(Incoming("client")') = 1 /\ waiting'["client"]
      <4>1. CASE Nothing /\ waiting["client"]
        <5>1. q2 = <<>> \/ q2 = <<d>>
          <6>1. q2 = <<>> \/ q2 = Append(<<>>, d) BY <1>2, <1>7, <4>1 DEF Nothing, Came
          <6>2. Append(<<>>, d) = <<d>> OBVIOUS
          <6> QED BY <6>1, <6>2
        <5>2. Len(<<d>>) = 1 OBVIOUS
        <5> QED BY <1>1, <1>7, <4>1, <5>1, <5>2 DEF Nothing
      <4> QED BY <1>17, <2>1, <4>1
    <3>3. EchoDue' BY <1>1, <1>17, <1>21, <2>1, <3>1, <3>2 DEF EchoDue, DelSent
    <3> QED BY <1>1, <1>13, <1>15, <1>21, <3>3 DEF Situation
  <2> QED BY <1>17, <2>1, <2>2, <2>3
<1>22. CASE ListServed BY <1>4, <1>22 DEF ListServed
<1>23. CASE plan = <<>> /\ EchoDue BY <1>1, <1>23, ServerReads
<1>24. CASE plan = <<>> /\ EchoSent
  <2>1. script["server"] = Finding BY <1>1, <1>24, ServerReads
  <2>2. script["client"] \in {Naming, Judging} /\ CaughtUp("client")
    BY <1>4, <1>24 DEF EchoSent
  <2>3. use = "delname" BY <2>1, ScriptsGoOn DEF GoesOn
  <2>4. script'["server"] = delFiles(m)
    <3>1. NextCalls("server", m) = {delFiles(m)} BY <2>3, Returns
    <3> QED BY <1>3, <3>1
  <2>5. deleted' \/ script'["server"] \in {<<>>, Missing}
    BY <1>3, <2>3, <2>4 DEF delFiles, Missing
  <2>6. OnlyNew("client", {"#"})'
    BY <1>5, <2>2 DEF CaughtUp, AllOf, OnlyNew, OldOr
  <2>7. Decided' BY <1>1, <2>2, <2>5, <2>6 DEF Decided
  <2> QED BY <1>1, <1>13, <1>15, <1>24, <2>7 DEF Situation
<1>25. CASE plan = <<>> /\ Ignored
  <2>1. Incoming("server")[1] = m /\ 1 \in 1..Len(Incoming("server"))
    BY <1>1, <1>m, Names, IncomingTyped, TailOf
  <2>2. m.kind \notin Command
    <3>1. 1 \in 1..1 OBVIOUS
    <3> QED BY <1>3, <1>25, <2>1, <3>1 DEF Ignored, NoCommand
  <2>3. script'["server"] = Ready
    <3>1. Serve(m.kind) = Ready BY <2>2 DEF Serve, Ready, Command
    <3> QED BY <1>16, <1>25, <3>1 DEF Ignored
  <2>4. NoCommand'
    <3>1. PICK t : t = Incoming("server")' OBVIOUS
    <3>2. /\ Len(t) \in Nat /\ t = Tail(Incoming("server"))
          /\ \A b \in 1..Len(t) : t[b] = Incoming("server")[b + 1]
                                  /\ b + 1 \in 1..Len(Incoming("server"))
      BY <1>1, <3>1, Names, IncomingTyped, TailOf
    <3>3. ASSUME NEW b \in 1..Len(t), t[b].kind \in Command PROVE FALSE
      <4>1. 1 \in 1..(b + 1) BY <3>2
      <4>2. Incoming("server")[1].seqNo = prev_Recv_Seq["server"]
        BY <1>25, <3>2, <3>3, <4>1 DEF Ignored, NoCommand
      <4> QED BY <1>3, <2>1, <4>2
    <3> QED BY <3>1, <3>3 DEF NoCommand, Command
  <2>5. Ignored' BY <1>1, <1>5, <1>25, <2>3, <2>4 DEF Ignored
  <2> QED BY <1>1, <1>13, <1>15, <1>25, <2>5 DEF Situation
<1>26. CASE plan = <<>> /\ Decided
  <2>1. deleted' BY <1>1, <1>3, <1>26, ServerReads
  <2>2. Decided' BY <1>1, <1>26, <2>1 DEF Decided
  <2> QED BY <1>1, <1>13, <1>15, <1>26, <2>2 DEF Situation
<1>27. CASE NoVerdict
  BY <1>1, <1>13, <1>15, <1>27 DEF NoVerdict, Situation
<1> QED BY <1>19, <1>20, <1>21, <1>22, <1>23, <1>24, <1>25, <1>26, <1>27 DEF Situation

-------------------------------------------------------------------------------
\* A command is chosen.
LEMMA CommandUnjudged ==
  ASSUME NEW x \in {"PUT", "GET"}
  PROVE  Unjudged(ClientCalls(x))
<1>1. CASE x = "GET"
  BY <1>1 DEF ClientCalls, GetFileFromServer, Unjudged, SendCall, RecvCall
<1>2. CASE x = "PUT"
  <2>1. PICK f : f = IF file.exists THEN SendFile ELSE <<>> OBVIOUS
  <2>2. f \in Seq(Call) /\ Unjudged(f)
    <3>1. Unjudged(<<>>) /\ <<>> \in Seq(Call) BY DEF Unjudged
    <3> QED BY <2>1, <3>1, UnjudgedFile, FileCallsTyped
  <2>3. PICK e : e = <<SendCall("PUT", 0), RecvCall("echo")>> OBVIOUS
  <2>4. e \in Seq(Call) /\ Unjudged(e)
    <3>1. SendCall("PUT", 0) \in Call /\ RecvCall("echo") \in Call
      BY SingleCalls, KindsAndUses
    <3>2. e \in Seq(Call) BY <2>3, <3>1
    <3>3. Unjudged(e) BY <2>3 DEF Unjudged, SendCall, RecvCall
    <3> QED BY <3>2, <3>3
  <2>5. Unjudged(e \o f)
    <3>1. /\ Len(e \o f) = Len(e) + Len(f) /\ Len(e) \in Nat /\ Len(f) \in Nat
          /\ \A i \in 1..Len(e \o f) : (e \o f)[i] = IF i <= Len(e) THEN e[i] ELSE f[i - Len(e)]
      BY <2>2, <2>4
    <3>2. ASSUME NEW i \in 1..Len(e \o f)
          PROVE  (e \o f)[i].op = "send" \/ (e \o f)[i].kind # "verdict"
      <4>1. CASE i <= Len(e)
        <5>1. i \in 1..Len(e) BY <3>1, <4>1
        <5> QED BY <2>4, <3>1, <4>1, <5>1 DEF Unjudged
      <4>2. CASE ~(i <= Len(e))
        <5>1. i - Len(e) \in 1..Len(f) BY <3>1, <4>2
        <5> QED BY <2>2, <3>1, <4>2, <5>1 DEF Unjudged
      <4> QED BY <4>1, <4>2
    <3> QED BY <3>2 DEF Unjudged
  <2>6. ClientCalls(x) = e \o f BY <1>2, <2>1, <2>3 DEF ClientCalls, PutFileToServer
  <2> QED BY <2>5, <2>6
<1> QED BY <1>1, <1>2

LEMMA Chooses ==
  ASSUME IInv, PlanLeft, "delay" \notin network, Situation, Choose
  PROVE  Situation'
<1>1. /\ script["client"] = <<>> /\ plan # <<>> /\ plan' = Tail(plan)
      /\ script' = [script EXCEPT !["client"] = ClientCalls(Head(plan))]
      /\ toServer' = toServer /\ toClient' = toClient
      /\ UNCHANGED <<waiting, prev_Recv_Seq, ackSeq, calls, accepted>>
  BY DEF Choose, links
<1>2. plan \in Seq(Command) /\ script \in [Peer -> Seq(Call)] BY DEF IInv, TypeOK
<1>3. script'["client"] = ClientCalls(Head(plan)) /\ script'["server"] = script["server"]
  BY <1>1, <1>2, Names
<1>4. Incoming("client")' = Incoming("client") /\ Incoming("server")' = Incoming("server")
  BY <1>1 DEF Incoming
<1>5. /\ Head(plan) \in Command
      /\ Head(plan) = "LIST" \/ plan' = <<>>
  <2>1. /\ plan' \in Seq(Command) /\ Len(plan) \in Nat /\ Len(plan) > 0
        /\ Len(plan') = Len(plan) - 1 /\ Head(plan) = plan[1] /\ Head(plan) \in Command
    BY <1>1, <1>2, TailOf
  <2>2. CASE Len(plan) = 1
    <3>1. Len(plan') = 0 BY <2>1, <2>2
    <3> QED BY <2>1, <3>1, EmptySeq
  <2>3. CASE Len(plan) > 1
    <3>1. 1 \in 1..(Len(plan) - 1) BY <2>1, <2>3
    <3> QED BY <2>1, <3>1 DEF PlanLeft
  <2> QED BY <2>1, <2>2, <2>3
<1>6. InMenu
  <2>1. \A s \in {listServerFiles, Reading, Asking, Echoed, Naming, Judging} : s # <<>>
    BY ScriptsGoOn DEF GoesOn
  <2> QED BY <1>1, <2>1 DEF Situation, ListSent, ListServed, DelSent, EchoDue, EchoSent, Ignored,
                            Decided, NoVerdict
<1>7. /\ ~waiting'["client"] /\ Idle'
      /\ \/ CaughtUp("client")' /\ CaughtUp("server")'
         \/ Nothing' /\ Incoming("server")' = <<>>
  <2>1. CaughtUp("client")' = CaughtUp("client") /\ CaughtUp("server")' = CaughtUp("server")
    BY <1>1, <1>4, Names, Stays
  <2> QED BY <1>1, <1>3, <1>4, <1>6, <2>1 DEF InMenu, Idle, Nothing
<1>8. Over'
  <2>1. \A id : Was(id)' = Was(id) BY <1>1 DEF Was
  <2> QED BY <1>1, <1>4, <1>6, <2>1 DEF InMenu, Over
<1>9. CASE Head(plan) = "LIST"
  BY <1>3, <1>7, <1>8, <1>9 DEF Situation, InMenu, ClientCalls
<1>10. CASE plan' = <<>> /\ Head(plan) = "DEL"
  BY <1>3, <1>7, <1>8, <1>10 DEF Situation, InMenu, ClientCalls, Asking
<1>11. CASE plan' = <<>> /\ Head(plan) \in {"PUT", "GET"}
  <2>1. Unjudged(script'["client"]) BY <1>3, <1>11, CommandUnjudged
  <2> QED BY <1>11, <2>1 DEF Situation, NoVerdict
<1> QED BY <1>5, <1>9, <1>10, <1>11 DEF Command

-------------------------------------------------------------------------------
\* What holds whatever is delayed, and of the end of a listing.
LEMMA StaysCalled ==
  ASSUME IInv, Called, Next
  PROVE  Called'
<1>1. /\ waiting \in [Peer -> BOOLEAN] /\ calls \in [Peer -> Nat]
  BY DEF IInv, TypeOK, Shapes
<1>2. CASE UNCHANGED <<waiting, calls>> BY <1>2 DEF Called
<1>3. ASSUME NEW p \in Peer, udpsend(p) PROVE Called'
  <2>1. /\ waiting' = [waiting EXCEPT ![p] = TRUE]
        /\ calls' = [calls EXCEPT ![p] = calls[p] + 1]
    BY <1>3 DEF udpsend
  <2> SUFFICES ASSUME NEW o \in Peer, waiting'[o] PROVE calls'[o] > 0
    BY DEF Called
  <2>2. CASE o = p BY <1>1, <2>1, <2>2
  <2>3. CASE o # p BY <1>1, <2>1, <2>3 DEF Called
  <2> QED BY <2>2, <2>3
<1>4. ASSUME NEW p \in Peer, RecvAck(p) PROVE Called'
  <2>1. waiting' = [waiting EXCEPT ![p] = FALSE] /\ calls' = calls BY <1>4 DEF RecvAck
  <2>2. \A o \in Peer : waiting'[o] => waiting[o] BY <1>1, <2>1
  <2> QED BY <2>1, <2>2 DEF Called
<1>5. \/ UNCHANGED <<waiting, calls>>
      \/ \E p \in Peer : udpsend(p) \/ RecvAck(p)
  BY DEF Next, Choose, Step, Resend, Accept, Drop, Release, seqs
<1> QED BY <1>2, <1>3, <1>4, <1>5

LEMMA StaysUnjudged ==
  ASSUME IInv, Unjudged(script["server"]), Next
  PROVE  Unjudged(script'["server"])
<1>1. script \in [Peer -> Seq(Call)] BY DEF IInv, TypeOK
<1>2. CASE script'["server"] = script["server"] BY <1>2
<1>3. CASE RecvAck("server")
  <2>1. script'["server"] = Tail(script["server"]) /\ InCall("server", "send")
    BY <1>3, Names, TakesAck
  <2>2. script["server"] \in Seq(Call) /\ script["server"] # <<>>
    BY <1>1, <2>1, Names DEF InCall
  <2> QED BY <2>1, <2>2, UnjudgedTail
<1>4. CASE Accept("server")
  <2>1. PICK m : m = Head(Incoming("server")) OBVIOUS
  <2>2. script'["server"] \in NextCalls("server", m) BY <1>4, <2>1, Names, Accepts
  <2>3. script["server"] \in Seq(Call) /\ script["server"] # <<>> /\ Incoming("server") # <<>>
    BY <1>1, <1>4, Names DEF Accept, InCall
  <2>4. m \in Datagram BY <2>1, <2>3, Names, IncomingTyped, TailOf
  <2> QED BY <2>2, <2>3, <2>4, NextUnjudged
<1>5. \/ script'["server"] = script["server"]
      \/ RecvAck("server") \/ Accept("server")
  <2>1. CASE Choose \/ RecvAck("client") \/ Accept("client")
    <3>1. \E t : script' = [script EXCEPT !["client"] = t]
      BY <2>1 DEF Choose, RecvAck, Accept
    <3> QED BY <1>1, <3>1, Names
  <2>2. CASE Release BY <2>2 DEF Release
  <2>3. ASSUME NEW p \in Peer, udpsend(p) \/ Resend(p) \/ Drop(p)
        PROVE  script' = script
    BY <2>3 DEF udpsend, Resend, Drop
  <2> QED BY <2>1, <2>2, <2>3 DEF Next, Step, Peer
<1> QED BY <1>2, <1>3, <1>4, <1>5

LEMMA StaysMarked ==
  ASSUME IInv, Called, "delay" \notin network, Marked, NEW p \in Peer, Step(p)
  PROVE  Marked'
<1>1. Incoming("client") \in Seq(Datagram) BY Names, IncomingTyped
<1>2. PICK q2 : q2 = Incoming("client")' OBVIOUS
<1>3. CASE Incoming("client")' = Incoming("client") BY <1>3 DEF Marked
<1>4. CASE Incoming("client") # <<>> /\ Incoming("client")' = Tail(Incoming("client"))
  <2>1. \A b \in 1..Len(q2) : \E a \in 1..Len(Incoming("client")) : q2[b] = Incoming("client")[a]
    BY <1>1, <1>2, <1>4, WasThere
  <2>2. \A b \in 1..Len(q2) : q2[b].id = 0 => q2[b].kind # "@" BY <2>1 DEF Marked
  <2> QED BY <1>2, <2>2 DEF Marked
<1>5. ASSUME NEW d \in Datagram, d.id > 0 \/ d.kind = "ack",
             Came(Incoming("client"), d, Incoming("client")')
      PROVE  Marked'
  <2>1. \A b \in 1..Len(q2) : q2[b] = d \/ \E a \in 1..Len(Incoming("client")) :
                                             q2[b] = Incoming("client")[a]
    BY <1>1, <1>2, <1>5, WasThere
  <2>2. d.id = 0 => d.kind # "@" BY <1>5
  <2>3. \A b \in 1..Len(q2) : q2[b].id = 0 => q2[b].kind # "@" BY <2>1, <2>2 DEF Marked
  <2> QED BY <1>2, <2>3 DEF Marked
<1>6. CASE udpsend("server") \/ Resend("server")
  <2>1. /\ calls'["server"] > 0
        /\ \E d \in Datagram : /\ d.id = calls'["server"]
                               /\ Came(Incoming("client"), d, Incoming("client")')
    BY <1>6, Names, Sends
  <2>2. PICK d \in Datagram : d.id = calls'["server"]
                              /\ Came(Incoming("client"), d, Incoming("client")')
    BY <2>1
  <2> QED BY <1>5, <2>1, <2>2
<1>7. CASE RecvAck("server") BY <1>3, <1>7, Names, TakesAck
<1>8. CASE Accept("server") \/ Drop("server")
  <2>1. PICK d \in Datagram : d.kind = "ack" /\ Came(Incoming("client"), d, Incoming("client")')
    BY <1>8, Names, Receives
  <2> QED BY <1>5, <2>1
<1>9. CASE udpsend("client") \/ Resend("client")
  <2>1. Incoming("client")' = Incoming("client") BY <1>9, Names, Sends
  <2> QED BY <1>3, <2>1
<1>10. CASE RecvAck("client")
  <2>1. Incoming("client") # <<>> /\ Incoming("client")' = Tail(Incoming("client"))
    BY <1>10, Names, TakesAck
  <2> QED BY <1>4, <2>1
<1>11. CASE Accept("client") \/ Drop("client")
  <2>1. Incoming("client") # <<>> /\ Incoming("client")' = Tail(Incoming("client"))
    BY <1>11, Names, Receives
  <2> QED BY <1>4, <2>1
<1> QED BY <1>6, <1>7, <1>8, <1>9, <1>10, <1>11 DEF Step, Peer

LEMMA InitToldInv ==
  ASSUME OneTransfer, Init
  PROVE  ToldInv
<1>1. IInv /\ PlanLeft BY InitStepInv DEF StepInv
<1>2. /\ script["client"] = <<>> /\ script["server"] = Ready
      /\ \A p \in Peer : ~waiting[p] /\ calls[p] = 0
      /\ toClient = <<>> /\ toServer = <<>> /\ told = "nothing"
  BY Names DEF Init, Up!LinkInit, Down!LinkInit, Ready
<1>3. Incoming("client") = <<>> /\ Incoming("server") = <<>> /\ Len(<<>>) = 0
  BY <1>2 DEF Incoming
<1>4. Called BY <1>2 DEF Called
<1>5. Unjudged(script["server"]) BY <1>2 DEF Unjudged, Ready, RecvCall
<1>6. Honest /\ Marked BY <1>2, <1>3 DEF Honest, Marked
<1>7. InMenu BY <1>2, <1>3, Names DEF InMenu, Idle, Over, Nothing
<1> QED BY <1>1, <1>4, <1>5, <1>6, <1>7 DEF ToldInv, Situation

(* Whatever is lost and however early timeouts come, the two scripts are in*)
(* one of these situations, as long as nothing is delayed.                 *)
THEOREM StopWaitSituations == OneTransfer => (Spec => []ToldInv)
<1> SUFFICES ASSUME OneTransfer PROVE Spec => []ToldInv
  OBVIOUS
<1>1. Init => ToldInv BY InitToldInv
<1>2. ToldInv /\ [Next]_vars => ToldInv'
  <2> SUFFICES ASSUME ToldInv, [Next]_vars PROVE ToldInv'
    OBVIOUS
  <2>1. /\ IInv /\ PlanLeft /\ Called /\ Unjudged(script["server"])
        /\ "delay" \notin network => Situation /\ Honest /\ Marked
    BY DEF ToldInv
  <2>2. CASE UNCHANGED vars
    <3>1. IInv'
      BY <2>1, <2>2 DEF vars, seqs, files, links, IInv, TypeOK, Shapes, LinksMade,
                        WaitsWithItsNumber, Undelayed, Incoming, Held, InCall
    <3>2. /\ UNCHANGED <<plan, network, script, waiting, prev_Recv_Seq, ackSeq, deleted, told,
                         calls, accepted>>
          /\ toClient' = toClient /\ toServer' = toServer
      BY <2>2 DEF vars, seqs, files, links
    <3>3. PlanLeft' /\ Called' /\ Unjudged(script'["server"])
      BY <2>1, <3>2 DEF PlanLeft, Called
    <3>4. Incoming("client")' = Incoming("client") /\ Incoming("server")' = Incoming("server")
      BY <3>2 DEF Incoming
    <3>5. /\ CaughtUp("client")' = CaughtUp("client") /\ CaughtUp("server")' = CaughtUp("server")
          /\ Turned("client")' = Turned("client") /\ Turned("server")' = Turned("server")
          /\ Fresh("client")' = Fresh("client") /\ Fresh("server")' = Fresh("server")
          /\ Settled("client")' = Settled("client")
          /\ \A K : OnlyNew("client", K)' = OnlyNew("client", K)
          /\ \A K : OnlyNew("server", K)' = OnlyNew("server", K)
      BY <3>2, <3>4, Names, Stays
    <3>6. /\ Idle' = Idle /\ Over' = Over /\ Nothing' = Nothing
          /\ EndIsLast' = EndIsLast /\ NoCommand' = NoCommand
      BY <3>2, <3>4 DEF Idle, Over, Nothing, EndIsLast, NoCommand, Was
    <3>7. \A x : Sent(x)' = Sent(x) BY <3>2, <3>5, <3>6 DEF Sent
    <3>8. /\ InMenu' = InMenu /\ ListSent' = ListSent /\ DelSent' = DelSent
          /\ ListServed' = ListServed /\ EchoDue' = EchoDue /\ EchoSent' = EchoSent
          /\ Ignored' = Ignored /\ Decided' = Decided /\ NoVerdict' = NoVerdict
      <4>1. InMenu' = InMenu BY <3>2, <3>4, <3>5, <3>6 DEF InMenu
      <4>2. ListSent' = ListSent /\ DelSent' = DelSent BY <3>2, <3>7 DEF ListSent, DelSent
      <4>3. ListServed' = ListServed BY <3>2, <3>5, <3>6 DEF ListServed
      <4>4. EchoDue' = EchoDue BY <3>2, <3>4, <3>5, <3>6 DEF EchoDue
      <4>5. EchoSent' = EchoSent BY <3>2, <3>5 DEF EchoSent
      <4>6. Ignored' = Ignored BY <3>2, <3>5, <3>6 DEF Ignored
      <4>7. Decided' = Decided BY <3>2, <3>5 DEF Decided
      <4>8. NoVerdict' = NoVerdict BY <3>2 DEF NoVerdict
      <4> QED BY <4>1, <4>2, <4>3, <4>4, <4>5, <4>6, <4>7, <4>8
    <3>9. Situation' = Situation BY <3>2, <3>8 DEF Situation
    <3>10. Honest' = Honest /\ Marked' = Marked BY <3>2, <3>4 DEF Honest, Marked
    <3> QED BY <2>1, <3>1, <3>2, <3>3, <3>9, <3>10 DEF ToldInv
  <2>3. ASSUME Next PROVE ToldInv'
    <3>1. IInv'
      <4>1. CASE Choose BY <2>1, <4>1, ChooseIInv
      <4>2. ASSUME NEW p \in Peer, Step(p) PROVE IInv'
        BY <2>1, <4>2, udpsendIInv, ResendIInv, RecvAckIInv, AcceptIInv, DropIInv DEF Step
      <4>3. CASE Release BY <2>1, <4>3, ReleaseIInv
      <4> QED BY <2>3, <4>1, <4>2, <4>3 DEF Next
    <3>2. Called' BY <2>1, <2>3, StaysCalled
    <3>3. Unjudged(script'["server"]) BY <2>1, <2>3, StaysUnjudged
    <3>4. network' = network /\ (Choose \/ plan' = plan)
      BY <2>3 DEF Next, Step, Choose, udpsend, Resend, RecvAck, Accept, Drop, Release
    <3>5. PlanLeft'
      <4>1. CASE Choose BY <2>1, <4>1, ChooseInStep
      <4>2. CASE plan' = plan BY <2>1, <4>2 DEF PlanLeft
      <4> QED BY <3>4, <4>1, <4>2
    <3>6. ASSUME "delay" \notin network PROVE Situation' /\ Honest' /\ Marked'
      <4>1. Situation /\ Honest /\ Marked BY <2>1, <3>6
      <4>2. ASSUME NEW p \in Peer, Step(p) PROVE Situation' /\ Honest' /\ Marked'
        <5>1. Marked' BY <2>1, <3>6, <4>1, <4>2, StaysMarked
        <5>2. CASE udpsend(p) \/ Resend(p)
          <6>1. UNCHANGED <<deleted, told>> BY <5>2 DEF udpsend, Resend, files
          <6>2. Honest' BY <4>1, <6>1 DEF Honest
          <6>3. Situation'
            BY <2>1, <3>6, <4>1, <5>2, ClientSends, ServerSends DEF Peer
          <6> QED BY <5>1, <6>2, <6>3
        <5>3. CASE RecvAck(p)
          <6>1. UNCHANGED <<deleted, told>> BY <5>3 DEF RecvAck, files
          <6>2. Honest' BY <4>1, <6>1 DEF Honest
          <6>3. Situation'
            BY <2>1, <3>6, <4>1, <5>3, ClientTakesAck, ServerTakesAck DEF Peer
          <6> QED BY <5>1, <6>2, <6>3
        <5>4. CASE Drop(p)
          <6>1. UNCHANGED <<deleted, told>> BY <5>4 DEF Drop, files
          <6>2. Honest' BY <4>1, <6>1 DEF Honest
          <6>3. Situation' BY <2>1, <3>6, <4>1, <5>4, ClientDrops, ServerDrops DEF Peer
          <6> QED BY <5>1, <6>2, <6>3
        <5>5. CASE Accept(p)
          <6>1. CASE p = "client"
            BY <2>1, <3>1, <3>6, <4>1, <5>1, <5>5, <6>1, ClientAccepts
          <6>2. CASE p = "server"
            BY <2>1, <3>6, <4>1, <5>1, <5>5, <6>2, ServerAccepts
          <6> QED BY <6>1, <6>2 DEF Peer
        <5> QED BY <4>2, <5>2, <5>3, <5>4, <5>5 DEF Step
      <4>3. CASE Choose
        <5>1. /\ UNCHANGED <<deleted, told>> /\ toClient' = toClient
          BY <4>3 DEF Choose, files, links
        <5>2. Honest' /\ Marked' BY <4>1, <5>1 DEF Honest, Marked, Incoming
        <5> QED BY <2>1, <3>6, <4>1, <4>3, <5>2, Chooses
      <4>4. ~Release
        <5>1. ASSUME Release PROVE FALSE
          <6>1. \E p \in Peer : Held(p) # NoPacket
            BY <5>1 DEF Release, Up!Release, Down!Release, Peer, Held
          <6> QED BY <2>1, <3>6, <6>1 DEF IInv, Undelayed
        <5> QED BY <5>1
      <4> QED BY <2>3, <4>2, <4>3, <4>4 DEF Next
    <3> QED BY <3>1, <3>2, <3>3, <3>4, <3>5, <3>6 DEF ToldInv
  <2> QED BY <2>2, <2>3
<1> QED BY <1>1, <1>2, PTL DEF Spec

(* client.cpp:448-451, for any files, socket buffers and initial numbers,  *)
(* and any plan that the server can serve to the end: whatever is lost and *)
(* however early timeouts come, the client says that the file is gone only *)
(* if the server has deleted it.                                           *)
THEOREM StopWaitToldDeleted == OneTransfer => (Spec => []ToldDeletedIsDeleted)
<1>1. ToldInv => ToldDeletedIsDeleted BY DEF ToldInv, Honest, ToldDeletedIsDeleted
<1>2. OneTransfer => (Spec => []ToldInv) BY StopWaitSituations
<1> QED BY <1>1, <1>2, PTL
===============================================================================
