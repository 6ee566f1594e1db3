# File-Transfer-Program: a TLA+ development

The repository holds three builds of a course project that copies files
between a client and a server on Windows sockets, and a program that pretends
to be a bad network between them.  This directory models them in TLA+, checks
the models with TLC on small instances and proves some of what the checks
found with TLAPS.

## The system

| part | source | state | operations |
|---|---|---|---|
| Router | `build3/sample-3/Router/Router.cpp`; the same file is in build 2 and Assign3_zcl | two sockets, one delayed packet (`FileBuf`), `wait_count` | one endless loop `Run`: select, receive, drop / delay / forward, release the delayed packet |
| window transfer | `build3/sample-3/common/socklib.cpp` | sender: `winBuf`, `winBufPos`, `seq`, retry count; receiver: `lastSeq` | `send_file`, `recv_file` and what they call |
| session of sample-3 | `build3/sample-3/Client/client.cpp`, `Server/server.cpp` | `hsData`, `seq`, `lastSeq` from request to request | handshake, request, response, GET, PUT |
| build 2 | `build 2/assign2/FTP_UDP/client/client.cpp`, `Server/server.cpp` | `Send_Seq`, `next_Rec_Seq`, `prev_Recv_Seq` | stop-and-wait `udpsend`, `udprecv`; LIST, GET, PUT, DEL |
| build 1 | `build 1/Assign/Server/Server.cpp`, `Client/TcpClient.cpp` | the globals `s1`, `szbuffer`; one thread per connection | accept loop, connection thread; LIST, GET, PUT, DEL over TCP |
| Assign3 | `build3/Assign3_zcl/Server/Server.cpp`, `Client/Cllient.cpp` | `Send_temp_Seq`, `rec_temp_seq` | `udpsend` / `udprecv` of pairs of packets, `udplastsend` / `udplastrecv` |
| loggers, unused thread wrapper, stale copy of the server, project files | `syslogger.cpp`, `Thread.cpp`, `build 1/Assign/Client/Server.cpp` | none that the program reads | |

The client and the server of a build never share memory: they exchange
datagrams (build 1: a TCP stream), and in the UDP builds every datagram goes
through the router, a third process.  Each process is one thread, except the
build 1 server, which starts a thread per connection and hands it the
connection through a global.

What is hard here:

* **order and loss**: the router drops packets, and holds one back until a
  later one of the same direction passes;
* **timeouts that race answers**: the timeout of the peers is the router's
  cycle (300 ms), so a resend and a late answer cross all the time;
* **few sequence numbers**: five bits in sample-3, one bit in build 2;
* **state kept too long**: stale slots in `winBuf`, sequence state that
  outlives a command, a counter of idle cycles;
* **a user at a prompt**: the other side's timers run on while he types, and its
  resends pile up in the socket he does not read;
* **shared globals** between the accept loop and the threads of build 1, and the
  C runtime's `FILE`s between the threads;
* **full buffers**: the window, the router's one slot, a socket buffer.

What makes each part correct:

* Router: nothing is duplicated, a packet is overtaken by at most one other,
  what is delayed is released.
* Window transfer: the receiver's file is the sender's file; nothing leaves
  the window before it was received; `send_file` ends and says how it ended.
* Session: both sides agree on the next number at the start of every message.
* Build 2: a send that returned was received, once; both sides run the same
  script.
* Build 1: a thread serves the connection it was started for.
* Assign3: both packets of a pair were received before the next pair; the file
  is written in order.

`PROJECT.json` lists the hazards with their lines and the properties that
catch them.

## Modules

| module | models |
|---|---|
| `RouterLink` | what one direction of the router promises: forward, lose, or hold back one packet that the next forwarded one takes along |
| `Router` | `Router::Run`, one action per branch of an iteration |
| `RouterProofs` | theorems about `Router` |
| `SockTransfer` | `send_file` against `recv_file` and `srv_wait4cnn` over two `RouterLink`s |
| `SockTransferProofs` | theorems about `SockTransfer`: types and window |
| `SockDeliveryProofs` | theorems about `SockTransfer`: what is delivered, for which numbers of sequence numbers |
| `StopWait` | build 2: `udpsend` and `udprecv` of both peers over two `RouterLink`s, driven by LIST, GET, PUT and DEL |
| `StopWaitProofs` | theorems about `StopWait`: types and duplicates |
| `StopWaitTalkProofs` | theorems about `StopWait`: how the two scripts go along with each other |
| `SockSession` | the sessions of sample-3: handshake, requests and responses, with what is left of the numbers from one to the next |
| `SockSessionProofs` | theorems about `SockSession` |
| `PairWindow` | Assign3: single messages and pairs of packets of both peers, driven by LIST, GET, PUT and DEL |
| `PairWindowProofs` | theorems about `PairWindow` |
| `TcpServer` | build 1: the accept loop, the threads, and the clients' commands |
| `TcpServerProofs` | theorems about `TcpServer` |
| `MC*` | the instances TLC checks |

### Router and RouterLink

A peer numbers its packets 1, 2, ...  `PeerSend` puts the next one into the
router's socket, which drops it when full.  `Run` reads socket 1 before socket
2 (`Readable`), as the two `FD_ISSET` tests do, and the two lotteries
(`IsDamage`, `IsDelayed`) are choices.  Each branch of the loop is an action:
`Delay`, `Damage`, `ForwardPacket` (with `SendProc` for the delayed packet of
the same destination), `RecvError`, `IdleCycle`.  `SendProc` empties the slot
also when its `sendto` fails.  `wait_count` counts at the head of a busy cycle
when the slot is full (`BusyCount`), so it may only be reset by a branch that
empties the slot.

`RouterLink` has `Put` (a packet enters: forwarded, lost or held), `Release`
(the held packet leaves by itself) and `Take` (the destination reads).  The
queue stands for the destination's socket buffer; `Cap` is its size.  The run
`router` checks that each direction of `Router` implements `RouterLink`
(`ImplementsLink1`, `ImplementsLink2`, with `HeldFor` as the refinement mapping
of the slot), and `RouterProofs` proves it.  That is why the transfer is
modelled over two links instead of two sockets and a router.

### SockTransfer

The state is the code's: `winBuf` with its stale slots, `winBufPos`, the locals
of `send_all_win_packets` and `udp_sendtoEx` while they run, `lastSeq`
(`expected` is `lastSeq + 1`).  Packets carry an unbounded `id`; everything the
code compares is `Seq5(id) = id % M`, so that two packets with the same number
can be told apart by a property, never by the code.  `spc` says where the
sender is: `read` (reading chunks), `burst` (sending the slots), `top` (sending
the last slot), `recv` (waiting for an answer), `sack` (the special request
after the last retry), `done`.  A call of `send_all_win_packets` from
`copy_2_winbuf` and one from `send_file`'s second loop differ in what is done
with the value returned: `SendAllReturns`.

`RemoveNotFound` is the part of `remove_packets_from_win` after its loop.  It
compares the slot behind the window in use.  That slot may be stale (then the
comparison is determined by `winBuf`), never written, or past the end of the
array; in the latter two cases the outcome is a choice (`WildMatch = FALSE`
leaves the choice out, to show that a violation does not need it).

The receiver's actions are the outcomes of one packet in `chk_seqEx` and the
rounds of `srv_wait4cnn`.  An answer goes into the other link.  Every receive
of the sender may time out whatever the link holds, because a packet in the
link may still be in the router.

### StopWait

Both peers of build 2 have the same `udpsend` and `udprecv`; what differs is
the order in which they call them.  That order is the state `script`: the calls
a side still has to make, its head being the call it is in, as if the stack of
the code's functions were written out.  `Choose` (the menu) sets the client's,
the command received sets the server's (`Serve`), and `NextCalls` says what a
received packet changes of them: the length of a file, whether the file
exists, the end of a listing.  The client's script is empty in the menu.  The
server's is empty after GET, PUT and DEL, which close the only socket it has;
so a plan of commands has such a command last.

`Send_Seq`, `prev_Recv_Seq` and `ackSeq` (`sendmsg.seqNo`, which an ACK repeats)
are the code's; the last two start with any value where the code leaves them
uninitialised (`Uninit`), one that equals the first number and one that equals no
number included.  `RecvAck` ends `udpsend` at any datagram, as the code does;
`Accept` and `Drop` are the branches of `udprecv`.  The `id` of a packet is the
number of the `udpsend` call it comes from: the properties see it, the code does
not.

The protocol is not correct over every network, so `network` says which faults a
behaviour has, and each property names the networks it is stated for:

| `network` | faults | holds |
|---|---|---|
| `{}` | packets are lost, ACKs are not; a timer runs out only when the other side sends nothing meanwhile (`Quiet`) | everything, `CommandsComplete` included |
| `{"ackLost"}` | and ACKs are lost | no packet is taken twice, nothing is said to be deleted that is not; not that a packet was received when its `udpsend` returns |
| `{"ackLost", "early"}` | and a timer may run out at any time | no packet is taken twice, nothing is said to be deleted that is not |
| `{"delay"}` | packets are lost and held back by the router | types only: `RecvAck` takes any datagram for its ACK, so `udpsend` may return although its packet is still in the router |

`Quiet` says when a timer runs out without being early: the other side waits
itself, or its user types (`AtPrompt`: in the menu, and before the `udpsend` of a
file name).  At a prompt the client reads nothing, and the server, if the ACK of its
echo was lost, resends the echo every 300 ms until the socket is full.  The client
then takes these copies, one by one, for the ACKs of what it sends: the name, the
file's length, chunks.  A chunk that was lost is then not resent, and the next one but
one has the number the receiver waits for.  Two chunks may
thus come in part or not at all; with more of them the file has holes (of six the third
and the sixth may be all that arrives).  So no property says that a file is whole where ACKs are lost.  The model
has these behaviours; `server.cpp:297` calls what ends a `udpsend` an ACK, and
over this network it need not be one.

A resend that the router drops changes no state.  Weak fairness of `Step(p)`
therefore also says that the router does not drop the same packet for ever.

Three states are excepted from the properties because the code fails there in a
way that the model has and the README states: a file whose size is a multiple of
`BUFFER_LENGTH` is sent with a chunk more than is received (`file.extra`), a file
that cannot be deleted gets no answer (`file.deletable`), and a new packet may be
taken for a duplicate (`newDropped`: `PUT` sets `Send_Seq` to 0 whatever the
message before had).  The last is excepted from `CommandsComplete` only if it is
a command that was dropped (`CommandDropped`); one dropped within a command is a
violation.  The command waits for ever then, so what follows it is not covered.

Left out: the bytes of a chunk, failing socket calls, statistics
(`next_Rec_Seq` is used for nothing else) and the three-way handshake, which is
never called.  One loss of bytes is left out with them: the last packet of a file is
sent with its data's length as that of the whole struct, its number included
(`server.cpp:257`), so a whole file lacks its last bytes.

### SockSession

The calls `start` makes in the client and `client_handler` in the server are
scripts, as in `StopWait`: handshake, header, request and file one way, response
and file the other.  What `SockTransfer` leaves to one transfer is here carried
from one to the next: `seq`, `lastSeq`, the window with its stale slots, `arrACK`
and `waitForACK`.  A request typed gets a new `SockClient` (`Type`), whose numbers
are those of `udp_init`; `quit` starts another process, with another number.

| action | code |
|---|---|
| `HandshakeTimeout`, `ClientHandshake`, `ServerHandshake`, `RecvHello` | the two `handshake`s; a late one is answered in `sock_recvfrom` |
| `Send`, `Timeout`, `RecvAck`, `RecvNack`, `RecvUnknown` | `sock_sendtoEx` and `send_file` with `send_all_win_packets`: the branches of an answer, and of a datagram of the other side's own (`AnswerUnknown`) |
| `RecvAnswer`, `Refuse`, `Accept` | `sock_recvfrom` and `recv_file`, by what `chk_seqEx` says |
| `LingerRecv`, `LingerTimeout` | a round of `srv_wait4cnn` |

`start`, having returned 0, is called again for the same request; `MaxAsked`
bounds that, and the call `end` stands for what follows.  `waited` makes the equal
timeouts of two sides that wait for each other take turns.

The session is not correct over every network.  `Ordinary` names what the
properties promise: one PUT, or one GET of which no ACK is lost or late, and a
file whose length is no multiple of `BUFFER_LENGTH`.  Beyond it the model shows
these failures, which the properties therefore leave out:

* a GET never ends when the ACK of its last packet is lost or late: the server
  goes on sending while the client's next request arrives, and each refuses the
  other's packets (`socklib.cpp:671`);
* the extra chunk of a file whose length is a multiple of `BUFFER_LENGTH` is
  acknowledged by `srv_wait4cnn`, which does not advance `lastSeq`; the next GET
  never ends (`socklib.cpp:965`);
* the first datagram a new `SockClient` receives sets its `lastSeq`, and it may be
  a late ACK or NACK (`socklib.cpp:829`);
* a second `SockClient` does not shake hands and starts from 0, so the server
  refuses its packets for ever (`client.cpp:110`), and a restarted client never
  gets through the handshake, because the server shakes hands once
  (`server.cpp:53-61`).

The third and the fourth are explored for numbers that differ: a new client's numbers
never happen to be the ones the server waits for, nor another client's number of the
handshake (`Starts`, and `M` = 8 for two requests).  `Cap` bounds how many datagrams
stand in a socket.

`NothingAcceptedTwice` and `HandshakeIsOwn` hold in all of that.  So does
`FileIsOfOneRequest`, unless the slot behind the window, never written, happens to
hold the number a NACK is compared with (`wild`, the defect of `sock_removed`).

### PairWindow

Assign3 sends messages and the last chunk of a file by `udplastsend` (one bit of
sequence number, any datagram ends its wait, at most `Resends` + 1 timeouts) and
the other chunks by `udpsend`, two packets of half a chunk with their own numbers.
`stage` says which `select` a send is in, `outbox` what it has yet to give to
`sendto`:

| stage | code |
|---|---|
| `resending` | the first loop: wait for an answer, resend after a timeout |
| `secondAck` | `udpsend`: one answer is read, the other awaited |
| `settling`, `settlingAck` | the second loop, which throws away one more datagram or times out; in `udpsend`, two |

`Accept` and `Drop` are the branches of `udplastrecv`; `AcceptPair`, `AckAgain` and
`Refuse` those of `udprecv`, which reads two datagrams whatever they are.
`AckOf` is the comparison of an answer with a half; `AckLike` are the kinds of
packets that begin with an "A", as the code looks at one byte of the data.

| `network` | holds |
|---|---|
| `{}` | everything, `CommandsComplete` included |
| `{"lost"}` | messages are received in order and one for one, the file is written in order, nothing is said to be deleted that is not |
| `{"lost", "ackLost"}` | a pair that is acknowledged was accepted; the file is written in order until `udplastrecv` takes a resent pair for the file's length or last chunk (`misread`) |
| `{"helloLost"}` | types only: without an answer to its handshake the client goes on with numbers never set |
| `{"delay"}`, `{"early"}` | types only: a duplicate message pairs with a half of a pair, and a delayed answer counts for the next pair |

`TimedOut` is the guard of every timeout.  As in `StopWait` a server's timers run
while the client's user types (`AtPrompt`, `Idle`): its second wait ends by a
timeout when he types slowly, and by throwing away what he has typed when he types
fast; both are steps of the model over every network.  After the answer to a GET the
client may ask for another name, because the file is there already (`renaming`); it
reads nothing then, and the server resends the first pair until the socket is full.

Excepted: a side that gave up after its last resend (`gaveUp`), a command taken for
a duplicate because a PUT resets `Send_Seq` (`CommandDropped`), a missing file or
one that cannot be deleted, for which the client waits for ever (`Stuck`).  One more
is excepted from `CommandsComplete`: when that socket is full with one half of a pair
at its end, reader and writer are out of step by one datagram; the client refuses
whatever two it reads, the server resends, and so on for ever (`HalfAlone`: one half
is left and nothing but another pair will come).  TLC reaches `HalfAlone` over `{}`
only with a prompt for another name.  For a
file whose length is a multiple of 260 the server reads and closes its closed file
once more, which may end it (`PutFileToClient`); the client has its file by then.

### TcpServer

`accept` is one round of the accept loop: it overwrites `s1` and starts a thread.
A thread's steps are cut at its uses of the globals, because between any two of
them the loop or another thread may run:

| step | code of `TcpThread::run` |
|---|---|
| `memset` | clears `szbuffer` |
| `call` | reads `s1` for a call's argument: the first `recv`, and each of the three functions |
| `recvRequest` | `recv` returns; `szbuffer` is what any thread received last |
| `otherCommand`, `listFiles`, `command` | one comparison of `szbuffer` with a command, the echo or the listing sent on `s1` |
| `getname`, `fopen`, `PutFileToClient`, `closeAgain` | GET: `_stat`, then `fopen`, then sending and closing, and the extra round of the loop |
| `putinfo`, `recvChunk`, `GetFileFromClient` | PUT: the `Fileinfo`, the receiving loop, closing |
| `delname`, `DeleteServerFiles` | DELETE: `_access`, then `remove` |

A comparison and the read of `s1` for the send that follows it are one step: only
`accept` writes `s1`, and it does not touch `szbuffer`, so what it could do in
between it can do before.  A thread that fails (`throw`, a `NULL` file) sets
`crashed`, because nothing catches an exception in a thread.

Connection `t` is served by thread `t`.  The history variable `mixed` says that a
thread used a connection, a command or a `FILE` that was not its own.  That is
the defect of build 1 (`tcp_crash`: one GET of one client is enough); the
properties are about everything else that may interleave.

`open` and `fp` are the `FILE`s of the C runtime: `fopen` gives a thread the first one
that is not in use.  A file whose length is a multiple of `BUFFER_LENGTH` makes
`PutFileToClient`'s loop go round once more with nothing to send
(`Server.cpp:271-285`): the thread is in `again` between its two `fclose`s, other
threads run in between, and the second one closes whatever `FILE` stands there now.
If nobody uses it the runtime leaves it alone; if another thread has opened it by
then, that thread has lost its file in the middle of a transfer (`OwnFile` is false
for it, what it reads or writes from then on is anything or nothing) and the behaviour
is `mixed`.  One client is enough for that, too: it has the whole file before the
second `fclose`, and may choose a GET or PUT next.  The client's own loop goes
round once more as well (`TcpClient.cpp:178-193`), but it has one thread, which has opened
nothing in between, so its second `fclose` changes nothing and is no step.

`CommandsComplete` says that every choice of every user ends and that every thread
comes to the end of `run`, but for the thread of an upload whose client had no such
file: it waits for a name for ever.  It excuses (`Excused`) behaviours in which

* a thread was misled (`mixed`), by `s1`, by `szbuffer` or by a `FILE`;
* `remove` fails on a file that is open or already gone: the client is not answered,
  and waits (`kept`);
* with two clients, the server ended: `fopen` fails on a file removed after `_stat`, and
  `fread` is called with `NULL`.

So the run shows neither that two clients are served nor that check and use of a file
agree, which they do not; it shows that nothing else stops a command.

`AloneReadsItsRequest` is stated for one client and until a mixing.  A client
that is alone can be mixed with itself: a thread that took an earlier request for
its own answers on the latest connection, and the client may then go on before
its request was read.  That takes three choices of one user (GET, PUT, LIST) and
four mixings, more than the run explores: a behaviour that is `mixed` goes on only
while at most `MaxMixed` connections were made.

A client is a script of calls, as in `StopWait`.  A control record is one cell of
a stream; file data are cells of which `recv` returns any part, so the two
receiving loops are checked against every way of cutting the stream.  Not
modelled: torn control records, killed clients, a client's `send` failing,
which of several uploads of one file the disk keeps (`written` is a thread's), and the
path that `DeleteServerFiles` makes and does not use: `getcwd` is given 20 bytes, and where
it fails `strcat` appends to a buffer that was never written (`Server.cpp:359-360`).

## Runs

| run | instance | shows |
|---|---|---|
| `router` | 3 packets each way, buffers of 2 | the router's safety, its release of delayed packets, and that it implements `RouterLink` |
| `sock_transfer` | window 2, 5 numbers, 5 chunks | the transfer's safety with wrapping numbers, and that `send_file` ends |
| `sock_extra` | window 3, 8 numbers, a file of 3 full chunks, socket errors | the file is still the stamped packets in order, with the extra chunk and errors of the socket calls |
| `sock_skip` | window 2 | (violation) the receiver's file lacks a chunk that `copy_2_winbuf` dropped |
| `sock_removed` | window 3 | (violation) a stale slot makes a NACK empty the window |
| `stop_wait` | files of 2 chunks, one directory entry, each command alone and after a LIST, four networks | what build 2 promises over which network, see the table above |
| `pair_window` | 3 chunks (two pairs and the last), one directory entry, each command alone and after a LIST, four kinds of file, a user who types slowly or fast or is asked for another name, four networks; a DEL over two more | what Assign3 promises over which network, see the table above |
| `pair_missing` | the same without faults | (violation) a missing file passes the client's check for it, and is created |
| `sock_session` | files of 2 chunks, 8 numbers, up to two requests, a restarted client, missing files, the extra chunk; up to three faults | a file is of one request, nothing is read twice, and an ordinary request is read in full and returns |
| `sock_response` | two requests, no fault | (violation) the response of a PUT is taken for that of the next request |
| `tcp_server` | one user with any two choices, two users with one choice each; up to four connections; a file of two buffers | files arrive whole, answers are true, every command and every thread ends unless excused |
| `tcp_crash` | one user, one choice | (violation) a GET can terminate the server |

Bounds.  Three packets in a direction are the fewest with which a packet can be
overtaken by two; a buffer of two can overflow.  `MaxWait` bounds the counting
of failing `recvfrom` calls.  A window of two with five numbers is the smallest
in which all of a window's removals occur (none, some, all) and numbers wrap in
a file of five chunks: the code has a window of 7 (`DEFAULT_WINDOWSIZE`) and 32
numbers.  `M >= 2W + 1` is what the protocol needs over this router: with it the
delivery properties are proved (see below), and with `W` = 2 and `M` = 4 TLC finds
`AnswersMatchTheirPacket` violated.  The code's 32 is well above 15.
A window of three makes a removal from the middle possible.  `Cap` (2) is the
size of a socket buffer, and a retry count of one is enough for both the resend
and the exhaustion of the retries.  `Linger` is 1 or 2 rounds instead of 3 and 26.
`StopWait`: sequence numbers have one bit and a command turns from sending to
receiving up to three times, so a packet can be confused with the one two before
it: two chunks, one entry and a LIST before the command give each command at least
three packets in one direction.  Socket buffers hold `Cap` = 2 datagrams; three
chunks, two entries and a buffer of three were tried without delays and show the
same.
`PairWindow`: three chunks give two pairs, so that a pair can be confused with the
one before it and with the last chunk; the sequence numbers of pairs start again
with every file.  `Resends` is the code's 3.  `Uninit` is a valid number and the
client's initial 3000.  `Cap` = 3 holds a pair and one more datagram, the least with
which a socket full of resent pairs ends with a half.
`SockSession`: two chunks are the fewest of which one may be lost and the other
not, `M` = 8 leaves the numbers of two requests apart (the code has 32, and
`sock_transfer` checks how few suffice); `Starts` has a number that is 0 modulo `M`
and one that is not.  Each lost ACK of a PUT can use up to three rounds of the
server's `srv_wait4cnn`: its 26 rounds survive eight in a row, the run's 10 rounds
three.  `faults` bounds what goes wrong in a behaviour: three in one request, two
when there are two requests, one with the extra chunk.
`TcpServer`: a file of four cells and a buffer of two make every cut of the stream
occur, both branches of the receiving loops (more than a buffer left, and not), and
the extra round of the sending ones; `tcp_crash` has three cells, and no extra
round. `MaxConns` (4) is
what two commands with a listing each need.  The
pairs for two users are those in which a file is removed under another thread or
both threads are the same; `MaxMixed` (2) bounds what is explored after a mixing,
about which only `TypeOK` says anything; it is proved without that bound.

Fairness.  Router: the process is never stopped, so an idle cycle happens when
nothing comes in and a packet in a socket is read in the end; a delayed packet
needs a pause in the traffic, which the bounded number of packets provides.
Transfer: the two processes keep running, and a packet sent again and again
arrives again and again (the lottery has a fixed rate below one and a full
buffer does not persist).  It is not assumed that any answer arrives:
`SendFileEnds` then follows from `retryCnt`.  Weak fairness of arrival would not
express the lottery, and strong fairness of a single arrival is not given when
the socket buffer is full, hence the form in `Fairness`.

`StopWait`, `PairWindow`, `SockSession`: both programs run on (`Step(p)` per side,
and the handshake), the user types what is planned (`Choose`, `Type`), and the
router releases what it holds.  What a fair step may do at its own choice is lose
a datagram, so completion is stated where nothing that is resent may be lost for
ever: for networks without loss, or with a budget of `faults`.  `TcpServer`: the accept loop, every thread and every client are scheduled
by the system; a thread that waits in `recv` has no step to take.

Deadlock is not checked where a run ends: the router has nothing to do when
every packet was sent, the transfer ends with both sides done, builds 2 and 3 end
in the menu or with both sides waiting for each other, build 1 with all clients in
the menu.

`abandoned` marks the step in which `RemoveNotFound` emptied a window that still
had packets.  It is a defect (`sock_removed`); what follows it is another
protocol, so the delivery properties are stated up to that step.

## Proofs

Every theorem holds for all values of the constants that satisfy the module's
`ASSUME`s; where one needs more, it says so.  Each inductive invariant was an
invariant of a TLC run before it was proved.

| theorem | states |
|---|---|
| `RouterTypes`, `WaitCountRestarts`, `RouterNeverDuplicates`, `RouterOvertakesOnce`, `RouterHoldsTheNewest` | the router's safety properties |
| `RouterImplementsLink1`, `RouterImplementsLink2` | each direction of `Router` implements `RouterLink` |
| `SockTransferTypes`, `WindowStaysConsecutive` | `TypeOK` and `WindowIsConsecutive` |
| `SockDeliversInOrder`, `SockNumbersSuffice`, `SockAnswersMatch`, `SockRemovesReceived` | the transfer's delivery properties, if `M >= 2W + 1` |
| `StopWaitTypes`, `StopWaitAcceptsOnce` | `TypeOK` and `NothingAcceptedTwice` |
| `StopWaitInOrder`, `StopWaitToldDeleted` | `SentIsReceivedInOrder` and `ToldDeletedIsDeleted`, if `OneTransfer` |
| `TcpServerTypes`, `TcpFilesArriveWhole`, `TcpToldDeleted`, `TcpAloneReads` | all of `TcpServer`'s invariants |
| `SockSessionTypes`, `SockHandshakeIsOwn` | `TypeOK` and `HandshakeIsOwn` |
| `PairWindowTypes` | `TypeOK` |
| `PairWindowToldDeleted` | `ToldDeletedIsDeleted`, if `OneTransfer` |
| `PairWindowWritten` | the file is written in order until a receive misreads, if `OneTransfer` |

**Router.**  The inductive invariant says that what is in a socket, in `FileBuf`
and in `out` are distinct numbers no larger than `sent`, increasing inside a
socket, and that every packet in the slot or in a socket is newer than all of
`out` but possibly the one forwarded last; the overtaking property alone does not
say what the slot may hold.  `RouterHoldsTheNewest` is read off it.

**SockTransfer, types.**  `TypeOK` is not inductive: that `retryCnt` and `rounds`
stay above zero needs the place the process is in (`RetriesLeft`, `RoundsLeft`),
that a stamped number belongs to the file needs that a chunk is stamped only after
it is read (`StampedIsRead`), that `expected` stays in range needs that only
stamped numbers travel (`DataStamped`, `SlotsStamped`) and that the file's length
counts the packets accepted (`GotCounted`).

**SockTransfer, delivery.**  These theorems have the hypothesis `EnoughNumbers`,
`M >= 2W + 1`, that is 32 >= 15 in the code, and say nothing about a window that
was `abandoned`.  The invariant `DeliveryInv` gives every packet and every answer
in a link a place in the order in which the link was fed: a packet its number
(`PacketLo`, `PacketHi`), an answer the number its receiver waited for
(`AnswerLo`, `AnswerHi`).  Because the router lets a packet be overtaken by one
later packet only, neighbours in a queue may be out of order by a window (`Slack`)
and all others are in order (`PacketsInOrder`, `AnswersInOrder`); together with
`WithinWindow` (the two ends are never more than a window apart) this leaves
`2W + 1` candidates for a number, which the comparison modulo `M` tells apart.
`Written` is the delivery itself.  `LearnedIsSaid` is what a removal from the window
rests on: what the sender has marked was acknowledged.  `AnswersInOrder` and
`LearnedIsSaid` are given up at the end, when the file is complete and
`srv_wait4cnn` acknowledges whatever comes; then no number that is still travelling
is used again (`Settled`).  `Upkeep` is what is needed of slots not in use.  TLC
checked the invariant for `W`, `M` = 1, 3; 2, 5; 3, 8.

**StopWait.**  `Stream` and `Read` say what makes one bit enough when nothing is
delayed: between two copies of a packet all that stands in the socket has its
number, behind a copy of the packet being sent all has the number sent last, and
once a packet was returned, all before a further copy of it has the number
`prev_Recv_Seq`.  So a copy is dropped, although `RecvAck` ends a send at any
datagram and ACKs are read as packets.  `OnceEach` is the property.
`WaitsWithItsNumber` ties `sendmsg.seqNo`, which an ACK repeats, to the packet under
way.  With `"delay"` only the types and `LinksMade` hold, which is what the property
says.

**StopWait, the two scripts.**  These theorems have the hypothesis `OneTransfer`: all
commands of a plan but the last are LISTs.  After GET, PUT and DEL the server has
closed its socket (`server.cpp:444`), and the hypothesis is needed.  With the plan
`<<"GET", "DEL">>`, lost ACKs and early timeouts, TLC finds the client taking chunks
left over from the GET for the echo and the verdict of a DEL that nobody serves, and
printing that the file is gone.

`StopWaitInOrder` rests on `InStep`.  Of each side it takes the calls it has left
besides the one that was answered (`Rest`): the pair of the two fits (`Fits`, one
disjunct per place in LIST, PUT, GET and DEL, and `Transfer` for the chunks), and a
socket holds the ACK its owner waits for, the packet the other side is sending, or
both in this order, and nothing else (`Unread`), until its owner is `Finished`.

`StopWaitToldDeleted` needs another invariant, because with lost ACKs and early
timeouts the sides are not in step: sockets hold copies and ACKs of copies, and an ACK
may be returned as a packet.  What is known is about numbers: whether everything in a
socket has the number its reader returned last (`CaughtUp`), or changes its number
once (`Turned`), or what kinds have another number (`OnlyNew`).  `Situation` says
where the two scripts can be and which of these hold there.  DEL may be lost for good
with its ACK-like answer taken for the echo (`Ignored`); then nothing with a new number
comes to the client any more, and it waits for the verdict for ever.  Otherwise the
client returns a verdict only after `delFiles` has decided, and then only "#" has a new
number unless the file is gone (`Decided`).  `Marked` and `Over` say that no ACK and no
copy is taken for the end of a listing.  TLC checked the invariant with 1 and 2
entries, three initial numbers and all plans up to two LISTs before another command.

**TcpServer.**  The property a thread needs of its client is a protocol: `View(k)` is
all there is of connection k (the calls its client still makes on it, both streams,
the thread's place, the request, the file's progress) and `Talk` lists the
situations it can be in, one disjunct per place in LIST, PUT, GET and DELETE.  Each
step of a client or a thread leads from one to another, and leaves the other
connections' alone unless a thread is mixed up; hence `~mixed => UnmixedInv`.
`FilesOwn` is what makes a thread's `FILE` its own: a thread between `fopen` and `fclose`
has one that is in use, and no other such thread has the same.  A second `fclose` keeps
it unless it closes a `FILE` in use, and then it is `mixed`.  With `crashed` it ends:
`fopen` may have returned `NULL`.
`TypeInv`, `InCalls` and `OwnSock` hold also after a mixing, and `TcpServerTypes`
needs no more.  `ThreadFiles` and `ClientFiles` say that what was received is the
beginning of the file, by induction over the steps, for every way of cutting the
stream.  `AloneAnswered` is the part for one client: its earlier connections are
finished.

**SockSession.**  The theorems are about every scenario, linger and fault.
`SockHandshakeIsOwn` rests on the server's script: it begins with `handshake`, which
is left once and never entered again (`Scripts`), so `hsData` is written once, all
answers there ever are repeat it (`Travelling`), and a client that has taken an
answer for its own has the same number (`Greeting`).  `Windows` separates the slots
in use, which hold the side's own packets, from stale ones.

**PairWindow.**  Neither `Send_temp_Seq` nor `rec_temp_seq` is bounded by a test in the
code.  `Fits` bounds them by what a side still has to call: the pairs it sends are
parts of the file from `Send_temp_Seq` on, in rising order, and the pairs it receives
are no more than are left of the file; a receive that announces a file comes with
`rec_temp_seq` = 0.  That a received length is the file's needs that nothing is on
its way that was not sent (`OnTheWay`, `Made`), and that a message is resent at most
`Resends` + 1 times needs the stage it is in (`Stages`).  TLC checked the invariant on
all plans of two commands and all networks.

**PairWindow, the two scripts.**  The hypothesis `OneTransfer` says here that all
commands of a plan but the last are LIST or DEL.  What a second file would do is not
claimed: it is appended to `got`, and a packet too many of the first
(`PutFileToClient`) would be read as the next command.  `TalkInv` says nothing once a
receive has returned another packet than the next one sent (`misread`).  Until then
the history numbers tell, over every network, what comes next: `Coming(p)` is what is
on its way from p, or may still be resent, and not yet returned; it belongs to one
message (`Said`), which ends in the other side's next receive (`Says`).  `Talk` has
one disjunct per place in a command, and `Transfers` for the chunks of a file in
either direction: the k-th packet from now is the k-th chunk from `got`'s end on
(`ChunkCall`, `ChunkPacket`).  The steps that neither begin a send nor return a
packet leave all of this alone (`Unseen`), however many datagrams the second waits
throw away.  So a verdict other than "#" comes only after the file was removed, and
`got` grows in order (`InTruth`).  That no receive misreads is the other half, and is
model-checked (`SentIsReceivedInOrder`); `PairWindowToldDeleted` does not need it,
because it is in the property's condition on `slips`.  TLC checked `TalkInv` in the
scenarios of `MCPairWindow`.

Only model-checked, and why:

* liveness (`CommandsComplete`, `SendFileEnds` and the like): fairness and ENABLED
  are outside the prover;
* `PairWindow`'s `SentIsReceivedInOrder`, and `WrittenInOrder` where it says that no
  receive misreads: that rests on what the second waits throw away and on how the
  bit of messages and the numbers of pairs agree from one to the other;
  `AckedPairIsAccepted`: the same for ACKs, and it needs that no data begin with an
  "A" (`AckLike`);
* `SockSession`'s `FileIsOfOneRequest`, `NothingAcceptedTwice`, `AcknowledgedIsRead`,
  `NumbersLearnedFromPackets`: they hold for the number of faults that `Linger` and `M`
  allow, a relation the code does not state.

## Not modelled

Contents and names of files, formatting of log lines, statistics, the lottery's
rates, and the parts listed `not_modelled` in `PROJECT.json` (loggers, the unused
thread wrapper, the stale server copy, project files).  Also:

* failing socket calls in `StopWait`, `PairWindow` and `SockSession` (`SockTransfer`
  and `Router` have them), and the 1000 timeouts in a row that end a send of sample-3;
* a window that fills during a session (`SockTransfer` has the window in full);
* the client's menu entries that only list or delete its own files;
* a client that is killed, and control records of build 1 that TCP delivers in
  parts (`build 1/Assign/Server/Server.cpp:163`): every read there is a whole
  record in the model, and what half a record does is decided by the memory after it.

Failures the models contain and no run is spent on, beside those named above:

* the router may release its packet after fewer than three idle cycles, because
  busy cycles count as well (`Router.cpp:161`, against the comment in line 243);
* build 2 closes its only socket after GET, PUT and DEL (`server.cpp:444`), sends a
  chunk more than is received of a file whose length is a multiple of the buffer
  (`client.cpp:307`), and resends for ever when the last ACK is lost
  (`server.cpp:309`).

## Plan

1. Done: `RouterLink`, `Router`, `SockTransfer`, `StopWait`, `TcpServer`,
   `SockSession`, `PairWindow`, and the proofs above.
2. Done: the scripts of `StopWait` (`StopWaitTalkProofs`).
3. Done: the scripts of `PairWindow` up to a misread.  Left there: that numbers
   prevent misreads (`SentIsReceivedInOrder`), then `AckedPairIsAccepted`.
4. `NothingAcceptedTwice` of `SockSession` for any `Linger` that bounds `faults`.
