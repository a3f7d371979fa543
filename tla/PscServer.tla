------------------------------ MODULE PscServer ------------------------------
(***************************************************************************)
(* The single-client, single-thread PSC server: psc_run() of listener.c,   *)
(* the message framing of pscmsg.c, the periodic scheduler of pscdata.c    *)
(* and the two callbacks of main.c that use the connection.                *)
(*                                                                         *)
(* One thread owns the listening socket and the IOC's socket.  It blocks   *)
(* in select(), in recv() in the middle of a message and in send() in the  *)
(* middle of a message, and only there (and in the command handler) does   *)
(* time pass for it.  Around it, IOCs connect, write any part of a         *)
(* message, stop, and go away.  lwIP (descriptors, backlog) and the IOC    *)
(* are external and are modelled as listener.c uses them.                  *)
(*                                                                         *)
(* Every comparison the code makes with the tick counter has the form      *)
(* now - last >= period, so the model keeps the age of each stamp, held at *)
(* the period it is compared with (older makes no difference to the code). *)
(***************************************************************************)
EXTENDS Integers, Sequences

CONSTANTS
  Conns,        \* the TCP connections IOCs will make, one per connect()
  NoConn,       \* no connection
  Fds,          \* the socket descriptors lwIP may hand out
  Backlog,      \* connections lwIP holds for accept()
  MaxMsgs,      \* bound: messages an IOC writes on one connection
  MaxLen,       \* PSC_MAX_RX_MSG_LEN, in units of one recv()
  Lens,         \* the lengths IOCs put in their headers
  SelectTicks,  \* PSC_SELECT_MS
  RxTicks,      \* PSC_RX_TIMEOUT_MS
  TxTicks,      \* PSC_TX_TIMEOUT_MS
  BeatTicks,    \* PSC_HEARTBEAT_TIMEOUT_MS
  RxAgeCap,     \* bound: the age of last_rx_tick is followed up to here
  FastTicks,    \* FAST_PERIOD_MS
  SlowTicks,    \* SLOW_PERIOD_MS
  HandlerTicks, \* the longest a command handler runs
  BpcEnabled,   \* bpc_enabled, computed once by pscdata_init()
  MaxWfms       \* bound: waveforms one snapshot_process() sends

ASSUME ServerAssumption ==
  /\ Fds \subseteq Nat
  /\ NoConn \notin Conns
  /\ Lens \subseteq Nat
  /\ MaxLen \in Nat
  /\ MaxMsgs \in Nat
  /\ Backlog \in Nat \ {0}
  /\ {SelectTicks, RxTicks, TxTicks, BeatTicks, FastTicks, SlowTicks} \subseteq Nat \ {0}
  /\ RxAgeCap \in Nat /\ RxAgeCap >= BeatTicks
  /\ HandlerTicks \in Nat /\ HandlerTicks < BeatTicks
  /\ BpcEnabled \in BOOLEAN
  /\ MaxWfms \in Nat

VARIABLES
  pc,              \* where psc_run() is
  client_sock,     \* PSC->client_sock, or NoSock
  selected_client, \* the descriptor put in this iteration's select set
  rfds,            \* what select() reported: a subset of {"listen", "client"}
  head,            \* the header psc_recvhead() returned: its message's number
  rxbuf,           \* the body units received so far, by message number
  txq,             \* the messages still to psc_send() before going on to after
  txleft,          \* units of the message being sent not yet written
  after,           \* where psc_run() goes when txq is empty
  rxAge,           \* xTaskGetTickCount() - last_rx_tick
  fastAge,         \* now - last_fast
  slowAge,         \* now - last_slow
  waitAge,         \* ticks spent in the current blocking call
  sock,            \* lwIP: the connection each descriptor stands for
  backlog,         \* lwIP: connections waiting for accept()
  ioc,             \* the IOC's end of each connection
  msg,             \* the messages the IOC put on each connection
  wr, rd,          \* next unit the IOC will write, the server will read
  view,            \* where the IOC's parser is in what it was sent
  selConn,         \* history: the connection selected_client stood for
  newest,          \* history: the connection accepted last
  ran              \* history: the last message of each connection that ran

control == <<pc, client_sock, selected_client, rfds, head, rxbuf>>
sending == <<txq, txleft, after>>
ages    == <<rxAge, fastAge, slowAge, waitAge>>
network == <<sock, backlog, ioc, msg, wr, rd, view>>
history == <<selConn, newest, ran>>
vars    == <<control, sending, ages, network, history>>

NoSock == -1

(* What an IOC puts in a header.  ok: it starts with 'P','S'.              *)
Message == [ok : BOOLEAN, len : Lens]

(* A message not written yet.                                              *)
NoMessage == [ok |-> FALSE, len |-> 0]

(* The messages the server sends: the greeting of client_event(), SA data, *)
(* the two of lstats_send(), BPC data, a waveform, waveform statistics.    *)
TxMsg == {"hello", "sa", "ip", "lstats", "bpc", "wfm", "wfmstats"}

(* A message goes out as its header and then its body; a waveform's body   *)
(* (4,000,000 bytes) needs several send() calls.                           *)
Units(m) == IF m = "wfm" THEN 3 ELSE 2

PCs == {"select", "accept", "recv", "recvhead", "recvbody", "client_msg",
        "heartbeat", "poll", "send"}

Conn == sock[client_sock]

(* The unit after unit p of connection c's stream: p = <<n, k>> is the     *)
(* header (k = 0) or the k-th body unit of the n-th message.               *)
Succ(c, p) == IF p[2] < msg[c][p[1]].len THEN <<p[1], p[2] + 1>>
                                         ELSE <<p[1] + 1, 0>>

Older(age, limit) == IF age < limit THEN age + 1 ELSE age

ControlOK ==
  /\ pc \in PCs
  /\ client_sock \in Fds \cup {NoSock} /\ selected_client \in Fds \cup {NoSock}
  /\ rfds \subseteq {"listen", "client"}
  /\ head \in 0..MaxMsgs /\ rxbuf \in Seq(1..MaxMsgs)

SendingOK == txq \in Seq(TxMsg) /\ txleft \in 0..3 /\ after \in {"recv", "select"}

AgesOK ==
  /\ rxAge \in 0..RxAgeCap /\ fastAge \in 0..FastTicks /\ slowAge \in 0..SlowTicks
  /\ waitAge \in Nat

NetworkOK ==
  /\ sock \in [Fds -> Conns \cup {NoConn}]
  /\ backlog \in Seq(Conns)
  /\ ioc \in [Conns -> {"idle", "up", "gone"}]
  /\ msg \in [Conns -> [1..MaxMsgs -> Message \cup {NoMessage}]]
  /\ wr \in [Conns -> (1..MaxMsgs + 1) \X Nat]
  /\ rd \in [Conns -> (1..MaxMsgs + 1) \X Nat]
  /\ view \in [Conns -> {"fresh", "inside", "boundary", "bad"}]

HistoryOK ==
  /\ selConn \in Conns \cup {NoConn} /\ newest \in Conns \cup {NoConn}
  /\ ran \in [Conns -> 0..MaxMsgs]

(* The type invariant: among the rest, descriptors are ones lwIP handed    *)
(* out and no counter of units left to send or receive goes below zero.    *)
TypeOK == ControlOK /\ SendingOK /\ AgesOK /\ NetworkOK /\ HistoryOK

(* psc_run() up to its loop: the listening socket exists, nobody is        *)
(* connected, pscdata_init() has stamped both periods.                     *)
Init ==
  /\ pc = "select" /\ client_sock = NoSock /\ selected_client = NoSock
  /\ rfds = {} /\ head = 0 /\ rxbuf = <<>>
  /\ txq = <<>> /\ txleft = 0 /\ after = "select"
  /\ rxAge = 0 /\ fastAge = 0 /\ slowAge = 0 /\ waitAge = 0
  /\ sock = [f \in Fds |-> NoConn]
  /\ backlog = <<>>
  /\ ioc = [c \in Conns |-> "idle"]
  /\ msg = [c \in Conns |-> [n \in 1..MaxMsgs |-> NoMessage]]
  /\ wr = [c \in Conns |-> <<1, 0>>] /\ rd = [c \in Conns |-> <<1, 0>>]
  /\ view = [c \in Conns |-> "fresh"]
  /\ selConn = NoConn /\ newest = NoConn /\ ran = [c \in Conns |-> 0]

-----------------------------------------------------------------------------
(* The IOCs and the network.                                               *)

(* connect(): lwIP queues the connection for accept().                     *)
IocConnect(c) ==
  /\ ioc[c] = "idle" /\ Len(backlog) < Backlog
  /\ ioc' = [ioc EXCEPT ![c] = "up"]
  /\ backlog' = Append(backlog, c)
  /\ UNCHANGED <<control, sending, ages, sock, msg, wr, rd, view, history>>

(* c is waiting for accept(); c is the connection of an open descriptor;   *)
(* c is one of them: the server has not closed it.                         *)
Queued(c) == \E i \in 1..Len(backlog) : backlog[i] = c
Opened(c) == \E f \in Fds : sock[f] = c
Live(c) == Queued(c) \/ Opened(c)

(* The IOC writes its next unit: a header of its choice or body data.      *)
IocWrite(c, m) ==
  LET n == wr[c][1]  k == wr[c][2] IN
  /\ ioc[c] = "up" /\ Live(c) /\ n <= MaxMsgs
  /\ IF k = 0 THEN msg' = [msg EXCEPT ![c][n] = m]
              ELSE m = msg[c][n] /\ UNCHANGED msg
  /\ wr' = [wr EXCEPT ![c] = IF k < m.len THEN <<n, k + 1>> ELSE <<n + 1, 0>>]
  /\ UNCHANGED <<control, sending, ages, sock, backlog, ioc, rd, view, history>>

(* The IOC closes, crashes or is cut off with a reset.                     *)
IocGone(c) ==
  /\ ioc[c] = "up" /\ Live(c)
  /\ ioc' = [ioc EXCEPT ![c] = "gone"]
  /\ UNCHANGED <<control, sending, ages, sock, backlog, msg, wr, rd, view, history>>

Unread(c) == rd[c] # wr[c]

(* recv() on c would return: with data, or with the end of the stream.     *)
Readable(c) == Unread(c) \/ ioc[c] = "gone"

(* What select() would report now.                                         *)
Ready == (IF backlog # <<>> THEN {"listen"} ELSE {}) \cup
         (IF client_sock # NoSock /\ Readable(Conn) THEN {"client"} ELSE {})

(* Time passes while psc_run() is blocked or inside a command handler; a   *)
(* blocking call returns when its timeout is reached, not later.           *)
Tick ==
  /\ \/ pc = "select" /\ Ready = {} /\ waitAge < SelectTicks
     \/ pc \in {"recvhead", "recvbody"} /\ ~Readable(Conn) /\ waitAge < RxTicks
     \/ pc = "send" /\ client_sock # NoSock /\ txq # <<>> /\ waitAge < TxTicks
     \/ pc = "client_msg" /\ waitAge < HandlerTicks
  /\ waitAge' = waitAge + 1
  /\ rxAge' = Older(rxAge, RxAgeCap)
  /\ fastAge' = Older(fastAge, FastTicks)
  /\ slowAge' = Older(slowAge, SlowTicks)
  /\ UNCHANGED <<control, sending, network, history>>

-----------------------------------------------------------------------------
(* psc_run().                                                              *)

Goto(p) == pc' = p /\ waitAge' = 0

(* disconnect_client(): client_sock is cleared, then the descriptor is     *)
(* closed.  client_event() ignores PSC_DIS.                                *)
disconnect_client ==
  /\ client_sock' = NoSock
  /\ sock' = [sock EXCEPT ![client_sock] = NoConn]

(* select() returns: at once when a descriptor is readable, else at its    *)
(* timeout with none.                                                      *)
Select ==
  /\ pc = "select"
  /\ Ready # {} \/ waitAge >= SelectTicks
  /\ selected_client' = client_sock
  /\ selConn' = IF client_sock = NoSock THEN NoConn ELSE Conn
  /\ rfds' = Ready
  /\ Goto(IF "listen" \in Ready THEN "accept" ELSE "recv")
  /\ UNCHANGED <<client_sock, head, rxbuf, sending, rxAge, fastAge, slowAge,
                 network, newest, ran>>

(* select() fails: log, sleep PSC_SELECT_MS, skip accept and receive.      *)
SelectError ==
  /\ pc = "select" /\ waitAge >= SelectTicks
  /\ selected_client' = client_sock
  /\ selConn' = IF client_sock = NoSock THEN NoConn ELSE Conn
  /\ rfds' = {}
  /\ Goto("heartbeat")
  /\ UNCHANGED <<client_sock, head, rxbuf, sending, rxAge, fastAge, slowAge,
                 network, newest, ran>>

(* Mutant: the superseded socket is forgotten instead of closed.           *)
accept_client_leaks ==
  /\ pc = "accept"
  /\ \E f \in Fds : sock[f] = NoConn /\ sock' = [sock EXCEPT ![f] = Head(backlog)]
                    /\ client_sock' = f
  /\ newest' = Head(backlog) /\ backlog' = Tail(backlog)
  /\ rxAge' = 0 /\ txq' = <<"hello">> /\ after' = "recv" /\ Goto("send")
  /\ UNCHANGED <<selected_client, rfds, head, rxbuf, txleft, fastAge, slowAge,
                 ioc, msg, wr, rd, view, selConn, ran>>

(* accept_client(): the new socket is accepted while the old one is still  *)
(* open, then supersedes it; the PSC_CONN callback sends the greeting.     *)
accept_client ==
  /\ pc = "accept"
  /\ \E f \in Fds :
       /\ sock[f] = NoConn
       /\ sock' = [g \in Fds |-> IF g = f THEN Head(backlog)
                                 ELSE IF g = client_sock THEN NoConn ELSE sock[g]]
       /\ client_sock' = f
  /\ newest' = Head(backlog)
  /\ backlog' = Tail(backlog)
  /\ rxAge' = 0
  /\ txq' = <<"hello">> /\ after' = "recv"
  /\ Goto("send")
  /\ UNCHANGED <<selected_client, rfds, head, rxbuf, txleft, fastAge, slowAge,
                 ioc, msg, wr, rd, view, selConn, ran>>

(* accept() fails, lwIP having dropped the pending connection (no          *)
(* descriptor left, aborted by the peer); the old client stays.            *)
AcceptError ==
  /\ pc = "accept"
  /\ backlog' = Tail(backlog)
  /\ ioc' = [ioc EXCEPT ![Head(backlog)] = "gone"]
  /\ Goto("recv")
  /\ UNCHANGED <<client_sock, selected_client, rfds, head, rxbuf, sending,
                 rxAge, fastAge, slowAge, sock, msg, wr, rd, view, history>>

(* Mutant: the test client_sock == selected_client is dropped.             *)
RecvCheckAnyClient ==
  /\ pc = "recv"
  /\ Goto(IF client_sock # NoSock /\ selected_client # NoSock /\ "client" \in rfds
          THEN "recvhead" ELSE "heartbeat")
  /\ UNCHANGED <<client_sock, selected_client, rfds, head, rxbuf, sending,
                 rxAge, fastAge, slowAge, network, history>>

(* Only read the descriptor that was actually in this select().            *)
RecvCheck ==
  /\ pc = "recv"
  /\ Goto(IF /\ selected_client # NoSock
             /\ client_sock = selected_client
             /\ "client" \in rfds
          THEN "recvhead" ELSE "heartbeat")
  /\ UNCHANGED <<client_sock, selected_client, rfds, head, rxbuf, sending,
                 rxAge, fastAge, slowAge, network, history>>

(* Mutant: last_rx_tick is not stamped.                                    *)
CompleteNoStamp == Goto("client_msg") /\ UNCHANGED rxAge

(* psc_recvmsg() has the whole message: last_rx_tick is stamped and the    *)
(* receive callback runs.                                                  *)
Complete == rxAge' = 0 /\ Goto("client_msg")

(* psc_recvhead(): 8 bytes.  A header without 'P','S' and a length beyond  *)
(* the buffer are errors.  Were body bytes (k # 0) read as a header, they  *)
(* could pass for one: the framing properties exclude it.                  *)
RecvHead ==
  LET c == Conn  n == rd[c][1]  k == rd[c][2]  m == msg[c][n] IN
  /\ pc = "recvhead" /\ Unread(c)
  /\ rd' = [rd EXCEPT ![c] = Succ(c, @)]
  /\ IF (k = 0 /\ ~m.ok) \/ m.len > MaxLen
     THEN disconnect_client /\ Goto("heartbeat") /\ UNCHANGED <<head, rxAge>>
     ELSE /\ head' = n
          /\ IF m.len = 0 THEN Complete ELSE Goto("recvbody") /\ UNCHANGED rxAge
          /\ UNCHANGED <<client_sock, sock>>
  /\ UNCHANGED <<selected_client, rfds, rxbuf, sending, fastAge, slowAge,
                 backlog, ioc, msg, wr, view, history>>

(* Mutant: psc_recvall() is satisfied with whatever one recv() returned.   *)
RecvBodyShort ==
  LET c == Conn  n == rd[c][1] IN
  /\ pc = "recvbody" /\ Unread(c)
  /\ rd' = [rd EXCEPT ![c] = Succ(c, @)]
  /\ rxbuf' = Append(rxbuf, n)
  /\ Complete
  /\ UNCHANGED <<client_sock, selected_client, rfds, head, sending, fastAge,
                 slowAge, sock, backlog, ioc, msg, wr, view, history>>

(* psc_recvall() gets another part of the body.                            *)
RecvBody ==
  LET c == Conn  n == rd[c][1] IN
  /\ pc = "recvbody" /\ Unread(c)
  /\ rd' = [rd EXCEPT ![c] = Succ(c, @)]
  /\ rxbuf' = Append(rxbuf, n)
  /\ IF Len(rxbuf) + 1 = msg[c][head].len THEN Complete
     ELSE Goto("recvbody") /\ UNCHANGED rxAge
  /\ UNCHANGED <<client_sock, selected_client, rfds, head, sending, fastAge,
                 slowAge, sock, backlog, ioc, msg, wr, view, history>>

(* Mutant: recv() is retried after EAGAIN.                                 *)
RecvErrorRetries ==
  /\ pc \in {"recvhead", "recvbody"}
  /\ ~Unread(Conn) /\ waitAge >= RxTicks
  /\ Goto(pc)
  /\ UNCHANGED <<client_sock, selected_client, rfds, head, rxbuf, sending,
                 rxAge, fastAge, slowAge, network, history>>

(* recv() returns 0 or an error: the peer is gone, or SO_RCVTIMEO expired  *)
(* with nothing to read.                                                   *)
RecvError ==
  /\ pc \in {"recvhead", "recvbody"}
  /\ ioc[Conn] = "gone" \/ (~Unread(Conn) /\ waitAge >= RxTicks)
  /\ disconnect_client /\ Goto("heartbeat")
  /\ head' = 0 /\ rxbuf' = <<>>
  /\ UNCHANGED <<selected_client, rfds, sending, rxAge, fastAge,
                 slowAge, backlog, ioc, msg, wr, rd, view, history>>

(* client_msg(): dispatches on the message id and never touches the        *)
(* connection.                                                             *)
client_msg ==
  /\ pc = "client_msg"
  /\ ran' = [ran EXCEPT ![Conn] = head]
  /\ head' = 0 /\ rxbuf' = <<>>
  /\ Goto("heartbeat")
  /\ UNCHANGED <<client_sock, selected_client, rfds, sending,
                 rxAge, fastAge, slowAge, network, selConn, newest>>

(* Mutant: no heartbeat check.                                             *)
HeartbeatMissing ==
  /\ pc = "heartbeat" /\ Goto("poll")
  /\ rfds' = {} /\ selected_client' = NoSock /\ selConn' = NoConn
  /\ UNCHANGED <<client_sock, head, rxbuf, sending, rxAge, fastAge, slowAge,
                 network, newest, ran>>

(* The heartbeat check, the last use of the iteration's locals.            *)
Heartbeat ==
  /\ pc = "heartbeat"
  /\ IF client_sock # NoSock /\ rxAge >= BeatTicks
     THEN disconnect_client ELSE UNCHANGED <<client_sock, sock>>
  /\ Goto("poll")
  /\ rfds' = {} /\ selected_client' = NoSock /\ selConn' = NoConn
  /\ UNCHANGED <<head, rxbuf, sending, rxAge, fastAge, slowAge, backlog, ioc,
                 msg, wr, rd, view, newest, ran>>

(* pscdata_poll(): nothing before FAST_PERIOD_MS; then SA data, every      *)
(* SLOW_PERIOD_MS the statistics and BPC data, and waveforms last.         *)
pscdata_poll ==
  /\ pc = "poll"
  /\ IF fastAge < FastTicks
     THEN Goto("select") /\ UNCHANGED <<fastAge, slowAge, txq, after>>
     ELSE \E w \in 0..MaxWfms :
          LET slow == slowAge >= SlowTicks IN
            /\ fastAge' = 0
            /\ slowAge' = IF slow THEN 0 ELSE slowAge
            /\ txq' = <<"sa">>
                      \o (IF slow THEN <<"ip", "lstats">> ELSE <<>>)
                      \o (IF slow /\ BpcEnabled THEN <<"bpc">> ELSE <<>>)
                      \o [i \in 1..w |-> "wfm"] \o <<"wfmstats">>
            /\ after' = "select" /\ Goto("send")
  /\ UNCHANGED <<client_sock, selected_client, rfds, head, rxbuf, txleft,
                 rxAge, network, history>>

(* psc_send() of the first message of txq: returns at once without a       *)
(* client, otherwise starts psc_sendmsg().                                 *)
SendSkip ==
  /\ pc = "send" /\ txleft = 0 /\ (txq = <<>> \/ client_sock = NoSock)
  /\ txq' = <<>>
  /\ Goto(after)
  /\ UNCHANGED <<client_sock, selected_client, rfds, head, rxbuf, txleft, after,
                 rxAge, fastAge, slowAge, network, history>>

(* What the IOC's parser makes of the next unit of message m, u units of   *)
(* it being still unsent: the greeting comes first, a header only between  *)
(* messages, body data only inside one.                                    *)
Parse(v, m, u) ==
  CASE v = "fresh"    -> IF u = Units(m) /\ m = "hello" THEN "inside" ELSE "bad"
    [] v = "boundary" -> IF u = Units(m) /\ m # "hello" THEN "inside" ELSE "bad"
    [] v = "inside"   -> IF u = Units(m) THEN "bad"
                         ELSE IF u = 1 THEN "boundary" ELSE "inside"
    [] OTHER          -> "bad"

(* Mutant: psc_sendmsg() forgets the header.                               *)
LeftNoHeader == txleft

Left == IF txleft = 0 THEN Units(Head(txq)) ELSE txleft

(* send() takes the next part of the header or of the body.                *)
SendUnit ==
  /\ pc = "send" /\ txq # <<>> /\ client_sock # NoSock
  /\ view' = [view EXCEPT ![Conn] = Parse(@, Head(txq), Left)]
  /\ txleft' = Left - 1
  /\ txq' = IF Left = 1 THEN Tail(txq) ELSE txq
  /\ waitAge' = 0
  /\ UNCHANGED <<control, after, rxAge, fastAge, slowAge, sock, backlog, ioc,
                 msg, wr, rd, history>>

(* Mutant: psc_send() ignores psc_sendmsg()'s error.                       *)
SendErrorKeepsClient ==
  /\ pc = "send" /\ txq # <<>> /\ client_sock # NoSock
  /\ \E torn \in BOOLEAN :
       view' = IF torn THEN [view EXCEPT ![Conn] = Parse(@, Head(txq), Left)] ELSE view
  /\ txleft' = 0 /\ txq' = Tail(txq) /\ waitAge' = 0
  /\ UNCHANGED <<control, after, rxAge, fastAge, slowAge, sock, backlog, ioc,
                 msg, wr, rd, history>>

(* send() fails (timeout, peer gone, no memory), a part of the unit being  *)
(* perhaps written: psc_sendmsg() gives up and psc_send() disconnects; the *)
(* calls that follow find no client.                                       *)
SendError ==
  /\ pc = "send" /\ txq # <<>> /\ client_sock # NoSock
  /\ \E torn \in BOOLEAN :
       view' = IF torn THEN [view EXCEPT ![Conn] = Parse(@, Head(txq), Left)] ELSE view
  /\ disconnect_client
  /\ txleft' = 0 /\ txq' = Tail(txq)
  /\ waitAge' = 0
  /\ UNCHANGED <<pc, selected_client, rfds, head, rxbuf, after, rxAge, fastAge,
                 slowAge, backlog, ioc, msg, wr, rd, history>>

-----------------------------------------------------------------------------
Environment == \E c \in Conns : IocConnect(c) \/ IocGone(c)
                                \/ \E m \in Message : IocWrite(c, m)

Server ==
  \/ Select \/ SelectError \/ accept_client \/ AcceptError
  \/ RecvCheck \/ RecvHead \/ RecvBody \/ RecvError \/ client_msg
  \/ Heartbeat \/ pscdata_poll \/ SendSkip \/ SendUnit \/ SendError

Next == Environment \/ Tick \/ Server

Spec == Init /\ [][Next]_vars

(* The network thread is scheduled and time advances; select() does not    *)
(* fail for ever.                                                          *)
FairSpec == Spec /\ WF_vars(Server) /\ WF_vars(Tick) /\ SF_vars(Select)

-----------------------------------------------------------------------------
(* Properties.                                                             *)

(* Descriptor ownership: the only open IOC descriptor is client_sock, and  *)
(* it is the connection accepted last.  No path (supersede, receive error, *)
(* send error inside a callback, heartbeat) leaks a socket or leaves       *)
(* client_sock naming a closed one, and an old IOC never outlives a new.   *)
OneOpenSocket ==
  /\ \A f \in Fds : sock[f] # NoConn <=> f = client_sock
  /\ client_sock # NoSock => Conn = newest

(* "Only read the descriptor that was actually in this select()": recv()   *)
(* is called on the very connection select() reported, even though lwIP    *)
(* reuses descriptor numbers when a client is replaced in between.         *)
ReadsSelected ==
  pc \in {"recvhead", "recvbody"} => client_sock # NoSock /\ Conn = selConn

(* Receive framing: psc_recvhead() only ever reads at a message boundary,  *)
(* and the handler runs with exactly the body of the header's message.     *)
InFraming ==
  /\ pc = "recvhead" => rd[Conn][2] = 0
  /\ pc = "client_msg" => rxbuf = [i \in 1..msg[Conn][head].len |-> head]

(* Send framing: what any IOC is sent is the greeting and then whole       *)
(* messages; one that broke off is the last thing on its connection.       *)
OutFraming ==
  /\ \A c \in Conns : view[c] # "bad"
  /\ \A c \in Conns : view[c] = "inside" =>
       ~Opened(c) \/ (pc = "send" /\ txleft > 0 /\ Conn = c)

(* A late heartbeat is still a heartbeat: an iteration whose select()      *)
(* reported the client readable never ends in its heartbeat disconnect,    *)
(* however long the sends of the iteration before blocked.                 *)
HeartbeatSparesTalker ==
  [][pc = "heartbeat" /\ client_sock # NoSock /\ client_sock' = NoSock
       => "client" \notin rfds \/ selConn # Conn]_vars

(* SINGLE_THREAD_NETWORKING.md: "No received IOC message for 5 seconds     *)
(* causes the client socket to be closed".  Taken generously: a client is  *)
(* not kept a whole receive timeout beyond the heartbeat period.  The code *)
(* keeps it as long as the parts of one message trickle in, each within    *)
(* SO_RCVTIMEO, for psc_recvmsg() does not look at last_rx_tick.           *)
ClosedAfterSilence == client_sock # NoSock => rxAge <= BeatTicks + RxTicks

(* A command runs only on behalf of the IOC that is connected when it      *)
(* runs, each once and in the order sent: the server implements PscSession. *)
Session == INSTANCE PscSession WITH
  session <- IF client_sock = NoSock THEN NoConn ELSE Conn,
  ended   <- {c \in Conns : ioc[c] # "idle" /\ ~Live(c)},
  ran     <- ran

ImplementsSession == Session!Spec

(* Every IOC that connects is accepted or refused: it does not wait behind *)
(* a client that is silent, half-way through a message, or not reading.    *)
PendingServed ==
  \A c \in Conns : Queued(c) ~> ~Queued(c)

(* A client that goes silent is disconnected (an IOC writes at most        *)
(* MaxMsgs messages, so every one falls silent).                           *)
SilentDropped == \A c \in Conns : Opened(c) ~> ~Opened(c)

-----------------------------------------------------------------------------
(* The inductive invariant behind the safety properties.                   *)

(* Connections pass from idle to the backlog to a descriptor, and are      *)
(* untouched until they are accepted.                                      *)
ConnInv ==
  /\ \A i, j \in 1..Len(backlog) : backlog[i] = backlog[j] => i = j
  /\ \A c \in Conns : Queued(c) => ~Opened(c) /\ ioc[c] # "idle"
  /\ \A c \in Conns : ioc[c] = "idle" => ~Opened(c) /\ wr[c] = <<1, 0>>
  /\ \A c \in Conns : ioc[c] = "idle" \/ Queued(c)
                        => rd[c] = <<1, 0>> /\ view[c] = "fresh"
  /\ pc = "accept" => backlog # <<>>

(* The server reads behind the IOC's writing, inside the messages written. *)
StreamInv == \A c \in Conns :
  /\ wr[c][2] > 0 => wr[c][1] <= MaxMsgs /\ wr[c][2] <= msg[c][wr[c][1]].len
  /\ \/ rd[c] = wr[c]
     \/ rd[c][1] < wr[c][1] /\ rd[c][2] <= msg[c][rd[c][1]].len
     \/ rd[c][1] = wr[c][1] /\ rd[c][2] < wr[c][2]

(* Between messages everywhere but in recvbody, which has read the header  *)
(* and the units in rxbuf.                                                 *)
RecvInv ==
  /\ pc \in {"recvhead", "recvbody", "client_msg"} => client_sock # NoSock
  /\ pc \notin {"recvbody", "client_msg"} => rxbuf = <<>>
  /\ client_sock # NoSock /\ pc # "recvbody" => rd[Conn][2] = 0
  /\ pc = "recvbody" =>
       /\ head # 0 /\ rd[Conn] = <<head, Len(rxbuf) + 1>>
       /\ Len(rxbuf) < msg[Conn][head].len
       /\ \A i \in 1..Len(rxbuf) : rxbuf[i] = head
  /\ pc = "client_msg" =>
       /\ head # 0 /\ rd[Conn] = <<head + 1, 0>>
       /\ Len(rxbuf) = msg[Conn][head].len
       /\ \A i \in 1..Len(rxbuf) : rxbuf[i] = head

(* While client_sock is the selected descriptor it is still the selected   *)
(* connection: accept() cannot return a descriptor that is open.           *)
SelectInv ==
  /\ selected_client # NoSock /\ client_sock = selected_client => Conn = selConn
  /\ pc = "accept" => client_sock = selected_client
  /\ pc \in {"recvhead", "recvbody"} => client_sock = selected_client

(* Where the IOC's parser is, for the place psc_run() has reached.         *)
SendInv ==
  /\ \A c \in Conns : view[c] # "bad"
  /\ txleft > 0 => pc = "send" /\ client_sock # NoSock /\ txq # <<>>
                   /\ txleft < Units(Head(txq))
  /\ pc = "send" /\ after = "select" => \A i \in 1..Len(txq) : txq[i] # "hello"
  /\ pc = "send" /\ after = "recv" /\ txq # <<>> => txq = <<"hello">>
  /\ client_sock # NoSock =>
       view[Conn] = IF txleft > 0 THEN "inside"
                    ELSE IF pc = "send" /\ after = "recv" /\ txq # <<>> THEN "fresh"
                    ELSE "boundary"

IInv == TypeOK /\ OneOpenSocket /\ ConnInv /\ StreamInv /\ RecvInv /\ SelectInv /\ SendInv

=============================================================================
