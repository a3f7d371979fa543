-------------------------------- MODULE Tftp --------------------------------
(***************************************************************************)
(* The TFTP server for the SD card: one transfer at a time, a timer that   *)
(* retransmits and gives up, and the file behind it.  recv() and           *)
(* tftp_tmr() both run on lwIP's tcpip_thread and do not interleave; the   *)
(* network in between loses, delays and duplicates datagrams.              *)
(*                                                                         *)
(* Each client transfers one file of its own, from one address and port,   *)
(* once.  A file is Blocks datagrams long, the last one short; a datagram  *)
(* of data is known by its place in the file, 0 standing for any other     *)
(* content.                                                                *)
(***************************************************************************)
EXTENDS Naturals, Sequences

CONSTANTS
  Clients,    \* addresses and ports
  Readers,    \* the clients that download; the others upload
  Blocks,     \* length of a file in datagrams
  OldBlocks,  \* length of what the upload replaces
  BlkMod,     \* 2^16, where block numbers wrap
  Limit,      \* TFTP_TIMEOUT_MSECS / TFTP_TIMER_MSECS
  MaxRetries, \* TFTP_MAX_RETRIES
  MaxNet,     \* bound: datagrams on the way, per client and direction
  MaxExtra,   \* bound: datagrams a client repeats and the network duplicates
  None        \* no client, no datagram

ASSUME TftpAssumption ==
  /\ Readers \subseteq Clients /\ None \notin Clients
  /\ {Blocks, BlkMod, MaxNet} \subseteq Nat \ {0} /\ BlkMod > 2
  /\ {OldBlocks, Limit, MaxRetries, MaxExtra} \subseteq Nat

VARIABLES
  tftp_state, \* client: who holds the handle; mode_write, blknum, last_data, retries;
              \* idle: timer - last_pkt; pos: the position of the file;
              \* old: the length f_open() found, which stays in the directory until f_close()
  timers,     \* pending sys_timeout() entries of tftp_tmr
  card,       \* the files, as an open handle sees them and f_close() leaves them
  client,     \* pc, blk and got of each client
  toServer,
  toClient,
  extra,      \* how much of MaxExtra is left
  starved,    \* history: send_data() found no memory
  spoiled     \* history: f_write() failed on a block uploaded before, or f_close()
              \* did not bring an upload to the card that was acknowledged in full

vars == <<tftp_state, timers, card, client, toServer, toClient, extra, starved, spoiled>>

File == [i \in 1..Blocks |-> i]
Numbers == 0..BlkMod - 1
After(n) == (n + 1) % BlkMod

Datagrams ==
  [op : {"rrq", "wrq", "error"}, n : {0}, d : {0}] \cup [op : {"ack"}, n : Numbers, d : {0}]
  \cup [op : {"data"}, n : Numbers, d : 1..Blocks]

ASSUME NoneAssumption == None \notin Datagrams

Packet(op, n, d) == [op |-> op, n |-> n, d |-> d]
Data(n, d) == Packet("data", n, d)
Ack(n) == Packet("ack", n, 0)
Error == Packet("error", 0, 0)

(* p->tot_len < TFTP_MAX_PAYLOAD_SIZE                                      *)
Short(p) == p.d = Blocks

(* The state is well-formed, and data kept for retransmission belongs to   *)
(* the open transfer.                                                      *)
TypeOK ==
  /\ tftp_state \in [client : Clients \cup {None}, mode_write : BOOLEAN, blknum : Numbers,
                     last_data : Datagrams \cup {None}, retries : 0..MaxRetries,
                     idle : 0..Limit + 1, pos : 0..Blocks, old : Nat]
  /\ timers \in Nat
  /\ card \in [Clients -> Seq(0..Blocks)]
  /\ client \in [Clients -> [pc : {"new", "busy", "done", "failed"}, blk : Numbers,
                             got : 0..Blocks, ok : BOOLEAN]]
  /\ toServer \in [Clients -> Seq(Datagrams)] /\ toClient \in [Clients -> Seq(Datagrams)]
  /\ extra \in 0..MaxExtra /\ {starved, spoiled} \subseteq BOOLEAN
  /\ tftp_state.client = None => tftp_state.last_data = None

-----------------------------------------------------------------------------
(* tftp_init() at boot, the clients about to start.                        *)
Init ==
  /\ tftp_state = [client |-> None, mode_write |-> FALSE, blknum |-> 0, last_data |-> None,
                   retries |-> 0, idle |-> 0, pos |-> 0, old |-> 0]
  /\ timers = 0
  /\ card = [c \in Clients |-> IF c \in Readers THEN File ELSE [i \in 1..OldBlocks |-> 0]]
  /\ client = [c \in Clients |-> [pc |-> "new", blk |-> 0, got |-> 0, ok |-> TRUE]]
  /\ toServer = [c \in Clients |-> <<>>] /\ toClient = [c \in Clients |-> <<>>]
  /\ extra = MaxExtra /\ starved = FALSE /\ spoiled = FALSE

(* udp_sendto(), and sending by a client: a datagram too many is lost.     *)
Sent(net, c, p) == [net EXCEPT ![c] = IF Len(@) < MaxNet THEN Append(@, p) ELSE @]

Answer(net, c, p) == toClient' = Sent(net, c, p)

(* close_handle(): sys_untimeout() takes one pending timer away.  Mutant:  *)
(* last_data is kept.                                                      *)
ClosedKeepsData(s) == [s EXCEPT !.client = None]

Closed(s) == [s EXCEPT !.client = None, !.last_data = None, !.old = 0]
Untimeout(n) == IF n > 0 THEN n - 1 ELSE 0

(* Every datagram of the peer restarts the timeout.                        *)
Heard(s) == [s EXCEPT !.idle = 0, !.retries = 0]

(* send_data(): the next part of the file becomes last_data and is sent.   *)
(* No memory: nothing is read or sent.  A read error ends the transfer.    *)
(* pending counts the timers.                                              *)
send_data(s, pending) ==
  LET c == s.client
      p == Data(s.blknum, s.pos + 1) IN
  \/ /\ s.pos < Blocks
     /\ tftp_state' = [s EXCEPT !.last_data = p, !.pos = @ + 1]
     /\ Answer(toClient, c, p)
     /\ timers' = pending /\ UNCHANGED starved
  \/ /\ tftp_state' = [s EXCEPT !.last_data = None]
     /\ timers' = pending /\ starved' = TRUE /\ UNCHANGED toClient
  \/ /\ tftp_state' = Closed(s)
     /\ Answer(toClient, c, Error)
     /\ timers' = Untimeout(pending) /\ UNCHANGED starved

(* recv() takes the first datagram of client c off the network.            *)
Receives(c, ops) ==
  /\ toServer[c] # <<>> /\ Head(toServer[c]).op \in ops
  /\ toServer' = [toServer EXCEPT ![c] = Tail(@)]
  /\ UNCHANGED <<client, extra>>

(* A datagram is refused with an error and changes nothing else.           *)
Refuse(c, s) ==
  /\ tftp_state' = s
  /\ Answer(toClient, c, Error)
  /\ UNCHANGED <<timers, card, starved>>

(* Somebody else holds the connection.                                     *)
RecvStranger(c) ==
  /\ tftp_state.client \notin {None, c}
  /\ Receives(c, {"rrq", "wrq", "data", "ack", "error"}) /\ UNCHANGED spoiled
  /\ Refuse(c, tftp_state)

Peer(c) == tftp_state.client \in {None, c}

(* A request: the timer starts before the request is looked at, and a bad  *)
(* name or mode or a failing f_open() leaves it running.                   *)
RecvRequest(c) ==
  LET op == Head(toServer[c]).op
      s  == [Heard(tftp_state) EXCEPT !.blknum = 1] IN
  /\ Peer(c) /\ Receives(c, {"rrq", "wrq"}) /\ UNCHANGED spoiled
  /\ \/ tftp_state.client # None /\ Refuse(c, Heard(tftp_state))
     \/ /\ tftp_state.client = None
        /\ tftp_state' \in {Heard(tftp_state), s}
        /\ Answer(toClient, c, Error)
        /\ timers' = timers + 1 /\ UNCHANGED <<card, starved>>
     \/ /\ tftp_state.client = None /\ op = "wrq"
        /\ tftp_state' = [s EXCEPT !.client = c, !.mode_write = TRUE, !.pos = 0, !.old = Len(card[c])]
        /\ Answer(toClient, c, Ack(0))
        /\ timers' = timers + 1 /\ UNCHANGED <<card, starved>>
     \/ /\ tftp_state.client = None /\ op = "rrq"
        /\ send_data([s EXCEPT !.client = c, !.mode_write = FALSE, !.pos = 0], timers + 1)
        /\ UNCHANGED card

(* f_write() at position pos; the file was opened without truncating it.   *)
Written(file, pos, d) ==
  IF pos < Len(file) THEN [file EXCEPT ![pos + 1] = d] ELSE Append(file, d)

(* f_close() of a file written: all of it is on the card, or, when the     *)
(* close fails, the directory entry still has the old length.  The error   *)
(* is only printed.                                                        *)
Left(file, old) == {file, SubSeq(file, 1, old)}

(* Data: the block waited for is written and acknowledged, the one before  *)
(* it acknowledged again.  An error in f_write() leaves anything in the    *)
(* block.  The last block is acknowledged before the file is closed: a     *)
(* failing f_close() may lose it, for a short block waits in FatFs' buffer *)
(* till then.  Mutant: a repeated block is written like a new one.         *)
RecvDataTwice(c) ==
  LET p == Head(toServer[c])
      s == Heard(tftp_state) IN
  /\ Peer(c) /\ Receives(c, {"data"}) /\ UNCHANGED <<starved, spoiled>>
  /\ \/ /\ s.client = c /\ s.mode_write /\ p.n \in {s.blknum, (s.blknum + BlkMod - 1) % BlkMod}
        /\ card' = [card EXCEPT ![c] = Written(@, s.pos, p.d)]
        /\ Answer(toClient, c, Ack(p.n))
        /\ IF Short(p) THEN tftp_state' = Closed(s) /\ timers' = Untimeout(timers)
           ELSE /\ tftp_state' = [s EXCEPT !.blknum = After(p.n), !.pos = IF @ < Blocks THEN @ + 1 ELSE @]
                /\ UNCHANGED timers
     \/ /\ ~(s.client = c /\ s.mode_write /\ p.n \in {s.blknum, (s.blknum + BlkMod - 1) % BlkMod})
        /\ Refuse(c, s)

RecvData(c) ==
  LET p == Head(toServer[c])
      s == Heard(tftp_state)
      open == s.client = c /\ s.mode_write IN
  /\ Peer(c) /\ Receives(c, {"data"}) /\ UNCHANGED starved
  /\ \/ /\ open /\ p.n = s.blknum /\ ~Short(p)
        /\ card' = [card EXCEPT ![c] = Written(@, s.pos, p.d)]
        /\ Answer(toClient, c, Ack(p.n))
        /\ tftp_state' = [s EXCEPT !.blknum = After(@), !.pos = @ + 1]
        /\ UNCHANGED <<timers, spoiled>>
     \/ /\ open /\ p.n = s.blknum /\ Short(p)
        /\ \E f \in Left(Written(card[c], s.pos, p.d), s.old) \cup Left(card[c], s.old) :
             /\ card' = [card EXCEPT ![c] = f]
             /\ spoiled' = (spoiled \/ f # Written(card[c], s.pos, p.d))
        /\ Answer(toClient, c, Ack(p.n))
        /\ tftp_state' = Closed(s) /\ timers' = Untimeout(timers)
     \/ /\ open /\ p.n = s.blknum
        /\ \E f \in Left(Written(card[c], s.pos, 0), s.old) : card' = [card EXCEPT ![c] = f]
        /\ spoiled' = (spoiled \/ (s.pos < Len(card[c]) /\ card[c][s.pos + 1] # 0))
        /\ Answer(toClient, c, Error)
        /\ tftp_state' = IF Short(p) THEN Closed(s) ELSE [Closed(s) EXCEPT !.blknum = After(@)]
        /\ timers' = IF Short(p) THEN Untimeout(Untimeout(timers)) ELSE Untimeout(timers)
     \/ /\ open /\ After(p.n) = s.blknum
        /\ tftp_state' = s
        /\ Answer(toClient, c, Ack(p.n))
        /\ UNCHANGED <<timers, card, spoiled>>
     \/ /\ ~open \/ s.blknum \notin {p.n, After(p.n)}
        /\ Refuse(c, s) /\ UNCHANGED spoiled

(* An acknowledgement: the next block, or the end after a short one.       *)
(* Mutant: the number is not looked at.                                    *)
RecvAckAny(c) ==
  LET s == Heard(tftp_state) IN
  /\ Peer(c) /\ Receives(c, {"ack"}) /\ UNCHANGED <<card, spoiled>>
  /\ \/ /\ s.client = c /\ ~s.mode_write
        /\ IF s.last_data # None /\ Short(s.last_data)
           THEN /\ tftp_state' = Closed(s) /\ timers' = Untimeout(timers)
                /\ UNCHANGED <<toClient, starved>>
           ELSE send_data([s EXCEPT !.blknum = After(Head(toServer[c]).n)], timers)
     \/ /\ ~(s.client = c /\ ~s.mode_write)
        /\ tftp_state' = s /\ Answer(toClient, c, Error) /\ UNCHANGED <<timers, starved>>

RecvAck(c) ==
  LET s == Heard(tftp_state)
      open == s.client = c /\ ~s.mode_write /\ Head(toServer[c]).n = s.blknum IN
  /\ Peer(c) /\ Receives(c, {"ack"}) /\ UNCHANGED <<card, spoiled>>
  /\ \/ /\ open /\ s.last_data # None /\ Short(s.last_data)
        /\ tftp_state' = Closed(s) /\ timers' = Untimeout(timers)
        /\ UNCHANGED <<toClient, starved>>
     \/ /\ open /\ ~(s.last_data # None /\ Short(s.last_data))
        /\ send_data([s EXCEPT !.blknum = After(@)], timers)
     \/ /\ ~open
        /\ tftp_state' = s /\ Answer(toClient, c, Error) /\ UNCHANGED <<timers, starved>>

(* Anything else, an error of the client included, is only answered.       *)
RecvOther(c) ==
  /\ Peer(c) /\ Receives(c, {"error"})
  /\ Refuse(c, Heard(tftp_state)) /\ UNCHANGED spoiled

(* tftp_tmr(): a timer without a transfer ends, any other starts again;    *)
(* after Limit ticks without a datagram the last block is sent again, at   *)
(* most MaxRetries times, then the transfer is given up.  Mutants: the     *)
(* timer does not start again; a client is never given up.                 *)
Elapsed == IF tftp_state.idle <= Limit THEN tftp_state.idle + 1 ELSE tftp_state.idle

TimerForgotten ==
  LET s == [tftp_state EXCEPT !.idle = Elapsed] IN
  /\ timers > 0 /\ timers' = timers - 1
  /\ IF s.client # None /\ s.idle > Limit /\ s.last_data = None
     THEN tftp_state' = Closed(s) ELSE tftp_state' = s
  /\ UNCHANGED <<card, client, toServer, toClient, extra, starved, spoiled>>

TimerPatient ==
  LET s == [tftp_state EXCEPT !.idle = Elapsed] IN
  /\ timers > 0
  /\ tftp_state' = s
  /\ timers' = IF s.client = None THEN timers - 1 ELSE timers
  /\ UNCHANGED <<card, client, toServer, toClient, extra, starved, spoiled>>

tftp_tmr ==
  LET s == [tftp_state EXCEPT !.idle = Elapsed]
      resend == s.last_data # None /\ s.retries < MaxRetries IN
  /\ timers > 0
  /\ \/ /\ s.client = None
        /\ tftp_state' = s /\ timers' = timers - 1 /\ UNCHANGED <<toClient, card>>
     \/ /\ s.client # None /\ s.idle <= Limit
        /\ tftp_state' = s /\ UNCHANGED <<timers, toClient, card>>
     \/ /\ s.client # None /\ s.idle > Limit /\ resend
        /\ tftp_state' = [s EXCEPT !.retries = @ + 1] /\ UNCHANGED <<timers, card>>
        /\ Answer(toClient, s.client, s.last_data)
     \/ /\ s.client # None /\ s.idle > Limit /\ ~resend
        /\ tftp_state' = Closed(s) /\ timers' = Untimeout(timers) /\ UNCHANGED toClient
        /\ \/ UNCHANGED card
           \/ s.mode_write /\ card' = [card EXCEPT ![s.client] = SubSeq(@, 1, s.old)]
  /\ UNCHANGED <<client, toServer, extra, starved, spoiled>>

-----------------------------------------------------------------------------
(* The clients, as RFC 1350 has them.                                      *)

(* What a client sends now: its request, or data or acknowledgement blk.   *)
Current(c) ==
  LET k == client[c] IN
  IF k.got = 0 THEN Packet(IF c \in Readers THEN "rrq" ELSE "wrq", 0, 0)
  ELSE IF c \in Readers THEN Ack(k.blk)
  ELSE Data(k.blk, k.got)

Says(c, p, net) ==
  /\ toServer' = Sent(toServer, c, p) /\ toClient' = net
  /\ UNCHANGED <<tftp_state, timers, card, starved, spoiled>>

Start(c) ==
  /\ client[c].pc = "new"
  /\ client' = [client EXCEPT ![c].pc = "busy"]
  /\ Says(c, Current(c), toClient) /\ UNCHANGED extra

(* Its own timeout.                                                        *)
Repeat(c) ==
  /\ client[c].pc = "busy" /\ extra > 0 /\ extra' = extra - 1
  /\ Says(c, Current(c), toClient) /\ UNCHANGED client

(* It gives up, and says so.                                               *)
Abort(c) ==
  /\ client[c].pc = "busy"
  /\ client' = [client EXCEPT ![c].pc = "failed"]
  /\ Says(c, Error, toClient) /\ UNCHANGED extra

(* The datagram it waits for moves a client on; got counts the blocks.     *)
Advance(c) ==
  LET p == Head(toClient[c])
      k == client[c]
      net == [toClient EXCEPT ![c] = Tail(@)]
      silent == toClient' = net /\ UNCHANGED <<tftp_state, timers, card, toServer, starved, spoiled>> IN
  /\ toClient[c] # <<>> /\ UNCHANGED extra
  /\ \/ /\ k.pc = "busy" /\ p.op = "error"
        /\ client' = [client EXCEPT ![c].pc = "failed"] /\ silent
     \/ /\ k.pc = "busy" /\ c \in Readers /\ p.op = "data" /\ p.n = After(k.blk)
        /\ client' = [client EXCEPT ![c] = [pc |-> IF Short(p) THEN "done" ELSE "busy",
                                            blk |-> p.n, got |-> IF k.got < Blocks THEN k.got + 1 ELSE k.got,
                                            ok |-> k.ok /\ p.d = k.got + 1]]
        /\ Says(c, Ack(p.n), net)
     \/ /\ k.pc \in {"busy", "done"} /\ c \in Readers /\ p.op = "data" /\ p.n = k.blk
        /\ Says(c, Ack(p.n), net) /\ UNCHANGED client
     \/ /\ k.pc = "busy" /\ c \notin Readers /\ p = Ack(k.blk)
        /\ IF k.got = Blocks
           THEN client' = [client EXCEPT ![c].pc = "done"] /\ silent
           ELSE /\ client' = [client EXCEPT ![c].blk = After(@), ![c].got = @ + 1]
                /\ Says(c, Data(After(k.blk), k.got + 1), net)
     \/ /\ \/ k.pc \in {"new", "failed"} \/ (k.pc = "done" /\ p.op # "data")
           \/ (k.pc = "busy" /\ p.op = "data" /\ p.n \notin {k.blk, After(k.blk)})
           \/ (k.pc = "busy" /\ p.op = "ack" /\ p.n # k.blk)
        /\ silent /\ UNCHANGED client

(* The network.                                                            *)
Lose(c) ==
  /\ \/ toServer[c] # <<>> /\ toServer' = [toServer EXCEPT ![c] = Tail(@)] /\ UNCHANGED toClient
     \/ toClient[c] # <<>> /\ toClient' = [toClient EXCEPT ![c] = Tail(@)] /\ UNCHANGED toServer
  /\ UNCHANGED <<tftp_state, timers, card, client, extra, starved, spoiled>>

(* A copy that arrives later.                                              *)
Duplicate(c) ==
  /\ toServer[c] # <<>> /\ Len(toServer[c]) < MaxNet
  /\ toServer' = Sent(toServer, c, Head(toServer[c]))
  /\ extra > 0 /\ extra' = extra - 1
  /\ UNCHANGED <<tftp_state, timers, card, client, toClient, starved, spoiled>>

Server == tftp_tmr \/ \E c \in Clients : \/ RecvStranger(c) \/ RecvRequest(c) \/ RecvData(c)
                                         \/ RecvAck(c) \/ RecvOther(c)

World == \E c \in Clients : Start(c) \/ Repeat(c) \/ Abort(c) \/ Advance(c) \/ Lose(c) \/ Duplicate(c)

Next == Server \/ World

(* Only the timers are certain to come: lwIP runs every timeout, whatever  *)
(* the clients and the network do.                                         *)
Spec == Init /\ [][Next]_vars /\ WF_vars(tftp_tmr)

-----------------------------------------------------------------------------
(* Properties.                                                             *)

(* A client that was told its upload is complete has its file on the card, *)
(* every block once and in order, whatever was lost, delayed or sent       *)
(* twice, and though block numbers wrap.  (What the file held beyond that  *)
(* length stays behind it.)  Two failures of the card are exempt: an       *)
(* f_close() that does not bring the upload to the card after its last     *)
(* block was acknowledged, and a write that fails in a later transfer of   *)
(* the same file, which a late copy of the request may start.  Every other *)
(* failing close or write, of a transfer given up, refused or broken off,  *)
(* takes nothing away from an upload that is complete.                     *)
UploadIntact ==
  spoiled \/ \A c \in Clients \ Readers : client[c].pc = "done" => SubSeq(card[c], 1, Blocks) = File

(* A client that downloads gets the blocks of the file in order, and is    *)
(* done only with all of them, as long as send_data() finds memory.  (When *)
(* it does not, the block number has moved on and the file has not: a late *)
(* acknowledgement then gets the old block under the new number.)          *)
DownloadIntact ==
  starved \/ \A c \in Readers : client[c].ok /\ (client[c].pc = "done" => client[c].got = Blocks)

(* An open file is watched by a timer, however many requests failed before *)
(* and however many timers close_handle() took away.                       *)
Watched ==
  tftp_state.client # None => timers > 0

(* The file handle is always given back, though the client may fall silent *)
(* at any point or give up with a datagram the server does not understand. *)
HandleReleased ==
  tftp_state.client # None ~> tftp_state.client = None

=============================================================================
