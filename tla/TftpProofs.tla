----------------------------- MODULE TftpProofs -----------------------------
(***************************************************************************)
(* What the TFTP server guarantees for any number of clients, blocks,      *)
(* retries and datagrams on the way.                                       *)
(*                                                                         *)
(* An open file is watched by a timer: without one the handle of a client  *)
(* that falls silent would never be given back.  This holds whatever the   *)
(* block numbers do.                                                       *)
(*                                                                         *)
(* Uploads and downloads are intact, as long as a file has fewer blocks    *)
(* than there are block numbers: then a number says which block a datagram *)
(* carries, and no datagram is too old.                                    *)
(***************************************************************************)
EXTENDS Tftp, SequenceTheorems, TLAPS

(* Watched with what it needs: the timers are counted and the record keeps *)
(* the field that says who holds the handle.                               *)
TimerInv ==
  /\ timers \in Nat
  /\ "client" \in DOMAIN tftp_state
  /\ Watched

(* close_handle() gives the handle back and takes at most one timer.       *)
LEMMA ClosedFacts ==
  ASSUME NEW s, "client" \in DOMAIN s, NEW n \in Nat
  PROVE  /\ "client" \in DOMAIN Closed(s) /\ Closed(s).client = None
         /\ Untimeout(n) \in Nat
  BY DEF Closed, Untimeout

(* A datagram of the peer does not change who holds the handle.            *)
LEMMA HeardFacts ==
  ASSUME NEW s, "client" \in DOMAIN s
  PROVE  "client" \in DOMAIN Heard(s) /\ Heard(s).client = s.client
  BY DEF Heard

(* A step that leaves the holder and the timers alone.                     *)
LEMMA Frame ==
  ASSUME TimerInv, "client" \in DOMAIN tftp_state', tftp_state'.client = tftp_state.client,
         timers' = timers
  PROVE  TimerInv'
  BY DEF TimerInv, Watched

(* send_data() keeps the handle with the timers it was called with, or     *)
(* closes it.                                                              *)
LEMMA SendDataKeeps ==
  ASSUME NEW s, "client" \in DOMAIN s, NEW n \in Nat, n > 0, send_data(s, n)
  PROVE  TimerInv'
  <1>1. CASE tftp_state' = Closed(s) /\ timers' = Untimeout(n)
    BY <1>1, ClosedFacts DEF TimerInv, Watched
  <1>2. CASE tftp_state' = [s EXCEPT !.last_data = None] /\ timers' = n
    BY <1>2 DEF TimerInv, Watched
  <1>3. CASE /\ tftp_state' = [s EXCEPT !.last_data = Data(s.blknum, s.pos + 1), !.pos = @ + 1]
             /\ timers' = n
    BY <1>3 DEF TimerInv, Watched
  <1> QED BY <1>1, <1>2, <1>3 DEF send_data

(* A read or write request, granted, refused or failed half-way.           *)
LEMMA RequestKeeps ==
  ASSUME TimerInv, NEW c \in Clients, RecvRequest(c)
  PROVE  TimerInv'
  <1> DEFINE s == [Heard(tftp_state) EXCEPT !.blknum = 1]
  <1>1. /\ "client" \in DOMAIN Heard(tftp_state) /\ Heard(tftp_state).client = tftp_state.client
        /\ "client" \in DOMAIN s /\ s.client = tftp_state.client
    BY HeardFacts DEF TimerInv
  <1>2. timers \in Nat /\ timers + 1 \in Nat /\ timers + 1 > 0
    BY DEF TimerInv
  <1>3. CASE Refuse(c, Heard(tftp_state))
    BY <1>1, <1>3, Frame DEF Refuse
  <1>4. CASE /\ tftp_state.client = None
             /\ tftp_state' \in {Heard(tftp_state), s} /\ timers' = timers + 1
    BY <1>1, <1>2, <1>4 DEF TimerInv, Watched
  <1>5. CASE /\ tftp_state' = [s EXCEPT !.client = c, !.mode_write = TRUE, !.pos = 0, !.old = Len(card[c])]
             /\ timers' = timers + 1
    <2>1. "client" \in DOMAIN tftp_state'
      BY <1>1, <1>5
    <2> QED BY <1>2, <1>5, <2>1 DEF TimerInv, Watched
  <1>6. CASE send_data([s EXCEPT !.client = c, !.mode_write = FALSE, !.pos = 0], timers + 1)
    <2>1. "client" \in DOMAIN [s EXCEPT !.client = c, !.mode_write = FALSE, !.pos = 0]
      BY <1>1
    <2> QED BY <1>2, <1>6, <2>1, SendDataKeeps
  <1> HIDE DEF s
  <1> QED BY <1>3, <1>4, <1>5, <1>6 DEF RecvRequest, s

(* A data packet of a write, expected or not.                              *)
LEMMA DataKeeps ==
  ASSUME TimerInv, NEW c \in Clients, RecvData(c)
  PROVE  TimerInv'
  <1> DEFINE s == Heard(tftp_state)
  <1>1. "client" \in DOMAIN s /\ s.client = tftp_state.client /\ timers \in Nat
    BY HeardFacts DEF TimerInv
  <1>2. /\ "client" \in DOMAIN Closed(s) /\ Closed(s).client = None
        /\ Untimeout(timers) \in Nat /\ Untimeout(Untimeout(timers)) \in Nat
    BY <1>1, ClosedFacts
  <1>3. CASE Refuse(c, s) \/ (tftp_state' = s /\ UNCHANGED timers)
    BY <1>1, <1>3, Frame DEF Refuse
  <1>4. CASE tftp_state' = [s EXCEPT !.blknum = After(@), !.pos = @ + 1] /\ UNCHANGED timers
    BY <1>1, <1>4, Frame
  <1>5. CASE /\ tftp_state' = Closed(s) \/ tftp_state' = [Closed(s) EXCEPT !.blknum = After(@)]
             /\ timers' \in {Untimeout(timers), Untimeout(Untimeout(timers))}
    BY <1>2, <1>5 DEF TimerInv, Watched
  <1> HIDE DEF s
  <1> QED BY <1>3, <1>4, <1>5 DEF RecvData, s

(* An acknowledgement in a read, expected or not.                          *)
LEMMA AckKeeps ==
  ASSUME TimerInv, NEW c \in Clients, RecvAck(c)
  PROVE  TimerInv'
  <1> DEFINE s == Heard(tftp_state)
             t == [s EXCEPT !.blknum = After(@)]
  <1>1. /\ "client" \in DOMAIN s /\ s.client = tftp_state.client /\ timers \in Nat
        /\ "client" \in DOMAIN t
    BY HeardFacts DEF TimerInv
  <1>2. CASE tftp_state' = s /\ UNCHANGED timers
    BY <1>1, <1>2, Frame
  <1>3. CASE tftp_state' = Closed(s) /\ timers' = Untimeout(timers)
    BY <1>1, <1>3, ClosedFacts DEF TimerInv, Watched
  <1>4. CASE s.client = c /\ send_data(t, timers)
    <2>1. timers > 0
      BY <1>1, <1>4, TftpAssumption DEF TimerInv, Watched
    <2> QED BY <1>1, <1>4, <2>1, SendDataKeeps
  <1> HIDE DEF s, t
  <1> QED BY <1>2, <1>3, <1>4 DEF RecvAck, s, t

(* The timer retries, gives up or runs on nothing.                         *)
LEMMA TimerKeeps ==
  ASSUME TimerInv, tftp_tmr
  PROVE  TimerInv'
  <1> DEFINE s == [tftp_state EXCEPT !.idle = Elapsed]
  <1>1. "client" \in DOMAIN s /\ s.client = tftp_state.client /\ timers \in Nat /\ timers > 0
    BY DEF TimerInv, tftp_tmr
  <1>2. CASE s.client = None /\ tftp_state' = s /\ timers' = timers - 1
    BY <1>1, <1>2 DEF TimerInv, Watched
  <1>3. CASE tftp_state' = s /\ UNCHANGED timers
    BY <1>1, <1>3, Frame
  <1>4. CASE tftp_state' = [s EXCEPT !.retries = @ + 1] /\ UNCHANGED timers
    BY <1>1, <1>4, Frame
  <1>5. CASE tftp_state' = Closed(s) /\ timers' = Untimeout(timers)
    BY <1>1, <1>5, ClosedFacts DEF TimerInv, Watched
  <1> HIDE DEF s
  <1> QED BY <1>2, <1>3, <1>4, <1>5 DEF tftp_tmr, s

(* Clients and network leave the server alone.                             *)
LEMMA WorldKeeps ==
  ASSUME TimerInv, NEW c \in Clients,
         Start(c) \/ Repeat(c) \/ Abort(c) \/ Advance(c) \/ Lose(c) \/ Duplicate(c)
  PROVE  TimerInv'
  <1>1. UNCHANGED <<tftp_state, timers>>
    BY DEF Start, Repeat, Abort, Advance, Lose, Duplicate, Says
  <1> QED BY <1>1 DEF TimerInv, Watched

(* Every step keeps TimerInv.                                              *)
LEMMA TimerNext == TimerInv /\ [Next]_vars => TimerInv'
  <1> SUFFICES ASSUME TimerInv, [Next]_vars
               PROVE  TimerInv'
    OBVIOUS
  <1>1. CASE tftp_tmr
    BY <1>1, TimerKeeps
  <1>2. ASSUME NEW c \in Clients, RecvStranger(c) \/ RecvOther(c)
        PROVE  TimerInv'
    BY <1>2, HeardFacts, Frame DEF RecvStranger, RecvOther, Refuse, TimerInv
  <1>3. ASSUME NEW c \in Clients, RecvRequest(c) \/ RecvData(c) \/ RecvAck(c)
        PROVE  TimerInv'
    BY <1>3, RequestKeeps, DataKeeps, AckKeeps
  <1>4. CASE World
    BY <1>4, WorldKeeps DEF World
  <1>5. CASE UNCHANGED vars
    BY <1>5 DEF vars, TimerInv, Watched
  <1> QED BY <1>1, <1>2, <1>3, <1>4, <1>5 DEF Next, Server

(* close_handle() and the requests that fail with their timer running      *)
(* never leave an open file without a timer.                               *)
THEOREM AlwaysWatched == Spec => []Watched
  <1>1. Init => TimerInv
    BY DEF Init, TimerInv, Watched
  <1>2. TimerInv => Watched
    BY DEF TimerInv
  <1> QED BY <1>1, <1>2, TimerNext, PTL DEF Spec

-----------------------------------------------------------------------------
(* Transfers.  Up to here block numbers could be anything; from here on a  *)
(* file has fewer blocks than there are numbers, and a datagram of data    *)
(* carries the block of its number, however late it comes.                 *)

States ==
  [client : Clients \cup {None}, mode_write : BOOLEAN, blknum : Numbers,
   last_data : Datagrams \cup {None}, retries : 0..MaxRetries, idle : 0..Limit + 1,
   pos : 0..Blocks, old : Nat]
Peers ==
  [pc : {"new", "busy", "done", "failed"}, blk : Numbers, got : 0..Blocks, ok : BOOLEAN]

(* What a client sends, by its role.                                       *)
InStep == {p \in Datagrams : p.op = "data" => p.n = p.d}
FromClient(c) ==
  {p \in InStep : p.op \in IF c \in Readers THEN {"rrq", "ack", "error"} ELSE {"wrq", "data", "error"}}

(* An open transfer goes the way of its client's role; an upload waits for *)
(* the block behind the position.                                          *)
Session(s) ==
  /\ s \in States
  /\ s.client = None => s.last_data = None
  /\ s.client \in Readers => ~s.mode_write
  /\ s.client \in Clients \ Readers =>
       s.mode_write /\ s.last_data = None /\ s.blknum = s.pos + 1 /\ s.pos < Blocks

(* In a download the block last sent is that of the position.              *)
Reading(s) ==
  s.client \in Readers => s.pos > 0 /\ s.blknum = s.pos /\ s.last_data = Data(s.pos, s.pos)

ServerInv == Session(tftp_state) /\ starved \in BOOLEAN /\ (~starved => Reading(tftp_state))

WorldInv ==
  /\ client \in [Clients -> Peers] /\ extra \in 0..MaxExtra
  /\ toServer \in [Clients -> Seq(Datagrams)]
  /\ \A c \in Clients : toServer[c] \in Seq(FromClient(c))
  /\ \A c \in Clients \ Readers : client[c].blk = client[c].got

(* A file that is open for writing is not shorter than it was.             *)
CardType ==
  /\ card \in [Clients -> Seq(0..Blocks)] /\ spoiled \in BOOLEAN
  /\ tftp_state.client \in Clients \ Readers => tftp_state.old <= Len(card[tftp_state.client])

(* What is on the way to the clients, and how far downloads are.           *)
BackInv ==
  /\ toClient \in [Clients -> Seq(Datagrams)]
  /\ ~starved => \A c \in Readers : toClient[c] \in Seq(InStep)

DownInv ==
  ~starved => \A c \in Readers : /\ client[c].ok /\ client[c].blk = client[c].got
                                 /\ client[c].pc = "done" => client[c].got = Blocks

TftpInv == TimerInv /\ ServerInv /\ WorldInv /\ CardType /\ BackInv /\ DownInv

(* The first n blocks of an upload are on the card; the acknowledgement of *)
(* the last one says that all of them are.                                 *)
Holds(file, n) == n <= Len(file) /\ \A i \in 1..n : file[i] = i
Told(c) == {p \in Datagrams : p.op = "ack" /\ p.n = Blocks => Holds(card[c], Blocks)}

(* An open upload has written the blocks up to its position, and only they *)
(* can be longer than the file was: a failing close takes no others away.  *)
InPlace(file, s) == Holds(file, s.pos) /\ (Len(file) <= s.old \/ Len(file) <= s.pos)

UpInv ==
  /\ tftp_state.client \in Clients \ Readers => InPlace(card[tftp_state.client], tftp_state)
  /\ \A c \in Clients \ Readers : /\ toClient[c] \in Seq(Told(c))
                                  /\ client[c].pc = "done" => Holds(card[c], Blocks)

-----------------------------------------------------------------------------
(* The pieces a step is made of.                                           *)

(* The constants are numbers, and no client is none.                       *)
LEMMA Bounds ==
  /\ Readers \subseteq Clients /\ None \notin Clients
  /\ Blocks \in Nat /\ Blocks > 0 /\ BlkMod \in Nat /\ BlkMod > 2 /\ MaxNet \in Nat
  /\ OldBlocks \in Nat /\ Limit \in Nat /\ MaxRetries \in Nat /\ MaxExtra \in Nat
BY TftpAssumption

(* The next block number, which wraps only behind the last block.          *)
LEMMA AfterFacts ==
  ASSUME NEW n \in Numbers
  PROVE  After(n) \in Numbers /\ (n + 1 < BlkMod => After(n) = n + 1)
BY Bounds DEF After, Numbers

(* Datagrams.                                                              *)
LEMMA PacketTypes ==
  /\ Error \in InStep /\ Packet("rrq", 0, 0) \in InStep /\ Packet("wrq", 0, 0) \in InStep
  /\ \A n \in Numbers : Ack(n) \in InStep
  /\ \A n \in Numbers, d \in 1..Blocks : Data(n, d) \in Datagrams /\ (n = d => Data(n, d) \in InStep)
BY DEF InStep, Datagrams, Error, Ack, Data, Packet

(* The fields of a datagram, by its kind.                                   *)
LEMMA PacketFields ==
  ASSUME NEW p \in Datagrams
  PROVE  /\ p.op \in {"rrq", "wrq", "error", "ack", "data"} /\ p.n \in Nat /\ p.d \in Nat
         /\ p.op \in {"ack", "data"} => p.n \in Numbers
         /\ p.op = "data" => p.d \in 1..Blocks
         /\ p.op # "data" => p.d = 0
BY Bounds DEF Datagrams, Numbers

(* Sending adds a datagram to one queue at most.                           *)
LEMMA SentType ==
  ASSUME NEW net \in [Clients -> Seq(Datagrams)], NEW c \in Clients, NEW p \in Datagrams
  PROVE  /\ Sent(net, c, p) \in [Clients -> Seq(Datagrams)]
         /\ \A d \in Clients : d # c => Sent(net, c, p)[d] = net[d]
BY DEF Sent

(* A datagram sent is in the set its queue draws from, or leaves it.        *)
LEMMA SentIn ==
  ASSUME NEW net \in [Clients -> Seq(Datagrams)], NEW c \in Clients, NEW p, NEW S,
         NEW d \in Clients, net[d] \in Seq(S), d = c => p \in S
  PROVE  Sent(net, c, p)[d] \in Seq(S)
<1>1. Sent(net, c, p)[d] = IF d = c /\ Len(net[d]) < MaxNet THEN Append(net[d], p) ELSE net[d]
  BY DEF Sent
<1>2. d = c => Append(net[d], p) \in Seq(S)
  BY AppendProperties
<1>3. QED BY <1>1, <1>2

(* Taking the first datagram off a queue.                                  *)
LEMMA TailIn ==
  ASSUME NEW S, NEW s \in Seq(S), s # <<>>
  PROVE  Tail(s) \in Seq(S) /\ Head(s) \in S
BY HeadTailProperties

(* Hearing a datagram, and closing.                                        *)
LEMMA HeardSession ==
  ASSUME NEW s, Session(s)
  PROVE  /\ Session(Heard(s)) /\ (Reading(s) => Reading(Heard(s)))
         /\ Heard(s).client = s.client /\ Heard(s).mode_write = s.mode_write /\ Heard(s).pos = s.pos
         /\ Heard(s).blknum = s.blknum /\ Heard(s).last_data = s.last_data /\ Heard(s).old = s.old
<1>1. s \in States /\ 0 \in 0..MaxRetries /\ 0 \in 0..Limit + 1
  BY Bounds DEF Session
<1>2. Heard(s) \in States
  BY <1>1 DEF Heard, States
<1>3. /\ Heard(s).client = s.client /\ Heard(s).mode_write = s.mode_write /\ Heard(s).pos = s.pos
      /\ Heard(s).blknum = s.blknum /\ Heard(s).last_data = s.last_data /\ Heard(s).old = s.old
  BY <1>1 DEF Heard, States
<1>4. QED BY <1>2, <1>3 DEF Session, Reading

(* A closed handle is in order whatever the transfer was.                  *)
LEMMA ClosedSession ==
  ASSUME NEW s \in States
  PROVE  /\ Session(Closed(s)) /\ Reading(Closed(s)) /\ Closed(s) \in States
         /\ Closed(s).client = None /\ Closed(s).blknum = s.blknum
<1>1. Closed(s) \in States /\ Closed(s).client = None /\ Closed(s).last_data = None
      /\ Closed(s).blknum = s.blknum
  BY DEF Closed, States
<1>2. None \notin Readers /\ None \notin Clients \ Readers
  BY Bounds
<1>3. QED BY <1>1, <1>2 DEF Session, Reading

(* A closed handle may have any block number.                              *)
LEMMA Renumbered ==
  ASSUME NEW s, Session(s), s.client = None, NEW n \in Numbers
  PROVE  Session([s EXCEPT !.blknum = n]) /\ Reading([s EXCEPT !.blknum = n])
<1>1. s \in States /\ None \notin Readers /\ None \notin Clients \ Readers
  BY Bounds DEF Session
<1>2. PICK t \in States : t = [s EXCEPT !.blknum = n] /\ t.client = None /\ t.last_data = s.last_data
  <2>1. [s EXCEPT !.blknum = n] \in States
    BY <1>1 DEF States
  <2>2. [s EXCEPT !.blknum = n].client = None /\ [s EXCEPT !.blknum = n].last_data = s.last_data
    BY <1>1 DEF States
  <2>3. QED BY <2>1, <2>2
<1>3. QED BY <1>1, <1>2 DEF Session, Reading

-----------------------------------------------------------------------------
(* The server's steps.                                                     *)

(* An answer.                                                              *)
LEMMA Answered ==
  ASSUME BackInv, NEW c \in Clients, NEW p \in Datagrams,
         toClient' = toClient \/ toClient' = Sent(toClient, c, p),
         ~starved' => ~starved /\ p \in InStep
  PROVE  BackInv'
<1>1. toClient \in [Clients -> Seq(Datagrams)]
  BY DEF BackInv
<1>2. toClient' \in [Clients -> Seq(Datagrams)]
  BY <1>1, SentType
<1>3. ASSUME ~starved', NEW d \in Readers PROVE toClient'[d] \in Seq(InStep)
  <2>1. toClient[d] \in Seq(InStep) /\ d \in Clients
    BY <1>3, Bounds DEF BackInv
  <2>2. CASE toClient' = toClient
    BY <2>1, <2>2
  <2>3. CASE toClient' = Sent(toClient, c, p)
    BY <1>1, <1>3, <2>1, <2>3, SentIn
  <2>4. QED BY <2>2, <2>3
<1>4. QED BY <1>2, <1>3 DEF BackInv

(* send_data(): the block behind the position, under the number waited     *)
(* for, or nothing, or an end.                                             *)
LEMMA SendDataSteps ==
  ASSUME BackInv, starved \in BOOLEAN, NEW s \in States, s.client \in Readers, ~s.mode_write, NEW n,
         ~starved => s.blknum = s.pos + 1, send_data(s, n)
  PROVE  ServerInv' /\ BackInv'
<1>1. s.client \in Clients /\ s.client # None /\ s.blknum \in Numbers /\ s.pos \in 0..Blocks
  BY Bounds DEF States
<1>2. PICK c \in Clients : c = s.client
  BY <1>1
<1>3. CASE /\ s.pos < Blocks
           /\ tftp_state' = [s EXCEPT !.last_data = Data(s.blknum, s.pos + 1), !.pos = @ + 1]
           /\ Answer(toClient, c, Data(s.blknum, s.pos + 1)) /\ UNCHANGED starved
  <2>1. PICK m \in 1..Blocks : m = s.pos + 1
    BY <1>1, <1>3, Bounds
  <2>2. PICK p \in Datagrams : p = Data(s.blknum, m) /\ (s.blknum = m => p \in InStep)
    BY <1>1, PacketTypes
  <2>3. tftp_state' = [s EXCEPT !.last_data = p, !.pos = m]
    BY <1>3, <2>1, <2>2
  <2>4. m \in 0..Blocks
    BY <2>1, Bounds
  <2>5. tftp_state' \in States
    BY <2>3, <2>4 DEF States
  <2>6. /\ tftp_state'.client = s.client /\ tftp_state'.mode_write = s.mode_write /\ tftp_state'.pos = m
        /\ tftp_state'.last_data = p /\ tftp_state'.blknum = s.blknum
    BY <2>3 DEF States
  <2>7. Session(tftp_state')
    BY <1>1, <2>5, <2>6 DEF Session
  <2>8. ~starved => Reading(tftp_state')
    BY <2>1, <2>2, <2>6, Bounds DEF Reading
  <2>9. BackInv'
    BY <1>3, <2>1, <2>2, Answered DEF Answer
  <2>10. QED BY <1>3, <2>7, <2>8, <2>9 DEF ServerInv, Session, Reading
<1>4. CASE tftp_state' = [s EXCEPT !.last_data = None] /\ starved' = TRUE /\ UNCHANGED toClient
  <2>1. tftp_state' \in States
    BY <1>4 DEF States
  <2>2. tftp_state'.client = s.client /\ tftp_state'.mode_write = s.mode_write
        /\ tftp_state'.last_data = None
    BY <1>4 DEF States
  <2>3. Session(tftp_state')
    BY <1>1, <2>1, <2>2 DEF Session
  <2>4. BackInv'
    BY <1>4 DEF BackInv
  <2>5. QED BY <1>4, <2>3, <2>4 DEF ServerInv, Session
<1>5. CASE tftp_state' = Closed(s) /\ Answer(toClient, c, Error) /\ UNCHANGED starved
  <2>1. Error \in InStep /\ Error \in Datagrams
    BY PacketTypes DEF InStep
  <2>2. BackInv'
    BY <1>5, <2>1, Answered DEF Answer
  <2>3. Session(tftp_state') /\ Reading(tftp_state')
    BY <1>5, ClosedSession
  <2>4. QED BY <1>5, <2>2, <2>3 DEF ServerInv, Session, Reading
<1>6. QED BY <1>2, <1>3, <1>4, <1>5 DEF send_data

(* A refusal.                                                              *)
LEMMA RefuseSteps ==
  ASSUME ServerInv, BackInv, NEW c \in Clients, NEW s, Session(s), ~starved => Reading(s), Refuse(c, s)
  PROVE  ServerInv' /\ BackInv'
<1>1. tftp_state' = s /\ starved' = starved /\ toClient' = Sent(toClient, c, Error)
  BY DEF Refuse, Answer
<1>2. Error \in InStep /\ Error \in Datagrams
  BY PacketTypes DEF InStep
<1>3. BackInv'
  BY <1>1, <1>2, Answered
<1>4. QED BY <1>1, <1>3 DEF ServerInv, Session, Reading

(* The datagram received comes from a client in its role.                  *)
LEMMA Received ==
  ASSUME WorldInv, NEW c \in Clients, NEW ops, Receives(c, ops)
  PROVE  /\ Head(toServer[c]) \in FromClient(c) /\ Head(toServer[c]) \in InStep
         /\ Head(toServer[c]) \in Datagrams /\ Head(toServer[c]).op \in ops
         /\ WorldInv'
<1>1. /\ toServer[c] \in Seq(FromClient(c)) /\ toServer[c] # <<>> /\ Head(toServer[c]).op \in ops
      /\ toServer' = [toServer EXCEPT ![c] = Tail(@)] /\ UNCHANGED <<client, extra>>
      /\ toServer \in [Clients -> Seq(Datagrams)]
  BY DEF WorldInv, Receives
<1>2. Head(toServer[c]) \in FromClient(c) /\ Tail(toServer[c]) \in Seq(FromClient(c))
      /\ Tail(toServer[c]) \in Seq(Datagrams)
  BY <1>1, TailIn
<1>3. toServer' \in [Clients -> Seq(Datagrams)]
  BY <1>1, <1>2
<1>4. \A d \in Clients : toServer'[d] \in Seq(FromClient(d))
  BY <1>1, <1>2 DEF WorldInv
<1>5. QED BY <1>1, <1>2, <1>3, <1>4 DEF WorldInv, FromClient, InStep

(* Datagrams of a stranger and errors are refused.                         *)
LEMMA StrangerSteps ==
  ASSUME ServerInv, WorldInv, BackInv, NEW c \in Clients, RecvStranger(c) \/ RecvOther(c)
  PROVE  ServerInv' /\ BackInv'
<1>1. Refuse(c, tftp_state) \/ Refuse(c, Heard(tftp_state))
  BY DEF RecvStranger, RecvOther
<1>2. Session(tftp_state) /\ Session(Heard(tftp_state))
      /\ (~starved => Reading(tftp_state) /\ Reading(Heard(tftp_state)))
  BY HeardSession DEF ServerInv
<1>3. QED BY <1>1, <1>2, RefuseSteps

(* A request opens the transfer of its kind, or none.                      *)
LEMMA RequestSteps ==
  ASSUME ServerInv, WorldInv, BackInv, CardType, NEW c \in Clients, RecvRequest(c)
  PROVE  ServerInv' /\ BackInv'
<1>1. PICK h : h = Heard(tftp_state)
  OBVIOUS
<1>2. Session(h) /\ (~starved => Reading(h)) /\ h.client = tftp_state.client /\ h \in States
      /\ starved \in BOOLEAN
  BY <1>1, HeardSession DEF ServerInv, Session
<1>3. PICK p \in FromClient(c) : p = Head(toServer[c]) /\ p.op \in {"rrq", "wrq"}
  BY Received DEF RecvRequest
<1>4. 1 \in Numbers /\ 0 \in Numbers /\ 0 \in 0..Blocks
  BY Bounds DEF Numbers
<1>5. PICK s \in States : s = [h EXCEPT !.blknum = 1] /\ s.client = h.client /\ s.blknum = 1
                          /\ s.last_data = h.last_data
  <2>1. [h EXCEPT !.blknum = 1] \in States
    BY <1>2, <1>4 DEF States
  <2>2. /\ [h EXCEPT !.blknum = 1].client = h.client /\ [h EXCEPT !.blknum = 1].blknum = 1
        /\ [h EXCEPT !.blknum = 1].last_data = h.last_data
    BY <1>2 DEF States
  <2>3. QED BY <2>1, <2>2
<1>6. Error \in InStep /\ Error \in Datagrams /\ Ack(0) \in InStep /\ Ack(0) \in Datagrams
  BY <1>4, PacketTypes DEF InStep
<1>7. CASE Refuse(c, h)
  BY <1>2, <1>7, RefuseSteps
<1>8. CASE /\ tftp_state.client = None /\ tftp_state' \in {h, s}
           /\ Answer(toClient, c, Error) /\ UNCHANGED starved
  <2>1. BackInv'
    BY <1>6, <1>8, Answered DEF Answer
  <2>2. Session(tftp_state') /\ (~starved => Reading(tftp_state'))
    BY <1>2, <1>4, <1>5, <1>8, Renumbered
  <2>3. QED BY <1>2, <1>8, <2>1, <2>2 DEF ServerInv, Session, Reading
<1>9. CASE /\ tftp_state.client = None /\ p.op = "wrq"
           /\ tftp_state' = [s EXCEPT !.client = c, !.mode_write = TRUE, !.pos = 0, !.old = Len(card[c])]
           /\ Answer(toClient, c, Ack(0)) /\ UNCHANGED starved
  <2>1. c \notin Readers /\ c # None
    BY <1>3, <1>9, Bounds DEF FromClient
  <2>2. BackInv'
    BY <1>6, <1>9, Answered DEF Answer
  <2>3. tftp_state' \in States
    <3>1. Len(card[c]) \in Nat
      BY LenProperties DEF CardType
    <3>2. QED BY <1>4, <1>9, <3>1 DEF States
  <2>4. /\ tftp_state'.client = c /\ tftp_state'.mode_write /\ tftp_state'.pos = 0
        /\ tftp_state'.blknum = 1 /\ tftp_state'.last_data = None
    BY <1>2, <1>5, <1>9 DEF States, Session
  <2>5. Session(tftp_state') /\ Reading(tftp_state')
    BY <2>1, <2>3, <2>4, Bounds DEF Session, Reading
  <2>6. QED BY <1>2, <1>9, <2>2, <2>5 DEF ServerInv, Session, Reading
<1>10. CASE /\ tftp_state.client = None /\ p.op = "rrq"
            /\ send_data([s EXCEPT !.client = c, !.mode_write = FALSE, !.pos = 0], timers + 1)
  <2>1. c \in Readers
    BY <1>3, <1>10 DEF FromClient
  <2>2. PICK t \in States : t = [s EXCEPT !.client = c, !.mode_write = FALSE, !.pos = 0]
                            /\ t.client = c /\ ~t.mode_write /\ t.pos = 0 /\ t.blknum = 1
    <3>1. [s EXCEPT !.client = c, !.mode_write = FALSE, !.pos = 0] \in States
      BY <1>4 DEF States
    <3>2. /\ [s EXCEPT !.client = c, !.mode_write = FALSE, !.pos = 0].client = c
          /\ ~[s EXCEPT !.client = c, !.mode_write = FALSE, !.pos = 0].mode_write
          /\ [s EXCEPT !.client = c, !.mode_write = FALSE, !.pos = 0].pos = 0
          /\ [s EXCEPT !.client = c, !.mode_write = FALSE, !.pos = 0].blknum = 1
      BY <1>5 DEF States
    <3>3. QED BY <3>1, <3>2
  <2>3. t.blknum = t.pos + 1
    BY <2>2
  <2>4. PICK n : send_data(t, n)
    BY <1>10, <2>2
  <2>5. QED BY <1>2, <2>1, <2>2, <2>3, <2>4, SendDataSteps
<1>11. QED BY <1>1, <1>3, <1>5, <1>7, <1>8, <1>9, <1>10 DEF RecvRequest

(* What f_write() leaves is a file.                                        *)
LEMMA WrittenType ==
  ASSUME NEW f \in Seq(0..Blocks), NEW pos \in Nat, NEW d \in 0..Blocks
  PROVE  Written(f, pos, d) \in Seq(0..Blocks) /\ Len(f) <= Len(Written(f, pos, d))
<1>1. CASE pos < Len(f)
  <2>1. pos + 1 \in 1..Len(f) /\ Len(f) \in Nat
    BY <1>1, LenProperties
  <2>2. [f EXCEPT ![pos + 1] = d] \in Seq(0..Blocks) /\ Len([f EXCEPT ![pos + 1] = d]) = Len(f)
    BY <2>1, ExceptSeq
  <2>3. QED BY <1>1, <2>2 DEF Written
<1>2. CASE ~(pos < Len(f))
  BY <1>2, AppendProperties, LenProperties DEF Written
<1>3. QED BY <1>1, <1>2

(* What a failing f_close() leaves is the beginning of it.                 *)
LEMMA CutType ==
  ASSUME NEW f \in Seq(0..Blocks), NEW n \in Nat, n <= Len(f)
  PROVE  /\ SubSeq(f, 1, n) \in Seq(0..Blocks) /\ Len(SubSeq(f, 1, n)) = n
         /\ \A i \in 1..n : SubSeq(f, 1, n)[i] = f[i]
<1>1. Len(f) \in Nat /\ \A i \in 1..Len(f) : f[i] \in 0..Blocks
  BY LenProperties, ElementOfSeq
<1>2. QED BY <1>1

(* A datagram of data moves an upload on by the block it waits for.        *)
LEMMA DataSteps ==
  ASSUME Blocks < BlkMod, ServerInv, WorldInv, BackInv, CardType, NEW c \in Clients, RecvData(c)
  PROVE  ServerInv' /\ BackInv' /\ CardType'
<1>1. PICK h : h = Heard(tftp_state)
  OBVIOUS
<1>2. /\ Session(h) /\ (~starved => Reading(h)) /\ h \in States /\ starved \in BOOLEAN
      /\ h.client = tftp_state.client /\ h.old = tftp_state.old /\ h.old \in Nat
  BY <1>1, HeardSession DEF ServerInv, Session, States
<1>3. PICK p \in FromClient(c) : p = Head(toServer[c]) /\ p.op = "data" /\ p \in InStep /\ p \in Datagrams
  BY Received DEF RecvData
<1>4. c \notin Readers /\ c # None /\ p.n = p.d /\ p.d \in 1..Blocks /\ p.n \in Numbers
  BY <1>3, PacketFields, Bounds DEF FromClient, InStep
<1>5. starved' = starved
  BY DEF RecvData
<1>6. Error \in InStep /\ Error \in Datagrams /\ Ack(p.n) \in InStep /\ Ack(p.n) \in Datagrams
  BY <1>4, PacketTypes DEF InStep
<1>7. ASSUME toClient' = Sent(toClient, c, Error) \/ toClient' = Sent(toClient, c, Ack(p.n)),
             Session(tftp_state'), ~starved => Reading(tftp_state')
      PROVE  ServerInv' /\ BackInv'
  <2>1. BackInv'
    BY <1>5, <1>6, <1>7, Answered
  <2>2. QED BY <1>2, <1>5, <1>7, <2>1 DEF ServerInv, Session, Reading
<1>8. PICK m \in Nat, b \in Numbers : m = h.pos /\ b = h.blknum /\ h.pos \in 0..Blocks
  BY <1>2, Bounds DEF States
<1>9. PICK f \in Seq(0..Blocks), old \in Nat : f = card[c] /\ old = h.old
                                             /\ (h.client = c => old <= Len(f))
  BY <1>2, <1>4 DEF CardType
<1>10. ASSUME NEW g \in Seq(0..Blocks), card' = [card EXCEPT ![c] = g], spoiled' \in BOOLEAN,
              tftp_state'.client = None \/ (tftp_state'.client = c /\ tftp_state'.old <= Len(g))
       PROVE  CardType'
  <2>1. card' \in [Clients -> Seq(0..Blocks)] /\ card'[c] = g
    BY <1>10 DEF CardType
  <2>2. QED BY <1>10, <2>1, Bounds DEF CardType
<1>11. ASSUME NEW d \in 0..Blocks PROVE Written(f, m, d) \in Seq(0..Blocks) /\ Len(f) <= Len(Written(f, m, d))
  BY WrittenType
<1>12. ASSUME h.client = c, NEW d \in 0..Blocks, NEW g \in Left(Written(f, m, d), old) \cup Left(f, old)
       PROVE  g \in Seq(0..Blocks)
  <2>1. PICK w \in Seq(0..Blocks) : w = Written(f, m, d) /\ old <= Len(w)
    BY <1>9, <1>11, <1>12, LenProperties
  <2>2. SubSeq(w, 1, old) \in Seq(0..Blocks) /\ SubSeq(f, 1, old) \in Seq(0..Blocks)
    BY <1>9, <1>12, <2>1, CutType
  <2>3. QED BY <1>12, <2>1, <2>2 DEF Left
<1>13. Session(Closed(h)) /\ Reading(Closed(h)) /\ Closed(h).client = None /\ Closed(h).blknum = b
  BY <1>2, <1>8, ClosedSession
<1>14. CASE /\ h.client = c /\ p.n = h.blknum /\ ~Short(p)
            /\ card' = [card EXCEPT ![c] = Written(@, h.pos, p.d)]
            /\ toClient' = Sent(toClient, c, Ack(p.n)) /\ spoiled' = spoiled
            /\ tftp_state' = [h EXCEPT !.blknum = After(@), !.pos = @ + 1]
  <2>1. m < Blocks /\ b = m + 1 /\ h.mode_write /\ h.last_data = None
    BY <1>2, <1>4, <1>8, <1>14 DEF Session
  <2>2. m + 1 < Blocks /\ m + 1 \in 0..Blocks
    BY <1>4, <1>8, <1>14, <2>1, Bounds DEF Short
  <2>3. After(b) = m + 2 /\ After(b) \in Numbers
    <3>1. b + 1 < BlkMod /\ b + 1 = m + 2
      BY <1>8, <2>1, <2>2, Bounds
    <3>2. QED BY <1>8, <3>1, AfterFacts
  <2>4. tftp_state' = [h EXCEPT !.blknum = After(b), !.pos = m + 1]
    BY <1>8, <1>14
  <2>5. tftp_state' \in States
    BY <1>2, <2>2, <2>3, <2>4 DEF States
  <2>6. /\ tftp_state'.client = c /\ tftp_state'.mode_write /\ tftp_state'.last_data = None
        /\ tftp_state'.blknum = m + 2 /\ tftp_state'.pos = m + 1 /\ tftp_state'.old = old
    BY <1>2, <1>9, <1>14, <2>1, <2>3, <2>4 DEF States
  <2>7. Session(tftp_state') /\ Reading(tftp_state')
    BY <1>4, <2>2, <2>5, <2>6 DEF Session, Reading
  <2>8. PICK w \in Seq(0..Blocks) : w = Written(f, m, p.d) /\ Len(f) <= Len(w)
    <3>1. p.d \in 0..Blocks
      BY <1>4, Bounds
    <3>2. QED BY <1>11, <3>1
  <2>9. card' = [card EXCEPT ![c] = w] /\ spoiled' \in BOOLEAN /\ old <= Len(w)
    BY <1>8, <1>9, <1>14, <2>8, LenProperties DEF CardType
  <2>10. CardType'
    BY <1>10, <2>6, <2>9
  <2>11. QED BY <1>7, <1>14, <2>7, <2>10
<1>15. CASE /\ h.client = c /\ tftp_state' = Closed(h) /\ toClient' = Sent(toClient, c, Ack(p.n))
            /\ \E g \in Left(Written(card[c], h.pos, p.d), h.old) \cup Left(card[c], h.old) :
                 /\ card' = [card EXCEPT ![c] = g]
                 /\ spoiled' = (spoiled \/ g # Written(card[c], h.pos, p.d))
  <2>1. PICK g \in Left(Written(f, m, p.d), old) \cup Left(f, old) :
          card' = [card EXCEPT ![c] = g] /\ spoiled' = (spoiled \/ g # Written(f, m, p.d))
    BY <1>8, <1>9, <1>15
  <2>2. g \in Seq(0..Blocks)
    <3>1. p.d \in 0..Blocks
      BY <1>4, Bounds
    <3>2. QED BY <1>12, <1>15, <2>1, <3>1
  <2>3. spoiled' \in BOOLEAN
    BY <2>1 DEF CardType
  <2>4. CardType'
    BY <1>10, <1>13, <1>15, <2>1, <2>2, <2>3
  <2>5. QED BY <1>7, <1>13, <1>15, <2>4
<1>16. CASE /\ h.client = c
            /\ \E g \in Left(Written(card[c], h.pos, 0), h.old) : card' = [card EXCEPT ![c] = g]
            /\ spoiled' = (spoiled \/ (h.pos < Len(card[c]) /\ card[c][h.pos + 1] # 0))
            /\ toClient' = Sent(toClient, c, Error)
            /\ tftp_state' = Closed(h) \/ tftp_state' = [Closed(h) EXCEPT !.blknum = After(@)]
  <2>1. spoiled' \in BOOLEAN
    BY <1>16 DEF CardType
  <2>2. PICK g \in Left(Written(f, m, 0), old) : card' = [card EXCEPT ![c] = g]
    BY <1>8, <1>9, <1>16
  <2>3. g \in Seq(0..Blocks)
    <3>1. 0 \in 0..Blocks
      BY Bounds
    <3>2. QED BY <1>12, <1>16, <2>2, <3>1
  <2>4. tftp_state' = Closed(h) \/ tftp_state' = [Closed(h) EXCEPT !.blknum = After(b)]
    BY <1>13, <1>16
  <2>5. Session(tftp_state') /\ Reading(tftp_state') /\ tftp_state'.client = None
    <3>1. Session(tftp_state') /\ Reading(tftp_state')
      BY <1>13, <2>4, AfterFacts, Renumbered
    <3>2. Closed(h) \in States
      BY <1>13 DEF Session
    <3>3. QED BY <1>13, <2>4, <3>1, <3>2 DEF States
  <2>6. CardType'
    BY <1>10, <2>1, <2>2, <2>3, <2>5
  <2>7. QED BY <1>7, <1>16, <2>5, <2>6
<1>17. ASSUME tftp_state' = h, UNCHANGED <<card, spoiled>> PROVE CardType'
  BY <1>2, <1>17 DEF CardType
<1>18. CASE /\ tftp_state' = h /\ toClient' = Sent(toClient, c, Ack(p.n)) /\ UNCHANGED <<card, spoiled>>
  BY <1>2, <1>7, <1>17, <1>18
<1>19. CASE Refuse(c, h) /\ UNCHANGED spoiled
  BY <1>2, <1>17, <1>19, RefuseSteps DEF Refuse
<1>20. QED BY <1>1, <1>3, <1>14, <1>15, <1>16, <1>18, <1>19 DEF RecvData, Answer

(* An acknowledgement: the block behind the one acknowledged is sent.      *)
LEMMA AckSteps ==
  ASSUME Blocks < BlkMod, ServerInv, WorldInv, BackInv, NEW c \in Clients, RecvAck(c)
  PROVE  ServerInv' /\ BackInv'
<1>1. PICK h : h = Heard(tftp_state)
  OBVIOUS
<1>2. Session(h) /\ (~starved => Reading(h)) /\ h \in States /\ starved \in BOOLEAN
  BY <1>1, HeardSession DEF ServerInv, Session
<1>3. PICK p \in FromClient(c) : p = Head(toServer[c]) /\ p.op = "ack"
  BY Received DEF RecvAck
<1>4. c \in Readers /\ c # None
  BY <1>3, Bounds DEF FromClient
<1>5. CASE tftp_state' = Closed(h) /\ UNCHANGED <<toClient, starved>>
  <2>1. Session(tftp_state') /\ Reading(tftp_state')
    BY <1>2, <1>5, ClosedSession
  <2>2. QED BY <1>2, <1>5, <2>1 DEF ServerInv, BackInv, Session, Reading
<1>6. CASE tftp_state' = h /\ Answer(toClient, c, Error) /\ UNCHANGED starved
  <2>1. Error \in InStep /\ Error \in Datagrams
    BY PacketTypes DEF InStep
  <2>2. BackInv'
    BY <1>6, <2>1, Answered DEF Answer
  <2>3. QED BY <1>2, <1>6, <2>2 DEF ServerInv, Session, Reading
<1>7. CASE /\ h.client = c /\ ~h.mode_write /\ ~(h.last_data # None /\ Short(h.last_data))
           /\ send_data([h EXCEPT !.blknum = After(@)], timers)
  <2>1. PICK b \in Numbers, m \in 0..Blocks : b = h.blknum /\ m = h.pos
    BY <1>2 DEF States
  <2>2. After(b) \in Numbers /\ (b + 1 < BlkMod => After(b) = b + 1)
    BY AfterFacts
  <2>3. PICK t \in States : t = [h EXCEPT !.blknum = After(b)] /\ t.client = c /\ ~t.mode_write
                            /\ t.pos = m /\ t.blknum = After(b)
    <3>1. [h EXCEPT !.blknum = After(b)] \in States
      BY <1>2, <2>2 DEF States
    <3>2. /\ [h EXCEPT !.blknum = After(b)].client = c /\ ~[h EXCEPT !.blknum = After(b)].mode_write
          /\ [h EXCEPT !.blknum = After(b)].pos = m /\ [h EXCEPT !.blknum = After(b)].blknum = After(b)
      BY <1>2, <1>7, <2>1 DEF States
    <3>3. QED BY <3>1, <3>2
  <2>4. ASSUME ~starved PROVE t.blknum = t.pos + 1
    <3>1. m > 0 /\ b = m /\ h.last_data = Data(m, m)
      BY <1>2, <1>4, <1>7, <2>1, <2>4 DEF Reading
    <3>2. h.last_data # None
      <4>1. m \in 1..Blocks /\ m \in Numbers
        BY <2>1, <3>1, Bounds
      <4>2. QED BY <3>1, <4>1, PacketTypes, NoneAssumption
    <3>3. m # Blocks
      BY <1>7, <3>1, <3>2 DEF Short, Data, Packet
    <3>4. m + 1 < BlkMod
      BY <2>1, <3>3, Bounds
    <3>5. QED BY <2>2, <2>3, <3>1, <3>4
  <2>5. PICK n : send_data(t, n)
    BY <1>7, <2>1, <2>3
  <2>6. QED BY <1>2, <1>4, <2>3, <2>4, <2>5, SendDataSteps
<1>8. QED BY <1>1, <1>3, <1>5, <1>6, <1>7 DEF RecvAck

(* The timer sends the last block again or closes the handle.              *)
LEMMA TimerSteps ==
  ASSUME ServerInv, BackInv, tftp_tmr
  PROVE  ServerInv' /\ BackInv'
<1>1. Elapsed \in 0..Limit + 1 /\ tftp_state \in States /\ Session(tftp_state) /\ starved \in BOOLEAN
  <2>1. Session(tftp_state) /\ tftp_state \in States /\ starved \in BOOLEAN
    BY DEF ServerInv, Session
  <2>2. tftp_state.idle \in 0..Limit + 1
    BY <2>1 DEF States
  <2>3. QED BY <2>1, <2>2, Bounds DEF Elapsed
<1>2. PICK s \in States : /\ s = [tftp_state EXCEPT !.idle = Elapsed] /\ Session(s)
                          /\ ~starved => Reading(s)
  <2>1. PICK t : t = [tftp_state EXCEPT !.idle = Elapsed]
    OBVIOUS
  <2>2. t \in States
    BY <1>1, <2>1 DEF States
  <2>3. /\ t.client = tftp_state.client /\ t.mode_write = tftp_state.mode_write /\ t.pos = tftp_state.pos
        /\ t.blknum = tftp_state.blknum /\ t.last_data = tftp_state.last_data
    BY <1>1, <2>1 DEF States
  <2>4. Session(t) /\ (~starved => Reading(t))
    BY <2>2, <2>3 DEF Session, Reading, ServerInv
  <2>5. QED BY <2>1, <2>2, <2>4
<1>3. starved' = starved
  BY DEF tftp_tmr
<1>4. ASSUME Session(tftp_state'), ~starved => Reading(tftp_state') PROVE ServerInv'
  BY <1>1, <1>3, <1>4 DEF ServerInv, Session, Reading
<1>5. CASE tftp_state' = s /\ UNCHANGED toClient
  BY <1>2, <1>3, <1>4, <1>5 DEF BackInv
<1>6. CASE tftp_state' = Closed(s) /\ UNCHANGED toClient
  BY <1>3, <1>4, <1>6, ClosedSession DEF BackInv
<1>7. CASE /\ s.client # None /\ s.last_data # None /\ s.retries < MaxRetries
           /\ tftp_state' = [s EXCEPT !.retries = @ + 1] /\ Answer(toClient, s.client, s.last_data)
  <2>1. PICK r \in 0..MaxRetries : r = s.retries + 1
    <3>1. s.retries \in 0..MaxRetries
      BY DEF States
    <3>2. QED BY <1>7, <3>1, Bounds
  <2>2. tftp_state' = [s EXCEPT !.retries = r]
    BY <1>7, <2>1
  <2>3. tftp_state' \in States
    BY <2>2 DEF States
  <2>4. /\ tftp_state'.client = s.client /\ tftp_state'.mode_write = s.mode_write /\ tftp_state'.pos = s.pos
        /\ tftp_state'.blknum = s.blknum /\ tftp_state'.last_data = s.last_data
    BY <2>2 DEF States
  <2>5. Session(tftp_state') /\ (~starved => Reading(tftp_state'))
    BY <1>2, <2>3, <2>4 DEF Session, Reading
  <2>6. PICK c \in Clients, p \in Datagrams : c = s.client /\ p = s.last_data
    BY <1>7 DEF States
  <2>7. ~starved => p \in InStep
    <3>1. c \in Readers
      BY <1>2, <1>7, <2>6 DEF Session
    <3>2. ASSUME ~starved PROVE p = Data(s.pos, s.pos)
      BY <1>2, <2>6, <3>1, <3>2 DEF Reading
    <3>3. QED BY <2>6, <3>2 DEF InStep, Data, Packet
  <2>8. toClient' = Sent(toClient, c, p)
    BY <1>7, <2>6 DEF Answer
  <2>9. BackInv'
    BY <1>3, <2>7, <2>8, Answered
  <2>10. QED BY <1>4, <2>5, <2>9
<1>8. QED BY <1>2, <1>5, <1>6, <1>7 DEF tftp_tmr

(* What the other steps of recv() leave open: what was, a new upload of a  *)
(* file as long as it is, or a download.                                   *)
LEMMA OpenAfter ==
  ASSUME ServerInv, WorldInv, NEW c \in Clients,
         RecvStranger(c) \/ RecvOther(c) \/ RecvRequest(c) \/ RecvAck(c)
  PROVE  /\ card' = card /\ spoiled' = spoiled
         /\ \/ tftp_state'.client \notin Clients \ Readers
            \/ /\ tftp_state'.client = tftp_state.client /\ tftp_state'.pos = tftp_state.pos
               /\ tftp_state'.old = tftp_state.old
            \/ tftp_state'.client = c /\ tftp_state'.pos = 0 /\ tftp_state'.old = Len(card[c])
<1>1. PICK h : h = Heard(tftp_state)
  OBVIOUS
<1>2. /\ Session(h) /\ h \in States /\ h.client = tftp_state.client /\ h.pos = tftp_state.pos
      /\ h.old = tftp_state.old /\ tftp_state \in States
  BY <1>1, HeardSession DEF ServerInv, Session
<1>3. card' = card /\ spoiled' = spoiled
  BY DEF RecvStranger, RecvOther, RecvRequest, RecvAck, Refuse
<1>4. ASSUME NEW s \in States, NEW n, s.client \in Readers, send_data(s, n)
      PROVE  tftp_state'.client \notin Clients \ Readers
  BY <1>4, Bounds DEF send_data, States, Closed
<1>5. CASE RecvStranger(c) \/ RecvOther(c)
  BY <1>1, <1>2, <1>3, <1>5 DEF RecvStranger, RecvOther, Refuse
<1>6. CASE RecvAck(c)
  <2>1. PICK b \in Numbers : b = h.blknum
    BY <1>2 DEF States
  <2>2. PICK t : t = [h EXCEPT !.blknum = After(b)]
    OBVIOUS
  <2>3. t \in States
    BY <1>2, <2>2, AfterFacts DEF States
  <2>4. t.client = h.client
    BY <1>2, <2>2 DEF States
  <2>5. Head(toServer[c]) \in FromClient(c) /\ Head(toServer[c]).op = "ack"
    BY <1>6, Received DEF RecvAck
  <2>6. c \in Readers
    BY <2>5 DEF FromClient
  <2>7. tftp_state' = Closed(h) \/ tftp_state' = h \/ (h.client = c /\ send_data(t, timers))
    BY <1>1, <1>6, <2>1, <2>2 DEF RecvAck
  <2>8. Closed(h).client = None
    BY <1>2, ClosedSession
  <2>9. PICK n : n = timers
    OBVIOUS
  <2>10. QED BY <1>2, <1>3, <1>4, <2>3, <2>4, <2>6, <2>7, <2>8, <2>9, Bounds
<1>7. CASE RecvRequest(c)
  <2>1. PICK s : s = [h EXCEPT !.blknum = 1]
    OBVIOUS
  <2>2. s \in States /\ 0 \in 0..Blocks
    BY <1>2, <2>1, Bounds DEF States, Numbers
  <2>3. s.client = h.client /\ s.pos = h.pos /\ s.old = h.old
    BY <1>2, <2>1 DEF States
  <2>4. PICK t : t = [s EXCEPT !.client = c, !.mode_write = FALSE, !.pos = 0]
    OBVIOUS
  <2>5. t \in States
    BY <2>2, <2>4 DEF States
  <2>6. t.client = c
    BY <2>2, <2>4 DEF States
  <2>7. Head(toServer[c]) \in FromClient(c)
    BY <1>7, Received DEF RecvRequest
  <2>8. \/ tftp_state' \in {h, s}
        \/ tftp_state' = [s EXCEPT !.client = c, !.mode_write = TRUE, !.pos = 0, !.old = Len(card[c])]
        \/ Head(toServer[c]).op = "rrq" /\ send_data(t, timers + 1)
    BY <1>1, <1>7, <2>1, <2>4 DEF RecvRequest, Refuse
  <2>9. CASE tftp_state' = [s EXCEPT !.client = c, !.mode_write = TRUE, !.pos = 0, !.old = Len(card[c])]
    BY <1>3, <2>2, <2>9 DEF States
  <2>10. CASE Head(toServer[c]).op = "rrq" /\ send_data(t, timers + 1)
    <3>1. c \in Readers
      BY <2>7, <2>10 DEF FromClient
    <3>2. PICK n : send_data(t, n)
      BY <2>10
    <3>3. QED BY <1>3, <1>4, <2>5, <2>6, <3>1, <3>2
  <2>11. QED BY <1>2, <1>3, <2>3, <2>8, <2>9, <2>10
<1>8. QED BY <1>5, <1>6, <1>7

LEMMA OpenSteps ==
  ASSUME ServerInv, WorldInv, CardType, NEW c \in Clients,
         RecvStranger(c) \/ RecvOther(c) \/ RecvRequest(c) \/ RecvAck(c)
  PROVE  CardType'
<1>1. Len(card[c]) \in Nat
  BY LenProperties DEF CardType
<1>2. QED BY <1>1, OpenAfter DEF CardType

(* The timer closes a file, and a failing close leaves its beginning.      *)
LEMMA TimerCard ==
  ASSUME ServerInv, CardType, tftp_tmr
  PROVE  CardType'
<1>1. PICK s : s = [tftp_state EXCEPT !.idle = Elapsed]
  OBVIOUS
<1>2. tftp_state \in States /\ Session(tftp_state) /\ spoiled' = spoiled
  BY DEF ServerInv, Session, tftp_tmr
<1>3. /\ s.client = tftp_state.client /\ s.old = tftp_state.old /\ s.mode_write = tftp_state.mode_write
      /\ DOMAIN s = DOMAIN tftp_state
  BY <1>1, <1>2 DEF States
<1>4. CASE card' = card /\ (tftp_state' = s \/ tftp_state' = [s EXCEPT !.retries = @ + 1])
  <2>1. tftp_state'.client = tftp_state.client /\ tftp_state'.old = tftp_state.old
    BY <1>2, <1>3, <1>4 DEF States
  <2>2. QED BY <1>2, <1>4, <2>1 DEF CardType
<1>5. CASE tftp_state' = Closed(s)
  <2>1. tftp_state'.client = None
    BY <1>2, <1>3, <1>5 DEF States, Closed
  <2>2. card' = card => CardType'
    BY <1>2, <2>1, Bounds DEF CardType
  <2>3. ASSUME s.client # None, s.mode_write, card' = [card EXCEPT ![s.client] = SubSeq(@, 1, s.old)]
        PROVE  CardType'
    <3>1. PICK c \in Clients : c = s.client /\ c \notin Readers
      BY <1>2, <1>3, <2>3 DEF States, Session
    <3>2. PICK f \in Seq(0..Blocks), old \in Nat : f = card[c] /\ old = s.old /\ old <= Len(f)
      BY <1>2, <1>3, <3>1 DEF CardType, States
    <3>3. SubSeq(f, 1, old) \in Seq(0..Blocks)
      BY <3>2, CutType
    <3>4. card' = [card EXCEPT ![c] = SubSeq(f, 1, old)]
      BY <2>3, <3>1, <3>2
    <3>5. QED BY <1>2, <2>1, <3>3, <3>4, Bounds DEF CardType
  <2>4. card' = card \/ (s.client # None /\ s.mode_write /\ card' = [card EXCEPT ![s.client] = SubSeq(@, 1, s.old)])
    BY <1>1 DEF tftp_tmr
  <2>5. QED BY <2>2, <2>3, <2>4
<1>6. QED BY <1>1, <1>4, <1>5 DEF tftp_tmr

-----------------------------------------------------------------------------
(* The clients' steps.                                                     *)

(* The server leaves the clients alone.                                    *)
LEMMA DownFrame ==
  ASSUME DownInv, client' = client, ~starved' => ~starved
  PROVE  DownInv'
BY DEF DownInv

(* A client says what its role allows.                                     *)
LEMMA SaysSteps ==
  ASSUME WorldInv, client' \in [Clients -> Peers], extra' \in 0..MaxExtra,
         \A d \in Clients \ Readers : client'[d].blk = client'[d].got,
         NEW c \in Clients, NEW p \in FromClient(c),
         toServer' = toServer \/ toServer' = Sent(toServer, c, p)
  PROVE  WorldInv'
<1>1. p \in Datagrams /\ toServer \in [Clients -> Seq(Datagrams)]
  BY DEF FromClient, InStep, WorldInv
<1>2. toServer' \in [Clients -> Seq(Datagrams)]
  BY <1>1, SentType
<1>3. ASSUME NEW d \in Clients PROVE toServer'[d] \in Seq(FromClient(d))
  <2>1. toServer[d] \in Seq(FromClient(d))
    BY DEF WorldInv
  <2>2. CASE toServer' = Sent(toServer, c, p)
    BY <1>1, <2>1, <2>2, SentIn
  <2>3. QED BY <2>1, <2>2
<1>4. QED BY <1>2, <1>3 DEF WorldInv

(* What a client has to say now is of its role, the block that got counts. *)
LEMMA CurrentIn ==
  ASSUME WorldInv, NEW c \in Clients
  PROVE  Current(c) \in FromClient(c)
<1>1. PICK k \in Peers : k = client[c]
  BY DEF WorldInv
<1>2. k.blk \in Numbers /\ k.got \in 0..Blocks /\ (c \notin Readers => k.blk = k.got)
  BY <1>1 DEF Peers, WorldInv
<1>3. CASE k.got = 0
  <2>1. Current(c) = Packet(IF c \in Readers THEN "rrq" ELSE "wrq", 0, 0)
    BY <1>1, <1>3 DEF Current
  <2>2. CASE c \in Readers
    BY <2>1, <2>2, PacketTypes DEF FromClient, Packet
  <2>3. CASE c \notin Readers
    BY <2>1, <2>3, PacketTypes DEF FromClient, Packet
  <2>4. QED BY <2>2, <2>3
<1>4. CASE k.got # 0 /\ c \in Readers
  <2>1. Current(c) = Ack(k.blk)
    BY <1>1, <1>4 DEF Current
  <2>2. Ack(k.blk) \in InStep /\ Ack(k.blk).op = "ack"
    BY <1>2, PacketTypes DEF Ack, Packet
  <2>3. QED BY <1>4, <2>1, <2>2 DEF FromClient
<1>5. CASE k.got # 0 /\ c \notin Readers
  <2>1. Current(c) = Data(k.blk, k.got)
    BY <1>1, <1>5 DEF Current
  <2>2. k.got \in 1..Blocks
    BY <1>2, <1>5, Bounds
  <2>3. Data(k.blk, k.got) \in InStep /\ Data(k.blk, k.got).op = "data"
    BY <1>2, <1>5, <2>2, PacketTypes DEF Data, Packet
  <2>4. QED BY <1>5, <2>1, <2>3 DEF FromClient
<1>6. QED BY <1>3, <1>4, <1>5

(* Taking a datagram off a queue to the clients.                           *)
LEMMA BackTail ==
  ASSUME BackInv, NEW c \in Clients, toClient[c] # <<>>, toClient' = [toClient EXCEPT ![c] = Tail(@)],
         starved' = starved
  PROVE  /\ BackInv' /\ Head(toClient[c]) \in Datagrams
         /\ ~starved /\ c \in Readers => Head(toClient[c]) \in InStep
<1>1. toClient \in [Clients -> Seq(Datagrams)] /\ Tail(toClient[c]) \in Seq(Datagrams)
      /\ Head(toClient[c]) \in Datagrams
  BY TailIn DEF BackInv
<1>2. ASSUME ~starved, c \in Readers
      PROVE  Tail(toClient[c]) \in Seq(InStep) /\ Head(toClient[c]) \in InStep
  BY <1>2, TailIn DEF BackInv
<1>3. toClient' \in [Clients -> Seq(Datagrams)]
  BY <1>1
<1>4. ASSUME ~starved, NEW d \in Readers PROVE toClient'[d] \in Seq(InStep)
  <2>1. d \in Clients /\ toClient[d] \in Seq(InStep)
    BY <1>4, Bounds DEF BackInv
  <2>2. toClient'[d] = IF d = c THEN Tail(toClient[c]) ELSE toClient[d]
    BY <1>1, <2>1
  <2>3. QED BY <1>2, <1>4, <2>1, <2>2
<1>5. QED BY <1>1, <1>2, <1>3, <1>4 DEF BackInv

(* A client that starts, stops, or ends its upload.                        *)
LEMMA PcSteps ==
  ASSUME WorldInv, DownInv, NEW c \in Clients, NEW x \in {"busy", "done", "failed"},
         x = "done" => c \notin Readers, client' = [client EXCEPT ![c].pc = x], starved' = starved
  PROVE  /\ client' \in [Clients -> Peers] /\ DownInv'
         /\ \A d \in Clients \ Readers : client'[d].blk = client'[d].got
<1>1. PICK k \in Peers : k = client[c]
  BY DEF WorldInv
<1>2. PICK j \in Peers : j = [k EXCEPT !.pc = x] /\ j.pc = x /\ j.blk = k.blk /\ j.got = k.got /\ j.ok = k.ok
  <2>1. [k EXCEPT !.pc = x] \in Peers
    BY DEF Peers
  <2>2. /\ [k EXCEPT !.pc = x].pc = x /\ [k EXCEPT !.pc = x].blk = k.blk
        /\ [k EXCEPT !.pc = x].got = k.got /\ [k EXCEPT !.pc = x].ok = k.ok
    BY DEF Peers
  <2>3. QED BY <2>1, <2>2
<1>3. client \in [Clients -> Peers] /\ client' = [client EXCEPT ![c] = j]
  BY <1>1, <1>2 DEF WorldInv
<1>4. client' \in [Clients -> Peers]
  BY <1>3
<1>5. client'[c] = j /\ \A d \in Clients : d # c => client'[d] = client[d]
  BY <1>3
<1>6. \A d \in Clients \ Readers : client'[d].blk = client'[d].got
  BY <1>1, <1>2, <1>5 DEF WorldInv
<1>7. ASSUME ~starved, NEW d \in Readers
      PROVE  /\ client'[d].ok /\ client'[d].blk = client'[d].got
             /\ client'[d].pc = "done" => client'[d].got = Blocks
  <2>1. d \in Clients /\ client[d].ok /\ client[d].blk = client[d].got
        /\ (client[d].pc = "done" => client[d].got = Blocks)
    BY <1>7, Bounds DEF DownInv
  <2>2. CASE d = c
    BY <1>1, <1>2, <1>5, <1>7, <2>1, <2>2
  <2>3. CASE d # c
    BY <1>5, <2>1, <2>3
  <2>4. QED BY <2>2, <2>3
<1>8. QED BY <1>4, <1>6, <1>7 DEF DownInv

(* The next block of a download: its number says which one it is.          *)
LEMMA NextBlock ==
  ASSUME Blocks < BlkMod, WorldInv, DownInv, NEW c \in Readers, NEW p \in Datagrams, p.op = "data",
         ~starved => p \in InStep, p.n = After(client[c].blk), starved' = starved,
         client' = [client EXCEPT ![c] =
                      [pc |-> IF Short(p) THEN "done" ELSE "busy", blk |-> p.n,
                       got |-> IF client[c].got < Blocks THEN client[c].got + 1 ELSE client[c].got,
                       ok |-> client[c].ok /\ p.d = client[c].got + 1]]
  PROVE  /\ client' \in [Clients -> Peers] /\ DownInv'
         /\ \A d \in Clients \ Readers : client'[d].blk = client'[d].got
<1>1. c \in Clients /\ client \in [Clients -> Peers]
  BY Bounds DEF WorldInv
<1>2. PICK k \in Peers : k = client[c]
  BY <1>1
<1>3. PICK g, b, o : g = k.got /\ b = k.blk /\ o = k.ok
  OBVIOUS
<1>4. g \in 0..Blocks /\ b \in Numbers /\ o \in BOOLEAN
  BY <1>3 DEF Peers
<1>5. p.n \in Numbers /\ p.d \in 1..Blocks
  BY PacketFields
<1>6. PICK w : w = IF Short(p) THEN "done" ELSE "busy"
  OBVIOUS
<1>7. w \in {"new", "busy", "done", "failed"}
  BY <1>6
<1>8. PICK f \in 0..Blocks : f = IF g < Blocks THEN g + 1 ELSE g
  BY <1>4, Bounds
<1>9. PICK q \in BOOLEAN : q = (o /\ p.d = g + 1)
  BY <1>4
<1>10. PICK j : j = [pc |-> w, blk |-> p.n, got |-> f, ok |-> q]
  OBVIOUS
<1>11. j \in Peers /\ j.pc = w /\ j.blk = p.n /\ j.got = f /\ j.ok = q
  BY <1>5, <1>7, <1>10 DEF Peers
<1>12. client' = [client EXCEPT ![c] = j]
  BY <1>2, <1>3, <1>6, <1>8, <1>9, <1>10
<1>13. client' \in [Clients -> Peers]
  BY <1>1, <1>11, <1>12
<1>14. client'[c] = j /\ \A d \in Clients : d # c => client'[d] = client[d]
  BY <1>1, <1>12
<1>15. \A d \in Clients \ Readers : client'[d].blk = client'[d].got
  BY <1>14 DEF WorldInv
<1>16. ASSUME ~starved PROVE j.ok /\ j.blk = j.got /\ (j.pc = "done" => j.got = Blocks)
  <2>1. o = TRUE /\ b = g
    BY <1>2, <1>3, <1>4, <1>16 DEF DownInv
  <2>2. p.n = p.d
    BY <1>16 DEF InStep
  <2>3. p.n = After(b)
    BY <1>2, <1>3
  <2>4. p.d = g + 1
    <3>1. CASE g + 1 < BlkMod
      BY <1>4, <2>1, <2>2, <2>3, <3>1, AfterFacts
    <3>2. CASE g + 1 = BlkMod
      BY <1>4, <1>5, <2>1, <2>2, <2>3, <3>2, Bounds DEF After
    <3>3. QED BY <1>4, <3>1, <3>2, Bounds
  <2>5. f = p.d
    BY <1>4, <1>5, <1>8, <2>4, Bounds
  <2>6. q = TRUE
    BY <1>9, <2>1, <2>4
  <2>7. w = "done" => p.d = Blocks
    BY <1>6 DEF Short
  <2>8. QED BY <1>11, <2>2, <2>5, <2>6, <2>7
<1>17. ASSUME ~starved, NEW d \in Readers
       PROVE  /\ client'[d].ok /\ client'[d].blk = client'[d].got
              /\ client'[d].pc = "done" => client'[d].got = Blocks
  <2>1. CASE d = c
    BY <1>14, <1>16, <1>17, <2>1
  <2>2. CASE d # c
    BY <1>14, <1>17, <2>2, Bounds DEF DownInv
  <2>3. QED BY <2>1, <2>2
<1>18. QED BY <1>13, <1>15, <1>17 DEF DownInv

(* The next block of an upload.                                            *)
LEMMA NextPart ==
  ASSUME Blocks < BlkMod, WorldInv, DownInv, NEW c \in Clients \ Readers, client[c].got # Blocks,
         client' = [client EXCEPT ![c].blk = After(@), ![c].got = @ + 1], starved' = starved
  PROVE  /\ client' \in [Clients -> Peers] /\ DownInv'
         /\ \A d \in Clients \ Readers : client'[d].blk = client'[d].got
         /\ \A d \in Clients : client'[d].pc = client[d].pc
         /\ Data(After(client[c].blk), client[c].got + 1) \in FromClient(c)
<1>1. PICK k \in Peers : k = client[c]
  BY DEF WorldInv
<1>2. PICK g \in 0..Blocks : g = k.got /\ g = k.blk /\ g # Blocks /\ g \in Numbers
  BY <1>1 DEF Peers, WorldInv
<1>3. After(g) = g + 1 /\ g + 1 \in Numbers /\ g + 1 \in 0..Blocks /\ g + 1 \in 1..Blocks
  BY <1>2, AfterFacts, Bounds
<1>4. PICK j : j = [k EXCEPT !.blk = g + 1, !.got = g + 1]
  OBVIOUS
<1>5. j \in Peers
  BY <1>3, <1>4 DEF Peers
<1>6. j.blk = g + 1 /\ j.got = g + 1 /\ j.pc = k.pc
  BY <1>4 DEF Peers
<1>7. client \in [Clients -> Peers] /\ client' = [client EXCEPT ![c] = j]
  BY <1>1, <1>2, <1>3, <1>4 DEF WorldInv
<1>8. client' \in [Clients -> Peers]
  BY <1>5, <1>7
<1>9. client'[c] = j /\ \A d \in Clients : d # c => client'[d] = client[d]
  BY <1>7
<1>10. \A d \in Clients \ Readers : client'[d].blk = client'[d].got
  BY <1>6, <1>9 DEF WorldInv
<1>11. DownInv'
  BY <1>9, Bounds DEF DownInv
<1>12. \A d \in Clients : client'[d].pc = client[d].pc
  BY <1>1, <1>6, <1>9
<1>13. Data(After(client[c].blk), client[c].got + 1) = Data(g + 1, g + 1)
  BY <1>1, <1>2, <1>3
<1>14. Data(g + 1, g + 1) \in InStep /\ Data(g + 1, g + 1).op = "data"
  BY <1>3, PacketTypes DEF Data, Packet
<1>15. QED BY <1>8, <1>10, <1>11, <1>12, <1>13, <1>14 DEF FromClient

(* What a client does with a datagram.                                     *)
LEMMA AdvanceSteps ==
  ASSUME Blocks < BlkMod, WorldInv, BackInv, DownInv, NEW c \in Clients, Advance(c)
  PROVE  WorldInv' /\ BackInv' /\ DownInv'
<1>1. /\ toClient' = [toClient EXCEPT ![c] = Tail(@)] /\ toClient[c] # <<>>
      /\ starved' = starved /\ extra' = extra
  BY DEF Advance, Says
<1>2. PICK p \in Datagrams : p = Head(toClient[c]) /\ (~starved /\ c \in Readers => p \in InStep)
  BY <1>1, BackTail
<1>3. BackInv'
  BY <1>1, BackTail
<1>4. Error \in FromClient(c)
  BY PacketTypes DEF FromClient, Error, Packet
<1>5. extra' \in 0..MaxExtra /\ client \in [Clients -> Peers]
  BY <1>1 DEF WorldInv
<1>6. ASSUME c \in Readers, p.op = "data" PROVE Ack(p.n) \in FromClient(c)
  BY <1>6, PacketFields, PacketTypes DEF FromClient, Ack, Packet
<1>7. CASE UNCHANGED <<client, toServer>>
  <2>1. WorldInv'
    BY <1>5, <1>7 DEF WorldInv
  <2>2. QED BY <1>1, <1>3, <1>7, <2>1, DownFrame
<1>8. CASE client' = [client EXCEPT ![c].pc = "failed"] /\ UNCHANGED toServer
  <2>1. /\ client' \in [Clients -> Peers] /\ DownInv'
        /\ \A d \in Clients \ Readers : client'[d].blk = client'[d].got
    BY <1>1, <1>8, PcSteps
  <2>2. QED BY <1>3, <1>4, <1>5, <1>8, <2>1, SaysSteps
<1>9. CASE c \notin Readers /\ client' = [client EXCEPT ![c].pc = "done"] /\ UNCHANGED toServer
  <2>1. /\ client' \in [Clients -> Peers] /\ DownInv'
        /\ \A d \in Clients \ Readers : client'[d].blk = client'[d].got
    BY <1>1, <1>9, PcSteps
  <2>2. QED BY <1>3, <1>4, <1>5, <1>9, <2>1, SaysSteps
<1>10. CASE /\ c \in Readers /\ p.op = "data" /\ p.n = After(client[c].blk)
            /\ client' = [client EXCEPT ![c] =
                 [pc |-> IF Short(p) THEN "done" ELSE "busy", blk |-> p.n,
                  got |-> IF client[c].got < Blocks THEN client[c].got + 1 ELSE client[c].got,
                  ok |-> client[c].ok /\ p.d = client[c].got + 1]]
            /\ toServer' = Sent(toServer, c, Ack(p.n))
  <2>1. /\ client' \in [Clients -> Peers] /\ DownInv'
        /\ \A d \in Clients \ Readers : client'[d].blk = client'[d].got
    BY <1>1, <1>2, <1>10, NextBlock
  <2>2. WorldInv'
    BY <1>5, <1>6, <1>10, <2>1, SaysSteps
  <2>3. QED BY <1>3, <2>1, <2>2
<1>11. CASE /\ c \in Readers /\ p.op = "data" /\ toServer' = Sent(toServer, c, Ack(p.n))
            /\ UNCHANGED client
  <2>1. \A d \in Clients \ Readers : client'[d].blk = client'[d].got
    BY <1>11 DEF WorldInv
  <2>2. WorldInv'
    BY <1>5, <1>6, <1>11, <2>1, SaysSteps
  <2>3. QED BY <1>1, <1>3, <1>11, <2>2, DownFrame
<1>12. CASE /\ c \notin Readers /\ client[c].got # Blocks
            /\ client' = [client EXCEPT ![c].blk = After(@), ![c].got = @ + 1]
            /\ toServer' = Sent(toServer, c, Data(After(client[c].blk), client[c].got + 1))
  <2>1. /\ client' \in [Clients -> Peers] /\ DownInv'
        /\ \A d \in Clients \ Readers : client'[d].blk = client'[d].got
        /\ Data(After(client[c].blk), client[c].got + 1) \in FromClient(c)
    BY <1>1, <1>12, NextPart
  <2>2. WorldInv'
    BY <1>5, <1>12, <2>1, SaysSteps
  <2>3. QED BY <1>3, <2>1, <2>2
<1>13. QED
  <2>1. \/ UNCHANGED <<client, toServer>>
        \/ client' = [client EXCEPT ![c].pc = "failed"] /\ UNCHANGED toServer
        \/ c \notin Readers /\ client' = [client EXCEPT ![c].pc = "done"] /\ UNCHANGED toServer
        \/ /\ c \in Readers /\ p.op = "data" /\ p.n = After(client[c].blk)
           /\ client' = [client EXCEPT ![c] =
                [pc |-> IF Short(p) THEN "done" ELSE "busy", blk |-> p.n,
                 got |-> IF client[c].got < Blocks THEN client[c].got + 1 ELSE client[c].got,
                 ok |-> client[c].ok /\ p.d = client[c].got + 1]]
           /\ toServer' = Sent(toServer, c, Ack(p.n))
        \/ /\ c \in Readers /\ p.op = "data" /\ toServer' = Sent(toServer, c, Ack(p.n))
           /\ UNCHANGED client
        \/ /\ c \notin Readers /\ client[c].got # Blocks
           /\ client' = [client EXCEPT ![c].blk = After(@), ![c].got = @ + 1]
           /\ toServer' = Sent(toServer, c, Data(After(client[c].blk), client[c].got + 1))
    BY <1>2, Zenon DEF Advance, Says
  <2>2. QED BY <1>7, <1>8, <1>9, <1>10, <1>11, <1>12, <2>1

(* Every step of a client or of the network.                               *)
LEMMA WorldSteps ==
  ASSUME Blocks < BlkMod, WorldInv, BackInv, DownInv, NEW c \in Clients,
         Start(c) \/ Repeat(c) \/ Abort(c) \/ Advance(c) \/ Lose(c) \/ Duplicate(c)
  PROVE  WorldInv' /\ BackInv' /\ DownInv'
<1>1. /\ client \in [Clients -> Peers] /\ extra \in 0..MaxExtra
      /\ toServer[c] \in Seq(FromClient(c)) /\ toServer \in [Clients -> Seq(Datagrams)]
      /\ \A d \in Clients \ Readers : client[d].blk = client[d].got
  BY DEF WorldInv
<1>2. Current(c) \in FromClient(c) /\ Error \in FromClient(c)
  BY CurrentIn, PacketTypes DEF FromClient, Error, Packet
<1>3. extra > 0 /\ extra' = extra - 1 => extra' \in 0..MaxExtra
  BY <1>1, Bounds
<1>4. toClient' = toClient /\ starved' = starved => BackInv'
  BY DEF BackInv
<1>5. CASE Start(c) \/ Abort(c)
  <2>1. PICK x \in {"busy", "failed"} : client' = [client EXCEPT ![c].pc = x]
    BY <1>5 DEF Start, Abort
  <2>2. toClient' = toClient /\ starved' = starved /\ extra' = extra
    BY <1>5 DEF Start, Abort, Says
  <2>3. /\ client' \in [Clients -> Peers] /\ DownInv'
        /\ \A d \in Clients \ Readers : client'[d].blk = client'[d].got
    BY <2>1, <2>2, PcSteps
  <2>4. PICK p \in FromClient(c) : toServer' = Sent(toServer, c, p)
    BY <1>2, <1>5 DEF Start, Abort, Says
  <2>5. WorldInv'
    BY <1>1, <2>2, <2>3, <2>4, SaysSteps
  <2>6. QED BY <1>4, <2>2, <2>3, <2>5
<1>6. CASE Repeat(c)
  <2>1. toClient' = toClient /\ starved' = starved /\ client' = client /\ extra' \in 0..MaxExtra
        /\ toServer' = Sent(toServer, c, Current(c))
    BY <1>3, <1>6 DEF Repeat, Says
  <2>2. WorldInv'
    BY <1>1, <1>2, <2>1, SaysSteps
  <2>3. QED BY <1>4, <2>1, <2>2, DownFrame
<1>7. CASE Advance(c)
  BY <1>7, AdvanceSteps
<1>8. CASE Lose(c)
  <2>1. starved' = starved /\ client' = client /\ extra' = extra
    BY <1>8 DEF Lose
  <2>2. CASE toServer[c] # <<>> /\ toServer' = [toServer EXCEPT ![c] = Tail(@)] /\ UNCHANGED toClient
    <3>1. Receives(c, {Head(toServer[c]).op})
      BY <2>1, <2>2 DEF Receives
    <3>2. QED BY <1>4, <2>1, <2>2, <3>1, Received, DownFrame
  <2>3. CASE toClient[c] # <<>> /\ toClient' = [toClient EXCEPT ![c] = Tail(@)] /\ UNCHANGED toServer
    <3>1. BackInv'
      BY <2>1, <2>3, BackTail
    <3>2. WorldInv'
      BY <2>1, <2>3 DEF WorldInv
    <3>3. QED BY <2>1, <3>1, <3>2, DownFrame
  <2>4. QED BY <1>8, <2>2, <2>3 DEF Lose
<1>9. CASE Duplicate(c)
  <2>1. toClient' = toClient /\ starved' = starved /\ client' = client /\ extra' \in 0..MaxExtra
        /\ toServer[c] # <<>> /\ toServer' = Sent(toServer, c, Head(toServer[c]))
    BY <1>3, <1>9 DEF Duplicate
  <2>2. Head(toServer[c]) \in FromClient(c)
    BY <1>1, <2>1, TailIn
  <2>3. WorldInv'
    BY <1>1, <2>1, <2>2, SaysSteps
  <2>4. QED BY <1>4, <2>1, <2>3, DownFrame
<1>10. QED BY <1>5, <1>6, <1>7, <1>8, <1>9

(* Every step keeps TftpInv.                                               *)
LEMMA TftpNext ==
  ASSUME Blocks < BlkMod, TftpInv, [Next]_vars
  PROVE  TftpInv'
<1> USE DEF TftpInv
<1>1. TimerInv'
  BY TimerNext
<1>2. ASSUME NEW c \in Clients,
             RecvStranger(c) \/ RecvRequest(c) \/ RecvData(c) \/ RecvAck(c) \/ RecvOther(c)
      PROVE  TftpInv'
  <2>1. client' = client /\ WorldInv'
    BY <1>2, Received DEF RecvStranger, RecvRequest, RecvData, RecvAck, RecvOther, Receives
  <2>2. ServerInv' /\ BackInv'
    BY <1>2, StrangerSteps, RequestSteps, DataSteps, AckSteps
  <2>3. CardType'
    <3>1. CASE RecvData(c)
      BY <3>1, DataSteps
    <3>2. CASE ~RecvData(c)
      BY <1>2, <3>2, OpenSteps
    <3>3. QED BY <3>1, <3>2
  <2>4. ~starved' => ~starved
    BY <1>2 DEF RecvStranger, RecvRequest, RecvData, RecvAck, RecvOther, Refuse, send_data
  <2>5. DownInv'
    BY <2>1, <2>4, DownFrame
  <2>6. QED BY <1>1, <2>1, <2>2, <2>3, <2>5
<1>3. CASE tftp_tmr
  <2>1. ServerInv' /\ BackInv'
    BY <1>3, TimerSteps
  <2>2. UNCHANGED <<client, toServer, extra, starved>>
    BY <1>3 DEF tftp_tmr
  <2>3. WorldInv' /\ CardType'
    BY <1>3, <2>2, TimerCard DEF WorldInv
  <2>4. QED BY <1>1, <2>1, <2>2, <2>3, DownFrame
<1>4. ASSUME NEW c \in Clients,
             Start(c) \/ Repeat(c) \/ Abort(c) \/ Advance(c) \/ Lose(c) \/ Duplicate(c)
      PROVE  TftpInv'
  <2>1. UNCHANGED <<tftp_state, card, starved, spoiled>>
    BY <1>4 DEF Start, Repeat, Abort, Advance, Lose, Duplicate, Says
  <2>2. ServerInv' /\ CardType'
    BY <2>1 DEF ServerInv, CardType, Session, Reading
  <2>3. QED BY <1>1, <1>4, <2>2, WorldSteps
<1>5. CASE UNCHANGED vars
  BY <1>1, <1>5 DEF vars, ServerInv, Session, Reading, WorldInv, CardType, BackInv, DownInv
<1>6. QED BY <1>2, <1>3, <1>4, <1>5 DEF Next, Server, World

(* tftp_init(), an empty network and clients that have not started.        *)
LEMMA TftpInit == Init => TftpInv
<1> SUFFICES ASSUME Init PROVE TftpInv
  OBVIOUS
<1>1. /\ tftp_state = [client |-> None, mode_write |-> FALSE, blknum |-> 0, last_data |-> None,
                       retries |-> 0, idle |-> 0, pos |-> 0, old |-> 0]
      /\ timers = 0 /\ extra = MaxExtra /\ starved = FALSE /\ spoiled = FALSE
      /\ client = [c \in Clients |-> [pc |-> "new", blk |-> 0, got |-> 0, ok |-> TRUE]]
      /\ toServer = [c \in Clients |-> <<>>] /\ toClient = [c \in Clients |-> <<>>]
  BY DEF Init
<1>2. /\ 0 \in Numbers /\ 0 \in 0..MaxRetries /\ 0 \in 0..Limit + 1 /\ 0 \in 0..Blocks
      /\ MaxExtra \in 0..MaxExtra
  BY Bounds DEF Numbers
<1>3. TimerInv
  BY <1>1 DEF TimerInv, Watched
<1>4. tftp_state \in States
  BY <1>1, <1>2 DEF States
<1>5. ServerInv
  BY <1>1, <1>4, Bounds DEF ServerInv, Session, Reading
<1>6. \A S : <<>> \in Seq(S)
  BY EmptySeq
<1>7. [pc |-> "new", blk |-> 0, got |-> 0, ok |-> TRUE] \in Peers
  BY <1>2 DEF Peers
<1>8. WorldInv /\ BackInv /\ DownInv
  BY <1>1, <1>2, <1>6, <1>7, Bounds DEF WorldInv, BackInv, DownInv
<1>9. CardType
  <2>1. File \in Seq(0..Blocks)
    BY Bounds, IsASeq DEF File
  <2>2. [i \in 1..OldBlocks |-> 0] \in Seq(0..Blocks)
    BY <1>2, Bounds, IsASeq
  <2>3. card \in [Clients -> Seq(0..Blocks)]
    BY <2>1, <2>2 DEF Init
  <2>4. QED BY <1>1, <2>3, Bounds DEF CardType
<1>10. QED BY <1>3, <1>5, <1>8, <1>9 DEF TftpInv

(* The variables keep their types, whatever the network does.              *)
THEOREM TypeCorrect ==
  ASSUME Blocks < BlkMod
  PROVE  Spec => []TypeOK
<1>1. TftpInv /\ [Next]_vars => TftpInv'
  BY TftpNext
<1>2. TftpInv => TypeOK
  BY DEF TftpInv, TimerInv, ServerInv, Session, States, WorldInv, Peers, CardType, BackInv, TypeOK
<1>3. QED BY <1>1, <1>2, TftpInit, PTL DEF Spec

(* For every length of the file below 2^16 blocks, whatever is lost,       *)
(* delayed or sent twice: RecvAck() and tftp_tmr() send a client that      *)
(* downloads the blocks it waits for, and no others under their numbers,   *)
(* unless send_data() ran out of memory.                                   *)
THEOREM DownloadsIntact ==
  ASSUME Blocks < BlkMod
  PROVE  Spec => []DownloadIntact
<1>1. TftpInv /\ [Next]_vars => TftpInv'
  BY TftpNext
<1>2. TftpInv => DownloadIntact
  BY DEF TftpInv, DownInv, DownloadIntact
<1>3. QED BY <1>1, <1>2, TftpInit, PTL DEF Spec

-----------------------------------------------------------------------------
(* Uploads.                                                                *)

(* f_write() of the block waited for adds it to the file, and neither it   *)
(* nor a failing write on a block not uploaded yet takes one away.         *)
LEMMA WriteHolds ==
  ASSUME NEW f \in Seq(0..Blocks), NEW pos \in Nat, NEW d \in 0..Blocks,
         d = pos + 1 \/ (d = 0 /\ (pos < Len(f) => f[pos + 1] = 0))
  PROVE  /\ \A n \in Nat : Holds(f, n) => Holds(Written(f, pos, d), n)
         /\ d = pos + 1 /\ Holds(f, pos) => Holds(Written(f, pos, d), pos + 1)
         /\ pos < Len(f) => Len(Written(f, pos, d)) = Len(f)
         /\ ~(pos < Len(f)) => Len(Written(f, pos, d)) = Len(f) + 1
<1>1. Len(f) \in Nat
  BY LenProperties
<1>2. CASE pos < Len(f)
  <2>1. PICK g : g = [f EXCEPT ![pos + 1] = d]
    OBVIOUS
  <2>2. pos + 1 \in 1..Len(f)
    BY <1>1, <1>2
  <2>3. Len(g) = Len(f) /\ \A j \in 1..Len(f) : g[j] = IF j = pos + 1 THEN d ELSE f[j]
    BY <2>1, <2>2, ExceptSeq
  <2>4. Written(f, pos, d) = g
    BY <1>2, <2>1 DEF Written
  <2>5. ASSUME NEW n \in Nat, Holds(f, n) PROVE Holds(g, n)
    <3>1. ASSUME NEW i \in 1..n PROVE g[i] = i
      BY <1>1, <1>2, <2>3, <2>5, <3>1 DEF Holds
    <3>2. QED BY <2>3, <2>5, <3>1 DEF Holds
  <2>6. ASSUME d = pos + 1, Holds(f, pos) PROVE Holds(g, pos + 1)
    <3>1. ASSUME NEW i \in 1..pos + 1 PROVE g[i] = i
      BY <1>1, <2>2, <2>3, <2>6, <3>1 DEF Holds
    <3>2. QED BY <1>1, <2>2, <2>3, <3>1 DEF Holds
  <2>7. QED BY <1>2, <2>3, <2>4, <2>5, <2>6
<1>3. CASE ~(pos < Len(f))
  <2>1. PICK g : g = Append(f, d)
    OBVIOUS
  <2>2. Len(g) = Len(f) + 1 /\ (\A j \in 1..Len(f) : g[j] = f[j]) /\ g[Len(f) + 1] = d
    BY <2>1, AppendProperties
  <2>3. Written(f, pos, d) = g
    BY <1>3, <2>1 DEF Written
  <2>4. ASSUME NEW n \in Nat, Holds(f, n) PROVE Holds(g, n)
    BY <1>1, <2>2, <2>4 DEF Holds
  <2>5. ASSUME d = pos + 1, Holds(f, pos) PROVE Holds(g, pos + 1)
    <3>1. pos = Len(f)
      BY <1>1, <1>3, <2>5 DEF Holds
    <3>2. ASSUME NEW i \in 1..pos + 1 PROVE g[i] = i
      BY <1>1, <2>2, <2>5, <3>1, <3>2 DEF Holds
    <3>3. QED BY <2>2, <3>1, <3>2 DEF Holds
  <2>6. QED BY <1>3, <2>2, <2>3, <2>4, <2>5
<1>4. QED BY <1>2, <1>3

(* A failing close takes nothing away from a file that was open when the   *)
(* upload was complete.                                                    *)
LEMMA CutHolds ==
  ASSUME NEW f \in Seq(0..Blocks), NEW g \in Seq(0..Blocks), NEW n \in Nat, NEW m \in Nat, m < Blocks,
         Len(f) <= n \/ Len(f) <= m, n <= Len(g), Holds(f, Blocks), Holds(g, Blocks)
  PROVE  Holds(SubSeq(g, 1, n), Blocks)
<1>1. Len(f) \in Nat /\ Len(g) \in Nat /\ Blocks <= n /\ Blocks <= Len(g)
  BY Bounds, LenProperties DEF Holds
<1>2. PICK k : k = SubSeq(g, 1, n)
  OBVIOUS
<1>3. Len(k) = n /\ \A i \in 1..n : k[i] = g[i]
  BY <1>2, CutType
<1>4. QED BY <1>1, <1>2, <1>3, Bounds DEF Holds

(* A step of the server that takes nothing away from the files, and        *)
(* acknowledges only what is there.                                        *)
LEMMA UpFrame ==
  ASSUME UpInv, BackInv, client' = client, NEW c \in Clients, NEW p \in Datagrams,
         toClient' = toClient \/ toClient' = Sent(toClient, c, p),
         \A d \in Clients \ Readers : Holds(card[d], Blocks) => Holds(card'[d], Blocks),
         c \notin Readers /\ p.op = "ack" /\ p.n = Blocks => Holds(card'[c], Blocks),
         tftp_state'.client \in Clients \ Readers => InPlace(card'[tftp_state'.client], tftp_state')
  PROVE  UpInv'
<1>1. ASSUME NEW d \in Clients \ Readers
      PROVE  toClient'[d] \in Seq(Told(d)') /\ (client'[d].pc = "done" => Holds(card'[d], Blocks))
  <2>1. toClient \in [Clients -> Seq(Datagrams)] /\ toClient[d] \in Seq(Told(d))
        /\ (client[d].pc = "done" => Holds(card[d], Blocks))
    BY DEF BackInv, UpInv
  <2>2. PICK T : T = Told(d)'
    OBVIOUS
  <2>3. Told(d) \subseteq T
    BY <2>2, PacketFields DEF Told
  <2>4. toClient[d] \in Seq(T)
    BY <2>1, <2>3
  <2>5. d = c => p \in T
    BY <2>2 DEF Told
  <2>6. CASE toClient' = Sent(toClient, c, p)
    <3>1. toClient'[d] \in Seq(T)
      BY <2>1, <2>4, <2>5, <2>6, SentIn
    <3>2. QED BY <2>1, <2>2, <3>1, Bounds
  <2>7. QED BY <2>1, <2>2, <2>4, <2>6, Bounds
<1>2. QED BY <1>1 DEF UpInv

(* A datagram of an upload.                                                *)
LEMMA UpData ==
  ASSUME Blocks < BlkMod, ServerInv, WorldInv, BackInv, CardType, UpInv,
         NEW c \in Clients, RecvData(c), ~spoiled'
  PROVE  UpInv'
<1>1. PICK h : h = Heard(tftp_state)
  OBVIOUS
<1>2. /\ Session(h) /\ h \in States /\ h.client = tftp_state.client /\ h.pos = tftp_state.pos
      /\ h.old = tftp_state.old
  BY <1>1, HeardSession DEF ServerInv, Session
<1>3. PICK p \in FromClient(c) : p = Head(toServer[c]) /\ p.op = "data" /\ p \in InStep /\ p \in Datagrams
  BY Received DEF RecvData
<1>4. c \notin Readers /\ c # None /\ p.n = p.d /\ p.d \in 1..Blocks /\ p.n \in Numbers
  BY <1>3, PacketFields, Bounds DEF FromClient, InStep
<1>5. PICK a \in Datagrams : a = Ack(p.n) /\ a.op = "ack" /\ a.n = p.n
  BY <1>4, PacketTypes DEF InStep, Ack, Packet
<1>6. PICK e \in Datagrams : e = Error /\ e.op = "error"
  BY PacketTypes DEF InStep, Error, Packet
<1>7. PICK m \in Nat, b \in Numbers, old \in Nat : m = h.pos /\ b = h.blknum /\ old = h.old /\ m \in 0..Blocks
  BY <1>2, Bounds DEF States
<1>8. PICK f \in Seq(0..Blocks) : f = card[c] /\ card \in [Clients -> Seq(0..Blocks)]
  BY DEF CardType
<1>9. h.client = c => b = m + 1 /\ m < Blocks /\ Holds(f, m) /\ (Len(f) <= old \/ Len(f) <= m) /\ old <= Len(f)
  BY <1>2, <1>4, <1>7, <1>8 DEF Session, UpInv, InPlace, CardType
<1>10. client' = client
  BY DEF RecvData, Receives
<1>11. ASSUME NEW g, card' = [card EXCEPT ![c] = g], Holds(f, Blocks) => Holds(g, Blocks)
       PROVE  card'[c] = g /\ \A k \in Clients \ Readers : Holds(card[k], Blocks) => Holds(card'[k], Blocks)
  <2>1. card'[c] = g /\ \A k \in Clients : k # c => card'[k] = card[k]
    BY <1>8, <1>11
  <2>2. QED BY <1>8, <1>11, <2>1
<1>12. CASE /\ h.client = c /\ p.n = h.blknum /\ ~Short(p)
            /\ card' = [card EXCEPT ![c] = Written(@, h.pos, p.d)]
            /\ toClient' = Sent(toClient, c, Ack(p.n))
            /\ tftp_state' = [h EXCEPT !.blknum = After(@), !.pos = @ + 1]
  <2>1. p.d = m + 1 /\ p.d \in 0..Blocks /\ p.d # Blocks
    BY <1>4, <1>7, <1>9, <1>12, Bounds DEF Short
  <2>2. PICK g \in Seq(0..Blocks) : g = Written(f, m, m + 1) /\ card' = [card EXCEPT ![c] = g]
    BY <1>7, <1>8, <1>12, <2>1, WrittenType
  <2>3. /\ Holds(f, Blocks) => Holds(g, Blocks)
        /\ Holds(g, m + 1)
        /\ Len(g) = IF m < Len(f) THEN Len(f) ELSE Len(f) + 1
    BY <1>9, <1>12, <2>1, <2>2, WriteHolds, Bounds
  <2>4. tftp_state'.client = c /\ tftp_state'.pos = m + 1 /\ tftp_state'.old = old
    BY <1>2, <1>7, <1>12 DEF States
  <2>5. Len(f) \in Nat
    BY LenProperties
  <2>6. InPlace(g, tftp_state')
    BY <1>9, <1>12, <2>3, <2>4, <2>5 DEF InPlace, Holds
  <2>7. card'[c] = g /\ \A k \in Clients \ Readers : Holds(card[k], Blocks) => Holds(card'[k], Blocks)
    BY <1>11, <2>2, <2>3
  <2>8. toClient' = Sent(toClient, c, a) /\ a.n # Blocks
    BY <1>4, <1>5, <1>12, <2>1
  <2>9. QED BY <1>10, <2>4, <2>6, <2>7, <2>8, UpFrame
<1>13. CASE /\ h.client = c /\ p.n = h.blknum /\ Short(p) /\ tftp_state' = Closed(h)
            /\ toClient' = Sent(toClient, c, Ack(p.n))
            /\ \E g \in Left(Written(card[c], h.pos, p.d), h.old) \cup Left(card[c], h.old) :
                 /\ card' = [card EXCEPT ![c] = g]
                 /\ spoiled' = (spoiled \/ g # Written(card[c], h.pos, p.d))
  <2>1. p.d = m + 1 /\ p.d \in 0..Blocks /\ p.d = Blocks
    <3>1. p.d = Blocks
      BY <1>13 DEF Short
    <3>2. h.client = c /\ p.n = h.blknum
      BY <1>13
    <3>3. QED BY <1>4, <1>7, <1>9, <3>1, <3>2, Bounds
  <2>2. PICK g : card' = [card EXCEPT ![c] = g] /\ spoiled' = (spoiled \/ g # Written(f, m, p.d))
    BY <1>7, <1>8, <1>13
  <2>3. g = Written(f, m, p.d)
    BY <2>2, Zenon
  <2>4. Holds(g, Blocks)
    <3>1. Holds(Written(f, m, p.d), m + 1)
      BY <1>9, <1>13, <2>1, WriteHolds
    <3>2. QED BY <2>1, <2>3, <3>1
  <2>5. card'[c] = g /\ \A k \in Clients \ Readers : Holds(card[k], Blocks) => Holds(card'[k], Blocks)
    BY <1>11, <2>2, <2>4
  <2>6. tftp_state'.client = None
    BY <1>2, <1>13, ClosedSession
  <2>7. toClient' = Sent(toClient, c, a)
    BY <1>5, <1>13
  <2>8. QED BY <1>10, <2>4, <2>5, <2>6, <2>7, UpFrame, Bounds
<1>14. CASE /\ h.client = c
            /\ \E g \in Left(Written(card[c], h.pos, 0), h.old) : card' = [card EXCEPT ![c] = g]
            /\ spoiled' = (spoiled \/ (h.pos < Len(card[c]) /\ card[c][h.pos + 1] # 0))
            /\ toClient' = Sent(toClient, c, Error)
            /\ tftp_state' = Closed(h) \/ tftp_state' = [Closed(h) EXCEPT !.blknum = After(@)]
  <2>1. m < Len(f) => f[m + 1] = 0
    <3>1. spoiled' = (spoiled \/ (m < Len(f) /\ f[m + 1] # 0))
      BY <1>7, <1>8, <1>14
    <3>2. QED BY <3>1, Zenon
  <2>2. PICK w \in Seq(0..Blocks) : w = Written(f, m, 0) /\ Len(f) <= Len(w)
    <3>1. 0 \in 0..Blocks
      BY Bounds
    <3>2. QED BY <3>1, WrittenType
  <2>3. Holds(f, Blocks) => Holds(w, Blocks)
    <3>1. 0 \in 0..Blocks /\ Blocks \in Nat
      BY Bounds
    <3>2. QED BY <2>1, <2>2, <3>1, WriteHolds
  <2>4. PICK g \in {w, SubSeq(w, 1, old)} : card' = [card EXCEPT ![c] = g]
    BY <1>7, <1>8, <1>14, <2>2 DEF Left
  <2>5. Holds(f, Blocks) => Holds(g, Blocks)
    <3>1. old <= Len(w) /\ m < Blocks /\ (Len(f) <= old \/ Len(f) <= m)
      BY <1>9, <1>14, <2>2, LenProperties
    <3>2. QED BY <2>3, <2>4, <3>1, CutHolds
  <2>6. \A k \in Clients \ Readers : Holds(card[k], Blocks) => Holds(card'[k], Blocks)
    BY <1>11, <2>4, <2>5
  <2>7. Closed(h).client = None /\ Closed(h) \in States
    BY <1>2, ClosedSession
  <2>8. tftp_state'.client = None
    BY <1>14, <2>7 DEF States
  <2>9. toClient' = Sent(toClient, c, e)
    BY <1>6, <1>14
  <2>10. QED BY <1>6, <1>10, <2>6, <2>8, <2>9, UpFrame, Bounds
<1>15. ASSUME tftp_state' = h, UNCHANGED card
       PROVE  tftp_state'.client \in Clients \ Readers => InPlace(card'[tftp_state'.client], tftp_state')
  BY <1>2, <1>15 DEF UpInv, InPlace
<1>16. CASE /\ h.client = c /\ After(p.n) = h.blknum /\ tftp_state' = h
            /\ toClient' = Sent(toClient, c, Ack(p.n)) /\ UNCHANGED card
  <2>1. p.n = m
    <3>1. CASE p.n + 1 < BlkMod
      BY <1>4, <1>7, <1>9, <1>16, <3>1, AfterFacts
    <3>2. CASE p.n + 1 = BlkMod
      BY <1>4, <1>7, <1>9, <1>16, <3>2, Bounds DEF After
    <3>3. QED BY <1>4, <3>1, <3>2, Bounds
  <2>2. a.n # Blocks /\ toClient' = Sent(toClient, c, a)
    BY <1>5, <1>9, <1>16, <2>1, Bounds
  <2>3. QED BY <1>10, <1>15, <1>16, <2>2, UpFrame
<1>17. CASE tftp_state' = h /\ toClient' = Sent(toClient, c, Error) /\ UNCHANGED card
  BY <1>6, <1>10, <1>15, <1>17, UpFrame
<1>18. QED BY <1>1, <1>3, <1>12, <1>13, <1>14, <1>16, <1>17 DEF RecvData, Answer, Refuse

(* The other steps of recv() leave the files alone, and acknowledge at     *)
(* most a request.                                                         *)
LEMMA UpServer ==
  ASSUME ServerInv, WorldInv, BackInv, CardType, UpInv, NEW c \in Clients,
         RecvStranger(c) \/ RecvOther(c) \/ RecvRequest(c) \/ RecvAck(c)
  PROVE  UpInv'
<1>1. PICK h \in States : h = Heard(tftp_state)
  BY HeardSession DEF ServerInv, Session
<1>2. client' = client /\ card' = card
  BY OpenAfter DEF RecvStranger, RecvOther, RecvRequest, RecvAck, Receives
<1>3. tftp_state'.client \in Clients \ Readers => InPlace(card'[tftp_state'.client], tftp_state')
  <2>1. Len(card[c]) \in Nat
    BY LenProperties DEF CardType
  <2>2. QED BY <1>2, <2>1, OpenAfter DEF UpInv, InPlace, Holds
<1>4. PICK p \in Datagrams : /\ toClient' = toClient \/ toClient' = Sent(toClient, c, p)
                             /\ ~(p.op = "ack" /\ p.n = Blocks)
  <2>1. 0 \in Numbers /\ 1 \in Numbers /\ 0 \in 0..Blocks /\ Blocks # 0
    BY Bounds DEF Numbers
  <2>2. Error \in Datagrams /\ Error.op = "error" /\ Ack(0) \in Datagrams /\ Ack(0).n = 0
    BY <2>1, PacketTypes DEF InStep, Error, Ack, Packet
  <2>3. CASE toClient' \in {toClient, Sent(toClient, c, Error), Sent(toClient, c, Ack(0))}
    BY <2>1, <2>2, <2>3
  <2>4. ASSUME NEW s \in States, s.client = c, NEW n, send_data(s, n)
        PROVE  \E p \in Datagrams : /\ toClient' = toClient \/ toClient' = Sent(toClient, c, p)
                                    /\ ~(p.op = "ack" /\ p.n = Blocks)
    <3>1. CASE s.pos < Blocks /\ toClient' = Sent(toClient, c, Data(s.blknum, s.pos + 1))
      <4>1. s.blknum \in Numbers /\ s.pos + 1 \in 1..Blocks
        BY <3>1, Bounds DEF States
      <4>2. Data(s.blknum, s.pos + 1) \in Datagrams /\ Data(s.blknum, s.pos + 1).op = "data"
        BY <4>1, PacketTypes DEF Data, Packet
      <4>3. QED BY <3>1, <4>2
    <3>2. CASE toClient' \in {toClient, Sent(toClient, c, Error)}
      BY <2>2, <3>2
    <3>3. QED BY <2>4, <3>1, <3>2 DEF send_data, Answer
  <2>5. CASE RecvStranger(c) \/ RecvOther(c)
    BY <2>3, <2>5 DEF RecvStranger, RecvOther, Refuse, Answer
  <2>6. CASE RecvAck(c)
    <3>1. PICK t : t = [h EXCEPT !.blknum = After(h.blknum)]
      OBVIOUS
    <3>2. t \in States
      BY <3>1, AfterFacts DEF States
    <3>3. t.client = h.client
      BY <3>1 DEF States
    <3>4. toClient' \in {toClient, Sent(toClient, c, Error)} \/ (h.client = c /\ send_data(t, timers))
      BY <1>1, <2>6, <3>1 DEF RecvAck, Answer
    <3>5. PICK n : n = timers
      OBVIOUS
    <3>6. QED BY <2>3, <2>4, <3>2, <3>3, <3>4, <3>5
  <2>7. CASE RecvRequest(c)
    <3>1. PICK s : s = [h EXCEPT !.blknum = 1]
      OBVIOUS
    <3>2. s \in States
      BY <2>1, <3>1 DEF States
    <3>3. PICK t : t = [s EXCEPT !.client = c, !.mode_write = FALSE, !.pos = 0]
      OBVIOUS
    <3>4. t \in States
      BY <2>1, <3>2, <3>3 DEF States
    <3>5. t.client = c
      BY <3>2, <3>3 DEF States
    <3>6. \/ toClient' \in {toClient, Sent(toClient, c, Error), Sent(toClient, c, Ack(0))}
          \/ send_data(t, timers + 1)
      BY <1>1, <2>7, <3>1, <3>3 DEF RecvRequest, Refuse, Answer
    <3>7. PICK n : n = timers + 1
      OBVIOUS
    <3>8. QED BY <2>3, <2>4, <3>4, <3>5, <3>6, <3>7
  <2>8. QED BY <2>5, <2>6, <2>7
<1>5. QED BY <1>2, <1>3, <1>4, UpFrame

(* The timer sends data again, which acknowledges nothing, or closes the   *)
(* file.                                                                   *)
LEMMA UpTimer ==
  ASSUME ServerInv, BackInv, CardType, UpInv, tftp_tmr
  PROVE  UpInv'
<1>1. client' = client
  BY DEF tftp_tmr
<1>2. PICK s : s = [tftp_state EXCEPT !.idle = Elapsed]
  OBVIOUS
<1>3. Session(tftp_state) /\ tftp_state \in States
  BY DEF ServerInv, Session
<1>4. /\ s.client = tftp_state.client /\ s.pos = tftp_state.pos /\ s.last_data = tftp_state.last_data
      /\ s.old = tftp_state.old /\ s.mode_write = tftp_state.mode_write /\ DOMAIN s = DOMAIN tftp_state
  BY <1>2, <1>3 DEF States
<1>5. ASSUME card' = card, tftp_state' = s \/ tftp_state' = [s EXCEPT !.retries = @ + 1]
      PROVE  tftp_state'.client \in Clients \ Readers => InPlace(card'[tftp_state'.client], tftp_state')
  <2>1. /\ tftp_state'.client = tftp_state.client /\ tftp_state'.pos = tftp_state.pos
        /\ tftp_state'.old = tftp_state.old
    BY <1>3, <1>4, <1>5 DEF States
  <2>2. QED BY <1>5, <2>1 DEF UpInv, InPlace
<1>6. CASE tftp_state' = s /\ UNCHANGED <<toClient, card>>
  BY <1>1, <1>5, <1>6 DEF UpInv, Told
<1>7. CASE /\ tftp_state' = Closed(s) /\ UNCHANGED toClient
           /\ \/ UNCHANGED card
              \/ s.client # None /\ s.mode_write /\ card' = [card EXCEPT ![s.client] = SubSeq(@, 1, s.old)]
  <2>1. tftp_state'.client = None
    BY <1>3, <1>4, <1>7 DEF Closed, States
  <2>2. CASE UNCHANGED card
    BY <1>1, <1>7, <2>1, <2>2, Bounds DEF UpInv, Told
  <2>3. CASE s.client # None /\ s.mode_write /\ card' = [card EXCEPT ![s.client] = SubSeq(@, 1, s.old)]
    <3>1. PICK c \in Clients \ Readers : c = s.client
      BY <1>3, <1>4, <2>3 DEF Session, States
    <3>2. PICK f \in Seq(0..Blocks), old \in Nat, m \in Nat :
            f = card[c] /\ old = s.old /\ m = s.pos /\ old <= Len(f) /\ m < Blocks
            /\ (Len(f) <= old \/ Len(f) <= m)
      BY <1>3, <1>4, <3>1, Bounds DEF CardType, States, Session, UpInv, InPlace
    <3>3. Holds(f, Blocks) => Holds(SubSeq(f, 1, old), Blocks)
      BY <3>2, CutHolds
    <3>4. card'[c] = SubSeq(f, 1, old) /\ \A k \in Clients : k # c => card'[k] = card[k]
      BY <2>3, <3>1, <3>2 DEF CardType
    <3>5. \A k \in Clients \ Readers : Holds(card[k], Blocks) => Holds(card'[k], Blocks)
      BY <3>2, <3>3, <3>4
    <3>6. PICK e \in Datagrams : e = Error
      BY PacketTypes DEF InStep
    <3>7. e.op = "error"
      BY <3>6 DEF Error, Packet
    <3>8. QED BY <1>1, <1>7, <2>1, <3>1, <3>5, <3>6, <3>7, UpFrame, Bounds
  <2>4. QED BY <1>7, <2>2, <2>3
<1>8. CASE /\ s.client # None /\ s.last_data # None /\ tftp_state' = [s EXCEPT !.retries = @ + 1]
           /\ toClient' = Sent(toClient, s.client, s.last_data) /\ UNCHANGED card
  <2>1. PICK c \in Clients, p \in Datagrams : c = s.client /\ p = s.last_data
    BY <1>3, <1>4, <1>8 DEF States
  <2>2. c \in Readers
    BY <1>3, <1>4, <1>8, <2>1 DEF Session
  <2>3. toClient' = Sent(toClient, c, p)
    BY <1>8, <2>1
  <2>4. QED BY <1>1, <1>5, <1>8, <2>2, <2>3, UpFrame
<1>9. QED BY <1>2, <1>6, <1>7, <1>8 DEF tftp_tmr, Answer

(* A client is done when the last block is acknowledged, and the           *)
(* acknowledgement is true.                                                *)
LEMMA UpWorld ==
  ASSUME Blocks < BlkMod, WorldInv, BackInv, DownInv, UpInv, NEW c \in Clients,
         Start(c) \/ Repeat(c) \/ Abort(c) \/ Advance(c) \/ Lose(c) \/ Duplicate(c)
  PROVE  UpInv'
<1>1. UNCHANGED <<tftp_state, card, starved>>
  BY DEF Start, Repeat, Abort, Advance, Lose, Duplicate, Says
<1>2. client \in [Clients -> Peers] /\ toClient \in [Clients -> Seq(Datagrams)]
  BY DEF WorldInv, BackInv
<1>3. \/ toClient' = toClient
      \/ toClient[c] # <<>> /\ toClient' = [toClient EXCEPT ![c] = Tail(@)]
  BY DEF Start, Repeat, Abort, Advance, Lose, Duplicate, Says
<1>4. ASSUME NEW d \in Clients \ Readers PROVE toClient'[d] \in Seq(Told(d)')
  <2>1. toClient[d] \in Seq(Told(d)) /\ Told(d)' = Told(d)
    BY <1>1 DEF UpInv, Told
  <2>2. CASE toClient[c] # <<>> /\ toClient' = [toClient EXCEPT ![c] = Tail(@)] /\ d = c
    <3>1. Tail(toClient[d]) \in Seq(Told(d))
      BY <2>1, <2>2, TailIn
    <3>2. QED BY <1>2, <2>1, <2>2, <3>1
  <2>3. QED BY <1>2, <1>3, <2>1, <2>2
<1>5. ASSUME NEW d \in Clients \ Readers, client'[d].pc = "done"
      PROVE  \/ client[d].pc = "done"
             \/ /\ d = c /\ toClient[c] # <<>> /\ client[c].got = Blocks
                /\ Head(toClient[c]) = Ack(client[c].blk)
  <2>1. ASSUME NEW x \in {"busy", "failed"}, client' = [client EXCEPT ![c].pc = x]
        PROVE  client[d].pc = "done"
    <3>1. client'[c].pc = x
      BY <1>2, <2>1 DEF Peers
    <3>2. d # c
      BY <1>5, <2>1, <3>1
    <3>3. QED BY <1>2, <1>5, <2>1, <3>2
  <2>2. CASE client' = client
    BY <1>5, <2>2
  <2>3. CASE c \in Readers /\ \E r : client' = [client EXCEPT ![c] = r]
    BY <1>2, <1>5, <2>3
  <2>4. CASE /\ c \notin Readers /\ client[c].got # Blocks
             /\ client' = [client EXCEPT ![c].blk = After(@), ![c].got = @ + 1]
    BY <1>1, <1>5, <2>4, NextPart
  <2>5. CASE /\ toClient[c] # <<>> /\ client[c].got = Blocks /\ Head(toClient[c]) = Ack(client[c].blk)
             /\ client' = [client EXCEPT ![c].pc = "done"]
    BY <1>2, <1>5, <2>5
  <2>6. CASE Advance(c)
    <3>1. \/ client' = [client EXCEPT ![c].pc = "failed"]
          \/ client' = client
          \/ c \in Readers /\ \E r : client' = [client EXCEPT ![c] = r]
          \/ /\ c \notin Readers /\ client[c].got # Blocks
             /\ client' = [client EXCEPT ![c].blk = After(@), ![c].got = @ + 1]
          \/ /\ toClient[c] # <<>> /\ client[c].got = Blocks /\ Head(toClient[c]) = Ack(client[c].blk)
             /\ client' = [client EXCEPT ![c].pc = "done"]
      BY <2>6, Zenon DEF Advance, Says
    <3>2. QED BY <2>1, <2>2, <2>3, <2>4, <2>5, <3>1
  <2>7. CASE ~Advance(c)
    <3>1. client' = [client EXCEPT ![c].pc = "busy"] \/ client' = [client EXCEPT ![c].pc = "failed"]
          \/ client' = client
      BY <2>7 DEF Start, Repeat, Abort, Lose, Duplicate
    <3>2. QED BY <2>1, <2>2, <3>1
  <2>8. QED BY <2>6, <2>7
<1>6. ASSUME NEW d \in Clients \ Readers, client'[d].pc = "done" PROVE Holds(card'[d], Blocks)
  <2>1. CASE client[d].pc = "done"
    BY <1>1, <2>1 DEF UpInv
  <2>2. CASE /\ d = c /\ toClient[c] # <<>> /\ client[c].got = Blocks
             /\ Head(toClient[c]) = Ack(client[c].blk)
    <3>1. Head(toClient[c]) \in Told(c)
      BY <2>2, TailIn DEF UpInv
    <3>2. Ack(client[c].blk) = Ack(Blocks)
      BY <2>2 DEF WorldInv
    <3>3. Ack(Blocks).op = "ack" /\ Ack(Blocks).n = Blocks
      BY DEF Ack, Packet
    <3>4. QED BY <1>1, <2>2, <3>1, <3>2, <3>3 DEF Told
  <2>3. QED BY <1>5, <1>6, <2>1, <2>2
<1>7. QED BY <1>1, <1>4, <1>6 DEF UpInv

(* Every step keeps what the card holds of the uploads, until the close of *)
(* a complete one or a write of a later transfer of the same file fails.   *)
LEMMA UpNext ==
  ASSUME Blocks < BlkMod, TftpInv, spoiled \/ UpInv, [Next]_vars
  PROVE  spoiled' \/ UpInv'
<1> USE DEF TftpInv
<1>1. SUFFICES ASSUME ~spoiled' PROVE UpInv'
  OBVIOUS
<1>2. ~spoiled
  BY <1>1, Zenon DEF Next, Server, World, RecvStranger, RecvRequest, RecvData, RecvAck, RecvOther, tftp_tmr,
               Start, Repeat, Abort, Advance, Lose, Duplicate, Says, vars
<1>3. UpInv
  BY <1>2
<1>4. ASSUME NEW c \in Clients,
             RecvStranger(c) \/ RecvRequest(c) \/ RecvData(c) \/ RecvAck(c) \/ RecvOther(c)
      PROVE  UpInv'
  BY <1>1, <1>3, <1>4, UpData, UpServer
<1>5. CASE tftp_tmr
  BY <1>3, <1>5, UpTimer
<1>6. ASSUME NEW c \in Clients,
             Start(c) \/ Repeat(c) \/ Abort(c) \/ Advance(c) \/ Lose(c) \/ Duplicate(c)
      PROVE  UpInv'
  BY <1>3, <1>6, UpWorld
<1>7. CASE UNCHANGED vars
  BY <1>3, <1>7 DEF vars, UpInv, Told
<1>8. QED BY <1>4, <1>5, <1>6, <1>7 DEF Next, Server, World

(* For every length of the file below 2^16 blocks, whatever is lost,       *)
(* delayed or sent twice: when RecvData() has acknowledged the last block  *)
(* of an upload, the card holds all of them in order, unless the f_close() *)
(* behind it or a write of a later transfer of the same file failed.       *)
THEOREM UploadsIntact ==
  ASSUME Blocks < BlkMod
  PROVE  Spec => []UploadIntact
<1>1. Init => TftpInv /\ (spoiled \/ UpInv)
  <2> SUFFICES ASSUME Init PROVE TftpInv /\ (spoiled \/ UpInv)
    OBVIOUS
  <2>1. \A S : <<>> \in Seq(S)
    BY EmptySeq
  <2>2. UpInv
    BY <2>1, Bounds DEF Init, UpInv
  <2>3. QED BY <2>2, TftpInit
<1>2. TftpInv /\ (spoiled \/ UpInv) /\ [Next]_vars => TftpInv' /\ (spoiled' \/ UpInv')
  BY TftpNext, UpNext
<1>3. TftpInv /\ (spoiled \/ UpInv) => UploadIntact
  <2> SUFFICES ASSUME TftpInv, UpInv, NEW c \in Clients \ Readers, client[c].pc = "done"
               PROVE  SubSeq(card[c], 1, Blocks) = File
    BY DEF UploadIntact
  <2>1. Holds(card[c], Blocks) /\ card[c] \in Seq(0..Blocks)
    BY DEF UpInv, TftpInv, CardType
  <2>2. PICK f \in Seq(0..Blocks) : f = card[c] /\ Holds(f, Blocks)
    BY <2>1
  <2>3. Len(f) \in Nat /\ Blocks <= Len(f) /\ \A i \in 1..Blocks : f[i] = i /\ f[i] \in 0..Blocks
    BY <2>2, LenProperties, Bounds DEF Holds
  <2>4. PICK g : g = SubSeq(f, 1, Blocks)
    OBVIOUS
  <2>5. g \in Seq(0..Blocks) /\ Len(g) = Blocks /\ \A i \in 1..Blocks : g[i] = f[i]
    BY <2>3, <2>4, Bounds
  <2>6. File \in Seq(0..Blocks) /\ Len(File) = Blocks /\ \A i \in 1..Blocks : File[i] = i
    BY Bounds, IsASeq DEF File
  <2>7. g = File
    <3>1. Len(g) = Len(File) /\ \A i \in 1..Len(g) : g[i] = File[i]
      BY <2>3, <2>5, <2>6
    <3>2. QED BY <2>5, <2>6, <3>1, SeqEqual
  <2>8. QED BY <2>2, <2>4, <2>7
<1>4. QED BY <1>1, <1>2, <1>3, PTL DEF Spec

=============================================================================
