------------------------------- MODULE Snapshot -------------------------------
(***************************************************************************)
(* Snapshots: the FPGA writes every 10 kHz sample into a circular buffer   *)
(* in DDR (adc2ddr.vhd) and, on a trigger, latches the address of the      *)
(* sample being taken (ps_io.vhd); snapshot_process() (snapshots.c), run   *)
(* by pscdata_poll() about every 100 ms, notices the new address, waits    *)
(* for the post-trigger samples, and sends the samples around it.          *)
(*                                                                         *)
(* An address is the number of its slot in the buffer (one slot is one     *)
(* sample of 160 bytes).  What a slot holds is kept relative to a trigger: *)
(* sample 0 is the trigger's, sample -1 the one before.  The time between  *)
(* two polls is counted in the samples taken meanwhile.                    *)
(***************************************************************************)
EXTENDS Integers, Sequences

CONSTANTS
  Trigs,       \* trigger sources: 5*i + 0, 1, 2, 3, 4 for usr[i], flt[i], err[i],
               \* inj[i], evr[i]
  N,           \* slots of the buffer, BUFLEN / BUFSTEPBYTES
  NoAddr,      \* the address registers before any trigger (0)
  Pts,         \* pretrigpts and posttrigpts of usr, flt and err
  InjPts,      \* posttrigpts of inj, whose pretrigpts is 0
  InjSent,     \* the samples of MSGINJWFMLEN
  PtsPerPoll,  \* 1000, the samples a poll is taken to last
  SMin, SMax   \* bound: the samples a poll really lasts, at least and at most

ASSUME SnapshotAssumption ==
  /\ Trigs \subseteq Nat
  /\ N \in Nat \ {0} /\ NoAddr \notin 0..N - 1
  /\ {Pts, InjPts, InjSent, PtsPerPoll} \subseteq Nat \ {0}
  /\ 2 * Pts <= N /\ InjPts <= N /\ InjSent <= InjPts
  /\ SMin \in Nat \ {0} /\ SMax \in Nat /\ SMin <= SMax

IsInj(t) == t % 5 = 3
IsEvr(t) == t % 5 = 4
pretrigpts(t)  == IF IsInj(t) THEN 0 ELSE Pts
posttrigpts(t) == IF IsInj(t) THEN InjPts ELSE Pts

(* The samples of the message SendWfmData() sends, and how many of them    *)
(* come after the trigger.                                                 *)
Sent(t) == IF IsInj(t) THEN 1..InjSent ELSE 1..2 * Pts
SentPost(t) == IF IsInj(t) THEN InjSent ELSE Pts

(* The polls ProcessTrigger() waits for.                                   *)
Wait(t) == posttrigpts(t) \div PtsPerPoll

(* What the waits rely on: polls short enough that neither a trigger's own *)
(* wait nor the one it may spend behind an active trigger outlasts the     *)
(* buffer.  Nothing is assumed of the shortest poll: the program's clock   *)
(* brings 996 samples in the 100 ms that are taken for PtsPerPoll.         *)
ASSUME TimingAssumption ==
  \A t \in Trigs : ~IsEvr(t) =>
    2 * (Wait(t) * SMax) + 2 * SMax + pretrigpts(t) + 1 <= N

VARIABLES
  addr_base, busy,   \* adc2ddr: the slot to write next; a burst is under way
  addr_ptr,          \* adc2ddr: the slot of the latest sample
  total,             \* samples in the buffer since reset, up to N
  bufptr,            \* ps_io: the address latched for each trigger
  taken,             \* samples complete since then, the trigger's included
  addr, addr_last, active, postdlycnt, sendbuf,  \* TriggerInfo
  addrTaken,         \* taken, for the trigger at addr
  todo,              \* the triggers snapshot_process() has still to look at
  fresh              \* samples completed since the last poll

ddr   == <<addr_base, busy, addr_ptr, total>>
latch == <<bufptr, taken>>
info  == <<addr, addr_last, active, postdlycnt, sendbuf, addrTaken>>
vars  == <<ddr, latch, info, todo, fresh>>

Addrs == 0..N - 1 \cup {NoAddr}
TakenCap == N + 1   \* bound: by then a window has lost its samples and stays spoiled
Count(n) == IF n < TakenCap THEN n + 1 ELSE n

(* Addresses lie in the buffer, and postdlycnt never passes the wait.      *)
TypeOK ==
  /\ addr_base \in 0..N - 1 /\ busy \in BOOLEAN /\ addr_ptr \in Addrs /\ total \in 0..N
  /\ {bufptr, addr, addr_last} \subseteq [Trigs -> Addrs]
  /\ {taken, addrTaken} \subseteq [Trigs -> 0..TakenCap]
  /\ {active, sendbuf} \subseteq [Trigs -> BOOLEAN]
  /\ \A t \in Trigs : postdlycnt[t] \in 0..Wait(t)
  /\ todo \subseteq Trigs /\ fresh \in 0..SMax

(* FPGA reset and InitTriggerInfo().                                       *)
Init ==
  /\ addr_base = 0 /\ busy = FALSE /\ addr_ptr = NoAddr /\ total = 0
  /\ bufptr = [t \in Trigs |-> NoAddr] /\ taken = [t \in Trigs |-> 0]
  /\ addr = [t \in Trigs |-> NoAddr] /\ addr_last = [t \in Trigs |-> NoAddr]
  /\ active = [t \in Trigs |-> FALSE] /\ sendbuf = [t \in Trigs |-> FALSE]
  /\ postdlycnt = [t \in Trigs |-> 0] /\ addrTaken = [t \in Trigs |-> 0]
  /\ todo = {} /\ fresh = 0

-----------------------------------------------------------------------------
(* The FPGA.                                                               *)

(* adc2ddr, IDLE: the 10 kHz trigger starts a burst.                       *)
SampleStart ==
  /\ ~busy /\ fresh < SMax
  /\ busy' = TRUE /\ addr_ptr' = addr_base
  /\ UNCHANGED <<addr_base, total, latch, info, todo, fresh>>

(* Mutant: the comparison with DDR_MAX_ADDR lets one more sample in.       *)
NextBaseLate(a) == IF a < N THEN (a + 1) % (N + 1) ELSE 0

(* The next address: DDR_MAX_ADDR is that of the last slot.                *)
NextBase(a) == IF a < N - 1 THEN a + 1 ELSE 0

(* adc2ddr, AWAITRESP: the burst is written.                               *)
SampleEnd ==
  /\ busy /\ busy' = FALSE
  /\ addr_base' = NextBase(addr_base)
  /\ total' = IF total < N THEN total + 1 ELSE N
  /\ taken' = [t \in Trigs |-> IF bufptr[t] = NoAddr THEN 0 ELSE Count(taken[t])]
  /\ addrTaken' = [t \in Trigs |-> IF addr[t] = NoAddr THEN 0 ELSE Count(addrTaken[t])]
  /\ fresh' = fresh + 1
  /\ UNCHANGED <<addr_ptr, bufptr, addr, addr_last, active, postdlycnt, sendbuf, todo>>

(* ps_io: a rising edge of a trigger latches addr_ptr, over whatever was   *)
(* latched before.  (The four evr triggers share a register and the inj    *)
(* triggers an event: each may also come alone here.)                      *)
Latch(t) ==
  /\ addr_ptr # NoAddr
  /\ bufptr' = [bufptr EXCEPT ![t] = addr_ptr]
  /\ taken' = [taken EXCEPT ![t] = IF busy THEN 0 ELSE 1]
  /\ UNCHANGED <<ddr, info, todo, fresh>>

-----------------------------------------------------------------------------
(* snapshot_process().                                                     *)

(* The address ProcessTrigger(t) looks at: the register, unless active.    *)
addrNow(t) == IF active[t] THEN addr[t] ELSE bufptr[t]

(* ProcessTrigger() takes the trigger for a new one.                       *)
Detected(t) == ~active[t] /\ addrNow(t) # addr_last[t]

(* The wait for the post-trigger samples is over.                          *)
Waited(t) == (IF Detected(t) THEN 0 ELSE postdlycnt[t]) >= Wait(t)

(* pscdata_poll() calls snapshot_process(): CheckforTriggers() looks at    *)
(* every trigger; then SendWfmData() has its turn for those with sendbuf,  *)
(* evr excepted.                                                           *)
Poll ==
  /\ todo = {} /\ fresh >= SMin
  /\ addr' = [t \in Trigs |-> addrNow(t)]
  /\ addrTaken' = [t \in Trigs |-> IF active[t] THEN addrTaken[t] ELSE taken[t]]
  /\ active' = [t \in Trigs |-> active[t] \/ Detected(t)]
  /\ addr_last' = [t \in Trigs |-> IF Detected(t) THEN addrNow(t) ELSE addr_last[t]]
  /\ postdlycnt' = [t \in Trigs |->
       LET n == IF Detected(t) THEN 0 ELSE postdlycnt[t]
       IN  IF active'[t] /\ ~Waited(t) THEN n + 1 ELSE n]
  /\ sendbuf' = [t \in Trigs |-> sendbuf[t] \/ (active'[t] /\ Waited(t))]
  /\ todo' = {t \in Trigs : sendbuf'[t] /\ ~IsEvr(t)}
  /\ fresh' = 0
  /\ UNCHANGED <<ddr, latch>>

(* The n slots from s on.                                                  *)
Slots(s, n) == [i \in 1..n |-> s + i - 1]

(* Mutant: a window that ends exactly at the end of the buffer counts as   *)
(* one that wraps before it.                                               *)
ReadDMABufNoPreWrap(a, pre, post) ==
  IF a + post > N
  THEN LET postfirst == N - a IN
         Slots(a - pre, pre) \o Slots(a, postfirst) \o Slots(0, post - postfirst)
  ELSE Slots(IF a < pre THEN 0 ELSE a - pre, pre + post)

(* ReadDMABuf(): the slots copied for a trigger at a, in order.            *)
ReadDMABuf(a, pre, post) ==
  IF a - pre < 0
  THEN LET presec == a  prefirst == pre - presec IN    \* pretrigger wrap
         Slots(N - prefirst, prefirst) \o Slots(0, presec) \o Slots(a, post)
  ELSE IF a + post > N
  THEN LET postfirst == N - a IN                       \* posttrigger wrap
         Slots(a - pre, pre) \o Slots(a, postfirst) \o Slots(0, post - postfirst)
  ELSE Slots(a - pre, pre + post)                      \* no wraps

(* Mutant: the turn passes on only from a waveform that was sent, so one   *)
(* with nothing before it to send is never reached.                        *)
TurnStuck(t) == t \in todo /\ \A u \in Trigs : t <= u

(* snapshot_process() goes through usr, flt, err, inj of each channel in   *)
(* turn.                                                                   *)
Turn(t) == t \in todo /\ \A u \in todo : t <= u

(* SendWfmData(): the flags are reset, the buffer is copied, the message   *)
(* sent; what it blocks for is the samples that follow.                    *)
SendWfmData(t) ==
  /\ Turn(t)
  /\ sendbuf' = [sendbuf EXCEPT ![t] = FALSE]
  /\ active' = [active EXCEPT ![t] = FALSE]
  /\ todo' = todo \ {t}
  /\ UNCHANGED <<ddr, latch, addr, addr_last, postdlycnt, addrTaken, fresh>>

-----------------------------------------------------------------------------
Fpga == SampleStart \/ SampleEnd
Software == Poll \/ \E t \in Trigs : SendWfmData(t)
Next == Fpga \/ Software \/ \E t \in Trigs : Latch(t)

Spec == Init /\ [][Next]_vars

(* The 10 kHz clock runs and the network thread is scheduled.              *)
FairSpec == Spec /\ WF_vars(Fpga) /\ WF_vars(Software)

-----------------------------------------------------------------------------
(* Properties.                                                             *)

(* The sample slot s holds, relative to the trigger at addr[t].            *)
Held(t, s) ==
  LET newest == addrTaken[t] - 1 IN newest - ((newest - (s - addr[t])) % N)

Torn(s) == busy /\ s = addr_base
Unwritten(s) == total < N /\ s >= total

(* A snapshot is what it says: whenever SendWfmData() may copy, the        *)
(* samples of the polls waited for are in, and every sample of the message *)
(* that has been taken is at its place, none overwritten or half written   *)
(* (only samples from before the reset are missing), although the FPGA     *)
(* goes on writing, other waveforms are being sent, and triggers arrive    *)
(* while one is being served.                                              *)
SnapshotIntact ==
  \A t \in Trigs : Turn(t) =>
    LET slots == ReadDMABuf(addr[t], pretrigpts(t), posttrigpts(t)) IN
      /\ Wait(t) * SMin <= addrTaken[t]
      /\ \A i \in Sent(t) : i - pretrigpts(t) <= addrTaken[t] =>
           IF Unwritten(slots[i]) THEN i <= pretrigpts(t)
           ELSE ~Torn(slots[i]) /\ Held(t, slots[i]) = i - 1 - pretrigpts(t)

(* snapshots.c takes 1000 samples for a poll ("each trigger is 10kHz",     *)
(* "this is expecting the loop to run at 10Hz"): when a waveform is sent,  *)
(* all samples of it have been taken.                                      *)
SnapshotComplete ==
  \A t \in Trigs : Turn(t) => SentPost(t) <= addrTaken[t]

(* A latched address that was not reported before is picked up, also when  *)
(* it came while the waveform of an earlier trigger waited or was sent:    *)
(* ProcessTrigger() always gets back to comparing the register with        *)
(* addr_last.                                                              *)
LatestReported ==
  \A t \in Trigs : ~IsEvr(t) =>
    (bufptr[t] # addr_last[t] ~> bufptr[t] = addr_last[t])

=============================================================================
