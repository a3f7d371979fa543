---------------------------- MODULE SnapshotProofs ----------------------------
(***************************************************************************)
(* Proofs about Snapshot: addresses and counters keep their ranges, and    *)
(* under TimingAssumption every waveform is intact, for every size of the  *)
(* buffer, number of triggers, window and length of the polls.             *)
(***************************************************************************)
EXTENDS Snapshot, SequenceTheorems, TLAPS

(* A trigger at slot a, n samples ago, lies n slots behind the write       *)
(* pointer, once around the buffer perhaps.                                *)
Placed(a, n) ==
  a # NoAddr /\ n <= N => \/ a + n = addr_base
                          \/ total = N /\ a + n = addr_base + N

(* The write pointer, the sample being taken and the samples so far.       *)
DdrInv ==
  /\ total < N => total = addr_base
  /\ busy => addr_ptr = addr_base /\ fresh < SMax
  /\ ~busy => Placed(addr_ptr, 1)

(* The whole polls since the trigger of t was detected.                    *)
Polls(t) == IF sendbuf[t] THEN postdlycnt[t] ELSE postdlycnt[t] - 1

(* TriggerInfo's flags: t is active from its detection until its waveform  *)
(* is sent, which the poll that ends the wait also is the turn for.        *)
FlagInv(t) ==
  /\ bufptr[t] = NoAddr => addr[t] = NoAddr /\ addr_last[t] = NoAddr
  /\ active[t] => addr[t] # NoAddr /\ (~sendbuf[t] => postdlycnt[t] >= 1)
  /\ sendbuf[t] => active[t] /\ postdlycnt[t] = Wait(t)
  /\ t \in todo <=> sendbuf[t]

(* How long ago the triggers came that are active or still to be detected. *)
AgeInv(t) ==
  /\ ~active[t] /\ bufptr[t] # addr_last[t] => taken[t] <= Wait(t) * SMax + fresh + 1
  /\ active[t] /\ bufptr[t] # addr_last[t] => taken[t] <= Polls(t) * SMax + fresh + 1
  /\ active[t] => /\ Polls(t) * SMin + fresh <= addrTaken[t]
                  /\ addrTaken[t] <= Wait(t) * SMax + SMax + 1 + Polls(t) * SMax + fresh

TrigInv(t) == /\ Placed(bufptr[t], taken[t]) /\ Placed(addr[t], addrTaken[t])
              /\ ~IsEvr(t) => FlagInv(t) /\ AgeInv(t)

IInv == /\ TypeOK /\ DdrInv
        /\ \A t \in todo : ~IsEvr(t)
        /\ \A t \in Trigs : TrigInv(t)

-----------------------------------------------------------------------------
(* Products of a number of polls and their length.                         *)
LEMMA Times ==
  ASSUME NEW p \in Nat, NEW q \in Nat, NEW m \in Nat
  PROVE  /\ p * m \in Nat /\ 0 * m = 0 /\ (p + 1) * m = p * m + m
         /\ p <= q => p * m <= q * m
OBVIOUS

(* The constants of a trigger.                                             *)
LEMMA TrigConstants ==
  ASSUME NEW t \in Trigs
  PROVE  /\ Wait(t) \in Nat /\ SMax \in Nat /\ SMin \in Nat /\ 1 <= SMin /\ SMin <= SMax
         /\ pretrigpts(t) \in Nat /\ posttrigpts(t) \in Nat /\ N \in Nat /\ N > 0
<1>1. /\ posttrigpts(t) \in Nat /\ pretrigpts(t) \in Nat /\ PtsPerPoll \in Nat \ {0}
      /\ SMax \in Nat /\ SMin \in Nat /\ 1 <= SMin /\ SMin <= SMax /\ N \in Nat /\ N > 0
  BY SnapshotAssumption DEF posttrigpts, pretrigpts
<1>2. posttrigpts(t) \div PtsPerPoll \in Nat
  BY <1>1
<1>3. QED BY <1>1, <1>2 DEF Wait

(* The initial values have their types.                                     *)
LEMMA InitType == Init => TypeOK
<1>1. SUFFICES ASSUME Init PROVE TypeOK
  OBVIOUS
<1>2. N \in Nat /\ N > 0 /\ SMax \in Nat
  BY SnapshotAssumption
<1>3. ASSUME NEW t \in Trigs PROVE postdlycnt[t] \in 0..Wait(t)
  <2>1. postdlycnt[t] = 0 /\ Wait(t) \in Nat
    BY <1>1, TrigConstants DEF Init
  <2>2. QED BY <2>1
<1>4. /\ addr_base \in 0..N - 1 /\ addr_ptr \in Addrs /\ total \in 0..N
      /\ todo \subseteq Trigs /\ fresh \in 0..SMax
  BY <1>1, <1>2 DEF Init, Addrs
<1>5. /\ {bufptr, addr, addr_last} \subseteq [Trigs -> Addrs]
      /\ {taken, addrTaken} \subseteq [Trigs -> 0..TakenCap]
  BY <1>1, <1>2 DEF Init, Addrs, TakenCap
<1>6. busy \in BOOLEAN /\ {active, sendbuf} \subseteq [Trigs -> BOOLEAN]
  BY <1>1 DEF Init
<1>7. QED BY <1>3, <1>4, <1>5, <1>6 DEF TypeOK

(* Every step keeps addresses and counters in their ranges.                *)
LEMMA NextType ==
  ASSUME TypeOK, busy => fresh < SMax, [Next]_vars
  PROVE  TypeOK'
<1> USE DEF ddr, latch, info
<1>1. N \in Nat /\ N > 0 /\ SMax \in Nat /\ TakenCap = N + 1
  BY SnapshotAssumption DEF TakenCap
<1>2. CASE UNCHANGED vars
  BY <1>2 DEF vars, TypeOK
<1>3. CASE SampleStart
  BY <1>3 DEF SampleStart, TypeOK, Addrs
<1>4. CASE SampleEnd
  <2>1. \A n \in 0..TakenCap : Count(n) \in 0..TakenCap
    BY <1>1 DEF Count
  <2>2. taken' \in [Trigs -> 0..TakenCap] /\ addrTaken' \in [Trigs -> 0..TakenCap]
    BY <1>1, <1>4, <2>1 DEF SampleEnd, TypeOK
  <2>3. addr_base' \in 0..N - 1 /\ total' \in 0..N
    BY <1>1, <1>4 DEF SampleEnd, TypeOK, NextBase
  <2>4. fresh' \in 0..SMax
    BY <1>1, <1>4 DEF SampleEnd, TypeOK
  <2>5. busy' \in BOOLEAN
    BY <1>4, Zenon DEF SampleEnd
  <2>6. QED BY <1>4, <2>2, <2>3, <2>4, <2>5 DEF SampleEnd, TypeOK
<1>5. ASSUME NEW t \in Trigs, Latch(t) PROVE TypeOK'
  BY <1>1, <1>5 DEF Latch, TypeOK
<1>6. CASE Poll
  <2>1. addr' \in [Trigs -> Addrs] /\ addr_last' \in [Trigs -> Addrs]
    BY <1>6 DEF Poll, TypeOK, addrNow
  <2>2. addrTaken' \in [Trigs -> 0..TakenCap]
    BY <1>6 DEF Poll, TypeOK
  <2>3. active' \in [Trigs -> BOOLEAN]
    BY <1>6, Zenon DEF Poll, TypeOK
  <2>4. sendbuf' \in [Trigs -> BOOLEAN]
    BY <1>6, Zenon DEF Poll, TypeOK
  <2>5. ASSUME NEW t \in Trigs PROVE postdlycnt'[t] \in 0..Wait(t)
    <3>1. postdlycnt[t] \in 0..Wait(t) /\ Wait(t) \in Nat
      BY TrigConstants DEF TypeOK
    <3>2. postdlycnt'[t] = LET n == IF Detected(t) THEN 0 ELSE postdlycnt[t]
                           IN  IF active'[t] /\ ~Waited(t) THEN n + 1 ELSE n
      BY <1>6 DEF Poll
    <3>3. QED BY <3>1, <3>2 DEF Waited
  <2>6. todo' \subseteq Trigs /\ fresh' \in 0..SMax
    BY <1>1, <1>6 DEF Poll
  <2>7. QED BY <1>6, <2>1, <2>2, <2>3, <2>4, <2>5, <2>6 DEF Poll, TypeOK
<1>7. ASSUME NEW t \in Trigs, SendWfmData(t) PROVE TypeOK'
  BY <1>7 DEF SendWfmData, TypeOK
<1>8. QED BY <1>2, <1>3, <1>4, <1>5, <1>6, <1>7 DEF Next, Fpga, Software

-----------------------------------------------------------------------------
(* The write pointer moves on with every sample.                           *)
LEMMA NextDdr ==
  ASSUME TypeOK, DdrInv, [Next]_vars
  PROVE  DdrInv'
<1> USE DEF ddr
<1>1. N \in Nat /\ N > 0 /\ SMax \in Nat /\ SMax > 0 /\ addr_base \in 0..N - 1 /\ total \in 0..N /\ fresh \in Nat
  BY SnapshotAssumption DEF TypeOK
<1>2. CASE SampleStart
  BY <1>2 DEF SampleStart, DdrInv
<1>3. CASE SampleEnd
  <2>1. /\ busy /\ addr_ptr = addr_base /\ addr_ptr' = addr_ptr /\ busy' = FALSE
        /\ addr_base' = IF addr_base < N - 1 THEN addr_base + 1 ELSE 0
        /\ total' = IF total < N THEN total + 1 ELSE N
    BY <1>3 DEF SampleEnd, DdrInv, NextBase
  <2>2. total < N => total = addr_base
    BY DEF DdrInv
  <2>3. total' < N => total' = addr_base'
    BY <1>1, <2>1, <2>2
  <2>4. Placed(addr_ptr, 1)'
    BY <1>1, <2>1, <2>2 DEF Placed
  <2>5. QED BY <2>1, <2>3, <2>4 DEF DdrInv
<1>4. CASE Poll
  BY <1>1, <1>4 DEF Poll, DdrInv, Placed
<1>5. CASE UNCHANGED <<ddr, fresh>>
  BY <1>5 DEF DdrInv, Placed
<1>6. QED BY <1>2, <1>3, <1>4, <1>5 DEF Next, Fpga, Software, Latch, SendWfmData, vars

(* A sample moves every trigger one slot further behind the pointer.       *)
LEMMA PlacedMoves ==
  ASSUME TypeOK, DdrInv, SampleEnd, NEW a \in Addrs, NEW n \in 0..TakenCap, Placed(a, n)
  PROVE  Placed(a, Count(n))'
<1>1. N \in Nat /\ N > 0 /\ addr_base \in 0..N - 1 /\ total \in 0..N /\ TakenCap = N + 1
  BY SnapshotAssumption DEF TypeOK, TakenCap
<1>2. /\ addr_base' = IF addr_base < N - 1 THEN addr_base + 1 ELSE 0
      /\ total' = IF total < N THEN total + 1 ELSE N
      /\ total < N => total = addr_base
  BY DEF SampleEnd, NextBase, DdrInv
<1>3. SUFFICES ASSUME a # NoAddr, Count(n) <= N
               PROVE  \/ a + Count(n) = addr_base'
                      \/ total' = N /\ a + Count(n) = addr_base' + N
  BY DEF Placed
<1>4. Count(n) = n + 1 /\ n <= N /\ a \in 0..N - 1
  BY <1>1, <1>3 DEF Count, Addrs
<1>5. a + n = addr_base \/ (total = N /\ a + n = addr_base + N)
  BY <1>3, <1>4 DEF Placed
<1>6. QED BY <1>1, <1>2, <1>3, <1>4, <1>5

-----------------------------------------------------------------------------
(* What a poll does with one trigger: it goes on waiting or has waited     *)
(* (1), it is new (2), or there is nothing to do (3).                      *)
Waits(t) == /\ active[t] /\ active'[t] /\ addr'[t] = addr[t] /\ addr_last'[t] = addr_last[t]
            /\ addrTaken'[t] = addrTaken[t]
            /\ IF postdlycnt[t] < Wait(t) THEN postdlycnt'[t] = postdlycnt[t] + 1 /\ ~sendbuf'[t]
               ELSE postdlycnt'[t] = postdlycnt[t] /\ sendbuf'[t]

Begins(t) == /\ ~active[t] /\ active'[t] /\ bufptr[t] # addr_last[t]
             /\ addr'[t] = bufptr[t] /\ addr_last'[t] = bufptr[t] /\ addrTaken'[t] = taken[t]
             /\ IF 0 < Wait(t) THEN postdlycnt'[t] = 1 /\ ~sendbuf'[t]
                ELSE postdlycnt'[t] = 0 /\ sendbuf'[t]

Rests(t) == /\ ~active[t] /\ ~active'[t] /\ bufptr[t] = addr_last[t] /\ ~sendbuf'[t]
            /\ addr'[t] = bufptr[t] /\ addr_last'[t] = addr_last[t] /\ addrTaken'[t] = taken[t]

(* A poll does one of the three with a trigger without a waveform to send. *)
LEMMA PollPoint ==
  ASSUME TypeOK, Poll, NEW t \in Trigs, ~sendbuf[t]
  PROVE  Waits(t) \/ Begins(t) \/ Rests(t)
<1>1. /\ addr'[t] = addrNow(t) /\ addrTaken'[t] = IF active[t] THEN addrTaken[t] ELSE taken[t]
      /\ addr_last'[t] = IF Detected(t) THEN addrNow(t) ELSE addr_last[t]
      /\ postdlycnt'[t] = LET n == IF Detected(t) THEN 0 ELSE postdlycnt[t]
                          IN  IF active'[t] /\ ~Waited(t) THEN n + 1 ELSE n
  BY DEF Poll
<1>2. active'[t] <=> active[t] \/ Detected(t)
  BY DEF Poll
<1>3. sendbuf'[t] <=> active'[t] /\ Waited(t)
  BY DEF Poll
<1>4. postdlycnt[t] \in Nat /\ Wait(t) \in Nat
  BY TrigConstants DEF TypeOK
<1>5. CASE active[t]
  <2>1. ~Detected(t) /\ addrNow(t) = addr[t]
    BY <1>5 DEF Detected, addrNow
  <2>2. QED BY <1>1, <1>2, <1>3, <1>4, <1>5, <2>1 DEF Waited, Waits
<1>6. CASE ~active[t] /\ bufptr[t] # addr_last[t]
  <2>1. Detected(t) /\ addrNow(t) = bufptr[t]
    BY <1>6 DEF Detected, addrNow
  <2>2. QED BY <1>1, <1>2, <1>3, <1>4, <1>6, <2>1 DEF Waited, Begins
<1>7. CASE ~active[t] /\ bufptr[t] = addr_last[t]
  <2>1. ~Detected(t) /\ addrNow(t) = bufptr[t]
    BY <1>7 DEF Detected, addrNow
  <2>2. QED BY <1>1, <1>2, <1>3, <1>7, <2>1 DEF Rests
<1>8. QED BY <1>5, <1>6, <1>7

(* The types at one trigger.                                               *)
LEMMA TypeOfTrig ==
  ASSUME TypeOK, NEW t \in Trigs
  PROVE  /\ bufptr[t] \in Addrs /\ addr[t] \in Addrs /\ addr_last[t] \in Addrs
         /\ taken[t] \in 0..TakenCap /\ addrTaken[t] \in 0..TakenCap
         /\ postdlycnt[t] \in 0..Wait(t) /\ fresh \in 0..SMax
BY DEF TypeOK

(* A poll keeps a trigger's invariant.                                     *)
LEMMA PollTrig ==
  ASSUME IInv, Poll, NEW t \in Trigs
  PROVE  TrigInv(t)'
<1> USE DEF ddr, latch
<1>1. TypeOK /\ TrigInv(t) /\ UNCHANGED <<addr_base, total, bufptr, taken>>
  BY DEF IInv, Poll
<1>2. \A u, v : Placed(u, v)' <=> Placed(u, v)
  BY <1>1 DEF Placed
<1>3. Placed(bufptr[t], taken[t])'
  BY <1>1 DEF TrigInv, Placed
<1>4. Placed(addr[t], addrTaken[t])'
  <2>1. (addr'[t] = addr[t] /\ addrTaken'[t] = addrTaken[t]) \/ (addr'[t] = bufptr[t] /\ addrTaken'[t] = taken[t])
    BY DEF Poll, addrNow
  <2>2. QED BY <1>1, <2>1 DEF TrigInv, Placed
<1>5. ASSUME ~IsEvr(t) PROVE FlagInv(t)' /\ AgeInv(t)'
  <2>1. FlagInv(t) /\ AgeInv(t) /\ ~sendbuf[t]
    BY <1>1, <1>5 DEF TrigInv, FlagInv, Poll
  <2>2. Waits(t) \/ Begins(t) \/ Rests(t)
    BY <1>1, <2>1, PollPoint
  <2>3. t \in todo' <=> sendbuf'[t]
    BY <1>5 DEF Poll
  <2>4. /\ Wait(t) \in Nat /\ SMax \in Nat /\ SMin \in Nat /\ SMin <= SMax
        /\ postdlycnt[t] \in 0..Wait(t) /\ fresh \in 0..SMax /\ fresh >= SMin /\ fresh' = 0
        /\ taken[t] \in Nat /\ addrTaken[t] \in Nat
    BY <1>1, TrigConstants, TypeOfTrig, SnapshotAssumption DEF Poll, TakenCap
  <2>5. CASE Waits(t)
    <3>1. /\ Polls(t) = postdlycnt[t] - 1 /\ Polls(t) \in Nat /\ Polls(t)' = Polls(t) + 1
          /\ sendbuf'[t] => postdlycnt'[t] = Wait(t)
          /\ postdlycnt'[t] >= 1
      BY <2>1, <2>4, <2>5 DEF Waits, FlagInv, Polls
    <3>2. FlagInv(t)'
      BY <1>1, <2>1, <2>3, <2>5, <3>1 DEF Waits, FlagInv
    <3>3. /\ (Polls(t) + 1) * SMax = Polls(t) * SMax + SMax /\ Polls(t) * SMax \in Nat
          /\ (Polls(t) + 1) * SMin = Polls(t) * SMin + SMin /\ Polls(t) * SMin \in Nat
          /\ Wait(t) * SMax \in Nat
      BY <2>4, <3>1, Times
    <3>4. /\ Polls(t)' * SMax = Polls(t) * SMax + SMax
          /\ Polls(t)' * SMin = Polls(t) * SMin + SMin
      BY <3>1, <3>3
    <3>5. bufptr[t] # addr_last[t] => taken[t] <= Polls(t)' * SMax + 0 + 1
      BY <2>1, <2>4, <2>5, <3>3, <3>4 DEF AgeInv, Waits
    <3>6. /\ Polls(t)' * SMin + 0 <= addrTaken[t]
          /\ addrTaken[t] <= Wait(t) * SMax + SMax + 1 + Polls(t)' * SMax + 0
      BY <2>1, <2>4, <2>5, <3>3, <3>4 DEF AgeInv, Waits
    <3>7. AgeInv(t)'
      BY <1>1, <2>4, <2>5, <3>5, <3>6 DEF AgeInv, Waits
    <3>8. QED BY <3>2, <3>7
  <2>6. CASE Begins(t)
    <3>1. Polls(t)' = 0 /\ (~sendbuf'[t] => postdlycnt'[t] >= 1) /\ (sendbuf'[t] => postdlycnt'[t] = Wait(t))
      BY <2>4, <2>6 DEF Begins, Polls
    <3>2. bufptr[t] # NoAddr
      BY <2>1, <2>6 DEF FlagInv, Begins
    <3>3. FlagInv(t)'
      BY <1>1, <2>3, <2>6, <3>1, <3>2 DEF Begins, FlagInv
    <3>4. Wait(t) * SMax \in Nat /\ 0 * SMax = 0 /\ 0 * SMin = 0
      BY <2>4, Times
    <3>5. taken[t] <= Wait(t) * SMax + fresh + 1
      BY <2>1, <2>6 DEF AgeInv, Begins
    <3>6. Polls(t)' * SMin = 0 /\ Polls(t)' * SMax = 0
      BY <3>1, <3>4
    <3>7. /\ Polls(t)' * SMin + 0 <= taken[t]
          /\ taken[t] <= Wait(t) * SMax + SMax + 1 + Polls(t)' * SMax + 0
      BY <2>4, <3>4, <3>5, <3>6
    <3>8. AgeInv(t)'
      BY <1>1, <2>4, <2>6, <3>7 DEF AgeInv, Begins
    <3>9. QED BY <3>3, <3>8
  <2>7. CASE Rests(t)
    BY <1>1, <2>1, <2>3, <2>7 DEF Rests, FlagInv, AgeInv
  <2>8. QED BY <2>2, <2>5, <2>6, <2>7
<1>6. QED BY <1>3, <1>4, <1>5 DEF TrigInv

(* Under TimingAssumption the buffer outlasts an active trigger.           *)
LEMMA ActiveInTime ==
  ASSUME TypeOK, NEW t \in Trigs, ~IsEvr(t), FlagInv(t), AgeInv(t), active[t]
  PROVE  /\ addrTaken[t] \in Nat /\ fresh \in 0..SMax
         /\ addrTaken[t] + pretrigpts(t) + (SMax - fresh) <= N
<1>1. /\ Wait(t) \in Nat /\ SMax \in Nat /\ SMin \in Nat /\ N \in Nat /\ pretrigpts(t) \in Nat
      /\ postdlycnt[t] \in 0..Wait(t) /\ fresh \in 0..SMax /\ addrTaken[t] \in Nat
  BY TrigConstants, TypeOfTrig, SnapshotAssumption DEF TakenCap
<1>2. Polls(t) \in Nat /\ Polls(t) <= Wait(t)
  BY <1>1 DEF Polls, FlagInv
<1>3. Wait(t) * SMax \in Nat /\ Polls(t) * SMax \in Nat /\ Polls(t) * SMax <= Wait(t) * SMax
  BY <1>1, <1>2, Times
<1>4. 2 * (Wait(t) * SMax) + 2 * SMax + pretrigpts(t) + 1 <= N
  BY TimingAssumption
<1>5. addrTaken[t] <= Wait(t) * SMax + SMax + 1 + Polls(t) * SMax + fresh
  BY DEF AgeInv
<1> DEFINE P == Polls(t) * SMax
<1> DEFINE Q == Wait(t) * SMax
<1>6. P \in Nat /\ Q \in Nat /\ P <= Q /\ 2 * Q + 2 * SMax + pretrigpts(t) + 1 <= N
      /\ addrTaken[t] <= Q + SMax + 1 + P + fresh
  BY <1>3, <1>4, <1>5
<1> HIDE DEF P, Q
<1>7. QED BY <1>1, <1>6

(* A complete sample keeps a trigger's invariant.                          *)
LEMMA SampleTrig ==
  ASSUME IInv, SampleEnd, NEW t \in Trigs
  PROVE  TrigInv(t)'
<1>1. TypeOK /\ DdrInv /\ TrigInv(t)
  BY DEF IInv
<1>2. /\ taken'[t] = IF bufptr[t] = NoAddr THEN 0 ELSE Count(taken[t])
      /\ addrTaken'[t] = IF addr[t] = NoAddr THEN 0 ELSE Count(addrTaken[t])
      /\ fresh' = fresh + 1 /\ busy
      /\ UNCHANGED <<bufptr, addr, addr_last, active, postdlycnt, sendbuf, todo>>
  BY DEF SampleEnd
<1>3. /\ bufptr[t] \in Addrs /\ addr[t] \in Addrs /\ taken[t] \in 0..TakenCap
      /\ addrTaken[t] \in 0..TakenCap /\ TakenCap = N + 1 /\ N \in Nat
      /\ fresh \in Nat /\ SMax \in Nat /\ fresh < SMax
  BY <1>1, <1>2, TypeOfTrig, SnapshotAssumption DEF TakenCap, DdrInv
<1>4. \A a \in Addrs, n \in 0..TakenCap : Placed(a, n) => Placed(a, Count(n))'
  BY <1>1, PlacedMoves
<1>5. Placed(bufptr[t], taken[t])'
  <2>1. PICK a \in Addrs, n \in 0..TakenCap : a = bufptr[t] /\ n = taken[t]
    BY <1>3
  <2>2. Placed(a, Count(n))'
    BY <1>1, <1>4, <2>1 DEF TrigInv
  <2>3. QED BY <1>2, <2>1, <2>2 DEF Placed
<1>6. Placed(addr[t], addrTaken[t])'
  <2>1. PICK a \in Addrs, n \in 0..TakenCap : a = addr[t] /\ n = addrTaken[t]
    BY <1>3
  <2>2. Placed(a, Count(n))'
    BY <1>1, <1>4, <2>1 DEF TrigInv
  <2>3. QED BY <1>2, <2>1, <2>2 DEF Placed
<1>7. ASSUME ~IsEvr(t) PROVE FlagInv(t)' /\ AgeInv(t)'
  <2>1. FlagInv(t) /\ AgeInv(t)
    BY <1>1, <1>7 DEF TrigInv
  <2>2. FlagInv(t)'
    BY <1>2, <2>1 DEF FlagInv
  <2>3. Polls(t)' = Polls(t) /\ taken'[t] <= taken[t] + 1 /\ addrTaken'[t] <= addrTaken[t] + 1
    BY <1>2, <1>3 DEF Polls, Count
  <2>4. active[t] => addrTaken'[t] = addrTaken[t] + 1
    <3>1. SUFFICES ASSUME active[t] PROVE addrTaken'[t] = addrTaken[t] + 1
      OBVIOUS
    <3>2. addrTaken[t] < TakenCap
      <4>1. pretrigpts(t) \in Nat
        BY TrigConstants
      <4>2. QED BY <1>1, <1>3, <1>7, <2>1, <3>1, <4>1, ActiveInTime
    <3>3. QED BY <1>2, <2>1, <3>1, <3>2 DEF FlagInv, Count
  <2>5. /\ Wait(t) \in Nat /\ SMin \in Nat /\ postdlycnt[t] \in Nat
        /\ taken'[t] \in Nat /\ taken[t] \in Nat /\ addrTaken[t] \in Nat
    BY <1>1, <1>2, <1>3, TrigConstants, TypeOfTrig DEF Count
  <2>6. active[t] => Polls(t) \in Nat
    BY <2>1, <2>5 DEF FlagInv, Polls
  <2>7. Wait(t) * SMax \in Nat /\ (active[t] => Polls(t) * SMax \in Nat /\ Polls(t) * SMin \in Nat)
    BY <1>3, <2>5, <2>6, Times
  <2>8. ~active[t] /\ bufptr[t] # addr_last[t] => taken'[t] <= Wait(t) * SMax + fresh' + 1
    BY <1>2, <1>3, <2>1, <2>3, <2>5, <2>7 DEF AgeInv
  <2>9. active[t] /\ bufptr[t] # addr_last[t] => taken'[t] <= Polls(t) * SMax + fresh' + 1
    BY <1>2, <1>3, <2>1, <2>3, <2>5, <2>7 DEF AgeInv
  <2>10. active[t] => Polls(t) * SMin + fresh' <= addrTaken'[t]
    BY <1>2, <1>3, <2>1, <2>4, <2>5, <2>7 DEF AgeInv
  <2>11. active[t] => addrTaken'[t] <= Wait(t) * SMax + SMax + 1 + Polls(t) * SMax + fresh'
    BY <1>2, <1>3, <2>1, <2>4, <2>5, <2>7 DEF AgeInv
  <2>12. AgeInv(t)'
    BY <1>2, <2>3, <2>8, <2>9, <2>10, <2>11 DEF AgeInv
  <2>13. QED BY <2>2, <2>12
<1>8. QED BY <1>5, <1>6, <1>7 DEF TrigInv

(* A trigger is latched at the slot of the sample being taken, or at the   *)
(* one just complete.                                                      *)
LEMMA LatchTrig ==
  ASSUME IInv, NEW u \in Trigs, Latch(u), NEW t \in Trigs
  PROVE  TrigInv(t)'
<1> USE DEF ddr, info
<1>1. TypeOK /\ DdrInv /\ TrigInv(t)
  BY DEF IInv
<1>2. UNCHANGED <<addr_base, busy, addr_ptr, total, addr, addr_last, active, postdlycnt,
                  sendbuf, addrTaken, todo, fresh>>
  BY DEF Latch
<1>3. Placed(addr[t], addrTaken[t])'
  BY <1>1, <1>2 DEF TrigInv, Placed
<1>4. Polls(t)' = Polls(t)
  BY <1>2 DEF Polls
<1>5. CASE t = u
  <2>1. bufptr'[t] = addr_ptr /\ addr_ptr # NoAddr /\ taken'[t] = IF busy THEN 0 ELSE 1
    BY <1>1, <1>5 DEF Latch, TypeOK
  <2>2. Placed(bufptr[t], taken[t])'
    <3>1. addr_base \in Nat
      BY <1>1 DEF TypeOK
    <3>2. CASE busy
      BY <1>1, <1>2, <2>1, <3>1, <3>2 DEF DdrInv, Placed
    <3>3. CASE ~busy
      BY <1>1, <1>2, <2>1, <3>3 DEF DdrInv, Placed
    <3>4. QED BY <3>2, <3>3
  <2>3. ASSUME ~IsEvr(t) PROVE FlagInv(t)' /\ AgeInv(t)'
    <3>1. FlagInv(t) /\ AgeInv(t)
      BY <1>1, <2>3 DEF TrigInv
    <3>2. FlagInv(t)'
      BY <1>2, <2>1, <3>1 DEF FlagInv
    <3>3. /\ Wait(t) \in Nat /\ SMax \in Nat /\ postdlycnt[t] \in Nat /\ fresh \in Nat
          /\ active[t] => Polls(t) \in Nat
      BY <1>1, <3>1, TrigConstants, TypeOfTrig DEF FlagInv, Polls
    <3>4. Wait(t) * SMax \in Nat /\ (active[t] => Polls(t) * SMax \in Nat)
      BY <3>3, Times
    <3>5. taken'[t] <= Wait(t) * SMax + fresh + 1 /\ (active[t] => taken'[t] <= Polls(t) * SMax + fresh + 1)
      BY <2>1, <3>3, <3>4
    <3>6. AgeInv(t)'
      BY <1>2, <1>4, <3>1, <3>5 DEF AgeInv
    <3>7. QED BY <3>2, <3>6
  <2>4. QED BY <1>3, <2>2, <2>3 DEF TrigInv
<1>6. CASE t # u
  <2>1. bufptr'[t] = bufptr[t] /\ taken'[t] = taken[t]
    BY <1>1, <1>6 DEF Latch, TypeOK
  <2>2. Placed(bufptr[t], taken[t])'
    BY <1>1, <1>2, <2>1 DEF TrigInv, Placed
  <2>3. (FlagInv(t) => FlagInv(t)') /\ (AgeInv(t) => AgeInv(t)')
    BY <1>2, <1>4, <2>1 DEF FlagInv, AgeInv
  <2>4. QED BY <1>1, <1>3, <2>2, <2>3 DEF TrigInv
<1>7. QED BY <1>5, <1>6

(* A waveform is sent after exactly the polls of its wait.                 *)
LEMMA SendTrig ==
  ASSUME IInv, NEW u \in Trigs, SendWfmData(u), NEW t \in Trigs
  PROVE  TrigInv(t)'
<1> USE DEF ddr, latch
<1>1. TypeOK /\ TrigInv(t) /\ u \in todo /\ ~IsEvr(u)
  BY DEF IInv, SendWfmData, Turn
<1>2. UNCHANGED <<addr_base, total, bufptr, taken, addr, addr_last, postdlycnt, addrTaken, fresh>>
  BY DEF SendWfmData
<1>3. Placed(addr[t], addrTaken[t])' /\ Placed(bufptr[t], taken[t])'
  BY <1>1, <1>2 DEF TrigInv, Placed
<1>4. CASE t = u
  <2>1. ~active'[t] /\ ~sendbuf'[t] /\ t \notin todo'
    BY <1>1, <1>4 DEF SendWfmData, TypeOK
  <2>2. FlagInv(t) /\ AgeInv(t)
    BY <1>1, <1>4 DEF TrigInv
  <2>3. active[t] /\ Polls(t) = Wait(t)
    BY <1>1, <1>4, <2>2 DEF FlagInv, Polls
  <2>4. FlagInv(t)'
    BY <1>2, <2>1, <2>2 DEF FlagInv
  <2>5. AgeInv(t)'
    BY <1>2, <2>1, <2>2, <2>3 DEF AgeInv
  <2>6. QED BY <1>3, <2>4, <2>5 DEF TrigInv
<1>5. CASE t # u
  <2>1. /\ active'[t] = active[t] /\ sendbuf'[t] = sendbuf[t]
        /\ t \in todo' <=> t \in todo
    BY <1>1, <1>5 DEF SendWfmData, TypeOK
  <2>2. Polls(t)' = Polls(t)
    BY <1>2, <2>1 DEF Polls
  <2>3. (FlagInv(t) => FlagInv(t)') /\ (AgeInv(t) => AgeInv(t)')
    BY <1>2, <2>1, <2>2 DEF FlagInv, AgeInv
  <2>4. QED BY <1>1, <1>3, <2>3 DEF TrigInv
<1>6. QED BY <1>4, <1>5

(* Every step keeps the inductive invariant.                               *)
LEMMA NextIInv ==
  ASSUME IInv, [Next]_vars
  PROVE  IInv'
<1> USE DEF ddr, latch, info
<1>1. TypeOK' /\ DdrInv'
  BY NextType, NextDdr DEF IInv, DdrInv
<1>2. \A t \in todo' : ~IsEvr(t)
  BY DEF IInv, Next, Fpga, Software, SampleStart, SampleEnd, Latch, Poll, SendWfmData, vars
<1>3. ASSUME NEW t \in Trigs PROVE TrigInv(t)'
  <2>1. CASE UNCHANGED <<addr_base, total, latch, info, todo, fresh>>
    <3>1. Polls(t)' = Polls(t)
      BY <2>1 DEF Polls
    <3>2. QED BY <1>3, <2>1, <3>1 DEF IInv, TrigInv, Placed, FlagInv, AgeInv
  <2>2. QED
    BY <1>3, <2>1, PollTrig, SampleTrig, LatchTrig, SendTrig
       DEF Next, Fpga, Software, SampleStart, vars
<1>4. QED BY <1>1, <1>2, <1>3 DEF IInv

-----------------------------------------------------------------------------
(* The slots one CopyDataChan() copies.                                    *)
LEMMA SlotsProperties ==
  ASSUME NEW s \in Int, NEW n \in Nat
  PROVE  /\ Slots(s, n) \in Seq(Int) /\ Len(Slots(s, n)) = n
         /\ \A i \in 1..n : Slots(s, n)[i] = s + i - 1
BY DEF Slots

(* Three pieces of the buffer, one after the other.                        *)
LEMMA PiecesAt ==
  ASSUME NEW A \in Seq(Int), NEW B \in Seq(Int), NEW C \in Seq(Int),
         NEW i \in 1..Len(A) + Len(B) + Len(C)
  PROVE  (A \o B \o C)[i] = IF i <= Len(A) THEN A[i]
                            ELSE IF i <= Len(A) + Len(B) THEN B[i - Len(A)]
                            ELSE C[i - (Len(A) + Len(B))]
<1>1. Len(A) \in Nat /\ Len(B) \in Nat /\ Len(C) \in Nat
  BY LenProperties
<1>2. PICK D \in Seq(Int) : D = A \o B
  BY ConcatProperties
<1>3. /\ Len(D) = Len(A) + Len(B)
      /\ \A j \in 1..Len(A) + Len(B) : D[j] = IF j <= Len(A) THEN A[j] ELSE B[j - Len(A)]
  BY <1>2, ConcatProperties
<1>4. \A j \in 1..Len(D) + Len(C) : (D \o C)[j] = IF j <= Len(D) THEN D[j] ELSE C[j - Len(D)]
  BY ConcatProperties
<1>5. (D \o C)[i] = IF i <= Len(D) THEN D[i] ELSE C[i - Len(D)]
  BY <1>1, <1>3, <1>4
<1>6. QED BY <1>1, <1>2, <1>3, <1>5

(* ReadDMABuf() copies the window around a trigger, whichever way it wraps *)
(* around the buffer: the i-th slot is the one i - 1 - pre after the       *)
(* trigger's.                                                              *)
LEMMA WindowWraps ==
  ASSUME NEW a \in 0..N - 1, NEW pre \in Nat, NEW post \in Nat, pre + post <= N,
         NEW i \in 1..pre + post
  PROVE  \/ ReadDMABuf(a, pre, post)[i] = a + i - 1 - pre /\ 0 <= a + i - 1 - pre /\ a + i - 1 - pre < N
         \/ ReadDMABuf(a, pre, post)[i] = a + i - 1 - pre + N /\ a + i - 1 - pre < 0
         \/ ReadDMABuf(a, pre, post)[i] = a + i - 1 - pre - N /\ a + i - 1 - pre >= N
<1>1. N \in Nat /\ N > 0
  BY SnapshotAssumption
<1>2. CASE a - pre < 0
  <2>1. PICK s1 \in Int, n1 \in Nat : s1 = N - (pre - a) /\ n1 = pre - a
    BY <1>1, <1>2
  <2>2. PICK z \in Int, y \in Int, n2 \in Nat : z = 0 /\ y = a /\ n2 = a
    BY <1>1
  <2>3. PICK A \in Seq(Int) : A = Slots(s1, n1) /\ Len(A) = n1 /\ \A j \in 1..n1 : A[j] = s1 + j - 1
    BY <2>1, <2>2, SlotsProperties
  <2>4. PICK B \in Seq(Int) : B = Slots(z, n2) /\ Len(B) = n2 /\ \A j \in 1..n2 : B[j] = z + j - 1
    BY <2>1, <2>2, SlotsProperties
  <2>5. PICK C \in Seq(Int) : C = Slots(y, post) /\ Len(C) = post /\ \A j \in 1..post : C[j] = y + j - 1
    BY <2>1, <2>2, SlotsProperties
  <2>6. ReadDMABuf(a, pre, post) = A \o B \o C
    BY <1>2, <2>1, <2>2, <2>3, <2>4, <2>5 DEF ReadDMABuf
  <2>7. i \in 1..Len(A) + Len(B) + Len(C)
    BY <1>1, <1>2, <2>1, <2>2, <2>3, <2>4, <2>5
  <2>8. (A \o B \o C)[i] = IF i <= Len(A) THEN A[i]
                          ELSE IF i <= Len(A) + Len(B) THEN B[i - Len(A)]
                          ELSE C[i - (Len(A) + Len(B))]
    BY <2>7, PiecesAt, Zenon
  <2>9. CASE i <= n1
    <3>1. ReadDMABuf(a, pre, post)[i] = s1 + i - 1
      BY <2>3, <2>6, <2>8, <2>9
    <3>2. QED BY <1>1, <1>2, <2>1, <2>2, <2>9, <3>1
  <2>10. CASE ~(i <= n1) /\ i <= n1 + n2
    <3>1. i - n1 \in 1..n2
      BY <2>10
    <3>2. ReadDMABuf(a, pre, post)[i] = z + (i - n1) - 1
      BY <2>3, <2>4, <2>6, <2>8, <2>10, <3>1
    <3>3. QED BY <1>1, <1>2, <2>1, <2>2, <2>10, <3>2
  <2>11. CASE ~(i <= n1) /\ ~(i <= n1 + n2)
    <3>1. i - (n1 + n2) \in 1..post
      BY <2>3, <2>4, <2>5, <2>7, <2>11
    <3>2. ReadDMABuf(a, pre, post)[i] = y + (i - (n1 + n2)) - 1
      BY <2>3, <2>4, <2>5, <2>6, <2>8, <2>11, <3>1
    <3>3. QED BY <1>1, <1>2, <2>1, <2>2, <2>11, <3>2
  <2>12. QED BY <2>9, <2>10, <2>11
<1>3. CASE ~(a - pre < 0) /\ a + post > N
  <2>1. PICK s1 \in Int, n2 \in Nat : s1 = a - pre /\ n2 = N - a
    BY <1>1, <1>3
  <2>2. PICK z \in Int, n3 \in Nat : z = 0 /\ n3 = post - (N - a)
    BY <1>1, <1>3
  <2>3. PICK A \in Seq(Int) : A = Slots(s1, pre) /\ Len(A) = pre /\ \A j \in 1..pre : A[j] = s1 + j - 1
    BY <2>1, <2>2, SlotsProperties
  <2>4. PICK B \in Seq(Int) : B = Slots(a, n2) /\ Len(B) = n2 /\ \A j \in 1..n2 : B[j] = a + j - 1
    BY <2>1, <2>2, SlotsProperties
  <2>5. PICK C \in Seq(Int) : C = Slots(z, n3) /\ Len(C) = n3 /\ \A j \in 1..n3 : C[j] = z + j - 1
    BY <2>1, <2>2, SlotsProperties
  <2>6. ReadDMABuf(a, pre, post) = A \o B \o C
    BY <1>3, <2>1, <2>2, <2>3, <2>4, <2>5 DEF ReadDMABuf
  <2>7. i \in 1..Len(A) + Len(B) + Len(C)
    BY <1>1, <1>3, <2>1, <2>2, <2>3, <2>4, <2>5
  <2>8. (A \o B \o C)[i] = IF i <= Len(A) THEN A[i]
                          ELSE IF i <= Len(A) + Len(B) THEN B[i - Len(A)]
                          ELSE C[i - (Len(A) + Len(B))]
    BY <2>7, PiecesAt, Zenon
  <2>9. CASE i <= pre
    <3>1. ReadDMABuf(a, pre, post)[i] = s1 + i - 1
      BY <2>3, <2>6, <2>8, <2>9
    <3>2. QED BY <1>1, <1>3, <2>1, <2>2, <2>9, <3>1
  <2>10. CASE ~(i <= pre) /\ i <= pre + n2
    <3>1. i - pre \in 1..n2
      BY <2>10
    <3>2. ReadDMABuf(a, pre, post)[i] = a + (i - pre) - 1
      BY <2>3, <2>4, <2>6, <2>8, <2>10, <3>1
    <3>3. QED BY <1>1, <1>3, <2>1, <2>2, <2>10, <3>2
  <2>11. CASE ~(i <= pre) /\ ~(i <= pre + n2)
    <3>1. i - (pre + n2) \in 1..n3
      BY <2>3, <2>4, <2>5, <2>7, <2>11
    <3>2. ReadDMABuf(a, pre, post)[i] = z + (i - (pre + n2)) - 1
      BY <2>3, <2>4, <2>5, <2>6, <2>8, <2>11, <3>1
    <3>3. QED BY <1>1, <1>3, <2>1, <2>2, <2>11, <3>2
  <2>12. QED BY <2>9, <2>10, <2>11
<1>4. CASE ~(a - pre < 0) /\ ~(a + post > N)
  <2>1. ReadDMABuf(a, pre, post) = Slots(a - pre, pre + post)
    BY <1>4 DEF ReadDMABuf
  <2>2. a - pre \in Int /\ pre + post \in Nat
    OBVIOUS
  <2>3. ReadDMABuf(a, pre, post)[i] = a - pre + i - 1
    BY <2>1, <2>2, SlotsProperties
  <2>4. QED BY <1>1, <1>4, <2>3
<1>5. QED BY <1>2, <1>3, <1>4

-----------------------------------------------------------------------------
(* The initial state satisfies the inductive invariant.                    *)
LEMMA InitIInv == Init => IInv
<1>1. SUFFICES ASSUME Init PROVE IInv
  OBVIOUS
<1>2. TypeOK
  BY <1>1, InitType
<1>3. DdrInv
  BY <1>1 DEF Init, DdrInv, Placed
<1>4. ASSUME NEW t \in Trigs PROVE TrigInv(t)
  BY <1>1, <1>4 DEF Init, TrigInv, Placed, FlagInv, AgeInv
<1>5. QED BY <1>1, <1>2, <1>3, <1>4 DEF Init, IInv

(* Where the write pointer, the latched addresses and the polls of every   *)
(* wait are with respect to each other, in every reachable state.          *)
THEOREM InductiveInvariant == Spec => []IInv
BY InitIInv, NextIInv, PTL DEF Spec

(* Addresses lie in the buffer (adc2ddr.vhd wraps in time) and postdlycnt  *)
(* never passes the wait of ProcessTrigger().                              *)
THEOREM TypeCorrect == Spec => []TypeOK
<1>1. IInv => TypeOK
  BY DEF IInv
<1>2. QED BY <1>1, InductiveInvariant, PTL

-----------------------------------------------------------------------------
(* A distance in the buffer, taken once around it either way.              *)
LEMMA Around ==
  ASSUME NEW x \in 0..N - 1
  PROVE  x % N = x /\ (x + N) % N = x /\ (x - N) % N = x
<1>1. N \in Nat /\ N > 0
  BY SnapshotAssumption
<1>2. QED BY <1>1

(* The samples of a message lie in the window.                             *)
LEMMA SentWindow ==
  ASSUME NEW t \in Trigs
  PROVE  /\ SentPost(t) \in Nat /\ SentPost(t) <= posttrigpts(t)
         /\ pretrigpts(t) + posttrigpts(t) <= N
         /\ Sent(t) = 1..pretrigpts(t) + SentPost(t)
BY SnapshotAssumption DEF SentPost, Sent, pretrigpts, posttrigpts

(* What is due at SendWfmData(): the trigger's place and age.              *)
LEMMA DueAge ==
  ASSUME IInv, NEW t \in Trigs, t \in todo
  PROVE  /\ addr[t] \in 0..N - 1 /\ addrTaken[t] \in Nat
         /\ Wait(t) * SMin <= addrTaken[t] /\ addrTaken[t] + pretrigpts(t) <= N
         /\ busy => addrTaken[t] + pretrigpts(t) < N
         /\ Placed(addr[t], addrTaken[t])
<1>1. /\ TypeOK /\ DdrInv /\ ~IsEvr(t) /\ TrigInv(t)
  BY DEF IInv
<1>2. FlagInv(t) /\ AgeInv(t) /\ Placed(addr[t], addrTaken[t])
  BY <1>1 DEF TrigInv
<1>3. active[t] /\ Polls(t) = Wait(t) /\ addr[t] # NoAddr
  BY <1>2 DEF FlagInv, Polls
<1>4. addrTaken[t] \in Nat /\ fresh \in 0..SMax /\ addrTaken[t] + pretrigpts(t) + (SMax - fresh) <= N
  BY <1>1, <1>2, <1>3, ActiveInTime
<1>5. addr[t] \in 0..N - 1
  BY <1>1, <1>3, TypeOfTrig DEF Addrs
<1>6. Wait(t) * SMin <= addrTaken[t]
  <2>1. Wait(t) * SMin + fresh <= addrTaken[t]
    BY <1>2, <1>3 DEF AgeInv
  <2>2. Wait(t) * SMin \in Nat
    BY TrigConstants, Times
  <2>3. QED BY <1>4, <2>1, <2>2
<1>7. N \in Nat /\ pretrigpts(t) \in Nat /\ SMax \in Nat
  BY TrigConstants
<1>8. addrTaken[t] + pretrigpts(t) <= N
  BY <1>4, <1>7
<1>9. busy => addrTaken[t] + pretrigpts(t) < N
  BY <1>1, <1>4, <1>7 DEF DdrInv
<1>10. QED BY <1>2, <1>4, <1>5, <1>6, <1>8, <1>9

(* The invariant makes every sample taken the one due at its place.        *)
LEMMA WindowIntact == IInv => SnapshotIntact
<1>1. SUFFICES ASSUME IInv, NEW t \in Trigs, t \in todo, NEW i \in Sent(t),
                      i - pretrigpts(t) <= addrTaken[t]
               PROVE  LET s == ReadDMABuf(addr[t], pretrigpts(t), posttrigpts(t))[i]
                      IN  IF Unwritten(s) THEN i <= pretrigpts(t)
                          ELSE ~Torn(s) /\ Held(t, s) = i - 1 - pretrigpts(t)
  BY DueAge DEF SnapshotIntact, Turn
<1>2. /\ pretrigpts(t) \in Nat /\ posttrigpts(t) \in Nat /\ N \in Nat /\ N > 0
      /\ SentPost(t) \in Nat /\ SentPost(t) <= posttrigpts(t)
      /\ pretrigpts(t) + posttrigpts(t) <= N
      /\ i \in 1..pretrigpts(t) + SentPost(t)
  BY <1>1, TrigConstants, SentWindow
<1>3. PICK pre \in Nat, post \in Nat : pre = pretrigpts(t) /\ post = posttrigpts(t)
  BY <1>2
<1>4. PICK a \in 0..N - 1, n \in Nat : a = addr[t] /\ n = addrTaken[t]
  BY <1>1, DueAge
<1>5. /\ i - pre <= n /\ n + pre <= N /\ (busy => n + pre < N)
      /\ a + n = addr_base \/ (total = N /\ a + n = addr_base + N)
  <2>1. i - pre <= n /\ n + pre <= N /\ (busy => n + pre < N) /\ Placed(a, n)
    BY <1>1, <1>3, <1>4, DueAge
  <2>2. a # NoAddr /\ n <= N
    BY <1>2, <1>4, <2>1, SnapshotAssumption
  <2>3. QED BY <2>1, <2>2 DEF Placed
<1>6. /\ addr_base \in 0..N - 1 /\ total \in 0..N
      /\ total < N => total = addr_base
  BY <1>1 DEF IInv, TypeOK, DdrInv
<1> DEFINE s == ReadDMABuf(a, pre, post)[i]
           p == i - 1 - pre
<1>7. p \in Int /\ -pre <= p /\ p < SentPost(t) /\ p < n
  BY <1>2, <1>3, <1>5
<1>8. \/ s = a + p /\ 0 <= a + p /\ a + p < N
      \/ s = a + p + N /\ a + p < 0
      \/ s = a + p - N /\ a + p >= N
  <2>1. pre + post <= N /\ i \in 1..pre + post
    BY <1>2, <1>3
  <2>2. \/ s = a + i - 1 - pre /\ 0 <= a + i - 1 - pre /\ a + i - 1 - pre < N
        \/ s = a + i - 1 - pre + N /\ a + i - 1 - pre < 0
        \/ s = a + i - 1 - pre - N /\ a + i - 1 - pre >= N
    BY <2>1, WindowWraps
  <2>3. a + i - 1 - pre = a + p
    BY <1>2
  <2>4. QED BY <2>2, <2>3
<1> HIDE DEF s
<1>9. ASSUME Unwritten(s) PROVE i <= pre
  BY <1>2, <1>5, <1>6, <1>7, <1>8, <1>9 DEF Unwritten
<1>10. ~Torn(s)
  BY <1>2, <1>5, <1>6, <1>7, <1>8 DEF Torn
<1>11. Held(t, s) = p
  <2>1. PICK x \in 0..N - 1 : x = n - 1 - p
    BY <1>2, <1>5, <1>7
  <2>2. (n - 1 - (s - a)) % N = x
    <3>1. n - 1 - (s - a) \in {x, x + N, x - N}
      BY <1>2, <1>7, <1>8, <2>1
    <3>2. QED BY <3>1, Around
  <2>3. Held(t, s) = n - 1 - x
    BY <1>4, <2>2 DEF Held
  <2>4. QED BY <1>7, <2>1, <2>3
<1>12. QED BY <1>3, <1>4, <1>9, <1>10, <1>11 DEF s

(* Whatever triggers come while others wait or are sent, and wherever the  *)
(* window wraps around the buffer: when SendWfmData() copies, each sample  *)
(* of the message that has been taken is the one due, and the samples of   *)
(* the polls waited for have been, if no poll is longer than               *)
(* TimingAssumption says.                                                  *)
THEOREM SnapshotsIntact == Spec => []SnapshotIntact
BY InductiveInvariant, WindowIntact, PTL

=============================================================================
