--------------------------- MODULE InterlockProofs ---------------------------
(***************************************************************************)
(* Proofs about Interlock: the registers keep their widths, a lasting      *)
(* fault trips, a clear leaves nothing behind, the interlock stays         *)
(* tripped, and the main dipole's channels clear together, for every       *)
(* number of channels, set of bits, counter width and set of limits.       *)
(***************************************************************************)
EXTENDS Interlock, TLAPS

(* A clear request of channel c on its way: written and not yet seen by    *)
(* the edge detector, between its two registers, or clear_pulse itself.    *)
Pending(c) == \/ clear[c] /\ ~re[c]
              \/ re[c] /\ ~re_reg[c]
              \/ clear_pulse[c]

(* The samples a fault of bit b needs, as TripsInTime states it.           *)
Need(c, b) == IF overrun[c][b] THEN Modulus(b) ELSE Limit(c, b)

(* The edge detector has seen the clear register, unless a write came      *)
(* since the last clock.                                                   *)
EdgeInv(c) == ~bus => re[c] = clear[c]

(* How old a request on its way can be, in clocks and in samples.          *)
RequestInv(c) ==
  /\ clear[c] /\ ~re[c] => asked[c] = 0
  /\ re[c] /\ ~re_reg[c] => asked[c] <= 1
  /\ clear_pulse[c] => asked[c] <= 2 \/ fault_reg_lat[c] = {}

RequestSampleInv(c, b) ==
  /\ clear[c] /\ ~re[c] => since[c][b] = 0
  /\ re[c] /\ ~re_reg[c] => since[c][b] <= 1 /\ (since[c][b] = 1 => phase = 0)
  /\ clear_pulse[c] => since[c][b] <= 1

(* Without a request on its way every fault is one the history accounts    *)
(* for.                                                                    *)
QualInv(c, b) ==
  ~Pending(c) =>
    /\ b \in fault_reg[c] => b \in qual[c]
    /\ b \in fault_reg_lat[c] => b \in qual[c]
    /\ cnt[c][b] <= streak[c][b]

(* Where the counter stands: it never passes the limit, unless the limit   *)
(* was lowered under it, and it is never more than two samples behind the  *)
(* streak.                                                                 *)
CountInv(c, b) ==
  /\ cnt[c][b] < Modulus(b)
  /\ b = 6 => cnt[c][b] <= DcctLimit
  /\ ~Pending(c) /\ ~overrun[c][b] => cnt[c][b] <= Limit(c, b)
  /\ ~Pending(c) /\ b \notin fault_reg[c] =>
       IF overrun[c][b]
       THEN since[c][b] + Limit(c, b) + 1 <=
              IF cnt[c][b] > Limit(c, b) THEN cnt[c][b] ELSE cnt[c][b] + Modulus(b)
       ELSE since[c][b] <= cnt[c][b] + 2

(* A fault is latched at the clock after the sample that found it.         *)
LatchInv(c, b) ==
  ~Pending(c) =>
    /\ b \in fault_reg[c] /\ phase # 0 => b \in fault_reg_lat[c]
    /\ since[c][b] > Need(c, b) + 3 => b \in fault_reg_lat[c]

(* Four clocks after the operator's last action the interlock only shows   *)
(* what is latched and enabled.                                            *)
TripInv(c) ==
  asked[c] >= 4 =>
    fault_reg_lat_mask[c] \subseteq fault_reg_lat[c] \cap enable[c] \cap MaskBits

(* Main dipole mode: of a clear message that nothing cut in two, the       *)
(* channels written so far have the value; after it all channels agree.    *)
DipoleInv ==
  maindipole /\ ~crossed =>
    /\ \A k \in Tasks : writes[k] # {} =>
         writes[Other(k)] = {} /\ \A c \in Chans \ writes[k] : clear[c] = value[k]
    /\ (\A k \in Tasks : writes[k] = {}) => \A c, d \in Chans : clear[c] = clear[d]

BitInv(c, b) == RequestSampleInv(c, b) /\ QualInv(c, b) /\ CountInv(c, b) /\ LatchInv(c, b)
ChanInv(c) == EdgeInv(c) /\ RequestInv(c) /\ TripInv(c)

IInv == /\ TypeOK /\ DipoleInv
        /\ \A c \in Chans : ChanInv(c) /\ \A b \in Bits : BitInv(c, b)

-----------------------------------------------------------------------------
(* Facts about the parts of TypeOK at one channel and one bit.             *)
TypeAt(c, b) ==
  /\ cnt[c][b] \in Nat /\ cntlim[c][b] \in 0..CntMod - 1
  /\ streak[c][b] \in 0..StreakCap /\ since[c][b] \in 0..StreakCap
  /\ overrun[c][b] \in BOOLEAN

(* Their types at one channel and one bit.                                 *)
LEMMA TypeOfBit ==
  ASSUME TypeOK, NEW c \in Chans, NEW b \in Bits
  PROVE  TypeAt(c, b)
<1>1. cnt[c][b] \in Nat
  BY InterlockAssumption DEF TypeOK
<1>2. cntlim[c][b] \in 0..CntMod - 1 /\ overrun[c][b] \in BOOLEAN
  BY DEF TypeOK
<1>3. streak[c][b] \in 0..StreakCap /\ since[c][b] \in 0..StreakCap
  BY DEF TypeOK
<1>4. QED BY <1>1, <1>2, <1>3 DEF TypeAt

(* A counter's limit is below its modulus, and the modulus below the       *)
(* history's cap.                                                          *)
LEMMA LimitBounds ==
  ASSUME TypeOK, NEW c \in Chans, NEW b \in Bits
  PROVE  /\ Limit(c, b) \in Nat /\ Modulus(b) \in Nat
         /\ Limit(c, b) < Modulus(b) /\ Modulus(b) <= OnCntMod
         /\ StreakCap \in Nat /\ StreakCap = OnCntMod + 4 /\ OnCntMod \in Nat
<1>1. cntlim[c][b] \in 0..CntMod - 1
  BY TypeOfBit DEF TypeAt
<1>2. QED BY <1>1, InterlockAssumption DEF Limit, Modulus, StreakCap

(* What a sample makes of a counter and of its bit of fault_reg.           *)
LEMMA CountsType ==
  ASSUME TypeOK, NEW c \in Chans, NEW b \in Bits, NEW hit
  PROVE  Counts(c, b, hit).n \in 0..OnCntMod - 1
<1>1. cnt[c][b] \in 0..OnCntMod - 1 /\ OnCntMod \in Nat \ {0} /\ Modulus(b) \in Nat \ {0} /\ Modulus(b) <= OnCntMod
  BY InterlockAssumption DEF TypeOK, Modulus
<1>2. (cnt[c][b] + 1) % Modulus(b) \in 0..Modulus(b) - 1
  BY <1>1
<1>3. QED BY <1>1, <1>2 DEF Counts

(* A history counter stays within its cap.                                 *)
LEMMA CappedType ==
  ASSUME NEW cap \in Nat, NEW n \in 0..cap
  PROVE  Capped(n, cap) \in 0..cap
BY DEF Capped

(* Type correctness of a clock edge's common part.                         *)
LEMMA ClockedType ==
  ASSUME TypeOK, Clocked
  PROVE  /\ {on1, park, clear}' \subseteq [Chans -> BOOLEAN]
         /\ enable' \in [Chans -> SUBSET Bits]
         /\ cntlim' \in [Chans -> [Bits -> 0..CntMod - 1]]
         /\ maindipole' \in Modes /\ crossed' \in BOOLEAN /\ bus' \in BOOLEAN
         /\ writes' \in [Tasks -> SUBSET Chans] /\ value' \in [Tasks -> BOOLEAN]
         /\ {re, re_reg, clear_pulse, dac_change_flag}' \subseteq [Chans -> BOOLEAN]
         /\ {fault_reg_lat, fault_reg_lat_mask, error_reg_mask}' \subseteq [Chans -> SUBSET Bits]
         /\ asked' \in [Chans -> 0..AskedCap]
<1>1. {re, re_reg, clear_pulse, dac_change_flag}' \subseteq [Chans -> BOOLEAN]
  <2>1. re' \in [Chans -> BOOLEAN] /\ re_reg' \in [Chans -> BOOLEAN] /\ dac_change_flag' \in [Chans -> BOOLEAN]
    BY DEF TypeOK, Clocked, ClearEdge
  <2>2. clear_pulse' \in [Chans -> BOOLEAN]
    BY Zenon DEF TypeOK, Clocked, ClearEdge
  <2>3. QED BY <2>1, <2>2
<1>2. {fault_reg_lat, fault_reg_lat_mask, error_reg_mask}' \subseteq [Chans -> SUBSET Bits]
  <2>1. \A c \in Chans : fault_reg_lat[c] \subseteq Bits /\ fault_reg[c] \subseteq Bits
    BY DEF TypeOK
  <2>2. QED BY <2>1 DEF Clocked, Latches
<1>3. asked' \in [Chans -> 0..AskedCap]
  <2>1. \A c \in Chans : Capped(asked[c], AskedCap) \in 0..AskedCap
    BY DEF TypeOK, Capped, AskedCap
  <2>2. QED BY <2>1 DEF Clocked
<1>4. QED BY <1>1, <1>2, <1>3 DEF TypeOK, Clocked

(* Every step keeps the registers in their widths.                         *)
LEMMA NextType ==
  ASSUME TypeOK, Next
  PROVE  TypeOK'
<1> USE DEF registers, edge, state, latches, history
<1>1. ASSUME NEW c \in Chans, WriteOn1(c) PROVE TypeOK'
  BY <1>1 DEF TypeOK, WriteOn1, Bus
<1>2. ASSUME NEW c \in Chans, WritePark(c) PROVE TypeOK'
  BY <1>2 DEF TypeOK, WritePark, Bus
<1>3. ASSUME NEW c \in Chans, WriteMask(c) PROVE TypeOK'
  BY <1>3 DEF TypeOK, WriteMask, Bus, AskedCap
<1>4. ASSUME NEW k \in Tasks, NEW c \in Chans, WriteClear(k, c) PROVE TypeOK'
  <2>1. writes' \in [Tasks -> SUBSET Chans]
    BY <1>4 DEF TypeOK, WriteClear
  <2>2. value' \in [Tasks -> BOOLEAN]
    BY <1>4 DEF TypeOK, WriteClear
  <2>3. crossed' \in BOOLEAN
    BY <1>4, Zenon DEF WriteClear
  <2>4. QED BY <1>4, <2>1, <2>2, <2>3 DEF TypeOK, WriteClear
<1>5. ASSUME NEW c \in Chans, NEW b \in Bits, WriteLimit(c, b) PROVE TypeOK'
  <2>1. PICK v \in Limits : /\ cntlim' = [cntlim EXCEPT ![c][b] = v]
                            /\ overrun' = [overrun EXCEPT ![c][b] = cnt[c][b] > v]
    BY <1>5 DEF WriteLimit
  <2>2. cntlim' \in [Chans -> [Bits -> 0..CntMod - 1]]
    BY <2>1, InterlockAssumption DEF TypeOK
  <2>3. overrun' \in [Chans -> [Bits -> BOOLEAN]]
    BY <2>1 DEF TypeOK
  <2>4. since' \in [Chans -> [Bits -> 0..StreakCap]]
    BY <1>5, InterlockAssumption DEF TypeOK, WriteLimit, StreakCap
  <2>5. QED BY <1>5, <2>2, <2>3, <2>4 DEF TypeOK, WriteLimit, Bus
<1>6. ASSUME NEW k \in Tasks, AxiWrite(k) PROVE TypeOK'
  <2>1. PICK c \in writes[k] : AxiWrite(k)!(c)
    BY <1>6 DEF AxiWrite
  <2>2. c \in Chans /\ clear' \in [Chans -> BOOLEAN] /\ writes' \in [Tasks -> SUBSET Chans]
    BY <1>6, <2>1 DEF TypeOK
  <2>3. asked' \in [Chans -> 0..AskedCap] /\ qual' \in [Chans -> SUBSET Bits]
    BY <2>1, <2>2 DEF TypeOK, AskedCap
  <2>4. streak' \in [Chans -> [Bits -> 0..StreakCap]]
    BY <2>1, <2>2, InterlockAssumption DEF TypeOK, StreakCap
  <2>5. since' \in [Chans -> [Bits -> 0..StreakCap]]
    BY <2>1, <2>2, InterlockAssumption DEF TypeOK, StreakCap
  <2>6. QED BY <2>1, <2>2, <2>3, <2>4, <2>5 DEF TypeOK, Bus
<1>7. CASE Trigger
  <2>1. changed' \in [Chans -> BOOLEAN]
    BY <1>7 DEF Trigger
  <2>2. QED BY <1>7, <2>1, ClockedType DEF TypeOK, Trigger
<1>8. CASE Shift
  BY <1>8, ClockedType DEF TypeOK, Shift
<1>9. ASSUME NEW over, NEW rsts0, NEW rsts1, Sample(over, rsts0, rsts1) PROVE TypeOK'
  <2>1. {digcntrl_on1_last, startup_state, run_state}' \subseteq [Chans -> BOOLEAN]
    <3>1. digcntrl_on1_last' \in [Chans -> BOOLEAN]
      BY <1>9 DEF TypeOK, Sample, RunState
    <3>2. startup_state' \in [Chans -> BOOLEAN]
      BY <1>9, Zenon DEF TypeOK, Sample, RunState
    <3>3. run_state' \in [Chans -> BOOLEAN]
      BY <1>9, Zenon DEF TypeOK, Sample, RunState
    <3>4. QED BY <3>1, <3>2, <3>3
  <2>2. {live, fault_reg}' \subseteq [Chans -> SUBSET Bits]
    BY <1>9 DEF Sample
  <2>3. cnt' \in [Chans -> [Bits -> 0..OnCntMod - 1]]
    <3>1. \A c \in Chans, b \in Bits :
            Counts(c, b, AtFault(c, b, over[c], rsts0[c], rsts1[c])).n \in 0..OnCntMod - 1
      BY CountsType
    <3>2. QED BY <1>9, <3>1 DEF Sample
  <2>4. \A c \in Chans, b \in Bits :
          /\ Streak(c, b, AtFault(c, b, over[c], rsts0[c], rsts1[c]), streak[c][b]) \in 0..StreakCap
          /\ Streak(c, b, AtFault(c, b, over[c], rsts0[c], rsts1[c]), since[c][b]) \in 0..StreakCap
    <3>1. SUFFICES ASSUME NEW c \in Chans, NEW b \in Bits, NEW n \in 0..StreakCap, NEW hit
                   PROVE  Streak(c, b, hit, n) \in 0..StreakCap
      BY TypeOfBit DEF TypeAt
    <3>2. StreakCap \in Nat /\ 0 \in 0..StreakCap
      BY LimitBounds
    <3>3. QED BY <3>2, CappedType DEF Streak
  <2>5. {streak, since}' \subseteq [Chans -> [Bits -> 0..StreakCap]]
    <3>1. streak' \in [Chans -> [Bits -> 0..StreakCap]]
      BY <1>9, <2>4 DEF Sample
    <3>2. since' \in [Chans -> [Bits -> 0..StreakCap]]
      BY <1>9, <2>4 DEF Sample
    <3>3. QED BY <3>1, <3>2
  <2>6. overrun' \in [Chans -> [Bits -> BOOLEAN]]
    BY <1>9, Zenon DEF Sample
  <2>7. qual' \in [Chans -> SUBSET Bits]
    BY <1>9 DEF Sample, TypeOK
  <2>8. phase' \in 0..3 /\ changed' \in [Chans -> BOOLEAN] /\ Clocked
    BY <1>9 DEF Sample, TypeOK
  <2>9. QED BY <2>1, <2>2, <2>3, <2>5, <2>6, <2>7, <2>8, ClockedType DEF TypeOK
<1>10. CASE SetMainDipole
  BY <1>10 DEF TypeOK, SetMainDipole, Bus, Each, AskedCap
<1>11. QED BY <1>1, <1>2, <1>3, <1>4, <1>5, <1>6, <1>7, <1>8, <1>9, <1>10 DEF Next, Settings

-----------------------------------------------------------------------------
(* What a clock edge does to one channel, whatever else it is.             *)
ClockedAt(c) ==
  /\ clear'[c] = clear[c] /\ re'[c] = clear[c] /\ re_reg'[c] = re[c]
  /\ clear_pulse'[c] = ((re[c] /\ ~re_reg[c]) \/ (clear_pulse[c] /\ phase # 3))
  /\ fault_reg_lat'[c] = IF clear_pulse[c] THEN {} ELSE fault_reg_lat[c] \cup fault_reg[c]
  /\ fault_reg_lat_mask'[c] = fault_reg_lat[c] \cap enable[c] \cap MaskBits
  /\ enable'[c] = enable[c] /\ cntlim' = cntlim /\ MaskBits' = MaskBits
  /\ asked'[c] = Capped(asked[c], AskedCap)

(* Latches and ClearEdge, read at one channel.                             *)
LEMMA ClockedPoint ==
  ASSUME TypeOK, Clocked, NEW c \in Chans
  PROVE  ClockedAt(c)
<1>1. clear'[c] = clear[c] /\ re'[c] = clear[c] /\ re_reg'[c] = re[c] /\ enable'[c] = enable[c] /\ cntlim' = cntlim
  BY DEF Clocked, ClearEdge
<1>2. clear_pulse'[c] = ((re[c] /\ ~re_reg[c]) \/ (clear_pulse[c] /\ phase # 3))
  BY DEF Clocked, ClearEdge
<1>3. /\ fault_reg_lat'[c] = IF clear_pulse[c] THEN {} ELSE fault_reg_lat[c] \cup fault_reg[c]
      /\ fault_reg_lat_mask'[c] = fault_reg_lat[c] \cap enable[c] \cap MaskBits
  BY DEF Clocked, Latches
<1>4. asked'[c] = Capped(asked[c], AskedCap) /\ MaskBits' = MaskBits
  BY DEF Clocked, MaskBits
<1>5. QED BY <1>1, <1>2, <1>3, <1>4 DEF ClockedAt

(* A request leaves its way only at the sample that sees clear_pulse.      *)
LEMMA ClockedPending ==
  ASSUME NEW c \in Chans, ClockedAt(c), ~Pending(c)'
  PROVE  ~Pending(c) \/ (clear_pulse[c] /\ phase = 3 /\ ~(clear[c] /\ ~re[c]) /\ ~(re[c] /\ ~re_reg[c]))
BY DEF Pending, ClockedAt

(* A clock edge keeps the invariant of a channel.                          *)
LEMMA ClockedChan ==
  ASSUME TypeOK, NEW c \in Chans, ChanInv(c), Clocked
  PROVE  ChanInv(c)'
<1>1. ClockedAt(c) /\ bus' = FALSE
  BY ClockedPoint DEF Clocked
<1>2. asked[c] \in 0..6 /\ asked'[c] = IF asked[c] < 6 THEN asked[c] + 1 ELSE asked[c]
  BY <1>1 DEF ClockedAt, TypeOK, AskedCap, Capped
<1>3. EdgeInv(c)'
  BY <1>1 DEF EdgeInv, ClockedAt
<1>4. RequestInv(c)'
  <2>1. ~(clear[c] /\ ~re[c])'
    BY <1>1 DEF ClockedAt
  <2>2. (re[c] /\ ~re_reg[c])' => asked'[c] <= 1
    BY <1>1, <1>2 DEF ClockedAt, ChanInv, RequestInv
  <2>3. ASSUME clear_pulse'[c] PROVE asked'[c] <= 2 \/ fault_reg_lat'[c] = {}
    <3>1. CASE re[c] /\ ~re_reg[c]
      BY <3>1, <1>2 DEF ChanInv, RequestInv
    <3>2. CASE clear_pulse[c]
      BY <3>2, <1>1 DEF ClockedAt
    <3>3. QED BY <2>3, <1>1, <3>1, <3>2 DEF ClockedAt
  <2>4. QED BY <2>1, <2>2, <2>3 DEF RequestInv
<1>5. TripInv(c)'
  <2>1. SUFFICES ASSUME asked'[c] >= 4
                 PROVE  fault_reg_lat_mask'[c] \subseteq fault_reg_lat'[c] \cap enable'[c] \cap MaskBits'
    BY DEF TripInv
  <2>2. asked[c] >= 3
    BY <1>2, <2>1
  <2>3. clear_pulse[c] => fault_reg_lat[c] = {}
    BY <1>2, <2>2 DEF ChanInv, RequestInv
  <2>4. QED BY <1>1, <2>3 DEF ClockedAt
<1>6. QED BY <1>3, <1>4, <1>5 DEF ChanInv

(* A clock edge that is not a sample keeps the invariant of a bit.         *)
LEMMA IdleBit ==
  ASSUME TypeOK, NEW c \in Chans, NEW b \in Bits, BitInv(c, b), Clocked,
         phase # 3, phase = 0 \/ phase' # 0, phase # 0 \/ phase' \in {0, 1},
         UNCHANGED <<state, streak, since, overrun, qual>>
  PROVE  BitInv(c, b)'
<1> USE DEF state
<1>1. ClockedAt(c)
  BY ClockedPoint
<1>2. TypeAt(c, b)
  BY TypeOfBit
<1>3. ~Pending(c)' => ~Pending(c)
  BY <1>1, ClockedPending
<1>4. Limit(c, b)' = Limit(c, b) /\ Need(c, b)' = Need(c, b)
  BY <1>1 DEF Limit, Need, ClockedAt
<1>5. RequestSampleInv(c, b)'
  <2>1. ~(clear[c] /\ ~re[c])'
    BY <1>1 DEF ClockedAt
  <2>2. (re[c] /\ ~re_reg[c])' => since'[c][b] = 0
    BY <1>1 DEF ClockedAt, BitInv, RequestSampleInv
  <2>3. clear_pulse'[c] => (re[c] /\ ~re_reg[c]) \/ clear_pulse[c]
    BY <1>1 DEF ClockedAt
  <2>4. clear_pulse'[c] => since'[c][b] <= 1
    BY <2>3 DEF BitInv, RequestSampleInv
  <2>5. QED BY <2>1, <2>2, <2>4 DEF RequestSampleInv
<1>6. ~clear_pulse[c] => fault_reg_lat'[c] = fault_reg_lat[c] \cup fault_reg[c]
  BY <1>1 DEF ClockedAt
<1>7. ~Pending(c) => ~clear_pulse[c]
  BY DEF Pending
<1>8. QualInv(c, b)'
  BY <1>3, <1>6, <1>7 DEF BitInv, QualInv
<1>9. CountInv(c, b)'
  BY <1>3, <1>4 DEF BitInv, CountInv
<1>10. LatchInv(c, b)'
  BY <1>3, <1>4, <1>6, <1>7 DEF BitInv, LatchInv
<1>11. QED BY <1>5, <1>8, <1>9, <1>10 DEF BitInv

(* What a sample does to one bit: it resets the counter (1), meets a clear *)
(* (2), finds the counter at its limit (3), or counts (4).                 *)
Missed(c, b) == cnt'[c][b] = 0 /\ b \notin fault_reg'[c] /\ streak'[c][b] = 0 /\ since'[c][b] = 0

Held(c, b) == /\ streak'[c][b] = Capped(streak[c][b], StreakCap)
              /\ since'[c][b] = Capped(since[c][b], StreakCap)

Cleared(c, b) == Held(c, b) /\ clear_pulse[c] /\ cnt'[c][b] = 0 /\ b \notin fault_reg'[c]

Found(c, b) == /\ Held(c, b) /\ ~clear_pulse[c] /\ cnt[c][b] = Limit(c, b)
               /\ cnt'[c][b] = cnt[c][b] /\ b \in fault_reg'[c]

Counted(c, b) == /\ Held(c, b) /\ ~clear_pulse[c] /\ cnt[c][b] # Limit(c, b)
                 /\ cnt'[c][b] = (cnt[c][b] + 1) % Modulus(b)
                 /\ b \in fault_reg'[c] <=> b \in fault_reg[c]

(* Every sample is one of the four, and what it does to the history.       *)
LEMMA SamplePoint ==
  ASSUME NEW over, NEW rsts0, NEW rsts1, Sample(over, rsts0, rsts1),
         NEW c \in Chans, NEW b \in Bits
  PROVE  /\ Missed(c, b) \/ Cleared(c, b) \/ Found(c, b) \/ Counted(c, b)
         /\ overrun'[c][b] = (overrun[c][b] /\ ~clear_pulse[c] /\ since'[c][b] # 0)
         /\ b \in qual'[c] <=> b \in qual[c] \/ streak'[c][b] > Limit(c, b)
<1> DEFINE h == AtFault(c, b, over[c], rsts0[c], rsts1[c])
<1>1. /\ cnt'[c][b] = Counts(c, b, h).n
      /\ b \in fault_reg'[c] <=> Counts(c, b, h).set
      /\ streak'[c][b] = Streak(c, b, h, streak[c][b])
      /\ since'[c][b] = Streak(c, b, h, since[c][b])
  BY DEF Sample
<1>2. overrun'[c][b] = (overrun[c][b] /\ ~clear_pulse[c] /\ since'[c][b] # 0)
  BY DEF Sample
<1>3. b \in qual'[c] <=> b \in qual[c] \/ streak'[c][b] > Limit(c, b)
  BY DEF Sample
<1> HIDE DEF h
<1>4. ASSUME Skipped(c, b) \/ ~h PROVE Missed(c, b)
  <2>1. Counts(c, b, h) = [n |-> 0, set |-> FALSE]
    BY <1>4 DEF Counts
  <2>2. streak'[c][b] = 0 /\ since'[c][b] = 0
    BY <1>1, <1>4 DEF Streak
  <2>3. QED BY <1>1, <2>1, <2>2 DEF Missed
<1>5. ASSUME ~(Skipped(c, b) \/ ~h) PROVE Cleared(c, b) \/ Found(c, b) \/ Counted(c, b)
  <2>1. Held(c, b)
    BY <1>1, <1>5 DEF Streak, Held
  <2>2. CASE clear_pulse[c]
    <3>1. Counts(c, b, h) = [n |-> 0, set |-> FALSE]
      BY <2>2 DEF Counts
    <3>2. QED BY <1>1, <2>1, <2>2, <3>1 DEF Cleared
  <2>3. CASE ~clear_pulse[c] /\ cnt[c][b] = Limit(c, b)
    <3>1. Counts(c, b, h) = [n |-> cnt[c][b], set |-> TRUE]
      BY <1>5, <2>3 DEF Counts
    <3>2. QED BY <1>1, <2>1, <2>3, <3>1 DEF Found
  <2>4. CASE ~clear_pulse[c] /\ cnt[c][b] # Limit(c, b)
    <3>1. Counts(c, b, h) = [n |-> (cnt[c][b] + 1) % Modulus(b), set |-> b \in fault_reg[c]]
      BY <1>5, <2>4 DEF Counts
    <3>2. cnt'[c][b] = (cnt[c][b] + 1) % Modulus(b)
      BY <1>1, <3>1
    <3>3. b \in fault_reg'[c] <=> b \in fault_reg[c]
      <4>1. Counts(c, b, h).set = (b \in fault_reg[c])
        BY <3>1
      <4>2. QED BY <1>1, <4>1, Zenon
    <3>4. QED BY <2>1, <2>4, <3>2, <3>3 DEF Counted
  <2>5. QED BY <2>2, <2>3, <2>4
<1>6. QED BY <1>2, <1>3, <1>4, <1>5

(* A bit without its fault has not been there for long.                    *)
LEMMA InTime ==
  ASSUME TypeOK, NEW c \in Chans, NEW b \in Bits, CountInv(c, b), ~Pending(c),
         since[c][b] > Need(c, b) + 2
  PROVE  b \in fault_reg[c]
<1>1. TypeAt(c, b)
  BY TypeOfBit
<1>2. Limit(c, b) \in Nat /\ Modulus(b) \in Nat /\ Limit(c, b) < Modulus(b)
  BY LimitBounds
<1>3. CASE overrun[c][b]
  BY <1>1, <1>2, <1>3 DEF TypeAt, CountInv, Need
<1>4. CASE ~overrun[c][b]
  BY <1>1, <1>2, <1>4 DEF TypeAt, CountInv, Need
<1>5. QED BY <1>3, <1>4

(* A sample keeps the invariant of a bit.                                  *)
LEMMA SampleBit ==
  ASSUME TypeOK, NEW c \in Chans, NEW b \in Bits, BitInv(c, b),
         NEW over, NEW rsts0, NEW rsts1, Sample(over, rsts0, rsts1)
  PROVE  BitInv(c, b)'
<1>1. ClockedAt(c) /\ phase = 3 /\ phase' = 0
  BY ClockedPoint DEF Sample
<1>2. TypeAt(c, b)
  BY TypeOfBit
<1>3. /\ Limit(c, b) \in Nat /\ Modulus(b) \in Nat
      /\ Limit(c, b) < Modulus(b) /\ Modulus(b) <= OnCntMod
      /\ StreakCap = OnCntMod + 4 /\ OnCntMod \in Nat
  BY LimitBounds
<1>4. Limit(c, b)' = Limit(c, b)
  BY <1>1 DEF Limit, ClockedAt
<1>5. Missed(c, b) \/ Cleared(c, b) \/ Found(c, b) \/ Counted(c, b)
  BY SamplePoint
<1>6. overrun'[c][b] = (overrun[c][b] /\ ~clear_pulse[c] /\ since'[c][b] # 0)
  BY SamplePoint
<1>7. b \in qual'[c] <=> b \in qual[c] \/ streak'[c][b] > Limit(c, b)
  BY SamplePoint
<1>8. Held(c, b) => /\ streak'[c][b] = IF streak[c][b] < StreakCap THEN streak[c][b] + 1 ELSE streak[c][b]
                    /\ since'[c][b] = IF since[c][b] < StreakCap THEN since[c][b] + 1 ELSE since[c][b]
  BY DEF Held, Capped
<1>9. Counted(c, b) => cnt'[c][b] = IF cnt[c][b] + 1 < Modulus(b) THEN cnt[c][b] + 1 ELSE 0
  <2>1. cnt[c][b] \in Nat /\ cnt[c][b] < Modulus(b)
    BY <1>2 DEF TypeAt, BitInv, CountInv
  <2>2. (cnt[c][b] + 1) % Modulus(b) = IF cnt[c][b] + 1 < Modulus(b) THEN cnt[c][b] + 1 ELSE 0
    BY <2>1, <1>3
  <2>3. QED BY <2>2 DEF Counted
(* The request of the channel, when it is over after the sample.           *)
<1>10. ~Pending(c)' => ~Pending(c) \/ (clear_pulse[c] /\ since[c][b] <= 1)
  BY <1>1, ClockedPending DEF BitInv, RequestSampleInv
<1>11. ~Pending(c) => ~clear_pulse[c]
  BY DEF Pending
<1>12. /\ clear_pulse[c] => fault_reg_lat'[c] = {}
       /\ ~clear_pulse[c] => fault_reg_lat'[c] = fault_reg_lat[c] \cup fault_reg[c]
  BY <1>1 DEF ClockedAt
<1>13. clear_pulse[c] => Missed(c, b) \/ Cleared(c, b)
  BY <1>5 DEF Found, Counted
<1>14. RequestSampleInv(c, b)'
  <2>1. ~(clear[c] /\ ~re[c])'
    BY <1>1 DEF ClockedAt
  <2>2. since[c][b] = 0 => since'[c][b] \in {0, 1}
    BY <1>2, <1>3, <1>5, <1>8 DEF Missed, Cleared, Found, Counted
  <2>3. (re[c] /\ ~re_reg[c])' => since[c][b] = 0
    BY <1>1 DEF ClockedAt, BitInv, RequestSampleInv
  <2>4. clear_pulse'[c] => re[c] /\ ~re_reg[c]
    BY <1>1 DEF ClockedAt
  <2>5. re[c] /\ ~re_reg[c] => since[c][b] = 0
    BY <1>1, <1>2 DEF BitInv, RequestSampleInv, TypeAt
  <2>6. QED BY <1>1, <2>1, <2>2, <2>3, <2>4, <2>5 DEF RequestSampleInv
<1>15. QualInv(c, b)'
  <2>1. SUFFICES ASSUME ~Pending(c)'
                 PROVE  /\ b \in fault_reg'[c] => b \in qual'[c]
                        /\ b \in fault_reg_lat'[c] => b \in qual'[c]
                        /\ cnt'[c][b] <= streak'[c][b]
    BY DEF QualInv
  <2>2. streak'[c][b] >= 0
    BY <1>2, <1>3, <1>5, <1>8 DEF Missed, Cleared, Found, Counted, TypeAt
  <2>3. CASE clear_pulse[c]
    BY <1>12, <1>13, <2>2, <2>3 DEF Missed, Cleared
  <2>4. CASE ~Pending(c)
    <3>1. /\ b \in fault_reg[c] => b \in qual[c]
          /\ b \in fault_reg_lat[c] => b \in qual[c]
          /\ cnt[c][b] <= streak[c][b] /\ cnt[c][b] < Modulus(b)
      BY <2>4 DEF BitInv, QualInv, CountInv
    <3>2. b \in fault_reg_lat'[c] => b \in qual'[c]
      BY <1>7, <1>11, <1>12, <2>4, <3>1
    <3>3. CASE Missed(c, b)
      BY <3>2, <3>3 DEF Missed
    <3>4. CASE Found(c, b)
      <4>1. streak'[c][b] > Limit(c, b) /\ cnt'[c][b] <= streak'[c][b]
        BY <1>2, <1>3, <1>8, <3>1, <3>4 DEF Found, TypeAt
      <4>2. QED BY <1>7, <3>2, <4>1
    <3>5. CASE Counted(c, b)
      <4>1. cnt'[c][b] <= streak'[c][b]
        BY <1>2, <1>3, <1>8, <1>9, <3>1, <3>5 DEF Counted, TypeAt
      <4>2. QED BY <1>7, <3>1, <3>2, <3>5, <4>1 DEF Counted
    <3>6. QED BY <1>5, <1>11, <2>4, <3>3, <3>4, <3>5 DEF Cleared
  <2>5. QED BY <1>10, <2>1, <2>3, <2>4
<1>16. CountInv(c, b)'
  <2>1. cnt'[c][b] < Modulus(b)
    BY <1>2, <1>3, <1>5, <1>9 DEF Missed, Cleared, Found, BitInv, CountInv, TypeAt
  <2>2. b = 6 => cnt'[c][b] <= DcctLimit
    <3>1. b = 6 => Limit(c, b) = DcctLimit
      BY DEF Limit
    <3>2. QED BY <1>2, <1>3, <1>5, <1>9, <3>1 DEF Missed, Cleared, Found, Counted, BitInv, CountInv, TypeAt
  <2>3. ASSUME ~Pending(c)', ~overrun'[c][b]
        PROVE  cnt'[c][b] <= Limit(c, b)
    <3>1. CASE Missed(c, b) \/ Cleared(c, b)
      BY <1>3, <3>1 DEF Missed, Cleared
    <3>2. CASE Found(c, b)
      BY <1>2, <1>3, <3>2 DEF Found, TypeAt
    <3>3. CASE Counted(c, b)
      <4>1. since'[c][b] # 0 /\ ~clear_pulse[c]
        BY <1>2, <1>3, <1>8, <3>3 DEF Counted, TypeAt
      <4>2. ~Pending(c) /\ ~overrun[c][b]
        BY <1>6, <1>10, <2>3, <4>1
      <4>3. cnt[c][b] <= Limit(c, b)
        BY <4>2 DEF BitInv, CountInv
      <4>4. QED BY <1>2, <1>3, <1>9, <3>3, <4>3 DEF Counted, TypeAt
    <3>4. QED BY <1>5, <3>1, <3>2, <3>3
  <2>4. ASSUME ~Pending(c)', b \notin fault_reg'[c], overrun'[c][b]
        PROVE  since'[c][b] + Limit(c, b) + 1 <=
                 IF cnt'[c][b] > Limit(c, b) THEN cnt'[c][b] ELSE cnt'[c][b] + Modulus(b)
    <3>1. overrun[c][b] /\ ~clear_pulse[c] /\ since'[c][b] # 0
      BY <1>6, <2>4
    <3>2. Counted(c, b) /\ b \notin fault_reg[c] /\ ~Pending(c)
      BY <1>5, <1>10, <2>4, <3>1 DEF Missed, Cleared, Found, Counted
    <3>3. since[c][b] + Limit(c, b) + 1 <=
            IF cnt[c][b] > Limit(c, b) THEN cnt[c][b] ELSE cnt[c][b] + Modulus(b)
      BY <3>1, <3>2 DEF BitInv, CountInv
    <3>4. cnt[c][b] \in Nat /\ cnt[c][b] < Modulus(b) /\ cnt[c][b] # Limit(c, b)
      BY <1>2, <3>2 DEF BitInv, CountInv, TypeAt, Counted
    <3>5. since'[c][b] <= since[c][b] + 1 /\ since[c][b] \in Nat /\ since'[c][b] \in Nat
      BY <1>2, <1>3, <1>8, <3>2 DEF Counted, TypeAt
    <3>6. QED BY <1>3, <1>9, <3>2, <3>3, <3>4, <3>5
  <2>5. ASSUME ~Pending(c)', b \notin fault_reg'[c], ~overrun'[c][b]
        PROVE  since'[c][b] <= cnt'[c][b] + 2
    <3>1. CASE Missed(c, b)
      BY <3>1 DEF Missed
    <3>2. CASE Cleared(c, b)
      <4>1. since[c][b] <= 1
        BY <1>10, <1>11, <2>5, <3>2 DEF Cleared
      <4>2. QED BY <1>2, <1>3, <1>8, <3>2, <4>1 DEF Cleared, TypeAt
    <3>3. CASE Counted(c, b)
      <4>1. since'[c][b] # 0 /\ ~clear_pulse[c]
        BY <1>2, <1>3, <1>8, <3>3 DEF Counted, TypeAt
      <4>2. ~Pending(c) /\ ~overrun[c][b] /\ b \notin fault_reg[c]
        BY <1>6, <1>10, <2>5, <3>3, <4>1 DEF Counted
      <4>3. cnt[c][b] <= Limit(c, b) /\ since[c][b] <= cnt[c][b] + 2
        BY <4>2 DEF BitInv, CountInv
      <4>4. cnt[c][b] \in Nat /\ cnt[c][b] # Limit(c, b)
        BY <1>2, <3>3 DEF Counted, TypeAt
      <4>5. cnt'[c][b] = cnt[c][b] + 1
        BY <1>3, <1>9, <3>3, <4>3, <4>4
      <4>6. since'[c][b] <= since[c][b] + 1 /\ since[c][b] \in Nat /\ since'[c][b] \in Nat
        BY <1>2, <1>3, <1>8, <3>3 DEF Counted, TypeAt
      <4>7. QED BY <4>3, <4>4, <4>5, <4>6
    <3>4. QED BY <1>5, <2>5, <3>1, <3>2, <3>3 DEF Found
  <2>6. QED BY <1>4, <2>1, <2>2, <2>3, <2>4, <2>5 DEF CountInv, Modulus
<1>17. LatchInv(c, b)'
  <2>1. SUFFICES ASSUME ~Pending(c)', since'[c][b] > Need(c, b)' + 3
                 PROVE  b \in fault_reg_lat'[c]
    BY <1>1 DEF LatchInv
  <2>2. Need(c, b)' = (IF overrun'[c][b] THEN Modulus(b) ELSE Limit(c, b)) /\ Need(c, b)' \in Nat
    BY <1>3, <1>4 DEF Need, Modulus
  <2>3. since'[c][b] > 3
    BY <1>2, <1>3, <1>5, <1>8, <2>1, <2>2 DEF Missed, Cleared, Found, Counted, TypeAt
  <2>4. ~clear_pulse[c] /\ ~Pending(c)
    BY <1>2, <1>3, <1>8, <1>10, <1>11, <1>13, <2>1, <2>3 DEF Missed, Cleared, TypeAt
  <2>5. overrun'[c][b] = overrun[c][b]
    <3>1. since'[c][b] # 0 /\ overrun[c][b] \in BOOLEAN
      BY <1>2, <2>3 DEF TypeAt
    <3>2. QED BY <1>6, <2>4, <3>1, Zenon
  <2>6. Need(c, b) = Need(c, b)' /\ Need(c, b) \in Nat /\ Need(c, b) <= Modulus(b)
    BY <1>3, <2>2, <2>5 DEF Need
  <2>7. since[c][b] > Need(c, b) + 2 /\ since[c][b] \in Nat
    BY <1>2, <1>3, <1>5, <1>8, <2>1, <2>3, <2>6 DEF Missed, Cleared, Found, Counted, TypeAt
  <2>8. b \in fault_reg[c]
    BY <2>4, <2>7, InTime DEF BitInv
  <2>9. QED BY <1>1, <1>12, <2>4, <2>8
<1>18. QED BY <1>14, <1>15, <1>16, <1>17 DEF BitInv

-----------------------------------------------------------------------------
(* A write of another register keeps the invariant of a bit.               *)
LEMMA SameBit ==
  ASSUME NEW c, NEW b, BitInv(c, b),
         UNCHANGED <<clear, cntlim, edge, state, latches, streak, since, overrun, qual>>
  PROVE  BitInv(c, b)'
<1> USE DEF edge, state, latches
<1>1. (Pending(c)' <=> Pending(c)) /\ Limit(c, b)' = Limit(c, b) /\ Need(c, b)' = Need(c, b)
  BY DEF Pending, Limit, Need
<1>2. RequestSampleInv(c, b)'
  BY DEF BitInv, RequestSampleInv
<1>3. QualInv(c, b)'
  BY <1>1 DEF BitInv, QualInv
<1>4. CountInv(c, b)'
  BY <1>1 DEF BitInv, CountInv
<1>5. LatchInv(c, b)'
  BY <1>1 DEF BitInv, LatchInv
<1>6. QED BY <1>2, <1>3, <1>4, <1>5 DEF BitInv

(* A new limit: the counter is below it or overrun, and the samples are    *)
(* counted anew.                                                           *)
LEMMA LimitBit ==
  ASSUME TypeOK, TypeOK', NEW c \in Chans, NEW b \in Bits, BitInv(c, b),
         NEW d \in Chans, NEW e \in Bits, WriteLimit(d, e)
  PROVE  BitInv(c, b)'
<1> USE DEF edge, state, latches
<1>1. PICK v \in Limits : /\ cntlim' = [cntlim EXCEPT ![d][e] = v]
                          /\ overrun' = [overrun EXCEPT ![d][e] = cnt[d][e] > v]
  BY DEF WriteLimit
<1>2. (Pending(c)' <=> Pending(c)) /\ v \in Nat
  BY InterlockAssumption DEF Pending, WriteLimit
<1>3. CASE c = d /\ b = e
  <2>1. /\ since'[c][b] = 0 /\ cntlim'[c][b] = v
        /\ overrun'[c][b] = (cnt[c][b] > v) /\ cnt'[c][b] = cnt[c][b]
    BY <1>1, <1>3 DEF TypeOK, WriteLimit
  <2>2. TypeAt(c, b)
    BY TypeOfBit
  <2>3. /\ Limit(c, b)' \in Nat /\ Modulus(b) \in Nat /\ Limit(c, b)' < Modulus(b)
        /\ Limit(c, b)' = IF b = 6 THEN DcctLimit ELSE v
    <3>1. Limit(c, b)' = IF b = 6 THEN DcctLimit ELSE v
      BY <2>1 DEF Limit
    <3>2. QED BY <3>1, InterlockAssumption DEF Modulus
  <2>4. RequestSampleInv(c, b)'
    BY <2>1 DEF BitInv, RequestSampleInv, WriteLimit
  <2>5. QualInv(c, b)'
    BY <1>2 DEF BitInv, QualInv, WriteLimit
  <2>6. CountInv(c, b)'
    <3>1. cnt'[c][b] < Modulus(b) /\ (b = 6 => cnt'[c][b] <= DcctLimit)
      BY <2>1 DEF BitInv, CountInv
    <3>2. ~overrun'[c][b] => cnt'[c][b] <= Limit(c, b)'
      <4>1. ~overrun'[c][b] => ~(cnt[c][b] > v)
        BY <2>1
      <4>2. QED BY <2>1, <2>2, <2>3, <1>2, <3>1, <4>1 DEF TypeAt
    <3>3. overrun'[c][b] => since'[c][b] + Limit(c, b)' + 1 <=
             IF cnt'[c][b] > Limit(c, b)' THEN cnt'[c][b] ELSE cnt'[c][b] + Modulus(b)
      BY <2>1, <2>2, <2>3, <1>2, <3>1 DEF TypeAt
    <3>4. since'[c][b] <= cnt'[c][b] + 2
      BY <2>1, <2>2 DEF TypeAt
    <3>5. QED BY <3>1, <3>2, <3>3, <3>4 DEF CountInv, Modulus
  <2>7. LatchInv(c, b)'
    <3>1. Need(c, b)' \in Nat
      BY <2>3 DEF Need, Modulus
    <3>2. ~(since'[c][b] > Need(c, b)' + 3)
      BY <2>1, <3>1
    <3>3. QED BY <1>2, <3>2 DEF BitInv, LatchInv, WriteLimit
  <2>8. QED BY <2>4, <2>5, <2>6, <2>7 DEF BitInv
<1>4. CASE c # d \/ b # e
  <2>1. since'[c][b] = since[c][b] /\ cntlim'[c][b] = cntlim[c][b] /\ overrun'[c][b] = overrun[c][b]
    BY <1>1, <1>4 DEF TypeOK, WriteLimit
  <2>2. Limit(c, b)' = Limit(c, b) /\ Need(c, b)' = Need(c, b)
    BY <2>1 DEF Limit, Need, Modulus
  <2>3. RequestSampleInv(c, b)'
    BY <2>1 DEF BitInv, RequestSampleInv, WriteLimit
  <2>4. QualInv(c, b)'
    BY <1>2 DEF BitInv, QualInv, WriteLimit
  <2>5. CountInv(c, b)'
    BY <1>2, <2>1, <2>2 DEF BitInv, CountInv, WriteLimit
  <2>6. LatchInv(c, b)'
    BY <1>2, <2>1, <2>2 DEF BitInv, LatchInv, WriteLimit
  <2>7. QED BY <2>3, <2>4, <2>5, <2>6 DEF BitInv
<1>5. QED BY <1>3, <1>4

(* A write of a clear register, seen from one channel: a request, or       *)
(* nothing that is on its way.                                             *)
LEMMA AxiPoint ==
  ASSUME TypeOK, NEW c \in Chans, EdgeInv(c), NEW k \in Tasks, AxiWrite(k)
  PROVE  \/ /\ clear'[c] /\ ~re[c] /\ asked'[c] = 0 /\ \A b \in Bits : since'[c][b] = 0
         \/ /\ (clear[c] /\ ~re[c])' <=> (clear[c] /\ ~re[c])
            /\ asked'[c] = asked[c] /\ qual'[c] = qual[c]
            /\ streak'[c] = streak[c] /\ since'[c] = since[c]
<1> USE DEF edge, state, latches
<1>1. PICK d \in writes[k] : AxiWrite(k)!(d)
  BY DEF AxiWrite
<1>2. CASE c = d /\ value[k] /\ ~clear[c]
  BY <1>1, <1>2 DEF TypeOK, EdgeInv, Bus
<1>3. CASE c = d /\ ~(value[k] /\ ~clear[c])
  <2>1. clear'[c] = value[k] /\ re' = re
    BY <1>1, <1>3 DEF TypeOK
  <2>2. (clear[c] /\ ~re[c])' <=> (clear[c] /\ ~re[c])
    BY <1>1, <1>3, <2>1 DEF EdgeInv, Bus
  <2>3. asked'[c] = asked[c] /\ qual'[c] = qual[c] /\ streak'[c] = streak[c] /\ since'[c] = since[c]
    BY <1>1, <1>3 DEF TypeOK
  <2>4. QED BY <2>2, <2>3
<1>4. CASE c # d
  BY <1>1, <1>4 DEF TypeOK
<1>5. QED BY <1>2, <1>3, <1>4

(* A write of a clear register keeps the invariant of a bit.               *)
LEMMA AxiBit ==
  ASSUME TypeOK, NEW c \in Chans, NEW b \in Bits, BitInv(c, b), EdgeInv(c), NEW k \in Tasks, AxiWrite(k)
  PROVE  BitInv(c, b)'
<1> USE DEF edge, state, latches
<1>1. UNCHANGED <<cntlim, overrun, edge, state, latches>>
  BY DEF AxiWrite
<1>2. Limit(c, b)' = Limit(c, b) /\ Need(c, b)' = Need(c, b)
  BY <1>1 DEF Limit, Need, Modulus
<1>3. CASE clear'[c] /\ ~re[c] /\ since'[c][b] = 0
  <2>1. Pending(c)'
    BY <1>1, <1>3 DEF Pending
  <2>2. QED BY <1>1, <1>2, <1>3, <2>1 DEF BitInv, RequestSampleInv, QualInv, CountInv, LatchInv, Modulus
<1>4. CASE /\ (clear[c] /\ ~re[c])' <=> (clear[c] /\ ~re[c])
           /\ qual'[c] = qual[c] /\ streak'[c] = streak[c] /\ since'[c] = since[c]
  <2>1. Pending(c)' <=> Pending(c)
    BY <1>1, <1>4 DEF Pending
  <2>2. RequestSampleInv(c, b)'
    BY <1>1, <1>4 DEF BitInv, RequestSampleInv
  <2>3. QualInv(c, b)'
    BY <1>1, <1>4, <2>1 DEF BitInv, QualInv
  <2>4. CountInv(c, b)'
    BY <1>1, <1>2, <1>4, <2>1 DEF BitInv, CountInv
  <2>5. LatchInv(c, b)'
    BY <1>1, <1>2, <1>4, <2>1 DEF BitInv, LatchInv
  <2>6. QED BY <2>2, <2>3, <2>4, <2>5 DEF BitInv
<1>5. QED BY <1>3, <1>4, AxiPoint

(* What the software writes keeps the invariant of a channel.              *)
LEMMA SettingsChan ==
  ASSUME TypeOK, NEW c \in Chans, ChanInv(c), Settings
  PROVE  ChanInv(c)'
<1> USE DEF edge, state, latches, history
<1>0. maindipole' = maindipole => MaskBits' = MaskBits
  BY DEF MaskBits
<1>1. ASSUME NEW d \in Chans, WriteOn1(d) \/ WritePark(d) \/ \E k \in Tasks : WriteClear(k, d)
      PROVE  ChanInv(c)'
  BY <1>0, <1>1 DEF WriteOn1, WritePark, WriteClear, Bus, ChanInv, EdgeInv, RequestInv, TripInv
<1>2. ASSUME NEW d \in Chans, NEW e \in Bits, WriteLimit(d, e) PROVE ChanInv(c)'
  BY <1>0, <1>2 DEF WriteLimit, Bus, ChanInv, EdgeInv, RequestInv, TripInv
<1>3. ASSUME NEW d \in Chans, WriteMask(d) PROVE ChanInv(c)'
  <2>1. bus' = TRUE /\ MaskBits' = MaskBits /\ UNCHANGED <<clear, edge, state, latches>>
    BY <1>0, <1>3 DEF WriteMask, Bus
  <2>2. asked'[c] = 0 \/ (asked'[c] = asked[c] /\ enable'[c] = enable[c])
    BY <1>3 DEF WriteMask, TypeOK
  <2>3. EdgeInv(c)'
    BY <2>1 DEF EdgeInv
  <2>4. RequestInv(c)'
    BY <2>1, <2>2 DEF ChanInv, RequestInv
  <2>5. TripInv(c)'
    BY <2>1, <2>2 DEF ChanInv, TripInv
  <2>6. QED BY <2>3, <2>4, <2>5 DEF ChanInv
<1>4. ASSUME NEW k \in Tasks, AxiWrite(k) PROVE ChanInv(c)'
  <2>1. bus' = TRUE /\ MaskBits' = MaskBits /\ UNCHANGED <<enable, edge, state, latches>>
    BY <1>0, <1>4 DEF AxiWrite, Bus
  <2>2. asked'[c] = 0 \/ (asked'[c] = asked[c] /\ ((clear[c] /\ ~re[c])' <=> (clear[c] /\ ~re[c])))
    BY <1>4, AxiPoint DEF ChanInv
  <2>3. EdgeInv(c)'
    BY <2>1 DEF EdgeInv
  <2>4. RequestInv(c)'
    BY <2>1, <2>2 DEF ChanInv, RequestInv
  <2>5. TripInv(c)'
    BY <2>1, <2>2 DEF ChanInv, TripInv
  <2>6. QED BY <2>3, <2>4, <2>5 DEF ChanInv
<1>5. CASE SetMainDipole
  <2>1. bus' = TRUE /\ asked'[c] = 0 /\ UNCHANGED <<clear, edge, state, latches>>
    BY <1>5 DEF SetMainDipole, Bus, Each
  <2>2. QED BY <2>1 DEF ChanInv, EdgeInv, RequestInv, TripInv
<1>6. QED BY <1>1, <1>2, <1>3, <1>4, <1>5 DEF Settings

(* Only FAULT_CLEAR messages and their writes change the clear registers.  *)
LEMMA NextDipole ==
  ASSUME TypeOK, DipoleInv, Next
  PROVE  DipoleInv'
<1> USE DEF edge, state, latches, history
<1>1. CASE UNCHANGED <<clear, maindipole, writes, value, crossed>>
  BY <1>1 DEF DipoleInv
<1>2. ASSUME NEW k \in Tasks, NEW c \in Chans, WriteClear(k, c) PROVE DipoleInv'
  <2>1. SUFFICES ASSUME maindipole', ~crossed' PROVE DipoleInv!2'
    BY DEF DipoleInv
  <2>2. /\ writes[Other(k)] = {} /\ maindipole
        /\ writes' = [writes EXCEPT ![k] = Chans]
    BY <1>2, <2>1 DEF WriteClear
  <2>3. Other(k) \in Tasks /\ Other(k) # k /\ \A m \in Tasks : m = k \/ m = Other(k)
    BY DEF Tasks, Other
  <2>4. writes'[k] = Chans /\ writes'[Other(k)] = {}
    BY <2>2, <2>3 DEF TypeOK
  <2>5. QED BY <2>3, <2>4
<1>3. ASSUME NEW k \in Tasks, AxiWrite(k) PROVE DipoleInv'
  <2>1. SUFFICES ASSUME maindipole', ~crossed' PROVE DipoleInv!2'
    BY DEF DipoleInv
  <2>2. PICK c \in writes[k] : AxiWrite(k)!(c)
    BY <1>3 DEF AxiWrite
  <2>3. Other(k) \in Tasks /\ Other(k) # k /\ \A m \in Tasks : m = k \/ m = Other(k)
    BY DEF Tasks, Other
  <2>4. /\ writes[Other(k)] = {} /\ \A d \in Chans \ writes[k] : clear[d] = value[k]
    BY <2>1, <2>2 DEF DipoleInv
  <2>5. writes'[k] = writes[k] \ {c} /\ writes'[Other(k)] = {} /\ value' = value
    BY <2>2, <2>3, <2>4 DEF TypeOK
  <2>6. \A d \in Chans \ writes'[k] : clear'[d] = value[k]
    BY <2>2, <2>4, <2>5 DEF TypeOK
  <2>7. QED BY <2>3, <2>5, <2>6
<1>4. CASE SetMainDipole
  BY <1>4 DEF SetMainDipole, DipoleInv
<1>5. QED
  <2>1. CASE Settings
    BY <1>1, <1>2, <1>3, <1>4, <2>1 DEF Settings, WriteOn1, WritePark, WriteMask, WriteLimit
  <2>2. CASE Trigger \/ Shift
    BY <1>1, <2>2 DEF Trigger, Shift, Clocked
  <2>3. ASSUME NEW over, NEW rsts0, NEW rsts1, Sample(over, rsts0, rsts1) PROVE DipoleInv'
    BY <1>1, <2>3 DEF Sample, Clocked
  <2>4. QED BY <2>1, <2>2, <2>3 DEF Next

-----------------------------------------------------------------------------
(* The registers out of reset satisfy the invariant.                       *)
LEMMA InitIInv ==
  ASSUME Init
  PROVE  IInv
<1>1. TypeOK
  <2>1. cnt \in [Chans -> [Bits -> 0..OnCntMod - 1]] /\ cntlim \in [Chans -> [Bits -> 0..CntMod - 1]]
    BY InterlockAssumption DEF Init, EachBit
  <2>2. streak \in [Chans -> [Bits -> 0..StreakCap]] /\ since \in [Chans -> [Bits -> 0..StreakCap]]
    BY InterlockAssumption DEF Init, EachBit, StreakCap
  <2>3. overrun \in [Chans -> [Bits -> BOOLEAN]] /\ asked \in [Chans -> 0..AskedCap]
    BY DEF Init, Each, EachBit, AskedCap
  <2>4. /\ {on1, park, clear} \subseteq [Chans -> BOOLEAN]
        /\ {re, re_reg, clear_pulse, changed, dac_change_flag} \subseteq [Chans -> BOOLEAN]
        /\ {digcntrl_on1_last, startup_state, run_state} \subseteq [Chans -> BOOLEAN]
    BY DEF Init, Each
  <2>5. /\ {live, fault_reg, fault_reg_lat, fault_reg_lat_mask, error_reg_mask, qual}
             \subseteq [Chans -> SUBSET Bits]
        /\ enable \in [Chans -> SUBSET Bits]
    BY DEF Init, Each
  <2>6. /\ maindipole \in Modes /\ crossed \in BOOLEAN /\ bus \in BOOLEAN /\ phase \in 0..3
        /\ writes \in [Tasks -> SUBSET Chans] /\ value \in [Tasks -> BOOLEAN]
    <3>1. crossed \in BOOLEAN /\ bus \in BOOLEAN /\ value \in [Tasks -> BOOLEAN]
      BY Zenon DEF Init
    <3>2. maindipole \in Modes /\ writes \in [Tasks -> SUBSET Chans] /\ phase \in 0..3
      BY DEF Init
    <3>3. QED BY <3>1, <3>2
  <2>7. QED BY <2>1, <2>2, <2>3, <2>4, <2>5, <2>6 DEF TypeOK
<1>2. DipoleInv
  BY DEF Init, DipoleInv, Each
<1>3. ASSUME NEW c \in Chans PROVE ChanInv(c)
  BY <1>3 DEF Init, ChanInv, EdgeInv, RequestInv, TripInv, Each
<1>4. ASSUME NEW c \in Chans, NEW b \in Bits PROVE BitInv(c, b)
  <2>1. /\ ~clear[c] /\ ~re[c] /\ ~clear_pulse[c] /\ cnt[c][b] = 0 /\ since[c][b] = 0
        /\ streak[c][b] = 0 /\ ~overrun[c][b] /\ fault_reg[c] = {} /\ fault_reg_lat[c] = {}
    BY <1>4 DEF Init, Each, EachBit
  <2>2. Limit(c, b) \in Nat /\ Modulus(b) \in Nat /\ Limit(c, b) < Modulus(b)
    BY <1>1, <1>4, LimitBounds
  <2>3. RequestSampleInv(c, b) /\ QualInv(c, b) /\ CountInv(c, b) /\ LatchInv(c, b)
    BY <2>1, <2>2, InterlockAssumption DEF RequestSampleInv, QualInv, CountInv, LatchInv, Need
  <2>4. QED BY <2>3 DEF BitInv
<1>5. QED BY <1>1, <1>2, <1>3, <1>4 DEF IInv

(* Every step keeps it, and so does a step of the environment.             *)
LEMMA NextIInv ==
  ASSUME IInv, [Next]_vars
  PROVE  IInv'
<1> USE DEF registers, edge, state, latches, history
<1>1. CASE Next
  <2>1. TypeOK' /\ DipoleInv'
    BY <1>1, NextType, NextDipole DEF IInv
  <2>2. ASSUME NEW c \in Chans PROVE ChanInv(c)'
    <3>1. ChanInv(c) /\ TypeOK
      BY <2>2 DEF IInv
    <3>2. Settings \/ Clocked
      BY <1>1 DEF Next, Trigger, Shift, Sample
    <3>3. QED BY <3>1, <3>2, SettingsChan, ClockedChan
  <2>3. ASSUME NEW c \in Chans, NEW b \in Bits PROVE BitInv(c, b)'
    <3>1. BitInv(c, b) /\ ChanInv(c) /\ TypeOK /\ EdgeInv(c)
      BY <2>3 DEF IInv, ChanInv
    <3>2. CASE Settings
      <4>1. CASE \/ \E d \in Chans : WriteOn1(d) \/ WritePark(d) \/ WriteMask(d)
                 \/ \E k \in Tasks, d \in Chans : WriteClear(k, d)
                 \/ SetMainDipole
        <5>1. UNCHANGED <<clear, cntlim, edge, state, latches, streak, since, overrun, qual>>
          BY <4>1 DEF WriteOn1, WritePark, WriteMask, WriteClear, SetMainDipole
        <5>2. QED BY <3>1, <5>1, SameBit
      <4>2. CASE \E d \in Chans, e \in Bits : WriteLimit(d, e)
        BY <2>1, <2>3, <3>1, <4>2, LimitBit
      <4>3. CASE \E k \in Tasks : AxiWrite(k)
        BY <2>3, <3>1, <4>3, AxiBit
      <4>4. QED BY <3>2, <4>1, <4>2, <4>3 DEF Settings
    <3>3. CASE Trigger \/ Shift
      <4>1. /\ Clocked /\ phase # 3 /\ phase \in 0..3
            /\ UNCHANGED <<state, streak, since, overrun, qual>>
        <5>1. phase \in 0..3
          BY <3>1 DEF TypeOK
        <5>2. CASE Trigger
          BY <5>1, <5>2 DEF Trigger
        <5>3. CASE Shift
          BY <5>1, <5>3 DEF Shift
        <5>4. QED BY <3>3, <5>2, <5>3
      <4>2. (phase = 0 \/ phase' # 0) /\ (phase # 0 \/ phase' \in {0, 1})
        <5>1. CASE Trigger
          BY <5>1 DEF Trigger
        <5>2. CASE Shift
          BY <4>1, <5>2 DEF Shift
        <5>3. QED BY <3>3, <5>1, <5>2
      <4>3. QED BY <2>3, <3>1, <4>1, <4>2, IdleBit
    <3>4. ASSUME NEW over, NEW rsts0, NEW rsts1, Sample(over, rsts0, rsts1)
          PROVE  BitInv(c, b)'
      BY <2>3, <3>1, <3>4, SampleBit
    <3>5. QED BY <1>1, <3>2, <3>3, <3>4 DEF Next
  <2>4. QED BY <2>1, <2>2, <2>3 DEF IInv
<1>2. CASE UNCHANGED vars
  <2>1. TypeOK' /\ DipoleInv'
    BY <1>2 DEF IInv, TypeOK, DipoleInv, vars
  <2>2. ASSUME NEW c \in Chans PROVE ChanInv(c)'
    BY <1>2, <2>2 DEF IInv, ChanInv, EdgeInv, RequestInv, TripInv, MaskBits, vars
  <2>3. ASSUME NEW c \in Chans, NEW b \in Bits PROVE BitInv(c, b)'
    BY <1>2, <2>3, SameBit DEF IInv, vars
  <2>4. QED BY <2>1, <2>2, <2>3 DEF IInv
<1>3. QED BY <1>1, <1>2

(* The inductive invariant of the fault logic.                             *)
THEOREM InductiveInvariant == Spec => []IInv
<1>1. Init => IInv
  BY InitIInv
<1>2. IInv /\ [Next]_vars => IInv'
  BY NextIInv
<1>3. QED BY <1>1, <1>2, PTL DEF Spec

(* The registers of fault_block keep the widths of their signals: no       *)
(* counter leaves its range.                                               *)
THEOREM TypeCorrect == Spec => []TypeOK
<1>1. IInv => TypeOK
  BY DEF IInv
<1>2. QED BY <1>1, InductiveInvariant, PTL

(* A lasting fault trips within its limit and three samples, whatever      *)
(* clear requests and limit writes fall around it, and after a wrap of the *)
(* counter at most when the limit was lowered below it: fault_reg and its  *)
(* latch in fault_block, for every counter width and limit.                *)
THEOREM LastingFaultTrips == Spec => []TripsInTime
<1>1. IInv => TripsInTime
  <2>1. SUFFICES ASSUME IInv, NEW c \in Chans, NEW b \in Bits
                 PROVE  /\ since[c][b] > Need(c, b) + 2 => b \in fault_reg[c]
                        /\ since[c][b] > Need(c, b) + 3 => b \in fault_reg_lat[c]
    BY DEF TripsInTime, Need
  <2>2. TypeOK /\ BitInv(c, b)
    BY <2>1 DEF IInv
  <2>3. since[c][b] \in Nat /\ Need(c, b) \in Nat
    <3>1. TypeAt(c, b) /\ StreakCap \in Nat /\ Limit(c, b) \in Nat /\ Modulus(b) \in Nat
      BY <2>2, TypeOfBit, LimitBounds
    <3>2. QED BY <3>1 DEF TypeAt, Need
  <2>4. CASE Pending(c)
    <3>1. since[c][b] <= 1
      BY <2>2, <2>3, <2>4 DEF Pending, BitInv, RequestSampleInv
    <3>2. QED BY <2>3, <3>1
  <2>5. CASE ~Pending(c)
    BY <2>2, <2>5, InTime DEF BitInv, LatchInv
  <2>6. QED BY <2>4, <2>5
<1>2. QED BY <1>1, InductiveInvariant, PTL

(* After a clear request fault_block latches only faults that lasted       *)
(* longer than their limit since the request.                              *)
THEOREM ClearLeavesNothing == Spec => []NoFalseTrip
<1>1. IInv => NoFalseTrip
  <2>1. SUFFICES ASSUME IInv, NEW c \in Chans, asked[c] >= 3, NEW b \in fault_reg_lat[c]
                 PROVE  b \in qual[c]
    BY DEF NoFalseTrip
  <2>2. ChanInv(c) /\ TypeOK
    BY <2>1 DEF IInv
  <2>3. b \in Bits /\ asked[c] \in Nat
    <3>1. asked \in [Chans -> 0..6] /\ fault_reg_lat \in [Chans -> SUBSET Bits]
      BY <2>2 DEF TypeOK, AskedCap
    <3>2. QED BY <2>1, <3>1
  <2>4. ~Pending(c)
    BY <2>1, <2>2, <2>3 DEF Pending, ChanInv, RequestInv
  <2>5. QED BY <2>1, <2>3, <2>4 DEF IInv, BitInv, QualInv
<1>2. QED BY <1>1, InductiveInvariant, PTL

(* The interlock of fault_block falls only within four clocks of a clear   *)
(* request, a mask write or a change of the main dipole mode.              *)
THEOREM InterlockStaysTripped == Spec => StaysTripped
<1>1. IInv /\ [Next]_vars =>
        [\A c \in Chans : flt_trig(c) /\ ~flt_trig(c)' => asked[c] < 4]_vars
  <2>1. ASSUME IInv, Next, NEW c \in Chans, flt_trig(c), ~flt_trig(c)', ~(asked[c] < 4)
        PROVE  FALSE
    <3>1. TypeOK /\ TripInv(c) /\ asked[c] >= 4
      <4>1. TypeOK /\ TripInv(c)
        BY <2>1 DEF IInv, ChanInv
      <4>2. asked \in [Chans -> 0..6]
        BY <4>1 DEF TypeOK, AskedCap
      <4>3. asked[c] \in 0..6
        BY <2>1, <4>2
      <4>4. QED BY <2>1, <4>1, <4>3
    <3>2. fault_reg_lat_mask[c] \subseteq fault_reg_lat[c] \cap enable[c] \cap MaskBits
      BY <3>1 DEF TripInv
    <3>3. CASE Clocked
      <4>1. fault_reg_lat_mask'[c] = fault_reg_lat[c] \cap enable[c] \cap MaskBits
        BY <2>1, <3>1, <3>3, ClockedPoint DEF ClockedAt
      <4>2. QED BY <2>1, <3>2, <4>1 DEF flt_trig
    <3>4. CASE UNCHANGED fault_reg_lat_mask
      BY <2>1, <3>4 DEF flt_trig
    <3>5. Clocked \/ UNCHANGED fault_reg_lat_mask
      <4>1. CASE Settings
        BY <4>1 DEF Settings, WriteOn1, WritePark, WriteMask, WriteClear, WriteLimit, AxiWrite,
                      SetMainDipole, latches
      <4>2. CASE ~Settings
        BY <2>1, <4>2 DEF Next, Trigger, Shift, Sample
      <4>3. QED BY <4>1, <4>2
    <3>6. QED BY <3>3, <3>4, <3>5
  <2>2. QED BY <2>1
<1>2. QED BY <1>1, InductiveInvariant, PTL DEF Spec, StaysTripped

(* After a FAULT_CLEAR message that no message of the other task cut in    *)
(* two the clear registers of the main dipole's channels agree, whatever   *)
(* came before.                                                            *)
THEOREM DipoleClearsInStep == Spec => []DipoleInStep
<1>1. IInv => DipoleInStep
  BY DEF IInv, DipoleInv, DipoleInStep
<1>2. QED BY <1>1, InductiveInvariant, PTL

=============================================================================
