------------------------------ MODULE Interlock ------------------------------
(***************************************************************************)
(* The fault logic of the FPGA: one fault_block per channel, wired by      *)
(* fault_module, on registers the software writes in chan_settings().      *)
(*                                                                         *)
(* All processes of the design run on one clock, so a clock edge is one    *)
(* step that computes every register from the values before the edge.      *)
(* Register writes fall between clock edges.  They come from the network   *)
(* thread and from the console, of lower priority, whose messages the      *)
(* network thread may cut in two.  What the supply does (analog values     *)
(* beyond their thresholds, status inputs) is chosen afresh at every       *)
(* 10 kHz sample; setpoints are represented by whether they changed.       *)
(***************************************************************************)
EXTENDS Integers

CONSTANTS
  Chans,       \* the channels, a subset of 1..4
  Bits,        \* the bits of the fault word followed, a subset of 0..10
  Unipolar,    \* the channels with polarity = '1'
  Modes,       \* the values main dipole mode takes
  CntMod,      \* 2^16, the range of the fault counters
  OnCntMod,    \* 2^32, the range of on_fault_cnt
  Limits,      \* the count limits the IOC writes
  DcctLimit,   \* what the undriven dcct_cntlim is built as
  Commands     \* the registers written in this instance, and whether by the console too

ASSUME InterlockAssumption ==
  /\ Chans \subseteq 1..4 /\ (2 \in Chans => 1 \in Chans)
  /\ Bits \subseteq 0..10
  /\ Unipolar \subseteq Chans
  /\ Modes \subseteq BOOLEAN
  /\ CntMod \in Nat \ {0} /\ OnCntMod \in Nat /\ OnCntMod >= CntMod
  /\ Limits \subseteq 0..CntMod - 1
  /\ DcctLimit \in 0..CntMod - 1
  /\ Commands \subseteq {"on1", "park", "clear", "enable", "cntlim", "setpoint", "console"}

VARIABLES
  on1, park, clear, enable, cntlim, \* the registers software writes
  maindipole,        \* MAIN_DIPOLE_MODE_REG
  writes, value,     \* FAULT_CLEAR writes each task has still to do, and their data
  bus,               \* a register was written since the last clock edge
  phase,             \* the 10 kHz trigger in dff0 (1), dff1 (2), ten_khz_pulse (3)
  re, re_reg, clear_pulse,
  changed,           \* dac_setpoint_reg_new /= dac_setpoint_reg_old
  dac_change_flag,
  digcntrl_on1_last, startup_state, run_state,
  live,              \* fault_live
  cnt,               \* the fault counters
  fault_reg,
  fault_reg_lat,
  fault_reg_lat_mask,
  error_reg_mask,
  crossed,           \* history: the last clear message was cut in two, or the mode changed since
  asked,             \* history: clocks since the operator's last clear, mask or mode write
  streak,            \* history: samples in a row at fault, none before the last clear
  since,             \* history: those of them after the last limit write
  overrun,           \* history: that limit was below the counter of the streak
  qual               \* history: bits whose streak exceeded the limit since the last clear

registers == <<on1, park, clear, enable, cntlim, maindipole, writes, value, bus>>
edge      == <<phase, re, re_reg, clear_pulse, changed, dac_change_flag>>
state     == <<digcntrl_on1_last, startup_state, run_state, live, cnt, fault_reg>>
latches   == <<fault_reg_lat, fault_reg_lat_mask, error_reg_mask>>
history   == <<crossed, asked, streak, since, overrun, qual>>
vars      == <<registers, edge, state, latches, history>>

(* The tasks that run chan_settings(): the network thread and the console. *)
Tasks == {"net", "con"}
Other(k) == IF k = "net" THEN "con" ELSE "net"

(* History counters stop here, beyond every value the properties compare.  *)
AskedCap == 6
StreakCap == OnCntMod + 4
Capped(n, cap) == IF n < cap THEN n + 1 ELSE n

Each(v) == [c \in Chans |-> v]
EachBit(v) == [c \in Chans |-> [b \in Bits |-> v]]

(* The registers keep the widths of their signals: in particular no        *)
(* counter leaves its range.                                               *)
TypeOK ==
  /\ {on1, park, clear} \subseteq [Chans -> BOOLEAN]
  /\ enable \in [Chans -> SUBSET Bits]
  /\ cntlim \in [Chans -> [Bits -> 0..CntMod - 1]]
  /\ maindipole \in Modes /\ crossed \in BOOLEAN
  /\ writes \in [Tasks -> SUBSET Chans] /\ value \in [Tasks -> BOOLEAN]
  /\ bus \in BOOLEAN /\ phase \in 0..3
  /\ {re, re_reg, clear_pulse, changed, dac_change_flag} \subseteq [Chans -> BOOLEAN]
  /\ {digcntrl_on1_last, startup_state, run_state} \subseteq [Chans -> BOOLEAN]
  /\ {live, fault_reg, fault_reg_lat, fault_reg_lat_mask, error_reg_mask, qual}
       \subseteq [Chans -> SUBSET Bits]
  /\ cnt \in [Chans -> [Bits -> 0..OnCntMod - 1]]
  /\ asked \in [Chans -> 0..AskedCap]
  /\ {streak, since} \subseteq [Chans -> [Bits -> 0..StreakCap]]
  /\ overrun \in [Chans -> [Bits -> BOOLEAN]]

(* The FPGA out of reset, every register 0 but the mode that main() has    *)
(* read from the EEPROM.                                                   *)
Init ==
  /\ on1 = Each(FALSE) /\ park = Each(FALSE) /\ clear = Each(FALSE)
  /\ enable = Each({}) /\ cntlim = EachBit(0)
  /\ maindipole \in Modes /\ crossed = FALSE
  /\ writes = [k \in Tasks |-> {}] /\ value = [k \in Tasks |-> FALSE]
  /\ bus = FALSE /\ phase = 0
  /\ re = Each(FALSE) /\ re_reg = Each(FALSE) /\ clear_pulse = Each(FALSE)
  /\ changed = Each(FALSE) /\ dac_change_flag = Each(FALSE)
  /\ digcntrl_on1_last = Each(FALSE)
  /\ startup_state = Each(FALSE) /\ run_state = Each(FALSE)
  /\ live = Each({}) /\ cnt = EachBit(0) /\ fault_reg = Each({})
  /\ fault_reg_lat = Each({}) /\ fault_reg_lat_mask = Each({})
  /\ error_reg_mask = Each({})
  /\ asked = Each(AskedCap) /\ streak = EachBit(0) /\ since = EachBit(0)
  /\ overrun = EachBit(FALSE) /\ qual = Each({})

-----------------------------------------------------------------------------
(* chan_settings(): a task does one message after the other, and the       *)
(* console writes only while the network thread is done with its own.      *)
Runs(k) == k = "con" => writes["net"] = {}
Idle(k) == Runs(k) /\ writes[k] = {}

(* Xil_Out32: the AXI bus takes more than a clock for each write.          *)
Bus == ~bus /\ bus' = TRUE

(* DIGOUT_ON1_MSG.                                                         *)
WriteOn1(c) ==
  /\ "on1" \in Commands /\ Idle("net") /\ Bus
  /\ \E v \in BOOLEAN : on1' = [on1 EXCEPT ![c] = v]
  /\ UNCHANGED <<park, clear, enable, cntlim, maindipole, writes, value, edge, state, latches,
                 history>>

(* DIGOUT_PARK_MSG.                                                        *)
WritePark(c) ==
  /\ "park" \in Commands /\ Idle("net") /\ Bus
  /\ \E v \in BOOLEAN : park' = [park EXCEPT ![c] = v]
  /\ UNCHANGED <<on1, clear, enable, cntlim, maindipole, writes, value, edge, state, latches,
                 history>>

(* FAULT_MASK_MSG.                                                         *)
WriteMask(c) ==
  /\ "enable" \in Commands /\ Idle("net") /\ Bus
  /\ \E v \in SUBSET Bits : enable' = [enable EXCEPT ![c] = v]
  /\ asked' = [asked EXCEPT ![c] = 0]
  /\ UNCHANGED <<on1, park, clear, cntlim, maindipole, writes, value, edge, state, latches,
                 crossed, streak, since, overrun, qual>>

(* The *_CNTLIM_MSG messages, any of which may come at any time, also      *)
(* while the counter runs.                                                 *)
WriteLimit(c, b) ==
  /\ "cntlim" \in Commands /\ Idle("net") /\ Bus
  /\ \E v \in Limits :
       /\ cntlim' = [cntlim EXCEPT ![c][b] = v]
       /\ overrun' = [overrun EXCEPT ![c][b] = cnt[c][b] > v]
  /\ since' = [since EXCEPT ![c][b] = 0]
  /\ UNCHANGED <<on1, park, clear, enable, maindipole, writes, value, edge, state, latches,
                 crossed, asked, streak, qual>>

(* Mutant: main dipole mode is not looked at.                              *)
WriteClearOne(k, c) ==
  /\ "clear" \in Commands /\ Idle(k) /\ (k = "con" => "console" \in Commands)
  /\ \E v \in BOOLEAN : value' = [value EXCEPT ![k] = v]
  /\ writes' = [writes EXCEPT ![k] = {c}]
  /\ crossed' = (writes[Other(k)] # {})
  /\ UNCHANGED <<on1, park, clear, enable, cntlim, maindipole, bus, edge, state, latches,
                 asked, streak, since, overrun, qual>>

(* FAULT_CLEAR_MSG: the mode is read, then the channel's register, or in   *)
(* main dipole mode all of them, one Xil_Out32 after the other.  A message *)
(* of the network thread that comes between those of the console cuts that *)
(* message in two.                                                         *)
WriteClear(k, c) ==
  /\ "clear" \in Commands /\ Idle(k) /\ (k = "con" => "console" \in Commands)
  /\ \E v \in BOOLEAN : value' = [value EXCEPT ![k] = v]
  /\ writes' = [writes EXCEPT ![k] = IF maindipole THEN Chans ELSE {c}]
  /\ crossed' = (writes[Other(k)] # {})
  /\ UNCHANGED <<on1, park, clear, enable, cntlim, maindipole, bus, edge, state, latches,
                 asked, streak, since, overrun, qual>>

(* One of those writes reaches its register.  The clear the operator asks  *)
(* for is the change from 0 to 1.                                          *)
AxiWrite(k) == \E c \in writes[k] :
  LET asks == value[k] /\ ~clear[c] IN
  /\ Runs(k) /\ \A d \in writes[k] : c <= d
  /\ Bus
  /\ clear' = [clear EXCEPT ![c] = value[k]]
  /\ writes' = [writes EXCEPT ![k] = @ \ {c}]
  /\ asked' = [asked EXCEPT ![c] = IF asks THEN 0 ELSE @]
  /\ qual' = [qual EXCEPT ![c] = IF asks THEN {} ELSE @]
  /\ streak' = [streak EXCEPT ![c] = IF asks THEN [b \in Bits |-> 0] ELSE @]
  /\ since' = [since EXCEPT ![c] = IF asks THEN [b \in Bits |-> 0] ELSE @]
  /\ UNCHANGED <<on1, park, enable, cntlim, maindipole, value, edge, state, latches,
                 crossed, overrun>>

(* set_maindipole() on the console, at the write of MAIN_DIPOLE_MODE_REG   *)
(* in ReadHardwareFlavor().                                                *)
SetMainDipole ==
  /\ Idle("con") /\ Bus
  /\ maindipole' \in Modes \ {maindipole}
  /\ asked' = Each(0) /\ crossed' = TRUE
  /\ UNCHANGED <<on1, park, clear, enable, cntlim, writes, value, edge, state, latches,
                 streak, since, overrun, qual>>

-----------------------------------------------------------------------------
(* fault_block, at a clock edge.                                           *)

(* What fault_module connects to a block's park input: channel 2 gets      *)
(* rcom(16), the park output of channel 1.                                 *)
ParkIn(c) == park[IF c = 2 THEN 1 ELSE c]

(* The limit a counter is compared with: dcct_cntlim is not connected to   *)
(* its register.                                                           *)
Limit(c, b) == IF b = 6 THEN DcctLimit ELSE cntlim[c][b]

Modulus(b) == IF b = 10 THEN OnCntMod ELSE CntMod

Bipolar(c) == c \notin Unipolar \/ maindipole

(* The condition of bit b, for the status inputs rsts(0), rsts(1) and the  *)
(* bits whose analog value or status input is at fault.                    *)
AtFault(c, b, over, rsts0, rsts1) ==
  CASE b = 7  -> IF Bipolar(c) THEN rsts1 ELSE ~rsts1 /\ on1[c] /\ run_state[c]
    [] b = 10 -> on1[c] /\ (IF Bipolar(c) THEN ~rsts0 ELSE ~rsts1)
    [] OTHER  -> b \in over

(* The PI loop error is not checked in park nor while the setpoint moves.  *)
Skipped(c, b) == b \in {3, 4} /\ (ParkIn(c) \/ dac_change_flag[c])

(* Mutant: the counter does not wrap.                                      *)
CountsWide(c, b, hit) ==
  IF Skipped(c, b) \/ ~hit \/ clear_pulse[c] THEN [n |-> 0, set |-> FALSE]
  ELSE IF cnt[c][b] = Limit(c, b) THEN [n |-> cnt[c][b], set |-> TRUE]
  ELSE [n |-> cnt[c][b] + 1, set |-> b \in fault_reg[c]]

(* The counter and fault_reg bit of b after a sample: a fault is one that  *)
(* lasts until the counter EQUALS the limit.                               *)
Counts(c, b, hit) ==
  IF Skipped(c, b) \/ ~hit \/ clear_pulse[c] THEN [n |-> 0, set |-> FALSE]
  ELSE IF cnt[c][b] = Limit(c, b) THEN [n |-> cnt[c][b], set |-> TRUE]
  ELSE [n |-> (cnt[c][b] + 1) % Modulus(b), set |-> b \in fault_reg[c]]

(* The fault word's bits that may trip the interlock: x"1FEF", or x"1CEF"  *)
(* for the main dipole.                                                    *)
MaskBits == (0..12) \ (IF maindipole THEN {4, 8, 9} ELSE {4})

(* Mutant: a latch follows its fault.                                      *)
LatchesNotSticky ==
  /\ fault_reg_lat' = [c \in Chans |-> IF clear_pulse[c] THEN {} ELSE fault_reg[c]]
  /\ fault_reg_lat_mask' = [c \in Chans |-> fault_reg_lat[c] \cap enable[c] \cap MaskBits]
  /\ error_reg_mask' = [c \in Chans |-> fault_reg[c] \cap enable[c] \cap {4}]

(* What happens at every edge: the latches and the mask ...                *)
Latches ==
  /\ fault_reg_lat' = [c \in Chans |-> IF clear_pulse[c] THEN {}
                                       ELSE fault_reg_lat[c] \cup fault_reg[c]]
  /\ fault_reg_lat_mask' = [c \in Chans |-> fault_reg_lat[c] \cap enable[c] \cap MaskBits]
  /\ error_reg_mask' = [c \in Chans |-> fault_reg[c] \cap enable[c] \cap {4}]

(* Mutant: clear_pulse is never dropped again.                             *)
ClearEdgeStuck ==
  /\ re' = clear /\ re_reg' = re
  /\ clear_pulse' = [c \in Chans |-> clear_pulse[c] \/ (re[c] /\ ~re_reg[c])]

(* Mutant: the sample that ends clear_pulse wins over a new request.       *)
ClearEdgeLoses ==
  /\ re' = clear /\ re_reg' = re
  /\ clear_pulse' = [c \in Chans |-> phase # 3 /\ (clear_pulse[c] \/ (re[c] /\ ~re_reg[c]))]

(* ... and the edge detector of clear, whose pulse lasts until the next    *)
(* sample has seen it.                                                     *)
ClearEdge ==
  /\ re' = clear /\ re_reg' = re
  /\ clear_pulse' = [c \in Chans |-> \/ re[c] /\ ~re_reg[c]
                                     \/ clear_pulse[c] /\ phase # 3]

Clocked ==
  /\ Latches /\ ClearEdge
  /\ dac_change_flag' = changed
  /\ asked' = [c \in Chans |-> Capped(asked[c], AskedCap)]
  /\ bus' = FALSE
  /\ UNCHANGED <<on1, park, clear, enable, cntlim, maindipole, writes, value, crossed>>

(* An edge at which tenkhz_trig is 1: the setpoint registers shift.        *)
Trigger ==
  /\ phase = 0 /\ phase' = 1
  /\ Clocked
  /\ changed' \in [Chans -> IF "setpoint" \in Commands THEN BOOLEAN ELSE {FALSE}]
  /\ UNCHANGED <<state, streak, since, overrun, qual>>

(* An edge without trigger or sample.  Triggers are thousands of clocks    *)
(* apart, so none is in the pipeline with another.                         *)
Shift ==
  /\ phase # 3 /\ phase' = IF phase = 0 THEN 0 ELSE phase + 1
  /\ Clocked
  /\ UNCHANGED <<changed, state, streak, since, overrun, qual>>

(* Start-up and running, from on1 and the supply's rsts(1).                *)
RunState(rsts1) ==
  /\ digcntrl_on1_last' = on1
  /\ startup_state' = [c \in Chans |->
       ~(startup_state[c] /\ rsts1[c]) /\
       (startup_state[c] \/ (on1[c] /\ ~digcntrl_on1_last[c]))]
  /\ run_state' = [c \in Chans |->
       ~(run_state[c] /\ ~on1[c]) /\
       (run_state[c] \/ (startup_state[c] /\ rsts1[c]))]

(* The samples in a row of bit b, as the properties count them.            *)
Streak(c, b, hit, n) == IF Skipped(c, b) \/ ~hit THEN 0 ELSE Capped(n, StreakCap)

(* An edge at which ten_khz_pulse is 1: all conditions are checked.        *)
Sample(over, rsts0, rsts1) ==
  LET hit(c, b) == AtFault(c, b, over[c], rsts0[c], rsts1[c]) IN
  /\ phase = 3 /\ phase' = 0
  /\ Clocked
  /\ RunState(rsts1)
  /\ live' = [c \in Chans |-> {b \in Bits : IF Skipped(c, b) THEN b \in live[c]
                                            ELSE hit(c, b) /\ ~clear_pulse[c]}]
  /\ cnt' = [c \in Chans |-> [b \in Bits |-> Counts(c, b, hit(c, b)).n]]
  /\ fault_reg' = [c \in Chans |-> {b \in Bits : Counts(c, b, hit(c, b)).set}]
  /\ streak' = [c \in Chans |-> [b \in Bits |-> Streak(c, b, hit(c, b), streak[c][b])]]
  /\ since' = [c \in Chans |-> [b \in Bits |-> Streak(c, b, hit(c, b), since[c][b])]]
  /\ overrun' = [c \in Chans |-> [b \in Bits |-> overrun[c][b] /\ ~clear_pulse[c]
                                                    /\ since'[c][b] # 0]]
  /\ qual' = [c \in Chans |-> qual[c] \cup {b \in Bits : streak'[c][b] > Limit(c, b)}]
  /\ UNCHANGED changed

-----------------------------------------------------------------------------
Settings == \/ \E c \in Chans : \/ WriteOn1(c) \/ WritePark(c) \/ WriteMask(c)
                                \/ \E b \in Bits : WriteLimit(c, b)
            \/ \E k \in Tasks : AxiWrite(k) \/ \E c \in Chans : WriteClear(k, c)
            \/ SetMainDipole

(* A status input, when one of the bits that depend on it is followed.     *)
Status(bits) == IF bits \cap Bits # {} THEN BOOLEAN ELSE {FALSE}

Next ==
  \/ Settings \/ Trigger \/ Shift
  \/ \E over \in [Chans -> SUBSET (Bits \ {7, 10})],
        rsts0 \in [Chans -> Status({10})], rsts1 \in [Chans -> Status({7, 10})] :
       Sample(over, rsts0, rsts1)

Spec == Init /\ [][Next]_vars

-----------------------------------------------------------------------------
(* Outputs.                                                                *)

(* fault_stat.flt_trig, the interlock, and the two snapshot triggers.      *)
flt_trig(c) == fault_reg_lat_mask[c] # {}
err_trig(c) == error_reg_mask[c] # {}
trig_ss(c)  == maindipole /\ 8 \in live[c]

-----------------------------------------------------------------------------
(* Properties.                                                             *)

(* A lasting fault trips, however clears and limit changes fall around it: *)
(* once the condition has held for the limit and two samples more (the two *)
(* an overlapping clear can swallow), fault_reg is set, and one sample     *)
(* later it is latched.  A limit lowered below the running counter costs   *)
(* a wrap of the counter, never more.                                      *)
TripsInTime ==
  \A c \in Chans, b \in Bits :
    LET need == IF overrun[c][b] THEN Modulus(b) ELSE Limit(c, b) IN
      /\ since[c][b] > need + 2 => b \in fault_reg[c]
      /\ since[c][b] > need + 3 => b \in fault_reg_lat[c]

(* A clear leaves nothing behind: from the third clock after a clear       *)
(* request, a latched fault is one whose condition held for more than its  *)
(* limit of samples, all of them after the request.                        *)
NoFalseTrip ==
  \A c \in Chans : asked[c] >= 3 => fault_reg_lat[c] \subseteq qual[c]

(* The interlock stays tripped, whatever the supply does, until an         *)
(* operator acts: flt_trig falls only within four clocks of a clear        *)
(* request, of a mask write or of a change of the main dipole mode, which  *)
(* takes bits from the mask.                                               *)
StaysTripped ==
  [][\A c \in Chans : flt_trig(c) /\ ~flt_trig(c)' => asked[c] < 4]_vars

(* In main dipole mode the channels clear together: once a clear message   *)
(* that no message of the other task cut in two is done, their clear       *)
(* registers agree, so that the next request is an edge for all of them or *)
(* for none, also when earlier messages crossed or the mode was off.       *)
DipoleInStep ==
  maindipole /\ ~crossed /\ (\A k \in Tasks : writes[k] = {}) =>
    \A c, d \in Chans : clear[c] = clear[d]

(* fault_block.vhd: "if channel is in park then this error is ignored".    *)
ParkIgnoresError ==
  [][phase = 3 /\ phase' = 0 => \A c \in Chans : park[c] => {3, 4} \cap fault_reg'[c] = {}]_vars

=============================================================================
