--------------------------------- MODULE Dac ---------------------------------
(***************************************************************************)
(* The setpoint path: Set_dac(), Set_dacOpmode() and write_ramptable() of  *)
(* control.c on one side of the registers, the mode multiplexer, the       *)
(* smooth linear ramp, the ramp table player and the gain and offset of    *)
(* dac_chan.vhd on the other.                                              *)
(*                                                                         *)
(* Bus writes are steps of their own: 10 kHz samples fall between any two  *)
(* of them (there are printf()s between them), while the FPGA's clock,     *)
(* which watches the registers in the idle state, is faster than the bus.  *)
(* Fixed point numbers are integers in units of 1/Frac DAC bit, and the    *)
(* ramp rate is given in DAC bits per sample.                              *)
(***************************************************************************)
EXTENDS Integers, Sequences

CONSTANTS
  Chans,      \* the channels
  Amps,       \* setpoints an operator may send
  FofbInputs, \* setpoints the feedback link may deliver, in DAC bits
  Tables,     \* ramp tables that may be downloaded, in DAC bits
  MaxTable,   \* 50000
  AddrMod,    \* 2^16, the width of the table's addresses and of its length
  Lengths,    \* what DAC_RAMPLEN_MSG may write
  Factor,     \* scalefactors[].dac_dccts, for each channel
  Conv,       \* CONVVOLTSTODACBITS
  MaxVolts,   \* 10 V; the high limit is one bit less
  Rate,       \* the ramp rate
  Percent,    \* smoothramp_percentcurved
  MinPts,     \* samples in the 2 s a main dipole ramp lasts at least; 0 outside that mode
  Polarity,   \* the bits set in POLARITY_REG, numbered from 0
  GainUnit,   \* 2^20
  Gains,      \* what DAC_SETPT_GAIN_REG may hold: 24 bits, 2^20 - 1 stands for 1.0
  Offsets,    \* what DAC_SETPT_OFFSET_REG may hold
  HighRes,    \* RESOLUTION_REG: a 20 bit DAC, otherwise one of 18 bits
  Half,       \* 2^19
  Frac,       \* 2^48
  Signif,     \* a slope's precision: 2^24, that of a float, less the doubles' own rounding
  LoMod,      \* 2^32, where the low word of a 64 bit parameter ends
  DyMax,      \* 511
  MaxCommands \* bound on the commands of a behaviour

Abs(n) == IF n < 0 THEN -n ELSE n

ASSUME DacAssumption ==
  /\ Chans \subseteq 1..4 /\ Amps \subseteq Int /\ FofbInputs \subseteq -Half .. Half - 1
  /\ Factor \in [Chans -> Int \ {0}] /\ Polarity \subseteq 0..3
  /\ {Conv, MaxVolts, Rate, GainUnit, Half, Frac, LoMod, DyMax, Signif} \subseteq Nat \ {0}
  /\ MaxCommands \in Nat /\ Percent \in 0..255 /\ MinPts \in Nat /\ Lengths \subseteq Nat
  /\ Tables \subseteq Seq(Int) /\ {MaxTable, AddrMod} \subseteq Nat /\ MaxTable + 1 < AddrMod
  /\ MaxVolts * Conv <= Half /\ 2 * (DyMax + 1) <= Signif
  /\ Gains \subseteq -8 * GainUnit .. 8 * GainUnit - 1 /\ Offsets \subseteq -Half .. Half - 1
  /\ HighRes \in BOOLEAN

SMOOTH == 0
RAMP   == 1
FOFB   == 2
JUMP   == 3

VARIABLES
  left,    \* commands left to give
  cmd,     \* the bus writes the command in progress has left, or none
  mode,    \* DAC_OPMODE_REG
  setpt,   \* DAC_SETPT_REG
  par,     \* the SMOOTH_* registers
  ramp,    \* smooth_linear_ramp
  table,   \* the DPRAM, DAC_RAMPLEN_REG
  play,    \* ramptable_ramp
  cal,     \* DAC_SETPT_GAIN_REG, DAC_SETPT_OFFSET_REG
  raw,     \* dac_setpt_raw
  dac,     \* dac_setpt, behind gain and offset
  source,  \* history: the mode raw was taken in
  clean,   \* history: nothing disturbed the last smooth ramp
  whole    \* history: nothing disturbed the last run of the table

fpga == <<mode, setpt, par, ramp, table, play, cal>>
outs == <<raw, dac, source>>
vars == <<left, cmd, fpga, outs, clean, whole>>

(* smooth_linear_ramp: setpt_last in fixed point, cnt and total_len.       *)
NoRamp == [st |-> "IDLE", cnt |-> 0, total |-> 0, last |-> 0, prev |-> 0]
NoPar  == [llen |-> 0, clen |-> 0, dy |-> 0, dyp |-> 0]
NoCmd  == [op |-> "none", c |-> 0, n |-> 0, new |-> 0, cur |-> 0, p |-> NoPar, tab |-> <<>>]

Bits20 == -Half .. Half - 1

(* Whatever the commands do, what the DAC sees is a 20 bit number, slopes  *)
(* fit their registers, and an idle ramp has noticed the setpoint.         *)
TypeOK ==
  /\ mode \in [Chans -> {SMOOTH, RAMP, FOFB, JUMP}]
  /\ setpt \in [Chans -> Bits20] /\ raw \in [Chans -> Bits20] /\ dac \in [Chans -> Bits20]
  /\ \A c \in Chans :
       /\ par[c].llen \in Nat /\ par[c].clen \in Nat
       /\ Abs(par[c].dy) <= (DyMax + 2) * Frac /\ Abs(par[c].dyp) <= (DyMax + 2) * Frac
       /\ ramp[c].st \in {"IDLE", "START_CURVED", "LINEAR", "END_CURVED"}
       /\ ramp[c].st = "IDLE" => ramp[c].prev = setpt[c]
       /\ play[c].st \in {"IDLE", "RUN_RAMP"} /\ play[c].addr \in 0..AddrMod - 1
  /\ cal \in [Chans -> [gain : Gains, offset : Offsets]]
  /\ left \in 0..MaxCommands /\ cmd.op \in {"none", "smooth", "jump", "table"}

-----------------------------------------------------------------------------
(* Arithmetic.                                                             *)

(* A quotient truncated towards zero, as C and a cast to an integer do.     *)
Quot(x, y) == IF (x < 0) = (y < 0) THEN Abs(x) \div Abs(y) ELSE -(Abs(x) \div Abs(y))

(* The low 20 bits of an integer, and resize() of a signed one.            *)
Wrap20(x)   == ((x + Half) % (2 * Half)) - Half
Resize20(x) == IF x < 0 THEN (x % Half) - Half ELSE x % Half

(* Set_dac(): volts are limited, converted, and kept from being negative   *)
(* on a unipolar channel, the polarity being the bit after the channel's.  *)
Setpoint(c, amps) ==
  LET bits == IF amps * Conv > (MaxVolts * Conv - 1) * Factor[c] THEN MaxVolts * Conv - 1
              ELSE IF amps < -MaxVolts * Factor[c] THEN -MaxVolts * Conv
              ELSE Quot(amps * Conv, Factor[c]) IN
  IF c \in Polarity /\ bits < 0 THEN 0 ELSE bits

(* Calc_WriteLinearSmooth(): duration in units of 1/Rate sample ...        *)
Duration(delta) == IF Abs(delta) < MinPts * Rate THEN MinPts * Rate ELSE Abs(delta)

(* ... points of the three sections, a negative number of them cast to 0 ... *)
CurvedPts(d) == (Percent * d) \div (100 * Rate)
LinearPts(d) == IF Percent > 50 THEN 0 ELSE ((100 - 2 * Percent) * d) \div (100 * Rate)

(* ... and slopes, where one too steep, or a division by 0, gives 0.  The  *)
(* argument of llroundf() is a float: up to one part in Signif is lost     *)
(* before it is rounded to an integer.                                     *)
Near(x, y) ==
  LET q == (x * Frac) \div y
      r == Abs(x * Frac) \div (y * Signif) + 2 IN
  {n \in q - r .. q + r :
     2 * Signif * Abs(n * y - x * Frac) <= Signif * y + 2 * Abs(x * Frac)}

SlopeOf(x, y) == IF y = 0 \/ Abs(Quot(x, y)) > DyMax THEN {0} ELSE Near(x, y)

Params(delta) ==
  LET d == Duration(delta)
      C == CurvedPts(d)
      L == LinearPts(d) IN
  [llen : {L}, clen : {C}, dy : SlopeOf(delta, C + L), dyp : SlopeOf(delta, (C + L) * C)]

(* ps_io.vhd puts the 64 bit parameter together from two registers, that   *)
(* of channel 2 from its own high and channel 1's low word.                *)
OwnWords(c) == c # 2 \/ 1 \notin Chans

DyPerPt(c) ==
  LET lo == IF OwnWords(c) THEN c ELSE 1 IN
  par[c].dyp - (par[c].dyp % LoMod) + (par[lo].dyp % LoMod)

(* dac_gainoffset: subtract the offset, multiply, take bits 39..20, then   *)
(* saturate, for a 20 bit DAC when the sign has changed, for one of 18     *)
(* bits at the ends of its range.                                          *)
GainOffset(k, x) ==
  LET oc == Wrap20(x - k.offset)
      y == Wrap20((oc * k.gain) \div GainUnit)
      q == Half \div 4 IN
  CASE HighRes /\ y < 0 /\ oc >= 0  -> Half - 1
    [] HighRes /\ y >= 0 /\ oc < 0  -> -Half
    [] ~HighRes /\ y > q - 1        -> q - 1
    [] ~HighRes /\ y < -q           -> -q
    [] OTHER                        -> y

(* What the ARM reads back: a unipolar channel's negative values are cut   *)
(* off behind dac_setpt.                                                   *)
Out(c) == IF c - 1 \in Polarity /\ dac[c] < 0 THEN 0 ELSE dac[c]

RampOut(c) == Resize20(ramp[c].last \div Frac)

-----------------------------------------------------------------------------
Init ==
  /\ left = MaxCommands /\ cmd = NoCmd
  /\ mode = [c \in Chans |-> SMOOTH] /\ setpt = [c \in Chans |-> 0]
  /\ par = [c \in Chans |-> NoPar] /\ ramp = [c \in Chans |-> NoRamp]
  /\ table = [c \in Chans |-> [len |-> 0, mem |-> <<>>]]
  /\ play = [c \in Chans |-> [st |-> "IDLE", addr |-> 0, out |-> 0]]
  /\ cal \in [Chans -> [gain : Gains, offset : Offsets]]
  /\ raw = setpt /\ dac = [c \in Chans |-> GainOffset(cal[c], 0)] /\ source = mode
  /\ clean = [c \in Chans |-> TRUE] /\ whole = [c \in Chans |-> FALSE]

(* One more command, after the last one has been carried out.              *)
Command == cmd = NoCmd /\ left > 0 /\ left' = left - 1

(* DAC_OPMODE_MSG: the code that would bring the output over smoothly is   *)
(* commented out.                                                          *)
Set_dacOpmode(c, m) ==
  /\ Command
  /\ mode' = [mode EXCEPT ![c] = m]
  /\ UNCHANGED <<cmd, setpt, par, ramp, table, play, cal, outs, clean, whole>>

(* DAC_SETPT_GAIN_MSG and DAC_SETPT_OFFSET_MSG: the output moves with the   *)
(* next sample.                                                            *)
SetGain(c, g) ==
  /\ Command
  /\ cal' = [cal EXCEPT ![c].gain = g]
  /\ UNCHANGED <<cmd, mode, setpt, par, ramp, table, play, outs, clean, whole>>

SetOffset(c, o) ==
  /\ Command
  /\ cal' = [cal EXCEPT ![c].offset = o]
  /\ UNCHANGED <<cmd, mode, setpt, par, ramp, table, play, outs, clean, whole>>

(* DAC_SETPT_MSG: nothing in the modes RAMP and FOFB.                      *)
Set_dac(c, amps) ==
  LET new == Setpoint(c, amps) IN
  /\ Command /\ mode[c] \in {SMOOTH, JUMP}
  /\ \E p \in IF mode[c] = SMOOTH THEN Params(new - Out(c)) ELSE {NoPar} :
       cmd' = [NoCmd EXCEPT !.op = IF mode[c] = SMOOTH THEN "smooth" ELSE "jump",
                            !.c = c, !.new = new, !.cur = Out(c),
                            !.n = IF mode[c] = SMOOTH THEN 1 ELSE 5,
                            !.p = p]
  /\ UNCHANGED <<fpga, outs, clean, whole>>

(* The parameters are bus writes of their own.  The two words of a slope   *)
(* are one write here: only a running ramp reads them, and writing the     *)
(* lengths has already disturbed that one.                                 *)
ParamRegs == <<"llen", "clen", "dy", "dyp">>

WriteParam ==
  /\ cmd.op = "smooth" /\ cmd.n <= 4
  /\ par' = [par EXCEPT ![cmd.c][ParamRegs[cmd.n]] = cmd.p[ParamRegs[cmd.n]]]
  /\ clean' = [clean EXCEPT ![cmd.c] = @ /\ ramp[cmd.c].st = "IDLE"]
  /\ cmd' = [cmd EXCEPT !.n = @ + 1]
  /\ UNCHANGED <<left, mode, setpt, ramp, table, play, cal, outs, whole>>

(* Mutants: a setpoint written in another mode is not noted; a ramp starts *)
(* at zero.                                                                *)
NoticedForgets(c, sp) ==
  IF sp = ramp[c].prev \/ mode[c] # SMOOTH
  THEN [ramp[c] EXCEPT !.st = "IDLE"]
  ELSE [st |-> "START_CURVED", cnt |-> 0, total |-> 2 * par[c].clen + par[c].llen,
        last |-> dac[c] * Frac, prev |-> sp]

NoticedFromZero(c, sp) ==
  IF sp = ramp[c].prev \/ mode[c] # SMOOTH
  THEN [ramp[c] EXCEPT !.st = "IDLE", !.prev = sp]
  ELSE [st |-> "START_CURVED", cnt |-> 0, total |-> 2 * par[c].clen + par[c].llen,
        last |-> 0, prev |-> sp]

(* The idle ramp sees a new setpoint on the next clock: in smooth mode it  *)
(* starts at the DAC's present value, in another mode it only takes note.  *)
Noticed(c, sp) ==
  IF sp = ramp[c].prev \/ mode[c] # SMOOTH
  THEN [ramp[c] EXCEPT !.st = "IDLE", !.prev = sp]
  ELSE [st |-> "START_CURVED", cnt |-> 0, total |-> 2 * par[c].clen + par[c].llen,
        last |-> dac[c] * Frac, prev |-> sp]

(* The ramp about to start is the one the parameters were computed for, it *)
(* has points, and no slope was out of range.                              *)
Intended(k) ==
  /\ ramp[k.c].st = "IDLE" /\ mode[k.c] = SMOOTH
  /\ k.cur = dac[k.c] /\ par[k.c] = k.p
  /\ k.p.clen + k.p.llen > 0
  /\ Abs(Quot(k.new - k.cur, k.p.clen + k.p.llen)) <= DyMax

(* The last bus write: "write the new setpoint to kick it off".            *)
WriteSetpt ==
  LET c == cmd.c IN
  /\ cmd.op \in {"smooth", "jump"} /\ cmd.n = 5
  /\ setpt' = [setpt EXCEPT ![c] = Wrap20(cmd.new)]
  /\ ramp' = [ramp EXCEPT ![c] = IF @.st = "IDLE" THEN Noticed(c, setpt'[c]) ELSE @]
  /\ clean' = [clean EXCEPT ![c] =
                 IF setpt'[c] = setpt[c] THEN @ ELSE cmd.op = "smooth" /\ Intended(cmd)]
  /\ cmd' = NoCmd
  /\ UNCHANGED <<left, mode, par, table, play, cal, outs, whole>>

-----------------------------------------------------------------------------
(* write_ramptable(): too long a table is refused, else its length is      *)
(* written first, then its points one by one.                              *)
WriteRamptable(c, t) ==
  /\ Command /\ Len(t) <= MaxTable
  /\ table' = [table EXCEPT ![c].len = Len(t)]
  /\ whole' = [whole EXCEPT ![c] = FALSE]
  /\ cmd' = IF t = <<>> THEN NoCmd
            ELSE [NoCmd EXCEPT !.op = "table", !.c = c, !.n = 1, !.tab = t]
  /\ UNCHANGED <<mode, setpt, par, ramp, play, cal, outs, clean>>

RefuseRamptable(c, t) ==
  /\ Command /\ Len(t) > MaxTable
  /\ UNCHANGED <<cmd, fpga, outs, clean, whole>>

Stored(mem, n, x) == [i \in 1..(IF n > Len(mem) THEN n ELSE Len(mem)) |-> IF i = n THEN x ELSE mem[i]]

(* A point is limited to one bit more than the DAC's width, then cut to    *)
(* the 20 bits of the DPRAM.                                               *)
Saturated(x) ==
  LET m == IF HighRes THEN 2 * Half ELSE Half \div 2 IN
  IF x > m THEN m - 1 ELSE IF x < -m THEN -m ELSE x

WritePoint ==
  LET c == cmd.c IN
  /\ cmd.op = "table"
  /\ table' = [table EXCEPT ![c].mem = Stored(@, cmd.n, Wrap20(Saturated(cmd.tab[cmd.n])))]
  /\ whole' = [whole EXCEPT ![c] = FALSE]
  /\ cmd' = IF cmd.n = Len(cmd.tab) THEN NoCmd ELSE [cmd EXCEPT !.n = @ + 1]
  /\ UNCHANGED <<left, mode, setpt, par, ramp, play, cal, outs, clean>>

(* DAC_RAMPLEN_MSG.                                                        *)
SetRamplen(c, n) ==
  /\ Command
  /\ table' = [table EXCEPT ![c].len = n % AddrMod]
  /\ whole' = [whole EXCEPT ![c] = FALSE]
  /\ UNCHANGED <<cmd, mode, setpt, par, ramp, play, cal, outs, clean>>

(* DAC_RUNRAMP_MSG, whatever its value, and for channel 1 the injection    *)
(* trigger, at any time.                                                   *)
Started(c) ==
  IF play[c].st = "IDLE" /\ mode[c] = RAMP
  THEN [play[c] EXCEPT !.st = "RUN_RAMP", !.addr = 0] ELSE play[c]

RunRamp(c) ==
  /\ left > 0 /\ left' = left - 1
  /\ cmd = NoCmd \/ c = 1
  /\ play' = [play EXCEPT ![c] = Started(c)]
  /\ whole' = [whole EXCEPT ![c] =
                 IF play'[c] = play[c] THEN @
                 ELSE ~(cmd.op = "table" /\ cmd.c = c) /\ table[c].len <= Len(table[c].mem)]
  /\ UNCHANGED <<cmd, mode, setpt, par, ramp, table, cal, outs, clean>>

-----------------------------------------------------------------------------
(* The 10 kHz sample.                                                      *)

(* START_CURVED, LINEAR and END_CURVED with their calculation states.      *)
(* Mutant: the curves count from 1.                                        *)
SmoothStepFromOne(c) ==
  LET r == ramp[c]
      p == par[c]
      Add(step) == [r EXCEPT !.last = @ + step, !.cnt = @ + 1] IN
  CASE r.st = "IDLE" -> r
    [] r.st = "START_CURVED" -> IF r.cnt < p.clen THEN Add((r.cnt + 1) * DyPerPt(c))
                                ELSE [r EXCEPT !.st = "LINEAR"]
    [] r.st = "LINEAR"       -> IF r.cnt < p.clen + p.llen THEN Add(p.dy)
                                ELSE [r EXCEPT !.st = "END_CURVED"]
    [] OTHER                 -> IF r.cnt < r.total THEN Add((r.total - r.cnt + 1) * DyPerPt(c))
                                ELSE Noticed(c, setpt[c])

SmoothStep(c) ==
  LET r == ramp[c]
      p == par[c]
      Add(step) == [r EXCEPT !.last = @ + step, !.cnt = @ + 1] IN
  CASE r.st = "IDLE" -> r
    [] r.st = "START_CURVED" -> IF r.cnt < p.clen THEN Add(r.cnt * DyPerPt(c))
                                ELSE [r EXCEPT !.st = "LINEAR"]
    [] r.st = "LINEAR"       -> IF r.cnt < p.clen + p.llen THEN Add(p.dy)
                                ELSE [r EXCEPT !.st = "END_CURVED"]
    [] OTHER                 -> IF r.cnt < r.total THEN Add((r.total - r.cnt) * DyPerPt(c))
                                ELSE Noticed(c, setpt[c])

(* RUN_RAMP and UPDATE_DAC: the point read is the one addressed before the *)
(* address moves on; both wrap at 2^16.  Mutant: the last point is left    *)
(* out.                                                                    *)
PlayStepShort(c) ==
  LET p == play[c] IN
  IF p.st = "IDLE" THEN p
  ELSE IF (p.addr + 1) % AddrMod >= table[c].len THEN [p EXCEPT !.st = "IDLE"]
  ELSE [p EXCEPT !.addr = (@ + 1) % AddrMod,
                 !.out = IF p.addr < Len(table[c].mem) THEN table[c].mem[p.addr + 1] ELSE 0]

PlayStep(c) ==
  LET p == play[c] IN
  IF p.st = "IDLE" THEN p
  ELSE IF (p.addr + 1) % AddrMod > table[c].len THEN [p EXCEPT !.st = "IDLE"]
  ELSE [p EXCEPT !.addr = (@ + 1) % AddrMod,
                 !.out = IF p.addr < Len(table[c].mem) THEN table[c].mem[p.addr + 1] ELSE 0]

(* The multiplexer takes the outputs as they were before the sample.       *)
Sample ==
  \E fofb \in FofbInputs :
    /\ raw' = [c \in Chans |-> CASE mode[c] = SMOOTH -> RampOut(c)
                                 [] mode[c] = RAMP   -> play[c].out
                                 [] mode[c] = FOFB   -> fofb
                                 [] OTHER            -> setpt[c]]
    /\ dac' = [c \in Chans |-> GainOffset(cal[c], raw'[c])]
    /\ source' = mode
    /\ ramp' = [c \in Chans |-> SmoothStep(c)]
    /\ play' = [c \in Chans |-> PlayStep(c)]
    /\ clean' = [c \in Chans |-> clean[c] /\ ~(ramp[c].st = "END_CURVED"
                                               /\ ramp'[c].st = "START_CURVED")]
    /\ UNCHANGED <<left, cmd, mode, setpt, par, table, cal, whole>>

Next ==
  \/ \E c \in Chans :
       \/ \E m \in {SMOOTH, RAMP, FOFB, JUMP} : Set_dacOpmode(c, m)
       \/ \E a \in Amps : Set_dac(c, a)
       \/ \E t \in Tables : WriteRamptable(c, t) \/ RefuseRamptable(c, t)
       \/ \E n \in Lengths : SetRamplen(c, n)
       \/ RunRamp(c)
       \/ \E g \in Gains : SetGain(c, g)
       \/ \E o \in Offsets : SetOffset(c, o)
  \/ WriteParam \/ WriteSetpt \/ WritePoint \/ Sample

Spec == Init /\ [][Next]_vars

-----------------------------------------------------------------------------
(* Properties.                                                             *)

(* A smooth ramp lands on its setpoint, up to the rounding of its slopes   *)
(* to integers and, before it, to floats (a sixteenth of a bit for a ramp  *)
(* over the whole range): the points and slopes Calc_WriteLinearSmooth()   *)
(* computes from the output it read and the three sections the FPGA steps  *)
(* through agree, unless the output moved or another command came before   *)
(* the ramp was over.  (Where half of the slope is another channel's it    *)
(* need not.)                                                              *)
RampLands ==
  \A c \in Chans : OwnWords(c) /\ ramp[c].st = "IDLE" /\ clean[c] =>
    2 * Signif * Abs(ramp[c].last - setpt[c] * Frac)
      <= Signif * ramp[c].total * ramp[c].total + 4 * Half * Frac

(* How far an undisturbed ramp may move the output with one sample: at its *)
(* start by what gain and offset make of the output, since the value       *)
(* behind them is where the ramp begins; then by the slope of the linear   *)
(* section, a bit for the truncation and one for the rounding of slopes.   *)
Step(c) ==
  IF ramp[c].st = "START_CURVED" /\ ramp[c].cnt = 0
  THEN Abs(dac[c] - raw[c]) * Frac
  ELSE Abs(par[c].dy) + 2 * Frac

Smooth(c) == OwnWords(c) /\ clean[c] /\ mode[c] = SMOOTH /\ source[c] = SMOOTH

(* In smooth mode the output moves by no more per sample than the slope of *)
(* the linear section: no change of section and no end of a ramp makes a   *)
(* step, and its start only the one between the output in front of and     *)
(* behind gain and offset (dac_chan.vhd feeds the latter back).  A ramp to *)
(* the DAC's lowest value is exempt: it may land a fraction of a bit below *)
(* it, where resize() makes -1 of the output.                              *)
RampSmooth ==
  [][\A c \in Chans : Smooth(c) /\ setpt[c] > -Half =>
       Abs(raw'[c] - raw[c]) * Frac <= Step(c)]_vars

(* An undisturbed run of the table that ends, ends on the table's last     *)
(* point, not before it and not behind it.                                 *)
TableLands ==
  \A c \in Chans : whole[c] /\ play[c].st = "IDLE" /\ table[c].len > 0 =>
    play[c].out = table[c].mem[table[c].len]

=============================================================================
