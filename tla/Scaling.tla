------------------------------ MODULE Scaling -------------------------------
(***************************************************************************)
(* Engineering units and the hardware flavor.  The IOC sends limits,       *)
(* offsets and gains in amps, volts and seconds; chan_settings() converts  *)
(* them to register counts with the channel's scale factors and the        *)
(* resolution of the DAC, and sadata_send() converts the registers back.   *)
(* Resolution and the rest of the flavor come from an EEPROM that the      *)
(* console edits.                                                          *)
(*                                                                         *)
(* The network thread runs a message to its end; the console, which may    *)
(* enter any of the messages by hand, has a lower priority, so a message   *)
(* may fall between any two steps of its commands.                         *)
(* Registers are independent of each other: the module follows one         *)
(* setting of one channel, of a kind chosen at the start: a register, the  *)
(* FOFB scale factor with the operating mode, or the flavor bytes that     *)
(* are not the resolution.                                                 *)
(***************************************************************************)
EXTENDS Integers, FiniteSets

CONSTANTS
  Kinds,      \* the kinds of settings, subset of AllKinds
  Bytes,      \* the flavor bytes of the EEPROM followed
  Values,     \* what the IOC sends for a setting, in multiples of 1 / Unit
  Factors,    \* what the IOC sends for a scale factor, likewise
  Unit,
  Polarities, \* what the operator enters for the four channels
  Percents,   \* what the operator enters as percent curved
  Conv18, Conv20, Conv16,  \* CONVVOLTSTO18BITS, CONVVOLTSTO20BITS, CONVVOLTSTO16BITS
  GainOne,    \* GAIN20BITFRACT
  SampleRate, \* SAMPLERATE
  FullScale,  \* 32767, where 16 bit thresholds saturate
  Word,       \* 2^32, the width of a register on the bus
  GainRange,  \* 2^24, the width of a gain in the FPGA
  DacRange,   \* 2^20, the width of an over-current threshold and of an offset in DAC bits
  AdcRange,   \* 2^16, the width of an offset in ADC counts
  CntRange,   \* 2^16, the width of a count limit
  Ulps,       \* floats are off by at most a count / Ulps: at least 8 for up to 2^19 counts
  None        \* no value

AllKinds == {"gain", "offset", "offset16", "thresh", "thresh16", "cntlim", "fofb", "flavor"}

Address ==
  [numchans |-> 16, resolution |-> 17, bandwidth |-> 18, polarity |-> 19,
   dual |-> 20, dipole |-> 21, ramptype |-> 22, percent |-> 23]

ASSUME ScalingAssumption ==
  /\ Kinds \subseteq AllKinds
  /\ "resolution" \in Bytes /\ Bytes \subseteq DOMAIN Address
  /\ ("ramptype" \in Bytes) = ("percent" \in Bytes)
  /\ Values \subseteq Int /\ Factors \subseteq Int \ {0}
  /\ Polarities \subseteq 0..15 /\ Percents \subseteq Nat
  /\ {Unit, Conv18, Conv20, Conv16, GainOne, SampleRate, FullScale,
      Word, GainRange, DacRange, AdcRange, CntRange} \subseteq Nat \ {0}
  /\ \A r \in {GainRange, DacRange, AdcRange, CntRange, FullScale} : 2 * r <= Word
  /\ Ulps \in Nat /\ Ulps >= 2
  /\ None \notin Int

VARIABLES
  up,        \* the tasks run; FALSE from a reset until main() is done
  kind,      \* which kind of setting is followed
  reg,       \* its register
  sf,        \* the scale factor of its signal, a member of scalefactors[]
  fofb,      \* DAC_OPMODE_REG is FOFB
  scale,     \* FOFB_SCALEFACTOR_REG, as the two factors it is computed from
  flash,     \* the page of the channel
  eeprom,
  flavor,    \* the flavor registers and globals
  conv,      \* CONVVOLTSTODACBITS, whose inverse is CONVDACBITSTOVOLTS
  con,       \* where the console is
  took,      \* what the console has yet to write to a register
  asked,     \* history: what the register was last set from
  rescaled,  \* history: factors replaced behind FOFB_SCALEFACTOR_REG's back
  crossed,   \* history: ... by a message while the console had yet to write it
  dirty      \* history: EEPROM overwritten since the flavor was read

analog == <<reg, sf, asked>>
fast   == <<fofb, scale, rescaled>>
device == <<eeprom, flavor, conv, con, dirty>>
local  == <<took, crossed>>
vars   == <<up, kind, analog, fast, flash, device, local>>

NotAsked == [v |-> None, sf |-> None, res |-> None]
Nothing  == [reg |-> 0, asked |-> NotAsked, scale |-> <<0, 0>>]

(* The flavor bytes followed.                                              *)
Seen == IF kind = "flavor" THEN Bytes ELSE {"resolution"}

(* Where the console is in ReadHardwareFlavor().                           *)
FlavorSteps == {"flavor", "convert"}

(* ... in chan_settings(): about to write the register of a setting, the   *)
(* FOFB scale factor of a new factor or of the FOFB mode, and the mode.    *)
MessageSteps == {"write", "scale", "enter", "mode"}

Half == Word \div 2

(* Registers keep their width: gains are unsigned words, offsets signed    *)
(* ones; thresholds and count limits are what their register fields can    *)
(* hold, never negative.                                                   *)
TypeOK ==
  /\ {up, fofb, rescaled, crossed, dirty} \subseteq BOOLEAN
  /\ kind \in Kinds
  /\ reg \in Int \cup {None}
  /\ reg # None =>
       /\ kind = "gain" => reg \in 0..Word - 1
       /\ kind \in {"offset", "offset16"} => reg \in -Half..Half - 1
       /\ kind = "thresh" => reg \in 0..DacRange - 1
       /\ kind = "thresh16" => reg \in 0..FullScale
       /\ kind = "cntlim" => reg \in 0..CntRange - 1
  /\ sf \in Factors \cup {None, 0}
  /\ scale \in (Nat \X (Factors \cup {None, 0}))
  /\ eeprom \in [Seen -> 0..255] /\ flavor \in [Seen -> 0..255]
  /\ conv \in {0, Conv18, Conv20}
  /\ con \in FlavorSteps \cup MessageSteps \cup {"idle", "percent", "clear", "test"}
  /\ asked \in [v : Values \cup {None}, sf : Factors \cup {None, 0}, res : {None, 0, 1, 2}]
  /\ took \in [reg : Int \cup {None},
               asked : [v : Values \cup {None}, sf : Factors \cup {None, 0}, res : {None, 0, 1, 2}],
               scale : (Nat \X (Factors \cup {None, 0}))]

-----------------------------------------------------------------------------
(* From engineering units to counts.                                       *)

Abs(n) == IF n < 0 THEN -n ELSE n

(* The conversion to s32, which saturates.                                 *)
Word32(n) == IF n < -Half THEN -Half ELSE IF n >= Half THEN Half - 1 ELSE n

(* x / f, truncated toward zero; no count when f is the NaN of an erased   *)
(* flash word or 0.                                                        *)
Scaled(x, f) ==
  IF f \in {None, 0} THEN None
  ELSE IF (x < 0) = (f < 0) THEN Abs(x) \div Abs(f) ELSE -(Abs(x) \div Abs(f))

(* What may come of a / g, not negative, when the quotient is a float: it  *)
(* may have crossed an integer before it is truncated.                     *)
Quotients(a, g) ==
  LET q == a \div g IN
  {n \in {q - 1, q, q + 1} :
     /\ n >= 0
     /\ Ulps * (n * g) <= Ulps * a + g
     /\ Ulps * a < Ulps * (n * g) + Ulps * g + g}

(* Settings of the DCCTs and the DAC use scalefactors[].dac_dccts, those   *)
(* of the 16 bit signals the factor of the signal.                         *)
OnDac == kind \notin {"offset16", "thresh16"}
Volts == IF OnDac THEN conv ELSE Conv16

(* Gains are fixed point numbers, an exact product converted to u32, where *)
(* a negative one saturates at 0.  Mutant: to s32.                         *)
GainSigned(v) == Word32(Scaled(v * GainOne, Unit))

Gain(v) ==
  LET n == Scaled(v * GainOne, Unit) IN
  IF n < 0 THEN 0 ELSE IF n >= Word THEN Word - 1 ELSE n

(* Offsets are signed DAC bits or ADC counts.                              *)
Offsets(v) ==
  IF sf \in {None, 0} THEN {None}
  ELSE {Word32(IF (v < 0) = (sf < 0) THEN n ELSE -n) : n \in Quotients(Abs(v * Volts), Abs(sf))}

(* Thresholds are magnitudes; those of 16 bits saturate, the over-current  *)
(* thresholds are cut to the width of the register.                        *)
Cut(t) == IF kind = "thresh16" THEN (IF t >= FullScale THEN FullScale ELSE t)
                               ELSE Word32(t) % DacRange

Thresholds(v) ==
  IF sf \in {None, 0} THEN {None}
  ELSE {Cut(n) : n \in Quotients(Abs(v * Volts), Abs(sf))}

(* Seconds to samples, cut to the width of the register.                   *)
CountLimit(v) == Word32(Scaled(v * SampleRate, Unit)) % CntRange

(* What may be written to the register.                                    *)
Counts(v) ==
  CASE kind = "gain"                     -> {Gain(v)}
    [] kind \in {"offset", "offset16"}   -> Offsets(v)
    [] kind \in {"thresh", "thresh16"}   -> Thresholds(v)
    [] OTHER                             -> {CountLimit(v)}

(* A word of w values as a signed number.  Mutant: as an unsigned one.     *)
SignedAsUnsigned(n, w) == n % w

Signed(n, w) == LET m == n % w IN IF 2 * m >= w THEN m - w ELSE m

(* What the FPGA takes of a register.                                      *)
Working(n) ==
  CASE kind = "gain"     -> Signed(n, GainRange)
    [] kind = "offset"   -> Signed(n, DacRange)
    [] kind = "offset16" -> Signed(n, AdcRange)
    [] OTHER             -> n

(* What sadata_send() takes of it, and makes of n counts, as numerator and *)
(* denominator.                                                            *)
ReadOut(n) == IF kind = "gain" THEN Signed(n, Word) ELSE n

Reported(n, volts) ==
  CASE kind = "gain"     -> <<n * Unit, GainOne>>
    [] kind = "cntlim"   -> <<n * Unit, SampleRate>>
    [] kind = "offset"   -> <<n * sf, volts>>
    [] kind = "offset16" -> <<n * sf, Conv16>>
    [] kind = "thresh"   -> <<n * Abs(sf), volts>>
    [] OTHER             -> <<n * Abs(sf), Conv16>>

-----------------------------------------------------------------------------
(* The flavor.                                                             *)

(* The registers and globals ReadHardwareFlavor() sets for the bytes of e. *)
Decoded(e) ==
  [b \in Seen |->
     CASE b \in {"numchans", "resolution", "bandwidth"} -> IF e[b] \in {0, 1} THEN e[b] ELSE 2
       [] b = "polarity"           -> e[b] % 16
       [] b \in {"dual", "dipole"} -> IF e[b] = 0 THEN 1 ELSE 0
       [] b = "ramptype"           -> IF e[b] = 0 THEN 0 ELSE 1
       [] b = "percent"            -> IF e["ramptype"] # 0 THEN 0 ELSE e[b]]

(* CONVVOLTSTODACBITS: an invalid resolution leaves it as it was.          *)
Converter(e, old) ==
  CASE e["resolution"] = 0 -> Conv18
    [] e["resolution"] = 1 -> Conv20
    [] OTHER               -> old

(* What a test or a clear leaves in a byte.                                *)
Pattern(pc, b) == IF pc = "clear" THEN 255 ELSE 127 - Address[b]

-----------------------------------------------------------------------------
(* Out of the factory: nothing saved, the EEPROM blank.                    *)
Init ==
  /\ up = FALSE /\ kind \in Kinds
  /\ reg = 0 /\ sf = 0 /\ asked = NotAsked
  /\ fofb = FALSE /\ scale = <<0, 0>> /\ rescaled = FALSE
  /\ flash = [reg |-> None, sf |-> None, asked |-> NotAsked]
  /\ eeprom = [b \in Seen |-> 255] /\ flavor = [b \in Seen |-> 0] /\ conv = 0
  /\ con = "idle" /\ dirty = FALSE
  /\ took = Nothing /\ crossed = FALSE

(* A value as it is converted now.                                         *)
Asking(v) == [v |-> v, sf |-> sf,
              res |-> IF con \in FlavorSteps THEN None ELSE flavor["resolution"]]

(* A gain, offset, threshold or count limit message.                       *)
Set(v) ==
  /\ up /\ kind \notin {"fofb", "flavor"}
  /\ reg' \in Counts(v) /\ asked' = Asking(v)
  /\ UNCHANGED <<up, kind, sf, fast, flash, device, local>>

(* The factors change under a scale that the console has yet to write.     *)
Crossing == con \in {"scale", "enter"}

(* SF_DAC_DCCTS_MSG also updates the FOFB scale factor, SF_VOUT_MSG and    *)
(* its likes stand alone.  Mutant: the register is forgotten.              *)
SetFactorOnly(v) ==
  /\ up /\ kind # "flavor"
  /\ sf' = v
  /\ crossed' = (crossed \/ Crossing)
  /\ UNCHANGED <<up, kind, reg, asked, fast, flash, device, took>>

SetFactor(v) ==
  /\ up /\ kind # "flavor"
  /\ sf' = v /\ crossed' = (crossed \/ Crossing)
  /\ IF kind = "fofb" THEN scale' = <<conv, v>> /\ rescaled' = (con \in FlavorSteps)
                  ELSE UNCHANGED <<scale, rescaled>>
  /\ UNCHANGED <<up, kind, reg, asked, fofb, flash, device, took>>

(* Set_dacOpmode(): to FOFB, and to any other mode.                        *)
EnterFofb ==
  /\ up /\ kind = "fofb"
  /\ scale' = <<conv, sf>> /\ rescaled' = (con \in FlavorSteps)
  /\ fofb' = TRUE
  /\ UNCHANGED <<up, kind, analog, flash, device, local>>

LeaveFofb ==
  /\ up /\ fofb
  /\ fofb' = FALSE
  /\ UNCHANGED <<up, kind, analog, scale, rescaled, flash, device, local>>

(* WRITE_QSPI_MSG and READ_QSPI_MSG, whose steps are those of Settings:    *)
(* registers are saved as counts, next to the scale factors.               *)
Save ==
  /\ up
  /\ flash' = [reg |-> reg, sf |-> sf, asked |-> asked]
  /\ UNCHANGED <<up, kind, analog, fast, device, local>>

Restored ==
  /\ reg' = flash.reg /\ sf' = flash.sf /\ asked' = flash.asked
  /\ UNCHANGED <<flash, kind>>

Load ==
  /\ up /\ Restored
  /\ rescaled' = (kind = "fofb") /\ crossed' = (crossed \/ Crossing)
  /\ UNCHANGED <<up, fofb, scale, device, took>>

-----------------------------------------------------------------------------
(* The console.  receive_console_cmd() runs chan_settings() like the       *)
(* network thread, but messages come between its reads and writes.         *)

ConsoleCommand(pc, next) ==
  /\ up /\ con = pc /\ con' = next
  /\ UNCHANGED <<up, kind, flash, eeprom, flavor, conv, dirty>>

(* The value is converted with the factor it finds ...                     *)
ConsoleSet(v) ==
  /\ kind \notin {"fofb", "flavor"} /\ ConsoleCommand("idle", "write")
  /\ \E n \in Counts(v) : took' = [Nothing EXCEPT !.reg = n, !.asked = Asking(v)]
  /\ UNCHANGED <<analog, fast, crossed>>

(* ... and written.                                                        *)
ConsoleWrite ==
  /\ ConsoleCommand("write", "idle")
  /\ reg' = took.reg /\ asked' = took.asked /\ took' = Nothing
  /\ UNCHANGED <<sf, fast, crossed>>

(* SF_DAC_DCCTS_MSG stores the factor, Set_dacOpmode() reads it; each      *)
(* computes the FOFB scale factor from its own copy.                       *)
ConsoleFactor(v) ==
  /\ kind = "fofb" /\ ConsoleCommand("idle", "scale")
  /\ sf' = v
  /\ took' = [Nothing EXCEPT !.scale = <<conv, v>>] /\ crossed' = FALSE
  /\ UNCHANGED <<reg, asked, fast>>

ConsoleEnter ==
  /\ kind = "fofb" /\ ConsoleCommand("idle", "enter")
  /\ took' = [Nothing EXCEPT !.scale = <<conv, sf>>] /\ crossed' = FALSE
  /\ UNCHANGED <<analog, fast>>

(* The register is written, and the mode after it.                         *)
ConsoleScale ==
  /\ \/ ConsoleCommand("scale", "idle")
     \/ ConsoleCommand("enter", "mode")
  /\ scale' = took.scale /\ rescaled' = crossed /\ took' = Nothing
  /\ UNCHANGED <<analog, fofb, crossed>>

ConsoleMode ==
  /\ ConsoleCommand("mode", "idle")
  /\ fofb' = TRUE
  /\ UNCHANGED <<analog, scale, rescaled, local>>

(* The commands that edit the EEPROM.                                      *)
ConsoleStep(pc, next) ==
  /\ up /\ con = pc /\ con' = next
  /\ UNCHANGED <<up, kind, analog, fofb, scale, flash, local>>

(* set_numchans() and its likes: 0 or 1 is stored, anything else is not;   *)
(* the flavor is read again in any case.  Mutant: it is not.               *)
SetByteOnly(b) ==
  /\ b \notin {"polarity", "percent"}
  /\ \E v \in {0, 1} :
       /\ ConsoleStep("idle", IF b = "ramptype" /\ v = 0 THEN "percent" ELSE "idle")
       /\ eeprom' = [eeprom EXCEPT ![b] = v]
  /\ UNCHANGED <<flavor, conv, rescaled, dirty>>

SetByte(b) ==
  /\ b \notin {"polarity", "percent"}
  /\ \/ \E v \in {0, 1} :
          /\ ConsoleStep("idle", IF b = "ramptype" /\ v = 0 THEN "percent" ELSE "flavor")
          /\ eeprom' = [eeprom EXCEPT ![b] = v]
     \/ ConsoleStep("idle", "flavor") /\ UNCHANGED eeprom
  /\ UNCHANGED <<flavor, conv, rescaled, dirty>>

(* set_polarity() stores four bits, and does nothing when it is aborted.   *)
set_polarity ==
  /\ "polarity" \in Seen /\ ConsoleStep("idle", "flavor")
  /\ \E v \in Polarities : eeprom' = [eeprom EXCEPT !["polarity"] = v]
  /\ UNCHANGED <<flavor, conv, rescaled, dirty>>

(* set_smoothramptype() asks for the percentage, read into a byte, after   *)
(* it has stored the linear type.                                          *)
SetPercent ==
  /\ ConsoleStep("percent", "flavor")
  /\ \E p \in Percents :
       eeprom' = IF p % 256 \in 5..50 THEN [eeprom EXCEPT !["percent"] = p % 256] ELSE eeprom
  /\ UNCHANGED <<flavor, conv, rescaled, dirty>>

(* ReadHardwareFlavor(): the registers up to the resolution, then the      *)
(* conversion factors and the rest.                                        *)
Early == {"numchans", "resolution"}

FlavorRegisters ==
  /\ ConsoleStep("flavor", "convert")
  /\ flavor' = [b \in Seen |-> (IF b \in Early THEN Decoded(eeprom) ELSE flavor)[b]]
  /\ UNCHANGED <<eeprom, conv, rescaled, dirty>>

FlavorGlobals ==
  /\ ConsoleStep("convert", "idle")
  /\ flavor' = [b \in Seen |-> (IF b \in Early THEN flavor ELSE Decoded(eeprom))[b]]
  /\ conv' = Converter(eeprom, conv)
  /\ rescaled' = (rescaled \/ (kind = "fofb" /\ conv' # conv))
  /\ dirty' = FALSE
  /\ UNCHANGED eeprom

(* clear_eeprom() upwards and test_eeprom() downwards, a byte at a time;   *)
(* the flavor is not read again.                                           *)
StartOverwrite(pc) ==
  /\ ConsoleStep("idle", pc)
  /\ UNCHANGED <<eeprom, flavor, conv, rescaled, dirty>>

Overwrite(pc) ==
  LET left == {b \in Seen : eeprom[b] # Pattern(pc, b)}
      next == {b \in left : \A d \in left : IF pc = "clear" THEN Address[b] <= Address[d]
                                           ELSE Address[b] >= Address[d]} IN
  /\ ConsoleStep(pc, IF Cardinality(left) <= 1 THEN "idle" ELSE pc)
  /\ eeprom' = [b \in Seen |-> IF b \in next THEN Pattern(pc, b) ELSE eeprom[b]]
  /\ dirty' = TRUE
  /\ UNCHANGED <<flavor, conv, rescaled>>

-----------------------------------------------------------------------------
(* Power is lost, or the processor is reset, at any step.                  *)
Reset ==
  /\ up' = FALSE /\ con' = "idle"
  /\ reg' = 0 /\ sf' = 0 /\ asked' = NotAsked
  /\ fofb' = FALSE /\ scale' = <<0, 0>> /\ rescaled' = FALSE
  /\ flavor' = [b \in Seen |-> 0] /\ conv' = 0
  /\ took' = Nothing /\ crossed' = FALSE
  /\ UNCHANGED <<kind, flash, eeprom, dirty>>

(* main() reads the flavor and realmain() the flash before any task runs.  *)
Boot ==
  /\ ~up /\ up' = TRUE
  /\ flavor' = Decoded(eeprom) /\ conv' = Converter(eeprom, conv)
  /\ Restored
  /\ dirty' = FALSE
  /\ UNCHANGED <<fast, eeprom, con, local>>

Next ==
  \/ \E v \in Values : Set(v)
  \/ \E v \in Factors : SetFactor(v)
  \/ EnterFofb \/ LeaveFofb \/ Save \/ Load
  \/ \E v \in Values : ConsoleSet(v)
  \/ \E v \in Factors : ConsoleFactor(v)
  \/ ConsoleWrite \/ ConsoleEnter \/ ConsoleScale \/ ConsoleMode
  \/ \E b \in Seen : SetByte(b)
  \/ set_polarity \/ SetPercent \/ FlavorRegisters \/ FlavorGlobals
  \/ \E pc \in {"clear", "test"} : StartOverwrite(pc) \/ Overwrite(pc)
  \/ Reset \/ Boot

Spec == Init /\ [][Next]_vars

-----------------------------------------------------------------------------
(* Properties.                                                             *)

(* Between commands the flavor in force is the one of the EEPROM, the      *)
(* conversion factor included, however the command ended and whenever the  *)
(* last reset came; only a clear or a test pattern waits for the next      *)
(* boot.                                                                   *)
FlavorFresh ==
  up /\ con = "idle" /\ ~dirty =>
    /\ flavor = Decoded(eeprom)
    /\ flavor["resolution"] = 0 => conv = Conv18
    /\ flavor["resolution"] = 1 => conv = Conv20

(* The value fits the register it is meant for and what the FPGA takes of  *)
(* it, with a count to spare.                                              *)
Counted ==
  CASE kind = "gain"     -> GainRange \div 2
    [] kind = "offset"   -> DacRange \div 2
    [] kind = "offset16" -> AdcRange \div 2
    [] kind = "thresh"   -> DacRange
    [] kind = "thresh16" -> FullScale
    [] OTHER             -> CntRange

Fits(v, volts) ==
  /\ kind \in {"gain", "cntlim"} => v >= 0
  /\ Abs(v) * Reported(1, volts)[2] + Abs(Reported(1, volts)[1])
       <= Counted * Abs(Reported(1, volts)[1])

(* What the IOC sets is what the hardware works with and what it reads     *)
(* back: the count the FPGA takes of the register is the one sadata_send() *)
(* converts, at the resolution the same message reports, and differs from  *)
(* the value asked for by less than one count and the rounding of a float, *)
(* also after it was saved and loaded, whichever task set it, for every    *)
(* value that fits, unless the resolution or the scale factor changed      *)
(* since or the value came in the middle of a flavor change.  Nothing is   *)
(* said of a value that does not fit: the high bits of a gain, an offset   *)
(* or a count limit are cut off, and a negative gain, which the FPGA could *)
(* work with, becomes 0 in the conversion to u32.                          *)
ReadBack ==
  LET volts == IF flavor["resolution"] = 0 THEN Conv18 ELSE Conv20
      want  == IF kind \in {"thresh", "thresh16"} THEN Abs(asked.v) ELSE asked.v
      told  == Reported(ReadOut(reg), volts) IN
  /\ up /\ con \notin FlavorSteps
  /\ asked.res \in {0, 1} /\ asked.res = flavor["resolution"]
  /\ asked.sf = sf /\ asked.sf \notin {None, 0}
  /\ Fits(asked.v, volts)
  => /\ Working(reg) = ReadOut(reg)
     /\ Ulps * Abs(told[1] - want * told[2]) < (Ulps + 1) * Abs(Reported(1, volts)[1])

(* In FOFB mode the scale factor register is that of the scale factor and  *)
(* the resolution in force, unless these came from flash or from the       *)
(* EEPROM since, which leave the register alone.  A factor entered at the  *)
(* console is in force before the register is written; when a message      *)
(* replaces the factor before the console has written the register, the    *)
(* register stays the older factor's.                                      *)
FofbScaleCurrent ==
  fofb /\ ~rescaled /\ con # "scale" => scale = <<conv, sf>>

=============================================================================
