---------------------------- MODULE ScalingProofs ----------------------------
(***************************************************************************)
(* For every set of flavor bytes, values, factors and register widths: the *)
(* flavor in force between console commands is the EEPROM's, the FOFB      *)
(* scale factor register follows the scale factor and the resolution,      *)
(* registers keep their width, and what the IOC sets it reads back.        *)
(***************************************************************************)
EXTENDS Scaling, TLAPS

(* The kind of setting followed, and with it the bytes seen, never change. *)
LEMMA SameKind == [Next]_vars => kind' = kind /\ Seen' = Seen
  <1>1. [Next]_vars => kind' = kind
    BY DEF Next, vars, Set, SetFactor, EnterFofb, LeaveFofb, Save, Load, Restored, SetByte,
           set_polarity, SetPercent, FlavorRegisters, FlavorGlobals, StartOverwrite, Overwrite,
           ConsoleStep, Reset, Boot, ConsoleSet, ConsoleWrite, ConsoleFactor, ConsoleEnter,
           ConsoleScale, ConsoleMode, ConsoleCommand
  <1> QED BY <1>1 DEF Seen

-----------------------------------------------------------------------------
(* The FOFB scale factor.                                                  *)

(* What the console has yet to write is current unless a message came in   *)
(* between.                                                                *)
FofbInv ==
  /\ fofb \in BOOLEAN /\ rescaled \in BOOLEAN /\ crossed \in BOOLEAN
  /\ fofb \/ con \in {"scale", "enter", "mode"} => kind = "fofb" /\ up
  /\ Crossing /\ ~crossed => took.scale = <<conv, sf>>
  /\ con = "mode" /\ ~rescaled => scale = <<conv, sf>>
  /\ FofbScaleCurrent

(* FOFB_SCALEFACTOR_REG is written whenever the mode becomes FOFB or the   *)
(* factor is set, by either task, and whatever else replaces a factor, a   *)
(* message between two steps of the console included, is accounted for.    *)
THEOREM FofbScale == Spec => []FofbScaleCurrent
  <1>1. Init => FofbInv
    BY DEF Init, FofbInv, FofbScaleCurrent, Crossing
  <1>2. FofbInv /\ [Next]_vars => FofbInv'
    <2> SUFFICES ASSUME FofbInv, [Next]_vars
                 PROVE  FofbInv'
      OBVIOUS
    <2> USE DEF FofbInv, FofbScaleCurrent, Crossing
    <2>1. ASSUME NEW v \in Values, Set(v)
          PROVE  FofbInv'
      BY <2>1 DEF Set, fast, device, local
    <2>2. ASSUME NEW v \in Factors, SetFactor(v)
          PROVE  FofbInv'
      <3>0. /\ crossed' = (crossed \/ Crossing) /\ UNCHANGED <<up, kind, fofb, conv, con, took>>
            /\ sf' = v
        BY <2>2 DEF SetFactor, device
      <3>3. crossed' \in BOOLEAN /\ (Crossing => crossed' = TRUE)
        BY <3>0, Zenon
      <3>1. CASE kind = "fofb"
        <4>1. scale' = <<conv, v>> /\ rescaled' = (con \in FlavorSteps)
          BY <2>2, <3>1 DEF SetFactor
        <4>2. rescaled' \in BOOLEAN
          BY <4>1
        <4> QED BY <3>0, <3>3, <4>1, <4>2
      <3>2. CASE kind # "fofb"
        <4>1. fofb = FALSE /\ UNCHANGED rescaled
          BY <2>2, <3>2 DEF SetFactor
        <4> QED BY <3>0, <3>3, <3>2, <4>1
      <3> QED BY <3>1, <3>2
    <2>3. CASE EnterFofb
      BY <2>3 DEF EnterFofb, analog, device, local
    <2>4. CASE LeaveFofb
      BY <2>4 DEF LeaveFofb, analog, device, local
    <2>5. CASE Save
      BY <2>5 DEF Save, analog, fast, device, local
    <2>6. CASE Load
      <3>1. /\ rescaled' = (kind = "fofb") /\ crossed' = (crossed \/ Crossing)
            /\ UNCHANGED <<up, kind, fofb, conv, con, took>>
        BY <2>6 DEF Load, Restored, device
      <3>2. /\ rescaled' \in BOOLEAN /\ crossed' \in BOOLEAN /\ (Crossing => crossed' = TRUE)
            /\ (kind = "fofb" => rescaled' = TRUE)
        BY <3>1, Zenon
      <3> QED BY <3>1, <3>2
    <2>7. ASSUME NEW b \in Seen, SetByte(b)
          PROVE  FofbInv'
      BY <2>7 DEF SetByte, ConsoleStep, analog, local
    <2>8. CASE set_polarity \/ SetPercent \/ FlavorRegisters
      BY <2>8 DEF set_polarity, SetPercent, FlavorRegisters, ConsoleStep, analog, local
    <2>9. CASE FlavorGlobals
      BY <2>9 DEF FlavorGlobals, ConsoleStep, analog, local
    <2>10. ASSUME NEW p \in {"clear", "test"}, StartOverwrite(p) \/ Overwrite(p)
           PROVE  FofbInv'
      BY <2>10 DEF StartOverwrite, Overwrite, ConsoleStep, analog, local
    <2>11. CASE Reset
      BY <2>11 DEF Reset
    <2>13. CASE Boot
      <3>1. ~up /\ fofb = FALSE /\ UNCHANGED <<fofb, rescaled, crossed, con>>
        BY <2>13 DEF Boot, fast, local
      <3> QED BY <3>1
    <2>14. ASSUME NEW v \in Values, ConsoleSet(v)
           PROVE  FofbInv'
      BY <2>14 DEF ConsoleSet, ConsoleCommand, analog, fast
    <2>15. CASE ConsoleWrite
      BY <2>15 DEF ConsoleWrite, ConsoleCommand, fast
    <2>16. ASSUME NEW v \in Factors, ConsoleFactor(v)
           PROVE  FofbInv'
      BY <2>16 DEF ConsoleFactor, ConsoleCommand, fast, Nothing
    <2>17. CASE ConsoleEnter
      BY <2>17 DEF ConsoleEnter, ConsoleCommand, analog, fast, Nothing
    <2>18. CASE ConsoleScale
      BY <2>18 DEF ConsoleScale, ConsoleCommand, analog
    <2>19. CASE ConsoleMode
      BY <2>19 DEF ConsoleMode, ConsoleCommand, analog, local
    <2>12. CASE UNCHANGED vars
      BY <2>12 DEF vars, analog, fast, device, local
    <2> QED BY <2>1, <2>2, <2>3, <2>4, <2>5, <2>6, <2>7, <2>8, <2>9, <2>10, <2>11, <2>12, <2>13,
               <2>14, <2>15, <2>16, <2>17, <2>18, <2>19 DEF Next
  <1>3. FofbInv => FofbScaleCurrent
    BY DEF FofbInv
  <1> QED BY <1>1, <1>2, <1>3, PTL DEF Spec

-----------------------------------------------------------------------------
(* The flavor.                                                             *)

(* The flavor in force is that of the EEPROM.                              *)
Fresh ==
  /\ flavor = Decoded(eeprom)
  /\ flavor["resolution"] = 0 => conv = Conv18
  /\ flavor["resolution"] = 1 => conv = Conv20

(* Half-way through ReadHardwareFlavor() the registers up to the           *)
(* resolution are; clear and test leave a mark with the first byte; the    *)
(* messages entered at the console leave the flavor alone.                 *)
FlavorInv ==
  /\ up \in BOOLEAN /\ dirty \in BOOLEAN
  /\ ~up => con = "idle"
  /\ up /\ con \in MessageSteps \cup {"idle", "clear", "test"} /\ ~dirty => Fresh
  /\ con = "convert" => \A b \in Seen \cap Early : flavor[b] = Decoded(eeprom)[b]

(* The resolution is always among the bytes followed.                      *)
LEMMA ResolutionSeen == "resolution" \in Seen
  BY ScalingAssumption DEF Seen

(* The conversion factor goes with the resolution decoded.                 *)
LEMMA ConverterFits ==
  ASSUME NEW e, NEW old
  PROVE  /\ Decoded(e)["resolution"] = 0 => Converter(e, old) = Conv18
         /\ Decoded(e)["resolution"] = 1 => Converter(e, old) = Conv20
  <1>1. Decoded(e)["resolution"] = IF e["resolution"] \in {0, 1} THEN e["resolution"] ELSE 2
    BY ResolutionSeen DEF Decoded
  <1> QED BY <1>1 DEF Converter

(* Functions that agree on their domain are equal.                         *)
LEMMA SameFunction ==
  ASSUME NEW S, NEW f, NEW g, f = [x \in S |-> f[x]], g = [x \in S |-> g[x]],
         \A x \in S : f[x] = g[x]
  PROVE  f = g
  OBVIOUS

(* Decoded() is a function on the bytes seen.                              *)
LEMMA DecodedIsFunction ==
  ASSUME NEW e
  PROVE  Decoded(e) = [b \in Seen |-> Decoded(e)[b]]
  <1> DEFINE body(b) ==
        CASE b \in {"numchans", "resolution", "bandwidth"} -> IF e[b] \in {0, 1} THEN e[b] ELSE 2
          [] b = "polarity"           -> e[b] % 16
          [] b \in {"dual", "dipole"} -> IF e[b] = 0 THEN 1 ELSE 0
          [] b = "ramptype"           -> IF e[b] = 0 THEN 0 ELSE 1
          [] b = "percent"            -> IF e["ramptype"] # 0 THEN 0 ELSE e[b]
  <1>1. Decoded(e) = [b \in Seen |-> body(b)]
    BY DEF Decoded
  <1> HIDE DEF body
  <1> QED BY <1>1

(* A step that leaves flavor, EEPROM and console alone.                    *)
LEMMA FlavorFrame ==
  ASSUME FlavorInv, UNCHANGED <<up, kind, eeprom, flavor, conv, con, dirty>>
  PROVE  FlavorInv'
  <1>1. Decoded(eeprom)' = Decoded(eeprom) /\ Seen' = Seen
    BY DEF Decoded, Seen
  <1>2. Fresh' <=> Fresh
    BY <1>1 DEF Fresh
  <1> QED BY <1>1, <1>2 DEF FlavorInv

(* Every step keeps FlavorInv.                                             *)
LEMMA FlavorNext == FlavorInv /\ [Next]_vars => FlavorInv'
  <1> SUFFICES ASSUME FlavorInv, [Next]_vars
               PROVE  FlavorInv'
    OBVIOUS
  <1>0. Seen' = Seen
    BY SameKind
  <1>1. CASE \/ \E v \in Values : Set(v)
             \/ \E v \in Factors : SetFactor(v)
             \/ EnterFofb \/ LeaveFofb \/ Save \/ Load
    <2>1. UNCHANGED <<up, kind, eeprom, flavor, conv, con, dirty>>
      BY <1>1 DEF Set, SetFactor, EnterFofb, LeaveFofb, Save, Load, Restored, device
    <2> QED BY <2>1, FlavorFrame
  <1>2. ASSUME NEW b \in Seen, SetByte(b)
        PROVE  FlavorInv'
    <2>1. up /\ up' = up /\ con' \in {"flavor", "percent"} /\ dirty' = dirty
      BY <1>2 DEF SetByte, ConsoleStep
    <2> QED BY <2>1 DEF FlavorInv, MessageSteps
  <1>3. CASE set_polarity \/ SetPercent
    <2>1. up /\ up' = up /\ con' = "flavor" /\ dirty' = dirty
      BY <1>3 DEF set_polarity, SetPercent, ConsoleStep
    <2> QED BY <2>1 DEF FlavorInv, MessageSteps
  <1>4. CASE FlavorRegisters
    <2>1. /\ up /\ up' = up /\ con' = "convert" /\ dirty' = dirty /\ eeprom' = eeprom
          /\ flavor' = [b \in Seen |-> (IF b \in Early THEN Decoded(eeprom) ELSE flavor)[b]]
      BY <1>4 DEF FlavorRegisters, ConsoleStep
    <2>2. Decoded(eeprom)' = Decoded(eeprom)
      BY <1>0, <2>1 DEF Decoded
    <2>3. \A b \in Seen \cap Early : flavor'[b] = Decoded(eeprom)[b]
      BY <2>1
    <2> QED BY <1>0, <2>1, <2>2, <2>3 DEF FlavorInv, MessageSteps
  <1>5. CASE FlavorGlobals
    <2>1. /\ up /\ up' = up /\ con = "convert" /\ con' = "idle" /\ dirty' = FALSE
          /\ eeprom' = eeprom /\ conv' = Converter(eeprom, conv)
          /\ flavor' = [b \in Seen |-> (IF b \in Early THEN flavor ELSE Decoded(eeprom))[b]]
      BY <1>5 DEF FlavorGlobals, ConsoleStep
    <2>2. Decoded(eeprom)' = Decoded(eeprom)
      BY <1>0, <2>1 DEF Decoded
    <2>3. \A b \in Seen : flavor'[b] = Decoded(eeprom)[b]
      BY <2>1 DEF FlavorInv
    <2>4. flavor' = Decoded(eeprom)
      BY <2>1, <2>3, DecodedIsFunction, SameFunction
    <2>5. Fresh'
      BY <2>1, <2>2, <2>4, ConverterFits DEF Fresh
    <2> QED BY <2>1, <2>5 DEF FlavorInv, MessageSteps
  <1>6. ASSUME NEW p \in {"clear", "test"}, StartOverwrite(p)
        PROVE  FlavorInv'
    <2>1. /\ up /\ con = "idle" /\ con' = p
          /\ UNCHANGED <<up, kind, eeprom, flavor, conv, dirty>>
      BY <1>6 DEF StartOverwrite, ConsoleStep
    <2>2. Fresh => Fresh'
      BY <1>0, <2>1 DEF Fresh, Decoded
    <2> QED BY <1>6, <2>1, <2>2 DEF FlavorInv, MessageSteps
  <1>7. ASSUME NEW p \in {"clear", "test"}, Overwrite(p)
        PROVE  FlavorInv'
    <2>1. up /\ up' = up /\ con' \in {"idle", p} /\ dirty' = TRUE
      BY <1>7 DEF Overwrite, ConsoleStep
    <2> QED BY <2>1 DEF FlavorInv, MessageSteps
  <1>8. CASE Reset
    BY <1>8 DEF Reset, FlavorInv
  <1>9. CASE Boot
    <2>1. /\ ~up /\ up' = TRUE /\ dirty' = FALSE /\ con' = con /\ eeprom' = eeprom
          /\ flavor' = Decoded(eeprom) /\ conv' = Converter(eeprom, conv)
      BY <1>9 DEF Boot
    <2>2. Decoded(eeprom)' = Decoded(eeprom)
      BY <1>0, <2>1 DEF Decoded
    <2>3. Fresh'
      BY <2>1, <2>2, ConverterFits DEF Fresh
    <2> QED BY <2>1, <2>3 DEF FlavorInv, MessageSteps
  <1>11. CASE \/ \E v \in Values : ConsoleSet(v)
              \/ \E v \in Factors : ConsoleFactor(v)
              \/ ConsoleWrite \/ ConsoleEnter \/ ConsoleScale \/ ConsoleMode
    <2>1. /\ up /\ UNCHANGED <<up, kind, eeprom, flavor, conv, dirty>>
          /\ con \in MessageSteps \cup {"idle"} /\ con' \in MessageSteps \cup {"idle"}
      BY <1>11 DEF ConsoleSet, ConsoleWrite, ConsoleFactor, ConsoleEnter, ConsoleScale, ConsoleMode, ConsoleCommand, MessageSteps
    <2>2. Fresh => Fresh'
      BY <1>0, <2>1 DEF Fresh, Decoded
    <2> QED BY <2>1, <2>2 DEF FlavorInv, MessageSteps
  <1>10. CASE UNCHANGED vars
    BY <1>10, FlavorFrame DEF vars, device
  <1> QED BY <1>1, <1>2, <1>3, <1>4, <1>5, <1>6, <1>7, <1>8, <1>9, <1>10, <1>11 DEF Next

(* However a console command ends and whenever a reset comes, the flavor   *)
(* registers, the globals and the conversion factors are those of the      *)
(* EEPROM before the next command.                                         *)
THEOREM FlavorIsFresh == Spec => []FlavorFresh
  <1>1. Init => FlavorInv
    BY DEF Init, FlavorInv
  <1>2. FlavorInv => FlavorFresh
    BY DEF FlavorInv, FlavorFresh, Fresh
  <1> QED BY <1>1, <1>2, FlavorNext, PTL DEF Spec

-----------------------------------------------------------------------------
(* Types.                                                                  *)

FactorSet == Factors \cup {None, 0}
AskedSet  == [v : Values \cup {None}, sf : FactorSet, res : {None, 0, 1, 2}]

(* What a register of the kind followed holds.                             *)
RegType(r) ==
  /\ r \in Int \cup {None}
  /\ r # None =>
       /\ kind = "gain" => r \in 0..Word - 1
       /\ kind \in {"offset", "offset16"} => r \in -Half..Half - 1
       /\ kind = "thresh" => r \in 0..DacRange - 1
       /\ kind = "thresh16" => r \in 0..FullScale
       /\ kind = "cntlim" => r \in 0..CntRange - 1

(* TypeOK in four parts, with the page in flash, whose registers come     *)
(* back, and the values the resolution is decoded to.                      *)
AnalogType ==
  /\ kind \in Kinds
  /\ RegType(reg) /\ sf \in FactorSet /\ asked \in AskedSet
  /\ RegType(flash.reg) /\ flash.sf \in FactorSet /\ flash.asked \in AskedSet

FastType == fofb \in BOOLEAN /\ rescaled \in BOOLEAN /\ scale \in (Nat \X FactorSet)

DeviceType ==
  /\ up \in BOOLEAN /\ dirty \in BOOLEAN
  /\ eeprom \in [Seen -> 0..255] /\ flavor \in [Seen -> 0..255]
  /\ flavor["resolution"] \in {0, 1, 2}
  /\ conv \in {0, Conv18, Conv20}
  /\ con \in FlavorSteps \cup MessageSteps \cup {"idle", "percent", "clear", "test"}

LocalType ==
  /\ crossed \in BOOLEAN
  /\ took \in [reg : Int \cup {None}, asked : AskedSet, scale : (Nat \X FactorSet)]
  /\ RegType(took.reg)

TypeInv == AnalogType /\ FastType /\ DeviceType /\ LocalType

(* The constants are numbers.                                              *)
LEMMA Widths ==
  /\ Conv18 \in Nat /\ Conv18 > 0 /\ Conv20 \in Nat /\ Conv20 > 0 /\ Conv16 \in Nat /\ Conv16 > 0
  /\ GainOne \in Nat /\ GainOne > 0 /\ SampleRate \in Nat /\ SampleRate > 0
  /\ FullScale \in Nat /\ FullScale > 0 /\ DacRange \in Nat /\ DacRange > 0
  /\ CntRange \in Nat /\ CntRange > 0 /\ AdcRange \in Nat /\ AdcRange > 0
  /\ GainRange \in Nat /\ GainRange > 0 /\ Unit \in Nat /\ Unit > 0 /\ Word \in Nat /\ Word > 0
  /\ None \notin Int
  /\ 2 * GainRange <= Word /\ 2 * DacRange <= Word /\ 2 * AdcRange <= Word
  /\ 2 * CntRange <= Word /\ 2 * FullScale <= Word
  /\ Ulps \in Nat /\ Ulps >= 2
BY ScalingAssumption

(* Half a word.                                                            *)
LEMMA HalfIs ==
  /\ Half \in Nat /\ Half > 0 /\ 2 * Half <= Word
  /\ GainRange <= Half /\ DacRange <= Half /\ AdcRange <= Half /\ CntRange <= Half
  /\ FullScale <= Half
BY Widths DEF Half

(* The conversion to s32.                                                  *)
LEMMA Word32Is ==
  ASSUME NEW n \in Int
  PROVE  Word32(n) \in -Half..Half - 1 /\ (-Half <= n /\ n < Half => Word32(n) = n)
BY HalfIs DEF Word32

(* A value divided by a scale factor.                                      *)
LEMMA ScaledType ==
  ASSUME NEW x \in Int, NEW f \in Int, f # 0
  PROVE  /\ Scaled(x, f) \in Int
         /\ x >= 0 /\ f > 0 => Scaled(x, f) = x \div f /\ x \div f \in Nat
<1>1. f \notin {None, 0}
  BY Widths
<1>2. Abs(x) \in Nat /\ Abs(f) \in Nat /\ Abs(f) > 0
  BY DEF Abs
<1>3. PICK q \in Nat : q = Abs(x) \div Abs(f)
  BY <1>2
<1>4. Scaled(x, f) = IF (x < 0) = (f < 0) THEN q ELSE -q
  BY <1>1, <1>3 DEF Scaled
<1>5. ASSUME x >= 0, f > 0 PROVE Scaled(x, f) = x \div f /\ x \div f \in Nat
  <2>1. Abs(x) = x /\ Abs(f) = f
    BY <1>5 DEF Abs
  <2>2. (x < 0) = (f < 0)
    BY <1>5
  <2>3. QED BY <1>3, <1>4, <2>1, <2>2
<1>6. QED BY <1>4, <1>5

(* The factors are numbers, but for the NaN of an erased flash word.       *)
LEMMA FactorInt ==
  ASSUME NEW f \in FactorSet, f \notin {None, 0}
  PROVE  f \in Int /\ f # 0 /\ Abs(f) \in Nat /\ Abs(f) > 0
<1>1. f \in Int /\ f # 0
  BY ScalingAssumption DEF FactorSet
<1>2. QED BY <1>1 DEF Abs

(* What a division of floats may give.                                     *)
LEMMA QuotientsIs ==
  ASSUME NEW a \in Nat, NEW g \in Nat, g > 0, NEW n \in Quotients(a, g)
  PROVE  /\ n \in Nat /\ Ulps * (n * g) <= Ulps * a + g
         /\ Ulps * a < Ulps * (n * g) + Ulps * g + g
<1>1. PICK q \in Int : q = a \div g
  OBVIOUS
<1>2. n \in {q - 1, q, q + 1} /\ n >= 0 /\ Ulps * (n * g) <= Ulps * a + g
      /\ Ulps * a < Ulps * (n * g) + Ulps * g + g
  BY <1>1 DEF Quotients
<1>3. QED BY <1>2

(* What a message writes to a register.                                    *)
LEMMA CountsType ==
  ASSUME AnalogType, DeviceType, kind \notin {"fofb", "flavor"}, NEW v \in Values,
         NEW r \in Counts(v)
  PROVE  RegType(r)
<1>1. v \in Int /\ kind \in AllKinds /\ sf \in FactorSet /\ conv \in Nat
  BY ScalingAssumption, Widths DEF AnalogType, DeviceType
<1>2. PICK w \in Nat : w = Volts
  BY <1>1, Widths DEF Volts
<1>3. PICK x \in Nat : x = Abs(v * w)
  BY <1>1 DEF Abs
<1>4. CASE kind = "gain"
  <2>1. PICK p \in Int : p = v * GainOne
    BY <1>1, Widths
  <2>2. PICK n \in Int : n = Scaled(p, Unit)
    BY ScaledType, Widths
  <2>3. r = IF n < 0 THEN 0 ELSE IF n >= Word THEN Word - 1 ELSE n
    BY <1>4, <2>1, <2>2 DEF Counts, Gain
  <2>4. QED BY <1>4, <2>3, Widths DEF RegType
<1>5. CASE kind \in {"offset", "offset16"}
  <2>1. CASE sf \in {None, 0}
    BY <1>5, <2>1 DEF Counts, Offsets, RegType
  <2>2. CASE sf \notin {None, 0}
    <3>1. PICK g \in Nat : g = Abs(sf) /\ g > 0 /\ sf \in Int
      BY <1>1, <2>2, FactorInt
    <3>2. PICK n \in Quotients(x, g) : r = Word32(IF (v < 0) = (sf < 0) THEN n ELSE -n)
      BY <1>2, <1>3, <1>5, <2>2, <3>1 DEF Counts, Offsets
    <3>3. n \in Nat
      BY <3>1, QuotientsIs
    <3>4. PICK m \in Int : m = IF (v < 0) = (sf < 0) THEN n ELSE -n
      BY <3>3
    <3>5. r \in -Half..Half - 1
      BY <3>2, <3>4, Word32Is
    <3>6. QED BY <1>5, <3>5, HalfIs DEF RegType
  <2>3. QED BY <2>1, <2>2
<1>6. CASE kind \in {"thresh", "thresh16"}
  <2>1. CASE sf \in {None, 0}
    BY <1>6, <2>1 DEF Counts, Thresholds, RegType
  <2>2. CASE sf \notin {None, 0}
    <3>1. PICK g \in Nat : g = Abs(sf) /\ g > 0
      BY <1>1, <2>2, FactorInt
    <3>2. PICK n \in Quotients(x, g) : r = Cut(n)
      BY <1>2, <1>3, <1>6, <2>2, <3>1 DEF Counts, Thresholds
    <3>3. n \in Nat
      BY <3>1, QuotientsIs
    <3>4. PICK m \in Int : m = Word32(n)
      BY <3>3, Word32Is, HalfIs
    <3>5. m % DacRange \in 0..DacRange - 1
      BY Widths
    <3>6. r = IF kind = "thresh16" THEN (IF n >= FullScale THEN FullScale ELSE n) ELSE m % DacRange
      BY <3>2, <3>4 DEF Cut
    <3>7. QED BY <1>6, <3>3, <3>5, <3>6, Widths DEF RegType
  <2>3. QED BY <2>1, <2>2
<1>7. CASE kind = "cntlim"
  <2>1. PICK p \in Int : p = v * SampleRate
    BY <1>1, Widths
  <2>2. PICK n \in Int : n = Scaled(p, Unit)
    BY ScaledType, Widths
  <2>3. PICK m \in Int : m = Word32(n)
    BY Word32Is, HalfIs
  <2>4. r = m % CntRange
    BY <1>7, <2>1, <2>2, <2>3 DEF Counts, CountLimit
  <2>5. m % CntRange \in 0..CntRange - 1
    BY Widths
  <2>6. QED BY <1>7, <2>4, <2>5 DEF RegType
<1>8. QED BY <1>1, <1>4, <1>5, <1>6, <1>7 DEF AllKinds

(* What is noted of a value.                                               *)
LEMMA AskingType ==
  ASSUME AnalogType, DeviceType, NEW v \in Values
  PROVE  Asking(v) \in AskedSet
<1>1. PICK r \in {None, 0, 1, 2} : Asking(v) = [v |-> v, sf |-> sf, res |-> r]
  BY DEF Asking, DeviceType
<1>2. QED BY <1>1 DEF AskedSet, AnalogType

(* The flavor decoded from bytes is bytes.                                 *)
LEMMA DecodedType ==
  ASSUME NEW e \in [Seen -> 0..255]
  PROVE  Decoded(e) \in [Seen -> 0..255] /\ Decoded(e)["resolution"] \in {0, 1, 2}
<1>1. Seen \subseteq {"numchans", "resolution", "bandwidth", "polarity", "dual", "dipole",
                      "ramptype", "percent"}
  BY ScalingAssumption DEF Seen, Address
<1>2. "percent" \in Seen => "ramptype" \in Seen
  BY ScalingAssumption DEF Seen
<1>3. \A n \in 0..255 : n % 16 \in 0..255
  OBVIOUS
<1>4. ASSUME NEW b \in Seen PROVE Decoded(e)[b] \in 0..255
  <2>1. e[b] \in 0..255 /\ (e[b])%16 \in 0..255
    BY <1>3
  <2>2. QED BY <1>1, <1>4, <2>1 DEF Decoded
<1>5. Decoded(e) \in [Seen -> 0..255]
  BY <1>4, DecodedIsFunction
<1>6. Decoded(e)["resolution"] = IF e["resolution"] \in {0, 1} THEN e["resolution"] ELSE 2
  BY ResolutionSeen DEF Decoded
<1>7. QED BY <1>5, <1>6

(* A test or clear pattern is a byte.                                      *)
LEMMA PatternType ==
  ASSUME NEW pc, NEW b \in Seen
  PROVE  Pattern(pc, b) \in 0..255
<1>1. Seen \subseteq {"numchans", "resolution", "bandwidth", "polarity", "dual", "dipole",
                      "ramptype", "percent"}
  BY ScalingAssumption DEF Seen, Address
<1>2. Address[b] \in 16..23
  BY <1>1 DEF Address
<1>3. QED BY <1>2 DEF Pattern

(* A step of the console leaves the registers alone.                       *)
LEMMA AnalogFrame ==
  ASSUME AnalogType, UNCHANGED <<kind, reg, sf, asked, flash>>
  PROVE  AnalogType'
BY DEF AnalogType, RegType

(* ... and a message what the console took.                                *)
LEMMA LocalFrame ==
  ASSUME LocalType, UNCHANGED <<kind, took>>, crossed' \in BOOLEAN
  PROVE  LocalType'
BY DEF LocalType, RegType

(* Nothing taken.                                                          *)
LEMMA NothingType ==
  ASSUME kind' = kind, took' = Nothing, crossed' \in BOOLEAN
  PROVE  LocalType'
<1>1. NotAsked \in AskedSet /\ 0 \in FactorSet
  BY DEF NotAsked, AskedSet, FactorSet
<1>2. Nothing \in [reg : Int \cup {None}, asked : AskedSet, scale : (Nat \X FactorSet)]
  BY <1>1 DEF Nothing
<1>3. RegType(0)
  BY Widths, HalfIs DEF RegType
<1>4. Nothing.reg = 0
  BY DEF Nothing
<1>5. QED BY <1>2, <1>3, <1>4 DEF LocalType, RegType

(* A board out of the factory.                                             *)
LEMMA TypeInit == Init => TypeInv
<1>1. SUFFICES ASSUME Init PROVE TypeInv
  OBVIOUS
<1>2. NotAsked \in AskedSet
  BY DEF NotAsked, AskedSet, FactorSet
<1>3. RegType(0) /\ RegType(None)
  BY Widths, HalfIs DEF RegType
<1>4. AnalogType
  BY <1>1, <1>2, <1>3 DEF Init, AnalogType, FactorSet
<1>5. FastType
  BY <1>1 DEF Init, FastType, FactorSet
<1>6. DeviceType
  <2>1. eeprom \in [Seen -> 0..255] /\ flavor \in [Seen -> 0..255] /\ flavor["resolution"] = 0
    BY <1>1, ResolutionSeen DEF Init
  <2>2. up = FALSE /\ dirty = FALSE /\ conv = 0 /\ con = "idle"
    BY <1>1 DEF Init
  <2>3. QED BY <2>1, <2>2 DEF DeviceType
<1>7. LocalType
  <2>1. 0 \in FactorSet
    BY DEF FactorSet
  <2>2. Nothing \in [reg : Int \cup {None}, asked : AskedSet, scale : (Nat \X FactorSet)]
    BY <1>2, <2>1 DEF Nothing
  <2>3. Nothing.reg = 0
    BY DEF Nothing
  <2>4. QED BY <1>1, <1>3, <2>2, <2>3 DEF Init, LocalType
<1>8. QED BY <1>4, <1>5, <1>6, <1>7 DEF TypeInv

(* Messages.                                                               *)
LEMMA MessageTypes ==
  ASSUME TypeInv,
         \/ \E v \in Values : Set(v)
         \/ \E v \in Factors : SetFactor(v)
         \/ EnterFofb \/ LeaveFofb \/ Save \/ Load
  PROVE  TypeInv'
<1>1. UNCHANGED <<up, kind, eeprom, flavor, conv, con, dirty>>
  BY DEF Set, SetFactor, EnterFofb, LeaveFofb, Save, Load, Restored, device
<1>2. DeviceType'
  BY <1>1 DEF TypeInv, DeviceType, Seen
<1>3. conv \in Nat
  BY Widths DEF TypeInv, DeviceType
<1>11. crossed' \in BOOLEAN /\ took' = took
  <2>1. crossed' = crossed \/ crossed' = (crossed \/ Crossing)
    BY DEF Set, SetFactor, EnterFofb, LeaveFofb, Save, Load, local
  <2>2. crossed \in BOOLEAN
    BY DEF TypeInv, LocalType
  <2>3. crossed' \in BOOLEAN
    BY <2>1, <2>2, Zenon
  <2>4. took' = took
    BY DEF Set, SetFactor, EnterFofb, LeaveFofb, Save, Load, local
  <2>5. QED BY <2>3, <2>4
<1>12. LocalType'
  BY <1>1, <1>11, LocalFrame DEF TypeInv
<1>4. ASSUME NEW v \in Values, Set(v) PROVE TypeInv'
  <2>0. PICK r \in Counts(v) : reg' = r
    BY <1>4 DEF Set
  <2>1. RegType(r)
    BY <1>4, <2>0, CountsType DEF Set, TypeInv
  <2>3. asked' \in AskedSet
    BY <1>4, AskingType DEF Set, TypeInv
  <2>4. reg' = r /\ UNCHANGED <<kind, sf, flash, fofb, scale, rescaled>>
    BY <1>4, <2>0 DEF Set, fast
  <2>5. AnalogType'
    BY <2>1, <2>3, <2>4 DEF AnalogType, TypeInv, RegType
  <2>6. FastType'
    BY <2>4 DEF TypeInv, FastType
  <2>7. QED BY <1>2, <1>12, <2>5, <2>6 DEF TypeInv
<1>5. ASSUME NEW v \in Factors, SetFactor(v) PROVE TypeInv'
  <2>1. sf' = v /\ UNCHANGED <<kind, reg, asked, flash, fofb>>
    BY <1>5 DEF SetFactor
  <2>2. AnalogType'
    BY <2>1 DEF TypeInv, AnalogType, RegType, FactorSet
  <2>3. v \in FactorSet
    BY DEF FactorSet
  <2>4. CASE kind = "fofb"
    <3>1. scale' = <<conv, v>> /\ rescaled' = (con \in FlavorSteps)
      BY <1>5, <2>4 DEF SetFactor
    <3>2. scale' \in (Nat \X FactorSet)
      BY <1>3, <2>3, <3>1
    <3>3. rescaled' \in BOOLEAN
      BY <3>1
    <3>4. QED BY <1>2, <1>12, <2>1, <2>2, <3>2, <3>3 DEF TypeInv, FastType
  <2>5. CASE kind # "fofb"
    <3>1. UNCHANGED <<scale, rescaled>>
      BY <1>5, <2>5 DEF SetFactor
    <3>2. QED BY <1>2, <1>12, <2>1, <2>2, <3>1 DEF TypeInv, FastType
  <2>6. QED BY <2>4, <2>5
<1>6. CASE EnterFofb
  <2>1. /\ scale' = <<conv, sf>> /\ rescaled' = (con \in FlavorSteps) /\ fofb' = TRUE
        /\ UNCHANGED <<kind, reg, sf, asked, flash>>
    BY <1>6 DEF EnterFofb, analog
  <2>2. AnalogType'
    BY <2>1, AnalogFrame DEF TypeInv
  <2>3. scale' \in (Nat \X FactorSet)
    BY <1>3, <2>1 DEF TypeInv, AnalogType
  <2>4. rescaled' \in BOOLEAN
    BY <2>1
  <2>5. QED BY <1>2, <1>12, <2>1, <2>2, <2>3, <2>4 DEF TypeInv, FastType
<1>7. CASE LeaveFofb
  <2>1. fofb' = FALSE /\ UNCHANGED <<kind, reg, sf, asked, flash, scale, rescaled>>
    BY <1>7 DEF LeaveFofb, analog
  <2>2. AnalogType'
    BY <2>1, AnalogFrame DEF TypeInv
  <2>3. QED BY <1>2, <1>12, <2>1, <2>2 DEF TypeInv, FastType
<1>8. CASE Save
  <2>1. flash' = [reg |-> reg, sf |-> sf, asked |-> asked]
        /\ UNCHANGED <<kind, reg, sf, asked, fofb, scale, rescaled>>
    BY <1>8 DEF Save, analog, fast
  <2>2. AnalogType'
    BY <2>1 DEF TypeInv, AnalogType, RegType
  <2>3. QED BY <1>2, <1>12, <2>1, <2>2 DEF TypeInv, FastType
<1>9. CASE Load
  <2>1. /\ reg' = flash.reg /\ sf' = flash.sf /\ asked' = flash.asked
        /\ UNCHANGED <<kind, flash, fofb, scale>> /\ rescaled' = (kind = "fofb")
    BY <1>9 DEF Load, Restored
  <2>2. AnalogType'
    BY <2>1 DEF TypeInv, AnalogType, RegType
  <2>3. rescaled' \in BOOLEAN
    BY <2>1, Zenon
  <2>4. QED BY <1>2, <1>12, <2>1, <2>2, <2>3 DEF TypeInv, FastType
<1>10. QED BY <1>4, <1>5, <1>6, <1>7, <1>8, <1>9

(* The console, resets and boots.                                          *)
LEMMA ConsoleTypes ==
  ASSUME TypeInv,
         \/ \E b \in Seen : SetByte(b)
         \/ set_polarity \/ SetPercent \/ FlavorRegisters \/ FlavorGlobals
         \/ \E pc \in {"clear", "test"} : StartOverwrite(pc) \/ Overwrite(pc)
  PROVE  TypeInv'
<1>1. up /\ UNCHANGED <<up, kind, reg, sf, asked, fofb, scale, flash>>
  BY DEF SetByte, set_polarity, SetPercent, FlavorRegisters, FlavorGlobals, StartOverwrite, Overwrite,
         ConsoleStep, analog
<1>2. AnalogType' /\ Seen' = Seen
  BY <1>1, AnalogFrame DEF TypeInv, Seen
<1>14. LocalType'
  <2>1. UNCHANGED local
    BY DEF SetByte, set_polarity, SetPercent, FlavorRegisters, FlavorGlobals, StartOverwrite, Overwrite,
           ConsoleStep
  <2>2. QED BY <1>1, <2>1, LocalFrame DEF TypeInv, LocalType, local
<1>3. ASSUME rescaled' \in BOOLEAN PROVE FastType'
  BY <1>1, <1>3 DEF TypeInv, FastType
<1>4. eeprom \in [Seen -> 0..255] /\ flavor \in [Seen -> 0..255] /\ rescaled \in BOOLEAN /\ dirty \in BOOLEAN
  BY DEF TypeInv, DeviceType, FastType
<1>5. ASSUME UNCHANGED <<flavor, conv, rescaled, dirty>>, eeprom' \in [Seen -> 0..255],
             con' \in FlavorSteps \cup MessageSteps \cup {"idle", "percent", "clear", "test"}
      PROVE  TypeInv'
  <2>1. DeviceType'
    BY <1>1, <1>2, <1>5 DEF TypeInv, DeviceType
  <2>2. QED BY <1>2, <1>14, <1>3, <1>4, <1>5, <2>1 DEF TypeInv
<1>6. ASSUME NEW b \in Seen, SetByte(b) PROVE TypeInv'
  <2>1. UNCHANGED <<flavor, conv, rescaled, dirty>> /\ con' \in {"percent", "flavor"}
    BY <1>6 DEF SetByte, ConsoleStep
  <2>2. eeprom' = eeprom \/ \E v \in {0, 1} : eeprom' = [eeprom EXCEPT ![b] = v]
    BY <1>6 DEF SetByte
  <2>3. eeprom' \in [Seen -> 0..255]
    BY <1>4, <2>2
  <2>4. QED BY <1>5, <2>1, <2>3 DEF FlavorSteps
<1>7. CASE set_polarity
  <2>1. UNCHANGED <<flavor, conv, rescaled, dirty>> /\ con' = "flavor"
        /\ \E v \in Polarities : eeprom' = [eeprom EXCEPT !["polarity"] = v]
    BY <1>7 DEF set_polarity, ConsoleStep
  <2>2. Polarities \subseteq 0..255
    BY ScalingAssumption
  <2>3. eeprom' \in [Seen -> 0..255]
    BY <1>4, <2>1, <2>2
  <2>4. QED BY <1>5, <2>1, <2>3 DEF FlavorSteps
<1>8. CASE SetPercent
  <2>1. UNCHANGED <<flavor, conv, rescaled, dirty>> /\ con' = "flavor"
    BY <1>8 DEF SetPercent, ConsoleStep
  <2>2. PICK p \in Percents :
          eeprom' = IF p % 256 \in 5..50 THEN [eeprom EXCEPT !["percent"] = p % 256] ELSE eeprom
    BY <1>8 DEF SetPercent
  <2>3. p % 256 \in 5..50 => p % 256 \in 0..255
    OBVIOUS
  <2>4. eeprom' \in [Seen -> 0..255]
    BY <1>4, <2>2, <2>3
  <2>5. QED BY <1>5, <2>1, <2>4 DEF FlavorSteps
<1>9. ASSUME NEW pc \in {"clear", "test"}, StartOverwrite(pc) PROVE TypeInv'
  BY <1>4, <1>5, <1>9 DEF StartOverwrite, ConsoleStep
<1>10. ASSUME NEW pc \in {"clear", "test"}, Overwrite(pc) PROVE TypeInv'
  <2>1. UNCHANGED <<flavor, conv, rescaled>> /\ con' \in {"idle", pc} /\ dirty' = TRUE
    BY <1>10 DEF Overwrite, ConsoleStep
  <2>2. PICK S : eeprom' = [b \in Seen |-> IF b \in S THEN Pattern(pc, b) ELSE eeprom[b]]
    BY <1>10 DEF Overwrite
  <2>3. eeprom' \in [Seen -> 0..255]
    BY <1>4, <2>2, PatternType
  <2>4. DeviceType'
    BY <1>1, <1>2, <2>1, <2>3 DEF TypeInv, DeviceType
  <2>5. QED BY <1>2, <1>14, <1>3, <1>4, <2>1, <2>4 DEF TypeInv
<1>11. CASE FlavorRegisters
  <2>1. UNCHANGED <<eeprom, conv, rescaled, dirty>> /\ con' = "convert"
        /\ flavor' = [b \in Seen |-> (IF b \in Early THEN Decoded(eeprom) ELSE flavor)[b]]
    BY <1>11 DEF FlavorRegisters, ConsoleStep
  <2>2. PICK e \in [Seen -> 0..255] : e = Decoded(eeprom) /\ e["resolution"] \in {0, 1, 2}
    BY <1>4, DecodedType
  <2>3. flavor' \in [Seen -> 0..255]
    BY <1>4, <2>1, <2>2
  <2>4. flavor'["resolution"] \in {0, 1, 2}
    BY <2>1, <2>2, ResolutionSeen DEF Early
  <2>5. DeviceType'
    BY <1>1, <1>2, <2>1, <2>3, <2>4 DEF TypeInv, DeviceType, FlavorSteps
  <2>6. QED BY <1>2, <1>14, <1>3, <1>4, <2>1, <2>5 DEF TypeInv
<1>12. CASE FlavorGlobals
  <2>1. UNCHANGED eeprom /\ con' = "idle" /\ dirty' = FALSE /\ conv' = Converter(eeprom, conv)
        /\ flavor' = [b \in Seen |-> (IF b \in Early THEN flavor ELSE Decoded(eeprom))[b]]
        /\ rescaled' = (rescaled \/ (kind = "fofb" /\ conv' # conv))
    BY <1>12 DEF FlavorGlobals, ConsoleStep
  <2>2. PICK e \in [Seen -> 0..255] : e = Decoded(eeprom)
    BY <1>4, DecodedType
  <2>3. flavor' \in [Seen -> 0..255]
    BY <1>4, <2>1, <2>2
  <2>4. flavor'["resolution"] \in {0, 1, 2}
    BY <2>1, ResolutionSeen DEF Early, TypeInv, DeviceType
  <2>5. conv' \in {0, Conv18, Conv20}
    BY <2>1 DEF Converter, TypeInv, DeviceType
  <2>6. rescaled' \in BOOLEAN
    BY <1>4, <2>1, Zenon
  <2>7. DeviceType'
    BY <1>1, <1>2, <1>4, <2>1, <2>3, <2>4, <2>5 DEF TypeInv, DeviceType
  <2>8. QED BY <1>2, <1>14, <1>3, <2>6, <2>7 DEF TypeInv
<1>13. QED BY <1>6, <1>7, <1>8, <1>9, <1>10, <1>11, <1>12

(* The messages entered at the console.                                    *)
LEMMA CommandTypes ==
  ASSUME TypeInv,
         \/ \E v \in Values : ConsoleSet(v)
         \/ \E v \in Factors : ConsoleFactor(v)
         \/ ConsoleWrite \/ ConsoleEnter \/ ConsoleScale \/ ConsoleMode
  PROVE  TypeInv'
<1>1. /\ UNCHANGED <<up, kind, flash, eeprom, flavor, conv, dirty>>
      /\ con' \in MessageSteps \cup {"idle"}
  BY DEF ConsoleSet, ConsoleWrite, ConsoleFactor, ConsoleEnter, ConsoleScale, ConsoleMode,
         ConsoleCommand, MessageSteps
<1>2. DeviceType'
  BY <1>1 DEF TypeInv, DeviceType, Seen
<1>3. /\ conv \in Nat /\ sf \in FactorSet /\ Factors \subseteq FactorSet /\ crossed \in BOOLEAN
      /\ FALSE \in BOOLEAN /\ NotAsked \in AskedSet /\ 0 \in FactorSet
  BY Widths DEF TypeInv, DeviceType, AnalogType, LocalType, FactorSet, NotAsked, AskedSet
<1>4. RegType(0)
  BY Widths, HalfIs DEF RegType
<1>5. ASSUME NEW v \in Values, ConsoleSet(v) PROVE TypeInv'
  <2>1. PICK r \in Counts(v) : took' = [Nothing EXCEPT !.reg = r, !.asked = Asking(v)]
    BY <1>5 DEF ConsoleSet
  <2>2. RegType(r) /\ Asking(v) \in AskedSet /\ r \in Int \cup {None}
    BY <1>5, <2>1, CountsType, AskingType DEF ConsoleSet, TypeInv, RegType
  <2>3. took' = [reg |-> r, asked |-> Asking(v), scale |-> <<0, 0>>]
    BY <2>1 DEF Nothing
  <2>4. took' \in [reg : Int \cup {None}, asked : AskedSet, scale : (Nat \X FactorSet)] /\ took'.reg = r
    BY <1>3, <2>2, <2>3
  <2>5. UNCHANGED <<reg, sf, asked, fofb, scale, rescaled, crossed>>
    BY <1>5 DEF ConsoleSet, analog, fast
  <2>6. LocalType'
    BY <1>1, <1>3, <2>2, <2>4, <2>5 DEF LocalType, RegType
  <2>7. AnalogType' /\ FastType'
    BY <1>1, <2>5, AnalogFrame DEF TypeInv, FastType
  <2>8. QED BY <1>2, <2>6, <2>7 DEF TypeInv
<1>6. CASE ConsoleWrite
  <2>1. /\ reg' = took.reg /\ asked' = took.asked /\ took' = Nothing
        /\ UNCHANGED <<sf, fofb, scale, rescaled, crossed>>
    BY <1>6 DEF ConsoleWrite, fast
  <2>2. RegType(took.reg) /\ took.asked \in AskedSet
    BY DEF TypeInv, LocalType
  <2>3. AnalogType'
    BY <1>1, <2>1, <2>2 DEF TypeInv, AnalogType, RegType
  <2>4. FastType'
    BY <2>1 DEF TypeInv, FastType
  <2>5. LocalType'
    BY <1>1, <1>3, <2>1, NothingType
  <2>6. QED BY <1>2, <2>3, <2>4, <2>5 DEF TypeInv
<1>7. ASSUME NEW f \in FactorSet, sf' = f, took' = [Nothing EXCEPT !.scale = <<conv, f>>],
             crossed' = FALSE, UNCHANGED <<reg, asked, fofb, scale, rescaled>>
      PROVE  TypeInv'
  <2>1. took' = [reg |-> 0, asked |-> NotAsked, scale |-> <<conv, f>>]
    BY <1>7 DEF Nothing
  <2>2. took' \in [reg : Int \cup {None}, asked : AskedSet, scale : (Nat \X FactorSet)] /\ took'.reg = 0
    BY <1>3, <2>1
  <2>3. LocalType'
    BY <1>1, <1>4, <1>7, <2>2 DEF LocalType, RegType
  <2>4. AnalogType' /\ FastType'
    BY <1>1, <1>7 DEF TypeInv, AnalogType, RegType, FastType
  <2>5. QED BY <1>2, <2>3, <2>4 DEF TypeInv
<1>8. ASSUME NEW v \in Factors, ConsoleFactor(v) PROVE TypeInv'
  BY <1>3, <1>7, <1>8 DEF ConsoleFactor, fast
<1>9. CASE ConsoleEnter
  BY <1>3, <1>7, <1>9 DEF ConsoleEnter, analog, fast
<1>10. CASE ConsoleScale
  <2>1. /\ scale' = took.scale /\ rescaled' = crossed /\ took' = Nothing
        /\ UNCHANGED <<reg, sf, asked, fofb, crossed>>
    BY <1>10 DEF ConsoleScale, analog
  <2>2. took.scale \in (Nat \X FactorSet)
    BY DEF TypeInv, LocalType
  <2>3. AnalogType' /\ FastType'
    BY <1>1, <1>3, <2>1, <2>2, AnalogFrame DEF TypeInv, FastType
  <2>4. LocalType'
    BY <1>1, <1>3, <2>1, NothingType
  <2>5. QED BY <1>2, <2>3, <2>4 DEF TypeInv
<1>11. CASE ConsoleMode
  <2>1. fofb' = TRUE /\ UNCHANGED <<reg, sf, asked, scale, rescaled, took, crossed>>
    BY <1>11 DEF ConsoleMode, analog, local
  <2>2. AnalogType' /\ FastType' /\ LocalType'
    BY <1>1, <1>3, <2>1, AnalogFrame, LocalFrame DEF TypeInv, FastType
  <2>3. QED BY <1>2, <2>2 DEF TypeInv
<1>12. QED BY <1>5, <1>6, <1>8, <1>9, <1>10, <1>11

(* A reset, and main() after it.                                           *)
LEMMA BootTypes ==
  ASSUME TypeInv, Reset \/ Boot
  PROVE  TypeInv'
<1>1. eeprom \in [Seen -> 0..255] /\ dirty \in BOOLEAN
  BY DEF TypeInv, DeviceType
<1>2. CASE Reset
  <2>1. NotAsked \in AskedSet
    BY DEF NotAsked, AskedSet, FactorSet
  <2>2. kind' = kind /\ flash' = flash /\ reg' = 0 /\ sf' = 0 /\ asked' = NotAsked /\ Seen' = Seen
    BY <1>2 DEF Reset, Seen
  <2>3. AnalogType'
    BY <2>1, <2>2, Widths, HalfIs DEF TypeInv, AnalogType, RegType, FactorSet
  <2>4. FastType'
    BY <1>2 DEF Reset, FastType, FactorSet
  <2>5. DeviceType'
    <3>1. flavor' = [b \in Seen |-> 0] /\ UNCHANGED <<eeprom, dirty>> /\ up' = FALSE /\ con' = "idle" /\ conv' = 0
      BY <1>2 DEF Reset
    <3>2. flavor' \in [Seen -> 0..255] /\ flavor'["resolution"] = 0
      BY <3>1, ResolutionSeen
    <3>3. QED BY <1>1, <2>2, <3>1, <3>2 DEF DeviceType
  <2>7. LocalType'
    BY <1>2, <2>2, NothingType DEF Reset
  <2>6. QED BY <2>3, <2>4, <2>5, <2>7 DEF TypeInv
<1>3. CASE Boot
  <2>1. /\ reg' = flash.reg /\ sf' = flash.sf /\ asked' = flash.asked
        /\ UNCHANGED <<kind, flash, fofb, scale, rescaled, eeprom, con>>
        /\ up' = TRUE /\ dirty' = FALSE /\ flavor' = Decoded(eeprom) /\ conv' = Converter(eeprom, conv)
    BY <1>3 DEF Boot, Restored, fast
  <2>2. AnalogType' /\ Seen' = Seen
    BY <2>1 DEF TypeInv, AnalogType, RegType, Seen
  <2>3. FastType'
    BY <2>1 DEF TypeInv, FastType
  <2>4. conv' \in {0, Conv18, Conv20}
    BY <2>1 DEF Converter, TypeInv, DeviceType
  <2>5. DeviceType'
    BY <1>1, <2>1, <2>2, <2>4, DecodedType DEF TypeInv, DeviceType
  <2>7. LocalType'
    BY <1>3, <2>1, LocalFrame DEF Boot, TypeInv, LocalType, local
  <2>6. QED BY <2>2, <2>3, <2>5, <2>7 DEF TypeInv
<1>4. QED BY <1>2, <1>3

(* Every step keeps the types.                                             *)
LEMMA TypeNext == TypeInv /\ [Next]_vars => TypeInv'
<1>1. SUFFICES ASSUME TypeInv, [Next]_vars PROVE TypeInv'
  OBVIOUS
<1>2. CASE UNCHANGED vars
  <2>1. UNCHANGED <<up, kind, reg, sf, asked, fofb, scale, rescaled, flash, eeprom, flavor, conv, con,
                    dirty, took, crossed>>
    BY <1>2 DEF vars, analog, fast, device, local
  <2>2. AnalogType' /\ LocalType'
    BY <1>1, <2>1, AnalogFrame, LocalFrame DEF TypeInv, LocalType
  <2>3. QED BY <1>1, <2>1, <2>2 DEF TypeInv, FastType, DeviceType, Seen
<1>3. CASE Next
  BY <1>1, <1>3, MessageTypes, ConsoleTypes, CommandTypes, BootTypes DEF Next
<1>4. QED BY <1>1, <1>2, <1>3

(* What chan_settings() writes fits its register: thresholds and count     *)
(* limits are never negative and never wider than the FPGA reads them,     *)
(* whatever the IOC sends, the scale factor's sign is or the flash held.   *)
THEOREM TypeCorrect == Spec => []TypeOK
<1>1. TypeInv => TypeOK
  BY DEF TypeInv, AnalogType, FastType, DeviceType, LocalType, RegType, TypeOK, FactorSet, AskedSet
<1>2. QED BY <1>1, TypeInit, TypeNext, PTL DEF Spec

-----------------------------------------------------------------------------
(* What is set is what is read back.                                       *)

(* Reported() and Fits() with the factor and the resolution a value was    *)
(* set with, instead of those in force.                                    *)
VoltsOf(res) == IF res = 0 THEN Conv18 ELSE Conv20
Num(f) == IF kind \in {"gain", "cntlim"} THEN Unit
          ELSE IF kind \in {"offset", "offset16"} THEN f ELSE Abs(f)
Den(w) == IF kind = "gain" THEN GainOne ELSE IF kind = "cntlim" THEN SampleRate
          ELSE IF kind \in {"offset", "thresh"} THEN w ELSE Conv16
Want(v) == IF kind \in {"thresh", "thresh16"} THEN Abs(v) ELSE v

InRange(v, f, w) ==
  /\ kind \in {"gain", "cntlim"} => v >= 0
  /\ Abs(v) * Den(w) + Abs(Num(f)) <= Counted * Abs(Num(f))

(* The count is the value's, and within the width the FPGA takes.          *)
Near(r, v, f, w) ==
  /\ r \in Int /\ -Counted < r /\ r < Counted
  /\ kind \notin {"offset", "offset16"} => r >= 0
  /\ Ulps * Abs(r * Num(f) - Want(v) * Den(w)) < (Ulps + 1) * Abs(Num(f))

Close(r, a) ==
  /\ a.res \in {0, 1} => a.v \in Int
  /\ a.res \in {0, 1} /\ a.sf \notin {None, 0} /\ InRange(a.v, a.sf, VoltsOf(a.res)) =>
       Near(r, a.v, a.sf, VoltsOf(a.res))

(* Outside ReadHardwareFlavor() the conversion factor is the resolution's; *)
(* register and flash hold values converted with what is noted for them.   *)
Matched ==
  up /\ con \notin FlavorSteps =>
    /\ flavor["resolution"] = 0 => conv = Conv18
    /\ flavor["resolution"] = 1 => conv = Conv20

ReadInv ==
  /\ TypeInv /\ FlavorInv /\ Matched
  /\ Close(reg, asked) /\ Close(flash.reg, flash.asked) /\ Close(took.reg, took.asked)

(* What truncation towards zero loses.                                     *)
LEMMA QuotientClose ==
  ASSUME NEW a \in Nat, NEW b \in Nat, b > 0
  PROVE  /\ a \div b \in Nat /\ (a \div b) * b <= a /\ a - (a \div b) * b < b
OBVIOUS

(* A quotient of floats, below a limit.                                    *)
LEMMA FloatClose ==
  ASSUME NEW a \in Nat, NEW g \in Nat, g > 0, NEW m \in Nat, a + g <= m * g,
         NEW n \in Quotients(a, g)
  PROVE  n \in Nat /\ n < m /\ Ulps * Abs(n * g - a) < (Ulps + 1) * g
<1>1. PICK z \in Nat : z = n * g /\ n \in Nat /\ Ulps * z <= Ulps * a + g
                       /\ Ulps * a < Ulps * z + Ulps * g + g
  BY QuotientsIs
<1>2. Ulps \in Nat /\ Ulps >= 2
  BY Widths
<1>3. n < m
  <2>1. ASSUME n >= m PROVE FALSE
    <3>1. m * g <= n * g
      BY <1>1, <2>1
    <3>2. a + g <= z
      BY <1>1, <3>1
    <3>3. Ulps * (a + g) <= Ulps * z
      BY <1>1, <1>2, <3>2
    <3>4. Ulps * (a + g) = Ulps * a + Ulps * g /\ Ulps * g >= 2 * g
      BY <1>2
    <3>5. QED BY <1>1, <1>2, <3>3, <3>4
  <2>2. QED BY <1>1, <2>1
<1>4. PICK ua \in Int, uz \in Int, ug \in Int : ua = Ulps * a /\ uz = Ulps * z /\ ug = Ulps * g /\ ug >= 0
  BY <1>1, <1>2
<1>5. Ulps * (z - a) = uz - ua /\ Ulps * (a - z) = ua - uz /\ (Ulps + 1) * g = ug + g
  BY <1>1, <1>2, <1>4
<1>6. Abs(z - a) = z - a \/ Abs(z - a) = a - z
  BY <1>1 DEF Abs
<1>7. Ulps * Abs(z - a) < (Ulps + 1) * g
  BY <1>1, <1>2, <1>4, <1>5, <1>6
<1>8. QED BY <1>1, <1>3, <1>7

(* An exact quotient, below a limit.                                       *)
LEMMA ExactClose ==
  ASSUME NEW a \in Nat, NEW g \in Nat, g > 0, NEW m \in Nat, a + g <= m * g
  PROVE  /\ a \div g \in Nat /\ a \div g < m
         /\ Ulps * Abs((a \div g) * g - a) < (Ulps + 1) * g
<1>1. PICK q \in Nat, z \in Nat : q = a \div g /\ z = q * g /\ z <= a /\ a - z < g
  BY QuotientClose
<1>2. q < m
  <2>1. ASSUME q >= m PROVE FALSE
    <3>1. m * g <= q * g
      BY <2>1
    <3>2. QED BY <1>1, <3>1
  <2>2. QED BY <2>1
<1>3. PICK d \in Nat : d = a - z /\ d < g /\ Abs(z - a) = d
  BY <1>1 DEF Abs
<1>4. Ulps * d < (Ulps + 1) * g
  <2>1. Ulps \in Nat
    BY Widths
  <2>2. Ulps * d <= Ulps * g /\ (Ulps + 1) * g = Ulps * g + g /\ Ulps * d \in Int /\ Ulps * g \in Int
    BY <1>3, <2>1
  <2>3. QED BY <2>2
<1>5. QED BY <1>1, <1>2, <1>3, <1>4

(* Absolute values of products with a natural number.                      *)
LEMMA AbsProduct ==
  ASSUME NEW v \in Int, NEW w \in Nat
  PROVE  v * w \in Int /\ Abs(v * w) = Abs(v) * w /\ Abs(v) * w \in Nat
<1>1. CASE v < 0
  <2>1. v * w <= 0 /\ (-v) * w = -(v * w) /\ v * w \in Int
    BY <1>1
  <2>2. QED BY <1>1, <2>1 DEF Abs
<1>2. CASE ~(v < 0)
  <2>1. v * w >= 0 /\ v * w \in Int
    BY <1>2
  <2>2. QED BY <1>2, <2>1 DEF Abs
<1>3. QED BY <1>1, <1>2

(* A value in range, converted with the factor and the conversion factor   *)
(* of the resolution in force, is near.                                    *)
LEMMA CountsClose ==
  ASSUME AnalogType, kind \notin {"fofb", "flavor"}, NEW v \in Int, NEW w \in Nat, w = conv, w > 0,
         sf \notin {None, 0}, InRange(v, sf, w), NEW r \in Counts(v)
  PROVE  Near(r, v, sf, w)
<1>1. PICK f \in Int, g \in Nat : f = sf /\ f # 0 /\ g = Abs(f) /\ g > 0 /\ Abs(g) = g
  <2>1. sf \in FactorSet
    BY DEF AnalogType
  <2>2. PICK f \in Int : f = sf /\ f # 0 /\ Abs(f) \in Nat /\ Abs(f) > 0
    BY <2>1, FactorInt
  <2>3. Abs(Abs(f)) = Abs(f)
    BY <2>2 DEF Abs
  <2>4. QED BY <2>2, <2>3
<1>2. kind \in AllKinds
  BY ScalingAssumption DEF AnalogType
<1>9. PICK m \in Nat : m = Counted /\ m <= Half
  BY Widths, HalfIs DEF Counted
<1>3. CASE kind = "gain" \/ kind = "cntlim"
  <2>1. PICK d \in Nat : d = Den(w) /\ d = (IF kind = "gain" THEN GainOne ELSE SampleRate)
    BY <1>3, Widths DEF Den
  <2>2. v >= 0 /\ Num(sf) = Unit /\ Want(v) = v /\ Abs(v) = v /\ Abs(Unit) = Unit
    BY <1>3, Widths DEF InRange, Num, Want, Abs
  <2>3. PICK z \in Nat : z = v * d
    BY <2>2
  <2>4. z + Unit <= m * Unit
    BY <1>9, <2>1, <2>2, <2>3 DEF InRange
  <2>5. PICK q \in Nat : q = z \div Unit /\ q < m /\ Ulps * Abs(q * Unit - z) < (Ulps + 1) * Unit
    BY <2>4, ExactClose, Widths
  <2>6. Scaled(z, Unit) = q
    BY <2>5, ScaledType, Widths
  <2>7. q < Word /\ q < Half /\ q >= 0
    BY <1>9, <2>5, HalfIs, Widths
  <2>8. r = q
    <3>1. CASE kind = "gain"
      BY <2>1, <2>3, <2>6, <2>7, <3>1, Widths DEF Counts, Gain
    <3>2. CASE kind = "cntlim"
      <4>1. r = Word32(q) % CntRange
        BY <2>1, <2>3, <2>6, <3>2 DEF Counts, CountLimit
      <4>2. Word32(q) = q
        BY <2>7, Word32Is, HalfIs
      <4>3. q < CntRange
        BY <1>9, <2>5, <3>2 DEF Counted
      <4>4. q % CntRange = q
        BY <4>3, Widths
      <4>5. QED BY <4>1, <4>2, <4>4
    <3>3. QED BY <1>3, <3>1, <3>2
  <2>9. QED BY <1>3, <1>9, <2>1, <2>2, <2>3, <2>5, <2>8 DEF Near
<1>4. CASE kind \in {"offset", "offset16"}
  <2>1. PICK d \in Nat : d = Volts /\ d = Den(w) /\ d > 0
    BY <1>4, Widths DEF Volts, OnDac, Den
  <2>2. Num(sf) = f /\ Want(v) = v
    BY <1>1, <1>4 DEF Num, Want
  <2>3. PICK x \in Int, y \in Nat : x = v * d /\ y = Abs(x) /\ y = Abs(v) * d
    BY AbsProduct
  <2>4. y + g <= m * g
    BY <1>1, <1>9, <2>1, <2>2, <2>3 DEF InRange
  <2>5. PICK n \in Quotients(y, g) : r = Word32(IF (v < 0) = (f < 0) THEN n ELSE -n)
    BY <1>1, <1>4, <2>1, <2>3 DEF Counts, Offsets
  <2>6. n \in Nat /\ n < m /\ Ulps * Abs(n * g - y) < (Ulps + 1) * g
    BY <1>1, <2>4, <2>5, FloatClose
  <2>7. PICK k \in Int : k = (IF (v < 0) = (f < 0) THEN n ELSE -n) /\ -m < k /\ k < m
    BY <2>6
  <2>11. /\ (k = n \/ k = -n) /\ ((v < 0 /\ f < 0) \/ (v >= 0 /\ f >= 0) => k = n)
         /\ ((v < 0 /\ f >= 0) \/ (v >= 0 /\ f < 0) => k = -n)
    BY <2>6, <2>7
  <2>12. (v < 0 => x < 0) /\ (v >= 0 => x >= 0)
    BY <2>1, <2>3
  <2>8. r = k
    BY <1>9, <2>5, <2>7, Word32Is, HalfIs
  <2>9. Abs(k * f - x) = Abs(n * g - y)
    <3>1. PICK z \in Int : z = n * f /\ (-n) * f = -z /\ n * (-f) = -z
      BY <2>6
    <3>2. (f < 0 => n * g = -z) /\ (f >= 0 => n * g = z)
      BY <1>1, <3>1 DEF Abs
    <3>3. (k = n => k * f = z) /\ (k = -n => k * f = -z)
      BY <3>1
    <3>4. PICK a \in Int, b \in Int : a = k * f /\ b = n * g
      BY <2>6
    <3>5. y = IF x < 0 THEN -x ELSE x
      BY <2>3 DEF Abs
    <3>6. (v < 0 /\ f < 0 => a = z /\ b = -z /\ y = -x) /\ (v < 0 /\ f >= 0 => a = -z /\ b = z /\ y = -x)
      BY <2>11, <2>12, <3>2, <3>3, <3>4, <3>5
    <3>7. (v >= 0 /\ f < 0 => a = -z /\ b = -z /\ y = x) /\ (v >= 0 /\ f >= 0 => a = z /\ b = z /\ y = x)
      BY <2>11, <2>12, <3>2, <3>3, <3>4, <3>5
    <3>8. Abs(a - x) = Abs(b - y)
      BY <3>6, <3>7 DEF Abs
    <3>9. QED BY <3>4, <3>8
  <2>10. QED BY <1>1, <1>4, <1>9, <2>1, <2>2, <2>3, <2>6, <2>7, <2>8, <2>9 DEF Near
<1>5. CASE kind \in {"thresh", "thresh16"}
  <2>1. PICK d \in Nat : d = Volts /\ d = Den(w)
    BY <1>5, Widths DEF Volts, OnDac, Den
  <2>2. Num(sf) = g /\ Want(v) = Abs(v)
    BY <1>1, <1>5 DEF Num, Want
  <2>3. PICK x \in Int, y \in Nat : x = v * d /\ y = Abs(x) /\ y = Abs(v) * d
    BY AbsProduct
  <2>4. y + g <= m * g
    BY <1>1, <1>9, <2>1, <2>2, <2>3 DEF InRange
  <2>5. PICK n \in Quotients(y, g) : r = Cut(n)
    BY <1>1, <1>5, <2>1, <2>3 DEF Counts, Thresholds
  <2>6. n \in Nat /\ n < m /\ Ulps * Abs(n * g - y) < (Ulps + 1) * g
    BY <1>1, <2>4, <2>5, FloatClose
  <2>8. Word32(n) = n
    BY <1>9, <2>6, Word32Is, HalfIs
  <2>9. r = n
    <3>2. CASE kind = "thresh16"
      BY <1>9, <2>5, <2>6, <3>2, Widths DEF Cut, Counted
    <3>3. CASE kind = "thresh"
      <4>1. n < DacRange
        BY <1>9, <2>6, <3>3 DEF Counted
      <4>2. n % DacRange = n
        BY <2>6, <4>1, Widths
      <4>3. QED BY <2>5, <2>8, <3>3, <4>2 DEF Cut
    <3>4. QED BY <1>5, <3>2, <3>3
  <2>10. QED BY <1>1, <1>5, <1>9, <2>1, <2>2, <2>3, <2>6, <2>9 DEF Near
<1>7. QED BY <1>2, <1>3, <1>4, <1>5 DEF AllKinds

(* The kind never changes, and with it what a value means.                 *)
LEMMA CloseFrame ==
  ASSUME NEW r, NEW a, Close(r, a), kind' = kind
  PROVE  Close(r, a)'
BY DEF Close, InRange, Near, Counted, Num, Den, Want, VoltsOf

(* A value is converted close to itself.                                   *)
LEMMA SetClose ==
  ASSUME ReadInv, up, kind \notin {"fofb", "flavor"}, NEW v \in Values, NEW r \in Counts(v)
  PROVE  Close(r, Asking(v))
<1>1. AnalogType /\ DeviceType /\ v \in Int
  BY ScalingAssumption DEF ReadInv, TypeInv
<1>0. /\ Asking(v).v = v /\ Asking(v).sf = sf
      /\ Asking(v).res = IF con \in FlavorSteps THEN None ELSE flavor["resolution"]
  BY DEF Asking
<1>2. PICK a : /\ a = Asking(v) /\ a.v = v /\ a.sf = sf
               /\ a.res = IF con \in FlavorSteps THEN None ELSE flavor["resolution"]
  BY <1>0
<1>3. SUFFICES ASSUME a.res \in {0, 1}, sf \notin {None, 0}, InRange(v, sf, VoltsOf(a.res))
               PROVE  Near(r, v, sf, VoltsOf(a.res))
  BY <1>1, <1>2 DEF Close
<1>4. con \notin FlavorSteps /\ flavor["resolution"] = a.res
  BY <1>2, <1>3, Widths
<1>5. PICK w \in Nat : w = conv /\ w = VoltsOf(a.res) /\ w > 0
  BY <1>3, <1>4, Widths DEF ReadInv, Matched, VoltsOf
<1>6. QED BY <1>1, <1>3, <1>5, CountsClose

(* The conversion factor stays the resolution's.                           *)
LEMMA MatchedNext ==
  ASSUME ReadInv, Next
  PROVE  Matched'
<1>1. CASE UNCHANGED <<up, flavor, conv>> /\ (up /\ con \in FlavorSteps => con' \in FlavorSteps)
  BY <1>1 DEF ReadInv, Matched
<1>9. CASE \/ \E v \in Values : ConsoleSet(v)
           \/ \E v \in Factors : ConsoleFactor(v)
           \/ ConsoleWrite \/ ConsoleEnter \/ ConsoleScale \/ ConsoleMode
  <2>1. UNCHANGED <<up, flavor, conv>> /\ con \notin FlavorSteps
    BY <1>9 DEF ConsoleSet, ConsoleWrite, ConsoleFactor, ConsoleEnter, ConsoleScale, ConsoleMode,
                ConsoleCommand, FlavorSteps
  <2>2. QED BY <1>1, <2>1
<1>2. CASE \/ \E v \in Values : Set(v)
           \/ \E v \in Factors : SetFactor(v)
           \/ EnterFofb \/ LeaveFofb \/ Save \/ Load
  <2>1. UNCHANGED <<up, flavor, conv, con>>
    BY <1>2 DEF Set, SetFactor, EnterFofb, LeaveFofb, Save, Load, device
  <2>2. QED BY <1>1, <2>1
<1>3. CASE \/ \E b \in Seen : SetByte(b)
           \/ set_polarity \/ SetPercent
           \/ \E pc \in {"clear", "test"} : StartOverwrite(pc) \/ Overwrite(pc)
  <2>1. UNCHANGED <<up, flavor, conv>> /\ con \notin FlavorSteps
    BY <1>3 DEF SetByte, set_polarity, SetPercent, StartOverwrite, Overwrite, ConsoleStep, FlavorSteps
  <2>2. QED BY <1>1, <2>1
<1>4. CASE FlavorRegisters
  <2>1. con' = "convert"
    BY <1>4 DEF FlavorRegisters, ConsoleStep
  <2>2. QED BY <2>1 DEF Matched, FlavorSteps
<1>5. CASE FlavorGlobals
  <2>1. /\ con = "convert" /\ conv' = Converter(eeprom, conv)
        /\ flavor' = [b \in Seen |-> (IF b \in Early THEN flavor ELSE Decoded(eeprom))[b]]
    BY <1>5 DEF FlavorGlobals, ConsoleStep
  <2>2. flavor'["resolution"] = Decoded(eeprom)["resolution"]
    BY <2>1, ResolutionSeen DEF ReadInv, FlavorInv, Early
  <2>3. QED BY <2>1, <2>2, ConverterFits DEF Matched
<1>6. CASE Reset
  BY <1>6 DEF Reset, Matched
<1>7. CASE Boot
  <2>1. conv' = Converter(eeprom, conv) /\ flavor' = Decoded(eeprom)
    BY <1>7 DEF Boot
  <2>2. QED BY <2>1, ConverterFits DEF Matched
<1>8. QED BY <1>2, <1>3, <1>4, <1>5, <1>6, <1>7, <1>9 DEF Next

(* Register, flash and what the console took stay close to what was asked  *)
(* for.                                                                    *)
LEMMA CloseNext ==
  ASSUME ReadInv, Next
  PROVE  Close(reg, asked)' /\ Close(flash.reg, flash.asked)' /\ Close(took.reg, took.asked)'
<1>1. kind' = kind /\ Close(reg, asked) /\ Close(flash.reg, flash.asked) /\ Close(took.reg, took.asked)
  BY SameKind DEF ReadInv
<1>2. PICK r, a, fr, fa, tr, ta :
        /\ r = reg' /\ a = asked' /\ fr = flash'.reg /\ fa = flash'.asked
        /\ tr = took'.reg /\ ta = took'.asked
  OBVIOUS
<1>0. Close(0, NotAsked)
  BY Widths DEF Close, NotAsked
<1>3. Close(r, a) /\ Close(fr, fa) /\ Close(tr, ta)
  <2>1. ASSUME NEW v \in Values, Set(v) PROVE Close(r, a) /\ Close(fr, fa) /\ Close(tr, ta)
    <3>1. up /\ kind \notin {"fofb", "flavor"} /\ r \in Counts(v) /\ a = Asking(v) /\ UNCHANGED <<flash, took>>
      BY <1>2, <2>1 DEF Set, local
    <3>2. QED BY <1>1, <1>2, <3>1, SetClose
  <2>2. CASE UNCHANGED <<reg, asked, flash, took>>
    BY <1>1, <1>2, <2>2
  <2>3. CASE reg' = flash.reg /\ asked' = flash.asked /\ flash' = flash /\ took' = took
    BY <1>1, <1>2, <2>3
  <2>4. CASE Save
    <3>1. flash'.reg = reg /\ flash'.asked = asked /\ reg' = reg /\ asked' = asked /\ took' = took
      BY <2>4 DEF Save, analog, local
    <3>2. QED BY <1>1, <1>2, <3>1
  <2>5. CASE Reset
    <3>1. reg' = 0 /\ asked' = NotAsked /\ flash' = flash /\ took'.reg = 0 /\ took'.asked = NotAsked
      BY <2>5 DEF Reset, Nothing
    <3>2. QED BY <1>0, <1>1, <1>2, <3>1
  <2>6. CASE Load \/ Boot
    BY <2>3, <2>6 DEF Load, Boot, Restored, local
  <2>7. CASE \/ \E v \in Factors : SetFactor(v)
             \/ EnterFofb \/ LeaveFofb
    BY <2>2, <2>7 DEF SetFactor, EnterFofb, LeaveFofb, analog, local
  <2>8. CASE \/ \E b \in Seen : SetByte(b)
             \/ set_polarity \/ SetPercent \/ FlavorRegisters \/ FlavorGlobals
             \/ \E pc \in {"clear", "test"} : StartOverwrite(pc) \/ Overwrite(pc)
    BY <2>2, <2>8 DEF SetByte, set_polarity, SetPercent, FlavorRegisters, FlavorGlobals,
                      StartOverwrite, Overwrite, ConsoleStep, analog, local
  <2>10. ASSUME NEW v \in Values, ConsoleSet(v) PROVE Close(r, a) /\ Close(fr, fa) /\ Close(tr, ta)
    <3>1. /\ up /\ kind \notin {"fofb", "flavor"} /\ UNCHANGED <<reg, asked, flash>>
          /\ \E n \in Counts(v) : took' = [Nothing EXCEPT !.reg = n, !.asked = Asking(v)]
      BY <2>10 DEF ConsoleSet, ConsoleCommand, analog
    <3>2. tr \in Counts(v) /\ ta = Asking(v)
      BY <1>2, <3>1 DEF Nothing
    <3>3. QED BY <1>1, <1>2, <3>1, <3>2, SetClose
  <2>11. CASE ConsoleWrite
    <3>1. /\ reg' = took.reg /\ asked' = took.asked /\ flash' = flash
          /\ took'.reg = 0 /\ took'.asked = NotAsked
      BY <2>11 DEF ConsoleWrite, ConsoleCommand, Nothing
    <3>2. QED BY <1>0, <1>1, <1>2, <3>1
  <2>12. CASE \/ \E v \in Factors : ConsoleFactor(v)
              \/ ConsoleEnter \/ ConsoleScale
    <3>1. UNCHANGED <<reg, asked, flash>>
      BY <2>12 DEF ConsoleFactor, ConsoleEnter, ConsoleScale, ConsoleCommand, analog
    <3>2. took'.reg = 0 /\ took'.asked = NotAsked
      BY <2>12 DEF ConsoleFactor, ConsoleEnter, ConsoleScale, Nothing
    <3>3. QED BY <1>0, <1>1, <1>2, <3>1, <3>2
  <2>13. CASE ConsoleMode
    BY <2>2, <2>13 DEF ConsoleMode, ConsoleCommand, analog, local
  <2>9. QED BY <2>1, <2>4, <2>5, <2>6, <2>7, <2>8, <2>10, <2>11, <2>12, <2>13 DEF Next
<1>4. Close(r, a)' /\ Close(fr, fa)' /\ Close(tr, ta)'
  BY <1>1, <1>3, CloseFrame
<1>5. QED BY <1>2, <1>4 DEF Close, Near

(* A count within a width is what the FPGA takes of it.                    *)
LEMMA SignedIs ==
  ASSUME NEW w \in Nat, w > 0, NEW n \in Int, 2 * n < w, -w <= 2 * n
  PROVE  Signed(n, w) = n
<1>1. CASE n >= 0
  <2>1. n % w = n
    BY <1>1
  <2>2. QED BY <2>1 DEF Signed
<1>2. CASE n < 0
  <2>1. n % w = n + w
    BY <1>2
  <2>2. QED BY <2>1 DEF Signed
<1>3. QED BY <1>1, <1>2

(* What the IOC sets is what the FPGA works with and what sadata_send()    *)
(* reports, to less than a count and a rounding, through the flash,        *)
(* changes of the resolution and any interleaving of console and network,  *)
(* for all values that fit, scale factors of either sign, conversion       *)
(* factors and register widths.                                            *)
THEOREM ReadsBack == Spec => []ReadBack
<1>1. Init => ReadInv
  <2>1. SUFFICES ASSUME Init PROVE ReadInv
    OBVIOUS
  <2>2. TypeInv /\ FlavorInv /\ Matched
    BY <2>1, TypeInit DEF Init, FlavorInv, Matched
  <2>3. Close(reg, asked) /\ Close(flash.reg, flash.asked) /\ Close(took.reg, took.asked)
    BY <2>1, Widths DEF Init, Close, NotAsked, Nothing
  <2>4. QED BY <2>2, <2>3 DEF ReadInv
<1>2. ReadInv /\ [Next]_vars => ReadInv'
  <2>1. SUFFICES ASSUME ReadInv, [Next]_vars PROVE ReadInv'
    OBVIOUS
  <2>2. TypeInv' /\ FlavorInv'
    BY <2>1, TypeNext, FlavorNext DEF ReadInv
  <2>3. CASE Next
    BY <2>1, <2>2, <2>3, MatchedNext, CloseNext DEF ReadInv
  <2>4. CASE UNCHANGED vars
    <3>1. UNCHANGED <<up, kind, reg, asked, flash, flavor, conv, con, took>>
      BY <2>4 DEF vars, analog, device, local
    <3>2. Matched'
      BY <2>1, <3>1 DEF ReadInv, Matched
    <3>3. Close(reg, asked)' /\ Close(flash.reg, flash.asked)' /\ Close(took.reg, took.asked)'
      BY <2>1, <3>1 DEF ReadInv, Close, InRange, Near, Counted, Num, Den, Want, VoltsOf
    <3>4. QED BY <2>2, <3>2, <3>3 DEF ReadInv
  <2>5. QED BY <2>1, <2>3, <2>4
<1>3. ReadInv => ReadBack
  <2>1. SUFFICES ASSUME ReadInv, NEW w, w = (IF flavor["resolution"] = 0 THEN Conv18 ELSE Conv20),
                        up, con \notin FlavorSteps,
                        asked.res \in {0, 1}, asked.res = flavor["resolution"],
                        asked.sf = sf, asked.sf \notin {None, 0}, Fits(asked.v, w)
                 PROVE  /\ Working(reg) = ReadOut(reg)
                        /\ Ulps * Abs(Reported(ReadOut(reg), w)[1]
                                        - Want(asked.v) * Reported(ReadOut(reg), w)[2])
                             < (Ulps + 1) * Abs(Reported(1, w)[1])
    BY DEF ReadBack, Want
  <2>2. PICK v \in Int, f \in Int : v = asked.v /\ f = sf /\ w \in Nat /\ w = VoltsOf(asked.res)
    <3>1. asked.v \in Int
      BY <2>1 DEF ReadInv, Close
    <3>2. sf \in Int
      BY <2>1, FactorInt DEF ReadInv, TypeInv, AnalogType
    <3>3. VoltsOf(asked.res) \in Nat
      BY Widths DEF VoltsOf
    <3>4. QED BY <2>1, <3>1, <3>2, <3>3 DEF VoltsOf
  <2>3. kind \in AllKinds
    BY <2>1, ScalingAssumption DEF ReadInv, TypeInv, AnalogType
  <2>4. ASSUME NEW n \in Int
        PROVE  Reported(n, w)[1] = n * Num(f) /\ Reported(n, w)[2] = Den(w)
    BY <2>2, <2>3 DEF AllKinds, Reported, Num, Den
  <2>5. Num(f) \in Int /\ Den(w) \in Int /\ 1 * Num(f) = Num(f)
    BY Widths, <2>2 DEF Num, Den, Abs
  <2>6. InRange(v, f, w)
    <3>1. Reported(1, w)[1] = Num(f) /\ Reported(1, w)[2] = Den(w)
      BY <2>4, <2>5
    <3>2. QED BY <2>1, <2>2, <3>1 DEF Fits, InRange
  <2>7. Near(reg, v, f, w)
    BY <2>1, <2>2, <2>6 DEF ReadInv, Close
  <2>8. PICK n \in Int : n = reg
    BY <2>7 DEF Near
  <2>9. ReadOut(n) = n /\ Working(n) = n
    <3>1. CASE kind = "gain"
      <4>1. 0 <= n /\ n < GainRange \div 2
        BY <2>7, <2>8, <3>1 DEF Near, Counted
      <4>2. 2 * n < GainRange /\ 2 * n < Word /\ -GainRange <= 2 * n /\ -Word <= 2 * n
        BY <4>1, Widths
      <4>3. Signed(n, GainRange) = n /\ Signed(n, Word) = n
        BY <4>2, SignedIs, Widths
      <4>4. QED BY <3>1, <4>3 DEF ReadOut, Working
    <3>2. CASE kind = "offset"
      <4>1. -(DacRange \div 2) < n /\ n < DacRange \div 2
        BY <2>7, <2>8, <3>2 DEF Near, Counted
      <4>2. 2 * n < DacRange /\ -DacRange <= 2 * n
        BY <4>1, Widths
      <4>3. Signed(n, DacRange) = n
        BY <4>2, SignedIs, Widths
      <4>4. QED BY <3>2, <4>3 DEF ReadOut, Working
    <3>3. CASE kind = "offset16"
      <4>1. -(AdcRange \div 2) < n /\ n < AdcRange \div 2
        BY <2>7, <2>8, <3>3 DEF Near, Counted
      <4>2. 2 * n < AdcRange /\ -AdcRange <= 2 * n
        BY <4>1, Widths
      <4>3. Signed(n, AdcRange) = n
        BY <4>2, SignedIs, Widths
      <4>4. QED BY <3>3, <4>3 DEF ReadOut, Working
    <3>4. CASE kind \notin {"gain", "offset", "offset16"}
      BY <3>4 DEF ReadOut, Working
    <3>5. QED BY <3>1, <3>2, <3>3, <3>4
  <2>10. Ulps * Abs(n * Num(f) - Want(v) * Den(w)) < (Ulps + 1) * Abs(Num(f))
    BY <2>7, <2>8 DEF Near
  <2>11. Reported(n, w)[1] = n * Num(f) /\ Reported(n, w)[2] = Den(w) /\ Reported(1, w)[1] = Num(f)
    BY <2>4, <2>5
  <2>12. QED BY <2>2, <2>8, <2>9, <2>10, <2>11
<1>4. QED BY <1>1, <1>2, <1>3, PTL DEF Spec

=============================================================================
