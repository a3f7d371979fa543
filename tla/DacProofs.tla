------------------------------ MODULE DacProofs ------------------------------
(***************************************************************************)
(* Proofs about Dac: whatever commands come in between the samples, words  *)
(* keep their widths, an undisturbed run of a table ends on its last point *)
(* and an undisturbed smooth ramp on its setpoint, for any setpoints,      *)
(* tables, scale factors, rates and shares of the curves.                  *)
(***************************************************************************)
EXTENDS Dac, SequenceTheorems, TLAPS

-----------------------------------------------------------------------------
(* Arithmetic.                                                             *)

(* A quotient lies between its neighbours.                                 *)
LEMMA DivFacts ==
  ASSUME NEW a \in Int, NEW b \in Nat, b > 0
  PROVE  /\ a \div b \in Int
         /\ b * (a \div b) <= a /\ a < b * (a \div b) + b
OBVIOUS

(* A positive factor may be cancelled.                                     *)
LEMMA Cancel ==
  ASSUME NEW b \in Nat, b > 0, NEW r \in Int, NEW m \in Int, b * r < b * m
  PROVE  r < m
OBVIOUS

(* A product with a natural number is monotone.                            *)
LEMMA Monotone ==
  ASSUME NEW b \in Nat, NEW r \in Int, NEW m \in Int, r <= m
  PROVE  r * b <= m * b
OBVIOUS

(* A product of positive numbers is positive.                              *)
LEMMA Positive ==
  ASSUME NEW y \in Nat, y > 0, NEW n \in Nat, n > 0
  PROVE  y * n \in Nat /\ y * n > 0
OBVIOUS

(* Products of sums and of negative numbers.                               *)
LEMMA Distribute ==
  ASSUME NEW b \in Int, NEW r \in Int
  PROVE  /\ b * r \in Int /\ b * (r + 1) = b * r + b /\ b * (-r) = -(b * r) /\ (-r) * b = -(b * r)
         /\ r * b = b * r
OBVIOUS

(* What a slope loses when it is made a float and rounded to an integer.   *)
LEMMA NearError ==
  ASSUME NEW x \in Int, NEW y \in Nat, y > 0, NEW n \in Near(x, y)
  PROVE  /\ n \in Int
         /\ Signif * (2 * (y * n)) - Signif * (2 * (x * Frac)) <= Signif * y + 2 * Abs(x * Frac)
         /\ -(Signif * y + 2 * Abs(x * Frac)) <= Signif * (2 * (y * n)) - Signif * (2 * (x * Frac))
<1>1. Signif \in Nat /\ Signif > 0 /\ Frac \in Nat
  BY DacAssumption
<1>2. PICK q \in Int, r \in Int :
        /\ n \in q - r .. q + r
        /\ 2 * Signif * Abs(n * y - x * Frac) <= Signif * y + 2 * Abs(x * Frac)
  <2>1. (x * Frac) \div y \in Int /\ Abs(x * Frac) \div (y * Signif) + 2 \in Int
    <3>1. x * Frac \in Int /\ Abs(x * Frac) \in Int
      BY <1>1 DEF Abs
    <3>2. PICK z \in Nat : z = y * Signif /\ z > 0
      BY <1>1
    <3>3. \A a \in Int, b \in Nat : b > 0 => a \div b \in Int
      OBVIOUS
    <3>4. (x * Frac) \div y \in Int /\ Abs(x * Frac) \div z \in Int
      BY <3>1, <3>2, <3>3
    <3>5. QED BY <3>2, <3>4
  <2>2. QED BY <2>1 DEF Near
<1>3. n \in Int
  BY <1>2
<1>4. PICK a \in Int, m \in Int, z \in Int, w \in Int :
        a = n * y - x * Frac /\ m = y * n /\ z = x * Frac /\ w = Signif * y + 2 * Abs(x * Frac)
  BY <1>1, <1>3 DEF Abs
<1>5. a = m - z
  BY <1>3, <1>4
<1>6. 2 * Signif * Abs(a) <= w
  BY <1>2, <1>4
<1>7. Signif * (2 * m) - Signif * (2 * z) = 2 * Signif * a
  BY <1>1, <1>5
<1>8. 2 * Signif * Abs(a) = 2 * Signif * a \/ 2 * Signif * Abs(a) = -(2 * Signif * a)
  BY <1>1 DEF Abs
<1>9. 2 * Signif * a <= 2 * Signif * Abs(a) /\ -(2 * Signif * Abs(a)) <= 2 * Signif * a
  BY <1>1 DEF Abs
<1>10. PICK g \in Int, h \in Int : g = 2 * Signif * a /\ h = 2 * Signif * Abs(a)
  BY <1>1 DEF Abs
<1>11. g <= w /\ -w <= g
  BY <1>6, <1>9, <1>10
<1>12. QED BY <1>3, <1>4, <1>7, <1>10, <1>11

(* The first curved section: the steps are 0, e, 2e, ...                   *)
LEMMA CurveUp ==
  ASSUME NEW n \in Nat, NEW e \in Int, NEW x \in Int, 2 * x = e * (n * (n - 1))
  PROVE  2 * (x + n * e) = e * ((n + 1) * n)
OBVIOUS

(* The linear section.                                                     *)
LEMMA Straight ==
  ASSUME NEW n \in Nat, NEW C \in Nat, NEW d \in Int, NEW x \in Int, NEW b \in Int,
         2 * x = b + 2 * ((n - C) * d)
  PROVE  2 * (x + d) = b + 2 * ((n + 1 - C) * d)
<1>1. (n + 1 - C) * d = (n - C) * d + d
  OBVIOUS
<1>2. PICK z \in Int : z = (n - C) * d
  OBVIOUS
<1>3. QED BY <1>1, <1>2

(* The last curved section: with m points to go the step is m * e.         *)
LEMMA CurveDown ==
  ASSUME NEW m \in Nat, NEW k \in Int, NEW e \in Int, NEW x \in Int, NEW b \in Int,
         2 * x = b + e * (k - m * (m + 1))
  PROVE  2 * (x + m * e) = b + e * (k - (m - 1) * m)
<1>1. e * (k - (m - 1) * m) = e * (k - m * (m + 1)) + 2 * (m * e)
  OBVIOUS
<1>2. PICK z \in Int, w \in Int : z = m * e /\ w = e * (k - m * (m + 1))
  OBVIOUS
<1>3. QED BY <1>1, <1>2

(* The sum of all steps: C points up, L straight, C down, with slopes for  *)
(* D that are off by half of W and, altogether, half of E, make D but for  *)
(* half of W per point and curve and half of E.                            *)
LEMMA SumOfSteps ==
  ASSUME NEW C \in Nat, NEW L \in Nat, NEW Y \in Nat, Y = C + L, Y > 0,
         NEW W \in Nat, NEW E \in Nat,
         NEW D \in Int, NEW d \in Int, NEW e \in Int,
         2 * (Y * d) - 2 * D <= W * Y + E, -(W * Y + E) <= 2 * (Y * d) - 2 * D,
         C > 0 => /\ 2 * ((Y * C) * e) - 2 * D <= W * (Y * C) + E
                  /\ -(W * (Y * C) + E) <= 2 * ((Y * C) * e) - 2 * D,
         NEW s \in Int, s = (C * C) * e + L * d
  PROVE  2 * Abs(s - D) <= W * ((2 * C + L) * (2 * C + L)) + E
<1>1. Y = C + L /\ Y > 0
  OBVIOUS
<1>a. PICK a \in Nat, b \in Nat : a = W * Y + E /\ b = W * (Y * C) + E
  <2>1. W * Y + E \in Nat /\ W * (Y * C) + E \in Nat
    OBVIOUS
  <2>2. QED BY <2>1
<1>2. PICK u \in Int : u = 2 * (Y * d) - 2 * D /\ u <= a /\ -a <= u
  <2>1. 2 * (Y * d) - 2 * D \in Int
    OBVIOUS
  <2>2. QED BY <1>a, <2>1, Zenon
<1>3. PICK v \in Int : v = 2 * ((Y * C) * e) - 2 * D /\ (C > 0 => v <= b /\ -b <= v)
  <2>1. 2 * ((Y * C) * e) - 2 * D \in Int
    OBVIOUS
  <2>2. QED BY <1>a, <2>1, Zenon
<1>4. Y * (2 * (s - D)) = C * v + L * u
  <2>1. C * v = 2 * (Y * ((C * C) * e)) - 2 * (C * D)
    BY <1>3
  <2>2. L * u = 2 * (Y * (L * d)) - 2 * (L * D)
    BY <1>2
  <2>3. Y * D = C * D + L * D
    BY <1>1
  <2>4. Y * (2 * (s - D)) = 2 * (Y * ((C * C) * e)) + 2 * (Y * (L * d)) - 2 * (Y * D)
    BY <1>1
  <2>5. PICK p \in Int, q \in Int, g \in Int, h \in Int :
          p = Y * ((C * C) * e) /\ q = Y * (L * d) /\ g = C * D /\ h = L * D
    BY <1>1
  <2>6. QED BY <2>1, <2>2, <2>3, <2>4, <2>5
<1>5. C * v <= C * b /\ -(C * b) <= C * v
  <2>1. CASE C = 0
    BY <1>a, <1>3, <2>1
  <2>2. CASE C > 0
    <3>1. v * C <= b * C /\ (-b) * C <= v * C
      BY <1>a, <1>3, <2>2, Monotone
    <3>2. b * C = C * b /\ (-b) * C = -(C * b) /\ v * C = C * v
      BY <1>a, <1>3
    <3>3. QED BY <3>1, <3>2
  <2>3. QED BY <2>1, <2>2
<1>6. L * u <= L * a /\ -(L * a) <= L * u
  <2>1. u * L <= a * L /\ (-a) * L <= u * L
    BY <1>a, <1>2, Monotone
  <2>2. u * L = L * u /\ (-a) * L = -(L * a) /\ a * L = L * a
    BY <1>a, <1>2
  <2>3. QED BY <2>1, <2>2
<1>7. PICK B \in Nat : B = W * (C * C + L) + E /\ Y * B = C * b + L * a
  <2>1. W * (C * C + L) + E \in Nat
    OBVIOUS
  <2>2. Y * (W * (C * C + L) + E) = C * (W * (Y * C) + E) + L * (W * Y + E)
    BY <1>1
  <2>3. QED BY <1>a, <2>1, <2>2
<1>8. PICK t \in Int : t = 2 * (s - D)
  OBVIOUS
<1>9. t <= B /\ -B <= t
  <2>1. PICK p \in Int, q \in Int, g \in Int, h \in Int :
          p = C * v /\ q = L * u /\ g = C * b /\ h = L * a
    BY <1>a, <1>2, <1>3
  <2>2. Y * t <= Y * B /\ -(Y * B) <= Y * t
    BY <1>4, <1>5, <1>6, <1>7, <1>8, <2>1
  <2>3. Y * (B + 1) = Y * B + Y /\ Y * (t + 1) = Y * t + Y /\ Y * (-B) = -(Y * B)
    BY <1>1
  <2>4. Y * t < Y * (B + 1) /\ Y * (-B) < Y * (t + 1)
    <3>1. PICK m \in Int, n \in Int : m = Y * t /\ n = Y * B
      BY <1>1
    <3>2. QED BY <1>1, <2>2, <2>3, <3>1
  <2>5. t < B + 1 /\ -B < t + 1
    BY <1>1, <2>4, Cancel
  <2>6. QED BY <2>5
<1>10. B <= W * ((2 * C + L) * (2 * C + L)) + E
  <2>1. (2 * C + L) * (2 * C + L) = 4 * (C * C) + 4 * (C * L) + L * L
    OBVIOUS
  <2>2. L <= L * L
    OBVIOUS
  <2>3. PICK p \in Nat, q \in Nat, g \in Nat : p = C * C /\ q = C * L /\ g = L * L
    OBVIOUS
  <2>4. C * C + L <= (2 * C + L) * (2 * C + L)
    BY <2>1, <2>2, <2>3
  <2>5. (C * C + L) * W <= ((2 * C + L) * (2 * C + L)) * W
    BY <2>4, Monotone
  <2>6. QED BY <1>7, <2>5
<1>11. 2 * Abs(s - D) <= B
  BY <1>8, <1>9 DEF Abs
<1>12. QED
  <2>1. PICK z \in Int : z = W * ((2 * C + L) * (2 * C + L)) + E
    OBVIOUS
  <2>2. Abs(s - D) \in Int
    BY DEF Abs
  <2>3. QED BY <1>10, <1>11, <2>1, <2>2

(* The widths of the constants.                                            *)
LEMMA Constants ==
  /\ Half \in Nat /\ Half > 0 /\ Frac \in Nat /\ Frac > 0 /\ Rate \in Nat /\ Rate > 0
  /\ LoMod \in Nat /\ LoMod > 0 /\ DyMax \in Nat /\ GainUnit \in Nat /\ GainUnit > 0
  /\ Signif \in Nat /\ Signif > 0 /\ Percent \in 0..255 /\ MinPts \in Nat /\ MaxTable \in Nat
  /\ AddrMod \in Nat /\ MaxTable + 1 < AddrMod /\ Conv \in Nat /\ MaxVolts \in Nat
BY DacAssumption

(* Channels and the count of commands are numbers.                         *)
LEMMA Numbers == Chans \subseteq Nat /\ MaxCommands \in Nat
<1>1. 1..4 \subseteq Nat
  OBVIOUS
<1>2. QED BY <1>1, DacAssumption

(* Cutting an integer to 20 bits gives 20 bits.                            *)
LEMMA CutTypes ==
  ASSUME NEW x \in Int
  PROVE  Wrap20(x) \in Bits20 /\ Resize20(x) \in Bits20
<1>1. Half \in Nat /\ Half > 0
  BY Constants
<1>2. (x + Half) % (2 * Half) \in 0..2 * Half - 1 /\ x % Half \in 0..Half - 1
  BY <1>1
<1>3. QED BY <1>1, <1>2 DEF Wrap20, Resize20, Bits20

(* A slope of at most DyMax fits its register, rounding included.          *)
SlopeMax == (DyMax + 2) * Frac
Slopes == -SlopeMax .. SlopeMax

LEMMA SlopeFits ==
  ASSUME NEW x \in Int, NEW y \in Nat, NEW n \in SlopeOf(x, y)
  PROVE  n \in Slopes
<1>1. SlopeMax \in Nat /\ DyMax \in Nat /\ Frac \in Nat /\ Frac > 0 /\ Signif \in Nat /\ Signif > 0
      /\ 2 * (DyMax + 1) <= Signif
  BY Constants, DacAssumption DEF SlopeMax
<1>2. CASE y = 0 \/ Abs(Quot(x, y)) > DyMax
  <2>1. n = 0
    BY <1>2 DEF SlopeOf
  <2>2. QED BY <1>1, <2>1 DEF Slopes
<1>3. CASE y # 0 /\ ~(Abs(Quot(x, y)) > DyMax)
  <2>1. n \in Near(x, y) /\ y > 0
    BY <1>3 DEF SlopeOf
  <2>2. PICK q \in Int : q = Abs(x) \div y /\ y * q <= Abs(x) /\ Abs(x) < y * q + y
    BY <2>1, DivFacts DEF Abs
  <2>3. Abs(x) \in Nat /\ Abs(y) = y
    BY DEF Abs
  <2>4. q \in Nat
    BY <2>1, <2>2, <2>3
  <2>5. q <= DyMax
    <3>1. Quot(x, y) = q \/ Quot(x, y) = -q
      BY <2>2, <2>3 DEF Quot
    <3>2. QED BY <1>1, <1>3, <2>4, <3>1 DEF Abs
  <2>6. Abs(x) <= y * (DyMax + 1)
    <3>1. y * (q + 1) = y * q + y /\ (q + 1) * y <= (DyMax + 1) * y
      BY <1>1, <2>4, <2>5, Distribute, Monotone
    <3>2. (q + 1) * y = y * (q + 1) /\ (DyMax + 1) * y = y * (DyMax + 1) /\ y * (q + 1) \in Int /\ y * (DyMax + 1) \in Int
      BY <1>1, <2>4, Distribute
    <3>3. QED BY <2>2, <2>3, <3>1, <3>2
  <2>7. PICK M \in Nat, z \in Int, Z \in Nat : M = (DyMax + 1) * Frac /\ z = x * Frac /\ Z = Abs(x * Frac)
    BY <1>1 DEF Abs
  <2>8. Z <= y * M
    <3>1. Abs(x) * Frac <= (y * (DyMax + 1)) * Frac
      BY <1>1, <2>3, <2>6, Monotone
    <3>2. Abs(x * Frac) = Abs(x) * Frac
      BY <1>1 DEF Abs
    <3>3. (y * (DyMax + 1)) * Frac = y * M
      BY <1>1, <2>7
    <3>4. QED BY <2>7, <3>1, <3>2, <3>3
  <2>9. PICK m \in Int : m = y * n /\ n \in Int
    BY <2>1, NearError
  <2>10. /\ Signif * (2 * m) - Signif * (2 * z) <= Signif * y + 2 * Z
         /\ -(Signif * y + 2 * Z) <= Signif * (2 * m) - Signif * (2 * z)
    BY <2>1, <2>7, <2>9, NearError
  <2>11. -Z <= z /\ z <= Z
    BY <1>1, <2>7 DEF Abs
  <2>12. 2 * M <= Signif * Frac
    <3>1. (2 * (DyMax + 1)) * Frac <= Signif * Frac
      BY <1>1, Monotone
    <3>2. QED BY <1>1, <2>7, <3>1
  <2>13. 2 * Z <= Signif * (y * Frac)
    <3>1. (2 * M) * y <= (Signif * Frac) * y
      BY <1>1, <2>12, Monotone
    <3>2. (2 * M) * y = 2 * (y * M) /\ (Signif * Frac) * y = Signif * (y * Frac)
      BY <1>1
    <3>3. PICK g \in Int, h \in Int : g = y * M /\ h = Signif * (y * Frac)
      BY <1>1
    <3>4. QED BY <2>8, <3>1, <3>2, <3>3
  <2>14. PICK k \in Nat : k = 2 * Z + y + y * Frac
    BY <1>1
  <2>15. Signif * (2 * m) <= Signif * k /\ -(Signif * k) <= Signif * (2 * m)
    <3>1. Signif * (2 * z) <= Signif * (2 * Z) /\ -(Signif * (2 * Z)) <= Signif * (2 * z)
      <4>1. (2 * z) * Signif <= (2 * Z) * Signif /\ (-(2 * Z)) * Signif <= (2 * z) * Signif
        BY <1>1, <2>11, Monotone
      <4>2. QED BY <1>1, <4>1
    <3>2. Signif * k = Signif * (2 * Z) + Signif * y + Signif * (y * Frac)
      BY <1>1, <2>14
    <3>3. PICK g \in Int, h \in Int, i \in Int, j \in Int, l \in Int :
            /\ g = Signif * (2 * m) /\ h = Signif * (2 * z) /\ i = Signif * (2 * Z)
            /\ j = Signif * y /\ l = Signif * (y * Frac)
      BY <1>1
    <3>4. QED BY <2>10, <2>13, <3>1, <3>2, <3>3
  <2>16. 2 * m <= k /\ -k <= 2 * m
    <3>1. Signif * (2 * m) < Signif * (k + 1) /\ Signif * (-k) < Signif * (2 * m + 1)
      <4>1. PICK g \in Int, h \in Int : g = Signif * (2 * m) /\ h = Signif * k
        BY <1>1
      <4>2. Signif * (k + 1) = h + Signif /\ Signif * (-k) = -h /\ Signif * (2 * m + 1) = g + Signif
        BY <1>1, <4>1
      <4>3. QED BY <1>1, <2>15, <4>1, <4>2
    <3>2. 2 * m < k + 1 /\ -k < 2 * m + 1
      BY <1>1, <3>1, Cancel
    <3>3. QED BY <3>2
  <2>17. k <= 2 * (y * SlopeMax)
    <3>1. y * SlopeMax = y * M + y * Frac
      BY <1>1, <2>7 DEF SlopeMax
    <3>2. y <= y * Frac
      BY <1>1
    <3>3. PICK g \in Int, h \in Int : g = y * M /\ h = y * Frac
      BY <1>1
    <3>4. QED BY <2>8, <2>14, <3>1, <3>2, <3>3
  <2>18. y * n < y * (SlopeMax + 1) /\ y * (-SlopeMax) < y * (n + 1)
    <3>1. PICK w \in Int : w = y * SlopeMax
      BY <1>1
    <3>2. y * (SlopeMax + 1) = w + y /\ y * (-SlopeMax) = -w /\ y * (n + 1) = m + y
      BY <1>1, <2>9, <3>1
    <3>3. QED BY <2>1, <2>9, <2>16, <2>17, <3>1, <3>2
  <2>19. n < SlopeMax + 1 /\ -SlopeMax < n + 1
    BY <1>1, <2>1, <2>9, <2>18, Cancel
  <2>20. QED BY <1>1, <2>9, <2>19 DEF Slopes
<1>4. QED BY <1>2, <1>3

(* Gain and offset give 20 bits.                                           *)
LEMMA GainType ==
  ASSUME NEW x \in Bits20, NEW k \in [gain : Gains, offset : Offsets]
  PROVE  GainOffset(k, x) \in Bits20
<1>1. x \in Int /\ Half - 1 \in Bits20 /\ -Half \in Bits20
  BY Constants DEF Bits20
<1>2. k.gain \in Int /\ k.offset \in Int
  <2>1. k.gain \in Gains /\ k.offset \in Offsets
    OBVIOUS
  <2>2. Gains \subseteq Int /\ Offsets \subseteq Int
    BY DacAssumption
  <2>3. QED BY <2>1, <2>2
<1>3. PICK oc \in Bits20 : oc = Wrap20(x - k.offset)
  <2>1. x - k.offset \in Int
    BY <1>1, <1>2
  <2>2. QED BY <2>1, CutTypes
<1>4. oc \in Int
  BY Constants DEF Bits20
<1>5. (oc * k.gain) \div GainUnit \in Int
  <2>1. oc * k.gain \in Int /\ GainUnit \in Nat /\ GainUnit > 0
    BY <1>2, <1>4, Constants
  <2>2. QED BY <2>1, DivFacts
<1>6. PICK y \in Bits20 : y = Wrap20((oc * k.gain) \div GainUnit)
  BY <1>5, CutTypes
<1>7. PICK q \in Int : q = Half \div 4 /\ 0 <= q /\ q < Half
  BY Constants
<1>8. y \in Int /\ q - 1 \in Bits20 /\ -q \in Bits20
  BY <1>7, Constants DEF Bits20
<1>9. GainOffset(k, x) \in {y, Half - 1, -Half, q - 1, -q}
  <2>1. CASE HighRes
    BY <1>3, <1>4, <1>6, <1>7, <1>8, <2>1 DEF GainOffset
  <2>2. CASE ~HighRes
    BY <1>3, <1>4, <1>6, <1>7, <1>8, <2>2 DEF GainOffset
  <2>3. QED BY <2>1, <2>2
<1>10. QED BY <1>1, <1>8, <1>9

-----------------------------------------------------------------------------
(* The inductive invariant.                                                *)

Pars   == [llen : Nat, clen : Nat, dy : Slopes, dyp : Slopes]
Ramps  == [st : {"IDLE", "START_CURVED", "LINEAR", "END_CURVED"},
           cnt : Nat, total : Nat, last : Int, prev : Int]
Plays  == [st : {"IDLE", "RUN_RAMP"}, addr : 0..AddrMod - 1, out : Bits20]
Drams  == [len : 0..AddrMod - 1, mem : Seq(Bits20)]
Cmds   == [op : {"none", "smooth", "jump", "table"}, c : Nat, n : Nat, new : Int, cur : Int,
           p : Pars, tab : Seq(Int)]

(* The registers and the FPGA's state.                                     *)
FpgaType ==
  /\ mode \in [Chans -> {SMOOTH, RAMP, FOFB, JUMP}]
  /\ setpt \in [Chans -> Bits20] /\ raw \in [Chans -> Bits20] /\ dac \in [Chans -> Bits20]
  /\ par \in [Chans -> Pars] /\ ramp \in [Chans -> Ramps]
  /\ table \in [Chans -> Drams] /\ play \in [Chans -> Plays]
  /\ \A c \in Chans : ramp[c].st = "IDLE" => ramp[c].prev = setpt[c]
  /\ \A c \in Chans : Len(table[c].mem) <= MaxTable

(* The command in progress has a channel and a next bus write; a table is  *)
(* written without gaps.                                                   *)
CmdType ==
  /\ left \in 0..MaxCommands /\ cmd \in Cmds
  /\ cmd.op # "none" => cmd.c \in Chans
  /\ cmd.op = "smooth" => cmd.n \in 1..5
  /\ cmd.op = "table" => /\ cmd.n \in 1..Len(cmd.tab) /\ Len(cmd.tab) <= MaxTable
                         /\ cmd.n <= Len(table[cmd.c].mem) + 1

(* In an undisturbed run the output is the point before the address.       *)
RunInv(c) ==
  whole[c] =>
    /\ table[c].len <= Len(table[c].mem)
    /\ play[c].st = "IDLE" /\ table[c].len > 0 => play[c].out = table[c].mem[table[c].len]
    /\ play[c].st = "RUN_RAMP" =>
         /\ play[c].addr <= table[c].len
         /\ play[c].addr > 0 => play[c].out = table[c].mem[play[c].addr]

(* Gain and offset hold what was written to them.                          *)
CalType == cal \in [Chans -> [gain : Gains, offset : Offsets]]

DacInv ==
  /\ FpgaType /\ CmdType
  /\ whole \in [Chans -> BOOLEAN]
  /\ \A c \in Chans : RunInv(c)

(* No command is a command.                                                *)
LEMMA NoCmdType == NoCmd \in Cmds /\ NoPar \in Pars
<1>1. 0 \in Slopes /\ <<>> \in Seq(Int)
  <2>1. SlopeMax \in Nat
    BY Constants DEF SlopeMax
  <2>2. QED BY <2>1, EmptySeq DEF Slopes
<1>2. NoPar \in Pars
  BY <1>1 DEF NoPar, Pars
<1>3. QED BY <1>1, <1>2 DEF NoCmd, Cmds

(* The invariant holds at the start.                                       *)
LEMMA InitInv == Init => DacInv /\ CalType
<1>1. SUFFICES ASSUME Init PROVE DacInv /\ CalType
  OBVIOUS
<1>a. CalType
  BY <1>1 DEF Init, CalType
<1>2. 0 \in Bits20 /\ 0 \in 0..AddrMod - 1 /\ <<>> \in Seq(Bits20)
  BY Constants, EmptySeq DEF Bits20
<1>3. NoPar \in Pars /\ NoCmd \in Cmds
  BY NoCmdType
<1>4. NoRamp \in Ramps
  BY DEF NoRamp, Ramps
<1>6. CmdType
  BY <1>1, <1>3, Numbers DEF Init, CmdType, NoCmd
<1>7. \A c \in Chans : table[c] = [len |-> 0, mem |-> <<>>] /\ play[c] = [st |-> "IDLE", addr |-> 0, out |-> 0]
  BY <1>1 DEF Init
<1>8. table \in [Chans -> Drams] /\ play \in [Chans -> Plays]
  BY <1>1, <1>2 DEF Init, Drams, Plays
<1>9. mode \in [Chans -> {SMOOTH, RAMP, FOFB, JUMP}] /\ setpt \in [Chans -> Bits20]
      /\ raw \in [Chans -> Bits20] /\ dac \in [Chans -> Bits20]
  <2>1. \A c \in Chans : GainOffset(cal[c], 0) \in Bits20
    BY <1>2, <1>a, GainType DEF CalType
  <2>2. QED BY <1>1, <1>2, <2>1 DEF Init
<1>10. par \in [Chans -> Pars] /\ ramp \in [Chans -> Ramps]
  BY <1>1, <1>3, <1>4 DEF Init
<1>11. \A c \in Chans : (ramp[c].st = "IDLE" => ramp[c].prev = setpt[c]) /\ Len(table[c].mem) <= MaxTable
  <2>1. 0 <= MaxTable
    BY Constants
  <2>2. \A c \in Chans : table[c].mem = <<>> /\ ramp[c] = NoRamp /\ setpt[c] = 0
    BY <1>1, <1>7 DEF Init
  <2>3. NoRamp.prev = 0
    BY DEF NoRamp
  <2>4. \A c \in Chans : ramp[c].prev = setpt[c]
    BY <2>2, <2>3
  <2>5. \A c \in Chans : Len(table[c].mem) = 0
    BY <2>2, EmptySeq
  <2>6. \A c \in Chans : Len(table[c].mem) <= MaxTable
    BY <2>1, <2>5
  <2>7. QED BY <2>4, <2>6
<1>12. FpgaType
  BY <1>8, <1>9, <1>10, <1>11 DEF FpgaType
<1>13. whole \in [Chans -> BOOLEAN] /\ \A c \in Chans : RunInv(c)
  BY <1>1 DEF Init, RunInv
<1>14. QED BY <1>a, <1>6, <1>12, <1>13 DEF DacInv

-----------------------------------------------------------------------------
(* The commands.                                                           *)

(* Set_dac() computes an integer, and parameters that fit their registers. *)
LEMMA SetpointType ==
  ASSUME NEW c \in Chans, NEW amps \in Int
  PROVE  Setpoint(c, amps) \in Int
<1>1. Conv \in Nat /\ MaxVolts \in Nat /\ Factor[c] \in Int /\ Factor[c] # 0
  BY DacAssumption
<1>2. \A x \in Int, y \in Int : y # 0 => Quot(x, y) \in Int
  <2>1. \A x \in Int : Abs(x) \in Nat /\ (x # 0 => Abs(x) > 0)
    BY DEF Abs
  <2>2. QED BY <2>1, DivFacts DEF Quot
<1>3. amps * Conv \in Int /\ MaxVolts * Conv \in Int
  BY <1>1
<1>4. Quot(amps * Conv, Factor[c]) \in Int
  BY <1>1, <1>2, <1>3
<1>5. QED BY <1>3, <1>4 DEF Setpoint

(* The points and slopes of Calc_WriteLinearSmooth().                      *)
LEMMA ParamsType ==
  ASSUME NEW delta \in Int
  PROVE  Params(delta) \subseteq Pars
<1>1. PICK d \in Nat : d = Duration(delta)
  BY Constants DEF Duration, Abs
<1>2. \A a \in Nat, b \in Nat : b > 0 => a \div b \in Nat
  OBVIOUS
<1>3. 100 * Rate \in Nat /\ 100 * Rate > 0 /\ Percent * d \in Nat
      /\ (~(Percent > 50) => (100 - 2 * Percent) * d \in Nat)
  BY Constants
<1>4. CurvedPts(d) \in Nat /\ LinearPts(d) \in Nat
  BY <1>2, <1>3 DEF CurvedPts, LinearPts
<1>5. PICK C \in Nat, L \in Nat : C = CurvedPts(d) /\ L = LinearPts(d)
  BY <1>4
<1>6. C + L \in Nat /\ (C + L) * C \in Nat
  OBVIOUS
<1>7. SlopeOf(delta, C + L) \subseteq Slopes /\ SlopeOf(delta, (C + L) * C) \subseteq Slopes
  BY <1>6, SlopeFits
<1>8. Params(delta) = [llen : {L}, clen : {C}, dy : SlopeOf(delta, C + L), dyp : SlopeOf(delta, (C + L) * C)]
  BY <1>1, <1>5 DEF Params
<1>9. QED BY <1>7, <1>8 DEF Pars

(* A command is counted.                                                   *)
LEMMA Counted ==
  ASSUME CmdType, left > 0, left' = left - 1
  PROVE  left' \in 0..MaxCommands
<1>1. left \in 0..MaxCommands /\ MaxCommands \in Nat
  BY Numbers DEF CmdType
<1>2. QED BY <1>1

(* What the FPGA's registers and the runs of the tables depend on.         *)
LEMMA Unchanged ==
  ASSUME DacInv, UNCHANGED <<fpga, outs, whole>>, CmdType'
  PROVE  DacInv'
<1>1. UNCHANGED <<mode, setpt, raw, dac, par, ramp, table, play, whole>>
  BY DEF fpga, outs
<1>2. QED BY <1>1 DEF DacInv, FpgaType, RunInv

(* A mode command changes the mode only.                                   *)
LEMMA OpmodeKeeps ==
  ASSUME DacInv, NEW c \in Chans, NEW m \in {SMOOTH, RAMP, FOFB, JUMP}, Set_dacOpmode(c, m)
  PROVE  DacInv'
<1>1. /\ UNCHANGED <<cmd, setpt, raw, dac, par, ramp, table, play, whole>>
      /\ mode' = [mode EXCEPT ![c] = m] /\ left > 0 /\ left' = left - 1
  BY DEF Set_dacOpmode, Command, outs
<1>2. left' \in 0..MaxCommands
  BY <1>1, Counted DEF DacInv
<1>3. CmdType'
  BY <1>1, <1>2 DEF DacInv, CmdType
<1>4. QED BY <1>1, <1>3 DEF DacInv, FpgaType, RunInv

(* Gain and offset are read by the next sample.                            *)
LEMMA CalKeeps ==
  ASSUME DacInv, NEW c \in Chans, NEW x, SetGain(c, x) \/ SetOffset(c, x)
  PROVE  DacInv'
<1>1. /\ UNCHANGED <<cmd, mode, setpt, raw, dac, par, ramp, table, play, whole>>
      /\ left > 0 /\ left' = left - 1
  BY DEF SetGain, SetOffset, Command, outs
<1>2. left' \in 0..MaxCommands
  BY <1>1, Counted DEF DacInv
<1>3. CmdType'
  BY <1>1, <1>2 DEF DacInv, CmdType
<1>4. QED BY <1>1, <1>3 DEF DacInv, FpgaType, RunInv

(* A setpoint becomes a command.                                           *)
LEMMA SetDacKeeps ==
  ASSUME DacInv, NEW c \in Chans, NEW amps \in Amps, Set_dac(c, amps)
  PROVE  DacInv'
<1>1. PICK new \in Int, cur \in Int : new = Setpoint(c, amps) /\ cur = Out(c)
  <2>1. Setpoint(c, amps) \in Int
    BY SetpointType, DacAssumption
  <2>2. Out(c) \in Int
    BY Constants DEF Out, DacInv, FpgaType, Bits20
  <2>3. QED BY <2>1, <2>2
<1>2. Params(new - cur) \subseteq Pars /\ NoPar \in Pars
  BY ParamsType, NoCmdType
<1>3. PICK k \in Pars :
      /\ UNCHANGED <<fpga, outs, whole>> /\ left > 0 /\ left' = left - 1 /\ cmd = NoCmd
      /\ cmd' = [NoCmd EXCEPT !.op = IF mode[c] = SMOOTH THEN "smooth" ELSE "jump",
                              !.c = c, !.new = new, !.cur = cur,
                              !.n = IF mode[c] = SMOOTH THEN 1 ELSE 5, !.p = k]
  BY <1>1, <1>2 DEF Set_dac, Command
<1>4. cmd' = [op |-> IF mode[c] = SMOOTH THEN "smooth" ELSE "jump", c |-> c,
              n |-> IF mode[c] = SMOOTH THEN 1 ELSE 5, new |-> new, cur |-> cur, p |-> k, tab |-> <<>>]
  BY <1>3 DEF NoCmd
<1>5. c \in Nat /\ <<>> \in Seq(Int)
  BY Numbers, EmptySeq
<1>6. cmd' \in Cmds
  BY <1>4, <1>5 DEF Cmds
<1>7. left' \in 0..MaxCommands
  BY <1>3, Counted DEF DacInv
<1>8. CmdType'
  BY <1>4, <1>6, <1>7 DEF CmdType
<1>9. QED BY <1>3, <1>8, Unchanged

(* A refused table changes nothing.                                        *)
LEMMA RefuseKeeps ==
  ASSUME DacInv, NEW c \in Chans, NEW t \in Tables, RefuseRamptable(c, t)
  PROVE  DacInv'
<1>1. UNCHANGED <<cmd, fpga, outs, whole>> /\ left > 0 /\ left' = left - 1
  BY DEF RefuseRamptable, Command
<1>2. left' \in 0..MaxCommands
  BY <1>1, Counted DEF DacInv
<1>3. CmdType'
  BY <1>1, <1>2 DEF DacInv, CmdType, fpga
<1>4. QED BY <1>1, <1>3, Unchanged

(* A parameter register takes its value from the command.                  *)
LEMMA ParamKeeps ==
  ASSUME DacInv, WriteParam
  PROVE  DacInv'
<1>1. /\ UNCHANGED <<left, mode, setpt, raw, dac, ramp, table, play, whole>>
      /\ cmd.op = "smooth" /\ cmd.n <= 4 /\ cmd' = [cmd EXCEPT !.n = @ + 1]
      /\ par' = [par EXCEPT ![cmd.c][ParamRegs[cmd.n]] = cmd.p[ParamRegs[cmd.n]]]
  BY DEF WriteParam, outs
<1>2. /\ cmd \in Cmds /\ cmd.c \in Chans /\ cmd.n \in 1..5 /\ par \in [Chans -> Pars]
      /\ left \in 0..MaxCommands
  BY <1>1 DEF DacInv, CmdType, FpgaType
<1>3. PICK c \in Chans, n \in 1..4, k \in Pars : c = cmd.c /\ n = cmd.n /\ k = cmd.p
  BY <1>1, <1>2 DEF Cmds
<1>4. par' = [par EXCEPT ![c][ParamRegs[n]] = k[ParamRegs[n]]]
  BY <1>1, <1>3
<1>5. par' \in [Chans -> Pars]
  <2>1. CASE n = 1
    BY <1>2, <1>4, <2>1 DEF ParamRegs, Pars
  <2>2. CASE n = 2
    BY <1>2, <1>4, <2>2 DEF ParamRegs, Pars
  <2>3. CASE n = 3
    BY <1>2, <1>4, <2>3 DEF ParamRegs, Pars
  <2>4. CASE n = 4
    BY <1>2, <1>4, <2>4 DEF ParamRegs, Pars
  <2>5. QED BY <2>1, <2>2, <2>3, <2>4
<1>6. cmd' \in Cmds /\ cmd'.n \in 1..5 /\ cmd'.op = "smooth" /\ cmd'.c = cmd.c
  <2>1. cmd.n + 1 \in 1..5 /\ cmd.n + 1 \in Nat
    BY <1>1, <1>2
  <2>2. QED BY <1>1, <1>2, <2>1 DEF Cmds
<1>7. CmdType'
  BY <1>1, <1>2, <1>6 DEF CmdType
<1>8. QED BY <1>1, <1>5, <1>7 DEF DacInv, FpgaType, RunInv

(* What an idle ramp makes of a setpoint: it starts, or has noticed it.    *)
LEMMA NoticedType ==
  ASSUME FpgaType, NEW c \in Chans, NEW sp \in Bits20
  PROVE  Noticed(c, sp) \in Ramps /\ (Noticed(c, sp).st = "IDLE" => Noticed(c, sp).prev = sp)
<1>1. ramp[c] \in Ramps /\ par[c] \in Pars /\ dac[c] \in Int /\ sp \in Int
  BY Constants DEF FpgaType, Bits20
<1>2. 2 * par[c].clen + par[c].llen \in Nat
  BY <1>1 DEF Pars
<1>3. dac[c] * Frac \in Int
  BY <1>1, Constants
<1>4. QED BY <1>1, <1>2, <1>3 DEF Noticed, Ramps

(* The setpoint is written and noticed.                                    *)
LEMMA SetptKeeps ==
  ASSUME DacInv, WriteSetpt
  PROVE  DacInv'
<1>1. /\ UNCHANGED <<left, mode, raw, dac, par, table, play, whole>>
      /\ cmd.op \in {"smooth", "jump"} /\ cmd' = NoCmd
      /\ setpt' = [setpt EXCEPT ![cmd.c] = Wrap20(cmd.new)]
      /\ ramp' = [ramp EXCEPT ![cmd.c] = IF @.st = "IDLE" THEN Noticed(cmd.c, setpt'[cmd.c]) ELSE @]
  BY DEF WriteSetpt, outs
<1>2. cmd \in Cmds /\ cmd.c \in Chans /\ left \in 0..MaxCommands /\ FpgaType
  BY <1>1 DEF DacInv, CmdType
<1>3. PICK c \in Chans, sp \in Bits20 : c = cmd.c /\ sp = Wrap20(cmd.new)
  BY <1>2, CutTypes DEF Cmds
<1>4. setpt' = [setpt EXCEPT ![c] = sp]
      /\ ramp' = [ramp EXCEPT ![c] = IF ramp[c].st = "IDLE" THEN Noticed(c, sp) ELSE ramp[c]]
  <2>1. setpt' = [setpt EXCEPT ![c] = sp]
    BY <1>1, <1>3
  <2>2. setpt'[c] = sp
    BY <1>2, <2>1 DEF FpgaType
  <2>3. QED BY <1>1, <1>3, <2>1, <2>2
<1>5. PICK r \in Ramps : r = Noticed(c, sp) /\ (r.st = "IDLE" => r.prev = sp)
  BY <1>2, NoticedType
<1>6. setpt' \in [Chans -> Bits20] /\ ramp' \in [Chans -> Ramps]
  BY <1>2, <1>4, <1>5 DEF FpgaType
<1>7. \A d \in Chans : ramp'[d].st = "IDLE" => ramp'[d].prev = setpt'[d]
  <2>1. ASSUME NEW d \in Chans, ramp'[d].st = "IDLE" PROVE ramp'[d].prev = setpt'[d]
    <3>1. CASE d = c
      <4>1. setpt'[d] = sp /\ ramp'[d] = IF ramp[c].st = "IDLE" THEN r ELSE ramp[c]
        BY <1>2, <1>4, <1>5, <3>1 DEF FpgaType
      <4>2. QED BY <1>5, <2>1, <4>1
    <3>2. CASE d # c
      <4>1. setpt'[d] = setpt[d] /\ ramp'[d] = ramp[d]
        BY <1>2, <1>4, <3>2 DEF FpgaType
      <4>2. QED BY <1>2, <2>1, <4>1 DEF FpgaType
    <3>3. QED BY <3>1, <3>2
  <2>2. QED BY <2>1
<1>8. FpgaType'
  BY <1>1, <1>2, <1>6, <1>7 DEF FpgaType
<1>9. CmdType'
  <2>1. NoCmd \in Cmds /\ NoCmd.op = "none"
    BY NoCmdType DEF NoCmd
  <2>2. QED BY <1>1, <1>2, <2>1 DEF CmdType
<1>10. QED BY <1>1, <1>8, <1>9 DEF DacInv, RunInv

(* A step that touches only table, play and whole keeps what it leaves.    *)
LEMMA TableFrame ==
  ASSUME DacInv, UNCHANGED <<mode, setpt, par, ramp, outs>>, CmdType',
         table' \in [Chans -> Drams], play' \in [Chans -> Plays], whole' \in [Chans -> BOOLEAN],
         \A c \in Chans : Len(table'[c].mem) <= MaxTable,
         \A c \in Chans : RunInv(c)'
  PROVE  DacInv'
BY DEF DacInv, FpgaType, outs

(* A table in the memory of one channel leaves the runs of the others.     *)
LEMMA OtherRuns ==
  ASSUME DacInv, NEW c \in Chans, NEW d \in Drams, UNCHANGED play,
         table' = [table EXCEPT ![c] = d], whole' = [whole EXCEPT ![c] = FALSE],
         Len(d.mem) <= MaxTable
  PROVE  /\ table' \in [Chans -> Drams] /\ whole' \in [Chans -> BOOLEAN]
         /\ \A e \in Chans : Len(table'[e].mem) <= MaxTable
         /\ \A e \in Chans : RunInv(e)'
<1>1. table \in [Chans -> Drams] /\ whole \in [Chans -> BOOLEAN]
      /\ \A e \in Chans : Len(table[e].mem) <= MaxTable /\ RunInv(e)
  BY DEF DacInv, FpgaType
<1>2. table' \in [Chans -> Drams]
  BY <1>1
<1>3. whole' \in [Chans -> BOOLEAN]
  BY <1>1, Zenon
<1>4. ASSUME NEW e \in Chans PROVE Len(table'[e].mem) <= MaxTable /\ RunInv(e)'
  <2>1. CASE e = c
    <3>1. table'[e] = d /\ ~whole'[e]
      BY <1>1, <2>1
    <3>2. QED BY <3>1 DEF RunInv
  <2>2. CASE e # c
    <3>1. table'[e] = table[e] /\ whole'[e] = whole[e] /\ play'[e] = play[e]
      BY <1>1, <2>2
    <3>2. QED BY <1>1, <3>1 DEF RunInv
  <2>3. QED BY <2>1, <2>2
<1>5. QED BY <1>2, <1>3, <1>4

(* A point in the memory: no gap, no other point changed.                  *)
LEMMA StoredType ==
  ASSUME NEW mem \in Seq(Bits20), NEW n \in Nat, n > 0, n <= Len(mem) + 1, NEW x \in Bits20
  PROVE  /\ Stored(mem, n, x) \in Seq(Bits20)
         /\ Len(Stored(mem, n, x)) = IF n > Len(mem) THEN n ELSE Len(mem)
<1>1. Len(mem) \in Nat /\ \A i \in 1..Len(mem) : mem[i] \in Bits20
  OBVIOUS
<1>2. PICK m \in Nat : m = IF n > Len(mem) THEN n ELSE Len(mem)
  BY <1>1
<1>3. \A i \in 1..m : i # n => i \in 1..Len(mem)
  BY <1>1, <1>2
<1>4. Stored(mem, n, x) = [i \in 1..m |-> IF i = n THEN x ELSE mem[i]]
  BY <1>2 DEF Stored
<1>5. Stored(mem, n, x) \in [1..m -> Bits20]
  BY <1>1, <1>3, <1>4
<1>6. QED BY <1>2, <1>5

(* A table is begun with its length.                                       *)
LEMMA RamptableKeeps ==
  ASSUME DacInv, NEW c \in Chans, NEW t \in Tables, WriteRamptable(c, t)
  PROVE  DacInv'
<1>1. /\ UNCHANGED <<mode, setpt, par, ramp, play, outs>> /\ left > 0 /\ left' = left - 1
      /\ Len(t) <= MaxTable /\ table' = [table EXCEPT ![c].len = Len(t)]
      /\ whole' = [whole EXCEPT ![c] = FALSE]
      /\ cmd' = IF t = <<>> THEN NoCmd ELSE [NoCmd EXCEPT !.op = "table", !.c = c, !.n = 1, !.tab = t]
  BY DEF WriteRamptable, Command
<1>2. table \in [Chans -> Drams] /\ Len(table[c].mem) <= MaxTable /\ play \in [Chans -> Plays]
  BY DEF DacInv, FpgaType
<1>3. t \in Seq(Int) /\ Len(t) \in Nat /\ (t # <<>> => Len(t) >= 1)
  BY DacAssumption, EmptySeq, LenProperties
<1>4. Len(t) \in 0..AddrMod - 1
  BY <1>1, <1>3, Constants
<1>5. PICK d \in Drams : d = [table[c] EXCEPT !.len = Len(t)] /\ d.mem = table[c].mem
  <2>1. table[c] \in Drams
    BY <1>2
  <2>2. [table[c] EXCEPT !.len = Len(t)] \in Drams /\ [table[c] EXCEPT !.len = Len(t)].mem = table[c].mem
    BY <1>2, <1>4, <2>1 DEF Drams
  <2>3. QED BY <2>2
<1>6. table' = [table EXCEPT ![c] = d]
  BY <1>1, <1>5
<1>7. /\ table' \in [Chans -> Drams] /\ whole' \in [Chans -> BOOLEAN]
      /\ \A e \in Chans : Len(table'[e].mem) <= MaxTable
      /\ \A e \in Chans : RunInv(e)'
  BY <1>1, <1>2, <1>5, <1>6, OtherRuns
<1>8. CmdType'
  <2>1. left' \in 0..MaxCommands
    BY <1>1, Counted DEF DacInv
  <2>2. CASE t = <<>>
    BY <1>1, <2>1, <2>2, NoCmdType DEF CmdType, NoCmd
  <2>3. CASE t # <<>>
    <3>1. cmd' = [op |-> "table", c |-> c, n |-> 1, new |-> 0, cur |-> 0, p |-> NoPar, tab |-> t]
      BY <1>1, <2>3 DEF NoCmd
    <3>2. cmd' \in Cmds
      BY <1>3, <3>1, NoCmdType, Numbers DEF Cmds
    <3>3. table'[c].mem \in Seq(Bits20)
      BY <1>7 DEF Drams
    <3>4. 1 <= Len(table'[c].mem) + 1
      BY <3>3, LenProperties
    <3>5. 1 \in 1..Len(t)
      BY <1>3, <2>3
    <3>6. QED BY <1>1, <2>1, <3>1, <3>2, <3>4, <3>5 DEF CmdType
  <2>4. QED BY <2>2, <2>3
<1>9. QED BY <1>1, <1>2, <1>7, <1>8, TableFrame

(* A length of its own.                                                    *)
LEMMA RamplenKeeps ==
  ASSUME DacInv, NEW c \in Chans, NEW n \in Lengths, SetRamplen(c, n)
  PROVE  DacInv'
<1>1. /\ UNCHANGED <<cmd, mode, setpt, par, ramp, play, outs>> /\ left > 0 /\ left' = left - 1
      /\ table' = [table EXCEPT ![c].len = n % AddrMod] /\ whole' = [whole EXCEPT ![c] = FALSE]
  BY DEF SetRamplen, Command
<1>2. table \in [Chans -> Drams] /\ Len(table[c].mem) <= MaxTable /\ play \in [Chans -> Plays]
  BY DEF DacInv, FpgaType
<1>3. n % AddrMod \in 0..AddrMod - 1
  <2>1. n \in Nat /\ AddrMod \in Nat /\ AddrMod > 0
    BY DacAssumption
  <2>2. QED BY <2>1
<1>4. PICK d \in Drams : d = [table[c] EXCEPT !.len = n % AddrMod] /\ d.mem = table[c].mem
  <2>1. table[c] \in Drams
    BY <1>2
  <2>2. [table[c] EXCEPT !.len = n % AddrMod] \in Drams /\ [table[c] EXCEPT !.len = n % AddrMod].mem = table[c].mem
    BY <1>2, <1>3, <2>1 DEF Drams
  <2>3. QED BY <2>2
<1>5. table' = [table EXCEPT ![c] = d]
  BY <1>1, <1>4
<1>6. /\ table' \in [Chans -> Drams] /\ whole' \in [Chans -> BOOLEAN]
      /\ \A e \in Chans : Len(table'[e].mem) <= MaxTable
      /\ \A e \in Chans : RunInv(e)'
  BY <1>1, <1>2, <1>4, <1>5, OtherRuns
<1>7. \A e \in Chans : table'[e].mem = table[e].mem
  BY <1>2, <1>4, <1>5
<1>8. left' \in 0..MaxCommands
  BY <1>1, Counted DEF DacInv
<1>9. CmdType'
  BY <1>1, <1>7, <1>8 DEF DacInv, CmdType
<1>10. QED BY <1>1, <1>2, <1>6, <1>9, TableFrame

(* The next point.                                                         *)
LEMMA PointKeeps ==
  ASSUME DacInv, WritePoint
  PROVE  DacInv'
<1>1. /\ UNCHANGED <<left, mode, setpt, par, ramp, play, outs>> /\ cmd.op = "table"
      /\ table' = [table EXCEPT ![cmd.c].mem = Stored(@, cmd.n, Wrap20(Saturated(cmd.tab[cmd.n])))]
      /\ whole' = [whole EXCEPT ![cmd.c] = FALSE]
      /\ cmd' = IF cmd.n = Len(cmd.tab) THEN NoCmd ELSE [cmd EXCEPT !.n = @ + 1]
  BY DEF WritePoint
<1>2. /\ cmd \in Cmds /\ cmd.c \in Chans /\ cmd.n \in 1..Len(cmd.tab) /\ Len(cmd.tab) <= MaxTable
      /\ cmd.n <= Len(table[cmd.c].mem) + 1 /\ left \in 0..MaxCommands
      /\ table \in [Chans -> Drams] /\ Len(table[cmd.c].mem) <= MaxTable /\ play \in [Chans -> Plays]
  BY <1>1 DEF DacInv, CmdType, FpgaType
<1>3. PICK c \in Chans, n \in Nat, x \in Bits20 : c = cmd.c /\ n = cmd.n /\ x = Wrap20(Saturated(cmd.tab[cmd.n]))
  <2>1. cmd.tab \in Seq(Int) /\ cmd.n \in Nat
    BY <1>2 DEF Cmds
  <2>2. Saturated(cmd.tab[cmd.n]) \in Int
    BY <1>2, <2>1, Constants DEF Saturated
  <2>3. QED BY <1>2, <2>1, <2>2, CutTypes
<1>4. PICK mem \in Seq(Bits20) : mem = table[c].mem
  BY <1>2 DEF Drams
<1>5. Len(mem) \in Nat /\ n > 0 /\ n <= Len(mem) + 1 /\ n <= MaxTable /\ Len(mem) <= MaxTable
  <2>1. Len(mem) \in Nat /\ Len(cmd.tab) \in Nat /\ MaxTable \in Nat
    BY <1>2, Constants, LenProperties DEF Cmds
  <2>2. QED BY <1>2, <1>3, <1>4, <2>1
<1>6. PICK new \in Seq(Bits20) : new = Stored(mem, n, x) /\ Len(new) = IF n > Len(mem) THEN n ELSE Len(mem)
  BY <1>5, StoredType
<1>7. PICK d \in Drams : d = [table[c] EXCEPT !.mem = new] /\ d.mem = new
  <2>1. table[c] \in Drams
    BY <1>2
  <2>2. [table[c] EXCEPT !.mem = new] \in Drams /\ [table[c] EXCEPT !.mem = new].mem = new
    BY <1>2, <2>1 DEF Drams
  <2>3. QED BY <2>2
<1>8. table' = [table EXCEPT ![c] = d]
  BY <1>1, <1>3, <1>4, <1>6, <1>7
<1>9. Len(new) <= MaxTable /\ n <= Len(new)
  BY <1>5, <1>6
<1>10. /\ table' \in [Chans -> Drams] /\ whole' \in [Chans -> BOOLEAN]
       /\ \A e \in Chans : Len(table'[e].mem) <= MaxTable
       /\ \A e \in Chans : RunInv(e)'
  BY <1>1, <1>3, <1>7, <1>8, <1>9, OtherRuns
<1>11. CmdType'
  <2>1. CASE cmd.n = Len(cmd.tab)
    BY <1>1, <1>2, <2>1, NoCmdType DEF CmdType, NoCmd
  <2>2. CASE cmd.n # Len(cmd.tab)
    <3>1. Len(cmd.tab) \in Nat
      BY <1>2, LenProperties DEF Cmds
    <3>2. n + 1 \in 1..Len(cmd.tab) /\ n + 1 \in Nat
      BY <1>2, <1>3, <2>2, <3>1
    <3>3. cmd' = [cmd EXCEPT !.n = n + 1]
      BY <1>1, <1>3, <2>2
    <3>4. cmd' \in Cmds /\ cmd'.op = "table" /\ cmd'.c = c /\ cmd'.n = n + 1 /\ cmd'.tab = cmd.tab
      BY <1>1, <1>2, <1>3, <3>2, <3>3 DEF Cmds
    <3>5. table'[c].mem = new
      BY <1>2, <1>7, <1>8
    <3>6. n + 1 <= Len(table'[c].mem) + 1
      BY <1>6, <1>9, <3>5, LenProperties
    <3>7. QED BY <1>1, <1>2, <3>2, <3>4, <3>6 DEF CmdType
  <2>3. QED BY <2>1, <2>2
<1>12. QED BY <1>1, <1>2, <1>10, <1>11, TableFrame

(* A run is started only from idle, at the first address.                  *)
LEMMA RunRampKeeps ==
  ASSUME DacInv, NEW c \in Chans, RunRamp(c)
  PROVE  DacInv'
<1>1. /\ UNCHANGED <<cmd, mode, setpt, par, ramp, table, outs>> /\ left > 0 /\ left' = left - 1
      /\ play' = [play EXCEPT ![c] = Started(c)]
      /\ whole' = [whole EXCEPT ![c] =
                     IF play'[c] = play[c] THEN @
                     ELSE ~(cmd.op = "table" /\ cmd.c = c) /\ table[c].len <= Len(table[c].mem)]
  BY DEF RunRamp
<1>2. /\ table \in [Chans -> Drams] /\ play \in [Chans -> Plays] /\ whole \in [Chans -> BOOLEAN]
      /\ \A e \in Chans : RunInv(e) /\ Len(table[e].mem) <= MaxTable
  BY DEF DacInv, FpgaType
<1>3. left' \in 0..MaxCommands
  BY <1>1, Counted DEF DacInv
<1>4. CmdType'
  BY <1>1, <1>3 DEF DacInv, CmdType
<1>5. whole' \in [Chans -> BOOLEAN]
  BY <1>1, <1>2, Zenon
<1>6. CASE play[c].st = "IDLE" /\ mode[c] = RAMP
  <2>1. play[c] \in Plays /\ 0 \in 0..AddrMod - 1
    BY <1>2, Constants
  <2>2. PICK q \in Plays : q = Started(c) /\ q.st = "RUN_RAMP" /\ q.addr = 0
    <3>1. Started(c) = [play[c] EXCEPT !.st = "RUN_RAMP", !.addr = 0]
      BY <1>6 DEF Started
    <3>2. Started(c) \in Plays /\ Started(c).st = "RUN_RAMP" /\ Started(c).addr = 0
      BY <2>1, <3>1 DEF Plays
    <3>3. QED BY <3>2
  <2>3. play' \in [Chans -> Plays] /\ play'[c] = q
    BY <1>1, <1>2, <2>2
  <2>4. whole'[c] => table[c].len <= Len(table[c].mem)
    <3>1. q # play[c]
      BY <1>6, <2>2
    <3>2. QED BY <1>1, <1>2, <2>3, <3>1
  <2>5. ASSUME NEW e \in Chans PROVE RunInv(e)'
    <3>1. CASE e = c
      <4>1. 0 <= table[c].len
        BY <1>2, Constants DEF Drams
      <4>2. play'[e].st = "RUN_RAMP" /\ play'[e].addr = 0
        BY <2>2, <2>3, <3>1
      <4>3. QED BY <1>1, <2>4, <3>1, <4>1, <4>2 DEF RunInv
    <3>2. CASE e # c
      <4>1. play'[e] = play[e] /\ whole'[e] = whole[e]
        BY <1>1, <1>2, <3>2
      <4>2. QED BY <1>1, <1>2, <4>1 DEF RunInv
    <3>3. QED BY <3>1, <3>2
  <2>6. QED BY <1>1, <1>2, <1>4, <1>5, <2>3, <2>5, TableFrame
<1>7. CASE ~(play[c].st = "IDLE" /\ mode[c] = RAMP)
  <2>1. Started(c) = play[c]
    BY <1>7 DEF Started
  <2>2. play' = play
    BY <1>1, <1>2, <2>1
  <2>3. whole' = whole
    BY <1>1, <1>2, <2>2
  <2>4. QED BY <1>1, <1>2, <1>4, <2>2, <2>3, TableFrame DEF RunInv
<1>8. QED BY <1>6, <1>7

-----------------------------------------------------------------------------
(* The 10 kHz sample.                                                      *)

(* A step of the smooth ramp.                                              *)
LEMMA SmoothStepType ==
  ASSUME FpgaType, NEW c \in Chans
  PROVE  /\ SmoothStep(c) \in Ramps
         /\ SmoothStep(c).st = "IDLE" => SmoothStep(c).prev = setpt[c]
<1>1. /\ ramp[c] \in Ramps /\ par[c] \in Pars /\ setpt[c] \in Bits20
      /\ ramp[c].st = "IDLE" => ramp[c].prev = setpt[c]
  BY DEF FpgaType
<1>2. SlopeMax \in Nat
  BY Constants DEF SlopeMax
<1>3. par[c].dy \in Int /\ \A d \in Chans : par[d].dyp \in Int
  BY <1>2 DEF FpgaType, Pars, Slopes
<1>4. PICK e \in Int : e = DyPerPt(c)
  <2>1. LoMod \in Nat /\ LoMod > 0
    BY Constants
  <2>2. \A x \in Int : x % LoMod \in Int
    BY <2>1
  <2>3. DyPerPt(c) \in Int
    BY <1>3, <2>2 DEF DyPerPt, OwnWords
  <2>4. QED BY <2>3
<1>5. PICK r \in Ramps, p \in Pars : r = ramp[c] /\ p = par[c]
  BY <1>1
<1> DEFINE Add(step) == [r EXCEPT !.last = @ + step, !.cnt = @ + 1]
<1>6. \A x \in Int : Add(x) \in Ramps /\ Add(x).st = r.st
  <2>1. SUFFICES ASSUME NEW x \in Int PROVE Add(x) \in Ramps /\ Add(x).st = r.st
    OBVIOUS
  <2>2. r.last + x \in Int /\ r.cnt + 1 \in Nat
    BY DEF Ramps
  <2>3. QED BY <2>2 DEF Ramps
<1>7. r.cnt * e \in Int /\ (r.total - r.cnt) * e \in Int
  <2>1. r.cnt \in Int /\ r.total \in Int
    BY DEF Ramps
  <2>2. QED BY <2>1
<1>8. CASE r.st = "IDLE"
  <2>1. SmoothStep(c) = r
    BY <1>5, <1>8 DEF SmoothStep
  <2>2. QED BY <1>1, <1>5, <2>1
<1>9. CASE r.st = "START_CURVED"
  <2>1. SmoothStep(c) = IF r.cnt < p.clen THEN Add(r.cnt * e) ELSE [r EXCEPT !.st = "LINEAR"]
    BY <1>4, <1>5, <1>9 DEF SmoothStep
  <2>2. [r EXCEPT !.st = "LINEAR"] \in Ramps /\ [r EXCEPT !.st = "LINEAR"].st = "LINEAR"
    BY DEF Ramps
  <2>3. Add(r.cnt * e) \in Ramps /\ Add(r.cnt * e).st = "START_CURVED"
    BY <1>6, <1>7, <1>9
  <2> HIDE DEF Add
  <2>4. QED BY <2>1, <2>2, <2>3
<1>10. CASE r.st = "LINEAR"
  <2>1. SmoothStep(c) = IF r.cnt < p.clen + p.llen THEN Add(p.dy) ELSE [r EXCEPT !.st = "END_CURVED"]
    BY <1>5, <1>10 DEF SmoothStep
  <2>2. [r EXCEPT !.st = "END_CURVED"] \in Ramps /\ [r EXCEPT !.st = "END_CURVED"].st = "END_CURVED"
    BY DEF Ramps
  <2>3. Add(p.dy) \in Ramps /\ Add(p.dy).st = "LINEAR"
    BY <1>3, <1>5, <1>6, <1>10
  <2> HIDE DEF Add
  <2>4. QED BY <2>1, <2>2, <2>3
<1>11. CASE r.st = "END_CURVED"
  <2>1. SmoothStep(c) = IF r.cnt < r.total THEN Add((r.total - r.cnt) * e) ELSE Noticed(c, setpt[c])
    BY <1>4, <1>5, <1>11 DEF SmoothStep
  <2>2. Noticed(c, setpt[c]) \in Ramps /\ (Noticed(c, setpt[c]).st = "IDLE" => Noticed(c, setpt[c]).prev = setpt[c])
    BY <1>1, NoticedType
  <2>3. Add((r.total - r.cnt) * e) \in Ramps /\ Add((r.total - r.cnt) * e).st = "END_CURVED"
    BY <1>6, <1>7, <1>11
  <2> HIDE DEF Add
  <2>4. QED BY <2>1, <2>2, <2>3
<1>12. QED BY <1>8, <1>9, <1>10, <1>11 DEF Ramps

(* A step of the table player: it stays in its address space.              *)
LEMMA PlayStepType ==
  ASSUME FpgaType, NEW c \in Chans
  PROVE  PlayStep(c) \in Plays
<1>1. PICK p \in Plays, d \in Drams : p = play[c] /\ d = table[c]
  BY DEF FpgaType
<1>2. CASE p.st = "IDLE"
  BY <1>1, <1>2 DEF PlayStep
<1>3. CASE p.st # "IDLE"
  <2>1. (p.addr + 1) % AddrMod \in 0..AddrMod - 1
    <3>1. p.addr \in Nat /\ AddrMod \in Nat /\ AddrMod > 0
      BY Constants DEF Plays
    <3>2. QED BY <3>1
  <2>2. PICK x \in Bits20 : x = IF p.addr < Len(d.mem) THEN d.mem[p.addr + 1] ELSE 0
    <3>1. d.mem \in Seq(Bits20) /\ p.addr \in Nat /\ 0 \in Bits20
      BY Constants DEF Plays, Drams, Bits20
    <3>2. p.addr < Len(d.mem) => d.mem[p.addr + 1] \in Bits20
      BY <3>1
    <3>3. QED BY <3>1, <3>2
  <2>3. PlayStep(c) = IF (p.addr + 1) % AddrMod > d.len THEN [p EXCEPT !.st = "IDLE"]
                      ELSE [p EXCEPT !.addr = (p.addr + 1) % AddrMod, !.out = x]
    BY <1>1, <1>3, <2>2 DEF PlayStep
  <2>4. [p EXCEPT !.st = "IDLE"] \in Plays
    BY DEF Plays
  <2>5. [p EXCEPT !.addr = (p.addr + 1) % AddrMod, !.out = x] \in Plays
    BY <2>1 DEF Plays
  <2>6. QED BY <2>3, <2>4, <2>5
<1>4. QED BY <1>2, <1>3

(* An undisturbed run goes from point to point and stops behind the last.  *)
LEMMA PlayRuns ==
  ASSUME FpgaType, NEW c \in Chans, RunInv(c), play'[c] = PlayStep(c),
         table'[c] = table[c], whole'[c] = whole[c]
  PROVE  RunInv(c)'
<1>1. SUFFICES ASSUME whole[c]
               PROVE  /\ play'[c].st = "IDLE" /\ table[c].len > 0 => play'[c].out = table[c].mem[table[c].len]
                      /\ play'[c].st = "RUN_RAMP" =>
                           /\ play'[c].addr <= table[c].len
                           /\ play'[c].addr > 0 => play'[c].out = table[c].mem[play'[c].addr]
  BY DEF RunInv
<1>2. PICK p \in Plays, d \in Drams : p = play[c] /\ d = table[c]
  BY DEF FpgaType
<1>3. /\ d.len <= Len(d.mem) /\ Len(d.mem) <= MaxTable
      /\ p.st = "IDLE" /\ d.len > 0 => p.out = d.mem[d.len]
      /\ p.st = "RUN_RAMP" => p.addr <= d.len /\ (p.addr > 0 => p.out = d.mem[p.addr])
  BY <1>1, <1>2 DEF RunInv, FpgaType
<1>4. p.addr \in Nat /\ d.len \in Nat /\ Len(d.mem) \in Nat /\ MaxTable \in Nat /\ AddrMod \in Nat
      /\ MaxTable + 1 < AddrMod
  BY Constants, LenProperties DEF Plays, Drams
<1>5. CASE p.st = "IDLE"
  <2>1. PlayStep(c) = p
    BY <1>2, <1>5 DEF PlayStep
  <2>2. QED BY <1>2, <1>3, <1>5, <2>1
<1>6. CASE p.st = "RUN_RAMP"
  <2>1. p.addr + 1 \in 0..AddrMod - 1
    BY <1>3, <1>4, <1>6
  <2>2. (p.addr + 1) % AddrMod = p.addr + 1
    BY <1>4, <2>1
  <2>3. CASE p.addr + 1 > d.len
    <3>1. play'[c] = [p EXCEPT !.st = "IDLE"]
      BY <1>2, <1>6, <2>2, <2>3 DEF PlayStep
    <3>2. play'[c].st = "IDLE" /\ play'[c].out = p.out
      BY <3>1 DEF Plays
    <3>3. p.addr = d.len
      BY <1>3, <1>4, <1>6, <2>3
    <3>4. QED BY <1>2, <1>3, <1>6, <3>2, <3>3
  <2>4. CASE ~(p.addr + 1 > d.len)
    <3>1. p.addr < Len(d.mem)
      BY <1>3, <1>4, <2>4
    <3>2. play'[c] = [p EXCEPT !.addr = p.addr + 1, !.out = d.mem[p.addr + 1]]
      BY <1>2, <1>6, <2>2, <2>4, <3>1 DEF PlayStep
    <3>3. play'[c].st = "RUN_RAMP" /\ play'[c].addr = p.addr + 1 /\ play'[c].out = d.mem[p.addr + 1]
      BY <1>6, <3>2 DEF Plays
    <3>4. p.addr + 1 <= d.len
      BY <1>4, <2>4
    <3>5. QED BY <1>2, <3>3, <3>4
  <2>5. QED BY <2>3, <2>4
<1>7. QED BY <1>5, <1>6 DEF Plays

(* A sample.                                                               *)
LEMMA SampleKeeps ==
  ASSUME DacInv, CalType, Sample
  PROVE  DacInv'
<1>1. PICK fofb \in FofbInputs :
        /\ raw' = [c \in Chans |-> CASE mode[c] = SMOOTH -> RampOut(c)
                                     [] mode[c] = RAMP   -> play[c].out
                                     [] mode[c] = FOFB   -> fofb
                                     [] OTHER            -> setpt[c]]
        /\ dac' = [c \in Chans |-> GainOffset(cal[c], raw'[c])]
        /\ ramp' = [c \in Chans |-> SmoothStep(c)]
        /\ play' = [c \in Chans |-> PlayStep(c)]
        /\ UNCHANGED <<left, cmd, mode, setpt, par, table, whole>>
  BY DEF Sample
<1>2. FpgaType /\ \A c \in Chans : RunInv(c)
  BY DEF DacInv
<1>3. fofb \in Bits20
  BY DacAssumption DEF Bits20
<1>4. \A c \in Chans : RampOut(c) \in Bits20
  <2>1. ASSUME NEW c \in Chans PROVE RampOut(c) \in Bits20
    <3>1. ramp[c].last \in Int
      BY <1>2 DEF FpgaType, Ramps
    <3>2. ramp[c].last \div Frac \in Int
      BY <3>1, Constants, DivFacts
    <3>3. QED BY <3>2, CutTypes DEF RampOut
  <2>2. QED BY <2>1
<1>5. \A c \in Chans : play[c].out \in Bits20 /\ setpt[c] \in Bits20
  BY <1>2 DEF FpgaType, Plays
<1>6. \A c \in Chans : raw'[c] \in Bits20
  <2>1. ASSUME NEW c \in Chans PROVE raw'[c] \in Bits20
    <3>1. mode[c] \in {SMOOTH, RAMP, FOFB, JUMP}
      BY <1>2 DEF FpgaType
    <3>2. raw'[c] \in {RampOut(c), play[c].out, fofb, setpt[c]}
      BY <1>1, <3>1 DEF SMOOTH, RAMP, FOFB, JUMP
    <3>3. QED BY <1>3, <1>4, <1>5, <3>2
  <2>2. QED BY <2>1
<1>7. raw' \in [Chans -> Bits20]
  <2>1. raw' = [c \in Chans |-> raw'[c]]
    BY <1>1
  <2>2. QED BY <1>6, <2>1
<1>8. dac' \in [Chans -> Bits20]
  BY <1>1, <1>6, GainType DEF CalType
<1>9. ramp' \in [Chans -> Ramps] /\ play' \in [Chans -> Plays]
  BY <1>1, <1>2, SmoothStepType, PlayStepType
<1>10. \A c \in Chans : ramp'[c].st = "IDLE" => ramp'[c].prev = setpt'[c]
  BY <1>1, <1>2, SmoothStepType
<1>11. FpgaType'
  BY <1>1, <1>2, <1>7, <1>8, <1>9, <1>10 DEF FpgaType
<1>12. ASSUME NEW c \in Chans PROVE RunInv(c)'
  <2>1. play'[c] = PlayStep(c) /\ table'[c] = table[c] /\ whole'[c] = whole[c]
    BY <1>1
  <2>2. QED BY <1>2, <2>1, PlayRuns
<1>13. CmdType'
  BY <1>1 DEF DacInv, CmdType
<1>14. QED BY <1>1, <1>11, <1>12, <1>13 DEF DacInv

-----------------------------------------------------------------------------
(* Every step keeps the invariant.                                         *)
LEMMA NextInv == DacInv /\ CalType /\ [Next]_vars => DacInv' /\ CalType'
<1>1. SUFFICES ASSUME DacInv, CalType, [Next]_vars PROVE DacInv' /\ CalType'
  OBVIOUS
<1>2. CASE UNCHANGED vars
  <2>1. UNCHANGED <<left, cmd, fpga, outs, whole, table, cal>>
    BY <1>2 DEF vars, fpga
  <2>2. CmdType'
    BY <1>1, <2>1 DEF DacInv, CmdType
  <2>3. QED BY <1>1, <2>1, <2>2, Unchanged DEF CalType
<1>3. CASE Next
  <2>1. DacInv'
    BY <1>1, <1>3, OpmodeKeeps, SetDacKeeps, RamptableKeeps, RefuseKeeps, RamplenKeeps, RunRampKeeps,
       CalKeeps, ParamKeeps, SetptKeeps, PointKeeps, SampleKeeps DEF Next
  <2>2. CASE \E c \in Chans : (\E g \in Gains : SetGain(c, g)) \/ (\E o \in Offsets : SetOffset(c, o))
    BY <1>1, <2>1, <2>2 DEF SetGain, SetOffset, CalType
  <2>3. CASE ~\E c \in Chans : (\E g \in Gains : SetGain(c, g)) \/ (\E o \in Offsets : SetOffset(c, o))
    <3>1. cal' = cal
      BY <1>3, <2>3 DEF Next, Set_dacOpmode, Set_dac, WriteRamptable, RefuseRamptable, SetRamplen, RunRamp,
         WriteParam, WriteSetpt, WritePoint, Sample, fpga
    <3>2. QED BY <1>1, <2>1, <3>1 DEF CalType
  <2>4. QED BY <2>2, <2>3
<1>4. QED BY <1>1, <1>2, <1>3

(* Registers, ramp and player keep their ranges and the table's runs their *)
(* place, in every reachable state.                                        *)
THEOREM InductiveInvariant == Spec => [](DacInv /\ CalType)
BY InitInv, NextInv, PTL DEF Spec

(* Words keep their widths: what the DAC sees is a 20 bit number whatever  *)
(* Set_dac() computed and wherever ramp and player are, slopes are at most *)
(* two bits beyond the limit Calc_WriteLinearSmooth() checks, and the idle  *)
(* ramp always has noticed the setpoint register.                          *)
THEOREM TypeCorrect == Spec => []TypeOK
<1>1. DacInv /\ CalType => TypeOK
  <2>1. SUFFICES ASSUME DacInv, CalType PROVE TypeOK
    OBVIOUS
  <2>2. FpgaType /\ CmdType
    BY <2>1 DEF DacInv
  <2>3. SlopeMax \in Nat /\ SlopeMax = (DyMax + 2) * Frac
    BY Constants DEF SlopeMax
  <2>4. ASSUME NEW c \in Chans
        PROVE  /\ par[c].llen \in Nat /\ par[c].clen \in Nat
               /\ Abs(par[c].dy) <= SlopeMax /\ Abs(par[c].dyp) <= SlopeMax
    BY <2>2, <2>3 DEF FpgaType, Pars, Slopes, Abs
  <2>5. ASSUME NEW c \in Chans
        PROVE  /\ ramp[c].st \in {"IDLE", "START_CURVED", "LINEAR", "END_CURVED"}
               /\ ramp[c].st = "IDLE" => ramp[c].prev = setpt[c]
               /\ play[c].st \in {"IDLE", "RUN_RAMP"} /\ play[c].addr \in 0..AddrMod - 1
    BY <2>2 DEF FpgaType, Ramps, Plays
  <2>6. QED BY <2>1, <2>2, <2>3, <2>4, <2>5 DEF TypeOK, FpgaType, CmdType, Cmds, CalType
<1>2. QED BY <1>1, InductiveInvariant, PTL

(* The player of ramptable_ramp.vhd stops behind the table's last point,   *)
(* for every table and length, unless the table was touched during the     *)
(* run.                                                                    *)
THEOREM TablesLand == Spec => []TableLands
<1>1. DacInv => TableLands
  BY DEF DacInv, RunInv, TableLands
<1>2. QED BY <1>1, InductiveInvariant, PTL

-----------------------------------------------------------------------------
(* Where a smooth ramp is: what has been added since it started, delta     *)
(* below its setpoint, in each of its sections.                            *)

Section(r, C, L, d, e, x) ==
  /\ r.st = "START_CURVED" => r.cnt <= C /\ 2 * x = e * (r.cnt * (r.cnt - 1))
  /\ r.st = "LINEAR" =>
       C <= r.cnt /\ r.cnt <= C + L /\ 2 * x = e * (C * (C - 1)) + 2 * ((r.cnt - C) * d)
  /\ r.st = "END_CURVED" =>
       /\ C + L <= r.cnt /\ r.cnt <= r.total
       /\ 2 * x = (e * (C * (C - 1)) + 2 * (L * d))
                  + e * (C * (C + 1) - (r.total - r.cnt) * (r.total - r.cnt + 1))

Going(c, delta) ==
  LET p == par[c] IN
  /\ p \in Params(delta) /\ Abs(delta) <= 2 * Half /\ p.clen + p.llen > 0
  /\ Abs(Quot(delta, p.clen + p.llen)) <= DyMax
  /\ ramp[c].total = 2 * p.clen + p.llen
  /\ Section(ramp[c], p.clen, p.llen, p.dy, p.dyp, ramp[c].last - (setpt[c] - delta) * Frac)

Landed(c) ==
  2 * Signif * Abs(ramp[c].last - setpt[c] * Frac)
    <= Signif * ramp[c].total * ramp[c].total + 4 * Half * Frac

LandInv(c) ==
  OwnWords(c) /\ clean[c] =>
    IF ramp[c].st = "IDLE" THEN Landed(c) ELSE \E delta \in Int : Going(c, delta)

(* The parameters of a command are those of its own setpoint.              *)
CmdInv ==
  cmd.op = "smooth" =>
    cmd.new \in Bits20 /\ cmd.cur \in Bits20 /\ cmd.p \in Params(cmd.new - cmd.cur)

LandsInv == /\ DacInv /\ CmdInv
            /\ clean \in [Chans -> BOOLEAN]
            /\ \A c \in Chans : LandInv(c)

(* A quotient truncated towards zero has the quotient of the magnitudes.   *)
LEMMA QuotMagnitude ==
  ASSUME NEW x \in Int, NEW y \in Nat, y > 0
  PROVE  /\ Abs(Quot(x, y)) = Abs(x) \div y /\ Abs(x) \div y \in Nat
         /\ Abs(x) \in Nat
<1>1. Abs(x) \in Nat /\ Abs(y) = y
  BY DEF Abs
<1>2. PICK q \in Nat : q = Abs(x) \div y
  BY <1>1
<1>3. Quot(x, y) = q \/ Quot(x, y) = -q
  BY <1>1, <1>2 DEF Quot
<1>4. QED BY <1>1, <1>2, <1>3 DEF Abs

(* A slope over more points is no steeper.                                 *)
LEMMA Gentler ==
  ASSUME NEW x \in Int, NEW y \in Nat, y > 0, NEW n \in Nat, n > 0
  PROVE  Abs(Quot(x, y * n)) <= Abs(Quot(x, y))
<1>1. PICK z \in Nat : z = y * n /\ z > 0
  BY Positive
<1>2. PICK a \in Nat, q \in Nat, p \in Nat :
        a = Abs(x) /\ q = a \div y /\ p = a \div z /\ Abs(Quot(x, y)) = q /\ Abs(Quot(x, z)) = p
  BY <1>1, QuotMagnitude
<1>3. a < y * q + y /\ z * p <= a
  BY <1>1, <1>2, DivFacts
<1>4. y * q + y <= z * (q + 1)
  <2>1. PICK k \in Nat : k = y * (q + 1) /\ k = y * q + y
    OBVIOUS
  <2>2. 1 * k <= n * k
    BY Monotone
  <2>3. n * k = z * (q + 1)
    BY <1>1, <2>1
  <2>4. QED BY <2>1, <2>2, <2>3
<1>5. z * p < z * (q + 1)
  <2>1. PICK f \in Int, g \in Int, h \in Int : f = z * p /\ g = z * (q + 1) /\ h = y * q + y
    OBVIOUS
  <2>2. QED BY <1>3, <1>4, <2>1
<1>6. p < q + 1
  BY <1>1, <1>5, Cancel
<1>7. QED BY <1>1, <1>2, <1>6

(* The slopes are the roundings the ramp's sum needs.                      *)
LEMMA SlopesOf ==
  ASSUME NEW delta \in Int, NEW p \in Params(delta), NEW C \in Nat, NEW L \in Nat, NEW Y \in Nat,
         Y = C + L, Y > 0, C = p.clen, L = p.llen, Abs(Quot(delta, Y)) <= DyMax
  PROVE  /\ p.dy \in Near(delta, Y)
         /\ C > 0 => p.dyp \in Near(delta, Y * C)
<1>1. p.dy \in SlopeOf(delta, Y) /\ p.dyp \in SlopeOf(delta, Y * C)
  BY DEF Params
<1>2. SlopeOf(delta, Y) = Near(delta, Y)
  <2>1. Abs(Quot(delta, Y)) \in Int /\ DyMax \in Int
    BY QuotMagnitude, Constants
  <2>2. QED BY <2>1 DEF SlopeOf
<1>3. ASSUME C > 0 PROVE SlopeOf(delta, Y * C) = Near(delta, Y * C)
  <2>1. Y * C \in Nat /\ Y * C > 0
    BY <1>3, Positive
  <2>2. Abs(Quot(delta, Y * C)) <= Abs(Quot(delta, Y)) /\ Abs(Quot(delta, Y)) \in Int
        /\ Abs(Quot(delta, Y * C)) \in Int /\ DyMax \in Int
    <3>1. Abs(Quot(delta, Y * C)) <= Abs(Quot(delta, Y))
      BY <1>3, Gentler
    <3>2. PICK z \in Nat : z = Y * C /\ z > 0
      BY <2>1
    <3>3. Abs(Quot(delta, Y)) \in Int /\ Abs(Quot(delta, z)) \in Int
      BY <3>2, QuotMagnitude
    <3>4. QED BY <3>1, <3>2, <3>3, Constants
  <2>3. ~(Abs(Quot(delta, Y * C)) > DyMax) /\ Y * C # 0
    BY <2>1, <2>2
  <2>4. QED BY <2>3 DEF SlopeOf
<1>4. QED BY <1>1, <1>2, <1>3

(* A step inside a section, or into the next one.                          *)
LEMMA SectionStep ==
  ASSUME NEW r \in Ramps, NEW C \in Nat, NEW L \in Nat, NEW d \in Int, NEW e \in Int,
         NEW b \in Int, r.total = 2 * C + L, Section(r, C, L, d, e, r.last - b),
         NEW q \in Ramps, q.total = r.total,
         \/ r.st = "START_CURVED" /\ r.cnt < C /\ q.st = r.st
            /\ q.cnt = r.cnt + 1 /\ q.last = r.last + r.cnt * e
         \/ r.st = "START_CURVED" /\ ~(r.cnt < C) /\ q.st = "LINEAR" /\ q.cnt = r.cnt /\ q.last = r.last
         \/ r.st = "LINEAR" /\ r.cnt < C + L /\ q.st = r.st
            /\ q.cnt = r.cnt + 1 /\ q.last = r.last + d
         \/ r.st = "LINEAR" /\ ~(r.cnt < C + L) /\ q.st = "END_CURVED" /\ q.cnt = r.cnt /\ q.last = r.last
         \/ r.st = "END_CURVED" /\ r.cnt < r.total /\ q.st = r.st
            /\ q.cnt = r.cnt + 1 /\ q.last = r.last + (r.total - r.cnt) * e
  PROVE  Section(q, C, L, d, e, q.last - b)
<1>1. PICK n \in Nat, x \in Int, t \in Nat : n = r.cnt /\ x = r.last - b /\ t = r.total
  BY DEF Ramps
<1>2. CASE r.st = "START_CURVED" /\ r.cnt < C
  <2>1. q.st = "START_CURVED" /\ q.cnt = n + 1 /\ q.last - b = x + n * e /\ n + 1 <= C
    BY <1>1, <1>2 DEF Ramps
  <2>2. 2 * x = e * (n * (n - 1))
    BY <1>1, <1>2 DEF Section
  <2>3. 2 * (x + n * e) = e * ((n + 1) * n)
    BY <2>2, CurveUp
  <2>4. (n + 1) - 1 = n
    OBVIOUS
  <2>5. QED BY <2>1, <2>3, <2>4 DEF Section
<1>3. CASE r.st = "START_CURVED" /\ ~(r.cnt < C)
  <2>1. q.st = "LINEAR" /\ q.cnt = C /\ q.last - b = x /\ n = C
    BY <1>1, <1>3 DEF Section
  <2>2. 2 * x = e * (C * (C - 1))
    BY <1>1, <1>3, <2>1 DEF Section
  <2>3. 2 * x = e * (C * (C - 1)) + 2 * ((C - C) * d)
    BY <2>2
  <2>4. QED BY <2>1, <2>3 DEF Section
<1>4. CASE r.st = "LINEAR" /\ r.cnt < C + L
  <2>1. q.st = "LINEAR" /\ q.cnt = n + 1 /\ q.last - b = x + d /\ C <= n + 1 /\ n + 1 <= C + L
    BY <1>1, <1>4 DEF Section, Ramps
  <2>2. PICK w \in Int : w = e * (C * (C - 1))
    OBVIOUS
  <2>3. 2 * x = w + 2 * ((n - C) * d)
    BY <1>1, <1>4, <2>2 DEF Section
  <2>4. 2 * (x + d) = w + 2 * ((n + 1 - C) * d)
    BY <2>3, Straight
  <2>5. 2 * (q.last - b) = e * (C * (C - 1)) + 2 * ((q.cnt - C) * d) /\ C <= q.cnt /\ q.cnt <= C + L
    <3>1. 2 * (q.last - b) = w + 2 * ((n + 1 - C) * d)
      BY <2>1, <2>4, Zenon
    <3>2. 2 * (q.last - b) = w + 2 * ((q.cnt - C) * d)
      <4>1. n + 1 - C = q.cnt - C
        BY <2>1
      <4>2. QED BY <3>1, <4>1, Zenon
    <3>3. 2 * (q.last - b) = e * (C * (C - 1)) + 2 * ((q.cnt - C) * d)
      BY <2>2, <3>2, Zenon
    <3>4. QED BY <2>1, <3>3
  <2>6. QED BY <2>1, <2>5, Zenon DEF Section
<1>5. CASE r.st = "LINEAR" /\ ~(r.cnt < C + L)
  <2>1. q.st = "END_CURVED" /\ q.cnt = C + L /\ q.last - b = x /\ n = C + L /\ q.total = 2 * C + L
    BY <1>1, <1>5 DEF Section
  <2>2. 2 * x = e * (C * (C - 1)) + 2 * ((C + L - C) * d)
    BY <1>1, <1>5, <2>1 DEF Section
  <2>3. C + L - C = L /\ 2 * C + L - (C + L) = C
    OBVIOUS
  <2>4. e * (C * (C + 1) - C * (C + 1)) = 0
    OBVIOUS
  <2>5. 2 * x = e * (C * (C - 1)) + 2 * (L * d) + e * (C * (C + 1) - C * (C + 1))
    <3>1. PICK w \in Int, v \in Int : w = e * (C * (C - 1)) /\ v = L * d
      OBVIOUS
    <3>2. QED BY <2>2, <2>3, <2>4, <3>1
  <2>6. C + L <= C + L /\ C + L <= 2 * C + L
    OBVIOUS
  <2>7. QED BY <2>1, <2>3, <2>5, <2>6 DEF Section
<1>6. CASE r.st = "END_CURVED" /\ r.cnt < r.total
  <2>1. PICK m \in Nat : m = t - n
    BY <1>1, <1>6
  <2>2. /\ q.st = "END_CURVED" /\ q.cnt = n + 1 /\ q.last - b = x + m * e
        /\ q.total - q.cnt = m - 1 /\ C + L <= n + 1 /\ n + 1 <= t /\ q.total = t
    BY <1>1, <1>6, <2>1 DEF Section, Ramps
  <2>3. PICK w \in Int, k \in Int : w = e * (C * (C - 1)) + 2 * (L * d) /\ k = C * (C + 1)
    OBVIOUS
  <2>4. 2 * x = w + e * (k - m * (m + 1))
    BY <1>1, <1>6, <2>1, <2>3 DEF Section
  <2>5. 2 * (x + m * e) = w + e * (k - (m - 1) * m)
    BY <2>4, CurveDown
  <2>6. (m - 1) + 1 = m
    OBVIOUS
  <2>7. QED BY <2>2, <2>3, <2>5, <2>6 DEF Section
<1>7. QED BY <1>2, <1>3, <1>4, <1>5, <1>6

(* A ramp at its end has landed.                                           *)
LEMMA EndLands ==
  ASSUME FpgaType, NEW c \in Chans, NEW delta \in Int, Going(c, delta),
         ramp[c].st = "END_CURVED", ~(ramp[c].cnt < ramp[c].total)
  PROVE  Landed(c)
<1>1. /\ par[c] \in Pars /\ ramp[c] \in Ramps /\ setpt[c] \in Int /\ SlopeMax \in Nat
      /\ Frac \in Nat
  BY Constants DEF FpgaType, Bits20, SlopeMax
<1>2. PICK C \in Nat, L \in Nat, d \in Int, e \in Int :
        C = par[c].clen /\ L = par[c].llen /\ d = par[c].dy /\ e = par[c].dyp
  BY <1>1 DEF Pars, Slopes
<1>3. PICK Y \in Nat : Y = C + L
  OBVIOUS
<1>4. /\ par[c] \in Params(delta) /\ Y > 0 /\ Abs(Quot(delta, Y)) <= DyMax
      /\ ramp[c].total = 2 * C + L /\ Abs(delta) <= 2 * Half
  BY <1>2, <1>3 DEF Going
<1>5. PICK D \in Int, S \in Nat, E \in Nat : D = delta * Frac /\ S = Signif /\ S > 0 /\ E = 2 * Abs(D)
  BY <1>1, Constants DEF Abs
<1>6. d \in Near(delta, Y) /\ (C > 0 => e \in Near(delta, Y * C))
  BY <1>2, <1>3, <1>4, SlopesOf
<1>7. 2 * (Y * (S * d)) - 2 * (S * D) <= S * Y + E /\ -(S * Y + E) <= 2 * (Y * (S * d)) - 2 * (S * D)
  <2>1. S * (2 * (Y * d)) - S * (2 * D) <= S * Y + E /\ -(S * Y + E) <= S * (2 * (Y * d)) - S * (2 * D)
    BY <1>4, <1>5, <1>6, NearError
  <2>2. S * (2 * (Y * d)) - S * (2 * D) = 2 * (Y * (S * d)) - 2 * (S * D)
    OBVIOUS
  <2>3. QED BY <2>1, <2>2, Zenon
<1>8. C > 0 => /\ 2 * ((Y * C) * (S * e)) - 2 * (S * D) <= S * (Y * C) + E
               /\ -(S * (Y * C) + E) <= 2 * ((Y * C) * (S * e)) - 2 * (S * D)
  <2>1. ASSUME C > 0
        PROVE  /\ 2 * ((Y * C) * (S * e)) - 2 * (S * D) <= S * (Y * C) + E
               /\ -(S * (Y * C) + E) <= 2 * ((Y * C) * (S * e)) - 2 * (S * D)
    <3>1. PICK z \in Nat : z = Y * C /\ z > 0
      BY <1>4, <2>1, Positive
    <3>2. S * (2 * (z * e)) - S * (2 * D) <= S * z + E /\ -(S * z + E) <= S * (2 * (z * e)) - S * (2 * D)
      BY <1>5, <1>6, <2>1, <3>1, NearError
    <3>3. S * (2 * (z * e)) - S * (2 * D) = 2 * (z * (S * e)) - 2 * (S * D)
      OBVIOUS
    <3>4. QED BY <3>1, <3>2, <3>3, Zenon
  <2>2. QED BY <2>1
<1>9. PICK x \in Int, t \in Nat, n \in Nat :
        x = ramp[c].last - (setpt[c] - delta) * Frac /\ t = ramp[c].total /\ n = ramp[c].cnt
  BY <1>1 DEF Ramps
<1>10. t - n = 0 /\ 2 * x = (e * (C * (C - 1)) + 2 * (L * d)) + e * (C * (C + 1) - (t - n) * (t - n + 1))
  <2>1. Section(ramp[c], C, L, d, e, x)
    BY <1>2, <1>9 DEF Going
  <2>2. n <= t /\ 2 * x = (e * (C * (C - 1)) + 2 * (L * d)) + e * (C * (C + 1) - (t - n) * (t - n + 1))
    BY <1>9, <2>1, Zenon DEF Section
  <2>3. QED BY <1>9, <2>2
<1>11. x = (C * C) * e + L * d
  <2>1. 2 * x = (e * (C * (C - 1)) + 2 * (L * d)) + e * (C * (C + 1) - 0 * (0 + 1))
    BY <1>10, Zenon
  <2>2. e * (C * (C - 1)) + e * (C * (C + 1) - 0 * (0 + 1)) = 2 * ((C * C) * e)
    OBVIOUS
  <2>3. PICK u \in Int, v \in Int, w \in Int, z \in Int :
          /\ u = e * (C * (C - 1)) /\ v = e * (C * (C + 1) - 0 * (0 + 1))
          /\ w = L * d /\ z = (C * C) * e
    OBVIOUS
  <2>4. QED BY <2>1, <2>2, <2>3
<1>12. 2 * S * Abs(x - D) <= S * ((2 * C + L) * (2 * C + L)) + E
  <2>1. PICK dS \in Int, eS \in Int, DS \in Int, xS \in Int :
          dS = S * d /\ eS = S * e /\ DS = S * D /\ xS = S * x
    OBVIOUS
  <2>2. xS = (C * C) * eS + L * dS
    BY <1>11, <2>1
  <2>3. 2 * Abs(xS - DS) <= S * ((2 * C + L) * (2 * C + L)) + E
    <3>1. 2 * (Y * dS) - 2 * DS <= S * Y + E /\ -(S * Y + E) <= 2 * (Y * dS) - 2 * DS
      BY <1>7, <2>1, Zenon
    <3>2. C > 0 => /\ 2 * ((Y * C) * eS) - 2 * DS <= S * (Y * C) + E
                   /\ -(S * (Y * C) + E) <= 2 * ((Y * C) * eS) - 2 * DS
      BY <1>8, <2>1, Zenon
    <3>3. QED BY <1>3, <1>4, <2>2, <3>1, <3>2, SumOfSteps
  <2>4. xS - DS = S * (x - D)
    BY <2>1
  <2>5. 2 * Abs(S * (x - D)) = 2 * S * Abs(x - D)
    <3>1. PICK w \in Int : w = x - D
      OBVIOUS
    <3>2. S * w >= 0 <=> w >= 0
      BY <1>5
    <3>3. 2 * Abs(S * w) = 2 * S * Abs(w)
      BY <3>2 DEF Abs
    <3>4. QED BY <3>1, <3>3
  <2>6. QED BY <2>3, <2>4, <2>5, Zenon
<1>13. x - D = ramp[c].last - setpt[c] * Frac
  <2>1. PICK a \in Int, y \in Int : a = ramp[c].last /\ y = setpt[c]
    BY <1>1 DEF Ramps
  <2>2. x = a - (y - delta) * Frac
    BY <1>9, <2>1
  <2>3. (y - delta) * Frac = y * Frac - delta * Frac
    BY <1>1
  <2>4. QED BY <1>1, <1>5, <2>1, <2>2, <2>3
<1>14. E <= 4 * Half * Frac
  <2>1. Half \in Nat /\ Abs(delta) \in Nat
    BY Constants DEF Abs
  <2>2. Abs(D) = Abs(delta) * Frac
    BY <1>1, <1>5 DEF Abs
  <2>3. Abs(delta) * Frac <= (2 * Half) * Frac
    BY <1>1, <1>4, <2>1, Monotone
  <2>4. QED BY <1>1, <1>5, <2>1, <2>2, <2>3
<1>15. PICK u \in Int, t2 \in Int, f \in Int :
         u = 2 * S * Abs(x - D) /\ t2 = S * ((2 * C + L) * (2 * C + L)) /\ f = 4 * Half * Frac
  BY <1>1, Constants DEF Abs
<1>16. u <= t2 + f
  BY <1>12, <1>14, <1>15
<1>17. t2 = S * ramp[c].total * ramp[c].total
  BY <1>4, <1>15
<1>18. QED BY <1>5, <1>13, <1>15, <1>16, <1>17 DEF Landed

(* What Set_dac() computes fits the setpoint register.                     *)
LEMMA SetpointFits ==
  ASSUME NEW c \in Chans, NEW amps \in Int
  PROVE  Setpoint(c, amps) \in Bits20 /\ Wrap20(Setpoint(c, amps)) = Setpoint(c, amps)
<1>1. PICK F \in Int, K \in Nat, M \in Nat, V \in Nat :
        F = Factor[c] /\ F # 0 /\ K = Conv /\ K > 0 /\ V = MaxVolts /\ V > 0 /\ M = V * K /\ M <= Half
  BY DacAssumption
<1>2. PICK N \in Int : N = amps * K
  OBVIOUS
<1>3. M > 0 /\ M \in Nat
  BY <1>1, Positive
<1>4. PICK q \in Int : q = Quot(N, F)
  <2>1. PICK g \in Nat, h \in Nat : g = Abs(N) /\ h = Abs(F) /\ h > 0
    BY <1>1 DEF Abs
  <2>2. g \div h \in Int
    BY <2>1
  <2>3. QED BY <2>1, <2>2 DEF Quot
<1>5. ASSUME ~(N > (M - 1) * F), ~(amps < -(V * F))
      PROVE  -M <= q /\ q <= M - 1
  <2>1. F > 0
    <3>1. ASSUME F < 0 PROVE FALSE
      <4>1. (M - 1) * F <= 0
        BY <1>3, <3>1
      <4>2. V * F < 0
        BY <1>1, <3>1
      <4>3. amps > 0
        BY <1>5, <4>2
      <4>4. N > 0
        BY <1>1, <1>2, <4>3
      <4>5. QED BY <1>5, <4>1, <4>4
    <3>2. QED BY <1>1, <3>1
  <2>2. PICK a \in Nat, p \in Nat : a = Abs(N) /\ p = a \div F /\ F * p <= a
    <3>1. Abs(N) \in Nat /\ F \in Nat
      BY <2>1 DEF Abs
    <3>2. Abs(N) \div F \in Nat
      BY <2>1, <3>1
    <3>3. QED BY <2>1, <3>1, <3>2, DivFacts
  <2>3. Abs(F) = F
    BY <2>1 DEF Abs
  <2>4. CASE N < 0
    <3>1. q = -p /\ a = -N
      BY <1>4, <2>1, <2>2, <2>3, <2>4 DEF Quot, Abs
    <3>2. -N <= F * M
      <4>1. (-(V * F)) * K <= amps * K
        BY <1>1, <1>5, Monotone
      <4>2. (-(V * F)) * K = -(F * M)
        BY <1>1
      <4>3. QED BY <1>1, <1>2, <4>1, <4>2
    <3>3. F * p < F * (M + 1)
      <4>1. F * (M + 1) = F * M + F
        BY <1>1
      <4>2. PICK y \in Int, z \in Int : y = F * p /\ z = F * M
        OBVIOUS
      <4>3. QED BY <2>1, <2>2, <3>1, <3>2, <4>1, <4>2
    <3>4. p < M + 1
      BY <1>1, <2>1, <3>3, Cancel
    <3>5. QED BY <1>1, <3>1, <3>4
  <2>5. CASE ~(N < 0)
    <3>1. q = p /\ a = N
      BY <1>4, <2>1, <2>2, <2>3, <2>5 DEF Quot, Abs
    <3>2. F * p < F * M
      <4>1. (M - 1) * F = F * M - F
        BY <1>1
      <4>2. PICK y \in Int, z \in Int : y = F * p /\ z = F * M
        OBVIOUS
      <4>3. QED BY <1>5, <2>1, <2>2, <3>1, <4>1, <4>2
    <3>3. p < M
      BY <1>1, <2>1, <3>2, Cancel
    <3>4. QED BY <1>1, <3>1, <3>3
  <2>6. QED BY <2>4, <2>5
<1>6. Half \in Nat /\ Half > 0
  BY Constants
<1>7. PICK b \in Int : /\ -M <= b /\ b <= M - 1
                       /\ Setpoint(c, amps) = IF c \in Polarity /\ b < 0 THEN 0 ELSE b
  <2>1. Setpoint(c, amps) =
          LET bits == IF N > (M - 1) * F THEN M - 1 ELSE IF amps < -(V * F) THEN -M ELSE q IN
          IF c \in Polarity /\ bits < 0 THEN 0 ELSE bits
    BY <1>1, <1>2, <1>4 DEF Setpoint
  <2>2. PICK b \in Int : b = IF N > (M - 1) * F THEN M - 1 ELSE IF amps < -(V * F) THEN -M ELSE q
    BY <1>3
  <2>3. -M <= b /\ b <= M - 1
    BY <1>3, <1>5, <2>2
  <2>4. QED BY <2>1, <2>2, <2>3
<1>8. Setpoint(c, amps) \in Bits20
  BY <1>1, <1>3, <1>6, <1>7 DEF Bits20
<1>9. \A x \in Bits20 : Wrap20(x) = x
  BY <1>6 DEF Bits20, Wrap20
<1>10. QED BY <1>8, <1>9

(* Where both words of the slope are the channel's own, the slope is.      *)
LEMMA OwnSlope ==
  ASSUME FpgaType, NEW c \in Chans, OwnWords(c)
  PROVE  DyPerPt(c) = par[c].dyp
<1>1. LoMod \in Nat /\ LoMod > 0 /\ SlopeMax \in Nat
  BY Constants DEF SlopeMax
<1>2. PICK e \in Int : e = par[c].dyp
  BY <1>1 DEF FpgaType, Pars, Slopes
<1>3. e % LoMod \in Int
  BY <1>1
<1>4. DyPerPt(c) = e - (e % LoMod) + (e % LoMod)
  BY <1>2 DEF DyPerPt
<1>5. QED BY <1>2, <1>3, <1>4

(* A sample takes a ramp a step further, or it has landed.                 *)
LEMMA GoingSteps ==
  ASSUME FpgaType, NEW c \in Chans, OwnWords(c), NEW delta \in Int, Going(c, delta),
         ramp[c].st # "IDLE", par'[c] = par[c], setpt'[c] = setpt[c], ramp'[c] = SmoothStep(c),
         ~(ramp[c].st = "END_CURVED" /\ ramp'[c].st = "START_CURVED")
  PROVE  IF ramp'[c].st = "IDLE" THEN Landed(c)' ELSE Going(c, delta)'
<1>1. PICK r \in Ramps, q \in Ramps : r = ramp[c] /\ q = ramp'[c]
  BY SmoothStepType DEF FpgaType
<1>2. par[c] \in Pars /\ setpt[c] \in Int /\ SlopeMax \in Nat /\ Frac \in Nat
  BY Constants DEF FpgaType, Bits20, SlopeMax
<1>3. PICK C \in Nat, L \in Nat, d \in Int, e \in Int :
        C = par[c].clen /\ L = par[c].llen /\ d = par[c].dy /\ e = par[c].dyp
  BY <1>2 DEF Pars, Slopes
<1>4. PICK b \in Int : b = (setpt[c] - delta) * Frac
  BY <1>2
<1>5. r.total = 2 * C + L /\ Section(r, C, L, d, e, r.last - b)
  BY <1>1, <1>3, <1>4 DEF Going
<1>6. DyPerPt(c) = e
  BY <1>3, OwnSlope
<1>7. CASE r.st = "END_CURVED" /\ ~(r.cnt < r.total)
  <2>1. Landed(c)
    BY <1>1, <1>7, EndLands
  <2>2. q = Noticed(c, setpt[c])
    BY <1>1, <1>7 DEF SmoothStep
  <2>3. q.st = "IDLE" /\ q.last = r.last /\ q.total = r.total
    BY <1>1, <1>7, <2>2 DEF Noticed, Ramps
  <2>4. QED BY <1>1, <2>1, <2>3 DEF Landed
<1>8. CASE ~(r.st = "END_CURVED" /\ ~(r.cnt < r.total))
  <2>1. /\ q.total = r.total
        /\ \/ r.st = "START_CURVED" /\ r.cnt < C /\ q.st = r.st
              /\ q.cnt = r.cnt + 1 /\ q.last = r.last + r.cnt * e
           \/ r.st = "START_CURVED" /\ ~(r.cnt < C) /\ q.st = "LINEAR" /\ q.cnt = r.cnt /\ q.last = r.last
           \/ r.st = "LINEAR" /\ r.cnt < C + L /\ q.st = r.st
              /\ q.cnt = r.cnt + 1 /\ q.last = r.last + d
           \/ r.st = "LINEAR" /\ ~(r.cnt < C + L) /\ q.st = "END_CURVED" /\ q.cnt = r.cnt /\ q.last = r.last
           \/ r.st = "END_CURVED" /\ r.cnt < r.total /\ q.st = r.st
              /\ q.cnt = r.cnt + 1 /\ q.last = r.last + (r.total - r.cnt) * e
    <3>1. CASE r.st = "START_CURVED"
      BY <1>1, <1>3, <1>6, <3>1 DEF SmoothStep, Ramps
    <3>2. CASE r.st = "LINEAR"
      BY <1>1, <1>3, <3>2 DEF SmoothStep, Ramps
    <3>3. CASE r.st = "END_CURVED"
      BY <1>1, <1>3, <1>6, <1>8, <3>3 DEF SmoothStep, Ramps
    <3>4. QED BY <1>1, <3>1, <3>2, <3>3 DEF Ramps
  <2>2. Section(q, C, L, d, e, q.last - b)
    BY <1>5, <2>1, SectionStep
  <2>3. q.st # "IDLE"
    BY <2>1
  <2>4. Going(c, delta)'
    BY <1>1, <1>3, <1>4, <1>5, <2>1, <2>2, Zenon DEF Going
  <2>5. QED BY <1>1, <2>3, <2>4
<1>9. QED BY <1>7, <1>8

-----------------------------------------------------------------------------
(* LandsInv is inductive.                                                  *)

(* Where neither ramp, setpoint, parameters nor clean change.              *)
LEMMA LandFrame ==
  ASSUME LandsInv, DacInv', CmdInv', UNCHANGED <<setpt, par, ramp, clean>>
  PROVE  LandsInv'
<1>1. ASSUME NEW c \in Chans PROVE LandInv(c)'
  BY DEF LandsInv, LandInv, Landed, Going
<1>2. QED BY <1>1 DEF LandsInv

(* At the start every ramp has landed on 0.                                *)
LEMMA InitLands == Init => LandsInv
<1>1. SUFFICES ASSUME Init PROVE LandsInv
  OBVIOUS
<1>2. DacInv /\ CmdInv
  BY <1>1, InitInv DEF Init, CmdInv, NoCmd
<1>3. clean \in [Chans -> BOOLEAN]
  BY <1>1 DEF Init
<1>4. ASSUME NEW c \in Chans PROVE LandInv(c)
  <2>1. ramp[c].st = "IDLE" /\ ramp[c].last = 0 /\ ramp[c].total = 0 /\ setpt[c] = 0
    BY <1>1 DEF Init, NoRamp
  <2>2. 0 * Frac = 0
    BY Constants
  <2>3. 2 * Signif * Abs(0 - 0) <= Signif * 0 * 0 + 4 * Half * Frac
    BY Constants DEF Abs
  <2>4. QED BY <2>1, <2>2, <2>3 DEF LandInv, Landed
<1>5. QED BY <1>2, <1>3, <1>4 DEF LandsInv

(* A setpoint command computes its parameters.                             *)
LEMMA SetDacLands ==
  ASSUME LandsInv, NEW c \in Chans, NEW amps \in Amps, Set_dac(c, amps)
  PROVE  LandsInv'
<1>1. DacInv' /\ UNCHANGED <<setpt, par, ramp, clean>>
  BY SetDacKeeps DEF LandsInv, Set_dac, fpga
<1>2. Setpoint(c, amps) \in Bits20
  BY SetpointFits, DacAssumption
<1>3. Out(c) \in Bits20
  BY Constants DEF LandsInv, DacInv, FpgaType, Out, Bits20
<1>4. CmdInv'
  <2>1. CASE mode[c] = SMOOTH
    <3>1. PICK p \in Params(Setpoint(c, amps) - Out(c)) :
            cmd' = [NoCmd EXCEPT !.op = "smooth", !.c = c, !.new = Setpoint(c, amps), !.cur = Out(c),
                                 !.n = 1, !.p = p]
      BY <2>1 DEF Set_dac
    <3>2. cmd'.new = Setpoint(c, amps) /\ cmd'.cur = Out(c) /\ cmd'.p = p
      BY <3>1 DEF NoCmd
    <3>3. cmd'.new \in Bits20 /\ cmd'.cur \in Bits20 /\ cmd'.p \in Params(cmd'.new - cmd'.cur)
      BY <1>2, <1>3, <3>2, Zenon
    <3>4. (cmd.new \in Bits20)' /\ (cmd.cur \in Bits20)' /\ (cmd.p \in Params(cmd.new - cmd.cur))'
      BY <3>3 DEF Bits20, Params, Duration, CurvedPts, LinearPts, SlopeOf, Near, Quot, Abs
    <3>5. QED BY <3>4 DEF CmdInv
  <2>2. CASE mode[c] # SMOOTH
    BY <2>2 DEF Set_dac, NoCmd, CmdInv
  <2>3. QED BY <2>1, <2>2
<1>5. QED BY <1>1, <1>4, LandFrame

(* Writing a parameter disturbs a ramp on the way, not one that has        *)
(* landed.                                                                 *)
LEMMA ParamLands ==
  ASSUME LandsInv, WriteParam
  PROVE  LandsInv'
<1>1. DacInv' /\ DacInv
  BY ParamKeeps DEF LandsInv
<1>2. /\ UNCHANGED <<setpt, ramp>> /\ cmd.op = "smooth" /\ cmd' = [cmd EXCEPT !.n = @ + 1]
      /\ par' = [par EXCEPT ![cmd.c][ParamRegs[cmd.n]] = cmd.p[ParamRegs[cmd.n]]]
      /\ clean' = [clean EXCEPT ![cmd.c] = @ /\ ramp[cmd.c].st = "IDLE"]
      /\ clean \in [Chans -> BOOLEAN]
  BY DEF WriteParam, LandsInv
<1>3. cmd.c \in Chans /\ cmd \in Cmds /\ par \in [Chans -> Pars]
  BY <1>1, <1>2 DEF DacInv, CmdType, FpgaType
<1>4. CmdInv'
  <2>1. cmd'.new = cmd.new /\ cmd'.cur = cmd.cur /\ cmd'.p = cmd.p
    BY <1>2, <1>3 DEF Cmds
  <2>2. cmd.new \in Bits20 /\ cmd.cur \in Bits20 /\ cmd.p \in Params(cmd.new - cmd.cur)
    BY <1>2 DEF LandsInv, CmdInv
  <2>3. QED BY <2>1, <2>2 DEF CmdInv
<1>5. clean' \in [Chans -> BOOLEAN]
  BY <1>2, <1>3, Zenon
<1>6. ASSUME NEW c \in Chans PROVE LandInv(c)'
  <2>1. LandInv(c)
    BY DEF LandsInv
  <2>2. CASE c = cmd.c
    <3>1. clean'[c] => clean[c] /\ ramp[c].st = "IDLE"
      BY <1>2, <2>2
    <3>2. QED BY <1>2, <2>1, <3>1 DEF LandInv, Landed
  <2>3. CASE c # cmd.c
    <3>1. clean'[c] = clean[c] /\ par'[c] = par[c]
      BY <1>2, <1>3, <2>3
    <3>2. QED BY <1>2, <2>1, <3>1 DEF LandInv, Landed, Going
  <2>4. QED BY <2>2, <2>3
<1>7. QED BY <1>1, <1>4, <1>5, <1>6 DEF LandsInv

(* A ramp that starts as intended is at the beginning of its way.          *)
LEMMA StartLands ==
  ASSUME LandsInv, cmd.op = "smooth", NEW c \in Chans, c = cmd.c, Intended(cmd),
         setpt' = [setpt EXCEPT ![c] = Wrap20(cmd.new)], setpt'[c] # setpt[c],
         ramp' = [ramp EXCEPT ![c] = IF @.st = "IDLE" THEN Noticed(c, setpt'[c]) ELSE @],
         par' = par
  PROVE  ramp'[c].st # "IDLE" /\ \E delta \in Int : Going(c, delta)'
<1>1. FpgaType /\ cmd \in Cmds /\ cmd.new \in Bits20 /\ cmd.cur \in Bits20
      /\ cmd.p \in Params(cmd.new - cmd.cur)
  BY DEF LandsInv, DacInv, CmdInv, CmdType
<1>2. PICK new \in Int, cur \in Int, delta \in Int :
        new = cmd.new /\ cur = cmd.cur /\ delta = new - cur
  <2>1. cmd.new \in Int /\ cmd.cur \in Int
    BY <1>1 DEF Cmds
  <2>2. cmd.new - cmd.cur \in Int
    BY <2>1
  <2>3. QED BY <2>1, <2>2, Zenon
<1>3. Half \in Nat /\ Half > 0 /\ Frac \in Nat
  BY Constants
<1>4. setpt'[c] = new
  <2>1. Wrap20(new) = new
    <3>1. new + Half \in 0 .. 2 * Half - 1
      BY <1>1, <1>2, <1>3 DEF Bits20
    <3>2. (new + Half) % (2 * Half) = new + Half
      BY <1>3, <3>1
    <3>3. QED BY <1>3, <3>2 DEF Wrap20
  <2>2. QED BY <1>1, <1>2, <2>1 DEF FpgaType
<1>5. /\ ramp[c].st = "IDLE" /\ mode[c] = SMOOTH /\ cur = dac[c] /\ par[c] \in Params(delta)
      /\ par[c].clen + par[c].llen > 0 /\ Abs(Quot(delta, par[c].clen + par[c].llen)) <= DyMax
  BY <1>1, <1>2 DEF Intended
<1>6. ramp'[c] = Noticed(c, new)
  BY <1>1, <1>4, <1>5 DEF FpgaType
<1>7. new # ramp[c].prev
  BY <1>1, <1>4, <1>5 DEF FpgaType
<1>8. ramp'[c] = [st |-> "START_CURVED", cnt |-> 0, total |-> 2 * par[c].clen + par[c].llen,
                  last |-> dac[c] * Frac, prev |-> new]
  BY <1>5, <1>6, <1>7 DEF Noticed
<1>9. PICK q \in Ramps, C \in Nat, L \in Nat, d \in Int, e \in Int :
        q = ramp'[c] /\ C = par[c].clen /\ L = par[c].llen /\ d = par[c].dy /\ e = par[c].dyp
  <2>1. SlopeMax \in Nat /\ par[c] \in Pars
    BY <1>1, Constants DEF FpgaType, SlopeMax
  <2>2. Noticed(c, new) \in Ramps
    BY <1>1, <1>2, NoticedType
  <2>3. par[c].clen \in Nat /\ par[c].llen \in Nat /\ par[c].dy \in Int /\ par[c].dyp \in Int
    BY <2>1 DEF Pars, Slopes
  <2>4. QED BY <1>6, <2>2, <2>3, Zenon
<1>10. PICK x \in Int : x = q.last - (new - delta) * Frac /\ x = 0
  <2>1. new - delta = cur
    BY <1>2
  <2>2. q.last = cur * Frac
    BY <1>5, <1>8, <1>9
  <2>3. cur * Frac \in Int
    BY <1>3
  <2>4. QED BY <2>1, <2>2, <2>3
<1>11. Section(q, C, L, d, e, x)
  <2>1. q.st = "START_CURVED" /\ q.cnt = 0
    BY <1>8, <1>9
  <2>2. 0 <= C /\ 2 * x = e * (0 * (0 - 1))
    BY <1>10
  <2>3. QED BY <2>1, <2>2, Zenon DEF Section
<1>12. Going(c, delta)'
  <2>1. par'[c] = par[c] /\ q.total = 2 * C + L /\ Abs(delta) <= 2 * Half
    BY <1>1, <1>2, <1>3, <1>8, <1>9 DEF Bits20, Abs
  <2>2. Section(ramp'[c], C, L, d, e, ramp'[c].last - (setpt'[c] - delta) * Frac)
    BY <1>4, <1>9, <1>10, <1>11, Zenon
  <2>3. QED BY <1>5, <1>9, <2>1, <2>2, Zenon DEF Going
<1>13. QED BY <1>8, <1>12

(* The setpoint write starts the ramp the parameters were computed for, or *)
(* disturbs one.                                                           *)
LEMMA SetptLands ==
  ASSUME LandsInv, WriteSetpt
  PROVE  LandsInv'
<1>1. DacInv' /\ DacInv /\ FpgaType
  BY SetptKeeps DEF LandsInv, DacInv
<1>2. /\ par' = par /\ cmd.op \in {"smooth", "jump"} /\ cmd' = NoCmd
      /\ setpt' = [setpt EXCEPT ![cmd.c] = Wrap20(cmd.new)]
      /\ ramp' = [ramp EXCEPT ![cmd.c] = IF @.st = "IDLE" THEN Noticed(cmd.c, setpt'[cmd.c]) ELSE @]
      /\ clean' = [clean EXCEPT ![cmd.c] =
                     IF setpt'[cmd.c] = setpt[cmd.c] THEN @ ELSE cmd.op = "smooth" /\ Intended(cmd)]
      /\ clean \in [Chans -> BOOLEAN]
  BY DEF WriteSetpt, LandsInv
<1>3. PICK k \in Chans : k = cmd.c
  BY <1>1, <1>2 DEF DacInv, CmdType
<1>4. CmdInv'
  BY <1>2 DEF CmdInv, NoCmd
<1>5. clean' \in [Chans -> BOOLEAN]
  <2>1. Intended(cmd) \in BOOLEAN
    BY Zenon DEF Intended
  <2>2. PICK v \in BOOLEAN : clean' = [clean EXCEPT ![k] = v]
    <3>1. clean[k] \in BOOLEAN
      BY <1>2, Zenon
    <3>2. CASE setpt'[k] = setpt[k]
      BY <1>2, <1>3, <3>1, <3>2, Zenon
    <3>3. CASE setpt'[k] # setpt[k]
      BY <1>2, <1>3, <2>1, <3>3, Zenon
    <3>4. QED BY <3>2, <3>3
  <2>3. QED BY <1>2, <2>2, Zenon
<1>6. ASSUME NEW c \in Chans PROVE LandInv(c)'
  <2>1. LandInv(c)
    BY DEF LandsInv
  <2>2. CASE c # k
    <3>1. clean'[c] = clean[c] /\ setpt'[c] = setpt[c] /\ ramp'[c] = ramp[c]
      BY <1>1, <1>2, <1>3, <2>2 DEF FpgaType
    <3>2. QED BY <1>2, <2>1, <3>1 DEF LandInv, Landed, Going
  <2>3. CASE c = k /\ setpt'[c] = setpt[c]
    <3>1. clean'[c] = clean[c]
      BY <1>2, <1>3, <2>3
    <3>2. ramp'[c] = ramp[c]
      <4>1. ramp'[c] = IF ramp[c].st = "IDLE" THEN Noticed(c, setpt[c]) ELSE ramp[c]
        BY <1>1, <1>2, <1>3, <2>3 DEF FpgaType
      <4>2. ramp[c] \in Ramps /\ (ramp[c].st = "IDLE" => ramp[c].prev = setpt[c])
        BY <1>1 DEF FpgaType
      <4>3. CASE ramp[c].st = "IDLE"
        <5>1. PICK r \in Ramps : r = ramp[c] /\ r.st = "IDLE" /\ r.prev = setpt[c]
          BY <4>2, <4>3
        <5>2. ramp'[c] = [r EXCEPT !.st = "IDLE", !.prev = setpt[c]]
          BY <4>1, <4>3, <5>1 DEF Noticed
        <5>3. [r EXCEPT !.st = "IDLE", !.prev = setpt[c]] = r
          BY <5>1 DEF Ramps
        <5>4. QED BY <5>1, <5>2, <5>3
      <4>4. QED BY <4>1, <4>3
    <3>3. QED BY <1>2, <2>1, <2>3, <3>1, <3>2 DEF LandInv, Landed, Going
  <2>4. CASE c = k /\ setpt'[c] # setpt[c]
    <3>1. clean'[c] => cmd.op = "smooth" /\ Intended(cmd)
      BY <1>2, <1>3, <2>4
    <3>2. ASSUME cmd.op = "smooth", Intended(cmd)
          PROVE  ramp'[c].st # "IDLE" /\ \E delta \in Int : Going(c, delta)'
      BY <1>2, <1>3, <2>4, <3>2, StartLands
    <3>3. QED BY <3>1, <3>2 DEF LandInv
  <2>5. QED BY <2>2, <2>3, <2>4
<1>7. QED BY <1>1, <1>4, <1>5, <1>6 DEF LandsInv

(* A sample.                                                               *)
LEMMA SampleLands ==
  ASSUME LandsInv, CalType, Sample
  PROVE  LandsInv'
<1>1. DacInv' /\ DacInv /\ FpgaType
  BY SampleKeeps DEF LandsInv, DacInv
<1>2. /\ UNCHANGED <<cmd, setpt, par>> /\ ramp' = [c \in Chans |-> SmoothStep(c)]
      /\ clean' = [c \in Chans |-> clean[c] /\ ~(ramp[c].st = "END_CURVED"
                                                 /\ ramp'[c].st = "START_CURVED")]
      /\ clean \in [Chans -> BOOLEAN]
  BY DEF Sample, LandsInv
<1>3. CmdInv'
  BY <1>2 DEF LandsInv, CmdInv
<1>4. clean' \in [Chans -> BOOLEAN]
  BY <1>2, Zenon
<1>5. ASSUME NEW c \in Chans PROVE LandInv(c)'
  <2>1. LandInv(c)
    BY DEF LandsInv
  <2>2. ramp'[c] = SmoothStep(c)
    BY <1>2
  <2>3. clean'[c] => clean[c] /\ ~(ramp[c].st = "END_CURVED" /\ ramp'[c].st = "START_CURVED")
    BY <1>2
  <2>4. CASE ramp[c].st = "IDLE"
    <3>1. ramp'[c] = ramp[c]
      BY <2>2, <2>4 DEF SmoothStep
    <3>2. QED BY <1>2, <2>1, <2>3, <2>4, <3>1 DEF LandInv, Landed
  <2>5. CASE ramp[c].st # "IDLE"
    <3>1. SUFFICES ASSUME OwnWords(c), clean'[c]
                   PROVE  IF ramp'[c].st = "IDLE" THEN Landed(c)' ELSE \E delta \in Int : Going(c, delta)'
      BY DEF LandInv, OwnWords
    <3>2. PICK delta \in Int : Going(c, delta)
      BY <2>1, <2>3, <2>5, <3>1 DEF LandInv
    <3>3. IF ramp'[c].st = "IDLE" THEN Landed(c)' ELSE Going(c, delta)'
      BY <1>1, <1>2, <2>2, <2>3, <2>5, <3>1, <3>2, GoingSteps
    <3>4. QED BY <3>3
  <2>6. QED BY <2>4, <2>5
<1>6. QED BY <1>1, <1>3, <1>4, <1>5 DEF LandsInv

(* Every step keeps LandsInv.                                              *)
LEMMA NextLands == LandsInv /\ CalType /\ [Next]_vars => LandsInv'
<1>1. SUFFICES ASSUME LandsInv, CalType, [Next]_vars PROVE LandsInv'
  OBVIOUS
<1>2. DacInv'
  BY <1>1, NextInv DEF LandsInv
<1>3. ASSUME UNCHANGED <<setpt, par, ramp, clean>>, cmd' = cmd \/ cmd'.op # "smooth"
      PROVE  LandsInv'
  <2>1. CmdInv'
    BY <1>1, <1>3 DEF LandsInv, CmdInv
  <2>2. QED BY <1>1, <1>2, <1>3, <2>1, LandFrame
<1>4. CASE UNCHANGED vars
  BY <1>3, <1>4 DEF vars, fpga
<1>5. CASE \E c \in Chans : \E m \in {SMOOTH, RAMP, FOFB, JUMP} : Set_dacOpmode(c, m)
  BY <1>3, <1>5 DEF Set_dacOpmode
<1>6. CASE \E c \in Chans : \E t \in Tables : WriteRamptable(c, t) \/ RefuseRamptable(c, t)
  <2>1. PICK c \in Chans, t \in Tables : WriteRamptable(c, t) \/ RefuseRamptable(c, t)
    BY <1>6
  <2>2. CASE WriteRamptable(c, t)
    <3>1. UNCHANGED <<setpt, par, ramp, clean>>
      BY <2>2 DEF WriteRamptable
    <3>2. cmd'.op # "smooth"
      BY <2>2 DEF WriteRamptable, NoCmd
    <3>3. QED BY <1>3, <3>1, <3>2
  <2>3. CASE RefuseRamptable(c, t)
    BY <1>3, <2>3 DEF RefuseRamptable, fpga
  <2>4. QED BY <2>1, <2>2, <2>3
<1>7. CASE \E c \in Chans : (\E n \in Lengths : SetRamplen(c, n)) \/ RunRamp(c)
  BY <1>3, <1>7 DEF SetRamplen, RunRamp
<1>a. CASE \E c \in Chans : (\E g \in Gains : SetGain(c, g)) \/ (\E o \in Offsets : SetOffset(c, o))
  BY <1>3, <1>a DEF SetGain, SetOffset
<1>8. CASE WritePoint
  <2>1. UNCHANGED <<setpt, par, ramp, clean>> /\ cmd.op = "table" /\ cmd \in Cmds
        /\ cmd' = IF cmd.n = Len(cmd.tab) THEN NoCmd ELSE [cmd EXCEPT !.n = @ + 1]
    BY <1>1, <1>8 DEF WritePoint, LandsInv, DacInv, CmdType
  <2>2. cmd'.op # "smooth"
    BY <2>1 DEF NoCmd, Cmds
  <2>3. QED BY <1>3, <2>1, <2>2
<1>9. CASE \E c \in Chans : \E a \in Amps : Set_dac(c, a)
  BY <1>1, <1>9, SetDacLands
<1>10. CASE WriteParam \/ WriteSetpt \/ Sample
  BY <1>1, <1>10, ParamLands, SetptLands, SampleLands
<1>11. QED BY <1>1, <1>4, <1>5, <1>6, <1>7, <1>a, <1>8, <1>9, <1>10, Zenon DEF Next

(* The points and slopes Calc_WriteLinearSmooth() writes bring the ramp of *)
(* smooth_linear_ramp.vhd to its setpoint, up to half a unit of the fixed  *)
(* point for each pair of points and what a float loses of the slopes, for *)
(* every setpoint, scale factor, rate and share of the curves, gain and    *)
(* offset, unless something came in between.                               *)
THEOREM RampsLand == Spec => []RampLands
<1>1. LandsInv => RampLands
  BY DEF LandsInv, LandInv, Landed, RampLands
<1>2. QED BY <1>1, InitLands, NextLands, InductiveInvariant, PTL DEF Spec

=============================================================================
