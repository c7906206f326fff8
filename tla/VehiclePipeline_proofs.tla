------------------------- MODULE VehiclePipeline_proofs -------------------------
(***************************************************************************)
(* For any noise, gap and times: the covariance stays sound and each axis  *)
(* filtered by itself.  For any grid and any shapes: Snap answers with the *)
(* nearest place of one shape.                                             *)
(***************************************************************************)
EXTENDS VehiclePipeline, TLAPS

\* The matrix of two axes that have nothing to do with each other and are equally
\* uncertain: variance a, covariance b with the velocity, its variance c, over d.
Twin(a, b, c, d) ==
  [num |-> [k \in Entry |-> IF k \in {0, 5} THEN a ELSE IF k \in {2, 7, 8, 13} THEN b
                            ELSE IF k \in {10, 15} THEN c ELSE 0],
   den |-> d]

Sound(a, b, c, d) ==
  a > 0 /\ b >= 0 /\ a * c > b * b /\ a <= MeasurementNoise * d

\* x, y, z, w are f times a, b, c, d.
Multiple(f, a, b, c, d, x, y, z, w) == x = f * a /\ y = f * b /\ z = f * c /\ w = f * d

\* The filter's matrix is that of a sound pair of axes.
TwinSound ==
  initialized =>
    \E a, b, c \in Int, d \in Nat \ {0} : p = Twin(a, b, c, d) /\ Sound(a, b, c, d)

------------------------------------------------------------------------------
(* Whole numbers.                                                          *)

LEMMA ProductPositive ==
  ASSUME NEW x \in Int, NEW y \in Int, x > 0, y > 0
  PROVE  x * y \in Int /\ x * y > 0
OBVIOUS

LEMMA ProductMonotone ==
  ASSUME NEW x \in Int, NEW y \in Int, NEW z \in Int, z >= 0, x <= y
  PROVE  x * z <= y * z
OBVIOUS

LEMMA ProductCancels ==
  ASSUME NEW x \in Int, NEW y \in Int, NEW z \in Int, z > 0
  PROVE  /\ x * z < y * z <=> x < y
         /\ x * z <= y * z <=> x <= y
         /\ x * z = y * z <=> x = y
OBVIOUS

LEMMA DivisionExact ==
  ASSUME NEW n \in Int, NEW d \in Int, d > 0, n % d = 0
  PROVE  n \div d \in Int /\ n = d * (n \div d)
OBVIOUS

\* Divisor divides.
LEMMA DivisorDivides ==
  ASSUME NEW S
  PROVE  /\ Divisor(S) \in Nat \ {0}
         /\ Divisor(S) = 1 \/ \A n \in S : n % Divisor(S) = 0
  BY DEF Divisor
LEMMA DivisorExact ==
  ASSUME NEW S, S \subseteq Int, NEW n \in S
  PROVE  n \div Divisor(S) \in Int /\ n = Divisor(S) * (n \div Divisor(S))
<1>1. Divisor(S) \in Nat \ {0} /\ n % Divisor(S) = 0
  BY DivisorDivides
<1>2. QED
  BY <1>1, DivisionExact

------------------------------------------------------------------------------
(* predict.                                                                *)

LEMMA NoiseNatural ==
  ASSUME NEW dt \in Nat \ {0}
  PROVE  Noise(dt) \in Nat
<1>1. ProcessNoise * dt \in Nat /\ GapScale \in Nat
  BY NoiseAssumption
<1>2. QED
  BY <1>1 DEF Noise

\* The prediction of one axis, over Scaled(d).
Spread(a, b, c, d, dt) == 10 * GapScale * (a + dt * (b + b) + dt * dt * c) + d * (10 * Noise(dt))
Coupling(b, c, dt) == 10 * GapScale * (b + dt * c)
Drift(c, d, dt) == 10 * GapScale * c + d * Noise(dt)
Scaled(d) == 10 * GapScale * d

LEMMA EntryCases ==
  ASSUME NEW k \in Entry
  PROVE  k \in {0, 1, 2, 3, 4, 5, 6, 7, 8, 9, 10, 11, 12, 13, 14, 15}
BY DEF Entry

(* Two axes stay two axes in the in-place F*P*F'.                          *)
LEMMA PredictTwin ==
  ASSUME NEW a \in Int, NEW b \in Int, NEW c \in Int, NEW d \in Nat \ {0},
         NEW dt \in Nat \ {0}
  PROVE  Predict(Twin(a, b, c, d), dt)
           = Twin(Spread(a, b, c, d, dt), Coupling(b, c, dt), Drift(c, d, dt), Scaled(d))
<1> DEFINE n == Twin(a, b, c, d).num
           up == UpperRows(n, dt)
           low == LowerRows(up, dt)
           u == 10 * GapScale
           q == Noise(dt)
           A == a + dt * (b + b) + dt * dt * c
           B == b + dt * c
<1>1. A \in Int /\ B \in Int /\ u \in Int /\ q \in Nat
  BY NoiseAssumption, NoiseNatural
<1>2. up = [k \in Entry |-> IF k \in {0, 5} THEN A ELSE IF k \in {2, 7} THEN B
                            ELSE IF k \in {8, 13} THEN b ELSE IF k \in {10, 15} THEN c ELSE 0]
  BY EntryCases DEF UpperRows, Twin, Entry
<1>3. low = [k \in Entry |-> IF k \in {0, 5} THEN A ELSE IF k \in {2, 7, 8, 13} THEN B
                            ELSE IF k \in {10, 15} THEN c ELSE 0]
  BY <1>2, EntryCases DEF LowerRows, Entry
<1>4. Predict(Twin(a, b, c, d), dt) = AddNoise(low, d, dt)
  BY DEF Predict, Twin
<1> HIDE DEF n, up, low, A, B, u, q
<1>5. AddNoise(low, d, dt) = Twin(u * A + d * (10 * q), u * B, u * c + d * q, u * d)
  BY <1>1, <1>3, EntryCases DEF AddNoise, diagMatrix, Twin, Entry, u, q
<1>6. QED
  BY <1>4, <1>5 DEF A, B, u, q, Spread, Coupling, Drift, Scaled

------------------------------------------------------------------------------
(* update.                                                                 *)

(* The update of two axes: each entry is multiplied by the same number f,  *)
(* as f times the textbook update of one axis.                             *)
LEMMA UpdateTwin ==
  ASSUME NEW a \in Int, NEW b \in Int, NEW c \in Int, NEW d \in Nat \ {0}, a > 0
  PROVE  LET r == MeasurementNoise * d
         IN  \E f \in Nat \ {0}, x, y, z, w \in Int :
               /\ Update(Twin(a, b, c, d)) = Twin(x, y, z, w)
               /\ Multiple(f, r * a, r * b, c * (a + r) - b * b, d * (a + r), x, y, z, w)
<1> DEFINE P == Twin(a, b, c, d)
           n == P.num
           r == MeasurementNoise * P.den
           S == {n[0] + r, n[1], n[4], n[5] + r}
           g == Divisor(S)
           s00 == (n[0] + r) \div g
           s01 == n[1] \div g
           s10 == n[4] \div g
           s11 == (n[5] + r) \div g
           det == s00 * s11 - s01 * s10
           K(i, l) == IF l = 0 THEN n[4*i] * s11 - n[4*i + 1] * s10
                      ELSE IF l = 1 THEN n[4*i + 1] * s00 - n[4*i] * s01
                      ELSE 0
           IKH(i, l) == (IF i = l THEN g * det ELSE 0) - K(i, l)
           Sum(k) == LET i == k \div 4
                         j == k % 4
                     IN  IKH(i, 0) * n[j] + IKH(i, 1) * n[4 + j]
                           + IKH(i, 2) * n[8 + j] + IKH(i, 3) * n[12 + j]
<1>1. Update(P) = IF det = 0 THEN P ELSE [num |-> [k \in Entry |-> Sum(k)], den |-> g * det * P.den]
  BY DEF Update
<1>2. /\ n[0] = a /\ n[5] = a /\ n[2] = b /\ n[7] = b /\ n[8] = b /\ n[13] = b
      /\ n[10] = c /\ n[15] = c /\ n[1] = 0 /\ n[3] = 0 /\ n[4] = 0 /\ n[6] = 0
      /\ n[9] = 0 /\ n[11] = 0 /\ n[12] = 0 /\ n[14] = 0 /\ P.den = d
  BY DEF Twin, Entry
<1>3. r \in Nat \ {0} /\ r = MeasurementNoise * d
  BY <1>2, NoiseAssumption, ProductPositive
<1> HIDE DEF r, n
<1>4. S \subseteq Int
  BY <1>2, <1>3
<1>5. g \in Nat \ {0}
  BY DivisorDivides
<1>6. n[0] + r \in S /\ n[1] \in S /\ n[5] + r \in S
  OBVIOUS
<1> HIDE DEF S
<1>7. (n[0] + r) \div g \in Int /\ a + r = g * ((n[0] + r) \div g)
  BY <1>2, <1>4, <1>6, DivisorExact
<1> DEFINE f == (n[0] + r) \div g
<1>8. f \in Int /\ a + r = g * f
  BY <1>7
<1>9. s00 = f /\ s11 = f
  BY <1>2
<1> HIDE DEF g
<1>10. s01 = 0 /\ s10 = 0
  BY <1>2, <1>5
<1> HIDE DEF f, s00, s01, s10, s11
<1>11. f \in Nat \ {0}
  <2>1. f <= 0 => g * f <= 0
    BY <1>5, <1>8
  <2>2. QED
    BY <1>3, <1>8, <2>1
<1>12. det = f * f
  BY <1>9, <1>10, <1>11
<1>13. det \in Nat \ {0} /\ g * det = f * (a + r)
  <2>1. f * f > 0 /\ f * f \in Int
    BY <1>11, ProductPositive
  <2>2. g * (f * f) = f * (g * f)
    BY <1>5, <1>11
  <2>3. QED
    BY <1>8, <1>12, <2>1, <2>2
<1> HIDE DEF det
<1>14. /\ K(0, 0) = a * f /\ K(0, 1) = 0 /\ K(1, 0) = 0 /\ K(1, 1) = a * f
       /\ K(2, 0) = b * f /\ K(2, 1) = 0 /\ K(3, 0) = 0 /\ K(3, 1) = b * f
       /\ \A i \in 0..3 : K(i, 2) = 0 /\ K(i, 3) = 0
  BY <1>2, <1>9, <1>10, <1>11
<1> DEFINE h == f * (a + r)
<1>15. h \in Int /\ a * f \in Int /\ b * f \in Int
  BY <1>3, <1>11
<1> HIDE DEF K
<1>16. /\ IKH(0, 0) = h - a * f /\ IKH(0, 1) = 0 /\ IKH(0, 2) = 0 /\ IKH(0, 3) = 0
       /\ IKH(1, 0) = 0 /\ IKH(1, 1) = h - a * f /\ IKH(1, 2) = 0 /\ IKH(1, 3) = 0
       /\ IKH(2, 0) = -(b * f) /\ IKH(2, 1) = 0 /\ IKH(2, 2) = h /\ IKH(2, 3) = 0
       /\ IKH(3, 0) = 0 /\ IKH(3, 1) = -(b * f) /\ IKH(3, 2) = 0 /\ IKH(3, 3) = h
  BY <1>13, <1>14, <1>15
<1> HIDE DEF IKH
<1>17. /\ (h - a * f) * a = f * (r * a)
       /\ (h - a * f) * b = f * (r * b)
       /\ h * b - (b * f) * a = f * (r * b)
       /\ h * c - (b * f) * b = f * (c * (a + r) - b * b)
  BY <1>3, <1>11
<1> HIDE DEF h
<1> DEFINE x == f * (r * a)
           y == f * (r * b)
           z == f * (c * (a + r) - b * b)
<1>18. \A k \in Entry : Sum(k) = Twin(x, y, z, 1).num[k]
  <2> DEFINE v == h - a * f
             w == b * f
  <2>1. v \in Int /\ w \in Int /\ h \in Int
    BY <1>15
  <2>2. /\ IKH(0, 0) = v /\ IKH(1, 1) = v /\ IKH(2, 0) = -w /\ IKH(3, 1) = -w
        /\ v * a = x /\ v * b = y /\ h * b - w * a = y /\ h * c - w * b = z
    BY <1>16, <1>17
  <2> HIDE DEF v, w, x, y, z
  <2>3. Sum(0) = x /\ Sum(1) = 0 /\ Sum(2) = y /\ Sum(3) = 0
    BY <1>2, <1>16, <2>1, <2>2
  <2>4. Sum(4) = 0 /\ Sum(5) = x /\ Sum(6) = 0 /\ Sum(7) = y
    BY <1>2, <1>16, <2>1, <2>2
  <2>5. Sum(8) = y /\ Sum(9) = 0 /\ Sum(10) = z /\ Sum(11) = 0
    BY <1>2, <1>16, <2>1, <2>2
  <2>6. Sum(12) = 0 /\ Sum(13) = y /\ Sum(14) = 0 /\ Sum(15) = z
    BY <1>2, <1>16, <2>1, <2>2
  <2> HIDE DEF Sum
  <2>7. QED
    BY <2>3, <2>4, <2>5, <2>6, EntryCases DEF Twin
<1>19. g * det * P.den = f * (d * (a + r))
  <2>1. g * det * d = (f * (a + r)) * d
    BY <1>13
  <2>2. (f * (a + r)) * d = f * (d * (a + r))
    BY <1>3, <1>11
  <2>3. P.den = d
    BY <1>2
  <2> HIDE DEF P
  <2>4. QED
    BY <2>1, <2>2, <2>3
<1> HIDE DEF Sum
<1>20. Update(P) = Twin(x, y, z, f * (d * (a + r)))
  BY <1>1, <1>13, <1>18, <1>19 DEF Twin
<1> DEFINE w == f * (d * (a + r))
<1>21. x \in Int /\ y \in Int /\ z \in Int /\ w \in Int
  BY <1>3, <1>11
<1>22. Multiple(f, r * a, r * b, c * (a + r) - b * b, d * (a + r), x, y, z, w)
  BY DEF Multiple
<1>23. Update(P) = Twin(x, y, z, w)
  BY <1>20
<1> HIDE DEF x, y, z, w
<1>24. QED
  BY <1>3, <1>11, <1>21, <1>22, <1>23

------------------------------------------------------------------------------
(* Reduce.                                                                 *)

(* A reduced pair of axes is a pair of axes that stands for the same       *)
(* fractions.                                                              *)
LEMMA ReduceTwin ==
  ASSUME NEW a \in Int, NEW b \in Int, NEW c \in Int, NEW d \in Nat \ {0}
  PROVE  \E g \in Nat \ {0}, x, y, z \in Int, w \in Nat \ {0} :
           /\ Reduce(Twin(a, b, c, d)) = Twin(x, y, z, w)
           /\ Multiple(g, x, y, z, w, a, b, c, d)
<1> DEFINE P == Twin(a, b, c, d)
           S == {P.num[k] : k \in Entry} \union {P.den}
           g == Divisor(S)
           x == a \div g
           y == b \div g
           z == c \div g
           w == d \div g
<1>1. S \subseteq Int
  BY DEF Twin
<1>2. a \in S /\ b \in S /\ c \in S /\ d \in S
  <2>1. P.num[0] = a /\ P.num[2] = b /\ P.num[10] = c /\ P.den = d
    BY DEF Twin, Entry
  <2>2. 0 \in Entry /\ 2 \in Entry /\ 10 \in Entry
    BY DEF Entry
  <2>3. QED
    BY <2>1, <2>2
<1>3. Reduce(P) = [num |-> [k \in Entry |-> P.num[k] \div g], den |-> P.den \div g]
  BY DEF Reduce
<1> HIDE DEF S
<1>4. g \in Nat \ {0}
  BY DivisorDivides
<1>5. x \in Int /\ y \in Int /\ z \in Int /\ w \in Int /\ a = g * x /\ b = g * y /\ c = g * z /\ d = g * w
  BY <1>1, <1>2, DivisorExact
<1> HIDE DEF g
<1>6. Reduce(P) = Twin(x, y, z, w)
  <2>1. 0 \div g = 0
    BY <1>4
  <2>2. \A k \in Entry : P.num[k] \div g = Twin(x, y, z, w).num[k]
    BY <1>4, <2>1 DEF Twin
  <2>3. QED
    BY <1>3, <2>2 DEF Twin
<1> HIDE DEF x, y, z, w
<1>7. w > 0
  <2>1. w <= 0 => g * w <= 0
    BY <1>4, <1>5
  <2>2. QED
    BY <1>5, <2>1
<1>8. Multiple(g, x, y, z, w, a, b, c, d)
  BY <1>5 DEF Multiple
<1>9. QED
  BY <1>4, <1>5, <1>6, <1>7, <1>8

------------------------------------------------------------------------------
(* Filter.                                                                 *)

(* The prediction of a sound axis is sound but for the bound, which the    *)
(* update restores.                                                        *)
LEMMA PredictSound ==
  ASSUME NEW a \in Int, NEW b \in Int, NEW c \in Int, NEW d \in Nat \ {0}, Sound(a, b, c, d),
         NEW dt \in Nat \ {0}, NEW u \in Nat \ {0}, NEW q \in Nat
  PROVE  LET A == u * (a + dt * (b + b) + dt * dt * c) + d * (10 * q)
             B == u * (b + dt * c)
             C == u * c + d * q
         IN  A \in Int /\ B \in Int /\ C \in Int /\ A > 0 /\ B >= 0 /\ A * C > B * B
<1> DEFINE A0 == a + dt * (b + b) + dt * dt * c
           B0 == b + dt * c
           e == d * q
<1>1. MeasurementNoise \in Nat
  BY NoiseAssumption
<1>2. a > 0 /\ b >= 0 /\ a * c > b * b
  BY DEF Sound
<1>3. c > 0
  <2>1. b * b >= 0
    BY <1>2
  <2>2. c <= 0 => a * c <= 0
    BY <1>2
  <2>3. QED
    BY <1>2, <2>1, <2>2
<1>4. dt * c > 0 /\ dt * c \in Int /\ dt * b >= 0 /\ dt * b \in Int /\ dt * (dt * c) > 0
  BY <1>2, <1>3, ProductPositive
<1>5. A0 \in Int /\ B0 \in Int /\ A0 > 0 /\ B0 >= 0
  BY <1>2, <1>4
<1>6. A0 * c > B0 * B0
  <2>1. A0 * c - B0 * B0 = a * c - b * b
    OBVIOUS
  <2>2. A0 * c \in Int /\ B0 * B0 \in Int /\ a * c \in Int /\ b * b \in Int
    BY <1>5
  <2> HIDE DEF A0, B0
  <2>3. QED
    BY <1>2, <2>1, <2>2
<1>7. e \in Nat
  OBVIOUS
<1> HIDE DEF A0, B0, e
<1> DEFINE A == u * A0 + 10 * e
           B == u * B0
           C == u * c + e
<1>8. A \in Int /\ B \in Int /\ C \in Int /\ A > 0 /\ B >= 0
  BY <1>5, <1>7, ProductPositive
<1>9. A * C > B * B
  <2>1. A * C = (u * u) * (A0 * c) + e * (u * A0) + (10 * e) * (u * c) + (10 * e) * e
    BY <1>5, <1>7
  <2>2. B * B = (u * u) * (B0 * B0)
    BY <1>5
  <2>3. e * (u * A0) >= 0 /\ (10 * e) * (u * c) >= 0 /\ (10 * e) * e >= 0
    BY <1>3, <1>5, <1>7, ProductPositive
  <2>4. (u * u) * (A0 * c) > (u * u) * (B0 * B0)
    <3>1. u * u \in Int /\ u * u > 0
      BY ProductPositive
    <3>2. A0 * c \in Int /\ B0 * B0 \in Int
      BY <1>5
    <3>3. QED
      BY <1>6, <3>1, <3>2, ProductCancels
  <2>5. /\ A * C \in Int /\ B * B \in Int /\ (u * u) * (A0 * c) \in Int /\ (u * u) * (B0 * B0) \in Int
        /\ e * (u * A0) \in Int /\ (10 * e) * (u * c) \in Int /\ (10 * e) * e \in Int
    BY <1>5, <1>7, <1>8
  <2>6. QED
    BY <2>1, <2>2, <2>3, <2>4, <2>5
<1>10. d * (10 * q) = 10 * e
  BY DEF e
<1>11. QED
  BY <1>8, <1>9, <1>10 DEF A0, B0, e

(* Soundness is about fractions.                                           *)
LEMMA SoundScales ==
  ASSUME NEW g \in Nat \ {0}, NEW a \in Int, NEW b \in Int, NEW c \in Int, NEW d \in Int,
         NEW x, NEW y, NEW z, NEW w, Multiple(g, a, b, c, d, x, y, z, w)
  PROVE  Sound(x, y, z, w) <=> Sound(a, b, c, d)
<1>1. g * a > 0 <=> a > 0
  BY ProductCancels, 0 * g = 0, g * a = a * g
<1>2. g * b >= 0 <=> b >= 0
  BY ProductCancels, 0 * g = 0, g * b = b * g
<1>3. (g * a) * (g * c) > (g * b) * (g * b) <=> a * c > b * b
  <2>1. g * g \in Int /\ g * g > 0
    BY ProductPositive
  <2>2. (g * a) * (g * c) = (a * c) * (g * g) /\ (g * b) * (g * b) = (b * b) * (g * g)
    OBVIOUS
  <2>3. a * c \in Int /\ b * b \in Int
    OBVIOUS
  <2>4. QED
    BY <2>1, <2>2, <2>3, ProductCancels
<1>4. g * a <= MeasurementNoise * (g * d) <=> a <= MeasurementNoise * d
  <2>1. MeasurementNoise \in Int
    BY NoiseAssumption
  <2>2. g * a = a * g /\ MeasurementNoise * (g * d) = (MeasurementNoise * d) * g
    BY <2>1
  <2>3. MeasurementNoise * d \in Int
    BY <2>1
  <2>4. QED
    BY <2>2, <2>3, ProductCancels
<1>5. QED
  BY <1>1, <1>2, <1>3, <1>4 DEF Sound, Multiple

(* The textbook update makes any covariance sound.                         *)
LEMMA UpdateSound ==
  ASSUME NEW a \in Int, NEW b \in Int, NEW c \in Int, NEW d \in Nat \ {0},
         a > 0, b >= 0, a * c > b * b
  PROVE  LET r == MeasurementNoise * d
         IN  /\ r * a \in Int /\ r * b \in Int /\ c * (a + r) - b * b \in Int
             /\ d * (a + r) \in Nat \ {0}
             /\ Sound(r * a, r * b, c * (a + r) - b * b, d * (a + r))
<1> DEFINE r == MeasurementNoise * d
<1>1. MeasurementNoise \in Nat \ {0}
  BY NoiseAssumption
<1>2. r \in Int /\ r > 0
  BY <1>1, ProductPositive
<1>3. r * a <= MeasurementNoise * (d * (a + r))
  <2>1. MeasurementNoise * (d * (a + r)) = r * (a + r)
    BY <1>1, <1>2
  <2>2. r * (a + r) = r * a + r * r /\ r * r > 0 /\ r * a \in Int /\ r * r \in Int
    BY <1>2, ProductPositive
  <2> HIDE DEF r
  <2>3. QED
    BY <2>1, <2>2
<1> HIDE DEF r
<1>4. r * a \in Int /\ r * a > 0 /\ r * b \in Int /\ r * b >= 0
  BY <1>2, ProductPositive
<1>5. c * (a + r) - b * b \in Int /\ d * (a + r) \in Int /\ d * (a + r) > 0
  BY <1>2, ProductPositive
<1>6. (r * a) * (c * (a + r) - b * b) > (r * b) * (r * b)
  <2> DEFINE s == r * (a + r)
  <2>1. s \in Int /\ s > 0
    BY <1>2, ProductPositive
  <2>2. (r * a) * (c * (a + r) - b * b) - (r * b) * (r * b) = (a * c) * s - (b * b) * s
    BY <1>2
  <2>3. a * c \in Int /\ b * b \in Int
    OBVIOUS
  <2> HIDE DEF s
  <2>4. (a * c) * s > (b * b) * s
    BY <2>1, <2>3, ProductCancels
  <2>5. (r * a) * (c * (a + r) - b * b) \in Int /\ (r * b) * (r * b) \in Int
        /\ (a * c) * s \in Int /\ (b * b) * s \in Int
    BY <1>2, <2>1
  <2>6. QED
    BY <2>2, <2>4, <2>5
<1>7. QED
  BY <1>3, <1>4, <1>5, <1>6 DEF Sound, r

\* The textbook filter of one axis makes a, b, c over d the fractions x, y, z over w.
Filtered(a, b, c, d, dt, x, y, z, w) ==
  LET A == Spread(a, b, c, d, dt)
      B == Coupling(b, c, dt)
      C == Drift(c, d, dt)
      D == Scaled(d)
      r == MeasurementNoise * D
  IN  \E f, g \in Nat \ {0}, x1, y1, z1, w1 \in Int :
        /\ Multiple(f, r * A, r * B, C * (A + r) - B * B, D * (A + r), x1, y1, z1, w1)
        /\ Multiple(g, x, y, z, w, x1, y1, z1, w1)

(* A measurement of a sound pair of axes gives the textbook result of one  *)
(* axis, twice, and it is sound.                                           *)
LEMMA FilterTwin ==
  ASSUME NEW a \in Int, NEW b \in Int, NEW c \in Int, NEW d \in Nat \ {0}, Sound(a, b, c, d),
         NEW dt \in Nat \ {0}
  PROVE  \E x, y, z \in Int, w \in Nat \ {0} :
           /\ Reduce(Update(Predict(Twin(a, b, c, d), dt))) = Twin(x, y, z, w)
           /\ Filtered(a, b, c, d, dt, x, y, z, w) /\ Sound(x, y, z, w)
<1> DEFINE u == 10 * GapScale
           A == Spread(a, b, c, d, dt)
           B == Coupling(b, c, dt)
           C == Drift(c, d, dt)
           D == Scaled(d)
           r == MeasurementNoise * D
<1>1. u \in Nat \ {0} /\ Noise(dt) \in Nat
  BY NoiseAssumption, NoiseNatural
<1>2. Predict(Twin(a, b, c, d), dt) = Twin(A, B, C, D)
  BY PredictTwin
<1>3. A \in Int /\ B \in Int /\ C \in Int /\ A > 0 /\ B >= 0 /\ A * C > B * B
  BY <1>1, PredictSound DEF Spread, Coupling, Drift
<1> HIDE DEF u
<1>4. D \in Nat \ {0}
  BY <1>1, ProductPositive DEF Scaled, u
<1> HIDE DEF A, B, C, D
<1> DEFINE X == r * A
           Y == r * B
           Z == C * (A + r) - B * B
           W == D * (A + r)
<1>5. X \in Int /\ Y \in Int /\ Z \in Int /\ W \in Nat \ {0} /\ Sound(X, Y, Z, W)
  BY <1>3, <1>4, UpdateSound
<1>6. PICK f \in Nat \ {0}, x1, y1, z1, w1 \in Int :
        /\ Update(Twin(A, B, C, D)) = Twin(x1, y1, z1, w1)
        /\ Multiple(f, X, Y, Z, W, x1, y1, z1, w1)
  BY <1>3, <1>4, UpdateTwin
<1> HIDE DEF X, Y, Z, W, r
<1>7. w1 \in Nat \ {0} /\ Sound(x1, y1, z1, w1)
  <2>1. w1 > 0
    BY <1>5, <1>6, ProductPositive DEF Multiple
  <2>2. Sound(x1, y1, z1, w1)
    BY <1>5, <1>6, SoundScales
  <2>3. QED
    BY <1>6, <2>1, <2>2
<1>8. PICK g \in Nat \ {0}, x \in Int, y \in Int, z \in Int, w \in Nat \ {0} :
        /\ Reduce(Twin(x1, y1, z1, w1)) = Twin(x, y, z, w)
        /\ Multiple(g, x, y, z, w, x1, y1, z1, w1)
  BY <1>7, ReduceTwin
<1>9. Sound(x, y, z, w)
  BY <1>7, <1>8, SoundScales
<1>10. Reduce(Update(Predict(Twin(a, b, c, d), dt))) = Twin(x, y, z, w)
  BY <1>2, <1>6, <1>8
<1>11. Filtered(a, b, c, d, dt, x, y, z, w)
  BY <1>6, <1>8 DEF Filtered, X, Y, Z, W, r, A, B, C, D
<1>12. QED
  BY <1>8, <1>9, <1>10, <1>11

------------------------------------------------------------------------------
(* projectPointToSegment.                                                  *)

Point == Int \X Int
Place == [at : Point, den : Nat \ {0}, dist : Nat]

LEMMA SquareNatural ==
  ASSUME NEW x \in Int
  PROVE  x * x \in Nat
OBVIOUS

LEMMA DotNatural ==
  ASSUME NEW u \in Point
  PROVE  Dot(u, u) \in Nat
<1>1. u[1] \in Int /\ u[2] \in Int
  BY DEF Point
<1>2. u[1] * u[1] \in Nat /\ u[2] * u[2] \in Nat
  BY <1>1, SquareNatural
<1>3. QED
  BY <1>2 DEF Dot

LEMMA HerePlace ==
  ASSUME NEW pos \in Point, NEW a \in Point
  PROVE  Here(pos, a) \in Place
<1>1. Minus(pos, a) \in Point
  BY DEF Minus, Point
<1>2. QED
  BY <1>1, DotNatural DEF Here, Place

LEMMA OnSegmentPlace ==
  ASSUME NEW pos \in Point, NEW a \in Point, NEW b \in Point,
         NEW len \in Nat \ {0}, NEW k \in Int
  PROVE  OnSegment(pos, a, b, k, len) \in Place
<1> DEFINE at == <<len * a[1] + k * (b[1] - a[1]), len * a[2] + k * (b[2] - a[2])>>
           off == <<len * pos[1] - at[1], len * pos[2] - at[2]>>
<1>1. at \in Point
  BY DEF Point
<1>2. off \in Point
  BY <1>1 DEF Point
<1>3. OnSegment(pos, a, b, k, len) = [at |-> at, den |-> len, dist |-> Dot(off, off)]
  BY DEF OnSegment
<1> HIDE DEF at, off
<1>4. QED
  BY <1>1, <1>2, <1>3, DotNatural DEF Place

(* The distance from pos is a quadratic function of k.                     *)
LEMMA SegmentDistance ==
  ASSUME NEW pos \in Point, NEW a \in Point, NEW b \in Point, NEW k \in Int
  PROVE  LET ap == Minus(pos, a)
             ab == Minus(b, a)
             len == Dot(ab, ab)
         IN  OnSegment(pos, a, b, k, len).dist
               = len * (len * Dot(ap, ap) + k * k - 2 * (k * Dot(ap, ab)))
<1> DEFINE v1 == pos[1] - a[1]
           v2 == pos[2] - a[2]
           w1 == b[1] - a[1]
           w2 == b[2] - a[2]
           len == w1 * w1 + w2 * w2
<1>1. v1 \in Int /\ v2 \in Int /\ w1 \in Int /\ w2 \in Int
  BY DEF Point
<1>2. pos[1] \in Int /\ pos[2] \in Int /\ a[1] \in Int /\ a[2] \in Int
  BY DEF Point
<1>3. /\ Dot(Minus(b, a), Minus(b, a)) = len
      /\ Dot(Minus(pos, a), Minus(pos, a)) = v1 * v1 + v2 * v2
      /\ Dot(Minus(pos, a), Minus(b, a)) = v1 * w1 + v2 * w2
  BY DEF Dot, Minus
<1>4. len \in Int
  BY <1>1
<1>5. OnSegment(pos, a, b, k, len).dist
        = (len * v1 - k * w1) * (len * v1 - k * w1) + (len * v2 - k * w2) * (len * v2 - k * w2)
  <2>1. /\ len * pos[1] - (len * a[1] + k * w1) = len * v1 - k * w1
        /\ len * pos[2] - (len * a[2] + k * w2) = len * v2 - k * w2
    <3> HIDE DEF len
    <3>1. QED
      BY <1>1, <1>2, <1>4
  <2> HIDE DEF len
  <2>2. QED
    BY <2>1 DEF OnSegment, Dot
<1> HIDE DEF v1, v2, w1, w2
<1>6. (len * v1 - k * w1) * (len * v1 - k * w1) + (len * v2 - k * w2) * (len * v2 - k * w2)
        = len * (len * (v1 * v1 + v2 * v2) + k * k - 2 * (k * (v1 * w1 + v2 * w2)))
  BY <1>1
<1>7. QED
  BY <1>3, <1>5, <1>6

(* Of the places of a segment, the clamped one is nearest.                 *)
LEMMA ProjectionNearest ==
  ASSUME NEW pos \in Point, NEW a \in Point, NEW b \in Point
  PROVE  LET proj == projectPointToSegment(pos, a, b)
         IN  /\ proj \in PlacesOnSegment(pos, a, b)
             /\ \A x \in PlacesOnSegment(pos, a, b) : x \in Place /\ ~Nearer(x, proj)
<1> DEFINE ab == Minus(b, a)
           ap == Minus(pos, a)
           len == Dot(ab, ab)
           t == Dot(ap, ab)
           q == len * Dot(ap, ap)
           j == IF t < 0 THEN 0 ELSE IF t > len THEN len ELSE t
           proj == projectPointToSegment(pos, a, b)
<1>1. ab \in Point /\ ap \in Point
  BY DEF Minus, Point
<1>2. len \in Nat /\ t \in Int /\ q \in Int
  <2>1. Dot(ap, ap) \in Nat /\ len \in Nat
    BY <1>1, DotNatural
  <2>2. ab[1] \in Int /\ ab[2] \in Int /\ ap[1] \in Int /\ ap[2] \in Int
    BY <1>1 DEF Point
  <2>3. t \in Int
    BY <2>2 DEF Dot
  <2>4. QED
    BY <2>1, <2>3
<1>3. CASE len = 0
  <2>1. PlacesOnSegment(pos, a, b) = {Here(pos, a)} /\ proj = Here(pos, a)
    BY <1>3 DEF PlacesOnSegment, projectPointToSegment
  <2>2. Here(pos, a) \in Place
    BY HerePlace
  <2>3. ~Nearer(Here(pos, a), Here(pos, a))
    BY <2>2 DEF Nearer, Place
  <2>4. QED
    BY <2>1, <2>2, <2>3
<1>4. CASE len # 0
  <2>1. /\ PlacesOnSegment(pos, a, b) = {OnSegment(pos, a, b, k, len) : k \in 0..len}
        /\ proj = OnSegment(pos, a, b, j, len)
    BY <1>4 DEF PlacesOnSegment, projectPointToSegment
  <2>2. ASSUME NEW k \in Int
        PROVE  /\ OnSegment(pos, a, b, k, len) \in Place
               /\ OnSegment(pos, a, b, k, len).den = len
               /\ OnSegment(pos, a, b, k, len).dist = len * (q + k * k - 2 * (k * t))
    <3>1. OnSegment(pos, a, b, k, len) \in Place
      BY <1>2, <1>4, OnSegmentPlace
    <3>2. OnSegment(pos, a, b, k, len).den = len
      BY DEF OnSegment
    <3>3. QED
      BY <3>1, <3>2, SegmentDistance
  <2> HIDE DEF len, t, q
  <2>3. j \in 0..len
    BY <1>2
  <2>4. \A k \in 0..len : j * j - 2 * (j * t) <= k * k - 2 * (k * t)
    <3>1. SUFFICES ASSUME NEW k \in 0..len
                   PROVE  j * j - 2 * (j * t) <= k * k - 2 * (k * t)
      OBVIOUS
    <3>2. CASE t < 0
      <4>1. k * k >= 0 /\ k * t <= 0
        BY <1>2, <3>2
      <4>2. QED
        BY <1>2, <3>2, <4>1
    <3>3. CASE t > len
      <4>1. (len - k) * (2 * t - len - k) >= 0
        BY <1>2, <3>3
      <4>2. (len - k) * (2 * t - len - k) = (k * k - 2 * (k * t)) - (len * len - 2 * (len * t))
        BY <1>2
      <4>3. QED
        BY <1>2, <3>3, <4>1, <4>2
    <3>4. CASE t \in 0..len
      <4>1. (k - t) * (k - t) >= 0
        BY <1>2
      <4>2. (k - t) * (k - t) = (k * k - 2 * (k * t)) - (t * t - 2 * (t * t))
        BY <1>2
      <4>3. QED
        BY <1>2, <3>4, <4>1, <4>2
    <3>5. QED
      BY <1>2, <3>2, <3>3, <3>4
  <2> HIDE DEF j
  <2>5. ASSUME NEW k \in 0..len
        PROVE  ~Nearer(OnSegment(pos, a, b, k, len), proj)
    <3> DEFINE dk == OnSegment(pos, a, b, k, len).dist
               dj == OnSegment(pos, a, b, j, len).dist
    <3>1. dj \in Nat /\ dk \in Nat
      BY <2>2, <2>3 DEF Place
    <3>2. dj <= dk
      <4> DEFINE fk == q + k * k - 2 * (k * t)
                 fj == q + j * j - 2 * (j * t)
      <4>1. fj \in Int /\ fk \in Int /\ fj <= fk
        BY <1>2, <2>3, <2>4
      <4>2. dk = len * fk /\ dj = len * fj
        BY <2>2, <2>3
      <4> HIDE DEF fk, fj, dk, dj
      <4>3. fj * len <= fk * len
        BY <1>2, <4>1, ProductMonotone
      <4>4. QED
        BY <1>2, <4>1, <4>2, <4>3
    <3>3. OnSegment(pos, a, b, k, len).den = len /\ OnSegment(pos, a, b, j, len).den = len
      BY <2>2, <2>3
    <3>4. len * len \in Int /\ len * len >= 0
      BY <1>2
    <3>5. dj * (len * len) <= dk * (len * len)
      BY <3>1, <3>2, <3>4, ProductMonotone
    <3>6. dj * len * len = dj * (len * len) /\ dk * len * len = dk * (len * len)
      BY <1>2, <3>1
    <3>7. dj * len * len \in Int /\ dk * len * len \in Int
      BY <1>2, <3>1
    <3>8. QED
      BY <2>1, <3>3, <3>5, <3>6, <3>7 DEF Nearer
  <2>6. QED
    BY <2>1, <2>2, <2>3, <2>5
<1>5. QED
  BY <1>3, <1>4

(* Not being nearer is transitive, whatever the denominators.              *)
LEMMA NotNearerTransitive ==
  ASSUME NEW x \in Place, NEW y \in Place, NEW z \in Place, ~Nearer(x, y), ~Nearer(y, z)
  PROVE  ~Nearer(x, z)
<1> DEFINE xx == x.den * x.den
           yy == y.den * y.den
           zz == z.den * z.den
<1>1. x.dist \in Nat /\ y.dist \in Nat /\ z.dist \in Nat
      /\ x.den \in Nat \ {0} /\ y.den \in Nat \ {0} /\ z.den \in Nat \ {0}
  BY DEF Place
<1>2. xx \in Int /\ xx > 0 /\ yy \in Int /\ yy > 0 /\ zz \in Int /\ zz > 0
  BY <1>1, ProductPositive
<1>3. x.dist * yy >= y.dist * xx /\ y.dist * zz >= z.dist * yy
  <2>1. /\ x.dist * y.den * y.den = x.dist * yy /\ y.dist * x.den * x.den = y.dist * xx
        /\ y.dist * z.den * z.den = y.dist * zz /\ z.dist * y.den * y.den = z.dist * yy
    BY <1>1
  <2>2. /\ x.dist * yy \in Int /\ y.dist * xx \in Int /\ y.dist * zz \in Int /\ z.dist * yy \in Int
    BY <1>1, <1>2
  <2>3. ~(x.dist * yy < y.dist * xx) /\ ~(y.dist * zz < z.dist * yy)
    BY <2>1 DEF Nearer
  <2>4. QED
    BY <2>2, <2>3
<1> HIDE DEF xx, yy, zz
<1>4. x.dist * zz >= z.dist * xx
  <2>1. (y.dist * xx) * zz <= (x.dist * yy) * zz
    BY <1>1, <1>2, <1>3, ProductMonotone
  <2>2. (z.dist * yy) * xx <= (y.dist * zz) * xx
    BY <1>1, <1>2, <1>3, ProductMonotone
  <2>3. (z.dist * xx) * yy <= (x.dist * zz) * yy
    <3>1. (y.dist * xx) * zz = (y.dist * zz) * xx /\ (z.dist * yy) * xx = (z.dist * xx) * yy
          /\ (x.dist * yy) * zz = (x.dist * zz) * yy
      BY <1>1, <1>2
    <3>2. (y.dist * xx) * zz \in Int /\ (z.dist * xx) * yy \in Int /\ (x.dist * zz) * yy \in Int
      BY <1>1, <1>2
    <3>3. QED
      BY <2>1, <2>2, <3>1, <3>2
  <2>4. x.dist * zz \in Int /\ z.dist * xx \in Int
    BY <1>1, <1>2
  <2>5. QED
    BY <1>2, <2>3, <2>4, ProductCancels
<1>5. x.dist * z.den * z.den = x.dist * zz /\ z.dist * x.den * x.den = z.dist * xx
  BY <1>1 DEF xx, zz
<1>6. x.dist * zz \in Int /\ z.dist * xx \in Int
  BY <1>1, <1>2
<1>7. QED
  BY <1>4, <1>5, <1>6 DEF Nearer

------------------------------------------------------------------------------
(* Filter: the steps of the specification.                                 *)

LEMMA TwinMatrix ==
  ASSUME NEW a \in Int, NEW b \in Int, NEW c \in Int, NEW d \in Nat \ {0}
  PROVE  Twin(a, b, c, d) \in Matrix
BY DEF Twin, Matrix

LEMMA ElapsedPositive ==
  ASSUME NEW t \in Times, lastTime \in Nat
  PROVE  Elapsed(t) \in Nat \ {0}
BY NoiseAssumption DEF Elapsed

LEMMA InitialSound ==
  /\ InitialCovariance = Twin(MeasurementNoise, 0, InitialVelocityNoise, 1)
  /\ Sound(MeasurementNoise, 0, InitialVelocityNoise, 1)
<1>1. MeasurementNoise \in Nat \ {0} /\ InitialVelocityNoise \in Nat \ {0}
  BY NoiseAssumption
<1>2. MeasurementNoise * InitialVelocityNoise > 0
  BY <1>1, ProductPositive
<1>3. QED
  BY <1>1, <1>2 DEF InitialCovariance, diagMatrix, Twin, Sound

LEMMA FilterSound ==
  ASSUME FilterTypeOK, TwinSound, NEW t \in Times, Filter(t)
  PROVE  TwinSound' /\ FilterTypeOK'
<1>1. lastTime \in Nat
  BY NoiseAssumption DEF FilterTypeOK
<1>2. \E a, b, c \in Int, d \in Nat \ {0} : p' = Twin(a, b, c, d) /\ Sound(a, b, c, d)
  <2>1. CASE ~initialized
    <3>1. MeasurementNoise \in Int /\ InitialVelocityNoise \in Int
      BY NoiseAssumption
    <3>2. p' = InitialCovariance
      BY <2>1 DEF Filter
    <3>3. QED
      BY <3>1, <3>2, InitialSound
  <2>2. CASE initialized
    <3>1. PICK a, b, c \in Int, d \in Nat \ {0} : p = Twin(a, b, c, d) /\ Sound(a, b, c, d)
      BY <2>2 DEF TwinSound
    <3>2. Elapsed(t) \in Nat \ {0}
      BY <1>1, ElapsedPositive
    <3>3. p' = Reduce(Update(Predict(p, Elapsed(t))))
      BY <2>2 DEF Filter
    <3> DEFINE e == Elapsed(t)
    <3>4. e \in Nat \ {0} /\ p' = Reduce(Update(Predict(Twin(a, b, c, d), e)))
      BY <3>1, <3>2, <3>3
    <3> HIDE DEF e
    <3>5. PICK x, y, z \in Int, w \in Nat \ {0} :
            /\ Reduce(Update(Predict(Twin(a, b, c, d), e))) = Twin(x, y, z, w)
            /\ Filtered(a, b, c, d, e, x, y, z, w) /\ Sound(x, y, z, w)
      BY <3>1, <3>4, FilterTwin
    <3>6. QED
      BY <3>4, <3>5
  <2>3. QED
    BY <2>1, <2>2
<1>3. TwinSound'
  BY <1>2 DEF TwinSound
<1>4. p' \in Matrix
  BY <1>2, TwinMatrix
<1>5. QED
  BY <1>3, <1>4, NoiseAssumption DEF FilterTypeOK, Filter

(* What TwinSound says, in the entries of the matrix.                      *)
LEMMA TwinCovariance ==
  ASSUME TwinSound
  PROVE  CovarianceSound
<1>1. SUFFICES ASSUME initialized
               PROVE  CovarianceSound
  BY DEF CovarianceSound
<1>2. PICK a, b, c \in Int, d \in Nat \ {0} : p = Twin(a, b, c, d) /\ Sound(a, b, c, d)
  BY <1>1 DEF TwinSound
<1> DEFINE n == p.num
<1>3. /\ n[0] = a /\ n[5] = a /\ n[2] = b /\ n[7] = b /\ n[8] = b /\ n[13] = b
      /\ n[10] = c /\ n[15] = c /\ n[1] = 0 /\ n[3] = 0 /\ n[4] = 0 /\ n[6] = 0
      /\ n[9] = 0 /\ n[11] = 0 /\ n[12] = 0 /\ n[14] = 0 /\ p.den = d
  BY <1>2 DEF Twin, Entry
<1> HIDE DEF n
<1>4. \A i, j \in 0..3 : n[4*i + j] = n[4*j + i]
  <2>1. SUFFICES ASSUME NEW i \in {0, 1, 2, 3}, NEW j \in {0, 1, 2, 3}
                 PROVE  n[4*i + j] = n[4*j + i]
    OBVIOUS
  <2>2. CASE i = 0
    BY <1>3, <2>2
  <2>3. CASE i = 1
    BY <1>3, <2>3
  <2>4. CASE i = 2
    BY <1>3, <2>4
  <2>5. CASE i = 3
    BY <1>3, <2>5
  <2>6. QED
    BY <2>2, <2>3, <2>4, <2>5
<1>5. QED
  BY <1>2, <1>3, <1>4 DEF CovarianceSound, Sound, n

(* The noise grows with the gap, across the threshold as well.             *)
LEMMA NoiseGrows ==
  ASSUME NEW d \in Nat \ {0}
  PROVE  Noise(d) <= Noise(d + 1)
<1>1. ProcessNoise \in Nat /\ GapScale \in Nat /\ Gap \in Nat /\ Gap >= GapScale
  BY NoiseAssumption
<1>2. CASE d > Gap
  <2>1. d * d <= (d + 1) * (d + 1)
    OBVIOUS
  <2>2. (d * d) * ProcessNoise <= ((d + 1) * (d + 1)) * ProcessNoise
    BY <1>1, <2>1, ProductMonotone
  <2>3. QED
    BY <1>1, <1>2, <2>2 DEF Noise
<1>3. CASE d <= Gap /\ d + 1 > Gap
  <2>1. d * GapScale <= (d + 1) * (d + 1)
    <3>1. GapScale * d <= (d + 1) * d
      BY <1>1, <1>3, ProductMonotone
    <3>2. QED
      BY <1>1, <3>1
  <2>2. (d * GapScale) * ProcessNoise <= ((d + 1) * (d + 1)) * ProcessNoise
    BY <1>1, <2>1, ProductMonotone
  <2>3. QED
    BY <1>1, <1>3, <2>2 DEF Noise
<1>4. CASE d + 1 <= Gap
  <2>1. d * (ProcessNoise * GapScale) <= (d + 1) * (ProcessNoise * GapScale)
    BY <1>1, ProductMonotone
  <2>2. QED
    BY <1>1, <1>4, <2>1 DEF Noise
<1>5. QED
  BY <1>1, <1>2, <1>3, <1>4

LEMMA TwinGapTrust ==
  ASSUME TwinSound
  PROVE  GapTrust
<1>1. SUFFICES ASSUME initialized, NEW e \in 1..(Gap + 1)
               PROVE  /\ Predict(p, e).den = Predict(p, e + 1).den
                      /\ \A k \in {0, 2, 5, 7, 10, 15} :
                           Predict(p, e).num[k] <= Predict(p, e + 1).num[k]
  BY DEF GapTrust
<1>2. PICK a, b, c \in Int, d \in Nat \ {0} : p = Twin(a, b, c, d) /\ Sound(a, b, c, d)
  BY <1>1 DEF TwinSound
<1>3. e \in Nat \ {0} /\ e + 1 \in Nat \ {0}
  BY NoiseAssumption
<1>4. a > 0 /\ b >= 0 /\ c > 0
  <2>1. a * c > b * b /\ a > 0 /\ b >= 0
    BY <1>2 DEF Sound
  <2>2. b * b >= 0 /\ (c <= 0 => a * c <= 0)
    BY <2>1
  <2>3. QED
    BY <2>1, <2>2
<1> DEFINE u == 10 * GapScale
           A(f) == Spread(a, b, c, d, f)
           B(f) == Coupling(b, c, f)
           C(f) == Drift(c, d, f)
<1>5. u \in Nat
  BY NoiseAssumption
<1>6. /\ Predict(p, e) = Twin(A(e), B(e), C(e), Scaled(d))
      /\ Predict(p, e + 1) = Twin(A(e + 1), B(e + 1), C(e + 1), Scaled(d))
  BY <1>2, <1>3, PredictTwin
<1>7. Noise(e) \in Nat /\ Noise(e + 1) \in Nat /\ Noise(e) <= Noise(e + 1)
  BY <1>3, NoiseNatural, NoiseGrows
<1>8. d * Noise(e) <= d * Noise(e + 1) /\ d * (10 * Noise(e)) <= d * (10 * Noise(e + 1))
  BY <1>7
<1>9. e * c <= (e + 1) * c /\ e * (b + b) <= (e + 1) * (b + b)
      /\ e * e * c <= (e + 1) * (e + 1) * c
  <2>1. e * e <= (e + 1) * (e + 1) /\ e * e \in Int /\ (e + 1) * (e + 1) \in Int
    BY <1>3
  <2>2. QED
    BY <1>3, <1>4, <2>1, ProductMonotone
<1> HIDE DEF u
<1>10. B(e) <= B(e + 1)
  <2>1. b + e * c <= b + (e + 1) * c /\ b + e * c \in Int /\ b + (e + 1) * c \in Int
    BY <1>3, <1>9
  <2>2. QED
    BY <1>5, <2>1, ProductMonotone DEF Coupling, u
<1>11. A(e) <= A(e + 1)
  <2> DEFINE S(f) == a + f * (b + b) + f * f * c
  <2>1. S(e) \in Int /\ S(e + 1) \in Int /\ S(e) <= S(e + 1)
    BY <1>3, <1>9
  <2> HIDE DEF S
  <2>2. u * S(e) <= u * S(e + 1) /\ u * S(e) \in Int /\ u * S(e + 1) \in Int
    BY <1>5, <2>1, ProductMonotone
  <2>3. d * (10 * Noise(e)) \in Int /\ d * (10 * Noise(e + 1)) \in Int
    BY <1>7
  <2>4. u * S(e) + d * (10 * Noise(e)) <= u * S(e + 1) + d * (10 * Noise(e + 1))
    BY <1>8, <2>2, <2>3
  <2>5. QED
    BY <2>4 DEF S, Spread, u
<1>12. C(e) <= C(e + 1)
  BY <1>5, <1>7, <1>8 DEF Drift, u
<1> HIDE DEF A, B, C
<1>13. QED
  BY <1>6, <1>10, <1>11, <1>12 DEF Twin, Entry

(* Multiples of a common divisor stand for the same fraction.              *)
LEMMA SameFraction ==
  ASSUME NEW f \in Nat \ {0}, NEW g \in Nat \ {0}, NEW e \in Nat \ {0},
         NEW x \in Int, NEW w \in Int, NEW ex \in Int, NEW ew \in Int,
         NEW X, NEW W, X = e * ex, W = e * ew, f * X = g * x, f * W = g * w
  PROVE  x * ew = ex * w
<1> DEFINE h == f * e
<1>1. h \in Int
  OBVIOUS
<1>2. h * ex = g * x /\ h * ew = g * w
  OBVIOUS
<1> HIDE DEF h
<1>3. (x * ew) * g = (g * x) * ew /\ (ex * w) * g = (g * w) * ex
  OBVIOUS
<1>4. (h * ex) * ew = (h * ew) * ex
  BY <1>1
<1>5. (x * ew) * g = (ex * w) * g
  BY <1>2, <1>3, <1>4
<1>6. x * ew \in Int /\ ex * w \in Int
  OBVIOUS
<1>7. QED
  BY <1>5, <1>6, ProductCancels

LEMMA FilteredAxis ==
  ASSUME NEW a \in Int, NEW b \in Int, NEW c \in Int, NEW d \in Nat \ {0}, Sound(a, b, c, d),
         NEW dt \in Nat \ {0}, NEW x \in Int, NEW y \in Int, NEW z \in Int, NEW w \in Nat \ {0},
         Filtered(a, b, c, d, dt, x, y, z, w)
  PROVE  SameVariances([a |-> x, b |-> y, c |-> z, den |-> w],
                       AxisFilter([a |-> a, b |-> b, c |-> c, den |-> d], dt))
<1> DEFINE A == Spread(a, b, c, d, dt)
           B == Coupling(b, c, dt)
           C == Drift(c, d, dt)
           D == Scaled(d)
           r == MeasurementNoise * D
           X == r * A
           Y == r * B
           Z == C * (A + r) - B * B
           W == D * (A + r)
           S == {X, Y, Z, W}
           e == Divisor(S)
           axis == [a |-> a, b |-> b, c |-> c, den |-> d]
<1>1. GapScale \in Nat \ {0} /\ Noise(dt) \in Nat /\ MeasurementNoise \in Nat
  BY NoiseAssumption, NoiseNatural
<1>2. /\ 10 * GapScale * (axis.a + 2 * dt * axis.b + dt * dt * axis.c) + 10 * Noise(dt) * axis.den = A
      /\ 10 * GapScale * (axis.b + dt * axis.c) = B
      /\ 10 * GapScale * axis.c + Noise(dt) * axis.den = C
      /\ 10 * GapScale * axis.den = D
      /\ MeasurementNoise * (10 * GapScale) * axis.den = r
  BY <1>1 DEF Spread, Coupling, Drift, Scaled
<1>3. A \in Int /\ B \in Int /\ C \in Int /\ D \in Int /\ r \in Int
  <2>1. A \in Int /\ B \in Int /\ C \in Int
    BY <1>1 DEF Spread, Coupling, Drift
  <2>2. D \in Int
    BY <1>1 DEF Scaled
  <2>3. QED
    BY <1>1, <2>1, <2>2
<1> HIDE DEF A, B, C, D, r
<1>4. AxisFilter(axis, dt) = [a |-> X \div e, b |-> Y \div e, c |-> Z \div e, den |-> W \div e]
  <2> DEFINE ef == Divisor({r * A, r * B, C * (A + r) - B * B, D * (A + r)})
  <2>1. ef = e
    OBVIOUS
  <2> HIDE DEF axis
  <2>2. AxisFilter(axis, dt) = [a |-> (r * A) \div ef, b |-> (r * B) \div ef,
          c |-> (C * (A + r) - B * B) \div ef, den |-> (D * (A + r)) \div ef]
    BY <1>2 DEF AxisFilter
  <2>3. QED
    BY <2>1, <2>2
<1>5. X \in Int /\ Y \in Int /\ Z \in Int /\ W \in Int
  BY <1>3
<1>6. PICK f, g \in Nat \ {0}, x1, y1, z1, w1 \in Int :
        /\ Multiple(f, X, Y, Z, W, x1, y1, z1, w1)
        /\ Multiple(g, x, y, z, w, x1, y1, z1, w1)
  BY DEF Filtered, A, B, C, D, r
<1> HIDE DEF X, Y, Z, W
<1>7. S \subseteq Int /\ X \in S /\ Y \in S /\ Z \in S /\ W \in S
  BY <1>5
<1> HIDE DEF S
<1>8. e \in Nat \ {0}
  BY DivisorDivides
<1>9. /\ X \div e \in Int /\ X = e * (X \div e) /\ Y \div e \in Int /\ Y = e * (Y \div e)
      /\ Z \div e \in Int /\ Z = e * (Z \div e) /\ W \div e \in Int /\ W = e * (W \div e)
  BY <1>7, DivisorExact
<1>10. f * X = g * x /\ f * Y = g * y /\ f * Z = g * z /\ f * W = g * w
  BY <1>6 DEF Multiple
<1> DEFINE ex == X \div e
           ey == Y \div e
           ez == Z \div e
           ew == W \div e
<1>11. ex \in Int /\ ey \in Int /\ ez \in Int /\ ew \in Int
       /\ X = e * ex /\ Y = e * ey /\ Z = e * ez /\ W = e * ew
  BY <1>9
<1>12. AxisFilter(axis, dt) = [a |-> ex, b |-> ey, c |-> ez, den |-> ew]
  BY <1>4
<1> HIDE DEF e, ex, ey, ez, ew, axis
<1>13. x * ew = ex * w /\ y * ew = ey * w /\ z * ew = ez * w
  BY <1>8, <1>10, <1>11, SameFraction
<1>14. SameVariances([a |-> x, b |-> y, c |-> z, den |-> w], AxisFilter(axis, dt))
  BY <1>12, <1>13 DEF SameVariances
<1>15. QED
  BY <1>14 DEF axis

LEMMA FilterAxes ==
  ASSUME FilterTypeOK, TwinSound, initialized, NEW t \in Times, Filter(t)
  PROVE  \A k \in {0, 5} : SameVariances(Axis(p', k), AxisFilter(Axis(p, k), Elapsed(lastTime')))
<1>1. lastTime \in Nat
  BY NoiseAssumption DEF FilterTypeOK
<1>2. PICK a, b, c \in Int, d \in Nat \ {0} : p = Twin(a, b, c, d) /\ Sound(a, b, c, d)
  BY DEF TwinSound
<1> DEFINE e == Elapsed(t)
<1>3. e \in Nat \ {0}
  BY <1>1, ElapsedPositive
<1>4. p' = Reduce(Update(Predict(Twin(a, b, c, d), e))) /\ Elapsed(lastTime') = e
  BY <1>2 DEF Filter
<1> HIDE DEF e
<1>5. PICK x, y, z \in Int, w \in Nat \ {0} :
        /\ Reduce(Update(Predict(Twin(a, b, c, d), e))) = Twin(x, y, z, w)
        /\ Filtered(a, b, c, d, e, x, y, z, w) /\ Sound(x, y, z, w)
  BY <1>2, <1>3, FilterTwin
<1>6. \A k \in {0, 5} : /\ Axis(p, k) = [a |-> a, b |-> b, c |-> c, den |-> d]
                        /\ Axis(p', k) = [a |-> x, b |-> y, c |-> z, den |-> w]
  BY <1>2, <1>4, <1>5 DEF Axis, Twin, Entry
<1>7. SameVariances([a |-> x, b |-> y, c |-> z, den |-> w],
                    AxisFilter([a |-> a, b |-> b, c |-> c, den |-> d], e))
  BY <1>2, <1>3, <1>5, FilteredAxis
<1>8. QED
  BY <1>4, <1>6, <1>7

------------------------------------------------------------------------------
(* Snap: the steps of the specification.                                   *)

Polylines == Seq(Point)

Calls ==
  [running : BOOLEAN, id : ShapeIDs, pos : Grid, points : Polylines, i : Nat \ {0}, best : Place]

\* The places of the segments before segment i.
PlacesBefore(points, pos, i) ==
  UNION {PlacesOnSegment(pos, points[n], points[n + 1]) : n \in 1..(i - 1)}

NearestOf(places, answer) ==
  /\ \E x \in places : SamePlace(x, answer)
  /\ \A x \in places : ~Nearer(x, answer)

BestSoFar ==
  /\ call.i = 1 => call.best = Here(call.pos, call.pos)
  /\ call.i > 1 => /\ call.i <= Len(call.points)
                   /\ NearestOf(PlacesBefore(call.points, call.pos, call.i), call.best)

SnapInv ==
  /\ call \in Calls
  /\ \A id \in DOMAIN shapes : shapes[id] \in Polylines
  /\ loads \in 0..MaxLoads
  /\ call.running => call.points \in during /\ BestSoFar
  /\ SnapsToOneShape

LEMMA GridPoint ==
  ASSUME NEW pos \in Grid
  PROVE  pos \in Point
BY GridAssumption DEF Point

LEMMA PointsPolyline ==
  ASSUME SnapInv, NEW id
  PROVE  Points(id) \in Polylines
BY DEF SnapInv, Points, Polylines

LEMMA SnapInitInv == SnapInit => SnapInv
<1>1. SUFFICES ASSUME SnapInit
               PROVE  SnapInv
  OBVIOUS
<1>2. PICK id \in ShapeIDs, pos \in Grid : call = [Call(id, pos, <<>>) EXCEPT !.running = FALSE]
  BY <1>1 DEF SnapInit
<1>3. call = [running |-> FALSE, id |-> id, pos |-> pos, points |-> <<>>, i |-> 1,
              best |-> Here(pos, pos)]
  BY <1>2 DEF Call
<1>4. Here(pos, pos) \in Place
  BY GridPoint, HerePlace
<1>5. call \in Calls
  BY <1>3, <1>4 DEF Calls, Polylines
<1>6. PlacesOn(<<>>, pos) = {}
  BY DEF PlacesOn
<1>7. SnapsToOneShape
  BY <1>1, <1>3, <1>6 DEF SnapInit, SnapsToOneShape, IsSnapped
<1>8. QED
  BY <1>1, <1>3, <1>5, <1>7, GridAssumption DEF SnapInit, SnapInv

LEMMA LoadShapeKeeps ==
  ASSUME SnapInv, NEW id \in ShapeIDs, NEW points \in Shapes, LoadShape(id, points)
  PROVE  SnapInv'
<1>1. points \in Polylines
  BY GridAssumption DEF Polylines, Point
<1>2. call' = call /\ loads' \in 0..MaxLoads
  BY GridAssumption DEF LoadShape, SnapInv
<1>3. \A x \in DOMAIN shapes' : shapes'[x] \in Polylines
  BY <1>1 DEF LoadShape, SnapInv
<1>4. call.running => call.points \in during' /\ BestSoFar'
  BY <1>2 DEF LoadShape, SnapInv, BestSoFar
<1>5. SnapsToOneShape'
  BY <1>2 DEF SnapInv, SnapsToOneShape, LoadShape, Calls
<1>6. QED
  BY <1>2, <1>3, <1>4, <1>5 DEF SnapInv

LEMMA SnapStartsKeeps ==
  ASSUME SnapInv, NEW pos \in Grid, NEW id \in ShapeIDs, SnapStarts(pos, id)
  PROVE  SnapInv' /\ call'.running
<1>1. Points(id) \in Polylines
  BY PointsPolyline
<1>2. Here(pos, pos) \in Place
  BY GridPoint, HerePlace
<1>3. call' = [running |-> TRUE, id |-> id, pos |-> pos, points |-> Points(id), i |-> 1,
               best |-> Here(pos, pos)]
  BY DEF SnapStarts, Call
<1>4. call' \in Calls
  BY <1>1, <1>2, <1>3 DEF Calls
<1>5. call'.points \in during' /\ BestSoFar'
  BY <1>3 DEF SnapStarts, BestSoFar
<1>6. SnapsToOneShape'
  BY <1>3 DEF SnapsToOneShape
<1>7. QED
  BY <1>3, <1>4, <1>5, <1>6 DEF SnapInv, SnapStarts

LEMMA PlacesBeforeNext ==
  ASSUME NEW points, NEW pos, NEW i \in Nat \ {0}
  PROVE  PlacesBefore(points, pos, i + 1)
           = PlacesBefore(points, pos, i) \union PlacesOnSegment(pos, points[i], points[i + 1])
<1>1. 1..((i + 1) - 1) = 1..(i - 1) \union {i}
  OBVIOUS
<1>2. QED
  BY <1>1 DEF PlacesBefore

(* One turn of the loop: what was nearest before, or the new projection.   *)
LEMMA SnapSegmentKeeps ==
  ASSUME SnapInv, SnapSegment
  PROVE  SnapInv' /\ call'.running
<1> DEFINE points == call.points
           pos == call.pos
           i == call.i
           here == PlacesOnSegment(pos, points[i], points[i + 1])
           proj == projectPointToSegment(pos, points[i], points[i + 1])
           before == PlacesBefore(points, pos, i)
           best == call'.best
<1>1. call \in Calls /\ call.running /\ i \in Nat \ {0} /\ i < Len(points) /\ BestSoFar
  BY DEF SnapInv, SnapSegment, Calls
<1>2. points \in Seq(Point) /\ pos \in Point /\ call.best \in Place
  BY <1>1, GridPoint DEF Calls, Polylines
<1>3. Len(points) \in Nat
  BY <1>2
<1>4. \A n \in 1..i : points[n] \in Point /\ points[n + 1] \in Point
  <2>1. \A n \in 1..Len(points) : points[n] \in Point
    BY <1>2
  <2>2. \A n \in 1..i : n \in 1..Len(points) /\ n + 1 \in 1..Len(points)
    BY <1>1, <1>3
  <2>3. QED
    BY <2>1, <2>2
<1>5. proj \in here /\ \A x \in here : x \in Place /\ ~Nearer(x, proj)
  <2>1. points[i] \in Point /\ points[i + 1] \in Point
    BY <1>1, <1>4
  <2>2. QED
    BY <1>2, <2>1, ProjectionNearest
<1>6. \A x \in before : x \in Place
  <2>1. \A n \in 1..(i - 1) : \A x \in PlacesOnSegment(pos, points[n], points[n + 1]) : x \in Place
    <3>1. SUFFICES ASSUME NEW n \in 1..(i - 1)
                   PROVE  \A x \in PlacesOnSegment(pos, points[n], points[n + 1]) : x \in Place
      OBVIOUS
    <3>2. points[n] \in Point /\ points[n + 1] \in Point
      BY <1>1, <1>4
    <3>3. QED
      BY <1>2, <3>2, ProjectionNearest
  <2>2. QED
    BY <2>1 DEF PlacesBefore
<1>7. PlacesBefore(points, pos, i + 1) = before \union here
  BY <1>1, PlacesBeforeNext
<1>8. call' = [call EXCEPT !.i = i + 1,
                           !.best = IF i = 1 \/ Nearer(proj, call.best) THEN proj ELSE call.best]
  BY DEF SnapSegment
<1> HIDE DEF proj, here, before
<1>9. /\ call'.i = i + 1 /\ call'.points = points /\ call'.pos = pos /\ call'.running
      /\ best = IF i = 1 \/ Nearer(proj, call.best) THEN proj ELSE call.best
  BY <1>1, <1>8 DEF Calls
<1>10. call' \in Calls
  <2>1. proj \in Place
    BY <1>5
  <2> DEFINE nearer == IF i = 1 \/ Nearer(proj, call.best) THEN proj ELSE call.best
             next == i + 1
  <2>2. nearer \in Place /\ next \in Nat \ {0} /\ call' = [call EXCEPT !.i = next, !.best = nearer]
    BY <1>1, <1>2, <1>8, <2>1
  <2> HIDE DEF nearer, next
  <2>3. QED
    BY <1>1, <2>2 DEF Calls
<1>11. NearestOf(before \union here, best)
  <2>1. CASE i = 1
    <3>1. before = {}
      BY <2>1 DEF before, PlacesBefore
    <3>2. QED
      BY <1>5, <1>9, <2>1, <3>1 DEF NearestOf, SamePlace
  <2>2. CASE i # 1
    <3>1. NearestOf(before, call.best)
      BY <1>1, <2>2 DEF BestSoFar, before
    <3>2. CASE Nearer(proj, call.best)
      <4>1. best = proj
        BY <1>9, <3>2
      <4>2. ~Nearer(call.best, proj)
        <5>1. proj \in Place /\ call.best \in Place
          BY <1>2, <1>5
        <5>2. proj.dist * call.best.den * call.best.den \in Int
              /\ call.best.dist * proj.den * proj.den \in Int
          BY <5>1 DEF Place
        <5>3. QED
          BY <3>2, <5>2 DEF Nearer
      <4>3. \A x \in before : ~Nearer(x, proj)
        BY <1>2, <1>5, <1>6, <3>1, <4>2, NotNearerTransitive DEF NearestOf
      <4>4. QED
        BY <1>5, <4>1, <4>3 DEF NearestOf, SamePlace
    <3>3. CASE ~Nearer(proj, call.best)
      <4>1. best = call.best
        BY <1>9, <2>2, <3>3
      <4>2. \A x \in here : ~Nearer(x, call.best)
        BY <1>2, <1>5, <3>3, NotNearerTransitive
      <4>3. QED
        BY <3>1, <4>1, <4>2 DEF NearestOf
    <3>4. QED
      BY <3>2, <3>3
  <2>3. QED
    BY <2>1, <2>2
<1>12. BestSoFar'
  <2>1. call'.i > 1 /\ call'.i <= Len(call'.points)
    BY <1>1, <1>3, <1>9
  <2>2. NearestOf(PlacesBefore(call'.points, call'.pos, call'.i), call'.best)
    BY <1>7, <1>9, <1>11
  <2>3. QED
    BY <1>1, <1>9, <2>1, <2>2 DEF BestSoFar
<1>13. call'.points \in during' /\ loads' = loads /\ shapes' = shapes
  BY <1>1, <1>9 DEF SnapInv, SnapSegment
<1>14. QED
  BY <1>9, <1>10, <1>12, <1>13 DEF SnapInv, SnapsToOneShape

LEMMA SnapReturnsKeeps ==
  ASSUME SnapInv, SnapReturns
  PROVE  SnapInv' /\ ~call'.running /\ call'.best = call.best
<1>1. call \in Calls /\ call.running /\ call.i >= Len(call.points) /\ BestSoFar
      /\ call.points \in during
  BY DEF SnapInv, SnapReturns
<1>2. call' = [call EXCEPT !.running = FALSE]
  BY DEF SnapReturns
<1>3. call' \in Calls /\ ~call'.running /\ call'.best = call.best /\ call'.pos = call.pos
  BY <1>1, <1>2 DEF Calls
<1>4. IsSnapped(call.pos, call.points, call.best)
  <2>1. Len(call.points) \in Nat /\ call.i \in Nat \ {0}
    BY <1>1 DEF Calls, Polylines
  <2>2. PlacesOn(call.points, call.pos) = PlacesBefore(call.points, call.pos, Len(call.points))
    BY DEF PlacesOn, PlacesBefore
  <2>3. CASE call.i = 1
    <3>1. PlacesOn(call.points, call.pos) = {}
      BY <1>1, <2>1, <2>3 DEF PlacesOn
    <3>2. QED
      BY <1>1, <2>3, <3>1 DEF IsSnapped, BestSoFar
  <2>4. CASE call.i > 1
    <3>1. call.i = Len(call.points)
      BY <1>1, <2>1, <2>4 DEF BestSoFar
    <3>2. NearestOf(PlacesOn(call.points, call.pos), call.best)
      BY <1>1, <2>2, <2>4, <3>1 DEF BestSoFar
    <3>3. QED
      BY <3>2 DEF IsSnapped, NearestOf
  <2>5. QED
    BY <2>1, <2>3, <2>4
<1>5. SnapsToOneShape'
  BY <1>1, <1>3, <1>4 DEF SnapsToOneShape, SnapReturns
<1>6. QED
  BY <1>3, <1>5 DEF SnapInv, SnapReturns

------------------------------------------------------------------------------
(* Update, Prune and LoadShape together.                                   *)

IInv ==
  /\ TypeOK /\ TwinSound /\ SnapInv
  /\ call.running => initialized

LEMMA FilterUnchanged ==
  ASSUME FilterTypeOK, TwinSound, UNCHANGED filterVars
  PROVE  FilterTypeOK' /\ TwinSound'
BY DEF FilterTypeOK, TwinSound, filterVars

LEMMA SnapUnchanged ==
  ASSUME SnapInv, UNCHANGED snapVars
  PROVE  SnapInv'
BY DEF SnapInv, snapVars, BestSoFar, SnapsToOneShape

LEMMA InitIInv == Init => IInv
<1>1. SUFFICES ASSUME Init
               PROVE  IInv
  OBVIOUS
<1>2. SnapInv
  BY <1>1, SnapInitInv DEF Init
<1>3. p \in Matrix
  BY <1>1 DEF Init, FilterInit, diagMatrix, Matrix
<1>4. FilterTypeOK /\ TwinSound /\ initialized = FALSE /\ state = None
  <2>1. initialized = FALSE /\ lastTime = 0 /\ measurements = 0 /\ state = None
    BY <1>1 DEF Init, FilterInit
  <2>2. 0 \in 0..MaxMeasurements
    BY NoiseAssumption
  <2>3. QED
    BY <1>3, <2>1, <2>2 DEF FilterTypeOK, TwinSound
<1>5. ~call.running
  <2>1. PICK id \in ShapeIDs, pos \in Grid : call = [Call(id, pos, <<>>) EXCEPT !.running = FALSE]
    BY <1>1 DEF Init, SnapInit
  <2>2. QED
    BY <2>1 DEF Call
<1>6. QED
  BY <1>2, <1>4, <1>5 DEF IInv, TypeOK, SnapInv, Calls

LEMMA NextIInv == IInv /\ [Next]_vars => IInv'
<1>1. SUFFICES ASSUME IInv, [Next]_vars
               PROVE  IInv'
  OBVIOUS
<1>2. FilterTypeOK /\ TwinSound /\ SnapInv
  BY <1>1 DEF IInv, TypeOK
<1>3. ASSUME SnapInv'
      PROVE  call'.pos \in Grid /\ call'.id \in ShapeIDs /\ call'.i \in Nat \ {0}
             /\ loads' \in 0..MaxLoads
  BY <1>3 DEF SnapInv, Calls
<1>4. CASE UpdateStarts
  <2>1. PICK t \in Times : Filter(t)
    BY <1>4 DEF UpdateStarts
  <2>2. PICK pos \in Grid, id \in ShapeIDs : SnapStarts(pos, id)
    BY <1>4 DEF UpdateStarts
  <2>3. FilterTypeOK' /\ TwinSound'
    BY <1>2, <2>1, FilterSound
  <2>4. SnapInv' /\ call'.running
    BY <1>2, <2>2, SnapStartsKeeps
  <2>5. initialized' = TRUE
    BY <2>1 DEF Filter
  <2>6. QED
    BY <1>3, <2>3, <2>4, <2>5 DEF IInv, TypeOK
<1>5. CASE SnapStep
  <2>1. FilterTypeOK' /\ TwinSound'
    BY <1>2, <1>5, FilterUnchanged DEF SnapStep
  <2>2. SnapInv' /\ call'.running
    BY <1>2, <1>5, SnapSegmentKeeps DEF SnapStep
  <2>3. call.running /\ initialized' = initialized /\ state' = state
    BY <1>5 DEF SnapStep, SnapSegment, filterVars
  <2>4. QED
    BY <1>1, <1>3, <2>1, <2>2, <2>3 DEF IInv, TypeOK
<1>6. CASE UpdateEnds
  <2>1. FilterTypeOK' /\ TwinSound'
    BY <1>2, <1>6, FilterUnchanged DEF UpdateEnds
  <2>2. SnapInv' /\ ~call'.running /\ call'.best = call.best
    BY <1>2, <1>6, SnapReturnsKeeps DEF UpdateEnds
  <2>3. /\ initialized' = initialized /\ lastTime' = lastTime /\ initialized
        /\ state' = [Position |-> call.best, UpdatedAt |-> lastTime]
    BY <1>1, <1>6 DEF UpdateEnds, SnapReturns, filterVars, IInv
  <2>4. QED
    BY <1>1, <1>3, <2>1, <2>2, <2>3 DEF IInv, TypeOK
<1>7. CASE Prune
  <2>1. SnapInv' /\ call' = call /\ ~call.running
    BY <1>2, <1>7, SnapUnchanged DEF Prune, snapVars
  <2>2. p' \in Matrix
    BY <1>7 DEF Prune, diagMatrix, Matrix
  <2>3. ~initialized' /\ lastTime' = 0 /\ measurements' = measurements /\ state' = None
    BY <1>7 DEF Prune
  <2>4. FilterTypeOK' /\ TwinSound'
    BY <1>2, <1>7, <2>2, <2>3 DEF FilterTypeOK, TwinSound, Prune
  <2>5. QED
    BY <1>3, <2>1, <2>3, <2>4 DEF IInv, TypeOK
<1>8. CASE Load
  <2>1. FilterTypeOK' /\ TwinSound'
    BY <1>2, <1>8, FilterUnchanged DEF Load
  <2>2. SnapInv' /\ call' = call
    BY <1>2, <1>8, LoadShapeKeeps DEF Load, LoadShape
  <2>3. initialized' = initialized /\ lastTime' = lastTime /\ state' = state
    BY <1>8 DEF Load, filterVars
  <2>4. QED
    BY <1>1, <1>3, <2>1, <2>2, <2>3 DEF IInv, TypeOK
<1>9. CASE UNCHANGED vars
  <2>1. FilterTypeOK' /\ TwinSound'
    BY <1>2, <1>9, FilterUnchanged DEF vars
  <2>2. SnapInv' /\ call' = call
    BY <1>2, <1>9, SnapUnchanged DEF vars, snapVars
  <2>3. initialized' = initialized /\ lastTime' = lastTime /\ state' = state
    BY <1>9 DEF vars, filterVars
  <2>4. QED
    BY <1>1, <1>3, <2>1, <2>2, <2>3 DEF IInv, TypeOK
<1>10. QED
  BY <1>1, <1>4, <1>5, <1>6, <1>7, <1>8, <1>9 DEF Next

(* What the two invariants of the parts need of each other is only that a  *)
(* Snap belongs to an Update that has filtered.                            *)
THEOREM Inductive == Spec => []IInv
<1>1. QED
  BY InitIInv, NextIInv, PTL DEF Spec

(* Types, and between two Updates the entry is that of the filter's last   *)
(* measurement and of Snap's last answer (VehicleStateManager.Update).     *)
THEOREM TypeCorrect == Spec => []TypeOK
<1>1. IInv => TypeOK
  BY DEF IInv
<1>2. QED
  BY <1>1, Inductive, PTL

(* For every noise, every gap and every order of the timestamps the matrix *)
(* of the filter stays a covariance (KalmanFilter.predict and update).     *)
THEOREM CovarianceStaysSound == Spec => []CovarianceSound
<1>1. IInv => CovarianceSound
  BY TwinCovariance DEF IInv
<1>2. QED
  BY <1>1, Inductive, PTL

(* A longer silence never makes the filter surer, on either side of the    *)
(* gap of predict and across it.                                           *)
THEOREM LongerGapsTrustMore == Spec => []GapTrust
<1>1. IInv => GapTrust
  BY TwinGapTrust DEF IInv
<1>2. QED
  BY <1>1, Inductive, PTL

(* The in-place 4x4 arithmetic computes, fraction for fraction, the filter *)
(* of each coordinate by itself.                                           *)
THEOREM AxesStayIndependent == Spec => AxesIndependent
<1>1. ASSUME IInv, [Next]_vars
      PROVE  [initialized /\ measurements' # measurements =>
                \A k \in {0, 5} :
                  SameVariances(Axis(p', k), AxisFilter(Axis(p, k), Elapsed(lastTime')))]_filterVars
  <2>1. SUFFICES ASSUME initialized, measurements' # measurements
                 PROVE  \A k \in {0, 5} :
                  SameVariances(Axis(p', k), AxisFilter(Axis(p, k), Elapsed(lastTime')))
    OBVIOUS
  <2>2. UpdateStarts
    BY <1>1, <2>1 DEF Next, SnapStep, UpdateEnds, Prune, Load, vars, filterVars
  <2>3. PICK t \in Times : Filter(t)
    BY <2>2 DEF UpdateStarts
  <2>4. QED
    BY <1>1, <2>1, <2>3, FilterAxes DEF IInv, TypeOK
<1>2. QED
  BY <1>1, Inductive, PTL DEF Spec, AxesIndependent

(* Whatever shapes are loaded while Snap runs, it answers with the nearest *)
(* place of one of those its ID had meanwhile (InMemorySnapper.Snap).      *)
THEOREM SnapAnswersOneShape == Spec => []SnapsToOneShape
<1>1. IInv => SnapsToOneShape
  BY DEF IInv, SnapInv
<1>2. QED
  BY <1>1, Inductive, PTL
==============================================================================
