------------------------------ MODULE KalmanFilter -----------------------------
(***************************************************************************)
(* The filter of one vehicle, internal/vehicle/kalman.go: how sure it is   *)
(* of its estimate, whatever the times of the measurements.                *)
(*                                                                         *)
(* The covariance matrix and the gain depend on the times alone, never on  *)
(* the positions: the state vector x is left out, and with it the          *)
(* conversion of speed and bearing.  Entries of the flat 4x4 matrix are    *)
(* integer numerators over one denominator, so the arithmetic is exact.    *)
(***************************************************************************)
EXTENDS Integers, FiniteSetsExt

CONSTANTS
  MeasurementNoise,       \* r of update
  InitialVelocityNoise,   \* the 1e-4 of initialize
  ProcessNoise,           \* q of predict for one second
  Gap,                    \* dt > 30
  GapScale,               \* dt / 10.0
  Times,                  \* the timestamps of measurements, in seconds
  MaxMeasurements

ASSUME NoiseAssumption ==
  /\ {MeasurementNoise, InitialVelocityNoise, ProcessNoise, GapScale} \subseteq Nat \ {0}
  /\ Gap \in Nat /\ Gap >= GapScale
  /\ Times \subseteq Nat
  /\ MaxMeasurements \in Nat

VARIABLES initialized, lastTime, p, measurements

filterVars == <<initialized, lastTime, p, measurements>>

Entry == 0..15

Matrix == [num : [Entry -> Int], den : Nat \ {0}]

------------------------------------------------------------------------------
gcd[a \in Nat, b \in Nat] == IF b = 0 THEN a ELSE gcd[b, a % b]

Abs(n) == IF n < 0 THEN -n ELSE n

GcdOf(S) == FoldSet(LAMBDA n, d : gcd[Abs(n), d], 0, S)

\* A common divisor of the members of S.
Divisor(S) ==
  LET d == GcdOf(S)
  IN  IF d \in Nat \ {0} /\ \A n \in S : n % d = 0 THEN d ELSE 1

\* The same matrix in lowest terms.
Reduce(P) ==
  LET d == Divisor({P.num[k] : k \in Entry} \union {P.den})
  IN  [num |-> [k \in Entry |-> P.num[k] \div d], den |-> P.den \div d]

diagMatrix(d0, d1, d2, d3) ==
  [num |-> [k \in Entry |-> IF k = 0 THEN d0 ELSE IF k = 5 THEN d1 ELSE IF k = 10 THEN d2
                            ELSE IF k = 15 THEN d3 ELSE 0],
   den |-> 1]

InitialCovariance ==
  diagMatrix(MeasurementNoise, MeasurementNoise, InitialVelocityNoise, InitialVelocityNoise)

------------------------------------------------------------------------------
(* predict: F*P*F' in place, the rows of the position before those of the  *)
(* velocity, then the noise.                                               *)

UpperRows(n, dt) ==
  [k \in Entry |->
     IF k \in {0, 1, 4, 5} THEN n[k] + dt * (n[k + 8] + n[k + 2]) + dt * dt * n[k + 10]
     ELSE IF k \in {2, 3, 6, 7} THEN n[k] + dt * n[k + 8]
     ELSE n[k]]

LowerRows(n, dt) ==
  [k \in Entry |-> IF k \in {8, 9, 12, 13} THEN n[k] + dt * n[k + 2] ELSE n[k]]

\* Mutant: the inverse factor for a gap.
Noise_GapCalms(dt) ==
  IF dt > Gap THEN ProcessNoise * GapScale * GapScale ELSE ProcessNoise * dt * GapScale

\* q, in units of 1/GapScale.
Noise(dt) ==
  IF dt > Gap THEN ProcessNoise * dt * dt ELSE ProcessNoise * dt * GapScale

\* The rows after the transition, with q and q * 0.1 added on the diagonal.
AddNoise(moved, den, dt) ==
  LET q == diagMatrix(10 * Noise(dt), 10 * Noise(dt), Noise(dt), Noise(dt)).num
  IN  [num |-> [k \in Entry |-> 10 * GapScale * moved[k] + den * q[k]],
       den |-> 10 * GapScale * den]

\* Mutant: reads the rows of the velocity after changing them.
Predict_LowerFirst(P, dt) == AddNoise(UpperRows(LowerRows(P.num, dt), dt), P.den, dt)

Predict(P, dt) == AddNoise(LowerRows(UpperRows(P.num, dt), dt), P.den, dt)

(* update: P = (I - K*H)*P with K = P*H'*S^-1.  The four entries of S are   *)
(* divided by a common divisor g before S is inverted.                     *)
Update(P) ==
  LET n   == P.num
      r   == MeasurementNoise * P.den
      g   == Divisor({n[0] + r, n[1], n[4], n[5] + r})
      s00 == (n[0] + r) \div g
      s01 == n[1] \div g
      s10 == n[4] \div g
      s11 == (n[5] + r) \div g
      det == s00 * s11 - s01 * s10
      K(i, l) == IF l = 0 THEN n[4*i] * s11 - n[4*i + 1] * s10     \* over g*det
                 ELSE IF l = 1 THEN n[4*i + 1] * s00 - n[4*i] * s01
                 ELSE 0
      IKH(i, l) == (IF i = l THEN g * det ELSE 0) - K(i, l)
  IN  IF det = 0 THEN P
      ELSE [num |-> [k \in Entry |-> LET i == k \div 4
                                         j == k % 4
                                     IN  IKH(i, 0) * n[j] + IKH(i, 1) * n[4 + j]
                                           + IKH(i, 2) * n[8 + j] + IKH(i, 3) * n[12 + j]],
            den |-> g * det * P.den]

------------------------------------------------------------------------------
\* Mutant: the time to an older measurement is negative.
Elapsed_Signed(t) == t - lastTime

Elapsed(t) == IF t <= lastTime THEN 1 ELSE t - lastTime

FilterInit ==
  /\ initialized = FALSE
  /\ lastTime = 0
  /\ p = diagMatrix(0, 0, 0, 0)
  /\ measurements = 0

Filter(t) ==
  /\ measurements < MaxMeasurements
  /\ p' = IF initialized THEN Reduce(Update(Predict(p, Elapsed(t)))) ELSE InitialCovariance
  /\ initialized' = TRUE
  /\ lastTime' = t
  /\ measurements' = measurements + 1

------------------------------------------------------------------------------
FilterTypeOK ==
  /\ initialized \in BOOLEAN
  /\ lastTime \in Times \union {0}
  /\ p \in Matrix
  /\ measurements \in 0..MaxMeasurements

(* Whatever the order of the timestamps, the matrix is a covariance: it is *)
(* symmetric and positive definite, latitude and longitude are independent *)
(* and equally uncertain, position and velocity are not negatively         *)
(* correlated, and the position is at least as sure as one measurement.    *)
CovarianceSound ==
  initialized =>
    LET n == p.num
    IN  /\ \A i, j \in 0..3 : n[4*i + j] = n[4*j + i]
        /\ n[1] = 0 /\ n[3] = 0 /\ n[6] = 0 /\ n[11] = 0
        /\ n[0] = n[5] /\ n[2] = n[7] /\ n[10] = n[15]
        /\ n[0] > 0 /\ n[2] >= 0 /\ n[0] * n[10] > n[2] * n[2]
        /\ n[0] <= MeasurementNoise * p.den

(* The longer the silence before the next measurement, the less sure the   *)
(* prediction is of position and velocity and the more that measurement    *)
(* counts, across the gap threshold as well.                               *)
GapTrust ==
  initialized =>
    \A d \in 1..(Gap + 1) :
      LET P1 == Predict(p, d)
          P2 == Predict(p, d + 1)
      IN  P1.den = P2.den /\ \A k \in {0, 2, 5, 7, 10, 15} : P1.num[k] <= P2.num[k]

\* One coordinate of the matrix: that of latitude starts at entry 0, of longitude at 5.
Axis(P, k) ==
  [a |-> P.num[k], b |-> P.num[k + 2],
   c |-> P.num[IF k = 0 THEN 10 ELSE 15], den |-> P.den]

\* The textbook filter of one coordinate: variance a, covariance b with its
\* velocity, variance c of the velocity, over den.
AxisFilter(axis, dt) ==
  LET u == 10 * GapScale
      a == u * (axis.a + 2 * dt * axis.b + dt * dt * axis.c) + 10 * Noise(dt) * axis.den
      b == u * (axis.b + dt * axis.c)
      c == u * axis.c + Noise(dt) * axis.den
      r == MeasurementNoise * u * axis.den
      d == Divisor({r * a, r * b, c * (a + r) - b * b, u * axis.den * (a + r)})
  IN  [a |-> (r * a) \div d, b |-> (r * b) \div d,
       c |-> (c * (a + r) - b * b) \div d, den |-> (u * axis.den * (a + r)) \div d]

\* Equal as fractions.
SameVariances(x, y) ==
  x.a * y.den = y.a * x.den /\ x.b * y.den = y.b * x.den /\ x.c * y.den = y.c * x.den

(* The 4x4 matrix, updated in place with the inverse of S, is what two     *)
(* filters of one coordinate each compute: no entry is read after it was   *)
(* overwritten, and none is forgotten.                                     *)
AxesIndependent ==
  [][initialized /\ measurements' # measurements =>
       \A k \in {0, 5} :
         SameVariances(Axis(p', k), AxisFilter(Axis(p, k), Elapsed(lastTime')))]_filterVars
==============================================================================
