---------------------------- MODULE AdcLinkProofs ----------------------------
(***************************************************************************)
(* Proofs about AdcLink, for every clock, every set of rates a float holds *)
(* exactly, any number of channels, and value bytes garbled at will.       *)
(*                                                                         *)
(* The timer: determinePrescale and determineCounter between them give the *)
(* period asked for as far as the prescaler of 64 reaches, to within one   *)
(* count or what the rounding of a float costs, and the longest period     *)
(* beyond it.                                                              *)
(*                                                                         *)
(* The link: whatever handlers come, one answer waits exactly when the     *)
(* main loop is to take one, and each of its steps brings a switch         *)
(* forward.  As long as no handler has come inside a transfer the ADC's    *)
(* decoder is where the main loop's place says, and the registers hold     *)
(* what has been written for the head each was loaded from.  A handler's   *)
(* attempts, and the bytes of each, are recursive functions; what they     *)
(* leave behind is shown by induction.                                     *)
(***************************************************************************)
EXTENDS AdcLink, SampleClockProofs, Induction, SequenceTheorems, TLAPS

\* Whole-number division, as the two bounds that define it.
LEMMA Division ==
    ASSUME NEW a \in Nat, NEW k \in Nat \ {0}
    PROVE  /\ a \div k \in Nat
           /\ (a \div k) * k <= a
           /\ a < (a \div k + 1) * k
  OBVIOUS

\* The division is the only number within those bounds.
LEMMA Quotient ==
    ASSUME NEW a \in Nat, NEW k \in Nat \ {0}, NEW q \in Int, q * k <= a, a < (q + 1) * k
    PROVE  a \div k = q
<1> DEFINE d == a \div k
<1>1. d \in Nat /\ d * k <= a /\ a < (d + 1) * k
  BY Division
<1> HIDE DEF d
<1>2. CASE d < q
  <2>1. (d + 1) * k <= q * k
    BY <1>1, <1>2
  <2>2. QED
    BY <1>1, <2>1
<1>3. CASE q < d
  <2>1. (q + 1) * k <= d * k
    BY <1>1, <1>3
  <2>2. QED
    BY <1>1, <2>1
<1>4. QED
  BY <1>1, <1>2, <1>3 DEF d

\* What is rounded moves by half a unit at most.
LEMMA NearestBounds ==
    ASSUME NEW a \in Nat, NEW b \in Nat \ {0}
    PROVE  /\ Nearest(a, b) \in Nat
           /\ 2 * (Nearest(a, b) * b) <= 2 * a + b
           /\ 2 * a <= 2 * (Nearest(a, b) * b) + b
<1> DEFINE q == a \div b
           r == a % b
<1>1. q \in Nat /\ r \in Nat /\ r < b /\ a = q * b + r
  OBVIOUS
<1>2. Nearest(a, b) = IF 2 * r < b \/ (2 * r = b /\ q % 2 = 0) THEN q ELSE q + 1
  BY DEF Nearest
<1> HIDE DEF q, r
<1>3. (q + 1) * b = q * b + b
  BY <1>1
<1>4. QED
  BY <1>1, <1>2, <1>3

\* A whole number is its own nearest.
LEMMA NearestOfWhole ==
    ASSUME NEW q \in Nat, NEW b \in Nat \ {0}
    PROVE  Nearest(q * b, b) = q
<1>1. q * b \in Nat /\ q * b < (q + 1) * b
  OBVIOUS
<1>2. (q * b) \div b = q
  BY <1>1, Quotient
<1>3. (q * b) % b = 0
  BY <1>1, <1>2
<1>4. QED
  BY <1>2, <1>3 DEF Nearest

----------------------------------------------------------------------------
(* Floats *)

\* A float of full precision is off by one part in 2^24 at most.
LEMMA FloatBounds ==
    ASSUME NEW a \in Nat \ {0}, NEW b \in Nat \ {0}, Normal(a, b)
    PROVE  LET x == Float(a, b)
           IN  /\ x.n \in Nat /\ x.d \in Nat \ {0}
               /\ FLOAT_INTS * (x.n * b) <= (FLOAT_INTS + 1) * (a * x.d)
               /\ (FLOAT_INTS - 1) * (a * x.d) <= FLOAT_INTS * (x.n * b)
<1> USE TimerAssumption
<1> DEFINE k == CHOOSE k \in Powers : ScaledBy(k, a, b)
<1>1. k \in Powers /\ ScaledBy(k, a, b)
  BY DEF Normal
<1>2. Float(a, b) = IF Small(a, b) THEN [n |-> Nearest(a * k, b), d |-> k]
                    ELSE [n |-> k * Nearest(a, b * k), d |-> 1]
  BY DEF Float
<1> HIDE DEF k
<1>3. k \in Nat \ {0}
  BY <1>1
<1>4. CASE Small(a, b)
  <2> DEFINE m == Nearest(a * k, b)
  <2>1. Float(a, b).n = m /\ Float(a, b).d = k
    BY <1>2, <1>4
  <2>2. a * k \in Nat
    BY <1>3
  <2>3. m \in Nat /\ 2 * (m * b) <= 2 * (a * k) + b /\ 2 * (a * k) <= 2 * (m * b) + b
    BY <2>2, NearestBounds
  <2>4. FLOAT_INTS * b <= 2 * (a * k)
    BY <1>1, <1>4 DEF ScaledBy, OnGrid
  <2> HIDE DEF m
  <2> DEFINE A == a * k
             M == m * b
             F == FLOAT_INTS
  <2>5. A \in Nat /\ M \in Nat /\ F \in Nat \ {0} /\ F * b \in Nat
    BY <2>2, <2>3
  <2>6. 2 * (F * M) <= 2 * (F * A) + F * b /\ 2 * (F * A) <= 2 * (F * M) + F * b
    <3> HIDE DEF A, M, F
    <3>1. F * (2 * M) <= F * (2 * A + b) /\ F * (2 * A) <= F * (2 * M + b)
      BY <2>3, <2>5 DEF A, M
    <3>2. QED
      BY <2>5, <3>1
  <2>7. F * b <= 2 * A
    BY <2>4 DEF A, F
  <2> HIDE DEF A, M, F
  <2>8. F * M <= (F + 1) * A /\ (F - 1) * A <= F * M
    BY <2>5, <2>6, <2>7
  <2>9. QED
    BY <1>3, <2>1, <2>3, <2>8 DEF A, M, F
<1>5. CASE ~Small(a, b)
  <2> DEFINE m == Nearest(a, b * k)
  <2>1. Float(a, b).n = k * m /\ Float(a, b).d = 1
    BY <1>2, <1>5
  <2>2. b * k \in Nat \ {0}
    BY <1>3
  <2>3. m \in Nat /\ 2 * (m * (b * k)) <= 2 * a + b * k /\ 2 * a <= 2 * (m * (b * k)) + b * k
    BY <2>2, NearestBounds
  <2>4. FLOAT_INTS * (b * k) <= 2 * a
    BY <1>1, <1>5 DEF ScaledBy, OnGrid
  <2> HIDE DEF m
  <2> DEFINE B == b * k
             M == m * B
             F == FLOAT_INTS
  <2>5. B \in Nat \ {0} /\ M \in Nat /\ F \in Nat \ {0} /\ F * B \in Nat
    BY <2>2, <2>3
  <2>6. 2 * (F * M) <= 2 * (F * a) + F * B /\ 2 * (F * a) <= 2 * (F * M) + F * B
    <3> HIDE DEF B, M, F
    <3>1. 2 * M <= 2 * a + B /\ 2 * a <= 2 * M + B
      BY <2>3 DEF B, M
    <3>2. F * (2 * M) <= F * (2 * a + B) /\ F * (2 * a) <= F * (2 * M + B)
      BY <2>5, <3>1
    <3>3. QED
      BY <2>5, <3>2
  <2>7. F * B <= 2 * a
    BY <2>4 DEF B, F
  <2>8. (k * m) * b = M
    BY <1>3, <2>3 DEF M, B
  <2> HIDE DEF B, M, F
  <2>9. F * M <= (F + 1) * a /\ (F - 1) * a <= F * M
    BY <2>5, <2>6, <2>7
  <2>10. QED
    BY <1>3, <2>1, <2>3, <2>8, <2>9 DEF F
<1>6. QED
  BY <1>4, <1>5

\* Cut to a whole number, it is off by less than one, or by one part in 2^24.
Whole(x) == x.n \div x.d

LEMMA WholeBounds ==
    ASSUME NEW a \in Nat \ {0}, NEW b \in Nat \ {0}, Normal(a, b)
    PROVE  LET c == Whole(Float(a, b))
           IN  /\ c \in Nat
               /\ \/ a - b < c * b /\ c * b < a + b
                  \/ /\ FLOAT_INTS * (c * b) <= (FLOAT_INTS + 1) * a
                     /\ (FLOAT_INTS - 1) * a <= FLOAT_INTS * (c * b)
<1> USE TimerAssumption
<1> DEFINE x == Float(a, b)
<1>1. /\ x.n \in Nat /\ x.d \in Nat \ {0}
      /\ FLOAT_INTS * (x.n * b) <= (FLOAT_INTS + 1) * (a * x.d)
      /\ (FLOAT_INTS - 1) * (a * x.d) <= FLOAT_INTS * (x.n * b)
  BY FloatBounds
<1>2. CASE x.d = 1
  <2>1. Whole(x) = x.n
    BY <1>1, <1>2 DEF Whole
  <2>2. a * x.d = a
    BY <1>2
  <2>3. QED
    BY <1>1, <2>1, <2>2
<1>3. CASE x.d # 1
  <2> DEFINE k == CHOOSE k \in Powers : ScaledBy(k, a, b)
             m == Nearest(a * k, b)
             q == a \div b
             c == Whole(x)
  <2>1. x = [n |-> m, d |-> k] /\ k \in Nat \ {0}
    BY <1>1, <1>3 DEF Float
  <2> HIDE DEF k
  <2>2. c = m \div k
    BY <2>1 DEF Whole
  <2>3. q \in Nat /\ q * b <= a /\ a < (q + 1) * b
    BY Division
  <2> HIDE DEF q
  <2>4. a * k \in Nat /\ (q * b) * k <= a * k /\ a * k < ((q + 1) * b) * k
    BY <2>1, <2>3
  <2>5. (q * b) * k = (q * k) * b /\ ((q + 1) * b) * k = ((q + 1) * k) * b /\ q * k \in Nat /\ (q + 1) * k \in Nat
    BY <2>1, <2>3
  <2>6. m \in Nat /\ 2 * (m * b) <= 2 * (a * k) + b /\ 2 * (a * k) <= 2 * (m * b) + b
    BY <2>4, NearestBounds
  <2>7. a = q * b => m = q * k
    <3> SUFFICES ASSUME a = q * b PROVE m = q * k
      OBVIOUS
    <3>1. a * k = (q * k) * b
      BY <2>5
    <3>2. QED
      BY <2>5, <3>1, NearestOfWhole
  <2> HIDE DEF m
  <2>8. q * k <= m
    <3> DEFINE u == q * k
    <3>1. u \in Nat /\ u * b <= a * k
      BY <2>4, <2>5
    <3> HIDE DEF u
    <3>2. CASE m < u
      <4>1. m * b + b <= u * b
        <5>1. (m + 1) * b <= u * b
          BY <2>6, <3>1, <3>2
        <5>2. QED
          BY <2>6, <5>1
      <4>2. QED
        BY <2>4, <2>6, <3>1, <4>1
    <3>3. QED
      BY <2>6, <3>1, <3>2 DEF u
  <2>9. m <= (q + 1) * k
    <3> DEFINE u == (q + 1) * k
    <3>1. u \in Nat /\ a * k < u * b
      BY <2>4, <2>5
    <3> HIDE DEF u
    <3>2. CASE u < m
      <4>1. u * b + b <= m * b
        <5>1. (u + 1) * b <= m * b
          BY <2>6, <3>1, <3>2
        <5>2. QED
          BY <3>1, <5>1
      <4>2. QED
        BY <2>4, <2>6, <3>1, <4>1
    <3>3. QED
      BY <2>6, <3>1, <3>2 DEF u
  <2>10. CASE m = (q + 1) * k
    <3>1. m < (q + 1 + 1) * k
      BY <2>1, <2>3, <2>10
    <3>2. c = q + 1
      BY <2>1, <2>2, <2>3, <2>6, <2>10, <3>1, Quotient
    <3>3. a # q * b
      BY <2>1, <2>3, <2>7, <2>10
    <3>4. c * b = q * b + b /\ (q + 1) * b = q * b + b /\ q * b \in Nat
      BY <2>3, <3>2
    <3> HIDE DEF c, x
    <3>5. c \in Nat /\ a - b < c * b /\ c * b < a + b
      BY <2>3, <3>2, <3>3, <3>4
    <3>6. QED
      BY <3>5 DEF c, x
  <2>11. CASE m # (q + 1) * k
    <3>1. c = q
      BY <2>1, <2>2, <2>3, <2>5, <2>6, <2>8, <2>9, <2>11, Quotient
    <3>2. (q + 1) * b = q * b + b /\ q * b \in Nat
      BY <2>3
    <3> HIDE DEF c, x
    <3>3. c \in Nat /\ a - b < c * b /\ c * b < a + b
      BY <2>3, <3>1, <3>2
    <3>4. QED
      BY <3>3 DEF c, x
  <2>12. QED
    BY <2>10, <2>11
<1>4. QED
  BY <1>2, <1>3

----------------------------------------------------------------------------
(* The prescaler and the counter *)

LEMMA ModOfPrescalers ==
    /\ \A p \in {1, 2, 4, 8, 16, 64} : PrescaleToInt(p) = p
    /\ PrescaleToInt(256) = 0 /\ PrescaleToInt(1024) = 0
  BY DEF PrescaleToInt

\* determinePrescale picks a prescaler that fits, or one of the two largest
\* because that of 64 does not.
LEMMA PrescaleChosen ==
    ASSUME NEW rate
    PROVE  \/ DeterminePrescale(rate) \in {1, 2, 4, 8, 16, 64} /\ Fits(DeterminePrescale(rate), rate)
           \/ DeterminePrescale(rate) \in {256, 1024} /\ ~Fits(64, rate)
<1> DEFINE fit == {p \in Prescalers \ {1024} : Fits(p, rate)}
           least == CHOOSE p \in fit : \A q \in fit : p <= q
<1>1. DeterminePrescale(rate) = IF fit = {} THEN 1024 ELSE least
  BY DEF DeterminePrescale
<1>2. fit \subseteq {1, 2, 4, 8, 16, 64, 256} /\ (64 \in fit <=> Fits(64, rate))
  BY DEF Prescalers
<1>3. \A p \in fit : Fits(p, rate)
  OBVIOUS
<1>4. fit # {} => \E p \in fit : \A q \in fit : p <= q
  <2> HIDE DEF fit
  <2>1. CASE 1 \in fit
    BY <1>2, <2>1
  <2>2. CASE 1 \notin fit /\ 2 \in fit
    BY <1>2, <2>2
  <2>3. CASE 1 \notin fit /\ 2 \notin fit /\ 4 \in fit
    BY <1>2, <2>3
  <2>4. CASE 1 \notin fit /\ 2 \notin fit /\ 4 \notin fit /\ 8 \in fit
    BY <1>2, <2>4
  <2>5. CASE 1 \notin fit /\ 2 \notin fit /\ 4 \notin fit /\ 8 \notin fit /\ 16 \in fit
    BY <1>2, <2>5
  <2>6. CASE 1 \notin fit /\ 2 \notin fit /\ 4 \notin fit /\ 8 \notin fit /\ 16 \notin fit /\ 64 \in fit
    BY <1>2, <2>6
  <2>7. CASE 1 \notin fit /\ 2 \notin fit /\ 4 \notin fit /\ 8 \notin fit /\ 16 \notin fit /\ 64 \notin fit
    <3>1. \A q \in fit : q = 256
      BY <1>2, <2>7
    <3>2. QED
      BY <3>1
  <2>8. QED
    BY <2>1, <2>2, <2>3, <2>4, <2>5, <2>6, <2>7
<1> HIDE DEF fit
<1>5. fit # {} => least \in fit /\ \A q \in fit : least <= q
  BY <1>4
<1> HIDE DEF least
<1>6. CASE fit = {}
  BY <1>1, <1>2, <1>6
<1>7. CASE fit # {} /\ least \in {1, 2, 4, 8, 16, 64}
  BY <1>1, <1>3, <1>5, <1>7
<1>8. CASE fit # {} /\ least = 256
  BY <1>1, <1>2, <1>5, <1>8
<1>9. QED
  BY <1>2, <1>5, <1>6, <1>7, <1>8

\* Two quotients within one part of their floats, of which one is below a multiple
\* of the other: so are they, within those parts.
LEMMA Chained ==
    ASSUME NEW F \in Nat \ {0}, NEW C \in Nat \ {0}, NEW T \in Nat \ {0},
           NEW d \in Nat \ {0}, NEW n \in Nat \ {0}, NEW p \in Nat \ {0},
           NEW Zn \in Nat, NEW Zd \in Nat \ {0}, NEW Yn \in Nat, NEW Yd \in Nat \ {0}
    PROVE  /\ /\ (F - 1) * (d * Zd) <= F * (Zn * n)
              /\ F * (Yn * C) <= (F + 1) * (T * Yd)
              /\ Zn * Yd < p * Yn * Zd
              => (F - 1) * (C * d) < (F + 1) * (T * (p * n))
           /\ /\ F * (Zn * n) <= (F + 1) * (d * Zd)
              /\ (F - 1) * (T * Yd) <= F * (Yn * C)
              /\ ~(Zn * Yd < p * Yn * Zd)
              => (F - 1) * (T * (p * n)) <= (F + 1) * (C * d)
<1> DEFINE dZ == d * Zd   Znn == Zn * n   YC == Yn * C   TY == T * Yd
           ZY == Zn * Yd  pYZ == p * Yn * Zd
           x == C * d     w == T * (p * n)   k == Yd * Zd
           u == Yd * C    v == p * n * Zd    f == F * (n * C)
<1>1. /\ dZ \in Nat /\ Znn \in Nat /\ YC \in Nat /\ TY \in Nat /\ ZY \in Nat /\ pYZ \in Nat
      /\ x \in Nat /\ w \in Nat /\ k \in Nat \ {0}
      /\ u \in Nat \ {0} /\ v \in Nat \ {0} /\ f \in Nat \ {0}
  <2>1. n * C \in Nat \ {0} /\ p * n \in Nat \ {0}
    OBVIOUS
  <2>2. F * (n * C) \in Nat \ {0} /\ (p * n) * Zd \in Nat \ {0} /\ T * (p * n) \in Nat
    BY <2>1
  <2>3. p * Yn \in Nat
    OBVIOUS
  <2>4. p * Yn * Zd \in Nat
    BY <2>3
  <2>5. QED
    BY <2>2, <2>4
<1>2. /\ dZ * u = x * k
      /\ (F * Znn) * u = f * ZY
      /\ f * pYZ = (F * YC) * v
      /\ TY * v = w * k
  OBVIOUS
<1> HIDE DEF dZ, Znn, YC, TY, ZY, pYZ, x, w, k, u, v, f
<1>3. ASSUME (F - 1) * dZ <= F * Znn, F * YC <= (F + 1) * TY, ZY < pYZ
      PROVE  (F - 1) * x < (F + 1) * w
  <2>1. ((F - 1) * dZ) * u <= (F * Znn) * u
    BY <1>1, <1>3
  <2>2. f * ZY < f * pYZ
    BY <1>1, <1>3
  <2>3. (F * YC) * v <= ((F + 1) * TY) * v
    BY <1>1, <1>3
  <2>4. ((F - 1) * dZ) * u = (F - 1) * (dZ * u) /\ ((F + 1) * TY) * v = (F + 1) * (TY * v)
    BY <1>1
  <2>5. (F - 1) * (x * k) < (F + 1) * (w * k)
    BY <1>1, <1>2, <2>1, <2>2, <2>3, <2>4
  <2>6. ((F - 1) * x) * k < ((F + 1) * w) * k
    BY <1>1, <2>5
  <2>7. ASSUME NEW a \in Nat, NEW b \in Nat, a * k < b * k
        PROVE  a < b
    <3>1. b <= a => b * k <= a * k
      BY <1>1
    <3>2. QED
      BY <1>1, <2>7, <3>1
  <2>8. (F - 1) * x \in Nat /\ (F + 1) * w \in Nat
    BY <1>1
  <2>9. QED
    BY <2>6, <2>7, <2>8
<1>4. ASSUME F * Znn <= (F + 1) * dZ, (F - 1) * TY <= F * YC, ~(ZY < pYZ)
      PROVE  (F - 1) * w <= (F + 1) * x
  <2>1. (F * Znn) * u <= ((F + 1) * dZ) * u
    BY <1>1, <1>4
  <2>2. f * pYZ <= f * ZY
    BY <1>1, <1>4
  <2>3. ((F - 1) * TY) * v <= (F * YC) * v
    BY <1>1, <1>4
  <2>4. ((F + 1) * dZ) * u = (F + 1) * (dZ * u) /\ ((F - 1) * TY) * v = (F - 1) * (TY * v)
    BY <1>1
  <2>5. (F - 1) * (w * k) <= (F + 1) * (x * k)
    BY <1>1, <1>2, <2>1, <2>2, <2>3, <2>4
  <2>6. ((F - 1) * w) * k <= ((F + 1) * x) * k
    BY <1>1, <2>5
  <2>7. ASSUME NEW a \in Nat, NEW b \in Nat, a * k <= b * k
        PROVE  a <= b
    <3>1. b < a => b * k < a * k
      BY <1>1
    <3>2. QED
      BY <1>1, <2>7, <3>1
  <2>8. (F + 1) * x \in Nat /\ (F - 1) * w \in Nat
    BY <1>1
  <2>9. QED
    BY <2>6, <2>7, <2>8
<1>5. QED
  BY <1>3, <1>4 DEF dZ, Znn, YC, TY, ZY, pYZ, x, w

\* What the comparison of two floats says of the count it stands for
LEMMA FitsBounds ==
    ASSUME NEW rate, Computable(rate), NEW p \in Nat \ {0}
    PROVE  LET e == F_CPU * rate.d  b == p * rate.n
           IN  IF Fits(p, rate)
               THEN (FLOAT_INTS - 1) * e < (FLOAT_INTS + 1) * ((UINT32_MAX + 1) * b)
               ELSE (FLOAT_INTS - 1) * ((UINT32_MAX + 1) * b) <= (FLOAT_INTS + 1) * e
<1> DEFINE z == Float(rate.d, rate.n)
           T == UINT32_MAX + 1
<1>1. /\ FLOAT_INTS \in Nat \ {0} /\ F_CPU \in Nat \ {0} /\ T \in Nat \ {0}
      /\ rate.d \in Nat \ {0} /\ rate.n \in Nat \ {0}
  BY TimerAssumption DEF Computable, UINT32_MAX
<1>2. /\ z.n \in Nat /\ z.d \in Nat \ {0}
      /\ FLOAT_INTS * (z.n * rate.n) <= (FLOAT_INTS + 1) * (rate.d * z.d)
      /\ (FLOAT_INTS - 1) * (rate.d * z.d) <= FLOAT_INTS * (z.n * rate.n)
  BY <1>1, FloatBounds DEF Computable
<1>3. /\ CLK_PS_1.n \in Nat /\ CLK_PS_1.d \in Nat \ {0}
      /\ FLOAT_INTS * (CLK_PS_1.n * F_CPU) <= (FLOAT_INTS + 1) * (T * CLK_PS_1.d)
      /\ (FLOAT_INTS - 1) * (T * CLK_PS_1.d) <= FLOAT_INTS * (CLK_PS_1.n * F_CPU)
  BY <1>1, FloatBounds DEF Computable, CLK_PS_1
<1>4. Fits(p, rate) <=> z.n * CLK_PS_1.d < p * CLK_PS_1.n * z.d
  BY DEF Fits
<1> HIDE DEF z, T
<1>5. CASE Fits(p, rate)
  <2>1. (FLOAT_INTS - 1) * (F_CPU * rate.d) < (FLOAT_INTS + 1) * (T * (p * rate.n))
    BY <1>1, <1>2, <1>3, <1>4, <1>5, Chained
  <2>2. QED
    BY <1>5, <2>1 DEF T
<1>6. CASE ~Fits(p, rate)
  <2>1. (FLOAT_INTS - 1) * (T * (p * rate.n)) <= (FLOAT_INTS + 1) * (F_CPU * rate.d)
    BY <1>1, <1>2, <1>3, <1>4, <1>6, Chained
  <2>2. QED
    BY <1>6, <2>1 DEF T
<1>7. QED
  BY <1>5, <1>6

\* A quotient that the conversion to 32 bits cuts short is hardly above what is
\* left of it, for the prescaler was chosen so that it should fit.
LEMMA CutNear ==
    ASSUME NEW e \in Nat \ {0}, NEW b \in Nat \ {0},
           FLOAT_INTS * ((UINT32_MAX + 1) * b) <= (FLOAT_INTS + 1) * e,
           (FLOAT_INTS - 1) * e < (FLOAT_INTS + 1) * ((UINT32_MAX + 1) * b)
    PROVE  Near(UINT32_MAX, e, b)
<1> DEFINE F == FLOAT_INTS
           w == (UINT32_MAX + 1) * b
           c == F * b
<1>1. F \in Nat \ {0, 1} /\ UINT32_MAX \in Nat /\ c \in Nat /\ w \in Nat
  BY TimerAssumption DEF UINT32_MAX
<1>2. UINT32_MAX * b = w - b
  BY <1>1
<1>3. w = 256 * c
  BY <1>1 DEF UINT32_MAX
<1>4. F * w <= (F + 1) * e /\ (F - 1) * e < (F + 1) * w
  OBVIOUS
<1> HIDE DEF F, w, c
<1>5. 2 * w <= 3 * e
  <2>1. CASE 3 * e < 2 * w
    <3>1. F * (3 * e + 1) <= F * (2 * w)
      BY <1>1, <2>1
    <3>2. F * (2 * w) <= 2 * ((F + 1) * e)
      BY <1>1, <1>4
    <3>3. F * e >= 2 * e
      BY <1>1
    <3>4. QED
      BY <1>1, <3>1, <3>2, <3>3
  <2>2. QED
    BY <1>1, <2>1
<1>6. F * (w - b) = F * w - c
  BY <1>1 DEF c
<1>7. F * (w - b) <= (F + 3) * e
  <2>1. (F + 3) * e = (F + 1) * e + 2 * e
    BY <1>1
  <2>2. QED
    BY <1>1, <1>4, <1>6, <2>1
<1>8. (F - 3) * e <= F * (w - b)
  <2>1. (F - 3) * e = (F - 1) * e - 2 * e /\ (F + 1) * w = F * w + w
    BY <1>1
  <2>2. QED
    BY <1>1, <1>3, <1>4, <1>5, <1>6, <2>1
<1>9. QED
  BY <1>2, <1>7, <1>8 DEF Near, F

\* The period TC4 is given: as near the rate's as floats allow where it has a
\* prescaler of up to 64, the longest count otherwise.
Accurate(t, rate) ==
    /\ t.ps \in Prescalers /\ t.cc \in 0..UINT32_MAX
    /\ IF t.ps <= 64 THEN Near(t.cc, F_CPU * rate.d, t.ps * rate.n)
       ELSE /\ t.cc = UINT32_MAX
            /\ (FLOAT_INTS - 1) * ((UINT32_MAX + 1) * (64 * rate.n)) <= (FLOAT_INTS + 1) * (F_CPU * rate.d)

LEMMA ConfigTimerAccurate ==
    ASSUME NEW rate, Computable(rate)
    PROVE  Accurate(ConfigTimer(rate), rate)
<1> DEFINE p == DeterminePrescale(rate)
           cc == DetermineCounter(p, rate)
           e == F_CPU * rate.d
           b == p * rate.n
           F == FLOAT_INTS
<1>1. ConfigTimer(rate).ps = p /\ ConfigTimer(rate).cc = cc
  BY DEF ConfigTimer
<1>2. /\ rate.n \in Nat \ {0} /\ rate.d \in Nat \ {0} /\ F_CPU \in Nat \ {0}
      /\ e \in Nat \ {0} /\ UINT32_MAX \in Nat /\ F \in Nat \ {0}
  BY TimerAssumption DEF Computable, UINT32_MAX
<1>3. CASE p \in {1, 2, 4, 8, 16, 64} /\ Fits(p, rate)
  <2> DEFINE x == Float(e, b)
             c == Whole(x)
  <2> HIDE DEF p
  <2>1. p \in Nat \ {0} /\ p <= 64 /\ p \in Prescalers /\ b \in Nat \ {0} /\ Normal(e, b)
    BY <1>2, <1>3 DEF Prescalers, Computable
  <2>2. PrescaleToInt(p) = p /\ p # 0
    BY <1>3, ModOfPrescalers
  <2>3. cc = IF c < UINT32_MAX THEN c ELSE UINT32_MAX
    BY <2>2 DEF DetermineCounter, ToUint32, Whole
  <2>4. (F - 1) * e < (F + 1) * ((UINT32_MAX + 1) * b)
    BY <1>3, <2>1, FitsBounds
  <2> HIDE DEF e, b
  <2>5. /\ x.n \in Nat /\ x.d \in Nat \ {0}
        /\ F * (x.n * b) <= (F + 1) * (e * x.d)
    BY <1>2, <2>1, FloatBounds
  <2>6. /\ c \in Nat
        /\ \/ e - b < c * b /\ c * b < e + b
           \/ F * (c * b) <= (F + 1) * e /\ (F - 1) * e <= F * (c * b)
    BY <1>2, <2>1, WholeBounds
  <2>7. c * x.d <= x.n
    BY <2>5, Division DEF Whole
  <2> HIDE DEF c, cc
  <2>8. Near(c, e, b)
    <3>1. CASE F * (c * b) <= (F + 1) * e /\ (F - 1) * e <= F * (c * b)
      <4>1. (F + 3) * e = (F + 1) * e + 2 * e /\ (F - 3) * e = (F - 1) * e - 2 * e
        BY <1>2
      <4>2. (F + 1) * e \in Nat /\ (F - 1) * e \in Nat
        BY <1>2
      <4>3. F * (c * b) \in Nat
        <5>1. c * b \in Nat
          BY <2>1, <2>6
        <5>2. QED
          BY <1>2, <5>1
      <4>4. QED
        BY <1>2, <3>1, <4>1, <4>2, <4>3 DEF Near
    <3>2. QED
      BY <2>6, <3>1 DEF Near
  <2>9. CASE c <= UINT32_MAX
    <3>1. cc = c
      BY <1>2, <2>3, <2>6, <2>9
    <3>2. QED
      BY <1>1, <1>2, <2>1, <2>6, <2>8, <2>9, <3>1 DEF Accurate, e, b
  <2>10. CASE UINT32_MAX < c
    <3> DEFINE T == UINT32_MAX + 1
    <3>1. T \in Nat /\ T <= c
      BY <1>2, <2>6, <2>10
    <3> HIDE DEF T, x
    <3>2. T * x.d <= x.n
      <4>1. T * x.d <= c * x.d
        BY <2>5, <2>6, <3>1
      <4>2. T * x.d \in Nat /\ c * x.d \in Nat
        BY <2>5, <2>6, <3>1
      <4>3. QED
        BY <2>5, <2>7, <4>1, <4>2
    <3>3. F * (T * b) <= (F + 1) * e
      <4> DEFINE k == x.d
                 A == F * (T * b)
                 B == (F + 1) * e
      <4>1. A * k <= B * k
        <5>1. (T * k) * b <= x.n * b
          BY <2>1, <2>5, <3>1, <3>2
        <5>2. (T * k) * b \in Nat /\ x.n * b \in Nat
          BY <2>1, <2>5, <3>1
        <5>3. F * ((T * k) * b) <= F * (x.n * b)
          BY <1>2, <5>1, <5>2
        <5>4. F * ((T * k) * b) = A * k /\ (F + 1) * (e * k) = B * k
          BY <1>2, <2>1, <2>5, <3>1
        <5>5. F * (x.n * b) \in Nat /\ A * k \in Nat /\ B * k \in Nat
          <6>1. T * b \in Nat /\ A \in Nat /\ B \in Nat
            BY <1>2, <2>1, <3>1
          <6>2. QED
            BY <1>2, <2>5, <5>2, <6>1
        <5>6. QED
          BY <2>5, <5>3, <5>4, <5>5
      <4>2. A \in Nat /\ B \in Nat /\ k \in Nat \ {0}
        <5>1. T * b \in Nat
          BY <2>1, <3>1
        <5>2. QED
          BY <1>2, <2>5, <5>1
      <4> HIDE DEF A, B, k
      <4>3. B < A => B * k < A * k
        BY <4>2
      <4>4. A <= B
        BY <4>1, <4>2, <4>3
      <4>5. QED
        BY <4>4 DEF A, B
    <3>4. Near(UINT32_MAX, e, b)
      BY <1>2, <2>1, <2>4, <3>3, CutNear DEF T
    <3>5. cc = UINT32_MAX
      BY <1>2, <2>3, <2>6, <2>10
    <3>6. QED
      BY <1>1, <1>2, <2>1, <3>4, <3>5 DEF Accurate, e, b
  <2>11. QED
    BY <1>2, <2>6, <2>9, <2>10
<1>4. CASE p \in {256, 1024} /\ ~Fits(64, rate)
  <2>1. cc = UINT32_MAX /\ p \in Prescalers /\ ~(p <= 64)
    BY <1>4, ModOfPrescalers DEF DetermineCounter, Prescalers
  <2>2. (F - 1) * ((UINT32_MAX + 1) * (64 * rate.n)) <= (F + 1) * e
    BY <1>4, FitsBounds
  <2>3. QED
    BY <1>1, <1>2, <2>1, <2>2 DEF Accurate
<1>5. QED
  BY <1>3, <1>4, PrescaleChosen

----------------------------------------------------------------------------
(* The timer through a switch *)

\* Where a switch can be, what it has loaded, and that the timer has been set by the
\* time it is past the timer's step.
TimerInv ==
    /\ by \in {"none", "main", "usb"} /\ head \in Sets /\ moved \in BOOLEAN
    /\ target \in [rate : Rates, chans : Nat]
    /\ ~moved => target = head
    /\ step \in 0..RestartStep
    /\ by = "none" => step = 0
    /\ by = "usb" => step <= TimerStep
    /\ by # "none" /\ ~moved /\ (step = 0 \/ step > TimerStep) => timer = TimerFor[head.rate]

\* What is loaded is what some set has.
LEMMA SetType ==
    ASSUME NEW s \in Sets
    PROVE  /\ s \in [rate : Rates, chans : Nat]
           /\ s.rate \in Rates /\ Computable(s.rate) /\ s.chans \in Nat
           /\ TimerFor[s.rate] = ConfigTimer(s.rate)
<1>1. s \in [rate : Rates, chans : Nat]
  BY SetsAssumption
<1>2. s.rate \in Rates /\ s.chans \in Nat
  BY <1>1
<1>3. QED
  BY <1>1, <1>2, SetsAssumption DEF TimerFor

LEMMA TimerInvInit == Init => TimerInv
<1> SUFFICES ASSUME Init PROVE TimerInv
  OBVIOUS
<1>1. head \in Sets /\ target = head /\ moved = FALSE /\ by = "none" /\ step = 0
  BY DEF Init
<1>2. head \in [rate : Rates, chans : Nat]
  BY <1>1, SetType
<1>3. QED
  <2>1. 0 \in 0..RestartStep /\ FALSE \in BOOLEAN
    BY SetsAssumption DEF RestartStep
  <2>2. moved \in BOOLEAN
    BY <1>1, <2>1, Zenon
  <2>3. QED
    BY <1>1, <1>2, <2>1, <2>2 DEF TimerInv, TimerStep

\* The timer is set from the rate loaded, and the channels are loaded again.
LEMMA TimerInvReconfigure ==
    ASSUME TimerInv, Reconfigure
    PROVE  /\ TimerInv'
           /\ ~moved => target' = target
<1>1. /\ step = TimerStep /\ timer' = TimerFor[target.rate]
      /\ target' = IF by = "main" THEN [target EXCEPT !.chans = head.chans] ELSE target
      /\ step' = IF step = LastStep THEN 0 ELSE step + 1
      /\ UNCHANGED <<by, head, moved>>
  BY DEF Reconfigure, Proceed
<1>2. /\ by \in {"none", "main", "usb"} /\ head \in Sets /\ moved \in BOOLEAN
      /\ target \in [rate : Rates, chans : Nat] /\ (~moved => target = head)
      /\ (by = "none" => step = 0)
  BY DEF TimerInv
<1>3. head \in [rate : Rates, chans : Nat]
  BY <1>2, SetType
<1>4. target' \in [rate : Rates, chans : Nat] /\ (~moved => target' = target)
  BY <1>1, <1>2, <1>3
<1>5. /\ step' \in 0..RestartStep /\ (by = "usb" => step' = 0) /\ by \in {"main", "usb"}
  BY <1>1, <1>2, SetsAssumption DEF LastStep, TimerStep, RestartStep
<1>6. QED
  BY <1>1, <1>2, <1>4, <1>5 DEF TimerInv, TimerStep

LEMMA TimerInvNext == TimerInv /\ [Next]_vars => TimerInv'
<1> SUFFICES ASSUME TimerInv, [Next]_vars PROVE TimerInv'
  OBVIOUS
<1> USE SetsAssumption DEF TimerInv, TimerStep, RestartStep, LastStep
<1>1. CASE UNCHANGED vars
  BY <1>1 DEF vars, writer, queued
<1>2. ASSUME NEW g \in BOOLEAN, Put(g) PROVE TimerInv'
  BY <1>2 DEF Put, queued
<1>3. CASE Get
  BY <1>3 DEF Get, queued
<1>4. CASE Accept
  BY <1>4 DEF Accept, Judging, RegSteps, Proceed, queued
<1>5. CASE Retry
  BY <1>5 DEF Retry, queued
<1>6. CASE GiveUp
  BY <1>6 DEF GiveUp, Judging, RegSteps, Proceed, queued
<1>7. CASE Reconfigure
  BY <1>7, TimerInvReconfigure
<1>8. ASSUME NEW s \in Sets, NEW who \in {"main", "usb"}, Begin(s, who) PROVE TimerInv'
  <2>1. /\ by' \in {"main", "usb"} /\ head' \in Sets /\ target' = head' /\ moved' = FALSE /\ step' = 1
        /\ head' \in [rate : Rates, chans : Nat]
    BY <1>8, SetType DEF Begin
  <2>2. FALSE \in BOOLEAN
    OBVIOUS
  <2>3. moved' \in BOOLEAN
    BY <2>1, <2>2, Zenon
  <2>4. QED
    BY <2>1, <2>3
<1>9. ASSUME NEW n \in Attempts, DrdyIsr(n) PROVE TimerInv'
  BY <1>9 DEF DrdyIsr, writer, queued
<1>10. ASSUME NEW r \in ReadRegs, RregIsr(r) PROVE TimerInv'
  BY <1>10 DEF RregIsr, queued
<1>11. ASSUME NEW s \in Sets, RmIsr(s) PROVE TimerInv'
  BY <1>11 DEF RmIsr, writer
<1>12. ASSUME NEW n \in 1..4, StartIsr(n) PROVE TimerInv'
  BY <1>12 DEF StartIsr, queued
<1>13. QED
  BY <1>1, <1>2, <1>3, <1>4, <1>5, <1>6, <1>7, <1>8, <1>9, <1>10, <1>11, <1>12 DEF Next, Main

LEMMA TimerInvAccurate == TimerInv => TickFollowsRate
<1> SUFFICES ASSUME TimerInv, by # "none", ~moved, step = 0 \/ step > TimerStep
             PROVE  LET e == F_CPU * head.rate.d  n == head.rate.n
                    IN  IF timer.ps <= 64 THEN Near(timer.cc, e, timer.ps * n)
                        ELSE /\ timer.cc = UINT32_MAX
                             /\ (FLOAT_INTS - 1) * ((UINT32_MAX + 1) * (64 * n)) <= (FLOAT_INTS + 1) * e
  BY DEF TickFollowsRate
<1>1. head \in Sets /\ timer = TimerFor[head.rate]
  BY DEF TimerInv
<1>2. Computable(head.rate) /\ timer = ConfigTimer(head.rate)
  BY <1>1, SetType
<1>3. Accurate(timer, head.rate)
  BY <1>2, ConfigTimerAccurate
<1>4. QED
  BY <1>3 DEF Accurate

\* From its step of a switch on, the timer's period is that of the sample set at the
\* head (config_timer), to within one count or what the roundings of two floats cost,
\* for every clock and rate floats can represent and whatever handlers come, START
\* included, except an RM in between; beyond the prescaler of 64 it is the longest
\* there is, for rates too slow for 64 alone.
THEOREM TimerAccurate == Spec => []TickFollowsRate
<1>1. Spec => []TimerInv
  BY TimerInvInit, TimerInvNext, PTL DEF Spec
<1>2. QED
  BY <1>1, TimerInvAccurate, PTL

----------------------------------------------------------------------------
(* One byte *)

\* What the ADC can be, and what can have been taken from it
Answers == 0..258
RegFile == [0..CONFIG4_REG -> 0..255]
Data == {"wdata", "rdata", "sample"}
Wires == {w \in [st : {"idle", "wcount", "rcount"} \cup Data, reg : Nat, n : 0..32] :
              w.st \in Data => w.n > 0}
Chips == [regs : RegFile, wire : Wires, rx : Seq(Answers)]
Results == [chip : Chips, taken : Seq(Answers)]

\* The quotients and remainders by which a byte is decoded are those of a byte.
LEMMA ByteParts ==
    ASSUME NEW b \in 0..255
    PROVE  /\ b % 32 \in 0..31 /\ (b % 32) + 1 \in 1..32
           /\ b \div 32 \in 0..7
  OBVIOUS

LEMMA OpcodeType ==
    ASSUME NEW b \in 0..255
    PROVE  Opcode(b) \in Wires
  BY ByteParts DEF Opcode, Wires, Data, IdleWire

LEMMA FurtherType ==
    ASSUME NEW w \in Wires, w.st \in Data
    PROVE  /\ Further(w) \in Wires
           /\ Further(w) = IdleWire \/ (Further(w).st = w.st /\ Further(w).n = w.n - 1)
           /\ Further(w) = IdleWire \/ Further(w).n > 0
<1>1. /\ w.st \in Data /\ w.reg \in Nat /\ w.n \in 1..32
      /\ w = [st |-> w.st, reg |-> w.reg, n |-> w.n]
  BY DEF Wires
<1>2. CASE w.n = 1
  BY <1>2 DEF Further, Wires, Data, IdleWire
<1>3. CASE w.n # 1
  <2>1. Further(w) = [st |-> w.st, reg |-> w.reg + 1, n |-> w.n - 1]
    BY <1>1, <1>3 DEF Further, Wires
  <2>2. QED
    BY <1>1, <1>3, <2>1 DEF Wires
<1>4. QED
  BY <1>2, <1>3

LEMMA DecodedType ==
    ASSUME NEW w \in Wires, NEW b \in 0..255
    PROVE  Decoded(w, b) \in Wires
<1> DEFINE q == (b % 32) + 1
<1>1. q \in 1..32
  BY ByteParts
<1>2. Decoded(w, b) = CASE w.st = "idle"   -> Opcode(b)
                        [] w.st = "wcount" -> [st |-> "wdata", reg |-> w.reg, n |-> q]
                        [] w.st = "rcount" -> [st |-> "rdata", reg |-> w.reg, n |-> q]
                        [] OTHER           -> Further(w)
  BY DEF Decoded
<1> HIDE DEF q
<1>3. w.st \in {"idle", "wcount", "rcount"} \cup Data /\ w.reg \in Nat
  BY DEF Wires
<1>4. ASSUME NEW st \in Data PROVE [st |-> st, reg |-> w.reg, n |-> q] \in Wires
  BY <1>1, <1>3 DEF Wires
<1>5. CASE w.st = "idle"
  BY <1>2, <1>5, OpcodeType
<1>6. CASE w.st = "wcount"
  BY <1>2, <1>4, <1>6 DEF Data
<1>7. CASE w.st = "rcount"
  BY <1>2, <1>4, <1>7 DEF Data
<1>8. CASE w.st \in Data
  BY <1>2, <1>8, FurtherType DEF Data
<1>9. QED
  BY <1>3, <1>5, <1>6, <1>7, <1>8

LEMMA StoredType ==
    ASSUME NEW c \in Chips, NEW b \in 0..255, NEW g \in BOOLEAN
    PROVE  Stored(c, b, g) \in RegFile
<1> DEFINE v == IF g THEN GARBLED ELSE b
<1>1. c.regs \in [0..CONFIG4_REG -> 0..255] /\ v \in 0..255
  BY DEF Chips, RegFile, GARBLED
<1>2. Stored(c, b, g) = IF c.wire.st = "wdata" /\ c.wire.reg \in DOMAIN c.regs
                        THEN [c.regs EXCEPT ![c.wire.reg] = v] ELSE c.regs
  BY DEF Stored
<1> HIDE DEF v
<1>3. QED
  BY <1>1, <1>2 DEF RegFile

LEMMA AnswerType ==
    ASSUME NEW c \in Chips, NEW g \in BOOLEAN
    PROVE  Answer(c, g) \in Answers
<1>1. c.regs \in [0..CONFIG4_REG -> 0..255]
  BY DEF Chips, RegFile
<1>2. c.wire.reg \in DOMAIN c.regs => c.regs[c.wire.reg] \in 0..255
  BY <1>1
<1>3. QED
  BY <1>2 DEF Answer, Answers, GARBLED, STATUS, DATA, JUNK

\* A queue with one more at its end, and its oldest taken
LEMMA Queued ==
    ASSUME NEW T, NEW s \in Seq(T), NEW a \in T
    PROVE  /\ Append(s, a) \in Seq(T) /\ Len(Append(s, a)) = Len(s) + 1
           /\ Head(Append(s, a)) \in T
           /\ Tail(Append(s, a)) \in Seq(T) /\ Len(Tail(Append(s, a))) = Len(s)
           /\ s = <<>> => Head(Append(s, a)) = a /\ Tail(Append(s, a)) = <<>>
<1> DEFINE z == Append(s, a)
<1>1. Len(s) \in Nat /\ z \in Seq(T) /\ Len(z) = Len(s) + 1
  OBVIOUS
<1>2. z # <<>>
  BY <1>1
<1>3. Head(z) \in T /\ Tail(z) \in Seq(T) /\ Len(Tail(z)) = Len(s)
  <2> HIDE DEF z
  <2>1. QED
    BY <1>1, <1>2
<1>4. s = <<>> => Head(z) = a /\ Tail(z) = <<>>
  OBVIOUS
<1>5. QED
  BY <1>1, <1>3, <1>4

\* A byte leaves a chip, and adds one answer.
LEMMA ExchangeType ==
    ASSUME NEW c \in Chips, NEW b \in 0..255, NEW g \in BOOLEAN
    PROVE  /\ Exchange(c, b, g) \in Chips
           /\ Len(Exchange(c, b, g).rx) = Len(c.rx) + 1
<1>1. c.wire \in Wires /\ c.rx \in Seq(Answers)
  BY DEF Chips
<1>2. Decoded(c.wire, b) \in Wires
  BY <1>1, DecodedType
<1>3. Stored(c, b, g) \in RegFile /\ Answer(c, g) \in Answers
  BY StoredType, AnswerType
<1>4. Append(c.rx, Answer(c, g)) \in Seq(Answers) /\ Len(Append(c.rx, Answer(c, g))) = Len(c.rx) + 1
  BY <1>1, <1>3
<1>5. QED
  BY <1>2, <1>3, <1>4 DEF Exchange, Chips

\* A byte of a handler's transfer, taken apart: the answer queues up behind those
\* not yet taken, and the oldest of them is taken.
LEMMA CrossParts ==
    ASSUME NEW t \in Results, NEW b \in 0..255
    PROVE  /\ Cross(t, b) \in Results
           /\ Cross(t, b).chip.wire = Decoded(t.chip.wire, b)
           /\ Cross(t, b).chip.regs = Stored(t.chip, b, FALSE)
           /\ Len(Cross(t, b).chip.rx) = Len(t.chip.rx)
           /\ Cross(t, b).taken
                = Append(t.taken, Head(Append(t.chip.rx, Answer(t.chip, FALSE))))
           /\ Len(Cross(t, b).taken) = Len(t.taken) + 1
<1> DEFINE e == Exchange(t.chip, b, FALSE)
<1>1. t.chip \in Chips /\ t.taken \in Seq(Answers) /\ t.chip.rx \in Seq(Answers)
  BY DEF Results, Chips
<1>2. /\ e \in Chips /\ Len(e.rx) = Len(t.chip.rx) + 1
      /\ e.wire = Decoded(t.chip.wire, b) /\ e.regs = Stored(t.chip, b, FALSE)
      /\ e.rx = Append(t.chip.rx, Answer(t.chip, FALSE))
  BY <1>1, ExchangeType DEF Exchange
<1>3. Cross(t, b) = [chip |-> [e EXCEPT !.rx = Tail(@)], taken |-> Append(t.taken, Head(e.rx))]
  BY DEF Cross
<1> HIDE DEF e
<1>4. /\ Tail(e.rx) \in Seq(Answers) /\ Len(Tail(e.rx)) = Len(t.chip.rx)
      /\ Head(e.rx) \in Answers
  <2>1. Answer(t.chip, FALSE) \in Answers
    BY <1>1, AnswerType
  <2> DEFINE a == Answer(t.chip, FALSE)
             s == t.chip.rx
  <2>2. s \in Seq(Answers) /\ a \in Answers /\ e.rx = Append(s, a)
    BY <1>1, <1>2, <2>1
  <2> HIDE DEF a, s
  <2>3. Tail(e.rx) \in Seq(Answers) /\ Len(Tail(e.rx)) = Len(s) /\ Head(e.rx) \in Answers
    BY <2>2, Queued
  <2>4. QED
    BY <2>3 DEF s
<1> DEFINE c == [e EXCEPT !.rx = Tail(@)]
<1>5. c \in Chips /\ c.wire = e.wire /\ c.regs = e.regs /\ c.rx = Tail(e.rx)
  BY <1>2, <1>4 DEF Chips
<1> DEFINE k == Append(t.taken, Head(e.rx))
<1>6. k \in Seq(Answers) /\ Len(k) = Len(t.taken) + 1
  BY <1>1, <1>4
<1>7. Cross(t, b).chip = c /\ Cross(t, b).taken = k /\ Cross(t, b) = [chip |-> c, taken |-> k]
  BY <1>3
<1> HIDE DEF c, k
<1>8. Cross(t, b) \in Results
  BY <1>5, <1>6, <1>7 DEF Results
<1>9. k = Append(t.taken, Head(Append(t.chip.rx, Answer(t.chip, FALSE))))
  BY <1>2 DEF k
<1>10. QED
  BY <1>2, <1>4, <1>5, <1>6, <1>7, <1>8, <1>9

----------------------------------------------------------------------------
(* Transfers by handlers: the recursion of Transfer and ReadAdc unfolded *)

\* A transfer is a run of one byte after the other.
Runs(f, c, bytes) ==
    /\ f \in [0..Len(bytes) -> Results]
    /\ f[0] = [chip |-> c, taken |-> <<>>]
    /\ \A k \in 1..Len(bytes) : f[k] = Cross(f[k - 1], bytes[k])

LEMMA TransferRuns ==
    ASSUME NEW c \in Chips, NEW bytes \in Seq(0..255)
    PROVE  \E f : Runs(f, c, bytes) /\ Transfer(c, bytes) = f[Len(bytes)]
<1> DEFINE N == Len(bytes)
           b == [chip |-> c, taken |-> <<>>]
           g == [k \in 1..N |-> [t \in Results |-> Cross(t, bytes[k])]]
           Body(h) == [k \in 0..N |-> IF k = 0 THEN b ELSE Cross(h[k - 1], bytes[k])]
           after == CHOOSE h : h = Body(h)
<1>1. N \in Nat /\ b \in Results
  BY DEF Results
<1>2. \A k \in 1..N : bytes[k] \in 0..255
  BY ElementOfSeq
<1>3. g \in [1..N -> [Results -> Results]]
  <2> SUFFICES ASSUME NEW k \in 1..N, NEW t \in Results PROVE Cross(t, bytes[k]) \in Results
    OBVIOUS
  <2>1. bytes[k] \in 0..255
    BY <1>2
  <2>2. QED
    BY <2>1, CrossParts
<1>4. \A t \in Results, k \in 1..N : g[k][t] = Cross(t, bytes[k])
  OBVIOUS
<1> HIDE DEF g, b, N
<1>5. PICK f : Iteration(f, N, Results, b, g)
  <2>1. N \in Nat
    BY <1>1
  <2>2. b \in Results
    BY <1>1
  <2> HIDE DEF Body, after
  <2>3. QED
    BY <1>3, <2>1, <2>2, Iterates
<1>6. \A k \in 1..N : f[k] = Cross(f[k - 1], bytes[k])
  <2> SUFFICES ASSUME NEW k \in 1..N PROVE f[k] = Cross(f[k - 1], bytes[k])
    OBVIOUS
  <2>1. k - 1 \in 0..N
    BY <1>1
  <2>2. f[k - 1] \in Results /\ f[k] = g[k][f[k - 1]]
    BY <1>5, <2>1 DEF Iteration
  <2>3. QED
    BY <1>4, <2>2
<1>7. f = Body(f)
  BY <1>5, <1>6 DEF Iteration
<1> HIDE DEF Body
<1>8. after = Body(after)
  BY <1>7
<1> HIDE DEF after
<1>9. /\ DOMAIN after = 0..N /\ after = [k \in 0..N |-> after[k]]
      /\ after[0] = b
      /\ \A k \in 1..N : after[k] = Cross(after[k - 1], bytes[k])
  <2>1. after = [k \in 0..N |-> IF k = 0 THEN b ELSE Cross(after[k - 1], bytes[k])]
    BY <1>8 DEF Body
  <2>2. DOMAIN after = 0..N
    BY <2>1
  <2>3. \A k \in 0..N : after[k] = IF k = 0 THEN b ELSE Cross(after[k - 1], bytes[k])
    BY <2>1
  <2>4. after[0] = b
    BY <1>1, <2>3
  <2>5. \A k \in 1..N : after[k] = Cross(after[k - 1], bytes[k])
    BY <1>1, <2>3
  <2>6. after = [k \in 0..N |-> after[k]]
    BY <2>1, <2>2
  <2>7. QED
    BY <2>2, <2>4, <2>5, <2>6
<1>10. after \in [0..N -> Results]
  <2> DEFINE S == {k \in 0..N : after[k] \in Results}
  <2>1. 0 \in S
    BY <1>1, <1>9
  <2>2. ASSUME NEW k \in 0..(N - 1), k \in S PROVE k + 1 \in S
    <3>1. after[k] \in Results /\ k + 1 \in 1..N /\ (k + 1) - 1 = k
      BY <1>1, <2>2
    <3>2. after[k + 1] = Cross(after[k], bytes[k + 1])
      BY <1>9, <3>1
    <3>3. after[k + 1] \in Results
      BY <1>2, <3>1, <3>2, CrossParts
    <3>4. QED
      BY <1>1, <3>1, <3>3
  <2> HIDE DEF S
  <2>3. 0..N \subseteq S
    BY <1>1, <2>1, <2>2, UpTo
  <2>4. \A k \in 0..N : after[k] \in Results
    BY <2>3 DEF S
  <2>5. QED
    BY <1>9, <2>4
<1>11. Transfer(c, bytes) = after[N]
  BY DEF Transfer, after, Body, N, b
<1>12. Runs(after, c, bytes)
  BY <1>9, <1>10 DEF Runs, N, b
<1>13. QED
  BY <1>11, <1>12 DEF N

\* What the results before and after each byte of a run have to do with each other
Stepwise(f, bytes) ==
    \A k \in 1..Len(bytes) :
        /\ f[k - 1] \in Results /\ f[k] \in Results /\ bytes[k] \in 0..255
        /\ f[k] = Cross(f[k - 1], bytes[k])
        /\ f[k].chip.wire \in Wires /\ f[k - 1].chip.wire \in Wires
        /\ f[k].chip.wire = Decoded(f[k - 1].chip.wire, bytes[k])
        /\ Len(f[k].chip.rx) = Len(f[k - 1].chip.rx)
        /\ Len(f[k].taken) = Len(f[k - 1].taken) + 1

LEMMA RunStep ==
    ASSUME NEW c, NEW bytes \in Seq(0..255), NEW f, Runs(f, c, bytes)
    PROVE  Stepwise(f, bytes)
<1> SUFFICES ASSUME NEW k \in 1..Len(bytes)
             PROVE  /\ f[k - 1] \in Results /\ f[k] \in Results /\ bytes[k] \in 0..255
                    /\ f[k] = Cross(f[k - 1], bytes[k])
                    /\ f[k].chip.wire \in Wires /\ f[k - 1].chip.wire \in Wires
                    /\ f[k].chip.wire = Decoded(f[k - 1].chip.wire, bytes[k])
                    /\ Len(f[k].chip.rx) = Len(f[k - 1].chip.rx)
                    /\ Len(f[k].taken) = Len(f[k - 1].taken) + 1
  BY DEF Stepwise
<1> DEFINE t == f[k - 1]
           u == f[k]
           b == bytes[k]
<1>1. Len(bytes) \in Nat /\ k - 1 \in 0..Len(bytes) /\ k \in 0..Len(bytes)
  OBVIOUS
<1>2. t \in Results /\ u \in Results /\ u = Cross(t, b)
  BY <1>1 DEF Runs
<1>3. b \in 0..255
  BY ElementOfSeq
<1> HIDE DEF t, u, b
<1>4. /\ u.chip.wire = Decoded(t.chip.wire, b)
      /\ Len(u.chip.rx) = Len(t.chip.rx)
      /\ Len(u.taken) = Len(t.taken) + 1
  BY <1>2, <1>3, CrossParts
<1>5. u.chip.wire \in Wires /\ t.chip.wire \in Wires
  BY <1>2 DEF Results, Chips
<1>6. QED
  BY <1>2, <1>3, <1>4, <1>5 DEF t, u, b

\* A transfer takes as many answers as it sends bytes, and leaves as many untaken
\* as it found.
LEMMA TransferCounts ==
    ASSUME NEW c \in Chips, NEW bytes \in Seq(0..255)
    PROVE  /\ Transfer(c, bytes) \in Results
           /\ Len(Transfer(c, bytes).chip.rx) = Len(c.rx)
           /\ Len(Transfer(c, bytes).taken) = Len(bytes)
<1> DEFINE N == Len(bytes)
<1>1. PICK f : Runs(f, c, bytes) /\ Transfer(c, bytes) = f[N]
  BY TransferRuns
<1>2. N \in Nat /\ \A k \in 1..N : bytes[k] \in 0..255
  BY ElementOfSeq
<1>3. /\ \A k \in 0..N : f[k] \in Results
      /\ f[0].chip = c /\ f[0].taken = <<>>
      /\ \A k \in 1..N : f[k] = Cross(f[k - 1], bytes[k])
  BY <1>1 DEF Runs
<1> HIDE DEF N
<1> DEFINE S == {k \in 0..N : Len(f[k].chip.rx) = Len(c.rx) /\ Len(f[k].taken) = k}
<1>4. 0 \in S
  BY <1>2, <1>3
<1>5. ASSUME NEW k \in 0..(N - 1), k \in S PROVE k + 1 \in S
  <2>1. k \in 0..N /\ k + 1 \in 1..N /\ k + 1 \in 0..N /\ (k + 1) - 1 = k
    BY <1>2
  <2>2. f[k] \in Results /\ bytes[k + 1] \in 0..255 /\ f[k + 1] = Cross(f[k], bytes[k + 1])
    BY <1>2, <1>3, <2>1
  <2>3. /\ Len(f[k + 1].chip.rx) = Len(f[k].chip.rx)
        /\ Len(f[k + 1].taken) = Len(f[k].taken) + 1
    <3> DEFINE t == f[k]
               x == bytes[k + 1]
    <3>1. t \in Results /\ x \in 0..255 /\ f[k + 1] = Cross(t, x)
      BY <2>2
    <3> HIDE DEF t, x
    <3>2. /\ Len(Cross(t, x).chip.rx) = Len(t.chip.rx)
          /\ Len(Cross(t, x).taken) = Len(t.taken) + 1
      BY <3>1, CrossParts
    <3>3. QED
      BY <3>1, <3>2 DEF t
  <2>4. Len(f[k].chip.rx) = Len(c.rx) /\ Len(f[k].taken) = k
    BY <1>5
  <2>5. QED
    BY <2>1, <2>3, <2>4
<1> HIDE DEF S
<1>6. 0..N \subseteq S
  BY <1>2, <1>4, <1>5, UpTo
<1>7. QED
  <2>1. N \in 0..N
    BY <1>2
  <2>2. Len(f[N].chip.rx) = Len(c.rx) /\ Len(f[N].taken) = N /\ f[N] \in Results
    BY <1>3, <1>6, <2>1 DEF S
  <2>3. QED
    BY <1>1, <2>2 DEF N

----------------------------------------------------------------------------
(* What the two handlers' transfers do to the wire *)

\* The wire as a transfer of the main loop can leave it between two bytes, as long
\* as nobody has changed how many bytes it waits for
InPhase ==
    {w \in Wires : w.st \in {"idle", "wcount", "rcount"} \/ (w.st \in {"wdata", "rdata"} /\ w.n = 1)}

LEMMA IdleFacts ==
    /\ IdleWire \in Wires /\ IdleWire \in InPhase /\ IdleWire.st = "idle"
    /\ Opcode(0) = IdleWire
    /\ Opcode(READ_ADC) = [st |-> "sample", reg |-> 0, n |-> 21]
  BY DEF IdleWire, Wires, InPhase, Data, Opcode, READ_ADC

\* A function on an initial segment is a sequence.
LEMMA FunctionIsSeq ==
    ASSUME NEW T, NEW n \in Nat, NEW h \in [1..n -> T]
    PROVE  h \in Seq(T) /\ Len(h) = n
  OBVIOUS

LEMMA ReadAdcBytesFacts ==
    /\ ReadAdcBytes \in Seq(0..255) /\ Len(ReadAdcBytes) = 22
    /\ ReadAdcBytes[1] = READ_ADC /\ \A k \in 2..22 : ReadAdcBytes[k] = 0
<1>1. ReadAdcBytes \in [1..22 -> 0..255]
  BY DEF ReadAdcBytes, READ_ADC
<1>2. ReadAdcBytes \in Seq(0..255) /\ Len(ReadAdcBytes) = 22
  <2> DEFINE T == 0..255
             n == 22
             h == ReadAdcBytes
  <2>1. n \in Nat /\ h \in [1..n -> T]
    BY <1>1
  <2> HIDE DEF T, n, h
  <2>2. h \in Seq(T) /\ Len(h) = n
    BY <2>1, FunctionIsSeq
  <2>3. QED
    BY <2>2 DEF T, n, h
<1>3. QED
  BY <1>2 DEF ReadAdcBytes

\* One more of the zeros that follow the opcode
LEMMA ZeroByte ==
    ASSUME NEW w \in Wires, w = IdleWire \/ w.st \in Data
    PROVE  /\ w = IdleWire => Decoded(w, 0) = IdleWire
           /\ w.st \in Data => Decoded(w, 0) = Further(w)
<1>1. w = IdleWire => Decoded(w, 0) = IdleWire
  BY IdleFacts DEF Decoded
<1>2. w.st \in Data => Decoded(w, 0) = Further(w)
  BY DEF Decoded, Data
<1>3. QED
  BY <1>1, <1>2

\* The opcode of a sample, wherever it falls, starts nothing longer than a sample.
LEMMA OpcodeByte ==
    ASSUME NEW w \in InPhase
    PROVE  \/ Decoded(w, READ_ADC) = IdleWire
           \/ Decoded(w, READ_ADC).st \in Data /\ Decoded(w, READ_ADC).n <= 21
<1>1. w \in Wires /\ READ_ADC = 18 /\ (18 % 32) + 1 = 19
  BY DEF InPhase, READ_ADC
<1>2. CASE w.st = "idle"
  BY <1>1, <1>2, IdleFacts DEF Decoded, Data
<1>3. CASE w.st = "wcount" \/ w.st = "rcount"
  BY <1>1, <1>3 DEF Decoded, Data
<1>4. CASE w.st \in {"wdata", "rdata"} /\ w.n = 1
  BY <1>4 DEF Decoded, Further
<1>5. QED
  BY <1>2, <1>3, <1>4 DEF InPhase

\* So a sample read anywhere in a transfer leaves the ADC waiting for a command.
LEMMA SampleRealigns ==
    ASSUME NEW c \in Chips, c.wire \in InPhase
    PROVE  Transfer(c, ReadAdcBytes).chip.wire = IdleWire
<1>1. PICK f : Runs(f, c, ReadAdcBytes) /\ Transfer(c, ReadAdcBytes) = f[22]
  BY ReadAdcBytesFacts, TransferRuns
<1>2. /\ \A k \in 0..22 : f[k] \in Results
      /\ f[0].chip = c
      /\ \A k \in 1..22 : f[k] = Cross(f[k - 1], ReadAdcBytes[k])
  BY <1>1, ReadAdcBytesFacts DEF Runs
<1> DEFINE W(k) == f[k].chip.wire
           S == {k \in 0..21 : /\ W(k + 1) \in Wires
                               /\ W(k + 1) = IdleWire \/ (W(k + 1).st \in Data /\ W(k + 1).n <= 21 - k)}
<1>3. \A k \in 1..22 : W(k) \in Wires /\ W(k) = Decoded(W(k - 1), ReadAdcBytes[k])
  <2>1. ReadAdcBytes \in Seq(0..255) /\ Len(ReadAdcBytes) = 22
    BY ReadAdcBytesFacts
  <2>2. Runs(f, c, ReadAdcBytes)
    BY <1>1
  <2>3. Stepwise(f, ReadAdcBytes)
    BY <2>1, <2>2, RunStep
  <2>4. QED
    BY <2>1, <2>3 DEF Stepwise
<1>4. 0 \in S
  <2>1. W(1) = Decoded(c.wire, READ_ADC) /\ W(1) \in Wires
    BY <1>2, <1>3, ReadAdcBytesFacts
  <2>2. QED
    BY <2>1, OpcodeByte
<1>5. ASSUME NEW k \in 0..(21 - 1), k \in S PROVE k + 1 \in S
  <2> DEFINE w == W(k + 1)
             v == W(k + 2)
  <2>1. w \in Wires /\ (w = IdleWire \/ (w.st \in Data /\ w.n <= 21 - k))
    BY <1>5
  <2>2. k + 2 \in 2..22 /\ (k + 2) - 1 = k + 1 /\ (k + 1) + 1 = k + 2
    OBVIOUS
  <2>3. v = Decoded(w, 0) /\ v \in Wires
    <3>1. W(k + 2) \in Wires /\ W(k + 2) = Decoded(W((k + 2) - 1), ReadAdcBytes[k + 2])
      BY <1>3, <2>2
    <3>2. QED
      BY <3>1, <2>2, ReadAdcBytesFacts
  <2> HIDE DEF W, w, v
  <2>4. v = IdleWire \/ (v.st \in Data /\ v.n <= 21 - (k + 1))
    <3>1. CASE w = IdleWire
      BY <2>1, <2>3, <3>1, ZeroByte
    <3>2. CASE w.st \in Data /\ w.n <= 21 - k
      <4>1. w.n \in Int /\ v = Further(w)
        BY <2>1, <2>3, <3>2, ZeroByte DEF Wires
      <4>2. QED
        BY <2>1, <3>2, <4>1, FurtherType
    <3>3. QED
      BY <2>1, <3>1, <3>2
  <2>5. QED
    BY <2>2, <2>3, <2>4 DEF v
<1> HIDE DEF S
<1>6. 0..21 \subseteq S
  BY <1>4, <1>5, UpTo
<1>7. W(22) \in Wires /\ (W(22) = IdleWire \/ (W(22).st \in Data /\ W(22).n <= 0))
  BY <1>6 DEF S
<1>8. QED
  BY <1>1, <1>7 DEF Wires

\* A sample read from a waiting ADC: the status byte where it belongs, the data
\* after it, nothing left over and no register touched
Sampled(c, t) ==
    /\ t.chip.wire = IdleWire /\ t.chip.rx = <<>> /\ t.chip.regs = c.regs
    /\ Len(t.taken) = 22
    /\ \A i \in 2..22 : t.taken[i] = IF i = 2 THEN STATUS ELSE DATA

\* One byte of that
LEMMA SampleByte ==
    ASSUME NEW t \in Results, t.chip.rx = <<>>, NEW b \in 0..255
    PROVE  /\ Cross(t, b).chip.rx = <<>>
           /\ t.chip.wire.st # "wdata" => Cross(t, b).chip.regs = t.chip.regs
           /\ Cross(t, b).taken = Append(t.taken, Answer(t.chip, FALSE))
           /\ Answer(t.chip, FALSE) \in Answers
           /\ t.chip.wire.st = "idle" => Answer(t.chip, FALSE) = JUNK
           /\ t.chip.wire.st = "sample" =>
                 Answer(t.chip, FALSE) = IF t.chip.wire.n = 21 THEN STATUS ELSE DATA
<1>1. t.chip \in Chips /\ t.chip.rx \in Seq(Answers)
  BY DEF Results, Chips
<1>2. Answer(t.chip, FALSE) \in Answers
  BY <1>1, AnswerType
<1>3. Cross(t, b) \in Results /\ Len(Cross(t, b).chip.rx) = 0
  BY CrossParts
<1>4. Cross(t, b).chip.rx = <<>>
  <2>1. Cross(t, b).chip.rx \in Seq(Answers)
    BY <1>3 DEF Results, Chips
  <2>2. QED
    BY <1>3, <2>1, EmptySeq
<1>5. Cross(t, b).chip.regs = Stored(t.chip, b, FALSE)
  BY CrossParts
<1>6. Cross(t, b).taken = Append(t.taken, Answer(t.chip, FALSE))
  <2>1. Head(Append(t.chip.rx, Answer(t.chip, FALSE))) = Answer(t.chip, FALSE)
    BY <1>1, <1>2, Queued
  <2>2. QED
    BY <2>1, CrossParts
<1>7. t.chip.wire.st # "wdata" => Stored(t.chip, b, FALSE) = t.chip.regs
  BY DEF Stored
<1>8. /\ t.chip.wire.st = "idle" => Answer(t.chip, FALSE) = JUNK
      /\ t.chip.wire.st = "sample" =>
            Answer(t.chip, FALSE) = IF t.chip.wire.n = 21 THEN STATUS ELSE DATA
  BY DEF Answer
<1>9. QED
  BY <1>2, <1>4, <1>5, <1>6, <1>7, <1>8

LEMMA SampleReads ==
    ASSUME NEW c \in Chips, c.wire = IdleWire, c.rx = <<>>
    PROVE  Sampled(c, Transfer(c, ReadAdcBytes))
<1>1. PICK f : Runs(f, c, ReadAdcBytes) /\ Transfer(c, ReadAdcBytes) = f[22]
  BY ReadAdcBytesFacts, TransferRuns
<1>2. Stepwise(f, ReadAdcBytes)
  BY <1>1, ReadAdcBytesFacts, RunStep
<1>3. /\ \A k \in 1..22 : /\ f[k - 1] \in Results /\ f[k] \in Results /\ ReadAdcBytes[k] \in 0..255
                          /\ f[k] = Cross(f[k - 1], ReadAdcBytes[k])
                          /\ f[k].chip.wire \in Wires
                          /\ f[k].chip.wire = Decoded(f[k - 1].chip.wire, ReadAdcBytes[k])
      /\ f[0] = [chip |-> c, taken |-> <<>>]
  BY <1>1, <1>2, ReadAdcBytesFacts DEF Stepwise, Runs
\* after k + 1 bytes
<1> DEFINE P(t, k) ==
             /\ t.chip.rx = <<>> /\ t.chip.regs = c.regs
             /\ IF k = 21 THEN t.chip.wire = IdleWire
                ELSE t.chip.wire.st = "sample" /\ t.chip.wire.n = 21 - k
             /\ Len(t.taken) = k + 1
             /\ \A i \in 2..(k + 1) : t.taken[i] = IF i = 2 THEN STATUS ELSE DATA
           S == {k \in 0..21 : P(f[k + 1], k)}
<1>4. 0 \in S
  <2> DEFINE t == f[0]
             b == ReadAdcBytes[1]
             u == f[1]
  <2>1. /\ t \in Results /\ u = Cross(t, b) /\ b \in 0..255 /\ b = READ_ADC
        /\ u.chip.wire = Decoded(t.chip.wire, b)
        /\ t.chip = c /\ t.taken = <<>>
    BY <1>3, ReadAdcBytesFacts
  <2> HIDE DEF t, b, u
  <2>2. t.chip.rx = <<>> /\ t.chip.wire = IdleWire /\ t.chip.wire.st = "idle"
    BY <2>1, IdleFacts
  <2>3. /\ u.chip.rx = <<>> /\ u.chip.regs = c.regs
        /\ u.taken = Append(<<>>, Answer(t.chip, FALSE))
    BY <2>1, <2>2, SampleByte
  <2>4. u.chip.wire = [st |-> "sample", reg |-> 0, n |-> 21]
    BY <2>1, <2>2, IdleFacts DEF Decoded
  <2>5. Len(u.taken) = 1
    BY <2>3
  <2>6. P(u, 0)
    BY <2>3, <2>4, <2>5
  <2> HIDE DEF P
  <2>7. QED
    BY <2>6 DEF u
<1>5. ASSUME NEW k \in 0..(21 - 1), k \in S PROVE k + 1 \in S
  <2> DEFINE t == f[k + 1]
             b == ReadAdcBytes[k + 2]
             u == f[k + 2]
  <2>1. k + 2 \in 2..22 /\ (k + 2) - 1 = k + 1 /\ (k + 1) + 1 = k + 2 /\ k + 2 \in 1..22
    OBVIOUS
  <2>2. /\ f[(k + 2) - 1] \in Results /\ f[k + 2] = Cross(f[(k + 2) - 1], ReadAdcBytes[k + 2])
        /\ f[k + 2].chip.wire = Decoded(f[(k + 2) - 1].chip.wire, ReadAdcBytes[k + 2])
        /\ ReadAdcBytes[k + 2] = 0
    BY <1>3, <2>1, ReadAdcBytesFacts
  <2>3. t \in Results /\ u = Cross(t, 0) /\ u.chip.wire = Decoded(t.chip.wire, 0)
    BY <2>1, <2>2
  <2>4. P(t, k)
    BY <1>5
  <2> HIDE DEF t, b, u
  <2>5. /\ t.chip.rx = <<>> /\ t.chip.regs = c.regs
        /\ t.chip.wire.st = "sample" /\ t.chip.wire.n = 21 - k
        /\ Len(t.taken) = k + 1
        /\ \A i \in 2..(k + 1) : t.taken[i] = IF i = 2 THEN STATUS ELSE DATA
    BY <2>4
  <2> DEFINE a == Answer(t.chip, FALSE)
  <2>6. /\ u.chip.rx = <<>> /\ u.chip.regs = c.regs
        /\ u.taken = Append(t.taken, a) /\ a \in Answers
        /\ a = IF k = 0 THEN STATUS ELSE DATA
    <3> DEFINE z == 0
    <3>1. z \in 0..255 /\ t \in Results /\ t.chip.rx = <<>> /\ u = Cross(t, z)
      BY <2>3, <2>5
    <3>2. t.chip.wire.st # "wdata" /\ t.chip.wire.st = "sample" /\ t.chip.wire.n = 21 - k
      BY <2>5
    <3> HIDE DEF z, a
    <3>3. /\ Cross(t, z).chip.rx = <<>>
          /\ Cross(t, z).chip.regs = t.chip.regs
          /\ Cross(t, z).taken = Append(t.taken, Answer(t.chip, FALSE))
          /\ Answer(t.chip, FALSE) \in Answers
          /\ Answer(t.chip, FALSE) = IF t.chip.wire.n = 21 THEN STATUS ELSE DATA
      BY <3>1, <3>2, SampleByte
    <3>4. t.chip.wire.n = 21 <=> k = 0
      BY <3>2
    <3>5. a = Answer(t.chip, FALSE)
      BY DEF a
    <3>6. a = IF k = 0 THEN STATUS ELSE DATA
      BY <3>3, <3>4, <3>5
    <3>7. QED
      BY <2>5, <3>1, <3>3, <3>5, <3>6
  <2> HIDE DEF a
  <2>7. u.chip.wire = Further(t.chip.wire)
    BY <2>3, <2>5 DEF Decoded
  <2>8. IF k + 1 = 21 THEN u.chip.wire = IdleWire
        ELSE u.chip.wire.st = "sample" /\ u.chip.wire.n = 21 - (k + 1)
    <3> DEFINE w == t.chip.wire
    <3>1. w \in Wires /\ w.st = "sample" /\ w.n = 21 - k /\ u.chip.wire = Further(w)
      BY <2>3, <2>5, <2>7 DEF Results, Chips
    <3> HIDE DEF w
    <3>2. CASE k + 1 = 21
      BY <3>1, <3>2 DEF Further
    <3>3. CASE k + 1 # 21
      <4>1. w.n # 1
        BY <3>1, <3>3
      <4>2. Further(w) = [w EXCEPT !.reg = @ + 1, !.n = @ - 1]
        BY <4>1 DEF Further
      <4>3. Further(w).st = w.st /\ Further(w).n = w.n - 1
        BY <3>1, <4>2 DEF Wires
      <4>4. QED
        BY <3>1, <3>3, <4>3
    <3>4. QED
      BY <3>2, <3>3
  <2>9. t.taken \in Seq(Answers)
    BY <2>3 DEF Results
  <2>10. /\ Len(u.taken) = k + 2 /\ u.taken[k + 2] = a
         /\ \A i \in 1..(k + 1) : u.taken[i] = t.taken[i]
    <3> DEFINE q == t.taken
               v == u.taken
    <3>1. q \in Seq(Answers) /\ a \in Answers /\ v = Append(q, a) /\ Len(q) = k + 1
      BY <2>5, <2>6, <2>9
    <3> HIDE DEF q, v
    <3>2. Len(v) = k + 2 /\ v[k + 2] = a /\ \A i \in 1..(k + 1) : v[i] = q[i]
      BY <3>1, AppendProperties
    <3>3. QED
      BY <3>2 DEF q, v
  <2>11. \A i \in 2..(k + 2) : u.taken[i] = IF i = 2 THEN STATUS ELSE DATA
    BY <2>5, <2>6, <2>10
  <2>12. P(u, k + 1)
    BY <2>6, <2>8, <2>10, <2>11
  <2> HIDE DEF P
  <2>13. QED
    BY <2>1, <2>12 DEF u
<1> HIDE DEF S
<1>6. 0..21 \subseteq S
  BY <1>4, <1>5, UpTo
<1>7. P(f[22], 21)
  BY <1>6 DEF S
<1>8. QED
  BY <1>1, <1>7 DEF Sampled

\* Attempts at a transfer, one after the other
Again(t, k, bytes, i, w) == IF k > 1 /\ t.taken[i] = w THEN t ELSE Transfer(t.chip, bytes)

Tries(f, c, bytes, i, w, n) ==
    /\ f \in [0..n -> Results]
    /\ f[0] = [chip |-> c, taken |-> <<>>]
    /\ \A k \in 1..n : f[k] = Again(f[k - 1], k, bytes, i, w)

LEMMA AgainType ==
    ASSUME NEW t \in Results, NEW k \in Nat, NEW bytes \in Seq(0..255), NEW i, NEW w
    PROVE  /\ Again(t, k, bytes, i, w) \in Results
           /\ Len(Again(t, k, bytes, i, w).chip.rx) = Len(t.chip.rx)
<1>1. t.chip \in Chips
  BY DEF Results
<1>2. /\ Transfer(t.chip, bytes) \in Results
      /\ Len(Transfer(t.chip, bytes).chip.rx) = Len(t.chip.rx)
  BY <1>1, TransferCounts
<1>3. QED
  BY <1>2 DEF Again

LEMMA TriedTries ==
    ASSUME NEW c \in Chips, NEW bytes \in Seq(0..255), NEW i, NEW w, NEW n \in Nat
    PROVE  \E f : Tries(f, c, bytes, i, w, n) /\ Tried(c, bytes, i, w, n) = f[n]
<1> DEFINE b == [chip |-> c, taken |-> <<>>]
           Next1(t, k) == Again(t, k, bytes, i, w)
           g == [k \in 1..n |-> [t \in Results |-> Next1(t, k)]]
           Body(h) == [k \in 0..n |-> IF k = 0 THEN b ELSE Next1(h[k - 1], k)]
           after == CHOOSE h : h = Body(h)
<1>1. b \in Results
  BY DEF Results
<1>2. g \in [1..n -> [Results -> Results]]
  <2> SUFFICES ASSUME NEW k \in 1..n, NEW t \in Results PROVE Next1(t, k) \in Results
    OBVIOUS
  <2>1. k \in Nat
    OBVIOUS
  <2>2. QED
    BY <2>1, AgainType
<1>3. \A t \in Results, k \in 1..n : g[k][t] = Next1(t, k)
  OBVIOUS
<1>4. \A t \in Results, k \in Nat : Next1(t, k) \in Results
  BY AgainType
<1>5. Tried(c, bytes, i, w, n) = after[n]
  BY DEF Tried, Again
<1>6. \A f : Tries(f, c, bytes, i, w, n) <=>
                /\ f \in [0..n -> Results] /\ f[0] = b
                /\ \A k \in 1..n : f[k] = Next1(f[k - 1], k)
  BY DEF Tries
<1> HIDE DEF g, b, Next1
<1>7. PICK f : Iteration(f, n, Results, b, g)
  <2> HIDE DEF Body, after
  <2>1. QED
    BY <1>1, <1>2, Iterates
<1>8. \A k \in 1..n : f[k] = Next1(f[k - 1], k)
  <2> SUFFICES ASSUME NEW k \in 1..n PROVE f[k] = Next1(f[k - 1], k)
    OBVIOUS
  <2>1. k - 1 \in 0..n
    OBVIOUS
  <2>2. f[k - 1] \in Results /\ f[k] = g[k][f[k - 1]]
    BY <1>7, <2>1 DEF Iteration
  <2>3. QED
    BY <1>3, <2>2
<1>9. f = Body(f)
  BY <1>7, <1>8 DEF Iteration
<1> HIDE DEF Body
<1>10. after = Body(after)
  BY <1>9
<1> HIDE DEF after
<1>11. /\ after = [k \in 0..n |-> after[k]]
       /\ after[0] = b
       /\ \A k \in 1..n : after[k] = Next1(after[k - 1], k)
  <2>1. after = [k \in 0..n |-> IF k = 0 THEN b ELSE Next1(after[k - 1], k)]
    BY <1>10 DEF Body
  <2>2. DOMAIN after = 0..n
    BY <2>1
  <2>3. \A k \in 0..n : after[k] = IF k = 0 THEN b ELSE Next1(after[k - 1], k)
    BY <2>1
  <2>4. after[0] = b
    BY <2>3
  <2>5. \A k \in 1..n : after[k] = Next1(after[k - 1], k)
    BY <2>3
  <2>6. after = [k \in 0..n |-> after[k]]
    BY <2>1, <2>2
  <2>7. QED
    BY <2>4, <2>5, <2>6
<1>12. after \in [0..n -> Results]
  <2> DEFINE S == {k \in 0..n : after[k] \in Results}
  <2>1. 0 \in S
    BY <1>1, <1>11
  <2>2. ASSUME NEW k \in 0..(n - 1), k \in S PROVE k + 1 \in S
    <3>1. after[k] \in Results /\ k + 1 \in 1..n /\ (k + 1) - 1 = k /\ k + 1 \in Nat
      BY <2>2
    <3>2. after[k + 1] = Next1(after[k], k + 1)
      BY <1>11, <3>1
    <3>3. after[k + 1] \in Results
      BY <1>4, <3>1, <3>2
    <3>4. QED
      BY <3>1, <3>3
  <2> HIDE DEF S
  <2>3. 0..n \subseteq S
    BY <2>1, <2>2, UpTo
  <2>4. \A k \in 0..n : after[k] \in Results
    BY <2>3 DEF S
  <2>5. QED
    BY <1>11, <2>4
<1>13. Tries(after, c, bytes, i, w, n)
  BY <1>6, <1>11, <1>12
<1>14. QED
  BY <1>5, <1>13

\* Attempts keep the types and the number of untaken answers; bytes that leave the ADC
\* waiting wherever they fall do so in any number of attempts; and the first attempt is
\* the last if its answer is the one wanted.
Waits(bytes) == \A c \in Chips : c.wire \in InPhase => Transfer(c, bytes).chip.wire = IdleWire

LEMMA TriedFacts ==
    ASSUME NEW c \in Chips, NEW bytes \in Seq(0..255), NEW i, NEW w, NEW n \in 1..4
    PROVE  /\ Tried(c, bytes, i, w, n) \in Results
           /\ Len(Tried(c, bytes, i, w, n).chip.rx) = Len(c.rx)
           /\ Len(Tried(c, bytes, i, w, n).taken) = Len(bytes)
           /\ c.wire \in InPhase /\ Waits(bytes) => Tried(c, bytes, i, w, n).chip.wire = IdleWire
           /\ Transfer(c, bytes).taken[i] = w => Tried(c, bytes, i, w, n) = Transfer(c, bytes)
<1> DEFINE first == Transfer(c, bytes)
           P(t) ==
             /\ t \in Results /\ Len(t.chip.rx) = Len(c.rx) /\ Len(t.taken) = Len(bytes)
             /\ c.wire \in InPhase /\ Waits(bytes) => t.chip.wire = IdleWire
             /\ first.taken[i] = w => t = first
<1>1. n \in Nat /\ n >= 1
  OBVIOUS
<1>2. PICK f : Tries(f, c, bytes, i, w, n) /\ Tried(c, bytes, i, w, n) = f[n]
  BY <1>1, TriedTries
<1>3. /\ \A k \in 0..n : f[k] \in Results
      /\ f[0] = [chip |-> c, taken |-> <<>>]
      /\ \A k \in 1..n : f[k] = Again(f[k - 1], k, bytes, i, w)
  BY <1>2 DEF Tries
<1> DEFINE S == {k \in 0..(n - 1) : P(f[k + 1])}
<1>4. 0 \in S
  <2>1. f[1] = first
    BY <1>1, <1>3 DEF Again
  <2>2. first \in Results /\ Len(first.chip.rx) = Len(c.rx) /\ Len(first.taken) = Len(bytes)
    BY TransferCounts
  <2>3. c.wire \in InPhase /\ Waits(bytes) => first.chip.wire = IdleWire
    BY DEF Waits
  <2> HIDE DEF first
  <2>4. P(first)
    BY <2>2, <2>3
  <2> HIDE DEF P
  <2>5. QED
    BY <1>1, <2>1, <2>4
<1>5. ASSUME NEW k \in 0..((n - 1) - 1), k \in S PROVE k + 1 \in S
  <2> DEFINE t == f[k + 1]
             u == f[k + 2]
  <2>1. P(t)
    BY <1>5
  <2>2. k + 2 \in 1..n /\ (k + 2) - 1 = k + 1 /\ (k + 1) + 1 = k + 2 /\ k + 1 \in 0..(n - 1)
        /\ k + 2 > 1 /\ k + 2 \in Nat
    BY <1>1
  <2>3. u = Again(t, k + 2, bytes, i, w)
    BY <1>3, <2>2
  <2> HIDE DEF t, u, first
  <2>4. t \in Results /\ t.chip \in Chips
    BY <2>1 DEF Results
  <2>5. /\ Transfer(t.chip, bytes) \in Results
        /\ Len(Transfer(t.chip, bytes).chip.rx) = Len(t.chip.rx)
        /\ Len(Transfer(t.chip, bytes).taken) = Len(bytes)
    BY <2>4, TransferCounts
  <2>6. u = t \/ u = Transfer(t.chip, bytes)
    BY <2>3 DEF Again
  <2>7. c.wire \in InPhase /\ Waits(bytes) => u.chip.wire = IdleWire
    <3> SUFFICES ASSUME c.wire \in InPhase, Waits(bytes) PROVE u.chip.wire = IdleWire
      OBVIOUS
    <3>1. t.chip.wire = IdleWire /\ t.chip.wire \in InPhase
      BY <2>1, IdleFacts
    <3>2. QED
      BY <2>4, <2>6, <3>1 DEF Waits
  <2>8. first.taken[i] = w => u = first
    BY <2>1, <2>2, <2>3 DEF Again
  <2>9. P(u)
    BY <2>1, <2>5, <2>6, <2>7, <2>8
  <2> HIDE DEF P
  <2>10. QED
    BY <2>2, <2>9 DEF u
<1> HIDE DEF S
<1>6. 0..(n - 1) \subseteq S
  <2> DEFINE m == n - 1
  <2>1. m \in Nat
    BY <1>1
  <2>2. \A k \in 0..(m - 1) : k \in S => k + 1 \in S
    BY <1>5
  <2> HIDE DEF m
  <2>3. 0..m \subseteq S
    BY <1>4, <2>1, <2>2, UpTo
  <2>4. QED
    BY <2>3 DEF m
<1>7. P(f[n])
  <2>1. n - 1 \in S /\ (n - 1) + 1 = n
    BY <1>1, <1>6
  <2> HIDE DEF P
  <2>2. QED
    BY <2>1 DEF S
<1>8. QED
  BY <1>2, <1>7

\* readADC leaves the ADC waiting wherever it falls, and gets its sample from a waiting
\* ADC at once.
LEMMA ReadAdcFacts ==
    ASSUME NEW c \in Chips, NEW n \in 1..4
    PROVE  /\ ReadAdc(c, n) \in Results
           /\ Len(ReadAdc(c, n).chip.rx) = Len(c.rx)
           /\ c.wire \in InPhase => ReadAdc(c, n).chip.wire = IdleWire
           /\ c.wire = IdleWire /\ c.rx = <<>> => Sampled(c, ReadAdc(c, n))
<1> DEFINE first == Transfer(c, ReadAdcBytes)
<1>1. Waits(ReadAdcBytes)
  BY SampleRealigns DEF Waits
<1>2. /\ ReadAdc(c, n) \in Results
      /\ Len(ReadAdc(c, n).chip.rx) = Len(c.rx)
      /\ c.wire \in InPhase => ReadAdc(c, n).chip.wire = IdleWire
      /\ first.taken[2] = STATUS => ReadAdc(c, n) = first
  <2> DEFINE bytes == ReadAdcBytes
  <2>1. bytes \in Seq(0..255) /\ Waits(bytes)
    BY <1>1, ReadAdcBytesFacts
  <2>2. ReadAdc(c, n) = Tried(c, bytes, 2, STATUS, n)
    BY DEF ReadAdc
  <2> HIDE DEF bytes
  <2>3. /\ Tried(c, bytes, 2, STATUS, n) \in Results
        /\ Len(Tried(c, bytes, 2, STATUS, n).chip.rx) = Len(c.rx)
        /\ c.wire \in InPhase => Tried(c, bytes, 2, STATUS, n).chip.wire = IdleWire
        /\ Transfer(c, bytes).taken[2] = STATUS =>
              Tried(c, bytes, 2, STATUS, n) = Transfer(c, bytes)
    BY <2>1, TriedFacts
  <2>4. QED
    BY <2>2, <2>3 DEF bytes
<1>3. ASSUME c.wire = IdleWire, c.rx = <<>> PROVE Sampled(c, ReadAdc(c, n))
  <2>1. Sampled(c, first)
    BY <1>3, SampleReads
  <2> HIDE DEF first
  <2>2. first.taken[2] = STATUS
    BY <2>1 DEF Sampled
  <2>3. QED
    BY <1>2, <2>1, <2>2
<1>4. QED
  BY <1>2, <1>3

RregBytes(r) == <<READ_REG + r, 0, 0>>

\* A register read by RREG: types and untaken answers are kept, a waiting ADC waits
\* again with its registers as they were, and answers with the register.
LEMMA RregFacts ==
    ASSUME NEW c \in Chips, NEW r \in 0..CONFIG4_REG
    PROVE  /\ Transfer(c, RregBytes(r)) \in Results
           /\ Len(Transfer(c, RregBytes(r)).chip.rx) = Len(c.rx)
           /\ Len(Transfer(c, RregBytes(r)).taken) = 3
           /\ c.wire = IdleWire =>
                 /\ Transfer(c, RregBytes(r)).chip.wire = IdleWire
                 /\ Transfer(c, RregBytes(r)).chip.regs = c.regs
           /\ c.wire = IdleWire /\ c.rx = <<>> =>
                 Transfer(c, RregBytes(r)).taken[3] = c.regs[r]
<1> DEFINE bytes == RregBytes(r)
           t == Transfer(c, bytes)
<1>1. r \in 0..23
  BY DEF CONFIG4_REG
<1>2. /\ bytes \in Seq(0..255) /\ Len(bytes) = 3
      /\ bytes[1] = 32 + r /\ bytes[2] = 0 /\ bytes[3] = 0
  BY <1>1 DEF RregBytes, READ_REG
<1> HIDE DEF bytes
<1>3. t \in Results /\ Len(t.chip.rx) = Len(c.rx) /\ Len(t.taken) = 3
  BY <1>2, TransferCounts
<1>4. PICK f : Runs(f, c, bytes) /\ t = f[3]
  BY <1>2, TransferRuns
<1>5. Stepwise(f, bytes)
  BY <1>2, <1>4, RunStep
<1>6. /\ \A k \in 1..3 : /\ f[k - 1] \in Results /\ f[k] \in Results /\ bytes[k] \in 0..255
                         /\ f[k] = Cross(f[k - 1], bytes[k])
                         /\ f[k].chip.wire = Decoded(f[k - 1].chip.wire, bytes[k])
      /\ f[0] = [chip |-> c, taken |-> <<>>]
  BY <1>2, <1>4, <1>5 DEF Stepwise, Runs
<1> HIDE DEF t
<1> DEFINE t0 == f[0]
           t1 == f[1]
           t2 == f[2]
           b1 == bytes[1]
           z == bytes[2]
<1>7. /\ t0 \in Results /\ b1 \in 0..255 /\ t1 = Cross(t0, b1)
      /\ t1.chip.wire = Decoded(t0.chip.wire, b1)
      /\ t0.chip = c /\ t0.taken = <<>>
  BY <1>6
<1>8. /\ t1 \in Results /\ z \in 0..255 /\ t2 = Cross(t1, z)
      /\ t2.chip.wire = Decoded(t1.chip.wire, z)
  BY <1>6
<1>9. /\ t2 \in Results /\ t = Cross(t2, z)
      /\ t.chip.wire = Decoded(t2.chip.wire, z)
  <2>1. f[3] = Cross(f[2], bytes[3]) /\ f[3].chip.wire = Decoded(f[2].chip.wire, bytes[3])
    BY <1>6
  <2>2. bytes[3] = z
    BY <1>2
  <2>3. QED
    BY <1>4, <1>6, <2>1, <2>2
<1>10. b1 = 32 + r /\ z = 0
  BY <1>2
<1> HIDE DEF t0, t1, t2, b1, z
<1>11. ASSUME c.wire = IdleWire
       PROVE  /\ t1.chip.wire = [st |-> "rcount", reg |-> r, n |-> 0]
              /\ t2.chip.wire = [st |-> "rdata", reg |-> r, n |-> 1]
              /\ t.chip.wire = IdleWire
  <2>1. b1 \div 32 = 1 /\ b1 % 32 = r /\ (z % 32) + 1 = 1
    BY <1>1, <1>10
  <2>2. t1.chip.wire = [st |-> "rcount", reg |-> r, n |-> 0]
    <3>1. t1.chip.wire = Decoded(IdleWire, b1)
      BY <1>7, <1>11
    <3>2. Decoded(IdleWire, b1) = Opcode(b1)
      BY IdleFacts DEF Decoded
    <3>3. Opcode(b1) = [st |-> "rcount", reg |-> b1 % 32, n |-> 0]
      <4>1. b1 \div 32 = 1 /\ b1 \div 32 # 2 /\ b1 \in 0..255
        BY <1>7, <2>1
      <4>2. QED
        BY <4>1 DEF Opcode, READ_ADC, IdleWire
    <3>4. QED
      BY <2>1, <3>1, <3>2, <3>3
  <2>3. t2.chip.wire = [st |-> "rdata", reg |-> r, n |-> (z % 32) + 1]
    BY <1>8, <2>2 DEF Decoded
  <2>4. t2.chip.wire = [st |-> "rdata", reg |-> r, n |-> 1]
    BY <2>1, <2>3
  <2>5. t.chip.wire = Further(t2.chip.wire)
    BY <1>9, <2>4 DEF Decoded
  <2>6. t.chip.wire = IdleWire
    BY <2>4, <2>5 DEF Further
  <2>7. QED
    BY <2>2, <2>4, <2>6
<1>12. \A x, b : x.wire.st # "wdata" => Stored(x, b, FALSE) = x.regs
  BY DEF Stored
<1>13. ASSUME c.wire = IdleWire PROVE t.chip.regs = c.regs /\ t2.chip.regs = c.regs
  <2>1. t1.chip.regs = Stored(t0.chip, b1, FALSE)
    BY <1>7, CrossParts
  <2>2. t2.chip.regs = Stored(t1.chip, z, FALSE)
    BY <1>8, CrossParts
  <2>3. t.chip.regs = Stored(t2.chip, z, FALSE)
    BY <1>8, <1>9, CrossParts
  <2>4. t0.chip.wire.st # "wdata" /\ t1.chip.wire.st # "wdata" /\ t2.chip.wire.st # "wdata"
    BY <1>7, <1>11, <1>13, IdleFacts
  <2>5. t1.chip.regs = c.regs
    BY <1>7, <1>12, <2>1, <2>4
  <2>6. t2.chip.regs = c.regs
    BY <1>12, <2>2, <2>4, <2>5
  <2>7. t.chip.regs = c.regs
    BY <1>12, <2>3, <2>4, <2>6
  <2>8. QED
    BY <2>6, <2>7
<1>14. ASSUME c.wire = IdleWire, c.rx = <<>> PROVE t.taken[3] = c.regs[r]
  <2>1. t0.chip.rx = <<>>
    BY <1>7, <1>14
  <2>2. t1.chip.rx = <<>>
    BY <1>7, <2>1, SampleByte
  <2>3. t2.chip.rx = <<>>
    BY <1>8, <2>2, SampleByte
  <2>4. t.taken = Append(t2.taken, Answer(t2.chip, FALSE)) /\ Answer(t2.chip, FALSE) \in Answers
    BY <1>8, <1>9, <2>3, SampleByte
  <2>5. t2.taken \in Seq(Answers) /\ Len(t2.taken) = 2
    <3>1. Len(t1.taken) = Len(t0.taken) + 1 /\ Len(t0.taken) = 0
      BY <1>7, CrossParts
    <3>2. Len(t2.taken) = Len(t1.taken) + 1
      BY <1>8, CrossParts
    <3>3. t2.taken \in Seq(Answers)
      BY <1>9 DEF Results
    <3>4. QED
      BY <3>1, <3>2, <3>3
  <2> DEFINE q == t2.taken
             a == Answer(t2.chip, FALSE)
             v == t.taken
  <2>6. q \in Seq(Answers) /\ a \in Answers /\ Len(q) = 2 /\ v = Append(q, a)
    BY <2>4, <2>5
  <2> HIDE DEF q, a, v
  <2>7. v[3] = a
    <3>1. Append(q, a)[Len(q) + 1] = a
      BY <2>6, AppendProperties
    <3>2. Len(q) + 1 = 3
      BY <2>6
    <3>3. QED
      BY <2>6, <3>1, <3>2
  <2>8. t2.chip.wire.st = "rdata" /\ t2.chip.wire.reg = r /\ t2.chip.regs = c.regs
    BY <1>11, <1>13, <1>14
  <2>9. r \in DOMAIN c.regs
    BY DEF Chips, RegFile
  <2>10. a = c.regs[r]
    BY <2>8, <2>9 DEF Answer, a
  <2>11. QED
    BY <2>7, <2>10 DEF v
<1>15. QED
  BY <1>3, <1>11, <1>13, <1>14 DEF t, bytes

\* The three bytes of a register's write or read, from a waiting ADC
LEMMA RegisterBytes ==
    ASSUME NEW r \in 0..CONFIG4_REG
    PROVE  /\ Decoded(IdleWire, WRITE_REG + r) = [st |-> "wcount", reg |-> r, n |-> 0]
           /\ Decoded(IdleWire, READ_REG + r) = [st |-> "rcount", reg |-> r, n |-> 0]
           /\ Decoded([st |-> "wcount", reg |-> r, n |-> 0], 0) = [st |-> "wdata", reg |-> r, n |-> 1]
           /\ Decoded([st |-> "rcount", reg |-> r, n |-> 0], 0) = [st |-> "rdata", reg |-> r, n |-> 1]
           /\ \A b : Decoded([st |-> "wdata", reg |-> r, n |-> 1], b) = IdleWire
           /\ \A b : Decoded([st |-> "rdata", reg |-> r, n |-> 1], b) = IdleWire
<1>1. r \in 0..23
  BY DEF CONFIG4_REG
<1>2. /\ (64 + r) \div 32 = 2 /\ (64 + r) % 32 = r /\ (32 + r) \div 32 = 1 /\ (32 + r) % 32 = r
      /\ (0 % 32) + 1 = 1
  BY <1>1
<1>3. \A x : Decoded(IdleWire, x) = Opcode(x)
  BY IdleFacts DEF Decoded
<1>4. Opcode(64 + r) = [st |-> "wcount", reg |-> r, n |-> 0]
  <2> DEFINE x == 64 + r
  <2>1. x \div 32 = 2 /\ x % 32 = r
    BY <1>2
  <2> HIDE DEF x
  <2>2. Opcode(x) = [st |-> "wcount", reg |-> r, n |-> 0]
    <3> DEFINE y == x \div 32
    <3>1. y = 2 /\ y # 1 /\ x # READ_ADC
      BY <1>1, <2>1 DEF x, READ_ADC
    <3>2. Opcode(x) = CASE y = 2 -> [st |-> "wcount", reg |-> x % 32, n |-> 0]
                        [] y = 1 -> [st |-> "rcount", reg |-> x % 32, n |-> 0]
                        [] x = READ_ADC -> [st |-> "sample", reg |-> 0, n |-> 21]
                        [] OTHER -> IdleWire
      BY DEF Opcode
    <3> HIDE DEF y
    <3>3. QED
      BY <2>1, <3>1, <3>2
  <2>3. QED
    BY <2>2 DEF x
<1>5. Opcode(32 + r) = [st |-> "rcount", reg |-> r, n |-> 0]
  <2> DEFINE x == 32 + r
  <2>1. x \div 32 = 1 /\ x % 32 = r
    BY <1>2
  <2> HIDE DEF x
  <2>2. Opcode(x) = [st |-> "rcount", reg |-> r, n |-> 0]
    <3> DEFINE y == x \div 32
    <3>1. y = 1 /\ y # 2 /\ x # READ_ADC
      BY <1>1, <2>1 DEF x, READ_ADC
    <3>2. Opcode(x) = CASE y = 2 -> [st |-> "wcount", reg |-> x % 32, n |-> 0]
                        [] y = 1 -> [st |-> "rcount", reg |-> x % 32, n |-> 0]
                        [] x = READ_ADC -> [st |-> "sample", reg |-> 0, n |-> 21]
                        [] OTHER -> IdleWire
      BY DEF Opcode
    <3> HIDE DEF y
    <3>3. QED
      BY <2>1, <3>1, <3>2
  <2>3. QED
    BY <2>2 DEF x
<1>6. /\ Decoded([st |-> "wcount", reg |-> r, n |-> 0], 0) = [st |-> "wdata", reg |-> r, n |-> 1]
      /\ Decoded([st |-> "rcount", reg |-> r, n |-> 0], 0) = [st |-> "rdata", reg |-> r, n |-> 1]
  BY <1>2 DEF Decoded
<1>7. \A b : /\ Decoded([st |-> "wdata", reg |-> r, n |-> 1], b) = IdleWire
             /\ Decoded([st |-> "rdata", reg |-> r, n |-> 1], b) = IdleWire
  BY DEF Decoded, Further
<1>8. QED
  BY <1>3, <1>4, <1>5, <1>6, <1>7 DEF WRITE_REG, READ_REG

LEMMA WriteBytesFacts ==
    ASSUME NEW r \in 0..CONFIG4_REG, NEW v \in 0..255
    PROVE  /\ WriteBytes(r, v) \in Seq(0..255) /\ Len(WriteBytes(r, v)) = 6
           /\ WriteBytes(r, v)[1] = WRITE_REG + r /\ WriteBytes(r, v)[2] = 0 /\ WriteBytes(r, v)[3] = v
           /\ WriteBytes(r, v)[4] = READ_REG + r /\ WriteBytes(r, v)[5] = 0 /\ WriteBytes(r, v)[6] = 0
<1>1. r \in 0..23
  BY DEF CONFIG4_REG
<1>2. WRITE_REG + r \in 0..255 /\ READ_REG + r \in 0..255
  BY <1>1 DEF WRITE_REG, READ_REG
<1> DEFINE a == WRITE_REG + r
           d == READ_REG + r
<1>3. a \in 0..255 /\ d \in 0..255 /\ v \in 0..255 /\ 0 \in 0..255
  BY <1>2
<1> HIDE DEF a, d
<1>4. <<a, 0, v, d, 0, 0>> \in Seq(0..255) /\ Len(<<a, 0, v, d, 0, 0>>) = 6
  BY <1>3
<1>5. QED
  BY <1>4 DEF WriteBytes, a, d

\* One byte of a handler's transfer, from result x to result y, when nothing waits
OneByte(x, b, y) ==
    /\ x \in Results /\ y \in Results
    /\ y.chip.wire = Decoded(x.chip.wire, b)
    /\ Len(y.taken) = Len(x.taken) + 1
    /\ x.chip.rx = <<>> =>
          /\ y.chip.rx = <<>>
          /\ y.chip.regs = Stored(x.chip, b, FALSE)
          /\ x.chip.wire.st # "wdata" => y.chip.regs = x.chip.regs
          /\ y.taken = Append(x.taken, Answer(x.chip, FALSE)) /\ Answer(x.chip, FALSE) \in Answers

LEMMA OneByteFacts ==
    ASSUME NEW x \in Results, NEW b \in 0..255, NEW y, y = Cross(x, b)
    PROVE  OneByte(x, b, y)
<1>1. /\ y \in Results /\ y.chip.wire = Decoded(x.chip.wire, b) /\ y.chip.regs = Stored(x.chip, b, FALSE)
      /\ Len(y.taken) = Len(x.taken) + 1
  BY CrossParts
<1>2. ASSUME x.chip.rx = <<>>
      PROVE  /\ y.chip.rx = <<>>
             /\ x.chip.wire.st # "wdata" => y.chip.regs = x.chip.regs
             /\ y.taken = Append(x.taken, Answer(x.chip, FALSE)) /\ Answer(x.chip, FALSE) \in Answers
  BY <1>2, SampleByte
<1>3. QED
  BY <1>1, <1>2 DEF OneByte

\* An attempt of writeReg: a waiting ADC takes the value, returns it, and waits again.
Wrote(c, r, v, t) ==
    /\ t.chip.wire = IdleWire /\ t.chip.rx = <<>>
    /\ t.chip.regs = [c.regs EXCEPT ![r] = v]
    /\ t.taken[6] = v

LEMMA WriteReads ==
    ASSUME NEW c \in Chips, c.wire = IdleWire, c.rx = <<>>,
           NEW r \in 0..CONFIG4_REG, NEW v \in 0..255
    PROVE  Wrote(c, r, v, Transfer(c, WriteBytes(r, v)))
<1> DEFINE bytes == WriteBytes(r, v)
           t == Transfer(c, bytes)
<1>1. /\ bytes \in Seq(0..255) /\ Len(bytes) = 6
      /\ bytes[1] = WRITE_REG + r /\ bytes[2] = 0 /\ bytes[3] = v
      /\ bytes[4] = READ_REG + r /\ bytes[5] = 0 /\ bytes[6] = 0
  BY WriteBytesFacts
<1> HIDE DEF bytes
<1>3. PICK f : Runs(f, c, bytes) /\ t = f[6]
  BY <1>1, TransferRuns
<1> HIDE DEF t
<1>4. Stepwise(f, bytes)
  BY <1>1, <1>3, RunStep
<1>5. f[0] = [chip |-> c, taken |-> <<>>]
  BY <1>3 DEF Runs
<1>6. \A k \in 1..6 : OneByte(f[k - 1], bytes[k], f[k])
  <2> SUFFICES ASSUME NEW k \in 1..6 PROVE OneByte(f[k - 1], bytes[k], f[k])
    OBVIOUS
  <2> DEFINE x == f[k - 1]
             b == bytes[k]
             y == f[k]
  <2>1. x \in Results /\ b \in 0..255 /\ y = Cross(x, b)
    BY <1>1, <1>4 DEF Stepwise
  <2> HIDE DEF x, b, y
  <2>2. OneByte(x, b, y)
    BY <2>1, OneByteFacts
  <2>3. QED
    BY <2>2 DEF x, b, y
<1>7. /\ OneByte(f[0], WRITE_REG + r, f[1]) /\ OneByte(f[1], 0, f[2]) /\ OneByte(f[2], v, f[3])
      /\ OneByte(f[3], READ_REG + r, f[4]) /\ OneByte(f[4], 0, f[5]) /\ OneByte(f[5], 0, f[6])
  <2>1. OneByte(f[1 - 1], bytes[1], f[1]) /\ OneByte(f[2 - 1], bytes[2], f[2])
    BY <1>6
  <2>2. OneByte(f[3 - 1], bytes[3], f[3]) /\ OneByte(f[4 - 1], bytes[4], f[4])
    BY <1>6
  <2>3. OneByte(f[5 - 1], bytes[5], f[5]) /\ OneByte(f[6 - 1], bytes[6], f[6])
    BY <1>6
  <2>4. 1 - 1 = 0 /\ 2 - 1 = 1 /\ 3 - 1 = 2 /\ 4 - 1 = 3 /\ 5 - 1 = 4 /\ 6 - 1 = 5
    OBVIOUS
  <2>5. QED
    BY <1>1, <2>1, <2>2, <2>3, <2>4
<1> DEFINE t0 == f[0]
           t1 == f[1]
           t2 == f[2]
           t3 == f[3]
           t4 == f[4]
           t5 == f[5]
           b1 == WRITE_REG + r
           b4 == READ_REG + r
<1>8. /\ t0.chip = c /\ t0.taken = <<>>
      /\ OneByte(t0, b1, t1) /\ OneByte(t1, 0, t2) /\ OneByte(t2, v, t3)
      /\ OneByte(t3, b4, t4) /\ OneByte(t4, 0, t5) /\ OneByte(t5, 0, t)
  BY <1>3, <1>5, <1>7
<1> DEFINE writing == [st |-> "wdata", reg |-> r, n |-> 1]
           reading == [st |-> "rdata", reg |-> r, n |-> 1]
<1>9. /\ Decoded(IdleWire, b1) = [st |-> "wcount", reg |-> r, n |-> 0]
      /\ Decoded(IdleWire, b4) = [st |-> "rcount", reg |-> r, n |-> 0]
      /\ Decoded([st |-> "wcount", reg |-> r, n |-> 0], 0) = writing
      /\ Decoded([st |-> "rcount", reg |-> r, n |-> 0], 0) = reading
      /\ Decoded(writing, v) = IdleWire /\ Decoded(reading, 0) = IdleWire
  BY RegisterBytes
<1> HIDE DEF t0, t1, t2, t3, t4, t5, b1, b4
<1>10. c.regs \in [0..CONFIG4_REG -> 0..255] /\ r \in DOMAIN c.regs
  BY DEF Chips, RegFile
<1>11. /\ t1.chip.wire = [st |-> "wcount", reg |-> r, n |-> 0]
       /\ t1.chip.rx = <<>> /\ t1.chip.regs = c.regs
  BY <1>8, <1>9, IdleFacts DEF OneByte
<1>12. /\ t2.chip.wire = [st |-> "wdata", reg |-> r, n |-> 1]
       /\ t2.chip.rx = <<>> /\ t2.chip.regs = c.regs
  BY <1>8, <1>9, <1>11 DEF OneByte
<1>13. t3.chip.wire = IdleWire /\ t3.chip.rx = <<>> /\ t3.chip.regs = [c.regs EXCEPT ![r] = v]
  <2>1. t3.chip.wire = IdleWire /\ t3.chip.rx = <<>> /\ t3.chip.regs = Stored(t2.chip, v, FALSE)
    BY <1>8, <1>9, <1>12 DEF OneByte
  <2>2. QED
    BY <1>10, <1>12, <2>1 DEF Stored
<1>14. /\ t4.chip.wire = [st |-> "rcount", reg |-> r, n |-> 0]
       /\ t4.chip.rx = <<>> /\ t4.chip.regs = t3.chip.regs
  BY <1>8, <1>9, <1>13, IdleFacts DEF OneByte
<1>15. /\ t5.chip.wire = [st |-> "rdata", reg |-> r, n |-> 1]
       /\ t5.chip.rx = <<>> /\ t5.chip.regs = t3.chip.regs
  BY <1>8, <1>9, <1>14 DEF OneByte
<1>16. t.chip.wire = IdleWire /\ t.chip.rx = <<>> /\ t.chip.regs = t3.chip.regs
  BY <1>8, <1>9, <1>15 DEF OneByte
<1>17. Answer(t5.chip, FALSE) = v
  <2>1. t5.chip.regs[r] = v /\ r \in DOMAIN t5.chip.regs
    BY <1>10, <1>13, <1>15
  <2>2. QED
    BY <1>15, <2>1 DEF Answer
<1>18. t.taken = Append(t5.taken, v) /\ v \in Answers
  BY <1>8, <1>15, <1>17 DEF OneByte
<1>19. t5.taken \in Seq(Answers) /\ Len(t5.taken) = 5
  <2>1. Len(t0.taken) = 0
    BY <1>8
  <2>2. Len(t1.taken) = 1
    BY <1>8, <2>1 DEF OneByte
  <2>3. Len(t2.taken) = 2
    BY <1>8, <2>2 DEF OneByte
  <2>4. Len(t3.taken) = 3
    BY <1>8, <2>3 DEF OneByte
  <2>5. Len(t4.taken) = 4
    BY <1>8, <2>4 DEF OneByte
  <2>6. Len(t5.taken) = 5
    BY <1>8, <2>5 DEF OneByte
  <2>7. QED
    BY <1>8, <2>6 DEF OneByte, Results
<1>20. t.taken[6] = v
  <2> DEFINE q == t5.taken
             z == t.taken
  <2>1. q \in Seq(Answers) /\ Len(q) = 5 /\ z = Append(q, v) /\ v \in Answers
    BY <1>18, <1>19
  <2> HIDE DEF q, z
  <2>2. Append(q, v)[Len(q) + 1] = v
    BY <2>1, AppendProperties
  <2>3. Len(q) + 1 = 6
    BY <2>1
  <2>4. z[6] = v
    BY <2>1, <2>2, <2>3
  <2>5. QED
    BY <2>4 DEF z
<1>21. QED
  BY <1>13, <1>16, <1>20 DEF Wrote, t, bytes

\* writeReg by a handler: types and untaken answers are kept, and a waiting ADC takes
\* the value at once.
LEMMA WriteRegFacts ==
    ASSUME NEW c \in Chips, NEW r \in 0..CONFIG4_REG, NEW v \in 0..255, NEW n \in 1..4
    PROVE  /\ WriteReg(c, r, v, n) \in Results
           /\ Len(WriteReg(c, r, v, n).chip.rx) = Len(c.rx)
           /\ Len(WriteReg(c, r, v, n).taken) = 6
           /\ c.wire = IdleWire /\ c.rx = <<>> => Wrote(c, r, v, WriteReg(c, r, v, n))
<1> DEFINE bytes == WriteBytes(r, v)
           first == Transfer(c, bytes)
           t == WriteReg(c, r, v, n)
<1>1. bytes \in Seq(0..255) /\ Len(bytes) = 6
  BY WriteBytesFacts
<1>2. t = Tried(c, bytes, 6, v, n)
  BY DEF WriteReg
<1>3. ASSUME c.wire = IdleWire, c.rx = <<>>
      PROVE  Wrote(c, r, v, first) /\ first.taken[6] = v
  <2>1. Wrote(c, r, v, first)
    BY <1>3, WriteReads
  <2>2. QED
    BY <2>1 DEF Wrote
<1> HIDE DEF bytes, t
<1>4. /\ t \in Results /\ Len(t.chip.rx) = Len(c.rx) /\ Len(t.taken) = 6
      /\ first.taken[6] = v => t = first
  BY <1>1, <1>2, TriedFacts
<1>5. QED
  BY <1>3, <1>4 DEF t

----------------------------------------------------------------------------
(* Where a switch can be *)

\* An answer waits only in the middle of a transfer; judging follows a whole read;
\* the timer's step and the place between two switches send nothing.
Control ==
    /\ phase \in {"write", "read"} /\ pos \in 1..4 /\ awaiting \in BOOLEAN
    /\ awaiting => Sending /\ ~Judging
    /\ pos = 4 => step \in RegSteps /\ phase = "read"
    /\ ~Sending => pos = 1 /\ phase = "write"
    /\ step = RestartStep => pos <= 2 /\ phase = "write"
    /\ attempts \in 0..3 /\ (step \notin RegSteps => attempts = 0)

\* What the types need of the ADC and the timer
Typed ==
    /\ regs \in RegFile /\ wire \in Wires /\ rx \in Seq(Answers)
    /\ Len(rx) = IF awaiting THEN 1 ELSE 0
    /\ rx_buf \in Answers
    /\ hit \in BOOLEAN /\ noise \in 0..4
    /\ timer.ps \in Prescalers /\ timer.cc \in 0..UINT32_MAX
    /\ aligned \in BOOLEAN /\ split \in BOOLEAN /\ inside \in 0..MaxInside
    /\ failed \subseteq {RegOf(k) : k \in RegSteps}

LinkInv == TimerInv /\ Control /\ Typed

\* How many bytes of a transfer of the main loop are out
Sent == IF awaiting THEN pos ELSE IF Judging THEN 0 ELSE pos - 1

\* Samples read inside a transfer only ever cut it short: the ADC waits for a
\* command, or is as far in the main loop's as the main loop is.
Sync ==
    ~split =>
        /\ \/ wire = IdleWire
           \/ Sent = 1 /\ step \in RegSteps /\ wire.st \in {"wcount", "rcount"}
           \/ Sent = 2 /\ step \in RegSteps /\ wire.st \in {"wdata", "rdata"} /\ wire.n = 1
        /\ aligned

\* The value being written or read back now
Wanted == ValueOf(step, target)
Here == regs[RegOf(step)]

\* What comes back tells the value written from a garbled one.
Faithful(a) == a = Here \/ (hit /\ Here = Wanted /\ a = GARBLED)

\* Until a handler comes inside a transfer: the ADC follows it to the byte, and no
\* register but those of a switch has changed.
Follows ==
    wire = IF step \in RegSteps /\ Sent \in {1, 2}
           THEN [st |-> IF phase = "write" THEN IF Sent = 1 THEN "wcount" ELSE "wdata"
                        ELSE IF Sent = 1 THEN "rcount" ELSE "rdata",
                 reg |-> RegOf(step), n |-> Sent - 1]
           ELSE IdleWire

Untouched ==
    \A r \in DOMAIN regs : (\A k \in RegSteps : r # RegOf(k)) => regs[r] = InitialRegs[r]

\* Unless an RM has come besides, a register holds what was written to it, except when
\* that was garbled,
Written ==
    step \in RegSteps /\ (phase = "read" \/ Sent = 3) => Here = Wanted \/ (hit /\ Here = GARBLED)

\* what comes back is the register's value, except when that was garbled,
Returned ==
    step \in RegSteps /\ phase = "read" =>
        /\ awaiting /\ pos = 3 => Faithful(rx[1])
        /\ pos = 4 => Faithful(rx_buf)

\* each attempt but the present one was garbled,
Noisy ==
    IF step \in RegSteps THEN noise = attempts + (IF hit THEN 1 ELSE 0) ELSE ~hit /\ noise = 0

\* and the registers passed are as the set has them.
Settled == \A k \in Passed : regs[RegOf(k)] = ValueOf(k, target) \/ RegOf(k) \in failed

InTune == Follows /\ Untouched
Kept == Written /\ Returned /\ Noisy /\ Settled
Exact == inside = 0 => InTune /\ (~moved => Kept)

----------------------------------------------------------------------------
(* The bytes of a switch *)

LEMMA ValueType ==
    ASSUME NEW s, s.rate \in Rates, NEW k
    PROVE  ValueOf(k, s) \in {0, 129} \cup 208..214
<1> DEFINE r == s.rate.n \div s.rate.d
<1>1. s.rate.n \in Nat /\ s.rate.d \in Nat \ {0}
  BY SetsAssumption DEF Computable
<1>2. r \in Nat
  BY <1>1, Division
<1> HIDE DEF r
<1> DEFINE d == DetermineADCRate(r)
<1>3. d \in 0..6
  BY <1>2, DetermineADCRateType DEF DataRates
<1>4. k = 1 => ValueOf(k, s) = (d % 8) + 208
  BY DEF ValueOf, CONFIG1_REG_INIT, r
<1>5. k # 1 => ValueOf(k, s) \in {0, 129}
  BY DEF ValueOf, CHSET_ON_REG_VAL, CHSET_OFF_REG_VAL
<1> HIDE DEF d
<1>6. (d % 8) + 208 \in 208..214
  BY <1>3
<1>7. QED
  BY <1>4, <1>5, <1>6

\* What a switch writes, and a START inside it
LEMMA LoadedValues ==
    ASSUME TimerInv, NEW k
    PROVE  /\ ValueOf(k, target) \in {0, 129} \cup 208..214
           /\ ValueOf(k, head) \in {0, 129} \cup 208..214 /\ ValueOf(k, head) \in 0..255
<1>1. target.rate \in Rates /\ head.rate \in Rates
  BY SetType DEF TimerInv
<1> DEFINE v == ValueOf(k, head)
<1>2. ValueOf(k, target) \in {0, 129} \cup 208..214 /\ v \in {0, 129} \cup 208..214
  BY <1>1, ValueType
<1> HIDE DEF v
<1>3. v \in 0..255
  BY <1>2
<1>4. QED
  BY <1>2, <1>3 DEF v

\* The registers of a switch are different ones, within the ADC's.
LEMMA RegFacts ==
    /\ RegSteps \subseteq 1..(RestartStep - 1) /\ RestartStep \notin RegSteps /\ RestartStep \in 4..11
    /\ \A k \in RegSteps : RegOf(k) \in 1..12 /\ RegOf(k) \in 0..CONFIG4_REG
    /\ \A j, k \in RegSteps : RegOf(j) = RegOf(k) => j = k
    /\ TimerStep \notin RegSteps /\ 0 \notin RegSteps
    /\ \A k \in 0..RestartStep : k \in RegSteps \/ k \in {0, TimerStep, RestartStep}
  BY SetsAssumption DEF RegSteps, RestartStep, RegOf, CONFIG1_REG, CONFIG4_REG, CH_0_SET_REG, TimerStep

\* No value of a register is the opcode of a command the driver counts bytes of.
LEMMA Opcodes ==
    /\ \A b \in {0, 129, 8, 10} \cup 208..214 : Opcode(b) = IdleWire
    /\ \A g \in 1..12 : /\ Opcode(64 + g) = [st |-> "wcount", reg |-> g, n |-> 0]
                        /\ Opcode(32 + g) = [st |-> "rcount", reg |-> g, n |-> 0]
<1>1. ASSUME NEW b \in {0, 129, 8, 10} \cup 208..214 PROVE Opcode(b) = IdleWire
  <2>1. b \in 0..255 /\ b # 18
    OBVIOUS
  <2>2. b \div 32 # 2 /\ b \div 32 # 1
    <3>1. CASE b \in {0, 8, 10}
      BY <3>1
    <3>2. CASE b = 129
      BY <3>2
    <3>3. CASE b \in 208..214
      BY <3>3
    <3>4. QED
      BY <3>1, <3>2, <3>3
  <2>3. QED
    BY <2>1, <2>2 DEF Opcode, READ_ADC, IdleWire
<1>2. ASSUME NEW g \in 1..12
      PROVE  /\ Opcode(64 + g) = [st |-> "wcount", reg |-> g, n |-> 0]
             /\ Opcode(32 + g) = [st |-> "rcount", reg |-> g, n |-> 0]
  <2>1. (64 + g) \div 32 = 2 /\ (64 + g) % 32 = g /\ (32 + g) \div 32 = 1 /\ (32 + g) % 32 = g
    OBVIOUS
  <2>2. QED
    BY <2>1 DEF Opcode, READ_ADC, IdleWire
<1>3. QED
  BY <1>1, <1>2

NextByte == Bytes(step, phase, target)[pos]

LEMMA NextByteFacts ==
    ASSUME TimerInv, Control, Sending, ~Judging
    PROVE  /\ pos \in 1..3 /\ NextByte \in 0..255
           /\ step \in RegSteps \/ (step = RestartStep /\ pos \in 1..2)
           /\ step = RestartStep => NextByte \in {8, 10}
           /\ step \in RegSteps =>
                 /\ pos = 1 => NextByte = RegOf(step) + (IF phase = "write" THEN 64 ELSE 32)
                 /\ pos = 2 => NextByte = 0
                 /\ pos = 3 => NextByte \in {0, 129} \cup 208..214
                 /\ pos = 3 /\ phase = "write" => NextByte = Wanted
<1>1. /\ step \in RegSteps \/ (step = RestartStep /\ pos \in 1..2)
      /\ pos \in 1..3 /\ phase \in {"write", "read"}
  BY RegFacts DEF TimerInv, Control, Sending, Judging
<1>2. CASE step = RestartStep
  <2>1. NextByte = <<10, 8>>[pos]
    BY <1>2 DEF NextByte, Bytes, STOP_ADC, START_ADC
  <2>2. NextByte \in {8, 10}
    BY <1>1, <1>2, <2>1, RegFacts
  <2>3. QED
    BY <1>1, <1>2, <2>2, RegFacts
<1>3. CASE step \in RegSteps
  <2>1. step # RestartStep /\ RegOf(step) \in 1..12
    BY <1>3, RegFacts
  <2>2. Wanted \in {0, 129} \cup 208..214
    BY LoadedValues DEF Wanted
  <2> DEFINE g == RegOf(step)
             v == Wanted
  <2>3. NextByte = (IF phase = "write" THEN <<64 + g, 0, v>> ELSE <<32 + g, 0, 0>>)[pos]
    BY <2>1 DEF NextByte, Bytes, WRITE_REG, READ_REG, Wanted
  <2>4. g \in 1..12 /\ v \in {0, 129} \cup 208..214
    BY <2>1, <2>2
  <2> HIDE DEF g, v
  <2>5. CASE pos = 1
    <3>1. NextByte = g + (IF phase = "write" THEN 64 ELSE 32)
      BY <2>3, <2>4, <2>5
    <3>2. NextByte \in 0..255
      BY <2>4, <3>1
    <3>3. QED
      BY <1>1, <1>3, <2>1, <2>5, <3>1, <3>2 DEF g
  <2>6. CASE pos = 2
    <3>1. NextByte = 0
      BY <2>3, <2>4, <2>6
    <3>2. QED
      BY <1>1, <1>3, <2>1, <2>6, <3>1
  <2>7. CASE pos = 3
    <3>1. NextByte = IF phase = "write" THEN v ELSE 0
      BY <2>3, <2>4, <2>7
    <3>2. NextByte \in {0, 129} \cup 208..214 /\ NextByte \in 0..255
      BY <2>4, <3>1
    <3>3. QED
      BY <1>1, <1>3, <2>1, <2>7, <3>1, <3>2 DEF v
  <2>8. QED
    BY <1>1, <2>5, <2>6, <2>7
<1>4. QED
  BY <1>1, <1>2, <1>3

----------------------------------------------------------------------------
(* Types *)

LEMMA ControlNext == TimerInv /\ Control /\ [Next]_vars => Control'
<1> SUFFICES ASSUME TimerInv, Control, [Next]_vars PROVE Control'
  OBVIOUS
<1> USE DEF Sending, Judging
<1>1. /\ phase \in {"write", "read"} /\ pos \in 1..4 /\ awaiting \in BOOLEAN
      /\ awaiting => Sending /\ ~Judging
      /\ pos = 4 => step \in RegSteps /\ phase = "read"
      /\ ~Sending => pos = 1 /\ phase = "write"
      /\ step = RestartStep => pos <= 2 /\ phase = "write"
      /\ attempts \in 0..3 /\ (step \notin RegSteps => attempts = 0)
      /\ step \in 0..RestartStep
  BY DEF Control, TimerInv
<1>2. CASE UNCHANGED vars
  BY <1>1, <1>2 DEF vars, writer, Control
<1>3. ASSUME NEW g \in BOOLEAN, Put(g) PROVE Control'
  BY <1>1, <1>3 DEF Put, Control
<1>4. CASE Get
  <2>1. awaiting /\ awaiting' = FALSE /\ attempts' = attempts /\ Sending /\ ~Judging
    BY <1>1, <1>4 DEF Get
  <2>2. awaiting' \in BOOLEAN /\ ~awaiting'
    BY <2>1
  <2>3. CASE step = RestartStep /\ pos = 2
    <3>1. step' = 0 /\ pos' = 1 /\ phase' = "write" /\ attempts' = 0
      <4>1. step' = 0 /\ pos' = 1 /\ phase' = phase
        BY <1>4, <2>3 DEF Get
      <4>2. attempts = 0 /\ phase = "write"
        BY <1>1, <2>3, RegFacts
      <4>3. QED
        BY <2>1, <4>1, <4>2
    <3>2. QED
      BY <2>2, <3>1, RegFacts DEF Control
  <2>4. CASE step # RestartStep /\ pos = 3 /\ phase = "write"
    <3>1. step' = step /\ pos' = 1 /\ phase' = "read"
      BY <1>4, <2>4 DEF Get
    <3>2. step # 0 /\ step # TimerStep /\ attempts' \in 0..3 /\ (step \notin RegSteps => attempts' = 0)
      BY <1>1, <2>1
    <3>3. QED
      BY <2>2, <2>4, <3>1, <3>2 DEF Control
  <2>5. CASE ~(step = RestartStep /\ pos = 2) /\ ~(step # RestartStep /\ pos = 3 /\ phase = "write")
    <3>1. step' = step /\ pos' = pos + 1 /\ phase' = phase
      BY <1>4, <2>5 DEF Get
    <3>2. /\ pos \in 1..3 /\ (pos = 3 => step \in RegSteps /\ phase = "read")
          /\ step = RestartStep => pos = 1 /\ phase = "write"
          /\ step # 0 /\ step # TimerStep
      BY <1>1, <2>1, <2>5, RegFacts
    <3>3. pos' \in 1..4 /\ (pos' = 4 <=> pos = 3) /\ (step = RestartStep => pos' = 2)
      BY <3>1, <3>2
    <3>4. phase' \in {"write", "read"} /\ attempts' \in 0..3 /\ (step' \notin RegSteps => attempts' = 0)
      BY <1>1, <2>1, <3>1
    <3>5. QED
      BY <2>2, <3>1, <3>2, <3>3, <3>4 DEF Control
  <2>6. QED
    BY <2>3, <2>4, <2>5
<1>5. ASSUME Proceed, awaiting' = awaiting, Judging \/ step = TimerStep PROVE Control'
  <2>1. awaiting = FALSE /\ phase' = "write" /\ pos' = 1 /\ attempts' = 0
    BY <1>1, <1>5 DEF Proceed
  <2>2. QED
    BY <1>5, <2>1, RegFacts DEF Control
<1>6. CASE Accept
  BY <1>1, <1>5, <1>6 DEF Accept
<1>7. CASE Retry
  <2>1. /\ Judging /\ attempts' = attempts + 1 /\ attempts < 3
        /\ phase' = "write" /\ pos' = 1 /\ step' = step /\ awaiting' = awaiting
    BY <1>7 DEF Retry, MoreAttempts, Count
  <2>2. QED
    BY <1>1, <2>1, RegFacts DEF Control
<1>8. CASE GiveUp
  BY <1>1, <1>5, <1>8 DEF GiveUp
<1>9. CASE Reconfigure
  BY <1>1, <1>5, <1>9 DEF Reconfigure
<1>10. ASSUME NEW s \in Sets, NEW who \in {"main", "usb"}, Begin(s, who) PROVE Control'
  BY <1>1, <1>10, RegFacts DEF Begin, Control
<1>11. ASSUME NEW n \in Attempts, DrdyIsr(n) PROVE Control'
  BY <1>1, <1>11 DEF DrdyIsr, writer, Control
<1>12. ASSUME NEW r \in ReadRegs, RregIsr(r) PROVE Control'
  BY <1>1, <1>12 DEF RregIsr, Control
<1>13. ASSUME NEW s \in Sets, RmIsr(s) PROVE Control'
  BY <1>1, <1>13 DEF RmIsr, writer, Control
<1>14. ASSUME NEW n \in 1..4, StartIsr(n) PROVE Control'
  BY <1>1, <1>14 DEF StartIsr, Control
<1>15. QED
  BY <1>2, <1>3, <1>4, <1>6, <1>7, <1>8, <1>9, <1>10, <1>11, <1>12, <1>13, <1>14 DEF Next, Main

LEMMA ChipType == Typed => Chip \in Chips /\ Chip.wire = wire /\ Chip.regs = regs /\ Chip.rx = rx
  BY DEF Typed, Chip, Chips

\* What a START sends inside a switch
Restart(n) == WriteReg(Chip, CONFIG1_REG, ValueOf(1, head), n)

\* The bytes of a handler, and what it leaves behind
LEMMA HandlerFacts ==
    ASSUME Typed, TimerInv
    PROVE  /\ \A n \in Attempts : n \in 1..4
           /\ \A n \in Attempts : /\ ReadAdc(Chip, n) \in Results
                                  /\ Len(ReadAdc(Chip, n).chip.rx) = Len(rx)
           /\ \A r \in ReadRegs : r <= CONFIG4_REG =>
                 /\ r \in 0..CONFIG4_REG
                 /\ Transfer(Chip, RregBytes(r)) \in Results
                 /\ Len(Transfer(Chip, RregBytes(r)).chip.rx) = Len(rx)
                 /\ Len(Transfer(Chip, RregBytes(r)).taken) = 3
           /\ \A n \in 1..4 : /\ Restart(n) \in Results
                              /\ Len(Restart(n).chip.rx) = Len(rx)
                              /\ Len(Restart(n).taken) = 6
<1>1. Chip \in Chips /\ Chip.rx = rx
  BY ChipType
<1>2. \A n \in Attempts : n \in 1..4
  BY SetsAssumption
<1>3. ASSUME NEW n \in Attempts
      PROVE  ReadAdc(Chip, n) \in Results /\ Len(ReadAdc(Chip, n).chip.rx) = Len(rx)
  BY <1>1, <1>2, ReadAdcFacts
<1>4. ASSUME NEW r \in ReadRegs, r <= CONFIG4_REG
      PROVE  /\ r \in 0..CONFIG4_REG
             /\ Transfer(Chip, RregBytes(r)) \in Results
             /\ Len(Transfer(Chip, RregBytes(r)).chip.rx) = Len(rx)
             /\ Len(Transfer(Chip, RregBytes(r)).taken) = 3
  <2>1. r \in 0..CONFIG4_REG
    BY <1>4, SetsAssumption DEF CONFIG4_REG
  <2>2. QED
    BY <1>1, <2>1, RregFacts
<1>5. ASSUME NEW n \in 1..4
      PROVE  /\ Restart(n) \in Results
             /\ Len(Restart(n).chip.rx) = Len(rx)
             /\ Len(Restart(n).taken) = 6
  <2> DEFINE v == ValueOf(1, head)
             r == CONFIG1_REG
             t == Restart(n)
  <2>1. v \in 0..255 /\ r \in 0..CONFIG4_REG /\ t = WriteReg(Chip, r, v, n)
    BY LoadedValues DEF CONFIG1_REG, CONFIG4_REG, Restart
  <2> HIDE DEF v, r, t
  <2>2. /\ WriteReg(Chip, r, v, n) \in Results /\ Len(WriteReg(Chip, r, v, n).chip.rx) = Len(rx)
        /\ Len(WriteReg(Chip, r, v, n).taken) = 6
    BY <1>1, <2>1, WriteRegFacts
  <2>3. QED
    BY <2>1, <2>2 DEF t
<1>6. QED
  BY <1>2, <1>3, <1>4, <1>5

\* A byte of the main loop's, and what it does to the ADC
LEMMA PutFacts ==
    ASSUME TimerInv, Control, Typed, NEW g \in BOOLEAN, Put(g)
    PROVE  /\ regs' \in RegFile /\ wire' \in Wires /\ rx' \in Seq(Answers)
           /\ wire' = Decoded(wire, NextByte)
           /\ regs' = Stored(Chip, NextByte, g)
           /\ rx' = <<Answer(Chip, g)>> /\ rx'[1] = Answer(Chip, g)
           /\ Len(rx') = 1
           /\ awaiting = FALSE /\ awaiting' = TRUE
<1>1. Sending /\ ~Judging /\ awaiting = FALSE /\ awaiting' = TRUE
  BY DEF Put, Control
<1> DEFINE b == NextByte
           e == Exchange(Chip, b, g)
<1>2. Becomes(e)
  BY DEF Put, NextByte
<1>3. b \in 0..255
  BY <1>1, NextByteFacts
<1> HIDE DEF b
<1>4. Chip \in Chips /\ Chip.rx = rx /\ Chip.wire = wire
  BY ChipType
<1>5. e \in Chips /\ Len(e.rx) = Len(rx) + 1 /\ Answer(Chip, g) \in Answers
  BY <1>3, <1>4, ExchangeType, AnswerType
<1>6. /\ e.wire = Decoded(wire, b) /\ e.regs = Stored(Chip, b, g)
      /\ e.rx = Append(rx, Answer(Chip, g))
  BY <1>4 DEF Exchange
<1> HIDE DEF e
<1>7. regs' = e.regs /\ wire' = e.wire /\ rx' = e.rx
  BY <1>2 DEF Becomes
<1>8. rx \in Seq(Answers) /\ Len(rx) = 0
  BY <1>1 DEF Typed
<1>9. rx = <<>>
  BY <1>8, EmptySeq
<1>10. e.rx = <<Answer(Chip, g)>>
  BY <1>6, <1>9
<1>11. e.regs \in RegFile /\ e.wire \in Wires /\ e.rx \in Seq(Answers)
  BY <1>5 DEF Chips
<1>12. QED
  BY <1>1, <1>5, <1>6, <1>7, <1>8, <1>10, <1>11 DEF b

\* The answer that waits is the one taken.
LEMMA GetFacts ==
    ASSUME TimerInv, Control, Typed, Get
    PROVE  /\ rx' \in Seq(Answers) /\ Len(rx') = 0
           /\ awaiting = TRUE /\ awaiting' = FALSE
           /\ pos \in 1..3 /\ rx[1] \in Answers
           /\ rx_buf' = IF pos = 3 THEN rx[1] ELSE rx_buf
           /\ rx_buf' \in Answers
<1>1. awaiting = TRUE /\ awaiting' = FALSE /\ Sending /\ ~Judging
  BY DEF Get, Control
<1>2. pos \in 1..3
  BY <1>1 DEF Control, Judging
<1>3. rx \in Seq(Answers) /\ Len(rx) = 1 /\ rx_buf \in Answers
  BY <1>1 DEF Typed
<1>4. rx' = Tail(rx) /\ rx_buf' = IF pos = 3 THEN Head(rx) ELSE rx_buf
  BY DEF Get
<1>5. rx[1] \in Answers /\ Head(rx) = rx[1]
  <2>1. 1 \in 1..Len(rx)
    BY <1>3
  <2>2. rx[1] \in Answers
    BY <1>3, <2>1, ElementOfSeq
  <2>3. QED
    BY <1>3, <2>2
<1>6. Tail(rx) \in Seq(Answers) /\ Len(Tail(rx)) = 0
  BY <1>3
<1>7. QED
  BY <1>1, <1>2, <1>3, <1>4, <1>5, <1>6

LEMMA TypedNext == TimerInv /\ Control /\ Typed /\ [Next]_vars => Typed'
<1> SUFFICES ASSUME TimerInv, Control, Typed, [Next]_vars PROVE Typed'
  OBVIOUS
<1>1. /\ regs \in RegFile /\ wire \in Wires /\ rx \in Seq(Answers)
      /\ Len(rx) = IF awaiting THEN 1 ELSE 0
      /\ rx_buf \in Answers
      /\ hit \in BOOLEAN /\ noise \in 0..4
      /\ timer.ps \in Prescalers /\ timer.cc \in 0..UINT32_MAX
      /\ aligned \in BOOLEAN /\ split \in BOOLEAN /\ inside \in 0..MaxInside
      /\ failed \subseteq {RegOf(k) : k \in RegSteps}
  BY DEF Typed
<1>2. CASE UNCHANGED vars
  BY <1>1, <1>2 DEF vars, chip, writer, ghosts, Typed
<1>3. ASSUME NEW g \in BOOLEAN, Put(g) PROVE Typed'
  <2>1. /\ regs' \in RegFile /\ wire' \in Wires /\ rx' \in Seq(Answers) /\ Len(rx') = 1 /\ awaiting'
    BY <1>3, PutFacts
  <2>2. /\ hit' = (hit \/ g)
        /\ noise' = IF g /\ noise < 4 THEN noise + 1 ELSE noise
        /\ UNCHANGED <<rx_buf, timer, aligned, failed, inside, split>>
    BY <1>3 DEF Put
  <2>3. hit' \in BOOLEAN
    BY <2>2
  <2>4. noise' \in 0..4
    BY <1>1, <2>2
  <2>5. QED
    BY <1>1, <2>1, <2>2, <2>3, <2>4 DEF Typed
<1>4. CASE Get
  <2>1. rx' \in Seq(Answers) /\ Len(rx') = 0 /\ ~awaiting' /\ rx_buf' \in Answers
    BY <1>4, GetFacts
  <2>2. UNCHANGED <<regs, wire, timer, aligned, hit, noise, failed, inside, split>>
    BY <1>4 DEF Get, ghosts
  <2>3. QED
    BY <1>1, <2>1, <2>2 DEF Typed
<1> DEFINE Cleared == hit' \in BOOLEAN /\ noise' \in 0..4
<1>5. ASSUME hit' = FALSE, noise' = 0 PROVE Cleared
  <2>1. FALSE \in BOOLEAN /\ 0 \in 0..4
    OBVIOUS
  <2>2. hit' \in BOOLEAN
    BY <1>5, <2>1, Zenon
  <2>3. noise' \in 0..4
    BY <1>5, <2>1
  <2>4. QED
    BY <2>2, <2>3
<1>6. Proceed => Cleared
  BY <1>5 DEF Proceed
<1>7. CASE Accept
  <2>1. Cleared
    BY <1>7, <1>6 DEF Accept
  <2>2. QED
    BY <1>1, <1>7, <2>1 DEF Accept, chip, Typed
<1>8. CASE Retry
  <2>1. hit' \in BOOLEAN
    BY <1>8 DEF Retry
  <2>2. QED
    BY <1>1, <1>8, <2>1 DEF Retry, chip, Typed
<1>9. CASE GiveUp
  <2>1. step \in RegSteps /\ failed' \subseteq failed \cup {RegOf(step)}
    BY <1>9 DEF GiveUp, Judging
  <2>2. failed' \subseteq {RegOf(k) : k \in RegSteps}
    BY <1>1, <2>1
  <2>3. Cleared
    BY <1>9, <1>6 DEF GiveUp
  <2>4. UNCHANGED <<chip, by, awaiting, rx_buf, timer, aligned, inside, split>>
    BY <1>9 DEF GiveUp
  <2>5. QED
    BY <1>1, <2>2, <2>3, <2>4 DEF chip, Typed
<1> DEFINE Set(r) == TimerFor[r].ps \in Prescalers /\ TimerFor[r].cc \in 0..UINT32_MAX
<1>a. ASSUME NEW r \in Rates PROVE Set(r)
  <2>1. Computable(r) /\ TimerFor[r] = ConfigTimer(r)
    BY SetsAssumption DEF TimerFor
  <2>2. Accurate(TimerFor[r], r)
    BY <2>1, ConfigTimerAccurate
  <2>3. QED
    BY <2>2 DEF Accurate
<1>10. CASE Reconfigure
  <2>1. target.rate \in Rates /\ timer' = TimerFor[target.rate]
    BY <1>10 DEF TimerInv, Reconfigure
  <2>2. timer'.ps \in Prescalers /\ timer'.cc \in 0..UINT32_MAX
    BY <1>a, <2>1
  <2>3. Cleared
    BY <1>10, <1>6 DEF Reconfigure
  <2>4. UNCHANGED <<chip, awaiting, rx_buf, aligned, failed, inside, split>>
    BY <1>10 DEF Reconfigure
  <2>5. QED
    BY <1>1, <2>2, <2>3, <2>4 DEF chip, Typed
<1>11. ASSUME NEW s \in Sets, NEW who \in {"main", "usb"}, Begin(s, who) PROVE Typed'
  <2>1. Cleared /\ failed' = {}
    BY <1>11, <1>5 DEF Begin
  <2>2. UNCHANGED <<chip, awaiting, rx_buf, timer, aligned, inside, split>>
    BY <1>11 DEF Begin
  <2>3. QED
    BY <1>1, <2>1, <2>2 DEF chip, Typed
<1>12. ASSUME NEW a, Mark(a) PROVE inside' \in 0..MaxInside
  BY <1>1, <1>12, BoundsAssumption DEF Mark
<1>13. ASSUME NEW c \in Chips, Len(c.rx) = Len(rx), Becomes(c)
       PROVE  /\ regs' \in RegFile /\ wire' \in Wires /\ rx' \in Seq(Answers)
              /\ Len(rx') = Len(rx)
  BY <1>13 DEF Becomes, Chips
<1>14. ASSUME NEW n \in Attempts, DrdyIsr(n) PROVE Typed'
  <2> DEFINE t == ReadAdc(Chip, n)
  <2>1. t \in Results /\ Len(t.chip.rx) = Len(rx)
    BY HandlerFacts
  <2>2. /\ Mark(Amid(FALSE)) /\ Becomes(t.chip)
        /\ aligned' = (aligned /\ (Amid(FALSE) \/ Tail(t.taken) = Sample))
        /\ UNCHANGED <<writer, timer, hit, noise, failed, split>>
    BY <1>14 DEF DrdyIsr
  <2> HIDE DEF t
  <2>3. t.chip \in Chips
    BY <2>1 DEF Results
  <2>4. /\ regs' \in RegFile /\ wire' \in Wires /\ rx' \in Seq(Answers) /\ Len(rx') = Len(rx)
    BY <1>13, <2>1, <2>2, <2>3
  <2>5. inside' \in 0..MaxInside
    BY <1>12, <2>2
  <2>6. aligned' \in BOOLEAN
    BY <2>2
  <2>7. UNCHANGED <<rx_buf, awaiting, timer, hit, noise, failed, split>>
    BY <2>2 DEF writer
  <2>8. QED
    BY <1>1, <2>4, <2>5, <2>6, <2>7 DEF Typed
<1>15. ASSUME NEW r \in ReadRegs, RregIsr(r) PROVE Typed'
  <2> DEFINE t == Transfer(Chip, RregBytes(r))
  <2>1. /\ r <= CONFIG4_REG
        /\ Mark(Amid(TRUE)) /\ Becomes(t.chip) /\ rx_buf' = t.taken[3]
        /\ aligned' = (aligned /\ (Amid(TRUE) \/ t.taken[3] = regs[r]))
        /\ split' = (split \/ Amid(FALSE))
        /\ UNCHANGED <<awaiting, timer, hit, noise, failed>>
    BY <1>15 DEF RregIsr, RregBytes
  <2>2. t \in Results /\ Len(t.chip.rx) = Len(rx) /\ Len(t.taken) = 3
    BY <2>1, HandlerFacts
  <2> HIDE DEF t
  <2>3. t.chip \in Chips /\ t.taken \in Seq(Answers)
    BY <2>2 DEF Results
  <2>4. /\ regs' \in RegFile /\ wire' \in Wires /\ rx' \in Seq(Answers) /\ Len(rx') = Len(rx)
    BY <1>13, <2>1, <2>2, <2>3
  <2>5. rx_buf' \in Answers
    BY <2>1, <2>2, <2>3, ElementOfSeq
  <2>6. inside' \in 0..MaxInside
    BY <1>12, <2>1
  <2>7. aligned' \in BOOLEAN /\ split' \in BOOLEAN
    BY <2>1
  <2>8. QED
    BY <1>1, <2>1, <2>4, <2>5, <2>6, <2>7 DEF Typed
<1>16. ASSUME NEW s \in Sets, RmIsr(s) PROVE Typed'
  BY <1>1, <1>16 DEF RmIsr, chip, writer, ghosts, Typed
<1>17. ASSUME NEW n \in 1..4, StartIsr(n) PROVE Typed'
  <2> DEFINE t == Restart(n)
  <2>1. /\ Mark(Amid(TRUE)) /\ Becomes(t.chip) /\ rx_buf' = t.taken[6]
        /\ aligned' = (aligned /\ (Amid(TRUE) \/ t.taken[6] = ValueOf(1, head)))
        /\ split' = (split \/ Amid(FALSE))
        /\ timer' = TimerFor[head.rate]
        /\ UNCHANGED <<awaiting, hit, noise, failed>>
    BY <1>17 DEF StartIsr, Restart
  <2>2. t \in Results /\ Len(t.chip.rx) = Len(rx) /\ Len(t.taken) = 6
    BY HandlerFacts
  <2> HIDE DEF t
  <2>3. t.chip \in Chips /\ t.taken \in Seq(Answers)
    BY <2>2 DEF Results
  <2>4. /\ regs' \in RegFile /\ wire' \in Wires /\ rx' \in Seq(Answers) /\ Len(rx') = Len(rx)
    BY <1>13, <2>1, <2>2, <2>3
  <2>5. rx_buf' \in Answers
    BY <2>1, <2>2, <2>3, ElementOfSeq
  <2>6. inside' \in 0..MaxInside
    BY <1>12, <2>1
  <2>7. aligned' \in BOOLEAN /\ split' \in BOOLEAN
    BY <2>1
  <2>8. timer'.ps \in Prescalers /\ timer'.cc \in 0..UINT32_MAX
    BY <1>a, <2>1, SetType DEF TimerInv
  <2>9. QED
    BY <1>1, <2>1, <2>4, <2>5, <2>6, <2>7, <2>8 DEF Typed
<1>18. QED
  BY <1>2, <1>3, <1>4, <1>7, <1>8, <1>9, <1>10, <1>11, <1>14, <1>15, <1>16, <1>17 DEF Next, Main

LEMMA LinkInvInit == Init => LinkInv
<1> SUFFICES ASSUME Init PROVE LinkInv
  OBVIOUS
<1>1. TimerInv
  BY TimerInvInit
<1>2. Control
  <2>1. phase = "write" /\ pos = 1 /\ step = 0 /\ attempts = 0
    BY DEF Init
  <2>2. awaiting \in BOOLEAN /\ ~awaiting
    BY DEF Init
  <2>3. QED
    BY <2>1, <2>2, RegFacts DEF Control
<1>3. InitialRegs \in RegFile
  BY DEF InitialRegs, RegFile, CONFIG1_REG_INIT
<1>4. IdleWire \in Wires
  BY IdleFacts
<1>5. rx = <<>> /\ rx_buf = JUNK /\ JUNK \in Answers /\ timer = [ps |-> 1, cc |-> 0]
  BY DEF Init, JUNK, Answers
<1>6. rx \in Seq(Answers) /\ Len(rx) = 0 /\ rx_buf \in Answers
  BY <1>5
<1>7. timer.ps \in Prescalers /\ timer.cc \in 0..UINT32_MAX
  <2>1. UINT32_MAX \in Nat
    BY TimerAssumption DEF UINT32_MAX
  <2>2. QED
    BY <1>5, <2>1 DEF Prescalers
<1>8. Typed
  <2>1. regs \in RegFile /\ wire \in Wires
    BY <1>3, <1>4 DEF Init
  <2>2. hit \in BOOLEAN /\ aligned \in BOOLEAN /\ split \in BOOLEAN /\ ~awaiting
    BY DEF Init
  <2>3. noise \in 0..4 /\ inside \in 0..MaxInside /\ failed = {}
    BY BoundsAssumption DEF Init
  <2>4. QED
    BY <1>6, <1>7, <2>1, <2>2, <2>3 DEF Typed
<1>9. QED
  BY <1>1, <1>2, <1>8 DEF LinkInv

LEMMA LinkInvNext == LinkInv /\ [Next]_vars => LinkInv'
  BY TimerInvNext, ControlNext, TypedNext DEF LinkInv

LEMMA LinkInvariant == Spec => []LinkInv
  BY LinkInvInit, LinkInvNext, PTL DEF Spec

LEMMA LinkInvTypes == LinkInv => TypeOK
<1> SUFFICES ASSUME LinkInv PROVE TypeOK
  OBVIOUS
<1>1. wire.st \in {"idle", "wcount", "rcount", "wdata", "rdata", "sample"} /\ wire.reg \in Nat /\ wire.n \in 0..32
  BY DEF LinkInv, Typed, Wires, Data
<1>2. QED
  BY <1>1 DEF LinkInv, TimerInv, Control, Typed, TypeOK, RegFile, Answers

\* Whatever handlers come, the registers stay bytes, the ADC's decoder within its
\* commands, and exactly the answer the main loop is about to take (txrx_wait) waits
\* in the receive FIFO.
THEOREM TypeCorrectness == Spec => []TypeOK
  BY LinkInvariant, LinkInvTypes, PTL

----------------------------------------------------------------------------
(* Reads between transfers *)

LEMMA SentFacts ==
    ASSUME TimerInv, Control
    PROVE  /\ Sent \in 0..3
           /\ awaiting => Sent = pos /\ pos \in 1..3
           /\ ~awaiting /\ ~Judging => Sent = pos - 1
           /\ Judging => Sent = 0 /\ ~awaiting
           /\ ~Amid(FALSE) => Sent = 0 /\ awaiting = FALSE
           /\ step \notin RegSteps /\ step # RestartStep => Sent = 0 /\ awaiting = FALSE
<1>1. /\ pos \in 1..4 /\ awaiting \in BOOLEAN
      /\ awaiting => ~Judging
      /\ pos = 4 => Judging
      /\ step \notin RegSteps /\ step # RestartStep => pos = 1 /\ awaiting = FALSE
      /\ Judging => pos = 4
  BY RegFacts DEF Control, TimerInv, Judging, Sending
<1> HIDE DEF Judging
<1>2. Sent = IF awaiting THEN pos ELSE IF Judging THEN 0 ELSE pos - 1
  BY DEF Sent
<1> DEFINE amid == Amid(FALSE)
<1>3. ~amid => awaiting = FALSE /\ (pos = 1 \/ Judging)
  BY <1>1 DEF Amid
<1> HIDE DEF amid
<1> DEFINE Facts ==
             /\ Sent \in 0..3
             /\ awaiting => Sent = pos /\ pos \in 1..3
             /\ ~awaiting /\ ~Judging => Sent = pos - 1
             /\ Judging => Sent = 0 /\ ~awaiting
             /\ ~amid => Sent = 0 /\ awaiting = FALSE
             /\ step \notin RegSteps /\ step # RestartStep => Sent = 0 /\ awaiting = FALSE
<1>4. ASSUME awaiting = TRUE PROVE Facts
  <2>1. ~Judging /\ pos \in 1..3 /\ Sent = pos
    BY <1>1, <1>2, <1>4
  <2>2. amid /\ ~(step \notin RegSteps /\ step # RestartStep)
    BY <1>1, <1>3, <1>4
  <2>3. QED
    BY <1>4, <2>1, <2>2
<1>5. ASSUME awaiting = FALSE PROVE Facts
  <2>1. Sent = IF Judging THEN 0 ELSE pos - 1
    BY <1>2, <1>5
  <2>2. ~Judging => pos \in 1..3
    BY <1>1
  <2>3. CASE Judging
    <3>1. Sent = 0
      BY <2>1, <2>3
    <3>2. QED
      BY <1>1, <1>5, <2>3, <3>1
  <2>4. CASE ~Judging
    <3>1. Sent = pos - 1 /\ pos \in 1..3
      BY <2>1, <2>2, <2>4
    <3>2. Sent \in 0..3 /\ (pos = 1 => Sent = 0)
      BY <3>1
    <3>3. ~amid => Sent = 0
      BY <1>3, <2>4, <3>2
    <3>4. step \notin RegSteps /\ step # RestartStep => Sent = 0
      BY <1>1, <3>2
    <3>5. QED
      BY <1>5, <2>4, <3>1, <3>2, <3>3, <3>4
  <2>5. QED
    BY <2>3, <2>4
<1>6. Facts
  BY <1>1, <1>4, <1>5
<1>7. QED
  BY <1>6 DEF amid

\* A handler that comes between transfers finds the FIFO empty.
LEMMA NothingWaits ==
    ASSUME Typed, awaiting = FALSE
    PROVE  rx = <<>> /\ Chip.rx = <<>> /\ Chip \in Chips /\ Chip.wire = wire /\ Chip.regs = regs
<1>1. rx \in Seq(Answers) /\ Len(rx) = 0
  BY DEF Typed
<1>2. rx = <<>>
  BY <1>1, EmptySeq
<1>3. QED
  BY <1>2, ChipType

\* A START then writes the register at once.
LEMMA RestartIdle ==
    ASSUME Typed, TimerInv, awaiting = FALSE, wire = IdleWire, NEW n \in 1..4
    PROVE  Wrote(Chip, CONFIG1_REG, ValueOf(1, head), Restart(n))
<1> DEFINE v == ValueOf(1, head)
           r == CONFIG1_REG
<1>1. v \in 0..255 /\ r \in 0..CONFIG4_REG
  BY LoadedValues DEF CONFIG1_REG, CONFIG4_REG
<1>2. Chip \in Chips /\ Chip.wire = IdleWire /\ Chip.rx = <<>>
  BY NothingWaits
<1>3. Restart(n) = WriteReg(Chip, r, v, n)
  BY DEF Restart
<1> HIDE DEF v, r
<1>4. Wrote(Chip, r, v, WriteReg(Chip, r, v, n))
  BY <1>1, <1>2, WriteRegFacts
<1>5. QED
  BY <1>3, <1>4 DEF v, r

\* The 21 bytes after the opcode's, as readData takes them
LEMMA SampledTail ==
    ASSUME NEW c, NEW t \in Results, Sampled(c, t)
    PROVE  Tail(t.taken) = Sample
<1> DEFINE q == t.taken
<1>1. q \in Seq(Answers) /\ Len(q) = 22 /\ \A i \in 2..22 : q[i] = IF i = 2 THEN STATUS ELSE DATA
  BY DEF Results, Sampled
<1> HIDE DEF q
<1>2. Tail(q) = [i \in 1..21 |-> q[i + 1]]
  <2>1. q \in Seq(Answers) /\ Len(q) = 22 /\ q # <<>>
    <3>1. Len(q) = 22 /\ Len(<<>>) = 0
      BY <1>1, EmptySeq
    <3>2. q # <<>>
      <4> SUFFICES ASSUME q = <<>> PROVE FALSE
        OBVIOUS
      <4>1. Len(q) = Len(<<>>)
        OBVIOUS
      <4>2. QED
        BY <3>1, <4>1
    <3>3. QED
      BY <1>1, <3>2
  <2>2. Tail(q) \in Seq(Answers) /\ Len(Tail(q)) = 21 /\ \A i \in 1..21 : Tail(q)[i] = q[i + 1]
    <3>1. /\ Tail(q) \in Seq(Answers) /\ Len(Tail(q)) = Len(q) - 1
          /\ \A i \in 1..Len(Tail(q)) : Tail(q)[i] = q[i + 1]
      BY <2>1, HeadTailProperties
    <3>2. Len(q) - 1 = 21
      BY <2>1
    <3>3. QED
      BY <3>1, <3>2
  <2> DEFINE v == Tail(q)
  <2>3. v \in [1..21 -> Answers]
    BY <2>2, LenProperties
  <2> HIDE DEF v
  <2>4. v = [i \in 1..21 |-> v[i]]
    BY <2>3
  <2>5. QED
    BY <2>2, <2>4 DEF v
<1>3. \A i \in 1..21 : q[i + 1] = IF i = 1 THEN STATUS ELSE DATA
  <2> SUFFICES ASSUME NEW i \in 1..21 PROVE q[i + 1] = IF i = 1 THEN STATUS ELSE DATA
    OBVIOUS
  <2>1. i + 1 \in 2..22 /\ (i + 1 = 2 <=> i = 1)
    OBVIOUS
  <2>2. QED
    BY <1>1, <2>1
<1>4. Tail(q) = Sample
  BY <1>2, <1>3 DEF Sample
<1>5. QED
  BY <1>4 DEF q

\* The ADC's decoder as Sync has it
InStep ==
    \/ wire = IdleWire
    \/ Sent = 1 /\ step \in RegSteps /\ wire.st \in {"wcount", "rcount"}
    \/ Sent = 2 /\ step \in RegSteps /\ wire.st \in {"wdata", "rdata"} /\ wire.n = 1

LEMMA PutInStep ==
    ASSUME LinkInv, InStep, NEW g \in BOOLEAN, Put(g)
    PROVE  InStep'
<1>1. TimerInv /\ Control /\ Typed
  BY DEF LinkInv
<1>2. Sending /\ ~Judging /\ awaiting = FALSE /\ awaiting' = TRUE /\ step' = step /\ pos' = pos
  BY <1>1, PutFacts DEF Put
<1>3. wire' = Decoded(wire, NextByte) /\ wire \in Wires
  BY <1>1, PutFacts DEF Typed
<1>4. Sent = pos - 1 /\ Sent' = pos /\ pos \in 1..3
  BY <1>1, <1>2, SentFacts, NextByteFacts DEF Sent
<1> DEFINE b == NextByte
<1>5. /\ step \in RegSteps \/ step = RestartStep
      /\ step = RestartStep => b \in {8, 10}
      /\ step \in RegSteps =>
            /\ pos = 1 => b = RegOf(step) + (IF phase = "write" THEN 64 ELSE 32)
            /\ pos = 2 => b = 0
            /\ pos = 3 => b \in {0, 129} \cup 208..214
  BY <1>1, <1>2, NextByteFacts
<1> HIDE DEF b
<1>6. wire' = Decoded(wire, b)
  BY <1>3 DEF b
<1>7. CASE wire = IdleWire
  <2>1. wire' = Opcode(b)
    BY <1>6, <1>7, IdleFacts DEF Decoded
  <2>2. CASE step \in RegSteps /\ pos = 1
    <3> DEFINE r == RegOf(step)
    <3>1. r \in 1..12 /\ (b = 64 + r \/ b = 32 + r)
      <4>1. r \in 1..12
        BY <2>2, RegFacts
      <4> HIDE DEF r
      <4>2. b = r + (IF phase = "write" THEN 64 ELSE 32)
        BY <1>5, <2>2 DEF r
      <4>3. QED
        BY <4>1, <4>2
    <3> HIDE DEF r
    <3>2. Opcode(b).st \in {"wcount", "rcount"}
      BY <3>1, Opcodes
    <3>3. QED
      BY <1>2, <1>4, <2>1, <2>2, <3>2 DEF InStep
  <2>3. CASE ~(step \in RegSteps /\ pos = 1)
    <3>1. b \in {0, 129, 8, 10} \cup 208..214
      BY <1>4, <1>5, <2>3
    <3>2. wire' = IdleWire
      BY <2>1, <3>1, Opcodes
    <3>3. QED
      BY <3>2 DEF InStep
  <2>4. QED
    BY <2>2, <2>3
<1>8. CASE Sent = 1 /\ step \in RegSteps /\ wire.st \in {"wcount", "rcount"}
  <2>1. pos = 2 /\ b = 0 /\ (b % 32) + 1 = 1
    BY <1>4, <1>5, <1>8
  <2>2. wire'.st \in {"wdata", "rdata"} /\ wire'.n = (b % 32) + 1
    BY <1>6, <1>8 DEF Decoded
  <2>3. QED
    BY <1>2, <1>4, <1>8, <2>1, <2>2 DEF InStep
<1>9. CASE Sent = 2 /\ step \in RegSteps /\ wire.st \in {"wdata", "rdata"} /\ wire.n = 1
  <2>1. wire' = Further(wire)
    BY <1>6, <1>9 DEF Decoded
  <2>2. wire' = IdleWire
    BY <1>9, <2>1 DEF Further
  <2>3. QED
    BY <2>2 DEF InStep
<1>10. QED
  BY <1>7, <1>8, <1>9 DEF InStep

LEMMA GetInStep ==
    ASSUME LinkInv, InStep, Get
    PROVE  InStep'
<1>1. TimerInv /\ Control /\ Typed
  BY DEF LinkInv
<1>2. awaiting = TRUE /\ awaiting' = FALSE /\ pos \in 1..3 /\ wire' = wire
  BY <1>1, GetFacts DEF Get
<1>3. CASE wire = IdleWire
  BY <1>2, <1>3 DEF InStep
<1>4. CASE step \in RegSteps /\ Sent \in {1, 2}
  <2>1. Sent = pos /\ step # RestartStep /\ pos # 3
    BY <1>1, <1>2, <1>4, SentFacts, RegFacts
  <2>2. step' = step /\ phase' = phase /\ pos' = pos + 1
    BY <2>1 DEF Get
  <2>3. pos' # 4 /\ pos' - 1 = pos
    BY <1>2, <2>1, <2>2
  <2>4. Sent' = Sent
    BY <1>2, <2>1, <2>3 DEF Sent, Judging
  <2>5. QED
    BY <1>2, <2>2, <2>4 DEF InStep
<1>5. QED
  BY <1>3, <1>4 DEF InStep

LEMMA SyncNext == LinkInv /\ Sync /\ [Next]_vars => Sync'
<1> SUFFICES ASSUME LinkInv, Sync, [Next]_vars, ~split' PROVE InStep' /\ aligned'
  BY DEF Sync, InStep
<1>1. TimerInv /\ Control /\ Typed
  BY DEF LinkInv
<1>2. ASSUME ~split PROVE InStep /\ aligned /\ wire \in InPhase /\ (Sent = 0 => wire = IdleWire)
  <2>1. InStep /\ aligned
    BY <1>2 DEF Sync, InStep
  <2>2. wire \in Wires
    BY <1>1 DEF Typed
  <2>3. QED
    BY <2>1, <2>2, IdleFacts DEF InStep, InPhase
<1>3. CASE UNCHANGED vars
  <2>1. ~split /\ UNCHANGED <<wire, Sent, step, aligned>>
    BY <1>3 DEF vars, chip, writer, ghosts, Sent, Judging
  <2>2. QED
    BY <1>2, <2>1 DEF InStep
<1>4. ASSUME NEW g \in BOOLEAN, Put(g) PROVE InStep' /\ aligned'
  <2>1. ~split /\ aligned' = aligned
    BY <1>4 DEF Put
  <2>2. QED
    BY <1>2, <1>4, <2>1, PutInStep
<1>5. CASE Get
  <2>1. ~split /\ aligned' = aligned
    BY <1>5 DEF Get, ghosts
  <2>2. QED
    BY <1>2, <1>5, <2>1, GetInStep
<1>6. ASSUME Sent = 0, UNCHANGED <<wire, aligned, split>> PROVE InStep' /\ aligned'
  BY <1>2, <1>6 DEF InStep
<1>7. CASE Accept
  BY <1>1, <1>6, <1>7, SentFacts DEF Accept, chip
<1>8. CASE Retry
  BY <1>1, <1>6, <1>8, SentFacts DEF Retry, chip
<1>9. CASE GiveUp
  BY <1>1, <1>6, <1>9, SentFacts DEF GiveUp, chip
<1>10. CASE Reconfigure
  <2>1. step \notin RegSteps /\ step # RestartStep
    BY <1>10, RegFacts DEF Reconfigure, TimerStep
  <2>2. QED
    BY <1>1, <1>6, <1>10, <2>1, SentFacts DEF Reconfigure, chip
<1>11. ASSUME NEW s \in Sets, NEW who \in {"main", "usb"}, Begin(s, who) PROVE InStep' /\ aligned'
  <2>1. step \notin RegSteps /\ step # RestartStep
    BY <1>11, RegFacts DEF Begin
  <2>2. QED
    BY <1>1, <1>6, <1>11, <2>1, SentFacts DEF Begin, chip
<1>12. ASSUME NEW n \in Attempts, DrdyIsr(n) PROVE InStep' /\ aligned'
  <2> DEFINE t == ReadAdc(Chip, n)
  <2>1. /\ Becomes(t.chip) /\ split' = split
        /\ aligned' = (aligned /\ (Amid(FALSE) \/ Tail(t.taken) = Sample))
    BY <1>12 DEF DrdyIsr
  <2>2. aligned /\ wire \in InPhase /\ (Sent = 0 => wire = IdleWire)
    BY <1>2, <2>1
  <2>3. n \in 1..4 /\ Chip \in Chips /\ Chip.wire = wire
    BY <1>1, HandlerFacts, ChipType
  <2>4. t.chip.wire = IdleWire /\ t \in Results
    BY <2>2, <2>3, ReadAdcFacts
  <2>5. ~Amid(FALSE) => Tail(t.taken) = Sample
    <3> SUFFICES ASSUME ~Amid(FALSE) PROVE Tail(t.taken) = Sample
      OBVIOUS
    <3>1. awaiting = FALSE /\ wire = IdleWire
      BY <1>1, <2>2, SentFacts
    <3>2. Chip.rx = <<>> /\ Chip.wire = IdleWire
      BY <1>1, <3>1, NothingWaits
    <3>3. Sampled(Chip, t)
      BY <2>3, <3>2, ReadAdcFacts
    <3> HIDE DEF t
    <3>4. QED
      BY <2>4, <3>3, SampledTail
  <2> HIDE DEF t
  <2>6. wire' = IdleWire
    BY <2>1, <2>4 DEF Becomes
  <2>7. QED
    BY <2>1, <2>2, <2>5, <2>6 DEF InStep
<1>13. ASSUME NEW r \in ReadRegs, RregIsr(r) PROVE InStep' /\ aligned'
  <2> DEFINE t == Transfer(Chip, RregBytes(r))
  <2>1. /\ r <= CONFIG4_REG /\ Becomes(t.chip)
        /\ aligned' = (aligned /\ (Amid(TRUE) \/ t.taken[3] = regs[r]))
        /\ split' = (split \/ Amid(FALSE))
    BY <1>13 DEF RregIsr, RregBytes
  <2>2. ~split /\ ~Amid(FALSE)
    BY <2>1
  <2>3. aligned /\ awaiting = FALSE /\ wire = IdleWire
    BY <1>1, <1>2, <2>2, SentFacts
  <2>4. Chip \in Chips /\ Chip.wire = IdleWire /\ Chip.rx = <<>> /\ Chip.regs = regs
    BY <1>1, <2>3, NothingWaits
  <2>5. r \in 0..CONFIG4_REG
    BY <1>1, <2>1, HandlerFacts
  <2>6. t.chip.wire = IdleWire /\ t.taken[3] = regs[r]
    BY <2>4, <2>5, RregFacts
  <2> HIDE DEF t
  <2>7. wire' = IdleWire
    BY <2>1, <2>6 DEF Becomes
  <2>8. QED
    BY <2>1, <2>3, <2>6, <2>7 DEF InStep
<1>14. ASSUME NEW s \in Sets, RmIsr(s) PROVE InStep' /\ aligned'
  <2>1. ~split /\ UNCHANGED <<wire, Sent, step, aligned>>
    BY <1>14 DEF RmIsr, chip, writer, ghosts, Sent, Judging
  <2>2. QED
    BY <1>2, <2>1 DEF InStep
<1>15. ASSUME NEW n \in 1..4, StartIsr(n) PROVE InStep' /\ aligned'
  <2> DEFINE t == Restart(n)
             v == ValueOf(1, head)
  <2>1. /\ Becomes(t.chip)
        /\ aligned' = (aligned /\ (Amid(TRUE) \/ t.taken[6] = v))
        /\ split' = (split \/ Amid(FALSE))
    BY <1>15 DEF StartIsr, Restart
  <2>2. ~split /\ ~Amid(FALSE)
    BY <2>1
  <2>3. aligned /\ awaiting = FALSE /\ wire = IdleWire
    BY <1>1, <1>2, <2>2, SentFacts
  <2>4. Wrote(Chip, CONFIG1_REG, v, t)
    BY <1>1, <2>3, RestartIdle
  <2> HIDE DEF t
  <2>5. t.chip.wire = IdleWire /\ t.taken[6] = v
    BY <2>4 DEF Wrote
  <2>6. wire' = IdleWire
    BY <2>1, <2>5 DEF Becomes
  <2>7. QED
    BY <2>1, <2>3, <2>5, <2>6 DEF InStep
<1>16. QED
  BY <1>3, <1>4, <1>5, <1>7, <1>8, <1>9, <1>10, <1>11, <1>12, <1>13, <1>14, <1>15 DEF Next, Main

LEMMA SyncInit == Init => Sync
  BY DEF Init, Sync

\* However many samples the DRDY handler reads inside the main loop's transfers, a
\* handler's own read that comes between them returns a whole sample or the register
\* asked for: readADC's 22 bytes outlast whatever they were taken for.
THEOREM ReadsStayAligned == Spec => []ReadsAligned
<1>1. LinkInv /\ Sync /\ [Next]_vars => (LinkInv /\ Sync)'
  BY LinkInvNext, SyncNext
<1>2. Sync => ReadsAligned
  BY DEF Sync, ReadsAligned
<1>3. QED
  BY <1>1, <1>2, LinkInvInit, SyncInit, PTL DEF Spec

----------------------------------------------------------------------------
(* The registers, until a handler comes inside a transfer *)

LEMMA WantedFacts ==
    ASSUME LinkInv, step \in RegSteps
    PROVE  /\ RegOf(step) \in 1..12 /\ RegOf(step) \in DOMAIN regs
           /\ Wanted \in 0..214 /\ Wanted # GARBLED
<1>1. RegOf(step) \in 1..12 /\ RegOf(step) \in 0..CONFIG4_REG
  BY RegFacts
<1>2. DOMAIN regs = 0..CONFIG4_REG
  BY DEF LinkInv, Typed, RegFile
<1> DEFINE v == Wanted
<1>3. v \in {0, 129} \cup 208..214
  BY LoadedValues DEF LinkInv, Wanted
<1> HIDE DEF v
<1>4. v \in 0..214 /\ v # 255
  BY <1>3
<1>5. QED
  BY <1>1, <1>2, <1>4 DEF GARBLED, v

\* The switch goes on from a register it is done with.
LEMMA ProceedFacts ==
    ASSUME LinkInv, Proceed, Judging \/ step = TimerStep, by' = by, awaiting' = awaiting
    PROVE  /\ Sent' = 0
           /\ step' = IF step = TimerStep /\ by = "usb" THEN 0 ELSE step + 1
           /\ \A k \in Passed' : k \in Passed \/ k = step
           /\ (UNCHANGED wire /\ wire = IdleWire => Follows')
           /\ Written' /\ Returned' /\ Noisy'
<1>1. TimerInv /\ Control
  BY DEF LinkInv
<1>2. awaiting = FALSE /\ step # 0 /\ by # "none" /\ step \in 1..RestartStep /\ step # RestartStep
      /\ by \in {"main", "usb"} /\ RestartStep \in 4..11
  BY <1>1, RegFacts DEF Judging, Control, Sending, TimerInv, TimerStep
<1>3. phase' = "write" /\ pos' = 1 /\ attempts' = 0 /\ hit' = FALSE /\ noise' = 0
      /\ step' = IF step = LastStep THEN 0 ELSE step + 1
  BY DEF Proceed
<1>4. Sent' = 0
  BY <1>2, <1>3 DEF Sent, Judging
<1>5. step = LastStep <=> step = TimerStep /\ by = "usb"
  BY <1>2, RegFacts DEF LastStep
<1>6. step' = IF step = TimerStep /\ by = "usb" THEN 0 ELSE step + 1
  BY <1>3, <1>5
<1>7. ASSUME NEW k \in Passed' PROVE k \in Passed \/ k = step
  <2>1. k \in RegSteps /\ k <= LastStep /\ (step' = 0 \/ k < step')
    BY <1>7 DEF Passed, LastStep
  <2>2. k \in 1..(RestartStep - 1) /\ k # TimerStep
    BY <2>1, RegFacts
  <2>3. CASE step = TimerStep /\ by = "usb"
    <3>1. k < step
      BY <2>1, <2>2, <2>3 DEF LastStep, TimerStep
    <3>2. QED
      BY <1>2, <2>1, <3>1 DEF Passed
  <2>4. CASE ~(step = TimerStep /\ by = "usb")
    <3>1. k < step + 1
      BY <1>2, <1>6, <2>1, <2>4
    <3>2. k < step \/ k = step
      BY <1>2, <2>2, <3>1
    <3>3. QED
      BY <1>2, <2>1, <3>2 DEF Passed
  <2>5. QED
    BY <2>3, <2>4
<1>8. UNCHANGED wire /\ wire = IdleWire => Follows'
  BY <1>4 DEF Follows
<1>9. Written' /\ Returned'
  BY <1>3, <1>4 DEF Written, Returned
<1>10. Noisy'
  BY <1>3 DEF Noisy
<1>11. QED
  BY <1>4, <1>6, <1>7, <1>8, <1>9, <1>10

\* What has come back decides between the value and a garbled byte.
LEMMA JudgingFacts ==
    ASSUME LinkInv, InTune, Judging
    PROVE  /\ step \in RegSteps /\ wire = IdleWire
           /\ Kept => /\ Verified => Here = Wanted
                      /\ Refuted => hit
<1>1. step \in RegSteps /\ phase = "read" /\ pos = 4
  BY DEF Judging
<1>2. Sent = 0
  BY SentFacts DEF LinkInv
<1>3. wire = IdleWire
  BY <1>2 DEF InTune, Follows
<1>4. ASSUME Kept PROVE (Verified => Here = Wanted) /\ (Refuted => hit)
  <2>1. Faithful(rx_buf) /\ (Here = Wanted \/ (hit /\ Here = GARBLED))
    BY <1>1, <1>4 DEF Kept, Returned, Written
  <2>2. Wanted \in 0..214 /\ Wanted # GARBLED
    BY <1>1, WantedFacts
  <2>3. rx_buf = Wanted \/ (hit /\ rx_buf = GARBLED)
    BY <2>1 DEF Faithful
  <2>4. Verified => rx_buf = Wanted
    BY <2>2, <2>3 DEF Verified, Wanted, JUNK, STATUS, DATA, GARBLED
  <2>5. Verified => Here = Wanted
    BY <2>1, <2>2, <2>4 DEF Faithful
  <2>6. Refuted => hit
    BY <2>3 DEF Refuted, Wanted
  <2>7. QED
    BY <2>5, <2>6
<1>5. QED
  BY <1>1, <1>3, <1>4

\* A byte writes the register the switch is at, with the value wanted or garbled, or
\* none.
LEMMA PutStores ==
    ASSUME LinkInv, InTune, NEW g \in BOOLEAN, Put(g)
    PROVE  /\ regs' = IF step \in RegSteps /\ phase = "write" /\ pos = 3
                      THEN [regs EXCEPT ![RegOf(step)] = IF g THEN GARBLED ELSE Wanted]
                      ELSE regs
           /\ step \in RegSteps /\ phase = "read" /\ pos = 3 =>
                 rx'[1] = IF g THEN GARBLED ELSE Here
           /\ g => step \in RegSteps /\ pos = 3 /\ ~hit
           /\ Follows'
<1>1. TimerInv /\ Control /\ Typed
  BY DEF LinkInv
<1>2. /\ Sending /\ ~Judging /\ awaiting = FALSE /\ awaiting' = TRUE
      /\ step' = step /\ pos' = pos /\ phase' = phase
      /\ g => wire.st \in {"wdata", "rdata"} /\ ~hit
  BY <1>1, PutFacts DEF Put
<1> DEFINE b == NextByte
<1>3. /\ wire' = Decoded(wire, b)
      /\ regs' = Stored(Chip, b, g)
      /\ rx'[1] = Answer(Chip, g)
  BY <1>1, PutFacts
<1>4. Sent = pos - 1 /\ Sent' = pos /\ pos \in 1..3 /\ phase \in {"write", "read"}
  BY <1>1, <1>2, SentFacts, NextByteFacts DEF Sent, Control
<1>5. /\ step \in RegSteps \/ step = RestartStep
      /\ step = RestartStep => b \in {8, 10}
      /\ step \in RegSteps =>
            /\ pos = 1 => b = RegOf(step) + (IF phase = "write" THEN 64 ELSE 32)
            /\ pos = 2 => b = 0
            /\ pos = 3 /\ phase = "write" => b = Wanted
  BY <1>1, <1>2, NextByteFacts
<1>6. wire = IF step \in RegSteps /\ Sent \in {1, 2}
             THEN [st |-> IF phase = "write" THEN IF Sent = 1 THEN "wcount" ELSE "wdata"
                          ELSE IF Sent = 1 THEN "rcount" ELSE "rdata",
                   reg |-> RegOf(step), n |-> Sent - 1]
             ELSE IdleWire
  BY DEF InTune, Follows
<1> HIDE DEF b
<1>7. Chip.wire = wire /\ Chip.regs = regs
  BY <1>1, ChipType
<1>8. wire.st # "wdata" => regs' = regs
  BY <1>3, <1>7 DEF Stored
<1>9. CASE wire = IdleWire
  <2>1. wire' = Opcode(b) /\ wire.st = "idle"
    BY <1>3, <1>9, IdleFacts DEF Decoded
  <2>2. ~g /\ regs' = regs
    BY <1>2, <1>8, <2>1
  <2>3. ~(step \in RegSteps /\ pos \in {2, 3})
    <3>1. CASE step \in RegSteps /\ pos \in {2, 3}
      <4>1. Sent \in {1, 2}
        BY <1>4, <3>1
      <4>2. wire.st # "idle"
        BY <1>6, <3>1, <4>1
      <4>3. QED
        BY <2>1, <4>2
    <3>2. QED
      BY <3>1
  <2>4. CASE step = RestartStep
    <3>1. wire' = IdleWire
      BY <1>5, <2>1, <2>4, Opcodes
    <3>2. QED
      BY <1>2, <2>2, <2>4, <3>1, RegFacts DEF Follows
  <2>5. CASE step \in RegSteps /\ pos = 1
    <3> DEFINE r == RegOf(step)
    <3>1. r \in 1..12
      BY <2>5, RegFacts
    <3>2. b = r + (IF phase = "write" THEN 64 ELSE 32)
      BY <1>5, <2>5
    <3> HIDE DEF r
    <3>3. wire' = [st |-> IF phase = "write" THEN "wcount" ELSE "rcount", reg |-> r, n |-> 0]
      <4>1. CASE phase = "write"
        <5>1. b = 64 + r
          BY <3>1, <3>2, <4>1
        <5>2. QED
          BY <2>1, <3>1, <4>1, <5>1, Opcodes
      <4>2. CASE phase # "write"
        <5>1. b = 32 + r
          BY <3>1, <3>2, <4>2
        <5>2. QED
          BY <2>1, <3>1, <4>2, <5>1, Opcodes
      <4>3. QED
        BY <4>1, <4>2
    <3>4. Follows'
      <4>1. Sent' = 1 /\ Sent' - 1 = 0
        BY <1>4, <2>5
      <4>2. QED
        BY <1>2, <2>5, <3>3, <4>1 DEF Follows, r
    <3>5. QED
      BY <2>2, <2>5, <3>4
  <2>6. QED
    BY <1>4, <1>5, <2>3, <2>4, <2>5
<1>10. CASE step \in RegSteps /\ Sent = 1
  <2>1. pos = 2 /\ b = 0 /\ (b % 32) + 1 = 1
    BY <1>4, <1>5, <1>10
  <2>2. wire = [st |-> IF phase = "write" THEN "wcount" ELSE "rcount", reg |-> RegOf(step), n |-> 0]
    BY <1>6, <1>10
  <2>3. ~g /\ regs' = regs
    BY <1>2, <1>8, <2>2
  <2>4. wire' = [st |-> IF phase = "write" THEN "wdata" ELSE "rdata", reg |-> RegOf(step), n |-> (b % 32) + 1]
    BY <1>3, <2>2 DEF Decoded
  <2>5. Follows'
    <3>1. Sent' = 2 /\ Sent' - 1 = 1
      BY <1>4, <2>1
    <3>2. QED
      BY <1>2, <1>10, <2>1, <2>4, <3>1 DEF Follows
  <2>6. QED
    BY <2>1, <2>3, <2>5
<1>11. CASE step \in RegSteps /\ Sent = 2
  <2>1. pos = 3
    BY <1>4, <1>11
  <2>2. wire = [st |-> IF phase = "write" THEN "wdata" ELSE "rdata", reg |-> RegOf(step), n |-> 1]
    BY <1>6, <1>11
  <2>3. RegOf(step) \in DOMAIN regs
    BY <1>11, WantedFacts
  <2>4. wire' = Further(wire)
    BY <1>3, <2>2 DEF Decoded
  <2>5. wire' = IdleWire
    BY <2>2, <2>4 DEF Further
  <2>6. Follows'
    BY <1>4, <2>1, <2>5 DEF Follows
  <2>7. CASE phase = "write"
    <3>1. wire.st = "wdata" /\ wire.reg = RegOf(step) /\ b = Wanted
      BY <1>5, <1>11, <2>1, <2>2, <2>7
    <3>2. regs' = [regs EXCEPT ![RegOf(step)] = IF g THEN GARBLED ELSE Wanted]
      BY <1>3, <1>7, <2>3, <3>1 DEF Stored
    <3>3. QED
      BY <1>2, <1>11, <2>1, <2>6, <2>7, <3>2
  <2>8. CASE phase = "read"
    <3>1. wire.st = "rdata" /\ wire.reg = RegOf(step)
      BY <2>2, <2>8
    <3>2. rx'[1] = IF g THEN GARBLED ELSE Here
      BY <1>3, <1>7, <2>3, <3>1 DEF Answer, Here
    <3>3. QED
      BY <1>2, <1>8, <1>11, <2>1, <2>6, <2>8, <3>1, <3>2
  <2>9. QED
    BY <1>4, <2>7, <2>8
<1>12. QED
  BY <1>6, <1>9, <1>10, <1>11

LEMMA PutKeeps ==
    ASSUME LinkInv, InTune, NEW g \in BOOLEAN, Put(g)
    PROVE  InTune' /\ (Kept => Kept')
<1>1. TimerInv /\ Control /\ Typed
  BY DEF LinkInv
<1>2. /\ Sending /\ ~Judging /\ awaiting = FALSE /\ awaiting' = TRUE
      /\ hit' = (hit \/ g)
      /\ noise' = IF g /\ noise < 4 THEN noise + 1 ELSE noise
      /\ UNCHANGED <<by, target, step, pos, phase, attempts, rx_buf, failed>>
  BY <1>1, PutFacts DEF Put, queued
<1>3. Sent' = pos /\ pos \in 1..3 /\ Wanted' = Wanted /\ Passed' = Passed
  BY <1>1, <1>2, NextByteFacts DEF Sent, Wanted, Passed, LastStep
<1>4. /\ regs' = IF step \in RegSteps /\ phase = "write" /\ pos = 3
                 THEN [regs EXCEPT ![RegOf(step)] = IF g THEN GARBLED ELSE Wanted]
                 ELSE regs
      /\ step \in RegSteps /\ phase = "read" /\ pos = 3 =>
            rx'[1] = IF g THEN GARBLED ELSE Here
      /\ g => step \in RegSteps /\ pos = 3 /\ ~hit
      /\ Follows'
  BY PutStores
<1>5. step \in RegSteps => RegOf(step) \in DOMAIN regs
  BY WantedFacts
<1>6. ASSUME Kept PROVE Written'
  <2> SUFFICES ASSUME step \in RegSteps, phase = "read" \/ pos = 3
               PROVE  Here' = Wanted \/ (hit' /\ Here' = GARBLED)
    BY <1>2, <1>3 DEF Written
  <2>1. CASE phase = "write" /\ pos = 3
    <3>1. Here' = IF g THEN GARBLED ELSE Wanted
      BY <1>2, <1>4, <1>5, <2>1 DEF Here
    <3>2. QED
      BY <1>2, <3>1
  <2>2. CASE phase = "read"
    <3>1. Here' = Here
      BY <1>2, <1>4, <2>2 DEF Here
    <3>2. Here = Wanted \/ (hit /\ Here = GARBLED)
      BY <1>6, <2>2 DEF Kept, Written
    <3>3. QED
      BY <1>2, <3>1, <3>2
  <2>3. QED
    BY <1>1, <2>1, <2>2 DEF Control
<1>7. ASSUME Kept PROVE Returned'
  <2> SUFFICES ASSUME step \in RegSteps, phase = "read", pos = 3
               PROVE  Faithful(rx[1])'
    BY <1>2, <1>3 DEF Returned
  <2>1. Here' = Here /\ rx'[1] = IF g THEN GARBLED ELSE Here
    BY <1>2, <1>4 DEF Here
  <2>2. Here = Wanted \/ (hit /\ Here = GARBLED)
    BY <1>7 DEF Kept, Written
  <2>3. QED
    BY <1>2, <1>3, <1>4, <2>1, <2>2 DEF Faithful
<1>8. ASSUME Kept PROVE Noisy'
  <2>1. step \in RegSteps => noise = attempts + (IF hit THEN 1 ELSE 0)
    BY <1>8 DEF Kept, Noisy
  <2>2. step \notin RegSteps => ~hit /\ noise = 0
    BY <1>8 DEF Kept, Noisy
  <2>3. attempts \in 0..3
    BY <1>1 DEF Control
  <2>4. CASE g
    <3>1. step \in RegSteps /\ ~hit /\ hit'
      BY <1>2, <1>4, <2>4
    <3>2. noise = attempts
      BY <2>1, <2>3, <3>1
    <3>3. noise' = attempts' + 1
      BY <1>2, <2>3, <2>4, <3>2
    <3>4. QED
      BY <1>2, <3>1, <3>3 DEF Noisy
  <2>5. CASE ~g
    <3>1. (hit' <=> hit) /\ noise' = noise
      BY <1>2, <2>5
    <3>2. QED
      BY <1>2, <2>1, <2>2, <3>1 DEF Noisy
  <2>6. QED
    BY <2>4, <2>5
<1>9. DOMAIN regs' = DOMAIN regs
      /\ \A r \in DOMAIN regs : step \notin RegSteps \/ r # RegOf(step) => regs'[r] = regs[r]
  BY <1>4
<1>10. ASSUME Kept PROVE Settled'
  <2> SUFFICES ASSUME NEW k \in Passed
               PROVE  regs'[RegOf(k)] = ValueOf(k, target) \/ RegOf(k) \in failed
    BY <1>2, <1>3 DEF Settled
  <2>1. k \in RegSteps /\ k < step /\ step # k
    BY <1>1, <1>2, RegFacts DEF Passed, Sending, TimerInv
  <2>2. RegOf(k) \in DOMAIN regs
    BY <1>1, <2>1, RegFacts DEF Typed, RegFile
  <2>3. step \notin RegSteps \/ RegOf(k) # RegOf(step)
    BY <2>1, RegFacts
  <2>4. QED
    BY <1>9, <1>10, <2>2, <2>3 DEF Kept, Settled
<1>11. Untouched'
  <2> SUFFICES ASSUME NEW r \in DOMAIN regs, \A k \in RegSteps : r # RegOf(k)
               PROVE  regs'[r] = InitialRegs[r]
    BY <1>9 DEF Untouched
  <2>1. QED
    BY <1>9 DEF InTune, Untouched
<1>12. QED
  BY <1>4, <1>6, <1>7, <1>8, <1>10, <1>11 DEF InTune, Kept

LEMMA GetKeeps ==
    ASSUME LinkInv, InTune, Get
    PROVE  InTune' /\ (Kept => Kept')
<1>1. TimerInv /\ Control /\ Typed
  BY DEF LinkInv
<1>2. /\ awaiting = TRUE /\ awaiting' = FALSE /\ pos \in 1..3
      /\ rx_buf' = IF pos = 3 THEN rx[1] ELSE rx_buf
      /\ UNCHANGED <<regs, wire, by, target, attempts, hit, noise, failed>>
  BY <1>1, GetFacts DEF Get, ghosts, queued
<1>3. Sent = pos /\ Sending /\ step \in 0..RestartStep /\ step # 0 /\ (by = "usb" => step <= TimerStep)
  BY <1>1, <1>2, SentFacts DEF Control, TimerInv, Sending
<1>4. Follows /\ Untouched
  BY DEF InTune
<1>5. Untouched'
  BY <1>2, <1>4 DEF Untouched
<1>6. ASSUME step' = step PROVE (Kept => Settled' /\ Noisy') /\ (UNCHANGED <<Here, Wanted>>)
  BY <1>2, <1>6 DEF Kept, Settled, Passed, LastStep, Noisy, Here, Wanted
<1>7. CASE step = RestartStep /\ pos = 2
  <2>1. step' = 0 /\ pos' = 1 /\ step \notin RegSteps /\ 0 \notin RegSteps
    BY <1>7, RegFacts DEF Get
  <2>2. wire = IdleWire
    BY <1>4, <2>1 DEF Follows
  <2>3. Follows' /\ Written' /\ Returned' /\ (Kept => Noisy')
    BY <1>2, <2>1, <2>2 DEF Follows, Written, Returned, Noisy, Kept
  <2>4. ASSUME NEW k \in Passed' PROVE k \in Passed
    <3>1. k \in RegSteps /\ k <= LastStep /\ by # "none" /\ k < step
      BY <1>2, <1>7, <2>4, RegFacts DEF Passed, LastStep
    <3>2. QED
      BY <3>1 DEF Passed
  <2>5. Kept => Settled'
    BY <1>2, <2>4 DEF Kept, Settled
  <2>6. QED
    BY <1>5, <2>3, <2>5 DEF InTune, Kept
<1>8. CASE step # RestartStep /\ pos = 3 /\ phase = "write"
  <2>1. step' = step /\ pos' = 1 /\ phase' = "read"
    BY <1>8 DEF Get
  <2>2. Sent' = 0 /\ wire = IdleWire
    BY <1>2, <1>3, <1>4, <1>8, <2>1 DEF Sent, Judging, Follows
  <2>3. Follows'
    BY <1>2, <2>2 DEF Follows
  <2>4. Kept => Written'
    BY <1>2, <1>3, <1>6, <1>8, <2>1 DEF Kept, Written
  <2>5. Returned'
    BY <1>2, <2>1 DEF Returned
  <2>6. QED
    BY <1>5, <1>6, <2>1, <2>3, <2>4, <2>5 DEF InTune, Kept
<1>9. CASE ~(step = RestartStep /\ pos = 2) /\ ~(step # RestartStep /\ pos = 3 /\ phase = "write")
  <2>1. step' = step /\ pos' = pos + 1 /\ phase' = phase
    BY <1>9 DEF Get
  <2>2. /\ step \in RegSteps \/ (step = RestartStep /\ pos = 1)
        /\ pos = 3 => step \in RegSteps /\ phase = "read"
    BY <1>1, <1>2, <1>3, <1>9, RegFacts DEF Control, Sending
  <2>3. Sent' = IF pos = 3 THEN 0 ELSE Sent
    <3>1. CASE pos = 3
      BY <1>2, <2>1, <2>2, <3>1 DEF Sent, Judging
    <3>2. CASE pos # 3
      <4>1. pos' # 4 /\ pos' - 1 = pos
        BY <1>2, <2>1, <3>2
      <4>2. QED
        BY <1>2, <1>3, <3>2, <4>1 DEF Sent, Judging
    <3>3. QED
      BY <3>1, <3>2
  <2>4. Follows'
    <3>1. CASE pos = 3
      <4>1. wire = IdleWire
        BY <1>3, <1>4, <3>1 DEF Follows
      <4>2. QED
        BY <1>2, <2>3, <3>1, <4>1 DEF Follows
    <3>2. CASE pos # 3
      BY <1>2, <1>4, <2>1, <2>3, <3>2 DEF Follows
    <3>3. QED
      BY <3>1, <3>2
  <2>5. ASSUME Kept PROVE Written'
    <3> SUFFICES ASSUME step \in RegSteps, phase = "read" \/ Sent' = 3
                 PROVE  Here' = Wanted' \/ (hit' /\ Here' = GARBLED)
      BY <2>1 DEF Written
    <3>1. phase = "read"
      BY <1>2, <1>3, <2>3
    <3>2. QED
      BY <1>2, <1>6, <2>1, <2>5, <3>1 DEF Kept, Written
  <2>6. ASSUME Kept PROVE Returned'
    <3> SUFFICES ASSUME step \in RegSteps, phase = "read", pos' = 4
                 PROVE  Faithful(rx_buf)'
      BY <1>2, <2>1 DEF Returned
    <3>1. pos = 3
      BY <1>2, <2>1
    <3>2. Faithful(rx[1])
      BY <1>2, <2>6, <3>1 DEF Kept, Returned
    <3>3. rx_buf' = rx[1]
      BY <1>2, <3>1
    <3>4. QED
      BY <1>2, <1>6, <2>1, <3>2, <3>3 DEF Faithful
  <2>7. QED
    BY <1>5, <1>6, <2>1, <2>4, <2>5, <2>6 DEF InTune, Kept
<1>10. QED
  BY <1>7, <1>8, <1>9

LEMMA JudgedKeeps ==
    ASSUME LinkInv, InTune, Accept \/ Retry \/ GiveUp \/ Reconfigure
    PROVE  InTune' /\ (~moved /\ Kept => Kept')
<1>1. TimerInv /\ Control /\ Typed
  BY DEF LinkInv
<1>2. Follows /\ Untouched
  BY DEF InTune
<1>3. UNCHANGED <<chip, by, awaiting, rx_buf>> /\ (~moved => target' = target)
  BY <1>1, TimerInvReconfigure DEF Accept, Retry, GiveUp, Reconfigure, queued
<1>4. Untouched'
  BY <1>2, <1>3 DEF Untouched, chip
<1>5. ASSUME Proceed, Judging \/ step = TimerStep, wire = IdleWire,
             ~moved /\ Kept =>
                 /\ failed \subseteq failed'
                 /\ \A k \in Passed' : k = step => Here = Wanted \/ RegOf(step) \in failed'
      PROVE  InTune' /\ (~moved /\ Kept => Kept')
  <2>1. /\ \A k \in Passed' : k \in Passed \/ k = step
        /\ Follows' /\ Written' /\ Returned' /\ Noisy'
    BY <1>3, <1>5, ProceedFacts DEF chip
  <2>2. ASSUME ~moved, Kept, NEW k \in Passed'
        PROVE  regs'[RegOf(k)] = ValueOf(k, target') \/ RegOf(k) \in failed'
    <3>1. regs' = regs /\ target' = target
      BY <1>3, <2>2 DEF chip
    <3>2. CASE k \in Passed
      BY <1>5, <2>2, <3>1, <3>2 DEF Kept, Settled
    <3>3. CASE k = step
      BY <1>5, <2>2, <3>1, <3>3 DEF Here, Wanted
    <3>4. QED
      BY <2>1, <2>2, <3>2, <3>3
  <2>3. ~moved /\ Kept => Settled'
    BY <2>2 DEF Settled
  <2>4. QED
    BY <1>4, <2>1, <2>3 DEF InTune, Kept
<1>6. CASE Accept
  <2>1. Judging /\ Verified /\ Proceed /\ failed' = failed
    BY <1>6 DEF Accept
  <2>2. wire = IdleWire /\ (Kept => Here = Wanted)
    BY <2>1, JudgingFacts
  <2>3. QED
    BY <1>5, <2>1, <2>2
<1>7. CASE Retry
  <2>1. /\ Judging /\ Refuted /\ attempts' = attempts + 1
        /\ phase' = "write" /\ pos' = 1 /\ hit' = FALSE
        /\ UNCHANGED <<step, noise, failed, target>>
    BY <1>7 DEF Retry, Count, queued
  <2>2. step \in RegSteps /\ wire = IdleWire /\ (Kept => hit) /\ awaiting = FALSE
    BY <1>1, <2>1, JudgingFacts DEF Judging, Control
  <2>3. Sent' = 0
    BY <1>3, <2>1, <2>2 DEF Sent, Judging
  <2>4. Follows' /\ Written' /\ Returned'
    BY <1>3, <2>1, <2>2, <2>3 DEF Follows, Written, Returned, chip
  <2>5. ASSUME Kept PROVE Noisy'
    <3>1. noise = attempts + 1
      BY <2>2, <2>5 DEF Kept, Noisy
    <3>2. noise' = attempts' + 0
      BY <1>1, <2>1, <3>1 DEF Control
    <3>3. QED
      BY <2>1, <2>2, <3>2 DEF Noisy
  <2>6. Kept => Settled'
    BY <1>3, <2>1 DEF Kept, Settled, Passed, LastStep, chip
  <2>7. QED
    BY <1>4, <2>4, <2>5, <2>6 DEF InTune, Kept
<1>8. CASE GiveUp
  <2>1. /\ Judging /\ Refuted /\ ~(attempts < 3) /\ Proceed
        /\ failed' = IF noise >= 4 THEN failed \cup {RegOf(step)} ELSE failed
    BY <1>8 DEF GiveUp, MoreAttempts
  <2>2. step \in RegSteps /\ wire = IdleWire /\ (Kept => hit)
    BY <2>1, JudgingFacts
  <2>3. ASSUME Kept PROVE noise = 4
    <3>1. attempts = 3
      BY <1>1, <2>1 DEF Control
    <3>2. noise = attempts + 1
      BY <2>2, <2>3 DEF Kept, Noisy
    <3>3. QED
      BY <3>1, <3>2
  <2>4. Kept => failed' = failed \cup {RegOf(step)}
    BY <2>1, <2>3
  <2>5. QED
    BY <1>5, <2>1, <2>2, <2>4
<1>9. CASE Reconfigure
  <2>1. step = TimerStep /\ Proceed /\ failed' = failed
    BY <1>9 DEF Reconfigure
  <2>2. wire = IdleWire /\ step \notin RegSteps
    BY <1>2, <2>1, RegFacts DEF Follows
  <2>3. \A k \in Passed' : k # step
    BY <2>2 DEF Passed
  <2>4. QED
    BY <1>5, <2>1, <2>2, <2>3
<1>10. QED
  BY <1>6, <1>7, <1>8, <1>9

LEMMA BeginKeeps ==
    ASSUME LinkInv, InTune, NEW s, NEW who, Begin(s, who)
    PROVE  InTune' /\ Kept'
<1>1. /\ step = 0 /\ step' = 1 /\ phase' = "write" /\ pos' = 1 /\ attempts' = 0
      /\ hit' = FALSE /\ noise' = 0 /\ failed' = {}
      /\ UNCHANGED <<regs, wire, rx, awaiting, rx_buf>>
  BY DEF Begin, chip
<1>2. awaiting = FALSE /\ wire = IdleWire
  <2>1. step \notin RegSteps /\ step # RestartStep
    BY <1>1, RegFacts
  <2>2. awaiting = FALSE
    BY <2>1, SentFacts DEF LinkInv
  <2>3. wire = IdleWire
    BY <2>1 DEF InTune, Follows
  <2>4. QED
    BY <2>2, <2>3
<1>3. Sent' = 0
  BY <1>1, <1>2 DEF Sent, Judging
<1>4. Follows' /\ Written' /\ Returned' /\ Noisy'
  BY <1>1, <1>2, <1>3 DEF Follows, Written, Returned, Noisy
<1>5. \A k \in RegSteps : ~(k < 1)
  BY RegFacts
<1>6. Settled'
  BY <1>1, <1>5 DEF Settled, Passed
<1>7. Untouched'
  BY <1>1 DEF InTune, Untouched
<1>8. QED
  BY <1>4, <1>6, <1>7 DEF InTune, Kept

\* A handler that comes between transfers and writes no register leaves everything as
\* it found it.
LEMMA BetweenKeeps ==
    ASSUME LinkInv, InTune,
           awaiting = FALSE, wire' = wire, regs' = regs,
           rx_buf' = rx_buf \/ pos # 4,
           UNCHANGED <<by, target, step, phase, pos, awaiting, attempts, hit, noise, failed>>
    PROVE  InTune' /\ (Kept => Kept')
<1>1. UNCHANGED <<Sent, Here, Wanted, Passed>>
  BY DEF Sent, Judging, Here, Wanted, Passed, LastStep
<1>2. InTune'
  BY <1>1 DEF InTune, Follows, Untouched
<1>3. Kept => Written'
  BY <1>1 DEF Kept, Written
<1>4. Kept => Returned'
  BY <1>1 DEF Kept, Returned, Faithful
<1>5. Kept => Noisy' /\ Settled'
  BY <1>1 DEF Kept, Noisy, Settled
<1>6. QED
  BY <1>2, <1>3, <1>4, <1>5 DEF Kept

\* A START that comes between them writes the value the switch writes, unless an RM has
\* come.
LEMMA StartKeeps ==
    ASSUME LinkInv, InTune, NEW n \in 1..4, StartIsr(n), ~Amid(TRUE)
    PROVE  InTune' /\ (~moved /\ Kept => Kept')
<1>1. TimerInv /\ Control /\ Typed
  BY DEF LinkInv
<1> DEFINE t == Restart(n)
           v == ValueOf(1, head)
<1>2. /\ Becomes(t.chip)
      /\ UNCHANGED <<by, target, step, phase, pos, awaiting, attempts, hit, noise, failed>>
  BY DEF StartIsr, Restart, queued
<1>3. ~Amid(FALSE) /\ pos # 4
  BY <1>1 DEF Amid, Control, Judging
<1>4. awaiting = FALSE /\ Sent = 0
  BY <1>1, <1>3, SentFacts
<1>5. wire = IdleWire
  BY <1>4 DEF InTune, Follows
<1>6. Wrote(Chip, CONFIG1_REG, v, t) /\ Chip.regs = regs
  BY <1>1, <1>4, <1>5, NothingWaits, RestartIdle
<1> HIDE DEF t, v
<1>7. wire' = wire /\ regs' = [regs EXCEPT ![CONFIG1_REG] = v]
  BY <1>2, <1>5, <1>6 DEF Wrote, Becomes
<1>8. UNCHANGED <<Sent, Wanted, Passed>>
  BY <1>2 DEF Sent, Judging, Wanted, Passed, LastStep
<1>9. /\ regs \in [0..CONFIG4_REG -> 0..255] /\ 1 \in RegSteps /\ RegOf(1) = CONFIG1_REG
      /\ \A k \in RegSteps : RegOf(k) \in DOMAIN regs /\ (RegOf(k) = CONFIG1_REG => k = 1)
  BY <1>1, RegFacts DEF Typed, RegFile, RegSteps, RegOf
<1>10. DOMAIN regs' = DOMAIN regs /\ \A r \in DOMAIN regs : r # CONFIG1_REG => regs'[r] = regs[r]
  BY <1>7
<1>11. InTune'
  <2>1. Follows'
    BY <1>2, <1>7, <1>8 DEF InTune, Follows
  <2>2. Untouched'
    BY <1>9, <1>10 DEF InTune, Untouched
  <2>3. QED
    BY <2>1, <2>2 DEF InTune
<1>12. ASSUME ~moved, NEW k \in RegSteps
       PROVE  regs'[RegOf(k)] = IF k = 1 THEN ValueOf(k, target) ELSE regs[RegOf(k)]
  <2>1. target = head
    BY <1>1, <1>12 DEF TimerInv
  <2>2. QED
    BY <1>7, <1>9, <2>1 DEF v
<1>13. ASSUME ~moved, Kept PROVE Kept'
  <2>1. Written'
    <3> SUFFICES ASSUME step \in RegSteps, phase = "read"
                 PROVE  Here' = Wanted \/ (hit /\ Here' = GARBLED)
      BY <1>2, <1>4, <1>8 DEF Written
    <3>1. Here' = IF step = 1 THEN Wanted ELSE Here
      BY <1>2, <1>12, <1>13 DEF Here, Wanted
    <3>2. QED
      BY <1>13, <3>1 DEF Kept, Written
  <2>2. Returned'
    BY <1>2, <1>3, <1>4 DEF Returned
  <2>3. Noisy'
    BY <1>2, <1>13 DEF Kept, Noisy
  <2>4. Settled'
    <3> SUFFICES ASSUME NEW k \in Passed
                 PROVE  regs'[RegOf(k)] = ValueOf(k, target) \/ RegOf(k) \in failed
      BY <1>2, <1>8 DEF Settled
    <3>1. k \in RegSteps
      BY DEF Passed
    <3>2. QED
      BY <1>12, <1>13, <3>1 DEF Kept, Settled
  <2>5. QED
    BY <2>1, <2>2, <2>3, <2>4 DEF Kept
<1>14. QED
  BY <1>11, <1>13

LEMMA ExactNext == LinkInv /\ Exact /\ [Next]_vars => Exact'
<1> SUFFICES ASSUME LinkInv, Exact, [Next]_vars, inside' = 0 PROVE InTune' /\ (~moved' => Kept')
  BY DEF Exact
<1> DEFINE Goal == InTune' /\ (~moved' => Kept')
<1>1. TimerInv /\ Control /\ Typed /\ inside \in Nat
  BY BoundsAssumption DEF LinkInv, Typed
<1>2. ASSUME UNCHANGED inside PROVE InTune /\ (~moved => Kept)
  BY <1>2 DEF Exact
<1>3. CASE UNCHANGED vars
  <2>1. InTune /\ (~moved => Kept) /\ moved' = moved
    BY <1>2, <1>3 DEF vars, ghosts, queued
  <2>2. UNCHANGED <<Sent, Here, Wanted, Passed, Judging>>
    BY <1>3 DEF vars, chip, writer, queued, ghosts, Sent, Judging, Here, Wanted, Passed, LastStep
  <2>3. QED
    BY <1>3, <2>1, <2>2 DEF vars, chip, writer, queued, ghosts, InTune, Kept, Follows, Written, Returned,
       Faithful, Noisy, Settled, Untouched
<1>4. ASSUME NEW g \in BOOLEAN, Put(g) PROVE Goal
  <2>1. UNCHANGED <<inside, moved>>
    BY <1>4 DEF Put, queued
  <2>2. QED
    BY <1>2, <1>4, <2>1, PutKeeps
<1>5. CASE Get
  <2>1. UNCHANGED <<inside, moved>>
    BY <1>5 DEF Get, ghosts, queued
  <2>2. QED
    BY <1>2, <1>5, <2>1, GetKeeps
<1>6. CASE Accept \/ Retry \/ GiveUp \/ Reconfigure
  <2>1. UNCHANGED <<inside, moved>>
    BY <1>6 DEF Accept, Retry, GiveUp, Reconfigure, queued
  <2>2. QED
    BY <1>2, <1>6, <2>1, JudgedKeeps
<1>7. ASSUME NEW s \in Sets, NEW who \in {"main", "usb"}, Begin(s, who) PROVE Goal
  <2>1. UNCHANGED inside
    BY <1>7 DEF Begin
  <2>2. QED
    BY <1>2, <1>7, <2>1, BeginKeeps
<1>8. ASSUME NEW a, Mark(a) PROVE ~a /\ UNCHANGED inside
  BY <1>1, <1>8 DEF Mark
<1>9. ASSUME NEW n \in Attempts, DrdyIsr(n) PROVE Goal
  <2> DEFINE t == ReadAdc(Chip, n)
  <2>1. Mark(Amid(FALSE)) /\ Becomes(t.chip) /\ UNCHANGED <<writer, queued, hit, noise, failed>>
    BY <1>9 DEF DrdyIsr
  <2>2. ~Amid(FALSE) /\ InTune /\ (~moved => Kept)
    BY <1>2, <1>8, <2>1
  <2>3. awaiting = FALSE /\ Sent = 0
    BY <1>1, <2>2, SentFacts
  <2>4. wire = IdleWire
    BY <2>2, <2>3 DEF InTune, Follows
  <2>5. Chip.rx = <<>> /\ Chip \in Chips /\ Chip.wire = IdleWire /\ Chip.regs = regs
    BY <1>1, <2>3, <2>4, NothingWaits
  <2>6. n \in 1..4
    BY <1>1, HandlerFacts
  <2>7. Sampled(Chip, t)
    BY <2>5, <2>6, ReadAdcFacts
  <2> HIDE DEF t
  <2>8. wire' = wire /\ regs' = regs
    BY <2>1, <2>4, <2>5, <2>7 DEF Sampled, Becomes
  <2>9. QED
    BY <2>1, <2>2, <2>3, <2>8, BetweenKeeps DEF writer, queued
<1>10. ASSUME NEW r \in ReadRegs, RregIsr(r) PROVE Goal
  <2> DEFINE t == Transfer(Chip, RregBytes(r))
  <2>1. /\ Mark(Amid(TRUE)) /\ Becomes(t.chip) /\ r <= CONFIG4_REG
        /\ UNCHANGED <<by, queued, step, phase, pos, awaiting, attempts, hit, noise, failed>>
    BY <1>10 DEF RregIsr, RregBytes
  <2>2. ~Amid(TRUE) /\ InTune /\ (~moved => Kept)
    BY <1>2, <1>8, <2>1
  <2>3. ~Amid(FALSE) /\ pos # 4
    BY <1>1, <2>2 DEF Amid, Control, Judging
  <2>4. awaiting = FALSE /\ Sent = 0
    BY <1>1, <2>3, SentFacts
  <2>5. wire = IdleWire
    BY <2>2, <2>4 DEF InTune, Follows
  <2>6. Chip \in Chips /\ Chip.wire = IdleWire /\ Chip.regs = regs
    BY <1>1, <2>4, <2>5, NothingWaits
  <2>7. r \in 0..CONFIG4_REG
    BY <1>1, <2>1, HandlerFacts
  <2>8. t.chip.wire = IdleWire /\ t.chip.regs = regs
    BY <2>6, <2>7, RregFacts
  <2> HIDE DEF t
  <2>9. wire' = wire /\ regs' = regs
    BY <2>1, <2>5, <2>8 DEF Becomes
  <2>10. QED
    BY <2>1, <2>2, <2>3, <2>4, <2>9, BetweenKeeps DEF queued
<1>11. ASSUME NEW s \in Sets, RmIsr(s) PROVE Goal
  <2>1. moved' = TRUE /\ UNCHANGED <<inside, wire, regs, by, step, phase, pos, awaiting, target>>
    BY <1>11 DEF RmIsr, chip, writer, ghosts
  <2>2. InTune /\ UNCHANGED Sent
    BY <1>2, <2>1 DEF Sent, Judging
  <2>3. InTune'
    BY <2>1, <2>2 DEF InTune, Follows, Untouched
  <2>4. QED
    BY <2>1, <2>3
<1>12. ASSUME NEW n \in 1..4, StartIsr(n) PROVE Goal
  <2>1. Mark(Amid(TRUE)) /\ moved' = moved
    BY <1>12 DEF StartIsr, queued
  <2>2. ~Amid(TRUE) /\ InTune /\ (~moved => Kept)
    BY <1>2, <1>8, <2>1
  <2>3. QED
    BY <1>12, <2>1, <2>2, StartKeeps
<1>13. QED
  BY <1>3, <1>4, <1>5, <1>6, <1>7, <1>9, <1>10, <1>11, <1>12 DEF Next, Main

LEMMA ExactInit == Init => Exact
<1> SUFFICES ASSUME Init PROVE InTune /\ Kept
  BY DEF Exact
<1>1. /\ regs = InitialRegs /\ wire = IdleWire /\ by = "none" /\ step = 0
      /\ phase = "write" /\ pos = 1 /\ ~awaiting /\ ~hit /\ noise = 0
  BY DEF Init
<1>2. step \notin RegSteps
  BY <1>1, RegFacts
<1>3. Passed = {}
  BY <1>1 DEF Passed
<1>4. QED
  BY <1>1, <1>2, <1>3 DEF InTune, Kept, Follows, Written, Returned, Noisy, Settled, Untouched

LEMMA ExactInvariant == Spec => [](LinkInv /\ Exact)
<1>1. LinkInv /\ Exact /\ [Next]_vars => (LinkInv /\ Exact)'
  BY LinkInvNext, ExactNext
<1>2. QED
  BY <1>1, LinkInvInit, ExactInit, PTL DEF Spec

\* Until a handler comes inside a transfer or an RM inside the switch (status_check
\* loads the queue twice), every register the switch has passed holds the value of the
\* set at the head, or is one that four garbled attempts could not write (writeReg): for
\* every set, number of channels and pattern of garbled values, and a START or a sample
\* read between any two transfers.
THEOREM RegistersProgrammed == Spec => []Programmed
<1>1. LinkInv /\ Exact => Programmed
  BY DEF LinkInv, TimerInv, Exact, Kept, Settled, Programmed
<1>2. QED
  BY <1>1, ExactInvariant, PTL

\* Until a handler comes inside a transfer, no register but those of a switch ever
\* changes, whatever values are garbled: readADC, RREG, RM and START between transfers
\* included.
THEOREM OtherRegistersKept == Spec => []OthersKept
<1>1. Exact => OthersKept
  BY DEF Exact, InTune, Untouched, OthersKept
<1>2. QED
  BY <1>1, ExactInvariant, PTL

----------------------------------------------------------------------------
(* A switch comes to its end *)

LEMMA AdvanceNext ==
    LinkInv /\ [Next]_vars =>
        [step # 0 => IF Main THEN step' = 0 \/ Advance' > Advance
                     ELSE step' # 0 /\ Advance' = Advance]_vars
<1> SUFFICES ASSUME LinkInv, Next, step # 0
             PROVE  IF Main THEN step' = 0 \/ Advance' > Advance
                    ELSE step' # 0 /\ Advance' = Advance
  BY DEF vars, chip, writer, ghosts, Advance
<1>1. TimerInv /\ Control /\ Typed
  BY DEF LinkInv
<1>2. /\ step \in 1..RestartStep /\ RestartStep \in 4..11
      /\ attempts \in 0..3 /\ pos \in 1..4 /\ phase \in {"write", "read"} /\ awaiting \in BOOLEAN
  BY <1>1, RegFacts DEF TimerInv, Control
<1>3. ASSUME NEW g \in BOOLEAN, Put(g) PROVE Advance' > Advance
  <2>1. awaiting = FALSE /\ awaiting' = TRUE /\ UNCHANGED <<step, phase, pos, attempts>>
    BY <1>1, <1>3, PutFacts DEF Put
  <2>2. QED
    BY <1>2, <2>1 DEF Advance
<1>4. ASSUME Get PROVE step' = 0 \/ Advance' > Advance
  <2>1. /\ awaiting = TRUE /\ awaiting' = FALSE /\ attempts' = attempts /\ pos \in 1..3
        /\ \/ step' = 0
           \/ step' = step /\ pos = 3 /\ phase = "write" /\ phase' = "read" /\ pos' = 1
           \/ step' = step /\ pos' = pos + 1 /\ phase' = phase
    BY <1>1, <1>4, GetFacts DEF Get
  <2>2. QED
    BY <1>2, <2>1 DEF Advance
<1>5. ASSUME Proceed, Judging \/ step = TimerStep, awaiting' = awaiting
      PROVE  step' = 0 \/ Advance' > Advance
  <2>1. awaiting = FALSE /\ (step' = 0 \/ step' = step + 1)
        /\ phase' = "write" /\ pos' = 1 /\ attempts' = 0
    BY <1>1, <1>5 DEF Proceed, Control, Sending
  <2>2. QED
    BY <1>2, <1>5, <2>1 DEF Advance
<1>6. ASSUME Accept PROVE step' = 0 \/ Advance' > Advance
  BY <1>5, <1>6 DEF Accept
<1>7. ASSUME Retry PROVE step' = 0 \/ Advance' > Advance
  <2>1. /\ pos = 4 /\ phase = "read" /\ awaiting = FALSE /\ awaiting' = awaiting
        /\ step' = step /\ attempts' = attempts + 1 /\ phase' = "write" /\ pos' = 1
    BY <1>1, <1>7 DEF Retry, Count, Judging, Control
  <2>2. QED
    BY <1>2, <2>1 DEF Advance
<1>8. ASSUME GiveUp PROVE step' = 0 \/ Advance' > Advance
  BY <1>5, <1>8 DEF GiveUp
<1>9. ASSUME Reconfigure PROVE step' = 0 \/ Advance' > Advance
  BY <1>5, <1>9 DEF Reconfigure
<1>10. CASE Main
  BY <1>3, <1>4, <1>6, <1>7, <1>8, <1>9, <1>10 DEF Main
<1>11. CASE ~Main
  <2>1. ASSUME NEW s \in Sets, NEW who \in {"main", "usb"}, Begin(s, who) PROVE FALSE
    BY <2>1 DEF Begin
  <2>2. UNCHANGED <<step, phase, pos, awaiting, attempts>>
    BY <1>11, <2>1 DEF Next, DrdyIsr, RregIsr, RmIsr, StartIsr, writer
  <2>3. QED
    BY <1>11, <2>2 DEF Advance
<1>12. QED
  BY <1>10, <1>11

\* Every step of the main loop brings a switch forward or ends it, and no handler sets
\* it back: with the highest place there is, that bounds what a switch can take.
THEOREM SwitchComesOn == Spec => SwitchAdvances
  BY LinkInvariant, AdvanceNext, PTL DEF Spec, SwitchAdvances

\* The highest place of a switch, for any number of channels
LEMMA AdvanceBounded ==
    LinkInv => Advance \in 0..(52 * (RestartStep + 1))
<1> SUFFICES ASSUME LinkInv PROVE Advance \in 0..(52 * (RestartStep + 1))
  OBVIOUS
<1>1. TimerInv /\ Control
  BY DEF LinkInv
<1>2. /\ step \in 0..RestartStep /\ RestartStep \in 4..11
      /\ attempts \in 0..3 /\ pos \in 1..4 /\ phase \in {"write", "read"} /\ awaiting \in BOOLEAN
      /\ pos = 4 => awaiting = FALSE
  BY <1>1, RegFacts DEF TimerInv, Control, Judging, Sending
<1>3. QED
  BY <1>2 DEF Advance

\* How far a switch can come, by the number of channels alone: with SwitchComesOn, no
\* switch takes more than 52 * (RestartStep + 1) steps of the main loop.
THEOREM SwitchBounded == Spec => [](Advance \in 0..(52 * (RestartStep + 1)))
  BY LinkInvariant, AdvanceBounded, PTL
=============================================================================
