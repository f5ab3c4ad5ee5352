----------------------------- MODULE TimerClock -----------------------------
(***************************************************************************)
(* TC4's prescaler and counter for a sample rate (timer.c), computed in    *)
(* floats of 24 bits.  A rate is a record [n, d], n/d Hz; so is a float's  *)
(* value.                                                                  *)
(*                                                                         *)
(* The clock, a prescaler and their product with a rate are themselves     *)
(* floats (48 MHz is 2^10 * 46875, a prescaler a power of two), so that    *)
(* each expression below is rounded where it divides and nowhere else.     *)
(***************************************************************************)
EXTENDS Integers

CONSTANTS
    F_CPU,          \* counts of TC4 per second
    FLOAT_INTS,     \* 2^24 for a float: every integer below is one
    Powers          \* the powers of two a float's 24 bits are scaled by

ASSUME TimerAssumption ==
    /\ F_CPU \in Nat \ {0} /\ FLOAT_INTS \in Nat \ {0, 1}
    /\ Powers \subseteq Nat \ {0}

\* 2^32 - 1, with which 32-bit counters and float's bits are scaled together
UINT32_MAX == 256 * FLOAT_INTS - 1

----------------------------------------------------------------------------
(* Floats *)

\* The integer next to a/b, the even one of two
Nearest(a, b) ==
    LET q == a \div b  r == a % b
    IN  IF 2 * r < b \/ (2 * r = b /\ q % 2 = 0) THEN q ELSE q + 1

\* a/b is a float's 24 bits, the first of them set, times g and divided by s.
OnGrid(a, b, g, s) == FLOAT_INTS * (b * g) <= 2 * (a * s) /\ a * s < FLOAT_INTS * (b * g)

Small(a, b) == a < FLOAT_INTS * b
ScaledBy(k, a, b) == IF Small(a, b) THEN OnGrid(a, b, 1, k) ELSE OnGrid(a, b, k, 1)

\* a/b is neither too large nor too small for a float of full precision.
Normal(a, b) == \E k \in Powers : ScaledBy(k, a, b)

\* a/b as a float
Float(a, b) ==
    LET k == CHOOSE k \in Powers : ScaledBy(k, a, b)
    IN  IF Small(a, b) THEN [n |-> Nearest(a * k, b), d |-> k]
        ELSE [n |-> k * Nearest(a, b * k), d |-> 1]

\* The conversion to uint32_t, which saturates
ToUint32(x) == IF x.n \div x.d < UINT32_MAX THEN x.n \div x.d ELSE UINT32_MAX

----------------------------------------------------------------------------
(* timer.c *)

Prescalers == {1, 2, 4, 8, 16, 64, 256, 1024}

\* CLK_PS_1: (float) 0xFFFFFFFF is 2^32.
CLK_PS_1 == Float(UINT32_MAX + 1, F_CPU)

\* 1/rate < CLK_PS_p
Fits(p, rate) ==
    LET period == Float(rate.d, rate.n)
    IN  period.n * CLK_PS_1.d < p * CLK_PS_1.n * period.d

\* determinePrescale: the smallest prescaler whose longest period is above 1/rate
DeterminePrescale(rate) ==
    LET fit == {p \in Prescalers \ {1024} : Fits(p, rate)}
    IN  IF fit = {} THEN 1024 ELSE CHOOSE p \in fit : \A q \in fit : p <= q

\* Mutant: DIV64 falls through to the case before it.
PrescaleToIntFallsThrough(p) == IF p = 64 THEN 16 ELSE p % 256

\* prescaleToInt returns a uint8_t.
PrescaleToInt(p) == p % 256

\* determineCounter: dividing by a prescaler of 0 gives infinity.
DetermineCounter(p, rate) ==
    IF PrescaleToInt(p) = 0 THEN UINT32_MAX
    ELSE ToUint32(Float(F_CPU * rate.d, PrescaleToInt(p) * rate.n))

ConfigTimer(rate) ==
    LET p == DeterminePrescale(rate) IN [ps |-> p, cc |-> DetermineCounter(p, rate)]

\* Every division made for the rate has a result in float's range.
Computable(rate) ==
    /\ rate.n \in Nat \ {0} /\ rate.d \in Nat \ {0}
    /\ Normal(UINT32_MAX + 1, F_CPU) /\ Normal(rate.d, rate.n)
    /\ \A p \in {1, 2, 4, 8, 16, 64} : Normal(F_CPU * rate.d, p * rate.n)
=============================================================================
