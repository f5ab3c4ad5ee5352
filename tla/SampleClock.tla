----------------------------- MODULE SampleClock -----------------------------
(***************************************************************************)
(* The arithmetic by which the firmware turns a requested sample rate into *)
(* hardware settings: the data rate of the ADC (adcLib.c).  Rates are      *)
(* whole samples per second; the code's floats matter only through the     *)
(* comparisons, which are scaled here so that they stay in the integers.   *)
(***************************************************************************)
EXTENDS Integers

\* MIN_RATE is CLK_PS_1024 / 2^32, about 2.1e-5: every whole rate above 0 exceeds it.
MIN_RATE == 0
MAX_RATE == 16000

\* RATE_250 .. RATE_8000: the upper end of each band, with the register code
\* DATA_RATE_250 .. DATA_RATE_8000 that selects it.
Bands == { [rate |-> 250,  code |-> 6], [rate |-> 500,  code |-> 5],
           [rate |-> 1000, code |-> 4], [rate |-> 2000, code |-> 3],
           [rate |-> 4000, code |-> 2], [rate |-> 8000, code |-> 1] }

DataRates == 0..6
DATA_RATE_16000 == 0

\* FF = 0.8: a band is fast enough for r when r < 0.8 * band.
FastEnough(r, b) == 10 * r < 8 * b.rate

\* determineADCRate: the slowest band that is fast enough, and the fastest
\* data rate of all, with no margin to check, when none is.
DetermineADCRate(r) ==
    LET fit == {b \in Bands : FastEnough(r, b)}
    IN  IF fit = {} THEN DATA_RATE_16000
        ELSE (CHOOSE b \in fit : \A c \in fit : b.rate <= c.rate).code
=============================================================================
