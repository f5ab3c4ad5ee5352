-------------------------- MODULE SampleClockProofs --------------------------
(***************************************************************************)
(* What determineADCRate returns, for every rate.                          *)
(***************************************************************************)
EXTENDS SampleClock, TLAPS

\* determineADCRate always returns one of the seven DATA_RATE codes.
LEMMA DetermineADCRateType ==
    ASSUME NEW r \in Nat
    PROVE  DetermineADCRate(r) \in DataRates
<1> DEFINE fit == {b \in Bands : FastEnough(r, b)}
<1>1. CASE fit = {}
  BY <1>1 DEF DetermineADCRate, DataRates, DATA_RATE_16000
<1>2. CASE fit # {}
  <2>1. \E b \in fit : \A c \in fit : b.rate <= c.rate
    BY <1>2 DEF Bands, FastEnough
  <2>2. PICK a \in fit : a = (CHOOSE b \in fit : \A c \in fit : b.rate <= c.rate)
    BY <2>1
  <2>3. a.code \in DataRates
    BY DEF Bands, DataRates
  <2> QED
    BY <1>2, <2>2, <2>3 DEF DetermineADCRate
<1> QED
  BY <1>1, <1>2
=============================================================================
