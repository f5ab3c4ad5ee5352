---------------------------- MODULE MCAcquisition ----------------------------
(* Instances of Acquisition for TLC: the sets a host may queue. *)
EXTENDS Acquisition

\* Two sets in different bands of the ADC and on different channels, and one
\* that add() refuses.
TwoSetsAndARefusal ==
    { [num |-> 1, rate |-> 100, chans |-> 63], [num |-> 2, rate |-> 300, chans |-> 1],
      [num |-> 0, rate |-> 100, chans |-> 1] }
TwoSets ==
    { [num |-> 1, rate |-> 100, chans |-> 63], [num |-> 2, rate |-> 300, chans |-> 1] }
OneSet == { [num |-> 2, rate |-> 300, chans |-> 63] }
\* One sample on the full channel set; one sample on a single channel.
OneShort == { [num |-> 1, rate |-> 300, chans |-> 63] }
NarrowSet == { [num |-> 1, rate |-> 300, chans |-> 1] }
=============================================================================
