------------------------------ MODULE MCAdcLink ------------------------------
(* AdcLink with one channel, floats of 5 bits and a timer of 92 counts per    *)
(* second, so that its longest count lasts 89 seconds undivided, as on the    *)
(* board.  The rates: 320 Hz, in another band of the ADC and faster than this *)
(* clock counts; and 1/5041 Hz, which takes the prescaler of 64 and whose     *)
(* count the float rounds, 7168 for 7246.                                     *)
EXTENDS AdcLink

Hz(n, d) == [n |-> n, d |-> d]
MCSets == { [rate |-> Hz(320, 1), chans |-> 1], [rate |-> Hz(26, 2^17), chans |-> 0] }
MCPowers == {2^j : j \in 0..16}
MCReadRegs == {10, 200}
=============================================================================
