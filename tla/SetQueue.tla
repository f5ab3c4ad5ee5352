------------------------------- MODULE SetQueue -------------------------------
(***************************************************************************)
(* What the sample-set queue promises: a first-in first-out queue of sets  *)
(* in a heap of HeapCells records.  A set that was accepted is sampled for *)
(* as many samples as it asked for, unless the host removes it, and FULL   *)
(* is answered only when every record is taken.  SampleSets implements     *)
(* this module, up to the first command served where the critical section  *)
(* should have held it off.                                                *)
(***************************************************************************)
EXTENDS Naturals, Sequences

CONSTANTS Requests, Acceptable(_), HeapCells

VARIABLES
    sets,      \* the samples still wanted of each set, oldest first
    leaked,    \* records that refused requests hold for ever
    answer,    \* the last command's
    spoilt     \* the promise is off

vars == <<sets, leaked, answer, spoilt>>

Init == sets = <<>> /\ leaked = 0 /\ answer = "none" /\ spoilt = FALSE

Accept(r) ==
    /\ Acceptable(r) /\ Len(sets) + leaked < HeapCells
    /\ sets' = Append(sets, r.num) /\ answer' = "OK"
    /\ UNCHANGED <<leaked, spoilt>>

Refuse(r) ==
    /\ ~Acceptable(r) /\ Len(sets) + leaked < HeapCells
    /\ leaked' = leaked + 1 /\ answer' = "INVALID"
    /\ UNCHANGED <<sets, spoilt>>

Full ==
    /\ Len(sets) + leaked = HeapCells
    /\ answer' = "FULL"
    /\ UNCHANGED <<sets, leaked, spoilt>>

\* The answer to RM tells whether a set is left, not whether one was removed.
Remove ==
    /\ sets' = IF sets = <<>> THEN sets ELSE Tail(sets)
    /\ answer' = IF sets' = <<>> THEN "EMPTY" ELSE "REMOVED"
    /\ UNCHANGED <<leaked, spoilt>>

\* A sample of the oldest set was stored; the last one ends the set.
Sampled ==
    /\ sets # <<>> /\ sets[1] > 0
    /\ sets' = [sets EXCEPT ![1] = @ - 1]
    /\ UNCHANGED <<leaked, answer, spoilt>>

Ended ==
    /\ sets # <<>> /\ sets[1] = 0
    /\ sets' = Tail(sets)
    /\ UNCHANGED <<leaked, answer, spoilt>>

\* The command line is taken; its answer is still to come.
Ask == answer' = "none" /\ UNCHANGED <<sets, leaked, spoilt>>

Spoil == spoilt' = TRUE
Spoilt == spoilt /\ spoilt'

Next ==
    \/ \E r \in Requests : Accept(r) \/ Refuse(r)
    \/ Full \/ Remove \/ Ask
    \/ Sampled \/ Ended
    \/ Spoil \/ Spoilt

Spec == Init /\ [][Next]_vars
=============================================================================
