----------------------------- MODULE MCSampleSets -----------------------------
(* Instances of SampleSets *)
EXTENDS SampleSets

HostRequests ==
    {[num |-> 1, good |-> TRUE], [num |-> 2, good |-> TRUE], [num |-> 1, good |-> FALSE]}
\* Nothing is promised of a list that an RM has been served in the middle of.
Promised == overlap # "RM"
=============================================================================
