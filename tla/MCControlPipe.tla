---------------------------- MODULE MCControlPipe ----------------------------
(* Instances of ControlPipe.  With packets of 16 bytes (8, 16, 32 and 64 are *)
(* legal) the device's configuration descriptor of 32 bytes takes two full   *)
(* packets, and a zero length one when more was asked for.                   *)
EXTENDS ControlPipe

Ask(op, len, val) == [op |-> op, len |-> len, val |-> val]

HostRequests ==
    {Ask("DESCRIPTOR", 32, 32), Ask("DESCRIPTOR", 40, 32), Ask("DESCRIPTOR", 8, 18),
     Ask("CLASS", 8, 24), Ask("CLASS", 16, 24), Ask("ADDRESS", 0, 1),
     Ask("CONFIGURATION", 0, 1), Ask("INTERFACE", 0, 1), Ask("OTHER_OUT", 20, 0)}
=============================================================================
