--------------------------- MODULE ControlTransfer ---------------------------
(***************************************************************************)
(* What the control endpoint promises: a request is decided once, as a     *)
(* whole, when the device takes it; an accepted one is answered in order   *)
(* and in full, a refused one with a stall.  ControlPipe implements this   *)
(* module.                                                                 *)
(*                                                                         *)
(* A late request, made while the device still owed interrupts of the one  *)
(* before, is decided like any other, but how it ends is not promised.     *)
(***************************************************************************)
EXTENDS Integers

CONSTANTS Requests, InOps, PacketSize, NumConfigurations

VARIABLES
    phase, request, got, outcome,  \* the host's transfer and how the last one ended
    verdict,                       \* none, pending, accepted or refused
    late, resetting,
    conf, enabled                  \* the configuration; its endpoints are on

transfer == <<phase, request, got, outcome, verdict, late>>
vars == <<transfer, resetting, conf, enabled>>

In(r) == r.op \in InOps

\* The payload of an accepted request: a descriptor is cut to what was asked
Offer(r) == IF ~In(r) THEN 0 ELSE IF r.op = "DESCRIPTOR" /\ r.len < r.val THEN r.len ELSE r.val

\* Requests that are accepted in a state, and those that may be: a
\* SET_CONFIGURATION is only accepted of a host that has given an address.
MayAccept(r) ==
    \/ r.op = "DESCRIPTOR" /\ r.len > 0
    \/ r.op = "VALUE" /\ r.len = r.val
    \/ r.op = "SETTING" /\ r.len = 1 /\ conf # 0
    \/ r.op = "CLASS" /\ r.len > 0 /\ conf # 0
    \/ r.op \in {"ADDRESS", "FEATURE"} /\ r.len = 0
    \/ r.op = "CONFIGURATION" /\ r.len = 0 /\ r.val <= NumConfigurations
    \/ r.op = "INTERFACE" /\ r.len = 0 /\ r.val = 0 /\ conf # 0
MayRefuse(r) == ~MayAccept(r) \/ r.op = "CONFIGURATION"

Init ==
    /\ phase = "idle" /\ request = [op |-> "OTHER_OUT", len |-> 0, val |-> 0]
    /\ got = 0 /\ outcome = "none" /\ verdict = "none" /\ late = FALSE
    /\ resetting = FALSE /\ conf = 0 /\ enabled = FALSE

\* A new request ends whatever was going on.
Ask(r) ==
    /\ ~resetting
    /\ phase' = IF r.len = 0 THEN "status_in" ELSE IF In(r) THEN "data_in" ELSE "data_out"
    /\ request' = r /\ got' = 0 /\ outcome' = "none" /\ verdict' = "pending"
    /\ late' \in BOOLEAN
    /\ UNCHANGED <<resetting, conf, enabled>>

Accept ==
    /\ verdict = "pending" /\ MayAccept(request)
    /\ verdict' = "accepted"
    /\ conf' = IF request.op = "CONFIGURATION" THEN request.val ELSE conf
    /\ enabled' = IF request.op = "CONFIGURATION" THEN request.val # 0
                  ELSE IF request.op = "INTERFACE" THEN TRUE ELSE enabled
    /\ UNCHANGED <<phase, request, got, outcome, late, resetting>>

\* A refused request changes nothing, but for a SET_INTERFACE.
Refuse ==
    /\ verdict = "pending" /\ MayRefuse(request)
    /\ verdict' = "refused"
    /\ enabled' \in {enabled, enabled /\ request.op # "INTERFACE"}
    /\ UNCHANGED <<phase, request, got, outcome, late, resetting, conf>>

\* A packet carries the next bytes; only the last one is short.
Packet(n) ==
    /\ phase = "data_in" /\ verdict = "accepted"
    /\ got + n <= request.len /\ got + n <= Offer(request)
    /\ n < PacketSize => got + n = Offer(request)
    /\ got' = got + n
    /\ phase' = IF n < PacketSize \/ got' = request.len THEN "status_out" ELSE phase
    /\ UNCHANGED <<request, outcome, verdict, late, resetting, conf, enabled>>

Ends(how) ==
    /\ phase' = "idle" /\ outcome' = how /\ verdict' = "none"
    /\ UNCHANGED <<request, got, late, resetting, conf, enabled>>

\* An accepted transfer ends with the whole answer, or with all that was asked for.
Finish ==
    /\ verdict = "accepted" /\ phase \in {"status_in", "status_out"}
    /\ got \in {Offer(request), request.len}
    /\ Ends("ok")

Stall == verdict = "refused" /\ phase \in {"data_in", "status_in"} /\ Ends("stall")

\* The host leaves the IN data early, or gets more than it asked for, which
\* only requests of the class can give it.
Cut ==
    /\ phase = "data_in" /\ phase' = "cutting"
    /\ UNCHANGED <<request, got, outcome, verdict, late, resetting, conf, enabled>>
CutShort == phase = "cutting" /\ Ends("cut")
Babble ==
    /\ phase = "data_in" /\ verdict = "accepted"
    /\ request.op = "CLASS" /\ request.len < Offer(request)
    /\ Ends("babble")

\* What a late request comes to is open, but it has no effect a second time.
Garbled ==
    /\ late /\ phase # "idle"
    /\ UNCHANGED <<request, late, resetting, conf, enabled>>

BusReset ==
    /\ phase' = "idle" /\ outcome' = "none" /\ verdict' = "none" /\ late' = FALSE
    /\ resetting' = TRUE /\ enabled' = FALSE
    /\ UNCHANGED <<request, got, conf>>

\* A request that came before the reset may still be taken.
Aftermath ==
    /\ resetting /\ UNCHANGED <<transfer, resetting>>

ResetDone ==
    /\ resetting /\ resetting' = FALSE /\ conf' = 0 /\ enabled' = FALSE
    /\ UNCHANGED transfer

Next ==
    \/ \E r \in Requests : Ask(r)
    \/ Accept \/ Refuse
    \/ \E n \in 0 .. PacketSize : Packet(n)
    \/ Finish \/ Stall \/ Cut \/ CutShort \/ Babble \/ Garbled
    \/ BusReset \/ Aftermath \/ ResetDone

Spec == Init /\ [][Next]_vars
=============================================================================
