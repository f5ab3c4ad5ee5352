----------------------------- MODULE ControlPipe -----------------------------
(***************************************************************************)
(* The control endpoint: SETUP, data and status stages of a request, as    *)
(* the host's tokens, the peripheral's two banks and interrupt flags, the  *)
(* interrupt handler (usb.c), the endpoint-0 state machine                 *)
(* (usb_device_udd.c) and the request decoder (udc.c, udi_tmc.c) see it.   *)
(*                                                                         *)
(* A token acts on the peripheral at once and leaves a flag; the handler   *)
(* takes one flag at a time, in the order of the C code and not in the     *)
(* order they came, whenever the processor gets to it.  So the host may be *)
(* steps ahead of the driver, also into its next request.                  *)
(***************************************************************************)
EXTENDS Integers

CONSTANTS
    Requests,                  \* what the host may ask: [op, len, val]
    USB_DEVICE_EP_CTRL_SIZE,   \* packet size of endpoint 0: 8, 16, 32 or 64
    NumConfigurations,         \* bNumConfigurations of the device descriptor
    MaxGiveUps                 \* bound: transfers the host gives up or cuts short

\* val is the payload's size for the IN requests, the address, configuration
\* or alternate setting for the others; len is wLength.
InOps == {"DESCRIPTOR", "VALUE", "SETTING", "CLASS", "OTHER_IN"}
OutOps == {"ADDRESS", "CONFIGURATION", "INTERFACE", "FEATURE", "OTHER_OUT"}
Request == [op : InOps \cup OutOps, len : Nat, val : Nat]
In(r) == r.op \in InOps

ASSUME RequestsAssumption ==
    /\ Requests \subseteq Request
    /\ \A r \in Requests : /\ In(r) => r.val > 0
                           /\ r.op = "SETTING" => r.val = 1
ASSUME SizeAssumption ==
    USB_DEVICE_EP_CTRL_SIZE \in Nat /\ USB_DEVICE_EP_CTRL_SIZE > 0
ASSUME CountsAssumption == NumConfigurations \in Nat /\ MaxGiveUps \in Nat

VARIABLES
    phase, request, got, outcome,   \* the host's transfer and how the last one ended
    haddr, giveups,                 \* the address the host uses; the bound
    late, orphan,                   \* ghosts: see HostSetup
    flags, eorst,                   \* EPINTFLAG of endpoint 0, INTFLAG.EORST
    inReady, inOff, inLen,          \* bank 1: BK1RDY, offset into the payload, BYTE_COUNT
    outOpen,                        \* bank 0 takes a packet (BK0RDY clear)
    stallIn, stallOut,              \* STALLRQ1, STALLRQ0
    state,                          \* udd_ep_control_state
    req, payload, callback,         \* udd_g_ctrlreq; callback: udc_valid_address is set
    trans, prev, short,             \* udd_ctrl_payload_nb_trans, _prev_, b_shortpacket
    addr, conf, enabled             \* DADD, udc_num_configuration, the bulk endpoints are on

host == <<phase, request, got, outcome, haddr, giveups, late, orphan>>
bank == <<inReady, inOff, inLen>>
stalls == <<stallIn, stallOut>>
counts == <<payload, trans, prev, short>>
vars == <<host, flags, eorst, bank, outOpen, stalls, state, req, callback,
          counts, addr, conf, enabled>>

Flags == {"STALL", "RXSTP", "TRCPT1", "TRCPT0", "TRFAIL1", "TRFAIL0"}
\* A stall flag alone raises no interrupt: its callback is not enabled.
Pending == flags \ {"STALL"}

Least(m, n) == IF m <= n THEN m ELSE n

----------------------------------------------------------------------------
(* Requests *)

NoRequest == [op |-> "OTHER_OUT", len |-> 0, val |-> 0]

\* The result of udc_process_setup, with a the address of the device
Granted(r, a) ==
    /\ In(r) => r.len > 0
    /\ \/ r.op = "DESCRIPTOR"
       \/ r.op = "VALUE" /\ r.len = r.val
       \/ r.op = "SETTING" /\ r.len = 1 /\ conf # 0
       \/ r.op = "CLASS" /\ conf # 0
       \/ r.op \in {"ADDRESS", "FEATURE"} /\ r.len = 0
       \/ r.op = "CONFIGURATION" /\ r.len = 0 /\ a # 0 /\ r.val <= NumConfigurations
       \/ r.op = "INTERFACE" /\ r.len = 0 /\ conf # 0 /\ r.val = 0

\* Mutant: a descriptor is sent whole.
PayloadUncut(r) == IF In(r) THEN r.val ELSE 0

\* Only a descriptor is cut to what was asked for.
Payload(r) ==
    IF ~In(r) THEN 0 ELSE IF r.op = "DESCRIPTOR" THEN Least(r.val, r.len) ELSE r.val

\* What the request changes.  SET_INTERFACE frees the endpoints before it
\* finds out that the alternate setting does not exist.
Process(r, a) ==
    /\ conf' = IF r.op = "CONFIGURATION" /\ Granted(r, a) THEN r.val ELSE conf
    /\ enabled' = IF r.op = "CONFIGURATION" /\ Granted(r, a) THEN r.val # 0
                  ELSE IF r.op = "INTERFACE" /\ r.len = 0 /\ conf # 0 THEN r.val = 0
                  ELSE enabled
    /\ callback' = (r.op = "ADDRESS" /\ r.len = 0)

----------------------------------------------------------------------------
Init ==
    /\ phase = "idle" /\ request = NoRequest /\ got = 0 /\ outcome = "none"
    /\ haddr = 0 /\ giveups = MaxGiveUps /\ late = FALSE /\ orphan = FALSE
    /\ flags = {} /\ eorst = FALSE
    /\ inReady = FALSE /\ inOff = 0 /\ inLen = 0 /\ outOpen = TRUE
    /\ stallIn = FALSE /\ stallOut = FALSE
    /\ state = "SETUP" /\ req = NoRequest /\ payload = 0 /\ callback = FALSE
    /\ trans = 0 /\ prev = 0 /\ short = FALSE
    /\ addr = 0 /\ conf = 0 /\ enabled = FALSE

----------------------------------------------------------------------------
(* The host and the peripheral.  A token for another address is not heard. *)

Heard == haddr = addr /\ ~eorst

\* Every SETUP heard is stored in udd_ctrl_buffer, over the one before.
sbuf == request

\* Bank 1 without a packet; what its registers then hold does not matter.
BankEmptied == inReady' = FALSE /\ inOff' = 0 /\ inLen' = 0

\* The peripheral takes every SETUP, empties both banks and drops the stalls,
\* but leaves the flags of the transfer before.  late: some were still due.
\* orphan: the device may now take an address that the host does not know of.
HostSetup(r) ==
    /\ Heard
    /\ phase # "idle" => giveups > 0
    /\ giveups' = IF phase = "idle" THEN giveups ELSE giveups - 1
    /\ late' = (Pending # {})
    /\ orphan' = (orphan \/ (phase # "idle" /\ request.op = "ADDRESS")
                         \/ (Pending # {} /\ r.op = "ADDRESS"))
    /\ phase' = IF r.len = 0 THEN "status_in" ELSE IF In(r) THEN "data_in" ELSE "data_out"
    /\ request' = r /\ got' = 0 /\ outcome' = "none"
    /\ flags' = flags \cup {"RXSTP"}
    /\ BankEmptied /\ outOpen' = FALSE /\ stallIn' = FALSE /\ stallOut' = FALSE
    /\ UNCHANGED <<haddr, eorst, state, req, callback, counts, addr, conf, enabled>>

Raise(f) == flags' = flags \cup {f}

Ends(how) == phase' = "idle" /\ outcome' = how

driver == <<state, req, callback, counts, addr, conf, enabled>>

HostIn ==
    /\ Heard /\ phase \in {"data_in", "status_in"}
    /\ \/ /\ stallIn
          /\ Ends("stall") /\ Raise("STALL")
          /\ UNCHANGED <<got, haddr, bank>>
       \/ /\ ~stallIn /\ ~inReady                       \* NAK
          /\ Raise("TRFAIL1")
          /\ UNCHANGED <<phase, outcome, got, haddr, bank>>
       \/ /\ ~stallIn /\ inReady /\ got + inLen > request.len    \* babble: not acknowledged
          /\ Ends("babble")
          /\ UNCHANGED <<got, haddr, flags, bank>>
       \/ /\ ~stallIn /\ inReady /\ got + inLen <= request.len
          /\ Raise("TRCPT1") /\ BankEmptied
          /\ got' = got + inLen
          /\ IF phase = "status_in"
             THEN Ends("ok") /\ haddr' = IF request.op = "ADDRESS" THEN request.val ELSE haddr
             ELSE /\ phase' = IF inLen < USB_DEVICE_EP_CTRL_SIZE \/ got' = request.len
                              THEN "status_out" ELSE phase
                  /\ UNCHANGED <<outcome, haddr>>
    /\ UNCHANGED <<request, giveups, late, orphan, eorst, outOpen, stalls, driver>>

\* The host wants no more of the IN data it has begun to get, and goes on to the status stage.
HostCuts ==
    /\ phase = "data_in" /\ got > 0 /\ giveups > 0
    /\ phase' = "cutting" /\ giveups' = giveups - 1
    /\ UNCHANGED <<request, got, outcome, haddr, late, orphan, flags, eorst, bank,
                   outOpen, stalls, driver>>

\* An OUT token: a data packet or the status stage
HostOut ==
    /\ Heard /\ phase \in {"status_out", "data_out", "cutting"}
    /\ \/ /\ stallOut
          /\ Ends("stall") /\ Raise("STALL")
          /\ UNCHANGED outOpen
       \/ /\ ~stallOut /\ ~outOpen                      \* NAK
          /\ Raise("TRFAIL0")
          /\ UNCHANGED <<phase, outcome, outOpen>>
       \/ /\ ~stallOut /\ outOpen
          /\ Raise("TRCPT0") /\ outOpen' = FALSE
          /\ IF phase = "data_out" THEN phase' = "status_in" /\ UNCHANGED outcome
             ELSE Ends(IF phase = "cutting" THEN "cut" ELSE "ok")
    /\ UNCHANGED <<request, got, haddr, giveups, late, orphan, eorst, bank, stalls, driver>>

\* Which flags of the endpoint survive a bus reset is left open.
BusReset ==
    /\ ~eorst /\ eorst' = TRUE
    /\ flags' \in SUBSET flags
    /\ phase' = "idle" /\ outcome' = "none" /\ haddr' = 0 /\ orphan' = FALSE /\ late' = FALSE
    /\ BankEmptied /\ outOpen' = FALSE /\ stallIn' = FALSE /\ stallOut' = FALSE
    /\ enabled' = FALSE
    /\ UNCHANGED <<request, got, giveups, state, req, callback, counts, addr, conf>>

----------------------------------------------------------------------------
(* The driver: one flag per interrupt *)

\* What the host and the bus own does not change in a handler.
hostSide == <<host, eorst>>

\* Mutant: the packets already sent are forgotten before the next is linked.
InSentFromStart(pay, done, before, len) ==
    LET n == Least(pay, USB_DEVICE_EP_CTRL_SIZE)
    IN  /\ payload' = pay /\ prev' = before /\ trans' = n
        /\ state' = "DATA_IN"
        /\ inReady' = TRUE /\ inOff' = 0 /\ inLen' = n
        /\ short' = (n < USB_DEVICE_EP_CTRL_SIZE)
        /\ UNCHANGED outOpen

\* Mutant: every packet is a full one.
InSentWhole(pay, done, before, len) ==
    LET remain == pay - done
    IN  /\ payload' = pay
        /\ prev' = IF remain = 0 THEN before + done ELSE before
        /\ IF remain = 0
           THEN /\ state' = "WAIT_OUT_ZLP" /\ outOpen' = TRUE /\ trans' = done
                /\ UNCHANGED <<bank, short>>
           ELSE /\ state' = "DATA_IN"
                /\ inReady' = TRUE /\ inOff' = done /\ inLen' = USB_DEVICE_EP_CTRL_SIZE
                /\ short' = FALSE
                /\ trans' = done + USB_DEVICE_EP_CTRL_SIZE
                /\ UNCHANGED outOpen

\* udd_ctrl_in_sent: done bytes of the payload are sent, before it were `before'
InSent(pay, done, before, len) ==
    LET remain == pay - done
        n == Least(remain, USB_DEVICE_EP_CTRL_SIZE)
    IN  /\ payload' = pay
        /\ prev' = IF remain = 0 THEN before + done ELSE before
        /\ IF remain = 0 /\ (len = before + done \/ short)
           THEN /\ state' = "WAIT_OUT_ZLP" /\ outOpen' = TRUE /\ trans' = done
                /\ UNCHANGED <<bank, short>>
           ELSE /\ state' = "DATA_IN"
                /\ inReady' = TRUE /\ inOff' = done /\ inLen' = n
                /\ short' = (n < USB_DEVICE_EP_CTRL_SIZE)
                /\ trans' = done + n
                /\ UNCHANGED outOpen

\* _usb_ep0_on_setup: the request before, if its end was not seen, ends now;
\* then the new one is fetched and decoded.
TakeSetup ==
    /\ "RXSTP" \in flags /\ "STALL" \notin flags
    /\ flags' = flags \ {"RXSTP"}
    /\ addr' = IF state # "SETUP" /\ callback THEN req.val ELSE addr
    /\ req' = sbuf
    /\ Process(sbuf, addr')
    /\ UNCHANGED hostSide

\* Mutant: a refused request leaves the IN bank to NAK.
SetupRefusedSilently ==
    /\ TakeSetup /\ ~Granted(sbuf, addr')
    /\ state' = "STALL_REQ" /\ stallOut' = FALSE
    /\ payload' = 0
    /\ UNCHANGED <<stallIn, bank, outOpen, trans, prev, short>>

\* udd_ctrl_stall_data: IN tokens are stalled, OUT tokens are not.
SetupRefused ==
    /\ TakeSetup /\ ~Granted(sbuf, addr')
    /\ state' = "STALL_REQ" /\ stallIn' = TRUE /\ stallOut' = FALSE
    /\ payload' = 0
    /\ UNCHANGED <<bank, outOpen, trans, prev, short>>

\* A request with IN data: the OUT bank is opened for the status stage at once.
SetupRead ==
    /\ TakeSetup /\ Granted(sbuf, addr') /\ In(sbuf)
    /\ payload' = Payload(sbuf) /\ prev' = 0
    /\ state' = "DATA_IN" /\ outOpen' = TRUE
    /\ inReady' = TRUE /\ inOff' = 0 /\ inLen' = Least(payload', USB_DEVICE_EP_CTRL_SIZE)
    /\ trans' = inLen' /\ short' = (inLen' < USB_DEVICE_EP_CTRL_SIZE)
    /\ UNCHANGED stalls

\* A request without data (none with OUT data is granted): the answer is a
\* zero length packet, udd_ctrl_send_zlp_in.
SetupWrite ==
    /\ TakeSetup /\ Granted(sbuf, addr') /\ ~In(sbuf)
    /\ state' = "WAIT_IN_ZLP" /\ outOpen' = TRUE
    /\ inReady' = TRUE /\ inOff' = 0 /\ inLen' = 0
    /\ payload' = 0
    /\ UNCHANGED <<stalls, trans, prev, short>>

\* _usb_ep0_on_tansfer_ok, for either bank
TransferOk(f) ==
    /\ flags \cap {"STALL", "RXSTP"} = {}
    /\ f \in flags /\ (f = "TRCPT0" => "TRCPT1" \notin flags)
    /\ flags' = flags \ {f}
    /\ IF state = "DATA_IN"
       THEN InSent(payload, trans, prev, req.len) /\ UNCHANGED addr
       ELSE /\ addr' = IF callback THEN req.val ELSE addr
            /\ state' = "SETUP"
            /\ UNCHANGED <<bank, outOpen, counts>>
    /\ UNCHANGED <<hostSide, stalls, req, callback, conf, enabled>>

\* Mutant: any IN token that finds nothing is stalled.
UnderflowAlways ==
    /\ flags \cap {"STALL", "RXSTP", "TRCPT1", "TRCPT0"} = {} /\ "TRFAIL1" \in flags
    /\ flags' = flags \ {"TRFAIL1"}
    /\ stallIn' = TRUE
    /\ UNCHANGED <<hostSide, bank, outOpen, stallOut, driver>>

\* udd_ctrl_underflow: the host wants more IN data than there is
Underflow ==
    /\ flags \cap {"STALL", "RXSTP", "TRCPT1", "TRCPT0"} = {} /\ "TRFAIL1" \in flags
    /\ flags' = flags \ {"TRFAIL1"}
    /\ stallIn' = (stallIn \/ state = "WAIT_OUT_ZLP")
    /\ UNCHANGED <<hostSide, bank, outOpen, stallOut, driver>>

\* udd_ctrl_overflow: the host has gone on to the status stage, or sends data
\* where none is expected
Overflow ==
    /\ flags \cap (Flags \ {"TRFAIL0"}) = {} /\ "TRFAIL0" \in flags
    /\ flags' = flags \ {"TRFAIL0"}
    /\ state' = IF state = "DATA_IN" THEN "WAIT_OUT_ZLP" ELSE state
    /\ stallOut' = (stallOut \/ state = "WAIT_IN_ZLP")
    /\ UNCHANGED <<hostSide, bank, outOpen, stallIn, req, callback, counts, addr, conf, enabled>>

\* A stall flag is cleared when another flag brings the handler there.
StallSeen ==
    /\ "STALL" \in flags /\ Pending # {}
    /\ flags' = flags \ {"STALL"}
    /\ UNCHANGED <<hostSide, bank, outOpen, stalls, driver>>

\* Mutant: the bus reset is served before the endpoint's own interrupts.
OnResetFirst ==
    /\ eorst
    /\ eorst' = FALSE
    /\ conf' = 0 /\ enabled' = FALSE /\ addr' = 0
    /\ state' = "SETUP" /\ BankEmptied /\ outOpen' = TRUE
    /\ UNCHANGED <<host, flags, stalls, req, callback, counts>>

\* _usb_on_bus_reset, once no endpoint interrupt is due.  The callback of the
\* request before stays registered.
OnReset ==
    /\ eorst /\ Pending = {}
    /\ eorst' = FALSE
    /\ conf' = 0 /\ enabled' = FALSE /\ addr' = 0
    /\ state' = "SETUP" /\ BankEmptied /\ outOpen' = TRUE
    /\ UNCHANGED <<host, flags, stalls, req, callback, counts>>

Isr ==
    \/ SetupRefused \/ SetupRead \/ SetupWrite
    \/ TransferOk("TRCPT1") \/ TransferOk("TRCPT0")
    \/ Underflow \/ Overflow \/ StallSeen \/ OnReset

Bus == (\E r \in Requests : HostSetup(r)) \/ HostIn \/ HostCuts \/ HostOut \/ BusReset

Next == Isr \/ Bus

\* Interrupts are served; a host keeps polling a transfer it has begun.
Spec == Init /\ [][Next]_vars /\ WF_vars(Isr) /\ WF_vars(HostIn) /\ WF_vars(HostOut)

----------------------------------------------------------------------------
(* Properties *)

\* Every variable keeps its type, and no more of a payload is sent than there is.
TypeOK ==
    /\ phase \in {"idle", "data_in", "data_out", "status_in", "status_out", "cutting"}
    /\ request \in Request /\ req \in Request
    /\ outcome \in {"none", "ok", "stall", "babble", "cut"}
    /\ got \in Nat /\ haddr \in Nat /\ giveups \in Nat /\ addr \in Nat /\ conf \in Nat
    /\ flags \subseteq Flags
    /\ state \in {"SETUP", "DATA_IN", "WAIT_OUT_ZLP", "WAIT_IN_ZLP", "STALL_REQ"}
    /\ {late, orphan, eorst, inReady, outOpen, stallIn, stallOut, callback, short, enabled} \subseteq BOOLEAN
    /\ inOff \in Nat /\ inLen \in 0 .. USB_DEVICE_EP_CTRL_SIZE
    /\ payload \in Nat /\ trans \in Nat /\ prev \in Nat
    /\ state = "DATA_IN" => trans <= payload

\* A transfer begun with no interrupt due is answered in full: when the host
\* has had its status stage it has the whole payload or all it asked for, and
\* every byte in order (udd_ctrl_in_sent, and the zero length packet after a full one).
FullAnswer ==
    ~late /\ In(request) =>
        /\ outcome = "ok" => got \in {Payload(request), request.len}
        /\ phase = "data_in" /\ inReady => inOff = got /\ req = request

\* Stalls are for refusals: a transfer begun with no interrupt due is stalled
\* only if the request was refused (udd_ctrl_underflow and udd_ctrl_overflow).
StallOnlyRefused ==
    ~late /\ outcome = "stall" => state = "STALL_REQ"

\* Host and device agree on the address, whatever requests were abandoned,
\* unless a SET_ADDRESS was: they differ only while the interrupt that ends
\* the status stage is due.
Reachable ==
    ~orphan /\ ~eorst =>
        \/ haddr = addr
        \/ "TRCPT1" \in flags /\ callback /\ req.val = haddr /\ state = "WAIT_IN_ZLP"

\* A transfer begun with no interrupt due comes to its end by itself; OUT data
\* is never accepted and its transfer ends only when the host gives it up.
Answered ==
    (phase # "idle" /\ phase # "data_out" /\ ~late /\ ~orphan)
        ~> (phase = "idle" \/ phase = "data_out" \/ late \/ orphan)

\* What the device has decided about the host's request
verdict ==
    IF phase = "idle" THEN "none" ELSE IF "RXSTP" \in flags THEN "pending"
    ELSE IF state = "STALL_REQ" THEN "refused" ELSE "accepted"

Promise == INSTANCE ControlTransfer WITH
    PacketSize <- USB_DEVICE_EP_CTRL_SIZE, resetting <- eorst

\* The control endpoint keeps what ControlTransfer promises: a request is
\* decided once and as a whole, also when the host is steps ahead.
KeepsPromise == Promise!Spec

=============================================================================
