----------------------------- MODULE TmcTransfer -----------------------------
(***************************************************************************)
(* USBTMC bulk transfers: the message layer (udi_tmc.c and the second half *)
(* of main.c) on the jobs of the endpoint driver (usb_device_udd.c), as    *)
(* the device core (udc.c) enables, disables and halts its endpoints.      *)
(*                                                                         *)
(* All of it runs in the USB interrupt.  An endpoint job has two halves:   *)
(* what the driver believes (busy) and what the peripheral does (armed: it *)
(* will move a packet; pend: it has, and its interrupt is due).  The host  *)
(* acts on the second half, the handlers on both, and a control request    *)
(* may come between any two handlers.                                      *)
(***************************************************************************)
EXTENDS Integers

CONSTANTS
    Messages,    \* what the host may send: [id, tag, size, attr]
    HostOps,     \* the control requests and bus events that may occur
    AdcSizes,    \* the byte counts send_ADC_data may return
    DEVICE_DATA_BUFFER_SIZE,  \* what one response can carry: 10000
    UDD_ENDPOINT_MAX_TRANS    \* what one hardware transfer can move: 8191

ASSUME MessagesAssumption ==
    Messages \subseteq [id : {"REQUEST", "COMMAND", "RST", "OTHER"},
                        tag : 1..255, size : Nat, attr : {0, 1}]
ASSUME HostOpsAssumption ==
    HostOps \subseteq {"ABORT", "CLEAR", "HALT", "UNHALT", "UNSTALL", "UNCONFIGURE", "REUSE"}
ASSUME AdcSizesAssumption == AdcSizes \subseteq Nat /\ 0 \in AdcSizes

VARIABLES
    inp, out,       \* the bulk IN and OUT endpoints and their jobs
    hdr,            \* bulkOUTmsgHeader: the message received last
    request,        \* activeDataRequest
    xfer,           \* g_bulkIN_xfer_active
    cmd_resp, cmd_len,  \* a reply is waiting in cmd_txbuf; its length
    resp,           \* deviceDataResponse: the message being sent
    answer,         \* g_bulk_abort_response: the last control answer
    asked           \* ghost: the transferSize of the request named by request.bTag

bulk == <<inp, out>>
command == <<cmd_resp, cmd_len>>
vars == <<inp, out, hdr, request, xfer, cmd_resp, cmd_len, resp, answer, asked>>

----------------------------------------------------------------------------
(* Sizes *)

ADC_BYTES_PER_SAMPLE == 18
HEADER_SIZE == 12
EP_SIZE == 64
ASSUME SizesAssumption ==
    /\ DEVICE_DATA_BUFFER_SIZE \in Nat /\ DEVICE_DATA_BUFFER_SIZE > 0
    /\ UDD_ENDPOINT_MAX_TRANS \in Nat /\ UDD_ENDPOINT_MAX_TRANS >= EP_SIZE

Least(m, n) == IF m <= n THEN m ELSE n

\* A message whose last packet would be full gets one byte more, since no
\* zero length packet is asked for.
Padded(n) == IF n % EP_SIZE = 52 THEN n + 1 ELSE n

\* What one hardware transfer moves of n bytes
Chunk(n) ==
    IF UDD_ENDPOINT_MAX_TRANS < n
    THEN UDD_ENDPOINT_MAX_TRANS - (UDD_ENDPOINT_MAX_TRANS % EP_SIZE) ELSE n

----------------------------------------------------------------------------
(* Endpoints.  The callback of an IN job is main_req_dev_dep_msg_in_sent,   *)
(* which listens again; that of an OUT job, udi_process_bulkOUT_header,     *)
(* ignores every status but OK.                                             *)

Endpoint == [on : BOOLEAN, halted : BOOLEAN, busy : BOOLEAN,
             armed : BOOLEAN, pend : BOOLEAN, left : Nat]
Off == [on |-> FALSE, halted |-> FALSE, busy |-> FALSE,
        armed |-> FALSE, pend |-> FALSE, left |-> 0]

\* udd_ep_run: the job is registered before the peripheral is asked, and
\* stays registered when the peripheral refuses (an endpoint not enabled).
Runnable(e) == ~e.halted /\ ~e.busy
Run(e, n) ==
    IF ~Runnable(e) THEN e
    ELSE [e EXCEPT !.busy = TRUE, !.armed = (@ \/ e.on), !.left = n - Chunk(n)]

\* UDI_TMC_RECEIVE_BULKOUT_COMMAND()
Listen(e) == Run(e, 0)

\* Mutant: the job is taken off, but the peripheral is not told.
AbortedJobOnly(e) == [e EXCEPT !.busy = FALSE]

\* udd_ep_abort, without the callback
Aborted(e) == [e EXCEPT !.busy = FALSE, !.armed = FALSE, !.pend = FALSE, !.left = 0]

\* udd_ep_set_halt, without the callback
Halted(e) == Aborted([e EXCEPT !.halted = TRUE])

\* udd_ep_free, without the callback.  Whether the stall request outlives a
\* disabled endpoint is the peripheral's choice.
Freed(e, stall) == [Aborted(e) EXCEPT !.on = FALSE, !.halted = stall /\ e.halted]

\* What the callback of an aborted or finished IN job does to the OUT endpoint
AfterIn(i, o) == IF i.busy THEN Listen(o) ELSE o

----------------------------------------------------------------------------
NoMessage == [id |-> "OTHER", tag |-> 1, size |-> 0, attr |-> 0]
NoRequest == [bTag |-> 0, remaining |-> 0, transferred |-> 0]
NoResponse == [bTag |-> 0, size |-> 0, eom |-> FALSE]
NoAnswer == [to |-> "NONE", status |-> "SUCCESS", bTag |-> 0, nbytes |-> 0]

Init ==
    /\ inp = Off /\ out = Off
    /\ hdr = NoMessage /\ request = NoRequest /\ xfer = FALSE
    /\ cmd_resp = FALSE /\ cmd_len = 0
    /\ resp = NoResponse /\ answer = NoAnswer /\ asked = 0

----------------------------------------------------------------------------
(* The bus: the host's packets move when the peripheral is armed *)

\* A host that does not "REUSE" tags takes a new one once a transfer is complete.
HostSends(m) ==
    /\ out.armed /\ ~out.halted
    /\ m.id = "REQUEST" /\ "REUSE" \notin HostOps =>
          m.tag # request.bTag \/ request.remaining > 0
    /\ hdr' = m
    /\ out' = [out EXCEPT !.armed = FALSE, !.pend = TRUE]
    /\ UNCHANGED <<inp, request, xfer, command, resp, answer, asked>>

HostTakes ==
    /\ inp.armed /\ ~inp.halted
    /\ inp' = [inp EXCEPT !.armed = FALSE, !.pend = TRUE]
    /\ UNCHANGED <<out, hdr, request, xfer, command, resp, answer, asked>>

----------------------------------------------------------------------------
(* Transfer complete, IN: udd_ep_trans_in_next *)

\* Mutant: the rest of the message is forgotten.
NextChunkForgotten ==
    /\ inp.pend /\ inp.left > 0
    /\ inp' = [inp EXCEPT !.pend = FALSE, !.left = @ - Chunk(@)]
    /\ UNCHANGED <<out, hdr, request, xfer, command, resp, answer, asked>>

NextChunk ==
    /\ inp.pend /\ inp.left > 0
    /\ inp' = [inp EXCEPT !.pend = FALSE, !.armed = TRUE, !.left = @ - Chunk(@)]
    /\ UNCHANGED <<out, hdr, request, xfer, command, resp, answer, asked>>

\* Mutant: the callback does not listen for the next message.
InSentSilently ==
    /\ inp.pend /\ inp.left = 0
    /\ inp' = [inp EXCEPT !.pend = FALSE, !.busy = FALSE]
    /\ UNCHANGED <<out, hdr, request, xfer, command, resp, answer, asked>>

\* The message is out: main_req_dev_dep_msg_in_sent, whatever the job was.
InSent ==
    /\ inp.pend /\ inp.left = 0
    /\ inp' = [inp EXCEPT !.pend = FALSE, !.busy = FALSE]
    /\ out' = Listen(out)
    /\ UNCHANGED <<hdr, request, xfer, command, resp, answer, asked>>

----------------------------------------------------------------------------
(* udi_process_bulkOUT_header, the OUT callback, when it is told OK: by the *)
(* message's id, with o the OUT endpoint, whose job has just ended.         *)

\* A command: command_handler leaves a reply of hdr.size bytes and listens
\* again, and so, to no effect, does its caller.
Command(o) ==
    /\ hdr.id = "COMMAND"
    /\ cmd_resp' = TRUE /\ cmd_len' = hdr.size
    /\ out' = Listen(Listen(o))
    /\ UNCHANGED <<inp, hdr, request, xfer, resp, answer, asked>>

\* The RST command: system_reset() never returns.
Reset ==
    /\ hdr.id = "RST"
    /\ inp' = Off /\ out' = Off
    /\ hdr' = NoMessage /\ request' = NoRequest /\ xfer' = FALSE
    /\ cmd_resp' = FALSE /\ cmd_len' = 0
    /\ resp' = NoResponse /\ answer' = NoAnswer /\ asked' = 0

\* Any other id: udd_ep_abort, and nobody listens any more.
Unknown(o) ==
    /\ hdr.id = "OTHER"
    /\ out' = Aborted(o)
    /\ UNCHANGED <<inp, hdr, request, xfer, command, resp, answer, asked>>

\* A data request with transfer attributes is dropped, again for good.
Ignored(o) ==
    /\ hdr.id = "REQUEST" /\ hdr.attr # 0
    /\ out' = o
    /\ UNCHANGED <<inp, hdr, request, xfer, command, resp, answer, asked>>

\* main_req_dev_dep_msg_in_received: a new tag starts a new transfer ...
Fresh == request.bTag # hdr.tag
TooSmall == Fresh /\ hdr.size < ADC_BYTES_PER_SAMPLE
\* Mutant: a new transfer goes on counting where the old one stopped.
ActiveKeepsCount ==
    IF Fresh /\ ~TooSmall THEN [request EXCEPT !.bTag = hdr.tag, !.remaining = hdr.size]
    ELSE [request EXCEPT !.bTag = hdr.tag]
Active ==
    IF Fresh /\ ~TooSmall THEN [bTag |-> hdr.tag, remaining |-> hdr.size, transferred |-> 0]
    ELSE [request EXCEPT !.bTag = hdr.tag]

\* ... unless it asks for less than a sample or has had all it asked for:
\* false, and the OUT endpoint is halted.
Refused(o) ==
    /\ hdr.id = "REQUEST" /\ hdr.attr = 0
    /\ TooSmall \/ Active.remaining = 0
    /\ request' = Active
    /\ asked' = IF Fresh THEN hdr.size ELSE asked
    /\ out' = Halted(o)
    /\ UNCHANGED <<inp, hdr, xfer, command, resp, answer>>

\* The bytes put into the response: a waiting reply, else samples, else one NUL.
\* Mutant: a reply is not cut to what was asked for.
ProducedUncut(rem) ==
    IF cmd_resp /\ cmd_len > 0 THEN {cmd_len}
    ELSE IF cmd_resp THEN {1}
    ELSE {IF k = 0 THEN 1 ELSE k :
             k \in {j \in AdcSizes : j <= Least(rem, DEVICE_DATA_BUFFER_SIZE)}}
Produced(rem) ==
    IF cmd_resp /\ cmd_len > 0
    THEN {Least(Least(rem, DEVICE_DATA_BUFFER_SIZE), cmd_len)}
    ELSE IF cmd_resp THEN {1}
    ELSE {IF k = 0 THEN 1 ELSE k :
             k \in {j \in AdcSizes : j <= Least(rem, DEVICE_DATA_BUFFER_SIZE)}}

\* The response is written before udi_tmc_bulk_in_run is asked whether it can
\* be sent; when it cannot, the OUT endpoint is halted.
Served(o) ==
    /\ hdr.id = "REQUEST" /\ hdr.attr = 0
    /\ ~TooSmall /\ Active.remaining > 0
    /\ \E n \in Produced(Active.remaining) :
          /\ request' = [Active EXCEPT !.remaining = @ - n, !.transferred = @ + n]
          /\ resp' = [bTag |-> hdr.tag, size |-> n, eom |-> Active.remaining = n]
          /\ inp' = Run(inp, HEADER_SIZE + Padded(n))
    /\ asked' = IF Fresh THEN hdr.size ELSE asked
    /\ cmd_resp' = FALSE
    /\ out' = IF Runnable(inp) /\ inp.on THEN o ELSE Halted(o)
    /\ UNCHANGED <<hdr, xfer, cmd_len, answer>>

Process(o) ==
    Command(o) \/ Reset \/ Unknown(o) \/ Ignored(o) \/ Refused(o) \/ Served(o)

\* Transfer complete, OUT: udd_ep_trans_out_next.  The interrupt handler serves
\* IN first.
Done == [out EXCEPT !.pend = FALSE, !.busy = FALSE]
Received == out.pend /\ ~inp.pend /\ Process(Done)

----------------------------------------------------------------------------
(* Control requests of the USBTMC class, which a configured device accepts *)

Accepts(op) == op \in HostOps /\ out.on

\* abort_tmc_bulkIN_transfer: the endpoint's job is not touched.
Forget == request' = NoRequest /\ asked' = 0 /\ xfer' = FALSE

\* INITIATE_ABORT_BULK_IN: an else is missing before the second status.
InitiateAbortIn ==
    /\ Accepts("ABORT")
    /\ IF request.bTag # 0 THEN Forget ELSE UNCHANGED <<request, asked, xfer>>
    /\ answer' = [to |-> "ABORT_IN", status |-> "NOT_IN_PROGRESS",
                  bTag |-> request'.bTag, nbytes |-> 0]
    /\ UNCHANGED <<bulk, hdr, command, resp>>

CheckAbortIn ==
    /\ Accepts("ABORT")
    /\ answer' = [to |-> "CHECK_ABORT_IN",
                  status |-> IF xfer THEN "SUCCESS" ELSE "NOT_IN_PROGRESS",
                  bTag |-> 0, nbytes |-> request.transferred]
    /\ UNCHANGED <<bulk, hdr, request, xfer, command, resp, asked>>

\* udd_ep_clear_halt takes any job, of an endpoint halted or not, for one that
\* waits for the halt to be cleared: it ends the job and calls its callback,
\* although the peripheral goes on.
ClearHalt(e) == [e EXCEPT !.halted = FALSE, !.busy = FALSE]

\* INITIATE_CLEAR does so to the IN endpoint.
InitiateClear ==
    /\ Accepts("CLEAR")
    /\ answer' = [to |-> "CLEAR", status |-> "SUCCESS", bTag |-> 0, nbytes |-> 0]
    /\ inp' = ClearHalt(inp)
    /\ out' = AfterIn(inp, out)
    /\ UNCHANGED <<hdr, request, xfer, command, resp, asked>>

\* CHECK_CLEAR_STATUS: always "cleared"
CheckClear ==
    /\ Accepts("CLEAR")
    /\ answer' = [to |-> "CHECK_CLEAR", status |-> "SUCCESS", bTag |-> 0, nbytes |-> 0]
    /\ UNCHANGED <<bulk, hdr, request, xfer, command, resp, asked>>

----------------------------------------------------------------------------
(* Standard requests and bus events *)

\* SET_FEATURE(ENDPOINT_HALT)
HaltIn ==
    /\ "HALT" \in HostOps
    /\ inp' = Halted(inp)
    /\ out' = AfterIn(inp, out)
    /\ UNCHANGED <<hdr, request, xfer, command, resp, answer, asked>>

HaltOut ==
    /\ "HALT" \in HostOps
    /\ out' = Halted(out)
    /\ UNCHANGED <<inp, hdr, request, xfer, command, resp, answer, asked>>

\* CLEAR_FEATURE(ENDPOINT_HALT), at any time ("UNHALT") or only from a host that
\* has seen the stall ("UNSTALL"): udc.c forwards either.
Unhalts(e) == "UNHALT" \in HostOps \/ ("UNSTALL" \in HostOps /\ e.halted)

UnhaltIn ==
    /\ Unhalts(inp)
    /\ inp' = ClearHalt(inp)
    /\ out' = AfterIn(inp, out)
    /\ UNCHANGED <<hdr, request, xfer, command, resp, answer, asked>>

\* The OUT callback is called without arguments and takes what the registers hold
\* for them: in the repository's build (Debug/GccBoardProject2.lss, 24ee) a status
\* of 1, ABORT, which it ignores.
UnhaltOut ==
    /\ Unhalts(out)
    /\ out' = ClearHalt(out)
    /\ UNCHANGED <<inp, hdr, request, xfer, command, resp, answer, asked>>

\* udc_iface_disable: the IN endpoint is freed first, and then the OUT endpoint
\* that the callback of its job may have armed.
\* Mutant: the OUT endpoint is freed first.
DisabledOutFirst(i, o, si, so) ==
    /\ inp' = Freed(i, si)
    /\ out' = AfterIn(i, Freed(o, so))
Disabled(i, o, si, so) ==
    /\ inp' = Freed(i, si)
    /\ out' = Freed(AfterIn(i, o), so)

\* A bus reset, or SET_CONFIGURATION(0)
Unconfigure ==
    /\ "UNCONFIGURE" \in HostOps /\ out.on
    /\ \E si, so \in BOOLEAN : Disabled(inp, out, si, so)
    /\ Forget
    /\ UNCHANGED <<hdr, command, resp, answer>>

\* SET_CONFIGURATION(1) on a device that has none: udc_iface_enable and
\* main_tmc_enable.  (On a configured one it is Unconfigure and then this.)
Configure ==
    /\ ~out.on
    /\ inp' = [inp EXCEPT !.on = TRUE]
    /\ out' = Listen([out EXCEPT !.on = TRUE])
    /\ xfer' = TRUE
    /\ UNCHANGED <<hdr, request, command, resp, answer, asked>>

----------------------------------------------------------------------------
IsrIn == NextChunk \/ InSent
IsrOut == Received
Control ==
    \/ InitiateAbortIn \/ CheckAbortIn \/ InitiateClear \/ CheckClear
    \/ HaltIn \/ HaltOut \/ UnhaltIn \/ UnhaltOut
    \/ Unconfigure \/ Configure

Next == (\E m \in Messages : HostSends(m)) \/ HostTakes \/ IsrIn \/ IsrOut \/ Control

Spec == Init /\ [][Next]_vars

\* The USB interrupt is served, and a host that has asked for data takes it.
FairSpec == Spec /\ WF_vars(IsrIn) /\ WF_vars(IsrOut) /\ WF_vars(HostTakes)

----------------------------------------------------------------------------
(* Properties *)

\* Every variable keeps its type; in particular the bytes that remain of a
\* request, an unsigned number in the code (main.c:367), never wrap.
TypeOK ==
    /\ inp \in Endpoint /\ out \in Endpoint
    /\ hdr \in Messages \union {NoMessage}
    /\ request \in [bTag : 0..255, remaining : Nat, transferred : Nat]
    /\ resp \in [bTag : 0..255, size : Nat, eom : BOOLEAN]
    /\ xfer \in BOOLEAN /\ cmd_resp \in BOOLEAN /\ cmd_len \in Nat /\ asked \in Nat
    /\ answer.status \in {"SUCCESS", "NOT_IN_PROGRESS"}

\* A host that asks well (no attributes, at least a sample, no tag again) is
\* always heard: an enabled device listens, or holds a message, or sends one
\* whose end will make it listen (main.c:396).
NeverDeaf ==
    out.on => /\ ~out.halted
              /\ out.armed \/ out.pend \/ inp.armed \/ inp.pend

\* ... and listens for the next message in the end, long responses included.
ListensAgain == out.on ~> (out.armed \/ ~out.on)

\* An endpoint has a registered job exactly while the peripheral works for it:
\* the callback, which ends the job, means that the transfer is over, and no
\* job waits for a transfer that was never started (udd_ep_run, udd_ep_free).
JobMatchesHardware ==
    \A e \in {inp, out} : e.busy <=> e.armed \/ e.pend

\* Whatever the host sends, no job waits for nothing: the peripheral has a
\* transfer for it that ends it, and a halted endpoint, on which none can be
\* started, has none.  A job that did would refuse every later udd_ep_run.
JobServed == \A e \in {inp, out} : e.busy => ~e.halted /\ (e.armed \/ e.pend)

\* Whenever a request can come, the bytes sent and the bytes due add up to
\* what the request of the active tag asked for: CHECK_ABORT_BULK_IN_STATUS
\* reports the first, EOM tells the second (main.c:239, 384).
CountsAddUp ==
    out.armed \/ out.pend => request.remaining + request.transferred = asked

\* deviceDataResponse is not written while the peripheral still reads it.
InFlight == inp.armed \/ inp.pend
ReplyStable == [][InFlight /\ inp'.on => UNCHANGED resp]_vars

\* Aborting a transfer that is active is answered with SUCCESS (main.c:217).
AbortAnswered ==
    [][answer'.to = "ABORT_IN" /\ answer' # answer /\ request.bTag # 0
          => answer'.status = "SUCCESS"]_vars
=============================================================================
