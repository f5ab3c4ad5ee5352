------------------------- MODULE TmcTransferProofs -------------------------
(***************************************************************************)
(* Proofs about TmcTransfer: for every host, types and that no job waits   *)
(* for nothing; for a host that clears no endpoint unless it has seen it   *)
(* stall, the agreement of jobs and peripheral, from which follow that a   *)
(* response is not overwritten on its way and that the byte counts of a    *)
(* request add up; and for one that asks well, that it is heard.           *)
(***************************************************************************)
EXTENDS TmcTransfer, TLAPS

----------------------------------------------------------------------------
(* One endpoint *)

\* The driver's record of an endpoint and the peripheral agree.
Sound(e) ==
    /\ e \in Endpoint
    /\ e.busy <=> e.armed \/ e.pend
    /\ ~(e.armed /\ e.pend)
    /\ e.halted => ~e.busy
    /\ e.busy => e.on

\* A hardware transfer moves at most what is left of the job (udd_ep_run,
\* udd_ep_trans_in_next).
LEMMA ChunkBounds == ASSUME NEW n \in Nat PROVE Chunk(n) \in Nat /\ Chunk(n) <= n
  <1> DEFINE t == UDD_ENDPOINT_MAX_TRANS % EP_SIZE
  <1>1. UDD_ENDPOINT_MAX_TRANS \in Nat /\ UDD_ENDPOINT_MAX_TRANS >= EP_SIZE
    BY SizesAssumption
  <1>2. t \in 0..(EP_SIZE - 1)
    BY <1>1 DEF EP_SIZE
  <1> HIDE DEF t
  <1>3. /\ UDD_ENDPOINT_MAX_TRANS - t \in Nat
        /\ UDD_ENDPOINT_MAX_TRANS - t <= UDD_ENDPOINT_MAX_TRANS
    BY <1>1, <1>2 DEF EP_SIZE
  <1>4. Chunk(n) = IF UDD_ENDPOINT_MAX_TRANS < n THEN UDD_ENDPOINT_MAX_TRANS - t ELSE n
    BY DEF Chunk, t
  <1> QED BY <1>1, <1>3, <1>4

\* Starting a job keeps an endpoint's type (udd_ep_run).
LEMMA RunType ==
    ASSUME NEW e \in Endpoint, NEW n \in Nat
    PROVE  Run(e, n) \in Endpoint /\ Run(e, n).on = e.on
  <1> DEFINE rest == n - Chunk(n)
  <1>1. rest \in Nat
    BY ChunkBounds
  <1> HIDE DEF rest
  <1>2. Run(e, n) = IF ~Runnable(e) THEN e
                    ELSE [e EXCEPT !.busy = TRUE, !.armed = (@ \/ e.on), !.left = rest]
    BY DEF Run, rest
  <1> QED BY <1>1, <1>2 DEF Endpoint

\* On an enabled endpoint it starts the peripheral and the job together.
LEMMA RunSound ==
    ASSUME NEW e, Sound(e), e.on, NEW n \in Nat
    PROVE  /\ Sound(Run(e, n)) /\ Run(e, n).on
           /\ Run(e, n).busy => Runnable(e) \/ e.busy
  <1> DEFINE rest == n - Chunk(n)
  <1>1. rest \in Nat
    BY ChunkBounds
  <1> HIDE DEF rest
  <1>2. Run(e, n) = IF ~Runnable(e) THEN e
                    ELSE [e EXCEPT !.busy = TRUE, !.armed = (@ \/ e.on), !.left = rest]
    BY DEF Run, rest
  <1> QED BY <1>1, <1>2 DEF Sound, Endpoint, Runnable

\* Aborting, halting, freeing and ending a job leave none, of driver or
\* peripheral.
LEMMA StopSound ==
    ASSUME NEW e \in Endpoint, NEW stall \in BOOLEAN
    PROVE  /\ Sound(Aborted(e)) /\ ~Aborted(e).busy /\ Aborted(e).on = e.on
           /\ Sound(Halted(e)) /\ ~Halted(e).busy /\ Halted(e).on = e.on
           /\ Sound(Freed(e, stall)) /\ ~Freed(e, stall).busy /\ ~Freed(e, stall).on
  BY DEF Sound, Endpoint, Aborted, Halted, Freed

\* Clearing the halt of a halted endpoint (udd_ep_clear_halt) finds no job.
LEMMA ClearSound ==
    ASSUME NEW e \in Endpoint
    PROVE  /\ ClearHalt(e) \in Endpoint /\ ClearHalt(e).on = e.on /\ ~ClearHalt(e).busy
           /\ Sound(e) /\ e.halted => Sound(ClearHalt(e))
  BY DEF Sound, Endpoint, ClearHalt

----------------------------------------------------------------------------
(* Types, for every host.  Both endpoints are enabled and disabled together. *)

OnTogether == inp.on <=> out.on
Typed == TypeOK /\ OnTogether

Requests == [bTag : 0..255, remaining : Nat, transferred : Nat]
Responses == [bTag : 0..255, size : Nat, eom : BOOLEAN]

LEMMA OffSound == Sound(Off) /\ Off \in Endpoint /\ ~Off.on /\ ~Off.busy
  BY DEF Sound, Off, Endpoint

LEMMA NothingTyped ==
    NoRequest \in Requests /\ NoResponse \in Responses /\ NoAnswer.status = "SUCCESS"
  BY DEF NoRequest, NoResponse, NoAnswer, Requests, Responses

LEMMA PaddedType == ASSUME NEW n \in Nat PROVE HEADER_SIZE + Padded(n) \in Nat
  BY DEF HEADER_SIZE, Padded, EP_SIZE

\* A response never has more bytes than remain of the request.
LEMMA ProducedBounds ==
    ASSUME TypeOK, NEW rem \in Nat, rem > 0, NEW n \in Produced(rem)
    PROVE  n \in Nat /\ n <= rem
<1>1. DEVICE_DATA_BUFFER_SIZE \in Nat /\ cmd_len \in Nat /\ AdcSizes \subseteq Nat
  BY SizesAssumption, AdcSizesAssumption DEF TypeOK
<1>2. Least(rem, DEVICE_DATA_BUFFER_SIZE) \in Nat /\ Least(rem, DEVICE_DATA_BUFFER_SIZE) <= rem
  BY <1>1 DEF Least
<1>3. /\ Least(Least(rem, DEVICE_DATA_BUFFER_SIZE), cmd_len) \in Nat
      /\ Least(Least(rem, DEVICE_DATA_BUFFER_SIZE), cmd_len) <= rem
  BY <1>1, <1>2 DEF Least
<1> QED
  BY <1>1, <1>2, <1>3 DEF Produced

\* The request that a received header makes the active one.
LEMMA ActiveType ==
    ASSUME TypeOK, hdr \in Messages
    PROVE  Active \in Requests /\ hdr.size \in Nat /\ hdr.tag \in 1..255 /\ Active.bTag = hdr.tag
  BY MessagesAssumption DEF TypeOK, Active, Requests

LEMMA InitTyped == Init => Typed
<1> SUFFICES ASSUME Init PROVE Typed
  OBVIOUS
<1>1. request \in Requests /\ resp \in Responses /\ answer.status = "SUCCESS"
  BY NothingTyped DEF Init
<1> QED
  BY <1>1, OffSound DEF Init, Typed, TypeOK, OnTogether, Requests, Responses

\* What a step does to the endpoints keeps their types.
LEMMA EndpointUpdates ==
    ASSUME NEW e \in Endpoint
    PROVE  /\ [e EXCEPT !.armed = FALSE, !.pend = TRUE] \in Endpoint
           /\ [e EXCEPT !.pend = FALSE, !.busy = FALSE] \in Endpoint
           /\ [e EXCEPT !.on = TRUE] \in Endpoint
           /\ [e EXCEPT !.armed = FALSE, !.pend = TRUE].on = e.on
           /\ [e EXCEPT !.pend = FALSE, !.busy = FALSE].on = e.on
           /\ [e EXCEPT !.on = TRUE].on
           /\ Listen(e) \in Endpoint /\ Listen(e).on = e.on
<1>1. Listen(e) \in Endpoint /\ Listen(e).on = e.on
  BY RunType DEF Listen
<1> QED
  BY <1>1 DEF Endpoint

\* Nor does handling a message, with the OUT endpoint as its ended job left it.
LEMMA ProcessTyped ==
    ASSUME Typed, NEW o \in Endpoint, o.on = out.on, Process(o)
    PROVE  Typed'
<1>t. /\ inp \in Endpoint /\ out \in Endpoint /\ OnTogether
      /\ request \in Requests /\ resp \in Responses /\ asked \in Nat
  BY DEF Typed, TypeOK, Requests, Responses
<1>f. request' \in Requests => request' \in [bTag : 0..255, remaining : Nat, transferred : Nat]
  BY DEF Requests
<1>1. CASE Command(o)
  <2>1. out' \in Endpoint /\ out'.on = out.on
    BY <1>1, <1>t, EndpointUpdates DEF Command
  <2>2. hdr \in Messages
    BY <1>1 DEF Command, Typed, TypeOK, NoMessage
  <2> QED
    BY <1>1, <2>1, <2>2, ActiveType DEF Command, Typed, TypeOK, OnTogether
<1>2. CASE Reset
  <2>1. /\ inp' \in Endpoint /\ out' \in Endpoint /\ OnTogether'
        /\ request' \in Requests /\ resp' \in Responses /\ answer'.status = "SUCCESS"
    BY <1>2, OffSound, NothingTyped DEF Reset, OnTogether
  <2>2. /\ hdr' = NoMessage /\ xfer' = FALSE /\ cmd_resp' = FALSE
        /\ cmd_len' = 0 /\ asked' = 0
    BY <1>2 DEF Reset
  <2> QED
    BY <2>1, <2>2 DEF Typed, TypeOK, Requests, Responses
<1>3. CASE Unknown(o)
  <2>1. out' \in Endpoint /\ out'.on = out.on
    BY <1>3, StopSound DEF Unknown, Sound
  <2> QED
    BY <1>3, <2>1 DEF Unknown, Typed, TypeOK, OnTogether, command
<1>4. CASE Ignored(o)
  BY <1>4, <1>t DEF Ignored, Typed, TypeOK, OnTogether, command
<1>5. CASE Refused(o)
  <2>1. out' \in Endpoint /\ out'.on = out.on
    BY <1>5, StopSound DEF Refused, Sound
  <2>2. hdr \in Messages
    BY <1>5 DEF Refused, Typed, TypeOK, NoMessage
  <2>3. request' \in Requests /\ asked' \in Nat
    BY <1>5, <1>t, <2>2, ActiveType DEF Refused, Typed
  <2> QED
    BY <1>5, <1>f, <2>1, <2>3 DEF Refused, Typed, TypeOK, OnTogether, command
<1>6. CASE Served(o)
  <2>1. out' \in Endpoint /\ out'.on = out.on
    BY <1>6, StopSound DEF Served, Sound
  <2>2. hdr \in Messages
    BY <1>6 DEF Served, Typed, TypeOK, NoMessage
  <2>3. Active \in Requests /\ asked' \in Nat /\ hdr.tag \in 0..255
    BY <1>6, <1>t, <2>2, ActiveType DEF Served, Typed
  <2>4. PICK n \in Produced(Active.remaining) :
          /\ request' = [Active EXCEPT !.remaining = @ - n, !.transferred = @ + n]
          /\ resp' = [bTag |-> hdr.tag, size |-> n, eom |-> Active.remaining = n]
          /\ inp' = Run(inp, HEADER_SIZE + Padded(n))
    BY <1>6 DEF Served
  <2>5. n \in Nat /\ n <= Active.remaining
    BY <1>6, <2>3, ProducedBounds DEF Served, Typed, Requests
  <2>6. request' \in Requests /\ resp' \in Responses
    <3>1. Active.remaining - n \in Nat /\ Active.transferred + n \in Nat
      BY <2>3, <2>5 DEF Requests
    <3>2. request' \in Requests
      BY <2>3, <2>4, <3>1 DEF Requests
    <3>3. \A b \in BOOLEAN : [bTag |-> hdr.tag, size |-> n, eom |-> b] \in Responses
      BY <2>3, <2>5 DEF Responses
    <3>4. (Active.remaining = n) \in BOOLEAN
      OBVIOUS
    <3> QED
      BY <2>4, <3>2, <3>3, <3>4
  <2>7. inp' \in Endpoint /\ inp'.on = inp.on
    <3>1. HEADER_SIZE + Padded(n) \in Nat
      BY <2>5, PaddedType
    <3> QED
      BY <1>t, <2>4, <3>1, RunType
  <2>8. resp' \in [bTag : 0..255, size : Nat, eom : BOOLEAN]
    BY <2>6 DEF Responses
  <2>9. request' \in [bTag : 0..255, remaining : Nat, transferred : Nat]
    BY <1>f, <2>6
  <2>10. hdr' = hdr /\ cmd_resp' = FALSE /\ UNCHANGED <<xfer, cmd_len, answer>>
    BY <1>6 DEF Served
  <2> QED
    BY <2>1, <2>3, <2>7, <2>8, <2>9, <2>10 DEF Typed, TypeOK, OnTogether
<1> QED
  BY <1>1, <1>2, <1>3, <1>4, <1>5, <1>6 DEF Process

LEMMA StepTyped == Typed /\ [Next]_vars => Typed'
<1> SUFFICES ASSUME Typed, [Next]_vars PROVE Typed'
  OBVIOUS
<1>t. /\ inp \in Endpoint /\ out \in Endpoint /\ OnTogether
      /\ request \in Requests /\ resp \in Responses /\ asked \in Nat
  BY DEF Typed, TypeOK, Requests, Responses
<1>d. Done \in Endpoint /\ Done.on = out.on
  BY <1>t, EndpointUpdates DEF Done
<1>a. AfterIn(inp, out) \in Endpoint /\ AfterIn(inp, out).on = out.on
  BY <1>t, EndpointUpdates DEF AfterIn
<1>f. request' \in Requests => request' \in [bTag : 0..255, remaining : Nat, transferred : Nat]
  BY DEF Requests
<1>1. ASSUME NEW m \in Messages, HostSends(m) PROVE Typed'
  BY <1>1, <1>t, EndpointUpdates DEF HostSends, Typed, TypeOK, OnTogether, command
<1>2. CASE HostTakes
  BY <1>2, <1>t, EndpointUpdates DEF HostTakes, Typed, TypeOK, OnTogether, command
<1>3. CASE NextChunk
  <2>1. inp.left - Chunk(inp.left) \in Nat
    BY <1>t, ChunkBounds DEF Endpoint
  <2>2. inp' \in Endpoint /\ inp'.on = inp.on
    BY <1>3, <1>t, <2>1 DEF NextChunk, Endpoint
  <2> QED
    BY <1>3, <2>2 DEF NextChunk, Typed, TypeOK, OnTogether, command
<1>4. CASE InSent
  BY <1>4, <1>t, EndpointUpdates DEF InSent, Typed, TypeOK, OnTogether, command
<1>5. CASE Received
  BY <1>5, <1>d, ProcessTyped DEF Received
<1>11. CASE InitiateAbortIn
  <2>1. request' \in Requests /\ asked' \in Nat /\ xfer' \in BOOLEAN
    <3>1. CASE request.bTag # 0
      <4>1. request' = NoRequest /\ asked' = 0 /\ xfer' = FALSE
        BY <1>11, <3>1 DEF InitiateAbortIn, Forget
      <4> QED
        BY <4>1, NothingTyped
    <3>2. CASE request.bTag = 0
      BY <1>11, <1>t, <3>2 DEF InitiateAbortIn, Typed, TypeOK
    <3> QED
      BY <3>1, <3>2
  <2> QED
    BY <1>11, <1>f, <2>1 DEF InitiateAbortIn, Typed, TypeOK, OnTogether, bulk, command
<1>12. CASE CheckAbortIn
  BY <1>12 DEF CheckAbortIn, Typed, TypeOK, OnTogether, bulk, command
<1>13. CASE InitiateClear
  BY <1>13, <1>t, <1>a, ClearSound DEF InitiateClear, Typed, TypeOK, OnTogether, command
<1>14. CASE CheckClear
  BY <1>14 DEF CheckClear, Typed, TypeOK, OnTogether, bulk, command
<1>15. CASE HaltIn
  BY <1>15, <1>t, <1>a, StopSound DEF HaltIn, Sound, Typed, TypeOK, OnTogether, command
<1>16. CASE HaltOut
  BY <1>16, <1>t, StopSound DEF HaltOut, Sound, Typed, TypeOK, OnTogether, command
<1>17. CASE UnhaltIn
  BY <1>17, <1>t, <1>a, ClearSound DEF UnhaltIn, Typed, TypeOK, OnTogether, command
<1>18. CASE UnhaltOut
  BY <1>18, <1>t, ClearSound DEF UnhaltOut, Typed, TypeOK, OnTogether, command
<1>19. CASE Unconfigure
  <2>1. PICK si, so \in BOOLEAN : Disabled(inp, out, si, so)
    BY <1>19 DEF Unconfigure
  <2>2. inp' \in Endpoint /\ out' \in Endpoint /\ ~inp'.on /\ ~out'.on
    BY <1>t, <1>a, <2>1, StopSound DEF Disabled, Sound
  <2>3. request' \in Requests /\ asked' \in Nat /\ xfer' \in BOOLEAN
    <3>1. request' = NoRequest /\ asked' = 0 /\ xfer' = FALSE
      BY <1>19 DEF Unconfigure, Forget
    <3> QED
      BY <3>1, NothingTyped
  <2> QED
    BY <1>19, <1>f, <2>2, <2>3 DEF Unconfigure, Typed, TypeOK, OnTogether, command
<1>20. CASE Configure
  <2>1. inp' \in Endpoint /\ out' \in Endpoint /\ inp'.on /\ out'.on
    BY <1>20, <1>t, EndpointUpdates DEF Configure
  <2> QED
    BY <1>20, <2>1 DEF Configure, Typed, TypeOK, OnTogether, command
<1>21. CASE UNCHANGED vars
  BY <1>21 DEF vars, bulk, command, Typed, TypeOK, OnTogether
<1> QED
  BY <1>1, <1>2, <1>3, <1>4, <1>5, <1>11, <1>12,
     <1>13, <1>14, <1>15, <1>16, <1>17, <1>18, <1>19, <1>20, <1>21
     DEF Next, IsrIn, IsrOut, Control

\* Every variable keeps its type whatever messages and requests the host
\* sends: the unsigned byte counts of a request never wrap (main.c:367).
THEOREM TypeCorrectness == Spec => []TypeOK
<1>1. Init => Typed
  BY InitTyped
<1>2. Typed /\ [Next]_vars => Typed'
  BY StepTyped
<1>3. Typed => TypeOK
  BY DEF Typed
<1> QED
  BY <1>1, <1>2, <1>3, PTL DEF Spec

----------------------------------------------------------------------------
(* Jobs, for every host.  A job may be ended early, or the peripheral go on *)
(* without one, but never the other way round.                              *)

Attended(e) ==
    /\ e.busy => ~e.halted /\ (e.armed \/ e.pend)
    /\ e.armed \/ e.pend => e.on

Serving == Attended(inp) /\ Attended(out)

\* What is done to an endpoint keeps it so; a job is only started on one that
\* is enabled.
LEMMA AttendedUpdates ==
    ASSUME NEW e \in Endpoint, Attended(e), NEW stall \in BOOLEAN
    PROVE  /\ Attended(Aborted(e)) /\ Attended(Halted(e)) /\ Attended(Freed(e, stall))
           /\ Attended(ClearHalt(e))
           /\ Attended([e EXCEPT !.pend = FALSE, !.busy = FALSE])
           /\ e.armed => Attended([e EXCEPT !.armed = FALSE, !.pend = TRUE])
           /\ Attended([e EXCEPT !.on = TRUE])
  BY DEF Attended, Endpoint, Aborted, Halted, Freed, ClearHalt

LEMMA RunAttended ==
    ASSUME NEW e \in Endpoint, Attended(e), e.on, NEW n \in Nat
    PROVE  Attended(Run(e, n)) /\ Run(e, n) \in Endpoint /\ Run(e, n).on
<1> DEFINE rest == n - Chunk(n)
<1> HIDE DEF rest
<1>1. Run(e, n) = IF ~Runnable(e) THEN e
                  ELSE [e EXCEPT !.busy = TRUE, !.armed = (@ \/ e.on), !.left = rest]
  BY DEF Run, rest
<1>2. Attended(Run(e, n))
  BY <1>1 DEF Attended, Endpoint, Runnable
<1> QED
  BY <1>2, RunType

\* The IN callback listens only if the IN endpoint had a job, and so is enabled.
LEMMA AfterInAttended ==
    ASSUME Typed, Serving, NEW o \in Endpoint, Attended(o), o.on = out.on
    PROVE  Attended(AfterIn(inp, o)) /\ AfterIn(inp, o) \in Endpoint
<1>1. CASE inp.busy
  <2>1. o.on
    BY <1>1 DEF Serving, Attended, Typed, OnTogether
  <2> QED
    BY <1>1, <2>1, RunAttended DEF AfterIn, Listen
<1> QED
  BY <1>1 DEF AfterIn

LEMMA ProcessServing ==
    ASSUME Typed, Serving, NEW o \in Endpoint, Attended(o), o.on, out.on, Process(o)
    PROVE  Serving'
<1>t. inp \in Endpoint /\ out \in Endpoint /\ inp.on
  BY DEF Typed, TypeOK, OnTogether
<1>s. Attended(inp) /\ Attended(out)
  BY DEF Serving
<1>1. CASE Command(o)
  <2>1. Listen(o) \in Endpoint /\ Attended(Listen(o)) /\ Listen(o).on
    BY RunAttended DEF Listen
  <2>2. Attended(Listen(Listen(o)))
    BY <2>1, RunAttended DEF Listen
  <2> QED
    BY <1>1, <1>s, <2>2 DEF Command, Serving
<1>2. CASE Reset
  BY <1>2 DEF Reset, Serving, Attended, Off
<1>3. CASE Unknown(o) \/ Ignored(o)
  BY <1>3, <1>s, AttendedUpdates DEF Unknown, Ignored, Serving
<1>4. CASE Refused(o)
  BY <1>4, <1>s, AttendedUpdates DEF Refused, Serving
<1>5. CASE Served(o)
  <2>1. hdr \in Messages
    BY <1>5 DEF Served, Typed, TypeOK, NoMessage
  <2>2. Active.remaining \in Nat
    BY <2>1, ActiveType DEF Typed, Requests
  <2>3. PICK n \in Produced(Active.remaining) : inp' = Run(inp, HEADER_SIZE + Padded(n))
    BY <1>5 DEF Served
  <2>4. HEADER_SIZE + Padded(n) \in Nat
    BY <1>5, <2>2, ProducedBounds, PaddedType DEF Served, Typed
  <2>5. Attended(inp')
    BY <1>t, <1>s, <2>3, <2>4, RunAttended
  <2>6. Attended(out')
    BY <1>5, AttendedUpdates DEF Served
  <2> QED
    BY <2>5, <2>6 DEF Serving
<1> QED
  BY <1>1, <1>2, <1>3, <1>4, <1>5 DEF Process

LEMMA StepServing == Typed /\ Serving /\ [Next]_vars => Serving'
<1> SUFFICES ASSUME Typed, Serving, [Next]_vars PROVE Serving'
  OBVIOUS
<1>t. inp \in Endpoint /\ out \in Endpoint /\ (inp.on <=> out.on)
  BY DEF Typed, TypeOK, OnTogether
<1>s. Attended(inp) /\ Attended(out)
  BY DEF Serving
<1>a. Attended(AfterIn(inp, out)) /\ AfterIn(inp, out) \in Endpoint
  BY <1>t, <1>s, AfterInAttended
<1>1. CASE \E m \in Messages : HostSends(m)
  BY <1>1, <1>t, <1>s, AttendedUpdates DEF HostSends, Serving
<1>2. CASE HostTakes
  BY <1>2, <1>t, <1>s, AttendedUpdates DEF HostTakes, Serving
<1>3. CASE NextChunk
  BY <1>3, <1>t, <1>s DEF NextChunk, Serving, Attended, Endpoint
<1>4. CASE InSent
  <2>1. Attended(inp')
    BY <1>4, <1>t, <1>s, AttendedUpdates DEF InSent
  <2>2. out.on
    BY <1>4, <1>t, <1>s DEF InSent, Attended
  <2>3. Attended(out')
    BY <1>4, <1>t, <1>s, <2>2, RunAttended DEF InSent, Listen
  <2> QED
    BY <2>1, <2>3 DEF Serving
<1>5. CASE Received
  <2>1. Done \in Endpoint /\ Attended(Done) /\ Done.on /\ out.on
    BY <1>5, <1>t, <1>s DEF Received, Done, Attended, Endpoint
  <2> QED
    BY <1>5, <2>1, ProcessServing DEF Received
<1>6. CASE InitiateAbortIn \/ CheckAbortIn \/ CheckClear
  BY <1>6, <1>s DEF InitiateAbortIn, CheckAbortIn, CheckClear, bulk, Serving
<1>7. CASE InitiateClear
  BY <1>7, <1>t, <1>s, <1>a, AttendedUpdates DEF InitiateClear, Serving
<1>8. CASE HaltIn \/ UnhaltIn
  BY <1>8, <1>t, <1>s, <1>a, AttendedUpdates DEF HaltIn, UnhaltIn, Serving
<1>9. CASE HaltOut \/ UnhaltOut
  BY <1>9, <1>t, <1>s, AttendedUpdates DEF HaltOut, UnhaltOut, Serving
<1>11. CASE Unconfigure
  <2>1. PICK si, so \in BOOLEAN : Disabled(inp, out, si, so)
    BY <1>11 DEF Unconfigure
  <2> QED
    BY <1>t, <1>s, <1>a, <2>1, AttendedUpdates DEF Disabled, Serving
<1>12. CASE Configure
  <2> DEFINE o == [out EXCEPT !.on = TRUE]
  <2>1. o \in Endpoint /\ Attended(o) /\ o.on
    BY <1>t, <1>s, AttendedUpdates, EndpointUpdates
  <2>2. out' = Listen(o) /\ inp' = [inp EXCEPT !.on = TRUE]
    BY <1>12 DEF Configure
  <2> HIDE DEF o
  <2> QED
    BY <1>t, <1>s, <2>1, <2>2, RunAttended, AttendedUpdates DEF Listen, Serving
<1>13. CASE UNCHANGED vars
  BY <1>13, <1>s DEF vars, bulk, Serving
<1> QED
  BY <1>1, <1>2, <1>3, <1>4, <1>5, <1>6, <1>7, <1>8, <1>9, <1>11, <1>12, <1>13
     DEF Next, IsrIn, IsrOut, Control

\* Whatever the host sends, a registered job has a transfer of the peripheral
\* that will end it, and a halted endpoint has none: no endpoint ever stays busy
\* for nothing, refusing all that is to be sent or received.
THEOREM ServedTheorem == Spec => []JobServed
<1>1. Init => Typed /\ Serving
  BY InitTyped DEF Init, Off, Serving, Attended
<1>2. Typed /\ Serving /\ [Next]_vars => (Typed /\ Serving)'
  BY StepTyped, StepServing
<1>3. Typed /\ Serving => JobServed
  BY DEF Serving, Attended, JobServed
<1> QED
  BY <1>1, <1>2, <1>3, PTL DEF Spec

----------------------------------------------------------------------------
(* Jobs and byte counts, for a host that sends neither INITIATE_CLEAR nor   *)
(* CLEAR_FEATURE(ENDPOINT_HALT) for an endpoint that is not halted.  The    *)
(* two endpoints take turns: the OUT job ends in the handler that starts    *)
(* the IN job, and the IN callback starts the OUT job.  A count that a      *)
(* refused request leaves behind is never used, since the halted OUT        *)
(* endpoint gets no job before the next configuration.                      *)

ClearsOnlyStalls == "CLEAR" \notin HostOps /\ "UNHALT" \notin HostOps

Turns == Sound(inp) /\ Sound(out) /\ ~(inp.busy /\ out.busy)
Sum == request.remaining + request.transferred = asked
Counted == inp.busy \/ out.busy \/ ~out.on => Sum
Jobs == Turns /\ Counted

LEMMA InitJobs == Init => Jobs
  BY OffSound DEF Init, Jobs, Turns, Counted, Sum, NoRequest

\* The IN callback listens on an endpoint that is enabled and has no job.
LEMMA AfterInSound ==
    ASSUME Typed, Jobs
    PROVE  Sound(AfterIn(inp, out)) /\ AfterIn(inp, out).on = out.on
<1>1. CASE ~inp.busy
  BY <1>1 DEF AfterIn, Jobs, Turns
<1>2. CASE inp.busy
  <2>1. Sound(out) /\ out.on
    BY <1>2 DEF Jobs, Turns, Sound, Typed, OnTogether
  <2> QED
    BY <1>2, <2>1, RunSound DEF AfterIn, Listen
<1> QED
  BY <1>1, <1>2

\* Handling a message keeps them, once the OUT job has ended.
LEMMA ProcessJobs ==
    ASSUME Typed, Jobs, Sum, out.on, ~inp.busy,
           NEW o, Sound(o), o.on, ~o.busy, ~o.halted, Process(o)
    PROVE  Jobs'
<1>s. Sound(inp) /\ Sound(out) /\ o \in Endpoint /\ OnTogether
  BY DEF Jobs, Turns, Typed, Sound
<1>z. ASSUME request' = NoRequest, asked' = 0 PROVE Sum'
  BY <1>z DEF Sum, NoRequest
<1>k. ASSUME UNCHANGED <<request, asked>>, Sum PROVE Sum'
  BY <1>k DEF Sum
<1>1. CASE Command(o)
  <2>1. Sound(Listen(o)) /\ Listen(o).on
    BY <1>1, RunSound DEF Command, Listen
  <2>2. Sound(out')
    BY <1>1, <2>1, RunSound DEF Command, Listen
  <2> QED
    BY <1>1, <1>s, <1>k, <2>2 DEF Command, Jobs, Turns, Counted
<1>2. CASE Reset
  BY <1>2, <1>z, OffSound DEF Reset, Jobs, Turns, Counted
<1>3. CASE Unknown(o)
  <2>1. Sound(out') /\ ~out'.busy
    BY <1>3, StopSound DEF Unknown, Sound
  <2> QED
    BY <1>3, <1>s, <1>k, <2>1 DEF Unknown, Jobs, Turns, Counted
<1>4. CASE Ignored(o)
  BY <1>4, <1>s, <1>k DEF Ignored, Jobs, Turns, Counted
<1>5. CASE Refused(o)
  <2>1. Sound(out') /\ ~out'.busy /\ out'.on
    BY <1>5, StopSound DEF Refused, Sound
  <2> QED
    BY <1>5, <1>s, <2>1 DEF Refused, Jobs, Turns, Counted
<1>6. CASE Served(o)
  <2>1. Sound(out') /\ ~out'.busy /\ ~inp.busy /\ inp.on /\ Sum
    BY <1>6, <1>s, StopSound DEF Served, Sound, OnTogether
  <2>2. hdr \in Messages
    BY <1>6 DEF Served, Typed, TypeOK, NoMessage
  <2>3. Active \in Requests /\ hdr.size \in Nat
    BY <2>2, ActiveType DEF Typed
  <2>4. Active.remaining + Active.transferred = asked'
    BY <1>6, <2>1, <2>3 DEF Served, Active, Sum
  <2>5. PICK n \in Produced(Active.remaining) :
          /\ request' = [Active EXCEPT !.remaining = @ - n, !.transferred = @ + n]
          /\ inp' = Run(inp, HEADER_SIZE + Padded(n))
    BY <1>6 DEF Served
  <2>6. n \in Nat
    BY <1>6, <2>3, ProducedBounds DEF Served, Typed, Requests
  <2>7. Sound(inp')
    BY <1>s, <2>1, <2>5, <2>6, PaddedType, RunSound
  <2>8. Sum'
    BY <2>3, <2>4, <2>5, <2>6 DEF Sum, Requests
  <2> QED
    BY <2>1, <2>7, <2>8 DEF Jobs, Turns, Counted
<1> QED
  BY <1>1, <1>2, <1>3, <1>4, <1>5, <1>6 DEF Process

LEMMA StepJobs ==
    ASSUME ClearsOnlyStalls, Typed, Jobs, [Next]_vars
    PROVE  Jobs'
<1> USE DEF ClearsOnlyStalls
<1>s. Sound(inp) /\ Sound(out) /\ ~(inp.busy /\ out.busy) /\ OnTogether
  BY DEF Jobs, Turns, Typed
<1>e. inp \in Endpoint /\ out \in Endpoint
  BY <1>s DEF Sound
<1>a. Sound(AfterIn(inp, out)) /\ AfterIn(inp, out).on = out.on
  BY AfterInSound
<1>z. ASSUME request' = NoRequest, asked' = 0 PROVE Sum'
  BY <1>z DEF Sum, NoRequest
<1>k. ASSUME UNCHANGED <<request, asked>>, Sum PROVE Sum'
  BY <1>k DEF Sum
<1>d. ASSUME out.pend
      PROVE  /\ Sound(Done) /\ Done.on = out.on /\ ~Done.busy /\ ~Done.halted
             /\ out.on /\ out.busy /\ ~inp.busy /\ Sum
  <2>1. /\ Sound(Done) /\ Done.on = out.on /\ ~Done.busy /\ ~Done.halted
        /\ out.on /\ out.busy
    BY <1>d, <1>s DEF Sound, Done, Endpoint
  <2> QED
    BY <1>s, <2>1 DEF Jobs, Counted
<1>1. ASSUME NEW m \in Messages, HostSends(m) PROVE Jobs'
  <2>1. Sound(out') /\ out'.busy = out.busy /\ out'.on = out.on /\ inp' = inp
    BY <1>1, <1>s DEF HostSends, Sound, Endpoint
  <2> QED
    BY <1>1, <1>s, <1>k, <2>1 DEF HostSends, Jobs, Turns, Counted
<1>2. CASE HostTakes
  <2>1. Sound(inp') /\ inp'.busy = inp.busy /\ out' = out
    BY <1>2, <1>s DEF HostTakes, Sound, Endpoint
  <2> QED
    BY <1>2, <1>s, <1>k, <2>1 DEF HostTakes, Jobs, Turns, Counted
<1>3. CASE NextChunk
  <2>1. inp.left - Chunk(inp.left) \in Nat
    BY <1>e, ChunkBounds DEF Endpoint
  <2>2. Sound(inp') /\ inp'.busy = inp.busy /\ out' = out
    BY <1>3, <1>s, <2>1 DEF NextChunk, Sound, Endpoint
  <2> QED
    BY <1>3, <1>s, <1>k, <2>2 DEF NextChunk, Jobs, Turns, Counted
<1>4. CASE InSent
  <2>1. Sound(inp') /\ ~inp'.busy /\ inp.busy /\ inp.on
    BY <1>4, <1>s DEF InSent, Sound, Endpoint
  <2>2. Sound(out')
    BY <1>4, <1>s, <2>1, RunSound DEF InSent, Listen, OnTogether
  <2> QED
    BY <1>4, <1>k, <2>1, <2>2 DEF InSent, Jobs, Turns, Counted
<1>5. CASE Received
  BY <1>5, <1>d, ProcessJobs DEF Received
<1>11. CASE InitiateAbortIn
  <2>1. inp' = inp /\ out' = out
    BY <1>11 DEF InitiateAbortIn, bulk
  <2>2. CASE request.bTag # 0
    BY <1>11, <1>s, <1>z, <2>1, <2>2 DEF InitiateAbortIn, Forget, Jobs, Turns, Counted
  <2>3. CASE request.bTag = 0
    BY <1>11, <1>s, <1>k, <2>1, <2>3 DEF InitiateAbortIn, Jobs, Turns, Counted
  <2> QED
    BY <2>2, <2>3
<1>12. CASE CheckAbortIn
  BY <1>12, <1>s, <1>k DEF CheckAbortIn, bulk, Jobs, Turns, Counted
<1>13. ~InitiateClear /\ ~CheckClear
  BY DEF InitiateClear, CheckClear, Accepts
<1>14. CASE HaltIn
  <2>1. Sound(inp') /\ ~inp'.busy
    BY <1>14, <1>e, StopSound DEF HaltIn
  <2>2. Sound(out') /\ out'.on = out.on /\ (out'.busy => inp.busy \/ out.busy)
    BY <1>14, <1>a DEF HaltIn, AfterIn
  <2> QED
    BY <1>14, <1>k, <2>1, <2>2 DEF HaltIn, Jobs, Turns, Counted
<1>15. CASE HaltOut
  <2>1. Sound(out') /\ ~out'.busy /\ out'.on = out.on
    BY <1>15, <1>e, StopSound DEF HaltOut
  <2> QED
    BY <1>15, <1>s, <1>k, <2>1 DEF HaltOut, Jobs, Turns, Counted
<1>16. CASE UnhaltIn
  <2>1. Sound(inp') /\ ~inp'.busy /\ ~inp.busy
    BY <1>16, <1>s, <1>e, ClearSound DEF UnhaltIn, Unhalts, Sound
  <2>2. out' = out
    BY <1>16, <2>1 DEF UnhaltIn, AfterIn
  <2> QED
    BY <1>16, <1>s, <1>k, <2>1, <2>2 DEF UnhaltIn, Jobs, Turns, Counted
<1>17. CASE UnhaltOut
  <2>1. out.halted /\ ~out.busy
    BY <1>17, <1>s DEF UnhaltOut, Unhalts, Sound
  <2>2. Sound(out') /\ ~out'.busy /\ out'.on = out.on
    BY <1>17, <1>s, <1>e, <2>1, ClearSound DEF UnhaltOut
  <2> QED
    BY <1>17, <1>s, <1>k, <2>2 DEF UnhaltOut, Jobs, Turns, Counted
<1>18. CASE Unconfigure
  <2>1. PICK si, so \in BOOLEAN : Disabled(inp, out, si, so)
    BY <1>18 DEF Unconfigure
  <2>2. AfterIn(inp, out) \in Endpoint
    BY <1>a DEF Sound
  <2>3. Sound(inp') /\ ~inp'.busy /\ Sound(out')
    BY <1>e, <2>1, <2>2, StopSound DEF Disabled
  <2> QED
    BY <1>18, <1>z, <2>3 DEF Unconfigure, Forget, Jobs, Turns, Counted
<1>19. CASE Configure
  <2>1. ~inp.busy /\ ~out.busy /\ Sum
    BY <1>19, <1>s DEF Configure, Sound, OnTogether, Jobs, Counted
  <2>2. Sound(inp') /\ ~inp'.busy
    BY <1>19, <1>s, <2>1 DEF Configure, Sound, Endpoint
  <2>3. Sound([out EXCEPT !.on = TRUE]) /\ [out EXCEPT !.on = TRUE].on
    BY <1>s, <2>1 DEF Sound, Endpoint
  <2>4. Sound(out')
    BY <1>19, <2>3, RunSound DEF Configure, Listen
  <2> QED
    BY <1>19, <1>k, <2>1, <2>2, <2>4 DEF Configure, Jobs, Turns, Counted
<1>20. CASE UNCHANGED vars
  BY <1>20, <1>s, <1>k DEF vars, bulk, Jobs, Turns, Counted
<1> QED
  BY <1>1, <1>2, <1>3, <1>4, <1>5, <1>11, <1>12,
     <1>13, <1>14, <1>15, <1>16, <1>17, <1>18, <1>19, <1>20
     DEF Next, IsrIn, IsrOut, Control

LEMMA Invariance == ASSUME ClearsOnlyStalls PROVE Spec => [](Typed /\ Jobs)
<1>1. Init => Typed /\ Jobs
  BY InitTyped, InitJobs
<1>2. (Typed /\ Jobs) /\ [Next]_vars => (Typed /\ Jobs)'
  BY StepTyped, StepJobs
<1> QED
  BY <1>1, <1>2, PTL DEF Spec

\* As long as the host clears only stalls, an endpoint has a job exactly while
\* the peripheral works for it.
THEOREM JobTheorem == ASSUME ClearsOnlyStalls PROVE Spec => []JobMatchesHardware
<1>1. Typed /\ Jobs => JobMatchesHardware
  BY DEF Jobs, Turns, Sound, JobMatchesHardware
<1> QED
  BY <1>1, Invariance, PTL

\* ... the bytes sent and due add up to what was asked for whenever a request
\* can come.
THEOREM CountsTheorem == ASSUME ClearsOnlyStalls PROVE Spec => []CountsAddUp
<1>1. Typed /\ Jobs => CountsAddUp
  BY DEF Jobs, Turns, Sound, Counted, Sum, CountsAddUp
<1> QED
  BY <1>1, Invariance, PTL

\* ... and a response is never written while it is being sent.
THEOREM ReplyTheorem == ASSUME ClearsOnlyStalls PROVE Spec => ReplyStable
<1>1. ASSUME Typed, Jobs, [Next]_vars
      PROVE  [InFlight /\ inp'.on => UNCHANGED resp]_vars
  <2> SUFFICES ASSUME InFlight, inp'.on, Next PROVE UNCHANGED resp
    BY <1>1
  <2>1. inp.busy
    BY <1>1 DEF Jobs, Turns, Sound, InFlight
  <2>2. ~Received
    BY <1>1, <2>1 DEF Received, Jobs, Turns, Sound
  <2> QED
    BY <2>2
       DEF Next, IsrIn, IsrOut, Control, HostSends, HostTakes, NextChunk, InSent,
           InitiateAbortIn, CheckAbortIn, InitiateClear, CheckClear, HaltIn, HaltOut,
           UnhaltIn, UnhaltOut, Unconfigure, Configure
<1> QED
  BY <1>1, Invariance, PTL DEF Spec, ReplyStable

----------------------------------------------------------------------------
(* A host that asks well: it sends nothing unknown, no request with         *)
(* attributes or for less than a sample, no tag again once its transfer is  *)
(* complete, and neither halts nor aborts.  It may clear and reconfigure.   *)

PoliteHost ==
    /\ HostOps \subseteq {"CLEAR", "UNCONFIGURE"}
    /\ \A m \in Messages : /\ m.id # "OTHER"
                           /\ m.id = "REQUEST" => m.attr = 0 /\ m.size >= ADC_BYTES_PER_SAMPLE

\* INITIATE_CLEAR may end the IN job while its data is still on the way, so an
\* idle IN endpoint tells nothing of the peripheral; but then it listens.
Alternate ==
    /\ ~inp.halted /\ ~out.halted
    /\ out.busy <=> out.armed \/ out.pend
    /\ inp.busy => inp.armed \/ inp.pend
    /\ ~(inp.busy /\ out.busy)
    /\ inp.on <=> out.on
    /\ inp.armed \/ inp.pend \/ out.busy => out.on
    /\ ~(out.armed /\ out.pend)
    /\ out.on => out.busy \/ inp.armed \/ inp.pend

\* What the endpoint holds when a message has come
Polite ==
    out.pend => /\ hdr.id # "OTHER"
                /\ hdr.id = "REQUEST" =>
                      /\ hdr.attr = 0 /\ hdr.size >= ADC_BYTES_PER_SAMPLE
                      /\ hdr.tag # request.bTag \/ request.remaining > 0

LEMMA InitPolite == Init => Alternate /\ Polite
  BY DEF Init, Off, Alternate, Polite

\* Running a job on an endpoint that has none
LEMMA RunStarts ==
    ASSUME NEW e \in Endpoint, NEW n \in Nat
    PROVE  /\ Run(e, n).halted = e.halted /\ Run(e, n).on = e.on /\ Run(e, n).pend = e.pend
           /\ ~Runnable(e) => Run(e, n) = e
           /\ Runnable(e) => Run(e, n).busy /\ (Run(e, n).armed <=> e.armed \/ e.on)
  BY DEF Run, Runnable, Endpoint

LEMMA StepPolite ==
    ASSUME PoliteHost, Typed, Alternate, Polite, [Next]_vars
    PROVE  Alternate' /\ Polite'
<1>a. inp \in Endpoint /\ out \in Endpoint
  BY DEF Typed, TypeOK
<1> USE <1>a DEF Alternate, Polite, PoliteHost, bulk, command
<1>1. CASE UNCHANGED vars
  BY <1>1 DEF vars
<1>2. CASE \E m \in Messages : HostSends(m)
  <2>1. PICK m \in Messages : HostSends(m)
    BY <1>2
  <2>2. Alternate'
    BY <2>1 DEF HostSends, Endpoint
  <2>3. hdr' = m /\ UNCHANGED request
    BY <2>1 DEF HostSends
  <2>4. m.id = "REQUEST" => m.tag # request.bTag \/ request.remaining > 0
    BY <2>1 DEF HostSends
  <2> QED
    BY <2>2, <2>3, <2>4
<1>3. CASE HostTakes
  BY <1>3 DEF HostTakes, Endpoint
<1>4. CASE NextChunk
  BY <1>4 DEF NextChunk, Endpoint
<1>5. CASE InSent
  <2>1. out' = Listen(out) /\ UNCHANGED <<hdr, request>>
    BY <1>5 DEF InSent
  <2>2. /\ ~inp'.busy /\ inp'.armed = inp.armed /\ ~inp'.pend
        /\ inp'.on = inp.on /\ ~inp'.halted /\ inp.pend
    BY <1>5 DEF InSent, Endpoint
  <2>3. /\ out'.halted = out.halted /\ out'.on = out.on /\ out'.pend = out.pend
        /\ out.busy => out' = out
        /\ ~out.busy => out'.busy /\ (out'.armed <=> out.armed \/ out.on)
    BY <2>1, RunStarts DEF Listen, Runnable
  <2>4. Alternate'
    BY <2>2, <2>3 DEF Endpoint
  <2> QED
    BY <2>1, <2>3, <2>4
<1>6. CASE Received /\ Command(Done)
  <2> DEFINE d == Done
  <2>1. /\ d \in Endpoint /\ ~d.busy /\ ~d.pend /\ ~d.halted /\ d.on = out.on
        /\ d.armed = out.armed
    BY DEF Done, Endpoint
  <2>2. out' = Listen(Listen(d)) /\ UNCHANGED inp /\ out.pend
    BY <1>6 DEF Command, Received
  <2> HIDE DEF d
  <2>3. Listen(d) \in Endpoint /\ Listen(d).busy
    BY <2>1, RunStarts, RunType DEF Listen, Runnable
  <2>4. out' = Listen(d)
    BY <2>2, <2>3, RunStarts DEF Listen, Runnable
  <2>5. /\ out'.halted = d.halted /\ out'.on = d.on /\ out'.pend = d.pend
        /\ out'.busy /\ (out'.armed <=> d.armed \/ d.on)
    BY <2>1, <2>4, RunStarts DEF Listen, Runnable
  <2> QED
    BY <2>1, <2>2, <2>5 DEF Endpoint
<1>7. CASE Received /\ Reset
  BY <1>7 DEF Reset, Off
<1>8. Received => ~Unknown(Done) /\ ~Ignored(Done)
  BY DEF Unknown, Ignored, Received
<1>9. out.pend /\ hdr.id = "REQUEST" => ~TooSmall /\ Active.remaining > 0
  <2>1. SUFFICES ASSUME out.pend, hdr.id = "REQUEST"
                 PROVE  ~TooSmall /\ Active.remaining > 0
    OBVIOUS
  <2>2. hdr.size >= ADC_BYTES_PER_SAMPLE /\ (hdr.tag # request.bTag \/ request.remaining > 0)
    BY <2>1
  <2>3. hdr.size \in Nat
    BY MessagesAssumption DEF Typed, TypeOK, NoMessage
  <2>4. ~TooSmall
    BY <2>2, <2>3 DEF TooSmall, ADC_BYTES_PER_SAMPLE
  <2>5. CASE Fresh
    BY <2>2, <2>3, <2>4, <2>5 DEF Active, ADC_BYTES_PER_SAMPLE
  <2>6. CASE ~Fresh
    <3>1. Active.remaining = request.remaining
      BY <2>6 DEF Active, Typed, TypeOK
    <3> QED
      BY <2>2, <2>4, <2>6, <3>1 DEF Fresh
  <2> QED
    BY <2>4, <2>5, <2>6
<1>10. Received => ~Refused(Done)
  BY <1>9 DEF Refused, Received, Typed, TypeOK
<1>11. CASE Received /\ Served(Done)
  <2>1. out.pend /\ hdr.id = "REQUEST" /\ Active.remaining > 0
    BY <1>11, <1>9 DEF Served, Received
  <2>2. out.on /\ inp.on /\ ~inp.busy /\ Runnable(inp)
    BY <2>1 DEF Runnable
  <2>3. Active.remaining \in Nat
    <3>1. TypeOK /\ hdr \in Messages
      BY <2>1 DEF Typed, TypeOK, NoMessage
    <3> QED
      BY <3>1, ActiveType DEF Requests
  <2>4. PICK n \in Produced(Active.remaining) : inp' = Run(inp, HEADER_SIZE + Padded(n))
    BY <1>11 DEF Served
  <2>5. HEADER_SIZE + Padded(n) \in Nat
    BY <2>1, <2>3, ProducedBounds, PaddedType DEF Typed
  <2>6. ~inp'.halted /\ inp'.on /\ inp'.busy /\ inp'.armed
    BY <2>2, <2>4, <2>5, RunStarts
  <2>7. out' = Done
    BY <1>11, <2>2 DEF Served
  <2>8. ~out.armed
    BY <2>1
  <2> QED
    BY <2>1, <2>2, <2>6, <2>7, <2>8 DEF Done, Endpoint
<1>12. CASE InitiateClear
  <2>1. inp' = ClearHalt(inp) /\ out' = AfterIn(inp, out) /\ UNCHANGED <<hdr, request>>
    BY <1>12 DEF InitiateClear
  <2>2. /\ ~inp'.busy /\ ~inp'.halted /\ inp'.on = inp.on
        /\ inp'.armed = inp.armed /\ inp'.pend = inp.pend
    BY <2>1 DEF ClearHalt, Endpoint
  <2>3. CASE inp.busy
    <3>1. /\ out'.halted = out.halted /\ out'.on = out.on /\ out'.pend = out.pend
          /\ out'.busy /\ (out'.armed <=> out.armed \/ out.on)
      BY <2>1, <2>3, RunStarts DEF AfterIn, Listen, Runnable
    <3> QED
      BY <2>1, <2>2, <2>3, <3>1 DEF Endpoint
  <2>4. CASE ~inp.busy
    BY <2>1, <2>2, <2>4 DEF AfterIn
  <2> QED
    BY <2>3, <2>4
<1>13. CASE CheckClear
  BY <1>13 DEF CheckClear
<1>14. ~InitiateAbortIn /\ ~CheckAbortIn /\ ~HaltIn /\ ~HaltOut /\ ~UnhaltIn /\ ~UnhaltOut
  BY DEF InitiateAbortIn, CheckAbortIn, Accepts, HaltIn, HaltOut, UnhaltIn, UnhaltOut, Unhalts
<1>15. CASE Unconfigure
  <2>1. PICK si, so \in BOOLEAN : inp' = Freed(inp, si) /\ out' = Freed(AfterIn(inp, out), so)
    BY <1>15 DEF Unconfigure, Disabled
  <2>2. AfterIn(inp, out) \in Endpoint /\ ~AfterIn(inp, out).halted
    BY RunType, RunStarts DEF AfterIn, Listen
  <2>3. /\ ~inp'.on /\ ~inp'.busy /\ ~inp'.halted /\ ~inp'.armed /\ ~inp'.pend
        /\ ~out'.on /\ ~out'.busy /\ ~out'.halted /\ ~out'.armed /\ ~out'.pend
    BY <2>1, <2>2 DEF Freed, Aborted, Endpoint
  <2> QED
    BY <2>3
<1>16. CASE Configure
  <2> DEFINE o == [out EXCEPT !.on = TRUE]
  <2>1. /\ o \in Endpoint /\ ~o.busy /\ ~o.halted /\ o.on /\ ~o.armed /\ ~o.pend
    BY <1>16 DEF Configure, Endpoint
  <2>2. out' = Listen(o) /\ inp' = [inp EXCEPT !.on = TRUE] /\ UNCHANGED <<hdr, request>>
    BY <1>16 DEF Configure
  <2>3. inp'.on /\ ~inp'.busy /\ ~inp'.halted
    BY <1>16, <2>2 DEF Configure, Endpoint
  <2> HIDE DEF o
  <2>4. ~out'.halted /\ out'.on /\ ~out'.pend /\ out'.busy /\ out'.armed
    BY <2>1, <2>2, RunStarts DEF Listen, Runnable
  <2> QED
    BY <2>2, <2>3, <2>4
<1> QED
  BY <1>1, <1>2, <1>3, <1>4, <1>5, <1>6, <1>7, <1>8, <1>10, <1>11, <1>12, <1>13, <1>14,
     <1>15, <1>16 DEF Next, IsrIn, IsrOut, Received, Process, Control

\* A host that asks well is always heard: whatever it sends, clears or
\* reconfigures, the device listens, holds a message or has one on its way.
THEOREM HeardTheorem == ASSUME PoliteHost PROVE Spec => []NeverDeaf
<1>1. Init => Typed /\ Alternate /\ Polite
  BY InitTyped, InitPolite
<1>2. Typed /\ Alternate /\ Polite /\ [Next]_vars => (Typed /\ Alternate /\ Polite)'
  BY StepTyped, StepPolite
<1>3. Alternate => NeverDeaf
  BY DEF Alternate, NeverDeaf
<1> QED
  BY <1>1, <1>2, <1>3, PTL DEF Spec

=============================================================================
