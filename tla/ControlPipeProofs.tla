-------------------------- MODULE ControlPipeProofs --------------------------
(***************************************************************************)
(* The control endpoint, for any requests and any packet size: types, full *)
(* answers, stalls only for refusals, and that it keeps what               *)
(* ControlTransfer promises.                                               *)
(*                                                                         *)
(* The argument follows a transfer that began with no interrupt due.  Until *)
(* its SETUP is taken (Fresh) the banks are empty and nothing is stalled.  *)
(* Then it is Refused, or Writing (a zero length answer is in the bank), or *)
(* Reading: the bank holds the bytes after those the host has (Armed), or  *)
(* the host has just taken it (Taken).  In the status stage the host has   *)
(* its answer and no OUT packet can be stalled.                            *)
(***************************************************************************)
EXTENDS ControlPipe, TLAPS

\* The stage the host begins a request with
First(r) == IF r.len = 0 THEN "status_in" ELSE IF In(r) THEN "data_in" ELSE "data_out"

\* A SETUP that the device has not taken
Fresh ==
    "RXSTP" \in flags /\ ~eorst =>
        /\ phase = First(request) /\ got = 0
        /\ ~inReady /\ ~outOpen /\ ~stallIn /\ ~stallOut

\* During a bus reset the host has no transfer.
Quiet == eorst => phase = "idle" /\ outcome = "none"

Done == {"TRCPT1", "TRCPT0"}

Refused ==
    /\ state = "STALL_REQ" /\ stallIn /\ ~stallOut /\ ~inReady /\ ~outOpen
    /\ phase = First(request) /\ got = 0 /\ flags \cap Done = {}

Writing ==
    /\ ~In(request) /\ request.len = 0 /\ phase = "status_in" /\ got = 0
    /\ state = "WAIT_IN_ZLP" /\ inReady /\ inLen = 0
    /\ ~stallIn /\ ~stallOut /\ flags \cap Done = {} /\ "TRFAIL0" \notin flags

\* Requests with an answer longer than they asked for are those of the class.
Answerable(r) == In(r) /\ (r.len < Payload(r) => r.op = "CLASS")

Reading ==
    /\ Answerable(request) /\ phase = "data_in"
    /\ state = "DATA_IN" /\ payload = Payload(request) /\ trans <= payload
    /\ ~stallIn /\ ~stallOut /\ {"TRCPT0", "TRFAIL0"} \cap flags = {}

Armed ==
    /\ Reading
    /\ inReady /\ inOff = got /\ trans = got + inLen /\ "TRCPT1" \notin flags
    /\ inLen = Least(payload - got, USB_DEVICE_EP_CTRL_SIZE)
    /\ short = (inLen < USB_DEVICE_EP_CTRL_SIZE)
    /\ inLen > 0 => prev = 0

Taken ==
    /\ Reading
    /\ ~inReady /\ trans = got /\ "TRCPT1" \in flags
    /\ ~short /\ prev = 0 /\ got # request.len

\* The host's last stage after IN data, all of it or what it wanted of it
Closing ==
    /\ phase \in {"status_out", "cutting"} /\ In(request)
    /\ ~stallOut /\ state \notin {"WAIT_IN_ZLP", "STALL_REQ"}
    /\ phase = "status_out" => got \in {Payload(request), request.len}

\* A transfer under way that began with no interrupt due
Clean ==
    ~late /\ phase # "idle" =>
        IF "RXSTP" \in flags THEN flags \cap Done = {} /\ (In(request) => "TRFAIL0" \notin flags)
                                  /\ (request.len = 0 => "TRFAIL0" \notin flags)
        ELSE req = request /\ (Refused \/ Writing \/ Armed \/ Taken \/ Closing)

\* How it ended
Ended ==
    ~late /\ phase = "idle" =>
        /\ outcome = "ok" /\ In(request) => got \in {Payload(request), request.len}
        /\ outcome = "stall" => /\ state = "STALL_REQ" /\ ~eorst
                                /\ flags \cap (Done \cup {"RXSTP"}) = {}

\* A transfer under way has no outcome.
Open == phase # "idle" => outcome = "none"

Asked == request \in Requests \cup {NoRequest}

Stages == Fresh /\ Quiet /\ Clean /\ Ended /\ Open /\ Asked
IInv == TypeOK /\ Stages

----------------------------------------------------------------------------
(* Arithmetic and requests *)

LEMMA LeastType ==
    ASSUME NEW m \in Nat, NEW n \in Nat
    PROVE  Least(m, n) \in Nat /\ Least(m, n) <= m /\ Least(m, n) <= n
  BY DEF Least

LEMMA PayloadType ==
    ASSUME NEW r \in Request
    PROVE  Payload(r) \in Nat
  BY DEF Payload, Request, Least

LEMMA RequestFields ==
    ASSUME NEW r \in Request
    PROVE  r.len \in Nat /\ r.val \in Nat /\ r.op \in InOps \cup OutOps
  BY DEF Request

LEMMA NoRequestType == NoRequest \in Request
  BY DEF NoRequest, Request, InOps, OutOps

\* A granted request is one the host begins in the stage the device expects.
LEMMA GrantedStage ==
    ASSUME NEW r \in Requests \cup {NoRequest}, NEW a, Granted(r, a)
    PROVE  /\ In(r) => First(r) = "data_in" /\ Answerable(r)
           /\ ~In(r) => First(r) = "status_in" /\ r.len = 0
<1>1. r.len \in Nat /\ r.val \in Nat /\ r.op \in InOps \cup OutOps
  BY RequestFields, NoRequestType, RequestsAssumption
<1>2. In(r) => r.len > 0
  BY DEF Granted
<1>3. ASSUME In(r) PROVE r.len < Payload(r) => r.op = "CLASS"
  <2>1. r.op \in {"DESCRIPTOR", "VALUE", "SETTING", "CLASS"}
    BY <1>3 DEF Granted, In, InOps
  <2>2. CASE r.op = "DESCRIPTOR"
    BY <1>1, <1>3, <2>2 DEF Payload, Least
  <2>3. CASE r.op = "VALUE"
    BY <1>1, <1>3, <2>3 DEF Payload, Granted
  <2>4. CASE r.op = "SETTING"
    <3>1. r \in Requests
      BY <2>4 DEF NoRequest
    <3>2. r.val = 1
      BY <2>4, <3>1, RequestsAssumption
    <3>3. r.len = 1
      BY <2>4 DEF Granted
    <3>4. QED
      BY <1>3, <2>4, <3>2, <3>3 DEF Payload
  <2>5. QED
    BY <2>1, <2>2, <2>3, <2>4
<1>4. ~In(r) => r.len = 0
  BY DEF Granted, In, InOps
<1>5. QED
  BY <1>1, <1>2, <1>3, <1>4 DEF First, Answerable

----------------------------------------------------------------------------
(* Types *)

BankType ==
    inReady \in BOOLEAN /\ inOff \in Nat /\ inLen \in 0 .. USB_DEVICE_EP_CTRL_SIZE

LEMMA EmptiedType == BankEmptied => BankType'
<1>1. 0 \in 0 .. USB_DEVICE_EP_CTRL_SIZE
  BY SizeAssumption
<1>2. ASSUME BankEmptied PROVE inReady' = FALSE /\ inOff' = 0 /\ inLen' = 0
  BY <1>2 DEF BankEmptied
<1>3. QED
  BY <1>1, <1>2 DEF BankType

LEMMA TypeInit == Init => TypeOK
<1> SUFFICES ASSUME Init PROVE TypeOK
  OBVIOUS
<1>1. 0 \in 0 .. USB_DEVICE_EP_CTRL_SIZE
  BY SizeAssumption
<1>2. {late, orphan, eorst, inReady, outOpen, stallIn, stallOut, callback, short, enabled}
        \subseteq BOOLEAN
  BY DEF Init
<1>3. giveups \in Nat /\ request \in Request /\ req \in Request
  BY NoRequestType, CountsAssumption DEF Init
<1>4. QED
  BY <1>1, <1>2, <1>3 DEF Init, TypeOK, Flags

LEMMA ProcessType ==
    ASSUME NEW r \in Request, NEW a, TypeOK, Process(r, a)
    PROVE  conf' \in Nat /\ enabled' \in BOOLEAN /\ callback' \in BOOLEAN
<1>1. r.val \in Nat
  BY RequestFields
<1>2. conf' \in Nat
  BY <1>1 DEF Process, TypeOK
<1>3. enabled' \in BOOLEAN
  BY DEF Process, TypeOK
<1>4. QED
  BY <1>2, <1>3 DEF Process

LEMMA TakeSetupType ==
    ASSUME TypeOK, TakeSetup
    PROVE  /\ flags' \subseteq Flags /\ addr' \in Nat /\ req' \in Request
           /\ conf' \in Nat /\ enabled' \in BOOLEAN /\ callback' \in BOOLEAN
<1>1. request \in Request /\ req \in Request /\ req.val \in Nat
  BY RequestFields DEF TypeOK
<1>2. Process(request, addr')
  BY DEF TakeSetup, sbuf
<1>3. conf' \in Nat /\ enabled' \in BOOLEAN /\ callback' \in BOOLEAN
  BY <1>1, <1>2, ProcessType
<1>4. addr' \in Nat
  BY <1>1 DEF TakeSetup, TypeOK
<1>5. QED
  BY <1>1, <1>3, <1>4 DEF TakeSetup, sbuf, TypeOK

LEMMA TypeNext == TypeOK /\ [Next]_vars => TypeOK'
<1> SUFFICES ASSUME TypeOK, [Next]_vars PROVE TypeOK'
  OBVIOUS
<1> USE SizeAssumption DEF TypeOK
<1>0. USB_DEVICE_EP_CTRL_SIZE \in Nat \ {0}
  BY DEF TypeOK
<1>1. CASE UNCHANGED vars
  BY <1>1 DEF vars, host, bank, stalls, counts
<1>2. ASSUME NEW r \in Requests, HostSetup(r) PROVE TypeOK'
  <2>1. r \in Request
    BY RequestsAssumption
  <2>2. flags' \subseteq Flags
    BY <1>2 DEF HostSetup, Flags
  <2>3. phase' \in {"data_in", "data_out", "status_in"}
    BY <1>2 DEF HostSetup
  <2>4. giveups' \in Nat
    BY <1>2 DEF HostSetup
  <2>5. late' \in BOOLEAN /\ orphan' \in BOOLEAN
    BY <1>2 DEF HostSetup
  <2>6. BankType'
    BY <1>2, EmptiedType DEF HostSetup
  <2>7. QED
    BY <1>2, <2>1, <2>2, <2>3, <2>4, <2>5, <2>6 DEF HostSetup, BankType, counts
<1>3. CASE HostIn
  <2>1. request.val \in Nat
    BY RequestFields
  <2>2. flags' \subseteq Flags
    BY <1>3 DEF HostIn, Raise, Flags, bank
  <2>3. got' \in Nat /\ haddr' \in Nat
    BY <1>3, <2>1 DEF HostIn
  <2>4. /\ phase' \in {"idle", "data_in", "status_in", "status_out"}
        /\ outcome' \in {"none", "ok", "stall", "babble", "cut"}
    BY <1>3 DEF HostIn, Ends
  <2>5. BankType'
    <3>1. CASE BankEmptied
      BY <3>1, EmptiedType
    <3>2. CASE UNCHANGED bank
      BY <3>2 DEF bank, BankType
    <3>3. QED
      BY <1>3, <3>1, <3>2 DEF HostIn
  <2>6. QED
    BY <1>3, <2>2, <2>3, <2>4, <2>5 DEF HostIn, BankType, stalls, driver, counts
<1>4. CASE HostCuts
  BY <1>4 DEF HostCuts, bank, stalls, driver, counts
<1>5. CASE HostOut
  <2>1. flags' \subseteq Flags /\ outOpen' \in BOOLEAN
    BY <1>5 DEF HostOut, Raise, Flags
  <2>2. /\ phase' \in {"idle", "status_in", "status_out", "data_out", "cutting"}
        /\ outcome' \in {"none", "ok", "stall", "babble", "cut"}
    BY <1>5 DEF HostOut, Ends
  <2>3. QED
    BY <1>5, <2>1, <2>2 DEF HostOut, stalls, driver, counts, bank
<1>6. CASE BusReset
  <2>1. BankType'
    BY <1>6, EmptiedType DEF BusReset
  <2>2. flags' \subseteq Flags
    BY <1>6 DEF BusReset
  <2>3. QED
    BY <1>6, <2>1, <2>2 DEF BusReset, BankType, counts
<1>7. CASE SetupRefused
  <2>1. TakeSetup
    BY <1>7 DEF SetupRefused
  <2>2. QED
    BY <1>7, <2>1, TakeSetupType DEF SetupRefused, TakeSetup, hostSide, host, bank
<1>8. CASE SetupRead
  <2>1. TakeSetup
    BY <1>8 DEF SetupRead
  <2>2. Payload(request) \in Nat
    BY PayloadType
  <2>3. /\ payload' \in Nat /\ inLen' \in Nat /\ inLen' <= payload'
        /\ inLen' <= USB_DEVICE_EP_CTRL_SIZE
    BY <1>0, <1>8, <2>2, LeastType DEF SetupRead, sbuf
  <2>4. QED
    BY <1>8, <2>1, <2>3, TakeSetupType DEF SetupRead, TakeSetup, hostSide, host, stalls
<1>9. CASE SetupWrite
  <2>1. TakeSetup
    BY <1>9 DEF SetupWrite
  <2>2. QED
    BY <1>0, <1>9, <2>1, TakeSetupType DEF SetupWrite, TakeSetup, hostSide, host, stalls
<1>10. ASSUME NEW f \in Done, TransferOk(f) PROVE TypeOK'
  <2>1. flags' \subseteq Flags
    BY <1>10 DEF TransferOk
  <2>2. req.val \in Nat
    BY RequestFields
  <2>3. CASE state = "DATA_IN"
    <3>1. InSent(payload, trans, prev, req.len)
      BY <1>10, <2>3 DEF TransferOk
    <3>2. payload - trans \in Nat /\ trans <= payload
      BY <2>3
    <3> DEFINE n == Least(payload - trans, USB_DEVICE_EP_CTRL_SIZE)
    <3>3. n \in Nat /\ n <= payload - trans /\ n <= USB_DEVICE_EP_CTRL_SIZE
      BY <1>0, <3>2, LeastType
    <3> HIDE DEF n
    <3>4. /\ payload' \in Nat /\ prev' \in Nat /\ trans' \in Nat /\ trans' <= payload'
          /\ state' \in {"DATA_IN", "WAIT_OUT_ZLP"}
          /\ inReady' \in BOOLEAN /\ inOff' \in Nat /\ inLen' \in 0 .. USB_DEVICE_EP_CTRL_SIZE
          /\ short' \in BOOLEAN /\ outOpen' \in BOOLEAN
      <4>1. CASE payload - trans = 0 /\ (req.len = prev + trans \/ short)
        <5>1. /\ payload' = payload /\ prev' = prev + trans /\ trans' = trans
              /\ state' = "WAIT_OUT_ZLP" /\ outOpen' = TRUE /\ UNCHANGED <<bank, short>>
          BY <3>1, <4>1 DEF InSent
        <5>2. QED
          BY <3>2, <5>1 DEF bank
      <4>2. CASE ~(payload - trans = 0 /\ (req.len = prev + trans \/ short))
        <5>1. /\ payload' = payload /\ state' = "DATA_IN" /\ trans' = trans + n
              /\ inReady' = TRUE /\ inOff' = trans /\ inLen' = n
              /\ short' = (n < USB_DEVICE_EP_CTRL_SIZE) /\ outOpen' = outOpen
          BY <3>1, <4>2 DEF InSent, n
        <5>2. prev' \in Nat
          BY <3>1, <3>2 DEF InSent
        <5>3. inLen' \in 0 .. USB_DEVICE_EP_CTRL_SIZE
          BY <1>0, <3>3, <5>1
        <5>4. short' \in BOOLEAN
          BY <5>1
        <5>5. trans' \in Nat /\ trans' <= payload' /\ payload' \in Nat
          BY <3>2, <3>3, <5>1
        <5>6. QED
          BY <5>1, <5>2, <5>3, <5>4, <5>5
      <4>3. QED
        BY <4>1, <4>2
    <3>5. QED
      BY <1>10, <2>1, <2>3, <3>4 DEF TransferOk, hostSide, host, stalls
  <2>4. CASE state # "DATA_IN"
    BY <1>10, <2>1, <2>2, <2>4 DEF TransferOk, hostSide, host, stalls, bank, counts
  <2>5. QED
    BY <2>3, <2>4
<1>11. CASE Underflow
  BY <1>11 DEF Underflow, hostSide, host, bank, driver, counts
<1>12. CASE Overflow
  BY <1>12 DEF Overflow, hostSide, host, bank, counts
<1>13. CASE StallSeen
  BY <1>13 DEF StallSeen, hostSide, host, bank, stalls, driver, counts
<1>14. CASE OnReset
  <2>1. BankType'
    BY <1>14, EmptiedType DEF OnReset
  <2>2. QED
    BY <1>14, <2>1 DEF OnReset, BankType, host, stalls, counts
<1>15. QED
  BY <1>1, <1>2, <1>3, <1>4, <1>5, <1>6, <1>7, <1>8, <1>9, <1>10, <1>11, <1>12, <1>13, <1>14
     DEF Next, Isr, Bus, Done

\* Every variable of the endpoint keeps its type, and no more of a payload is
\* sent than there is, for every set of requests and every packet size.
THEOREM TypeCorrectness == Spec => []TypeOK
  BY TypeInit, TypeNext, PTL DEF Spec

----------------------------------------------------------------------------
(* The host's steps *)

LEMMA StagesInit == Init => Stages
  BY DEF Init, Stages, Fresh, Quiet, Clean, Ended, Open, Asked

LEMMA StagesHostSetup ==
    ASSUME IInv, NEW r \in Requests, HostSetup(r)
    PROVE  Stages'
<1>1. /\ phase' = First(r) /\ request' = r /\ got' = 0 /\ outcome' = "none"
      /\ flags' = flags \cup {"RXSTP"} /\ eorst' = eorst /\ ~eorst
      /\ inReady' = FALSE /\ outOpen' = FALSE /\ stallIn' = FALSE /\ stallOut' = FALSE
      /\ late' = (Pending # {})
  BY DEF HostSetup, First, BankEmptied, Heard
<1>2. phase' # "idle"
  BY <1>1 DEF First
<1>3. Fresh' /\ Quiet' /\ Ended' /\ Open' /\ Asked'
  BY <1>1, <1>2 DEF Fresh, First, In, Quiet, Ended, Open, Asked
<1>4. ~late' => flags' \cap Done = {} /\ "TRFAIL0" \notin flags'
  <2>1. Pending = {} => \A f \in flags : f = "STALL"
    BY DEF Pending
  <2>2. QED
    BY <1>1, <2>1 DEF Done
<1>5. Clean'
  BY <1>1, <1>4 DEF Clean
<1>6. QED
  BY <1>3, <1>5 DEF Stages

\* A token that finds nothing only leaves a flag.
LEMMA StagesHostIn ==
    ASSUME IInv, HostIn
    PROVE  Stages'
<1> USE DEF IInv, Stages
<1>1. /\ phase \in {"data_in", "status_in"} /\ ~eorst /\ eorst' = eorst
      /\ request' = request /\ late' = late /\ outOpen' = outOpen
      /\ stallIn' = stallIn /\ stallOut' = stallOut
      /\ state' = state /\ req' = req /\ payload' = payload /\ trans' = trans /\ prev' = prev
      /\ short' = short
  BY DEF HostIn, Heard, driver, stalls, counts
<1>0. got \in Nat /\ inLen \in Nat /\ request.len \in Nat
  BY RequestFields, SizeAssumption DEF TypeOK
<1>2. Quiet' /\ Asked'
  BY <1>1 DEF Quiet, Asked
<1>3. CASE stallIn
  <2>1. phase' = "idle" /\ outcome' = "stall" /\ flags' = flags \cup {"STALL"} /\ got' = got
        /\ UNCHANGED bank
    BY <1>3 DEF HostIn, Ends, Raise
  <2>2. "RXSTP" \notin flags
    BY <1>1, <1>3 DEF Fresh
  <2>3. ~late => Refused
    BY <1>1, <1>3, <2>2 DEF Clean, Writing, Armed, Taken, Reading, Closing
  <2>4. QED
    BY <1>1, <1>2, <2>1, <2>2, <2>3 DEF Fresh, Clean, Ended, Open, Refused, Done
<1>4. CASE ~stallIn /\ ~inReady
  <2>1. flags' = flags \cup {"TRFAIL1"} /\ UNCHANGED <<phase, outcome, got, bank>>
    BY <1>4 DEF HostIn, Raise
  <2>2. Fresh' /\ Ended' /\ Open'
    BY <1>1, <2>1 DEF Fresh, First, In, Ended, Open, bank
  <2>3. Refused => Refused'
    BY <1>1, <2>1 DEF Refused, First, In, Done, bank
  <2>4. Taken => Taken'
    BY <1>1, <2>1 DEF Taken, Reading, Answerable, In, Payload, bank
  <2>5. ~late => ~Writing /\ ~Armed /\ ~Closing
    BY <1>1, <1>4 DEF Writing, Armed, Closing
  <2>6. Clean'
    BY <1>1, <2>1, <2>3, <2>4, <2>5 DEF Clean, In, Done
  <2>7. QED
    BY <1>2, <2>2, <2>6
<1>5. CASE ~stallIn /\ inReady /\ got + inLen > request.len
  <2>1. phase' = "idle" /\ outcome' = "babble" /\ flags' = flags /\ got' = got /\ UNCHANGED bank
    BY <1>0, <1>5 DEF HostIn, Ends
  <2>2. "RXSTP" \notin flags
    BY <1>1, <1>5 DEF Fresh
  <2>3. QED
    BY <1>1, <1>2, <2>1, <2>2 DEF Fresh, Clean, Ended, Open
<1>6. CASE ~stallIn /\ inReady /\ got + inLen <= request.len
  <2>1. /\ flags' = flags \cup {"TRCPT1"} /\ got' = got + inLen
        /\ inReady' = FALSE
    BY <1>0, <1>6 DEF HostIn, Raise, BankEmptied
  <2>2. "RXSTP" \notin flags
    BY <1>1, <1>6 DEF Fresh
  <2>3. Fresh'
    BY <2>1, <2>2 DEF Fresh
  <2>4. CASE phase = "status_in"
    <3>1. phase' = "idle" /\ outcome' = "ok"
      BY <1>0, <1>6, <2>4 DEF HostIn, Ends
    <3>2. ~late => Writing
      BY <1>1, <1>6, <2>2, <2>4 DEF Clean, Refused, Armed, Taken, Reading, Closing
    <3>3. Ended' /\ Open' /\ Clean'
      BY <1>1, <3>1, <3>2 DEF Ended, Writing, In, Open, Clean
    <3>4. QED
      BY <1>2, <2>3, <3>3
  <2>5. CASE phase = "data_in"
    <3>1. /\ phase' = IF inLen < USB_DEVICE_EP_CTRL_SIZE \/ got' = request.len
                      THEN "status_out" ELSE "data_in"
          /\ outcome' = outcome
      BY <1>0, <1>6, <2>5 DEF HostIn
    <3>2. Open' /\ Ended'
      BY <2>5, <3>1 DEF Open, Ended
    <3>3. ~late => Armed /\ req = request
      BY <1>1, <1>6, <2>2, <2>5 DEF Clean, Refused, Writing, Taken, Closing
    <3>4. ASSUME ~late PROVE Taken' \/ Closing'
      <4>1. /\ got \in Nat /\ inLen \in Nat /\ payload \in Nat /\ trans \in Nat
            /\ request.len \in Nat /\ inLen <= USB_DEVICE_EP_CTRL_SIZE
        BY RequestFields, SizeAssumption DEF TypeOK
      <4>2. /\ In(request) /\ payload = Payload(request) /\ trans = got + inLen
            /\ got + inLen <= payload
            /\ inLen = Least(payload - got, USB_DEVICE_EP_CTRL_SIZE)
            /\ short = (inLen < USB_DEVICE_EP_CTRL_SIZE)
            /\ inLen > 0 => prev = 0
            /\ state = "DATA_IN" /\ ~stallOut
        BY <3>3, <3>4 DEF Armed, Reading, Answerable
      <4>3. CASE inLen < USB_DEVICE_EP_CTRL_SIZE
        <5>1. got' = payload
          BY <2>1, <4>1, <4>2, <4>3, SizeAssumption DEF Least
        <5>2. Closing'
          BY <1>1, <3>1, <4>2, <4>3, <5>1 DEF Closing, In, Payload, InOps
        <5>3. QED
          BY <5>2
      <4>4. CASE inLen >= USB_DEVICE_EP_CTRL_SIZE /\ got' = request.len
        <5>1. Closing'
          BY <1>1, <3>1, <4>2, <4>4 DEF Closing, In, Payload, InOps
        <5>2. QED
          BY <5>1
      <4>5. CASE inLen >= USB_DEVICE_EP_CTRL_SIZE /\ got' # request.len
        <5>1. phase' = "data_in" /\ inLen > 0 /\ ~short
          <6>1. ~(inLen < USB_DEVICE_EP_CTRL_SIZE) /\ inLen > 0
            BY <4>1, <4>5, SizeAssumption
          <6>2. QED
            BY <3>1, <4>2, <4>5, <6>1
        <5>2. Taken'
          BY <1>1, <2>1, <3>3, <3>4, <4>2, <4>5, <5>1
             DEF Taken, Armed, Reading, Answerable, In, Payload, InOps
        <5>3. QED
          BY <5>2
      <4>6. QED
        BY <4>1, <4>3, <4>4, <4>5, SizeAssumption
    <3>5. Clean'
      BY <1>1, <2>1, <2>2, <3>3, <3>4 DEF Clean
    <3>6. QED
      BY <1>2, <2>3, <3>2, <3>5
  <2>6. QED
    BY <1>1, <2>4, <2>5
<1>7. QED
  BY <1>0, <1>3, <1>4, <1>5, <1>6

LEMMA StagesHostCuts ==
    ASSUME IInv, HostCuts
    PROVE  Stages'
<1> USE DEF IInv, Stages
<1>1. /\ phase = "data_in" /\ phase' = "cutting" /\ got # 0
      /\ UNCHANGED <<request, got, outcome, late, flags, eorst, bank, outOpen, stalls, driver>>
  BY DEF HostCuts, TypeOK
<1>2. ~eorst /\ "RXSTP" \notin flags
  BY <1>1 DEF Quiet, Fresh
<1>3. Fresh' /\ Quiet' /\ Ended' /\ Open' /\ Asked'
  BY <1>1, <1>2 DEF Fresh, Quiet, Ended, Open, Asked
<1>4. ~late => req = request /\ (Refused \/ Armed \/ Taken)
  BY <1>1, <1>2 DEF Clean, Writing, Closing
<1>5. ASSUME ~late PROVE Closing'
  <2>1. Armed \/ Taken
    BY <1>1, <1>4, <1>5 DEF Refused
  <2>2. In(request) /\ ~stallOut /\ state = "DATA_IN"
    BY <2>1 DEF Armed, Taken, Reading, Answerable
  <2>3. QED
    BY <1>1, <2>2 DEF Closing, In, InOps, stalls, driver
<1>6. Clean'
  BY <1>1, <1>2, <1>4, <1>5 DEF Clean, driver
<1>7. QED
  BY <1>3, <1>6

LEMMA StagesHostOut ==
    ASSUME IInv, HostOut
    PROVE  Stages'
<1> USE DEF IInv, Stages
<1>1. /\ phase \in {"status_out", "data_out", "cutting"} /\ ~eorst /\ eorst' = eorst
      /\ UNCHANGED <<request, got, late, bank, stalls, driver>>
  BY DEF HostOut, Heard
<1>2. Quiet' /\ Asked'
  BY <1>1 DEF Quiet, Asked
<1>3. ~late /\ "RXSTP" \notin flags => Refused \/ Closing
  BY <1>1 DEF Clean, Writing, Armed, Taken, Reading
<1>4. CASE stallOut
  <2>1. phase' = "idle" /\ outcome' = "stall" /\ flags' = flags \cup {"STALL"}
    BY <1>4 DEF HostOut, Ends, Raise
  <2>2. "RXSTP" \notin flags /\ late
    BY <1>1, <1>3, <1>4 DEF Fresh, Refused, Closing
  <2>3. QED
    BY <1>1, <1>2, <2>1, <2>2 DEF Fresh, Clean, Ended, Open
<1>5. CASE ~stallOut /\ ~outOpen
  <2>1. flags' = flags \cup {"TRFAIL0"} /\ UNCHANGED <<phase, outcome, outOpen>>
    BY <1>5 DEF HostOut, Raise
  <2>2. Fresh' /\ Ended' /\ Open'
    BY <1>1, <2>1 DEF Fresh, First, In, Ended, Open, bank, stalls, driver
  <2>3. Refused => Refused'
    BY <1>1, <2>1 DEF Refused, First, In, Done, bank, stalls, driver
  <2>4. Closing => Closing'
    BY <1>1, <2>1 DEF Closing, In, Payload, stalls, driver
  <2>5. "RXSTP" \in flags => ~In(request) /\ request.len # 0
    BY <1>1 DEF Fresh, First
  <2>6. Clean'
    BY <1>1, <1>3, <2>1, <2>3, <2>4, <2>5 DEF Clean, In, Done, driver
  <2>7. QED
    BY <1>2, <2>2, <2>6
<1>6. CASE ~stallOut /\ outOpen
  <2>1. "RXSTP" \notin flags
    BY <1>1, <1>6 DEF Fresh
  <2>2. flags' = flags \cup {"TRCPT0"}
    BY <1>6 DEF HostOut, Raise
  <2>3. Fresh'
    BY <2>1, <2>2 DEF Fresh
  <2>4. ~late => Closing
    BY <1>3, <1>6, <2>1 DEF Refused
  <2>5. CASE phase = "data_out"
    <3>1. late
      BY <2>4, <2>5 DEF Closing
    <3>2. phase' = "status_in" /\ outcome' = outcome
      BY <1>6, <2>5 DEF HostOut
    <3>3. QED
      BY <1>1, <1>2, <2>3, <2>5, <3>1, <3>2 DEF Clean, Ended, Open
  <2>6. CASE phase # "data_out"
    <3>1. phase' = "idle" /\ outcome' = IF phase = "cutting" THEN "cut" ELSE "ok"
      BY <1>6, <2>6 DEF HostOut, Ends
    <3>2. Ended'
      BY <1>1, <2>4, <2>6, <3>1 DEF Ended, Closing, In, Payload
    <3>3. QED
      BY <1>2, <2>3, <3>1, <3>2 DEF Clean, Open
  <2>7. QED
    BY <2>5, <2>6
<1>7. QED
  BY <1>4, <1>5, <1>6

LEMMA StagesBusReset ==
    ASSUME IInv, BusReset
    PROVE  Stages'
  BY DEF BusReset, IInv, Stages, Fresh, Quiet, Clean, Ended, Open, Asked

----------------------------------------------------------------------------
(* The driver's steps: the host's side of a transfer stays, so that only     *)
(* Fresh and Clean need looking at, and Ended for a stalled transfer.        *)

LEMMA StagesHandler ==
    ASSUME IInv, UNCHANGED <<host, eorst>>,
           Fresh', Clean',
           ~late /\ phase = "idle" /\ outcome = "stall" =>
               state' = "STALL_REQ" /\ flags' \subseteq flags
    PROVE  Stages'
<1> USE DEF IInv, Stages, host
<1>1. Quiet' /\ Open' /\ Asked'
  BY DEF Quiet, Open, Asked
<1>2. Ended'
  BY DEF Ended, In, Payload
<1>3. QED
  BY <1>1, <1>2

\* A SETUP is taken: what follows if the transfer it begins is clean
LEMMA TakeSetupFresh ==
    ASSUME IInv, TakeSetup
    PROVE  /\ UNCHANGED <<host, eorst>> /\ "RXSTP" \notin flags' /\ flags' \subseteq flags
           /\ Fresh' /\ req' = request
           /\ ~late /\ phase = "idle" => outcome # "stall"
           /\ ~late /\ phase # "idle" =>
                /\ phase = First(request) /\ got = 0 /\ ~eorst
                /\ ~inReady /\ ~outOpen /\ ~stallIn /\ ~stallOut
                /\ flags' \cap Done = {}
                /\ In(request) \/ request.len = 0 => "TRFAIL0" \notin flags'
<1>1. "RXSTP" \in flags /\ flags' = flags \ {"RXSTP"} /\ req' = request
      /\ UNCHANGED <<host, eorst>>
  BY DEF TakeSetup, hostSide, sbuf
<1>2. phase # "idle" => ~eorst
  BY DEF IInv, Stages, Quiet
<1>3. ~late /\ phase = "idle" => outcome # "stall"
  BY <1>1 DEF IInv, Stages, Ended
<1>4. Fresh'
  BY <1>1 DEF Fresh
<1>5. ~late /\ phase # "idle" =>
          flags' \cap Done = {} /\ (In(request) \/ request.len = 0 => "TRFAIL0" \notin flags')
  BY <1>1 DEF IInv, Stages, Clean, Done
<1>6. phase # "idle" => /\ phase = First(request) /\ got = 0
                        /\ ~inReady /\ ~outOpen /\ ~stallIn /\ ~stallOut
  BY <1>1, <1>2 DEF IInv, Stages, Fresh
<1>7. QED
  BY <1>1, <1>2, <1>3, <1>4, <1>5, <1>6

LEMMA StagesSetupRefused ==
    ASSUME IInv, SetupRefused
    PROVE  Stages'
<1>1. TakeSetup /\ state' = "STALL_REQ" /\ stallIn' = TRUE /\ stallOut' = FALSE
      /\ UNCHANGED <<bank, outOpen>>
  BY DEF SetupRefused
<1>2. ~late /\ phase # "idle" => Refused'
  BY <1>1, TakeSetupFresh DEF Refused, First, In, host, bank
<1>3. Clean'
  BY <1>1, <1>2, TakeSetupFresh DEF Clean, host
<1>4. QED
  BY <1>1, <1>3, TakeSetupFresh, StagesHandler

LEMMA StagesSetupWrite ==
    ASSUME IInv, SetupWrite
    PROVE  Stages'
<1>1. /\ TakeSetup /\ Granted(request, addr') /\ ~In(request)
      /\ state' = "WAIT_IN_ZLP" /\ inReady' = TRUE /\ inLen' = 0 /\ UNCHANGED stalls
  BY DEF SetupWrite, sbuf
<1>2. First(request) = "status_in" /\ request.len = 0
  BY <1>1, GrantedStage DEF IInv, Stages, Asked
<1>3. ~late /\ phase # "idle" => Writing'
  BY <1>1, <1>2, TakeSetupFresh DEF Writing, In, host, stalls
<1>4. Clean'
  BY <1>1, <1>3, TakeSetupFresh DEF Clean, host
<1>5. ~late /\ phase = "idle" => outcome # "stall"
  BY <1>1, TakeSetupFresh
<1>6. QED
  BY <1>1, <1>4, <1>5, TakeSetupFresh, StagesHandler

LEMMA StagesSetupRead ==
    ASSUME IInv, SetupRead
    PROVE  Stages'
<1>1. /\ TakeSetup /\ Granted(request, addr') /\ In(request)
      /\ payload' = Payload(request) /\ prev' = 0 /\ state' = "DATA_IN"
      /\ inReady' = TRUE /\ inOff' = 0 /\ inLen' = Least(payload', USB_DEVICE_EP_CTRL_SIZE)
      /\ trans' = inLen' /\ short' = (inLen' < USB_DEVICE_EP_CTRL_SIZE) /\ UNCHANGED stalls
  BY DEF SetupRead, sbuf
<1>2. First(request) = "data_in" /\ Answerable(request)
  BY <1>1, GrantedStage DEF IInv, Stages, Asked
<1>3. payload' \in Nat /\ inLen' \in Nat /\ inLen' <= payload'
  BY <1>1, PayloadType, SizeAssumption, LeastType DEF IInv, TypeOK
<1>4. ASSUME ~late, phase # "idle" PROVE Armed'
  <2>1. request' = request /\ got' = 0 /\ phase' = "data_in"
    BY <1>1, <1>2, <1>4, TakeSetupFresh DEF host
  <2>2. payload' - got' = payload' /\ trans' = got' + inLen' /\ inOff' = got'
    BY <1>1, <1>3, <2>1
  <2>3. Answerable(request)' /\ payload' = Payload(request)'
    BY <1>1, <1>2, <2>1 DEF Answerable, In, Payload
  <2>4. ~stallIn' /\ ~stallOut' /\ flags' \cap Done = {} /\ "TRFAIL0" \notin flags'
    BY <1>1, <1>4, TakeSetupFresh DEF stalls
  <2>5. QED
    BY <1>1, <1>3, <2>1, <2>2, <2>3, <2>4 DEF Armed, Reading, Done
<1>5. Clean'
  BY <1>1, <1>4, TakeSetupFresh DEF Clean, host
<1>6. ~late /\ phase = "idle" => outcome # "stall"
  BY <1>1, TakeSetupFresh
<1>7. QED
  BY <1>1, <1>5, <1>6, TakeSetupFresh, StagesHandler

\* A packet has gone: in DATA_IN the next is armed, or the status stage begins.
LEMMA StagesTransferOk ==
    ASSUME IInv, NEW f \in Done, TransferOk(f)
    PROVE  Stages'
<1> USE DEF IInv, Stages
<1>1. /\ "RXSTP" \notin flags /\ f \in flags /\ flags' = flags \ {f}
      /\ UNCHANGED <<host, eorst, stalls, req>>
  BY DEF TransferOk, hostSide
<1>2. Fresh'
  BY <1>1 DEF Fresh
<1>3. ~(~late /\ phase = "idle" /\ outcome = "stall")
  BY <1>1 DEF Ended
<1>4. ~late /\ phase # "idle" => req = request /\ (Taken \/ Closing)
  BY <1>1 DEF Clean, Refused, Writing, Armed, Reading, Done
<1>5. state' \in {"DATA_IN", "WAIT_OUT_ZLP", "SETUP"}
  BY DEF TransferOk, InSent
<1>6. Closing => Closing'
  BY <1>1, <1>5 DEF Closing, In, Payload, host, stalls
<1>7. ASSUME ~late, phase # "idle", Taken PROVE Armed'
  <2>1. f = "TRCPT1"
    BY <1>1, <1>7 DEF Taken, Reading, Done
  <2>2. InSent(payload, trans, prev, request.len)
    BY <1>4, <1>7 DEF TransferOk, Taken, Reading
  <2>3. /\ trans = got /\ prev = 0 /\ ~short /\ got # request.len /\ trans <= payload
        /\ payload \in Nat /\ got \in Nat /\ request.len \in Nat
    BY <1>7, RequestFields DEF Taken, Reading, TypeOK
  <2> DEFINE n == Least(payload - got, USB_DEVICE_EP_CTRL_SIZE)
  <2>4. payload - got \in Nat /\ n \in Nat /\ n <= payload - got
    <3>1. payload - got \in Nat
      BY <2>3
    <3>2. QED
      BY <3>1, SizeAssumption, LeastType
  <2>5. /\ payload' = payload /\ state' = "DATA_IN"
        /\ inReady' = TRUE /\ inOff' = got /\ inLen' = n
        /\ short' = (n < USB_DEVICE_EP_CTRL_SIZE) /\ trans' = got + n
        /\ prev' = IF payload - got = 0 THEN prev + got ELSE prev
    BY <2>2, <2>3 DEF InSent
  <2>6. n > 0 => prev' = 0
    BY <2>3, <2>4, <2>5
  <2>7. trans' <= payload'
    BY <2>3, <2>4, <2>5
  <2>8. /\ Answerable(request)' /\ payload' = Payload(request)' /\ phase' = "data_in"
        /\ ~stallIn' /\ ~stallOut' /\ {"TRCPT0", "TRFAIL0"} \cap flags' = {}
        /\ "TRCPT1" \notin flags' /\ got' = got
    BY <1>1, <1>7, <2>1, <2>5 DEF Taken, Reading, Answerable, In, Payload, host, stalls
  <2> HIDE DEF n
  <2>9. QED
    BY <2>5, <2>6, <2>7, <2>8 DEF Armed, Reading, n
<1>8. Clean'
  BY <1>1, <1>4, <1>6, <1>7 DEF Clean, host
<1>9. QED
  BY <1>1, <1>2, <1>3, <1>8, StagesHandler

LEMMA StagesUnderflow ==
    ASSUME IInv, Underflow
    PROVE  Stages'
<1> USE DEF IInv, Stages
<1>1. /\ "RXSTP" \notin flags /\ flags \cap Done = {} /\ flags' = flags \ {"TRFAIL1"}
      /\ stallIn' = (stallIn \/ state = "WAIT_OUT_ZLP")
      /\ UNCHANGED <<host, eorst, bank, outOpen, stallOut, driver>>
  BY DEF Underflow, hostSide, Done
<1>2. Fresh'
  BY <1>1 DEF Fresh
<1>3. Refused => Refused'
  BY <1>1 DEF Refused, First, In, Done, host, bank, driver
<1>4. Writing => Writing'
  BY <1>1 DEF Writing, In, Done, host, bank, driver
<1>5. Armed => Armed'
  BY <1>1 DEF Armed, Reading, Answerable, In, Payload, host, bank, driver, counts
<1>6. ~Taken
  BY <1>1 DEF Taken, Done
<1>7. Closing => Closing'
  BY <1>1 DEF Closing, In, Payload, host, driver
<1>8. Clean'
  BY <1>1, <1>3, <1>4, <1>5, <1>6, <1>7 DEF Clean, host, driver
<1>9. ~late /\ phase = "idle" /\ outcome = "stall" => state' = "STALL_REQ"
  BY <1>1 DEF Ended, driver
<1>10. QED
  BY <1>1, <1>2, <1>8, <1>9, StagesHandler

LEMMA StagesOverflow ==
    ASSUME IInv, Overflow
    PROVE  Stages'
<1> USE DEF IInv, Stages
<1>1. /\ "RXSTP" \notin flags /\ "TRFAIL0" \in flags /\ flags \cap Done = {}
      /\ flags' = flags \ {"TRFAIL0"}
      /\ state' = IF state = "DATA_IN" THEN "WAIT_OUT_ZLP" ELSE state
      /\ stallOut' = (stallOut \/ state = "WAIT_IN_ZLP")
      /\ UNCHANGED <<host, eorst, bank, outOpen, stallIn, req, counts>>
  BY DEF Overflow, hostSide, Done, Flags
<1>2. Fresh'
  BY <1>1 DEF Fresh
<1>3. Refused => Refused'
  BY <1>1 DEF Refused, First, In, Done, host, bank
<1>4. Closing => Closing'
  BY <1>1 DEF Closing, In, Payload, host
<1>5. ~Writing /\ ~Armed /\ ~Taken
  BY <1>1 DEF Writing, Armed, Taken, Reading
<1>6. Clean'
  BY <1>1, <1>3, <1>4, <1>5 DEF Clean, host
<1>7. ~late /\ phase = "idle" /\ outcome = "stall" => state' = "STALL_REQ"
  BY <1>1 DEF Ended
<1>8. QED
  BY <1>1, <1>2, <1>6, <1>7, StagesHandler

LEMMA StagesStallSeen ==
    ASSUME IInv, StallSeen
    PROVE  Stages'
<1> USE DEF IInv, Stages
<1>1. /\ flags' = flags \ {"STALL"}
      /\ UNCHANGED <<host, eorst, bank, outOpen, stalls, driver>>
  BY DEF StallSeen, hostSide
<1>2. Fresh'
  BY <1>1 DEF Fresh, First, In, host, bank, stalls
<1>3. Refused => Refused'
  BY <1>1 DEF Refused, First, In, Done, host, bank, stalls, driver
<1>4. Writing => Writing'
  BY <1>1 DEF Writing, In, Done, host, bank, stalls, driver
<1>5. Armed => Armed'
  BY <1>1 DEF Armed, Reading, Answerable, In, Payload, host, bank, stalls, driver, counts
<1>6. Taken => Taken'
  BY <1>1 DEF Taken, Reading, Answerable, In, Payload, host, bank, stalls, driver, counts
<1>7. Closing => Closing'
  BY <1>1 DEF Closing, In, Payload, host, stalls, driver
<1>8. Clean'
  BY <1>1, <1>3, <1>4, <1>5, <1>6, <1>7 DEF Clean, In, Done, host, driver
<1>9. ~late /\ phase = "idle" /\ outcome = "stall" => state' = "STALL_REQ"
  BY <1>1 DEF Ended, driver
<1>10. QED
  BY <1>1, <1>2, <1>8, <1>9, StagesHandler

LEMMA StagesOnReset ==
    ASSUME IInv, OnReset
    PROVE  Stages'
<1> USE DEF IInv, Stages
<1>1. eorst /\ Pending = {} /\ UNCHANGED <<host, flags>>
  BY DEF OnReset
<1>2. "RXSTP" \notin flags
  BY <1>1 DEF Pending
<1>3. phase = "idle" /\ outcome = "none"
  BY <1>1 DEF Quiet
<1>4. QED
  BY <1>1, <1>2, <1>3 DEF Fresh, Quiet, Clean, Ended, Open, Asked, host

LEMMA IInvNext == IInv /\ [Next]_vars => IInv'
<1> SUFFICES ASSUME IInv, [Next]_vars PROVE IInv'
  OBVIOUS
<1>1. TypeOK'
  BY TypeNext DEF IInv
<1>2. Stages'
  <2>1. CASE UNCHANGED vars
    BY <2>1 DEF IInv, Stages, vars, host, bank, stalls, counts, Fresh, First, In, Quiet, Clean,
       Refused, Writing, Armed, Taken, Reading, Answerable, Payload, Closing, Done, Ended, Open, Asked
  <2>2. CASE Bus
    BY <2>2, StagesHostSetup, StagesHostIn, StagesHostCuts, StagesHostOut, StagesBusReset DEF Bus
  <2>3. CASE Isr
    BY <2>3, StagesSetupRefused, StagesSetupRead, StagesSetupWrite, StagesTransferOk,
       StagesUnderflow, StagesOverflow, StagesStallSeen, StagesOnReset DEF Isr, Done
  <2>4. QED
    BY <2>1, <2>2, <2>3 DEF Next
<1>3. QED
  BY <1>1, <1>2 DEF IInv

LEMMA Inductive == Spec => []IInv
<1>1. Init => IInv
  BY TypeInit, StagesInit DEF IInv
<1>2. QED
  BY <1>1, IInvNext, PTL DEF Spec

LEMMA InvFullAnswer == IInv => FullAnswer
<1> SUFFICES ASSUME IInv, ~late, In(request)
             PROVE  /\ outcome = "ok" => got \in {Payload(request), request.len}
                    /\ phase = "data_in" /\ inReady => inOff = got /\ req = request
  BY DEF FullAnswer
<1> USE DEF IInv, Stages
<1>1. outcome = "ok" => phase = "idle"
  BY DEF Open
<1>2. phase = "data_in" /\ inReady => "RXSTP" \notin flags
  BY DEF Fresh, Quiet
<1>3. phase = "data_in" /\ inReady => req = request /\ Armed
  BY <1>2 DEF Clean, Refused, Writing, Taken, Closing
<1>4. QED
  BY <1>1, <1>3 DEF Ended, Armed

\* An answered request has been answered in full, or with all the host asked for,
\* and in order, whatever the interleaving of tokens and interrupts
\* (udd_ctrl_in_sent), for every packet size and payload.
THEOREM AnswersInFull == Spec => []FullAnswer
  BY Inductive, InvFullAnswer, PTL

LEMMA InvStall == IInv => StallOnlyRefused
  BY DEF IInv, Stages, Open, Ended, StallOnlyRefused

\* Only a refused request is stalled (udd_ctrl_stall_data, underflow, overflow).
THEOREM StallsRefusalsOnly == Spec => []StallOnlyRefused
  BY Inductive, InvStall, PTL

----------------------------------------------------------------------------
(* ControlPipe implements ControlTransfer. *)

LEMMA SameIn ==
    ASSUME NEW r
    PROVE  Promise!In(r) = In(r)
  BY DEF Promise!In, In

LEMMA OfferIsPayload ==
    ASSUME NEW r \in Request
    PROVE  Promise!Offer(r) = Payload(r)
<1>1. r.len \in Nat /\ r.val \in Nat
  BY RequestFields
<1>2. QED
  BY <1>1, SameIn DEF Promise!Offer, Payload, Least

LEMMA PromiseInit == Init => Promise!Init
  BY DEF Init, Promise!Init, verdict, NoRequest

\* Taking a SETUP decides a pending request, or, while the bus is reset, one
\* that no longer matters.
LEMMA TakingDecides ==
    ASSUME IInv, TakeSetup, state' = "STALL_REQ" <=> ~Granted(request, addr')
    PROVE  Promise!Next
<1> USE DEF IInv, Stages
<1>1. /\ "RXSTP" \in flags /\ "RXSTP" \notin flags'
      /\ UNCHANGED <<phase, request, got, outcome, late, eorst>>
      /\ Process(request, addr')
  BY DEF TakeSetup, hostSide, host, sbuf
<1>2. request.len \in Nat /\ request.val \in Nat /\ enabled \in BOOLEAN /\ conf \in Nat
  BY RequestFields DEF TypeOK
<1>3. CASE eorst
  <2>1. verdict' = verdict
    BY <1>1, <1>3 DEF verdict, Quiet
  <2>2. Promise!Aftermath
    BY <1>1, <1>3, <2>1 DEF Promise!Aftermath, Promise!transfer
  <2>3. QED
    BY <2>2 DEF Promise!Next
<1>4. CASE ~eorst
  <2>1. phase # "idle" /\ verdict = "pending"
    BY <1>1, <1>4 DEF Fresh, First, verdict
  <2>2. CASE Granted(request, addr')
    <3>1. verdict' = "accepted"
      BY <1>1, <2>1, <2>2 DEF verdict
    <3>2. Promise!MayAccept(request)
      BY <1>2, <2>2 DEF Granted, Promise!MayAccept, In, InOps
    <3>3. /\ conf' = IF request.op = "CONFIGURATION" THEN request.val ELSE conf
          /\ enabled' = IF request.op = "CONFIGURATION" THEN request.val # 0
                        ELSE IF request.op = "INTERFACE" THEN TRUE ELSE enabled
      BY <1>1, <2>2 DEF Process, Granted
    <3>4. Promise!Accept
      BY <1>1, <2>1, <3>1, <3>2, <3>3 DEF Promise!Accept
    <3>5. QED
      BY <3>4 DEF Promise!Next
  <2>3. CASE ~Granted(request, addr')
    <3>1. verdict' = "refused"
      BY <1>1, <2>1, <2>3 DEF verdict
    <3>2. Promise!MayRefuse(request)
      <4>1. In(request) => request.val > 0
        BY RequestsAssumption DEF Asked, NoRequest, In, InOps
      <4>2. QED
        BY <1>2, <2>3, <4>1 DEF Granted, Promise!MayAccept, Promise!MayRefuse, In, InOps
    <3>3. conf' = conf /\ enabled' \in {enabled, enabled /\ request.op # "INTERFACE"}
      <4>1. conf' = conf
        BY <1>1, <2>3 DEF Process
      <4>2. CASE request.op = "INTERFACE" /\ request.len = 0 /\ conf # 0
        <5>1. request.val # 0
          BY <2>3, <4>2 DEF Granted, In, InOps
        <5>2. enabled' = FALSE
          BY <1>1, <4>2, <5>1 DEF Process
        <5>3. (enabled /\ request.op # "INTERFACE") = FALSE
          BY <4>2
        <5>4. QED
          BY <4>1, <5>2, <5>3
      <4>3. CASE ~(request.op = "INTERFACE" /\ request.len = 0 /\ conf # 0)
        BY <1>1, <2>3, <4>1, <4>3 DEF Process
      <4>4. QED
        BY <4>2, <4>3
    <3>4. Promise!Refuse
      BY <1>1, <2>1, <3>1, <3>2, <3>3 DEF Promise!Refuse
    <3>5. QED
      BY <3>4 DEF Promise!Next
  <2>4. QED
    BY <2>2, <2>3
<1>5. QED
  BY <1>3, <1>4

\* No other interrupt changes what has been decided, except, in a transfer that
\* began late, where nothing is promised.
LEMMA HandlingStutters ==
    ASSUME IInv, IInv',
           UNCHANGED <<host, eorst, conf, enabled>>,
           "RXSTP" \in flags <=> "RXSTP" \in flags',
           ~late /\ phase # "idle" => (state = "STALL_REQ" <=> state' = "STALL_REQ")
    PROVE  Promise!Next \/ UNCHANGED Promise!vars
<1> USE DEF host
<1>1. CASE late /\ phase # "idle"
  BY <1>1 DEF Promise!Next, Promise!Garbled
<1>2. CASE ~(late /\ phase # "idle")
  <2>1. verdict' = verdict
    BY <1>2 DEF verdict
  <2>2. QED
    BY <2>1 DEF Promise!vars, Promise!transfer
<1>3. QED
  BY <1>1, <1>2

LEMMA HandlerKeeps ==
    ASSUME IInv, IInv', Isr
    PROVE  Promise!Next \/ UNCHANGED Promise!vars
<1> USE DEF IInv, Stages
<1>1. CASE SetupRefused
  <2>1. TakeSetup /\ (state' = "STALL_REQ" <=> ~Granted(request, addr'))
    BY <1>1 DEF SetupRefused, sbuf
  <2>2. QED
    BY <2>1, TakingDecides
<1>2. CASE SetupRead \/ SetupWrite
  <2>1. TakeSetup /\ (state' = "STALL_REQ" <=> ~Granted(request, addr'))
    BY <1>2 DEF SetupRead, SetupWrite, sbuf
  <2>2. QED
    BY <2>1, TakingDecides
<1>3. ASSUME NEW f \in Done, TransferOk(f) PROVE Promise!Next \/ UNCHANGED Promise!vars
  <2>1. /\ "RXSTP" \notin flags /\ f \in flags /\ flags' = flags \ {f}
        /\ UNCHANGED <<host, eorst, conf, enabled>> /\ state' # "STALL_REQ"
    BY <1>3 DEF TransferOk, hostSide, InSent
  <2>2. ~late /\ phase # "idle" => state # "STALL_REQ"
    BY <2>1 DEF Clean, Refused, Writing, Armed, Taken, Reading, Closing, Done
  <2>3. QED
    BY <2>1, <2>2, HandlingStutters
<1>4. CASE Underflow
  BY <1>4, HandlingStutters DEF Underflow, hostSide, driver
<1>5. CASE Overflow
  <2>1. /\ "RXSTP" \notin flags /\ flags' = flags \ {"TRFAIL0"}
        /\ UNCHANGED <<host, eorst, conf, enabled>>
        /\ state = "STALL_REQ" <=> state' = "STALL_REQ"
    BY <1>5 DEF Overflow, hostSide, Flags
  <2>2. QED
    BY <2>1, HandlingStutters
<1>6. CASE StallSeen
  BY <1>6, HandlingStutters DEF StallSeen, hostSide, driver
<1>7. CASE OnReset
  <2>1. /\ eorst /\ eorst' = FALSE /\ conf' = 0 /\ enabled' = FALSE /\ UNCHANGED host
    BY <1>7 DEF OnReset
  <2>2. phase = "idle"
    BY <2>1 DEF Quiet
  <2>3. verdict' = verdict
    BY <2>1, <2>2 DEF verdict, host
  <2>4. Promise!ResetDone
    BY <2>1, <2>3 DEF Promise!ResetDone, Promise!transfer, host
  <2>5. QED
    BY <2>4 DEF Promise!Next
<1>8. QED
  BY <1>1, <1>2, <1>3, <1>4, <1>5, <1>6, <1>7 DEF Isr, Done

LEMMA HostSetupKeeps ==
    ASSUME IInv, NEW r \in Requests, HostSetup(r)
    PROVE  Promise!Next
<1>1. /\ ~eorst /\ phase' = First(r) /\ request' = r /\ got' = 0 /\ outcome' = "none"
      /\ flags' = flags \cup {"RXSTP"} /\ UNCHANGED <<eorst, conf, enabled>>
      /\ late' \in BOOLEAN
  BY DEF HostSetup, Heard, First
<1>2. verdict' = "pending"
  BY <1>1 DEF verdict, First
<1>3. Promise!Ask(r)
  BY <1>1, <1>2, SameIn DEF Promise!Ask, First
<1>4. QED
  BY <1>3 DEF Promise!Next

\* What a step that leaves the transfer unpromised may do
LEMMA LateStep ==
    ASSUME late, phase # "idle", UNCHANGED <<request, late, eorst, conf, enabled>>
    PROVE  Promise!Next
  BY DEF Promise!Next, Promise!Garbled

LEMMA HostInKeeps ==
    ASSUME IInv, HostIn
    PROVE  Promise!Next \/ UNCHANGED Promise!vars
<1> USE DEF IInv, Stages
<1>1. /\ phase \in {"data_in", "status_in"} /\ ~eorst
      /\ UNCHANGED <<request, late, eorst, conf, enabled, state>>
      /\ "RXSTP" \in flags <=> "RXSTP" \in flags'
  BY DEF HostIn, Heard, driver, Raise, bank
<1>2. CASE late
  BY <1>1, <1>2, LateStep
<1>3. CASE ~late /\ "RXSTP" \in flags
  <2>1. ~stallIn /\ ~inReady
    BY <1>1, <1>3 DEF Fresh
  <2>2. UNCHANGED <<phase, outcome, got>>
    BY <2>1 DEF HostIn
  <2>3. verdict' = verdict
    BY <1>1, <2>2 DEF verdict
  <2>4. QED
    BY <1>1, <2>2, <2>3 DEF Promise!vars, Promise!transfer
<1>4. CASE ~late /\ "RXSTP" \notin flags
  <2>0. /\ got \in Nat /\ inLen \in Nat /\ inLen <= USB_DEVICE_EP_CTRL_SIZE
        /\ request \in Request /\ request.len \in Nat /\ Payload(request) \in Nat
    BY RequestFields, PayloadType, SizeAssumption DEF TypeOK
  <2>1. Refused \/ Writing \/ Armed \/ Taken
    BY <1>1, <1>4 DEF Clean, Closing
  <2>2. CASE Refused
    <3>1. phase' = "idle" /\ outcome' = "stall" /\ got' = got
      BY <2>2 DEF HostIn, Refused, Ends
    <3>2. verdict = "refused" /\ verdict' = "none"
      BY <1>1, <1>4, <2>2, <3>1 DEF verdict, Refused
    <3>3. Promise!Stall
      BY <1>1, <3>1, <3>2 DEF Promise!Stall, Promise!Ends
    <3>4. QED
      BY <3>3 DEF Promise!Next
  <2>3. CASE Writing
    <3>1. phase' = "idle" /\ outcome' = "ok" /\ got' = got + 0
      BY <2>0, <2>3 DEF HostIn, Writing, Ends
    <3>2. verdict = "accepted" /\ verdict' = "none"
      BY <1>1, <1>4, <2>3, <3>1 DEF verdict, Writing
    <3>3. got = Promise!Offer(request) /\ got' = got
      BY <2>0, <2>3, <3>1, OfferIsPayload DEF Writing, Payload
    <3>4. Promise!Finish
      BY <1>1, <2>3, <3>1, <3>2, <3>3 DEF Promise!Finish, Promise!Ends, Writing
    <3>5. QED
      BY <3>4 DEF Promise!Next
  <2>4. CASE Taken
    <3>1. UNCHANGED <<phase, outcome, got>>
      BY <2>4 DEF HostIn, Taken, Reading
    <3>2. verdict' = verdict
      BY <1>1, <3>1 DEF verdict
    <3>3. QED
      BY <1>1, <3>1, <3>2 DEF Promise!vars, Promise!transfer
  <2>5. CASE Armed
    <3>1. /\ Answerable(request) /\ phase = "data_in" /\ inReady /\ ~stallIn
          /\ got + inLen <= Payload(request)
          /\ inLen = Least(Payload(request) - got, USB_DEVICE_EP_CTRL_SIZE)
      BY <2>5 DEF Armed, Reading
    <3>2. verdict = "accepted"
      BY <1>4, <2>5, <3>1 DEF verdict, Armed, Reading
    <3>3. CASE got + inLen > request.len
      <4>1. phase' = "idle" /\ outcome' = "babble" /\ got' = got
        BY <2>0, <3>1, <3>3 DEF HostIn, Ends
      <4>2. request.op = "CLASS" /\ request.len < Promise!Offer(request)
        BY <2>0, <3>1, <3>3, OfferIsPayload DEF Answerable
      <4>3. verdict' = "none"
        BY <4>1 DEF verdict
      <4>4. Promise!Babble
        BY <1>1, <3>1, <3>2, <4>1, <4>2, <4>3 DEF Promise!Babble, Promise!Ends
      <4>5. QED
        BY <4>4 DEF Promise!Next
    <3>4. CASE got + inLen <= request.len
      <4>1. /\ got' = got + inLen /\ outcome' = outcome
            /\ phase' = IF inLen < USB_DEVICE_EP_CTRL_SIZE \/ got' = request.len
                        THEN "status_out" ELSE phase
        BY <2>0, <3>1, <3>4 DEF HostIn
      <4>2. verdict' = verdict
        BY <1>1, <3>1, <4>1 DEF verdict
      <4>3. inLen < USB_DEVICE_EP_CTRL_SIZE => got + inLen = Payload(request)
        BY <2>0, <3>1, SizeAssumption DEF Least
      <4>4. inLen \in 0 .. USB_DEVICE_EP_CTRL_SIZE
        BY <2>0, SizeAssumption
      <4>5. Promise!Packet(inLen)
        BY <1>1, <2>0, <3>1, <3>2, <3>4, <4>1, <4>2, <4>3, OfferIsPayload DEF Promise!Packet
      <4>6. QED
        BY <4>4, <4>5 DEF Promise!Next
    <3>5. QED
      BY <2>0, <3>3, <3>4
  <2>6. QED
    BY <2>1, <2>2, <2>3, <2>4, <2>5
<1>5. QED
  BY <1>2, <1>3, <1>4 DEF TypeOK

LEMMA HostCutsKeeps ==
    ASSUME IInv, HostCuts
    PROVE  Promise!Next
<1>1. /\ phase = "data_in" /\ phase' = "cutting"
      /\ UNCHANGED <<request, got, outcome, late, eorst, conf, enabled, state, flags>>
  BY DEF HostCuts, driver
<1>2. verdict' = verdict
  BY <1>1 DEF verdict
<1>3. QED
  BY <1>1, <1>2 DEF Promise!Next, Promise!Cut

LEMMA HostOutKeeps ==
    ASSUME IInv, HostOut
    PROVE  Promise!Next \/ UNCHANGED Promise!vars
<1> USE DEF IInv, Stages
<1>1. /\ phase \in {"status_out", "data_out", "cutting"} /\ ~eorst
      /\ UNCHANGED <<request, got, late, eorst, conf, enabled, state>>
      /\ "RXSTP" \in flags <=> "RXSTP" \in flags'
  BY DEF HostOut, Heard, driver, Raise
<1>2. CASE late
  BY <1>1, <1>2, LateStep
<1>3. CASE ~late /\ ~stallOut /\ ~outOpen
  <2>1. UNCHANGED <<phase, outcome>>
    BY <1>3 DEF HostOut
  <2>2. verdict' = verdict
    BY <1>1, <2>1 DEF verdict
  <2>3. QED
    BY <1>1, <2>1, <2>2 DEF Promise!vars, Promise!transfer
<1>4. CASE ~late /\ (stallOut \/ outOpen)
  <2>1. "RXSTP" \notin flags
    BY <1>1, <1>4 DEF Fresh
  <2>2. Closing
    BY <1>1, <1>4, <2>1 DEF Clean, Refused, Writing, Armed, Taken, Reading
  <2>3. phase \in {"status_out", "cutting"} /\ ~stallOut /\ outOpen
    BY <1>4, <2>2 DEF Closing
  <2>4. phase' = "idle" /\ outcome' = IF phase = "cutting" THEN "cut" ELSE "ok"
    BY <2>3 DEF HostOut, Ends
  <2>5. verdict = "accepted" /\ verdict' = "none"
    BY <2>1, <2>2, <2>3, <2>4 DEF verdict, Closing
  <2>6. CASE phase = "cutting"
    BY <1>1, <2>4, <2>5, <2>6 DEF Promise!Next, Promise!CutShort, Promise!Ends
  <2>7. CASE phase = "status_out"
    <3>1. got \in {Promise!Offer(request), request.len}
      BY <2>2, <2>7, OfferIsPayload DEF Closing, TypeOK
    <3>2. QED
      BY <1>1, <2>4, <2>5, <2>7, <3>1 DEF Promise!Next, Promise!Finish, Promise!Ends
  <2>8. QED
    BY <2>3, <2>6, <2>7
<1>5. QED
  BY <1>2, <1>3, <1>4 DEF TypeOK

LEMMA BusResetKeeps ==
    ASSUME IInv, BusReset
    PROVE  Promise!Next
<1>1. verdict' = "none"
  BY DEF BusReset, verdict
<1>2. Promise!BusReset
  BY <1>1 DEF BusReset, Promise!BusReset
<1>3. QED
  BY <1>2 DEF Promise!Next

LEMMA StepKept == IInv /\ IInv' /\ [Next]_vars => [Promise!Next]_(Promise!vars)
<1> SUFFICES ASSUME IInv, IInv', [Next]_vars
             PROVE  Promise!Next \/ UNCHANGED Promise!vars
  OBVIOUS
<1>1. CASE UNCHANGED vars
  BY <1>1 DEF vars, host, Promise!vars, Promise!transfer, verdict
<1>2. CASE Isr
  BY <1>2, HandlerKeeps
<1>3. CASE Bus
  BY <1>3, HostSetupKeeps, HostInKeeps, HostCutsKeeps, HostOutKeeps, BusResetKeeps DEF Bus
<1>4. QED
  BY <1>1, <1>2, <1>3 DEF Next

\* The driver implements ControlTransfer: whatever the tokens and interrupts do,
\* a request is decided once, as a whole (udc_process_setup), and answered as
\* decided, or stalled.
THEOREM Refines == Spec => KeepsPromise
<1>1. Init => Promise!Init
  BY PromiseInit
<1>2. QED
  BY <1>1, Inductive, StepKept, PTL DEF Spec, KeepsPromise, Promise!Spec

----------------------------------------------------------------------------
(* The address.  udc_valid_address stays registered until the next SETUP is  *)
(* taken, so that it may run again: what keeps it from harm is that the      *)
(* address it gives is the host's, or the status stage of SET_ADDRESS is     *)
(* still to come, or a bus reset has left nothing that could bring it about. *)

StatusToCome ==
    request = req /\ phase = "status_in" /\ state = "WAIT_IN_ZLP" /\ "RXSTP" \notin flags

NothingToRunIt ==
    state = "SETUP" /\ flags \cap Done = {} /\ (phase = "idle" \/ "RXSTP" \in flags)

\* The host has had the handshake, the driver not yet the interrupt of it.
HandshakeSeen ==
    "TRCPT1" \in flags /\ callback /\ req.val = haddr /\ state = "WAIT_IN_ZLP"

AddrInv ==
    /\ callback = (req.op = "ADDRESS" /\ req.len = 0)
    /\ eorst => haddr = 0
    /\ ~orphan /\ request.op = "ADDRESS" /\ phase # "idle" => ~late
    /\ ~orphan /\ ~eorst =>
         /\ haddr = addr \/ HandshakeSeen
         /\ "RXSTP" \in flags => haddr = addr
         /\ callback => req.val = haddr \/ StatusToCome \/ NothingToRunIt

LEMMA AddrInit == Init => AddrInv
<1> SUFFICES ASSUME Init PROVE AddrInv
  OBVIOUS
<1>1. callback = FALSE /\ req.op = "OTHER_OUT" /\ flags = {} /\ phase = "idle"
      /\ eorst = FALSE /\ haddr = 0 /\ addr = 0
  BY DEF Init, NoRequest
<1>2. (req.op = "ADDRESS" /\ req.len = 0) = FALSE
  BY <1>1
<1>3. QED
  BY <1>1, <1>2 DEF AddrInv

LEMMA AddrHostSetup ==
    ASSUME IInv, AddrInv, NEW r \in Requests, HostSetup(r)
    PROVE  AddrInv'
<1>1. /\ ~eorst /\ ~eorst' /\ haddr = addr /\ request' = r /\ late' = (Pending # {})
      /\ orphan' = (orphan \/ (phase # "idle" /\ request.op = "ADDRESS")
                           \/ (Pending # {} /\ r.op = "ADDRESS"))
      /\ flags' = flags \cup {"RXSTP"}
      /\ UNCHANGED <<haddr, addr, callback, req, state>>
  BY DEF HostSetup, Heard
<1>2. ~orphan' => ~orphan /\ (phase # "idle" => request.op # "ADDRESS")
  BY <1>1
<1>3. ~orphan' /\ callback => req.val = haddr \/ NothingToRunIt
  BY <1>1, <1>2 DEF AddrInv, StatusToCome
<1>4. NothingToRunIt => NothingToRunIt'
  BY <1>1 DEF NothingToRunIt, Done
<1>5. QED
  BY <1>1, <1>3, <1>4 DEF AddrInv

LEMMA AddrHostIn ==
    ASSUME IInv, AddrInv, HostIn
    PROVE  AddrInv'
<1> USE DEF IInv, Stages
<1>1. /\ phase \in {"data_in", "status_in"} /\ ~eorst /\ eorst' = eorst
      /\ UNCHANGED <<request, late, orphan, state, req, callback, addr>>
      /\ flags \subseteq flags' /\ "RXSTP" \in flags <=> "RXSTP" \in flags'
  BY DEF HostIn, Heard, driver, Raise, bank
<1>2. haddr = addr
  BY DEF HostIn, Heard
<1>3. callback' = (req'.op = "ADDRESS" /\ req'.len = 0)
  BY <1>1 DEF AddrInv
<1>4. CASE orphan
  BY <1>1, <1>3, <1>4 DEF AddrInv
<1>5. CASE ~orphan /\ ~stallIn /\ inReady /\ got + inLen <= request.len
           /\ phase = "status_in" /\ request.op = "ADDRESS"
  <2>0. got \in Nat /\ inLen \in Nat /\ request.len \in Nat
    BY RequestFields, SizeAssumption DEF TypeOK
  <2>1. haddr' = request.val /\ phase' = "idle" /\ "TRCPT1" \in flags'
    BY <1>5, <2>0 DEF HostIn, Ends, Raise
  <2>2. "RXSTP" \notin flags /\ ~late
    BY <1>1, <1>5 DEF Fresh, AddrInv
  <2>3. Writing /\ req = request
    BY <1>1, <1>5, <2>2 DEF Clean, Refused, Armed, Taken, Reading, Closing
  <2>4. HandshakeSeen'
    BY <1>1, <1>3, <1>5, <2>1, <2>3 DEF HandshakeSeen, Writing
  <2>5. QED
    BY <1>1, <1>3, <2>1, <2>2, <2>4 DEF AddrInv, HandshakeSeen
<1>6. CASE ~orphan /\ ~(~stallIn /\ inReady /\ got + inLen <= request.len
                       /\ phase = "status_in" /\ request.op = "ADDRESS")
  <2>0. got \in Nat /\ inLen \in Nat /\ request.len \in Nat
    BY RequestFields, SizeAssumption DEF TypeOK
  <2>1. haddr' = haddr
    BY <1>6, <2>0 DEF HostIn
  <2>2. ASSUME NothingToRunIt PROVE NothingToRunIt'
    <3>1. "RXSTP" \in flags
      BY <1>1, <2>2 DEF NothingToRunIt
    <3>2. ~stallIn /\ ~inReady
      BY <1>1, <3>1 DEF Fresh
    <3>3. flags' = flags \cup {"TRFAIL1"}
      BY <3>2 DEF HostIn, Raise
    <3>4. QED
      BY <1>1, <2>2, <3>1, <3>3 DEF NothingToRunIt, Done
  <2>3. ASSUME callback, StatusToCome PROVE StatusToCome'
    <3>1. request.op = "ADDRESS" /\ ~late
      BY <1>1, <1>6, <2>3 DEF AddrInv, StatusToCome
    <3>2. Writing
      BY <1>1, <2>3, <3>1 DEF Clean, StatusToCome, Refused, Armed, Taken, Reading, Closing
    <3>3. ~stallIn /\ inReady /\ got + inLen <= request.len /\ phase = "status_in"
      BY <3>2 DEF Writing
    <3>4. QED
      BY <1>6, <3>1, <3>3
  <2>4. ~late \/ request.op # "ADDRESS" \/ phase' = "idle"
    BY <1>1, <1>6 DEF AddrInv
  <2>5. QED
    BY <1>1, <1>2, <1>3, <1>6, <2>1, <2>2, <2>3, <2>4 DEF AddrInv
<1>7. QED
  BY <1>4, <1>5, <1>6

LEMMA AddrHostCuts ==
    ASSUME IInv, AddrInv, HostCuts
    PROVE  AddrInv'
<1>1. /\ phase = "data_in" /\ phase' = "cutting" /\ got # 0
      /\ UNCHANGED <<request, haddr, late, orphan, flags, eorst, state, req, callback, addr>>
  BY DEF HostCuts, driver, IInv, TypeOK
<1>2. ~orphan /\ ~eorst => ~StatusToCome /\ ~NothingToRunIt
  BY <1>1 DEF StatusToCome, NothingToRunIt, IInv, Stages, Fresh
<1>3. QED
  BY <1>1, <1>2 DEF AddrInv, HandshakeSeen

LEMMA AddrHostOut ==
    ASSUME IInv, AddrInv, HostOut
    PROVE  AddrInv'
<1> USE DEF IInv, Stages
<1>1. /\ phase \in {"status_out", "data_out", "cutting"} /\ ~eorst /\ haddr = addr
      /\ UNCHANGED <<request, haddr, late, orphan, eorst, state, req, callback, addr>>
      /\ flags \subseteq flags' /\ "RXSTP" \in flags <=> "RXSTP" \in flags'
  BY DEF HostOut, Heard, driver, Raise
<1>2. ~StatusToCome
  BY <1>1 DEF StatusToCome
<1>3. ASSUME NothingToRunIt PROVE NothingToRunIt'
  <2>1. "RXSTP" \in flags
    BY <1>1, <1>3 DEF NothingToRunIt
  <2>2. ~stallOut /\ ~outOpen
    BY <1>1, <2>1 DEF Fresh
  <2>3. flags' = flags \cup {"TRFAIL0"}
    BY <2>2 DEF HostOut, Raise
  <2>4. QED
    BY <1>1, <1>3, <2>1, <2>3 DEF NothingToRunIt, Done
<1>4. QED
  BY <1>1, <1>2, <1>3 DEF AddrInv

LEMMA AddrBusReset ==
    ASSUME AddrInv, BusReset
    PROVE  AddrInv'
  BY DEF BusReset, AddrInv

\* What runs the callback gives the device the address the host uses.
LEMMA AddrTakeSetup ==
    ASSUME IInv, AddrInv, TakeSetup,
           state' = "WAIT_IN_ZLP" \/ ~(request.op = "ADDRESS" /\ request.len = 0)
    PROVE  AddrInv'
<1> USE DEF IInv, Stages
<1>1. /\ "RXSTP" \in flags /\ "RXSTP" \notin flags' /\ req' = request
      /\ addr' = IF state # "SETUP" /\ callback THEN req.val ELSE addr
      /\ callback' = (request.op = "ADDRESS" /\ request.len = 0)
      /\ UNCHANGED <<host, eorst>>
  BY DEF TakeSetup, hostSide, sbuf, Process
<1>2. ~orphan /\ ~eorst => addr' = haddr
  BY <1>1 DEF AddrInv, StatusToCome, NothingToRunIt
<1>3. ASSUME ~orphan, ~eorst, callback' PROVE StatusToCome'
  <2>1. phase = "status_in"
    BY <1>1, <1>3 DEF Fresh, First
  <2>2. QED
    BY <1>1, <1>3, <2>1 DEF StatusToCome, host
<1>4. QED
  BY <1>1, <1>2, <1>3 DEF AddrInv, host

LEMMA AddrTransferOk ==
    ASSUME IInv, AddrInv, NEW f \in Done, TransferOk(f)
    PROVE  AddrInv'
<1> USE DEF IInv, Stages
<1>1. /\ "RXSTP" \notin flags /\ f \in flags /\ flags' = flags \ {f}
      /\ f = "TRCPT0" => "TRCPT1" \notin flags
      /\ addr' = IF state # "DATA_IN" /\ callback THEN req.val ELSE addr
      /\ UNCHANGED <<host, eorst, req, callback>>
  BY DEF TransferOk, hostSide
<1>2. ASSUME ~orphan, ~eorst, callback PROVE req.val = haddr
  <2>1. ~NothingToRunIt
    BY <1>1 DEF NothingToRunIt
  <2>2. ASSUME StatusToCome PROVE FALSE
    <3>1. ~late /\ phase # "idle"
      BY <1>2, <2>2 DEF AddrInv, StatusToCome
    <3>2. Writing
      BY <2>2, <3>1 DEF StatusToCome, Clean, Refused, Armed, Taken, Reading, Closing
    <3>3. QED
      BY <1>1, <3>2 DEF Writing
  <2>3. QED
    BY <1>2, <2>1, <2>2 DEF AddrInv
<1>3. ~orphan /\ ~eorst => addr' = haddr
  BY <1>1, <1>2 DEF AddrInv, HandshakeSeen, Done
<1>4. QED
  BY <1>1, <1>2, <1>3 DEF AddrInv, host

\* The handlers that run no callback
LEMMA AddrOther ==
    ASSUME AddrInv, UNCHANGED <<host, eorst, req, callback, addr>>,
           state' = state \/ (state = "DATA_IN" /\ state' = "WAIT_OUT_ZLP"),
           flags' \subseteq flags, "RXSTP" \in flags => "RXSTP" \in flags',
           "TRCPT1" \in flags => "TRCPT1" \in flags'
    PROVE  AddrInv'
<1> USE DEF host
<1>1. HandshakeSeen => HandshakeSeen'
  BY DEF HandshakeSeen
<1>2. StatusToCome => StatusToCome'
  BY DEF StatusToCome
<1>3. NothingToRunIt => NothingToRunIt'
  BY DEF NothingToRunIt, Done
<1>4. QED
  BY <1>1, <1>2, <1>3 DEF AddrInv

LEMMA AddrOnReset ==
    ASSUME IInv, AddrInv, OnReset
    PROVE  AddrInv'
<1>1. /\ eorst /\ Pending = {} /\ addr' = 0 /\ state' = "SETUP"
      /\ UNCHANGED <<host, flags, req, callback>>
  BY DEF OnReset
<1>2. phase = "idle"
  BY <1>1 DEF IInv, Stages, Quiet
<1>3. \A f \in flags : f = "STALL"
  BY <1>1 DEF Pending
<1>4. NothingToRunIt' /\ "RXSTP" \notin flags'
  BY <1>1, <1>2, <1>3 DEF NothingToRunIt, Done, host
<1>5. QED
  BY <1>1, <1>2, <1>4 DEF AddrInv, host

LEMMA AddrNext == IInv /\ AddrInv /\ [Next]_vars => AddrInv'
<1> SUFFICES ASSUME IInv, AddrInv, [Next]_vars PROVE AddrInv'
  OBVIOUS
<1>1. CASE UNCHANGED vars
  BY <1>1 DEF AddrInv, HandshakeSeen, StatusToCome, NothingToRunIt, Done, vars, host
<1>2. CASE Bus
  BY <1>2, AddrHostSetup, AddrHostIn, AddrHostCuts, AddrHostOut, AddrBusReset DEF Bus
<1>3. CASE SetupRefused
  <2>1. TakeSetup /\ ~Granted(request, addr')
    BY <1>3 DEF SetupRefused, sbuf
  <2>2. ~(request.op = "ADDRESS" /\ request.len = 0)
    BY <2>1 DEF Granted, In, InOps
  <2>3. QED
    BY <2>1, <2>2, AddrTakeSetup
<1>4. CASE SetupRead
  <2>1. TakeSetup /\ request.op # "ADDRESS"
    BY <1>4 DEF SetupRead, sbuf, In, InOps
  <2>2. QED
    BY <2>1, AddrTakeSetup
<1>5. CASE SetupWrite
  BY <1>5, AddrTakeSetup DEF SetupWrite
<1>6. ASSUME NEW f \in Done, TransferOk(f) PROVE AddrInv'
  BY <1>6, AddrTransferOk
<1>7. CASE Underflow
  <2>1. UNCHANGED <<host, eorst, req, callback, addr>>
    BY <1>7 DEF Underflow, hostSide, driver
  <2>2. state' = state
    BY <1>7 DEF Underflow, driver
  <2>3. flags' = flags \ {"TRFAIL1"}
    BY <1>7 DEF Underflow
  <2>4. /\ flags' \subseteq flags
        /\ "RXSTP" \in flags => "RXSTP" \in flags'
        /\ "TRCPT1" \in flags => "TRCPT1" \in flags'
    BY <2>3
  <2>5. state' = state \/ (state = "DATA_IN" /\ state' = "WAIT_OUT_ZLP")
    BY <2>2
  <2>6. QED
    BY <2>1, <2>4, <2>5, AddrOther
<1>8. CASE Overflow
  <2>1. UNCHANGED <<host, eorst, req, callback, addr>>
    BY <1>8 DEF Overflow, hostSide
  <2>2. state' = state \/ (state = "DATA_IN" /\ state' = "WAIT_OUT_ZLP")
    BY <1>8 DEF Overflow
  <2>3. flags' = flags \ {"TRFAIL0"}
    BY <1>8 DEF Overflow
  <2>4. /\ flags' \subseteq flags
        /\ "RXSTP" \in flags => "RXSTP" \in flags'
        /\ "TRCPT1" \in flags => "TRCPT1" \in flags'
    BY <2>3
  <2>5. state' = state \/ (state = "DATA_IN" /\ state' = "WAIT_OUT_ZLP")
    BY <2>2
  <2>6. QED
    BY <2>1, <2>4, <2>5, AddrOther
<1>9. CASE StallSeen
  <2>1. UNCHANGED <<host, eorst, req, callback, addr>>
    BY <1>9 DEF StallSeen, hostSide, driver
  <2>2. state' = state
    BY <1>9 DEF StallSeen, driver
  <2>3. flags' = flags \ {"STALL"}
    BY <1>9 DEF StallSeen
  <2>4. /\ flags' \subseteq flags
        /\ "RXSTP" \in flags => "RXSTP" \in flags'
        /\ "TRCPT1" \in flags => "TRCPT1" \in flags'
    BY <2>3
  <2>5. state' = state \/ (state = "DATA_IN" /\ state' = "WAIT_OUT_ZLP")
    BY <2>2
  <2>6. QED
    BY <2>1, <2>4, <2>5, AddrOther
<1>10. CASE OnReset
  BY <1>10, AddrOnReset
<1>11. QED
  BY <1>1, <1>2, <1>3, <1>4, <1>5, <1>6, <1>7, <1>8, <1>9, <1>10 DEF Next, Isr, Done

LEMMA AddrReachable == AddrInv => Reachable
  BY DEF AddrInv, Reachable, HandshakeSeen

\* Host and device agree on the address whatever else was abandoned, although
\* udc_valid_address may run more than once and the transfer it belongs to may
\* be over: they differ only until the interrupt of the handshake is served.
THEOREM AddressAgreed == Spec => []Reachable
<1>1. Spec => []AddrInv
  BY Inductive, AddrInit, AddrNext, PTL DEF Spec
<1>2. QED
  BY <1>1, AddrReachable, PTL
=============================================================================
