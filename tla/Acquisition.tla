----------------------------- MODULE Acquisition -----------------------------
(***************************************************************************)
(* The sampling engine of the DAQ firmware: the sample-set queue           *)
(* (structure.c), the sampling state machine and data buffer (sampling.c), *)
(* the sample timer (timer.c), the data-ready handler (adcLib.c) and the   *)
(* main loop (main.c), on one SAMD21 core.                                 *)
(*                                                                         *)
(* Two kinds of actor share the state.  The main loop runs sleep;          *)
(* readData() forever, one step of `pc' per access that an interrupt can   *)
(* separate.  The three interrupt handlers (EIC: drdy_callback, TC4:       *)
(* timer_callback, USB: a host command or a host read) all have the reset  *)
(* NVIC priority, so they never preempt each other: each is one action,    *)
(* enabled whenever PRIMASK is clear.                                      *)
(***************************************************************************)
EXTENDS SampleClock, Sequences, FiniteSets

CONSTANTS
    Requests,              \* the [num, rate, chans] an ADD command may carry
    HostOps,               \* the commands the host uses
    ReadSizes,             \* the byte counts the host asks for
    HeapCells,             \* the dSet records the heap can hold
    BUFFER_LENGTH,         \* bytes in dataBuf
    ADC_BYTES_PER_SAMPLE,  \* bytes of one sample
    MaxOverflows           \* bound: buffer overflows before the timer falls silent

ASSUME RequestsAssumption ==
    Requests \subseteq [num : Nat, rate : Nat, chans : Nat]
ASSUME HostOpsAssumption ==
    HostOps \subseteq {"ADD", "RM", "STOP", "START", "READ", "RST"}
ASSUME SizesAssumption ==
    /\ ReadSizes \subseteq Nat
    /\ HeapCells \in Nat
    /\ ADC_BYTES_PER_SAMPLE \in Nat \ {0}
    /\ BUFFER_LENGTH \in Nat
    /\ BUFFER_LENGTH >= ADC_BYTES_PER_SAMPLE
    /\ MaxOverflows \in Nat

VARIABLES
    queue,              \* the sample sets; `want' is a ghost: the num ADDed
    leaked,             \* heap cells malloc'ed by refused ADDs and never freed
    ss,                 \* "START", "STOP" or "GO"
    timer_done, dataRdy,
    bufLen,
    corrupt_sample_set, corruption_amount,
    adcData,            \* what the last readADC left: the settings it was converted under
    hw,                 \* START pin and DRDY callback, TC4, and the ADC's registers
    adcOut,             \* the settings of the conversion the ADC holds
    drdyPend,           \* the EIC flag of DRDY
    masked,             \* PRIMASK
    nest,               \* cpu_irq_critical_section_counter
    pc,                 \* where the main loop is
    reg,                \* readData's locals: bufLen as read, bytes copied, rate passed on
    last,               \* ghost: the sample being stored
    got,                \* ghost: samples stored while the head of the queue was the head
    unread,             \* ghost: bytes stored and neither delivered nor discarded
    overflows           \* ghost: samples refused because dataBuf was full

sets == <<queue, leaked, got>>
status == <<ss, timer_done, dataRdy>>
store == <<bufLen, unread>>
corruption == <<corrupt_sample_set, corruption_amount, overflows>>
conversion == <<adcData, adcOut, drdyPend>>
device == <<conversion, hw>>
core == <<masked, nest>>
locals == <<reg, last>>
vars == <<sets, status, store, corruption, device, core, pc, locals>>

----------------------------------------------------------------------------
(* Sample sets and settings *)

Settings == [rate : DataRates, chans : Nat]          \* what a conversion is made under
Data == [rate : DataRates, chans : Nat, par : {0, 1}]   \* one sample read from it
Devices == [adc : BOOLEAN, tmr : BOOLEAN, tmrRate : Nat, adcRate : DataRates, chans : Nat]
Registers == [bufLen : Nat, half : Data, rate : Nat]
Stored == [first : Data, rest : Data, for : [rate : Nat, chans : Nat], nth : Nat]
SampleSet == [num : Nat \ {0}, want : Nat, rate : Nat, chans : Nat]
NoSet == [rate |-> 0, chans |-> 0]
NoSample == [first |-> [rate |-> 0, chans |-> 0, par |-> 0],
             rest |-> [rate |-> 0, chans |-> 0, par |-> 0],
             for |-> NoSet, nth |-> 0]
NoReg == [bufLen |-> 0, half |-> NoSample.first, rate |-> 0]

\* Mutant: add() lets a set of no samples in.
AcceptableWithoutSamples(r) ==
    MIN_RATE < r.rate /\ r.rate < MAX_RATE /\ 0 < r.chans /\ r.chans <= 63

\* add()'s test of its arguments
Acceptable(r) ==
    /\ r.num > 0
    /\ MIN_RATE < r.rate /\ r.rate < MAX_RATE
    /\ 0 < r.chans /\ r.chans <= 63

\* Mutant: queue->num-- == 0 in place of --(queue->num) == 0
CompletePostDecrement(n) == n = 0

\* dec()'s --(queue->num) == 0: the sample just stored was the set's last.
Complete(n) == n = 1

\* The rate and channels that the set being sampled asks for
HeadSelection ==
    IF queue = <<>> THEN NoSet ELSE [rate |-> Head(queue).rate, chans |-> Head(queue).chans]

SettingsOf(h) == [rate |-> h.adcRate, chans |-> h.chans]

----------------------------------------------------------------------------
(* The device registers, as the functions that write them leave them *)

changeSampleRate(h, r) == [h EXCEPT !.adcRate = DetermineADCRate(r)]
change_channel(h, c) == [h EXCEPT !.chans = c]
reconfig_timer(h, r) == [h EXCEPT !.tmr = TRUE, !.tmrRate = r]
disable_timer(h) == [h EXCEPT !.tmr = FALSE]
\* startADC(en) and enableDrdy(en), which are only called together
startADC(h, en) == [h EXCEPT !.adc = en]

----------------------------------------------------------------------------
Init ==
    /\ queue = <<>> /\ leaked = 0
    /\ ss = "STOP" /\ timer_done = FALSE /\ dataRdy = FALSE /\ bufLen = 0
    /\ corrupt_sample_set = FALSE /\ corruption_amount = 0 /\ overflows = 0
    /\ hw = [adc |-> FALSE, tmr |-> FALSE, tmrRate |-> 10,   \* the last delay_ms(100)
             adcRate |-> DATA_RATE_16000, chans |-> 63]      \* initADC
    /\ adcOut = SettingsOf(hw)
    /\ adcData = NoSample.first
    /\ drdyPend = FALSE
    /\ masked = FALSE /\ nest = 0 /\ pc = "sleep" /\ reg = NoReg /\ last = NoSample
    /\ got = 0 /\ unread = 0

----------------------------------------------------------------------------
(* The ADC: a conversion completes while the START pin is high *)

DrdyEdge ==
    /\ hw.adc
    /\ drdyPend' = TRUE
    /\ adcOut' = SettingsOf(hw)
    /\ UNCHANGED <<sets, status, store, corruption, core, locals, adcData, hw, pc>>

----------------------------------------------------------------------------
(* Interrupt handlers.  Each runs to completion; WFI returns after it. *)

Interrupt ==
    /\ ~masked
    /\ pc' = IF pc = "asleep" THEN "checkQueue" ELSE pc
    /\ UNCHANGED <<core, locals>>

\* EIC_Handler and drdy_callback: the flag is cleared, and the sample is read
\* unless the one read before is still waiting for the main loop.
DrdyIsr ==
    /\ drdyPend
    /\ Interrupt
    /\ drdyPend' = FALSE
    /\ IF timer_done
       THEN UNCHANGED <<dataRdy, adcData>>
       ELSE /\ dataRdy' = TRUE
            /\ adcData' = [rate |-> adcOut.rate, chans |-> adcOut.chans,
                           par |-> 1 - adcData.par]
    /\ UNCHANGED <<sets, store, corruption, ss, timer_done, hw, adcOut>>

\* Mutant: the handler leaves dataRdy set.
TimerIsrKeepsReady ==
    /\ hw.tmr
    /\ overflows < MaxOverflows
    /\ Interrupt
    /\ timer_done' = (timer_done \/ dataRdy)
    /\ UNCHANGED <<sets, store, corruption, device, ss, dataRdy>>

\* timer_callback: a tick counts only when a sample has been read since the last one.
TimerIsr ==
    /\ hw.tmr
    /\ overflows < MaxOverflows
    /\ Interrupt
    /\ timer_done' = (timer_done \/ dataRdy)
    /\ dataRdy' = FALSE
    /\ UNCHANGED <<sets, store, corruption, device, ss>>

\* Start of frame, QRY, RREG, CRPT and the other USB traffic: nothing here
\* changes, but the core wakes.
OtherIsr ==
    /\ pc = "asleep"
    /\ Interrupt
    /\ UNCHANGED <<sets, status, store, corruption, device>>

\* ADD: the record is allocated first, and a refused request never frees it.
Add(r) ==
    /\ "ADD" \in HostOps
    /\ Interrupt
    /\ Len(queue) + leaked < HeapCells
    /\ IF Acceptable(r)
       THEN /\ queue' = Append(queue, [num |-> r.num, want |-> r.num,
                                       rate |-> r.rate, chans |-> r.chans])
            /\ UNCHANGED leaked
       ELSE /\ leaked' = leaked + 1
            /\ UNCHANGED queue
    /\ UNCHANGED <<status, store, corruption, device, got>>

\* RM: the head goes, sampling or not, and nothing is reprogrammed.
Rm ==
    /\ "RM" \in HostOps
    /\ Interrupt
    /\ queue # <<>>
    /\ queue' = Tail(queue)
    /\ got' = 0
    /\ UNCHANGED <<status, store, corruption, device, leaked>>

\* Mutant: STOP leaves the timer running.
StopKeepsTimer ==
    /\ "STOP" \in HostOps
    /\ Interrupt
    /\ ss' = "STOP"
    /\ hw' = startADC(hw, FALSE)
    /\ UNCHANGED <<sets, store, corruption, conversion, timer_done, dataRdy>>

\* STOP: stop()
Stop ==
    /\ "STOP" \in HostOps
    /\ Interrupt
    /\ ss' = "STOP"
    /\ hw' = disable_timer(startADC(hw, FALSE))
    /\ UNCHANGED <<sets, store, corruption, conversion, timer_done, dataRdy>>

\* START: start(), whose START overwrites the GO that setRate left in ss
Start ==
    /\ "START" \in HostOps
    /\ Interrupt
    /\ ss = "STOP" /\ queue # <<>>
    /\ hw' = startADC(reconfig_timer(changeSampleRate(hw, Head(queue).rate),
                                     Head(queue).rate), TRUE)
    /\ timer_done' = FALSE /\ dataRdy' = FALSE /\ bufLen' = 0
    /\ ss' = "START"
    /\ unread' = 0
    /\ UNCHANGED <<sets, corruption, conversion>>

\* send_ADC_data(dest, n), which the host's request for n bytes ends in.  All
\* of dataBuf is given up although the copy stops ADC_BYTES_PER_SAMPLE - 1
\* bytes short of n; what remains of n afterwards pays off corruption_amount.
Copied(n) ==
    IF n - bufLen >= ADC_BYTES_PER_SAMPLE - 1
    THEN bufLen ELSE n - (ADC_BYTES_PER_SAMPLE - 1)

Read(n) ==
    /\ "READ" \in HostOps
    /\ Interrupt
    /\ bufLen >= ADC_BYTES_PER_SAMPLE /\ n >= bufLen
    /\ bufLen' = 0
    /\ unread' = 0
    /\ corruption_amount' =
          IF ~corrupt_sample_set THEN corruption_amount
          ELSE IF n - Copied(n) <= corruption_amount
               THEN corruption_amount - (n - Copied(n)) ELSE 0
    /\ UNCHANGED <<sets, status, device, corrupt_sample_set, overflows>>

\* RST: system_reset() and, on the way up again, init()
Reset ==
    /\ "RST" \in HostOps
    /\ ~masked
    /\ queue' = <<>> /\ leaked' = 0
    /\ ss' = "STOP" /\ timer_done' = FALSE /\ dataRdy' = FALSE /\ bufLen' = 0
    /\ corrupt_sample_set' = FALSE /\ corruption_amount' = 0 /\ overflows' = 0
    /\ hw' = [adc |-> FALSE, tmr |-> FALSE, tmrRate |-> 10,
              adcRate |-> DATA_RATE_16000, chans |-> 63]
    /\ adcOut' = SettingsOf(hw')
    /\ adcData' = NoSample.first
    /\ drdyPend' = FALSE
    /\ masked' = FALSE /\ nest' = 0 /\ pc' = "sleep" /\ reg' = NoReg /\ last' = NoSample
    /\ got' = 0 /\ unread' = 0

Host ==
    \/ \E r \in Requests : Add(r)
    \/ Rm \/ Stop \/ Start
    \/ \E n \in ReadSizes : Read(n)
    \/ Reset

----------------------------------------------------------------------------
(* The main loop: while (true) { sleepmgr_enter_sleep(); readData(); } *)

Goto(from, to) == pc = from /\ pc' = to

\* sleepmgr_enter_sleep() up to WFI: cpu_irq_enable(), whatever the nesting count says
Sleep ==
    /\ Goto("sleep", "wfi")
    /\ masked' = FALSE
    /\ UNCHANGED <<sets, status, store, corruption, device, locals, nest>>

\* An interrupt taken before WFI does not wake what is not asleep yet.
Wfi ==
    /\ Goto("wfi", "asleep")
    /\ UNCHANGED <<sets, status, store, corruption, device, core, locals>>

\* The three tests of readData, each a read of its own, with interrupts enabled
CheckQueue ==
    /\ pc = "checkQueue"
    /\ pc' = IF queue # <<>> THEN "checkState" ELSE "sleep"
    /\ UNCHANGED <<sets, status, store, corruption, device, core, locals>>

\* Mutant: only the status that a later set starts with counts as sampling.
CheckStateGoing ==
    /\ pc = "checkState"
    /\ pc' = IF ss = "GO" THEN "checkTimer" ELSE "sleep"
    /\ UNCHANGED <<sets, status, store, corruption, device, core, locals>>

CheckState ==
    /\ pc = "checkState"
    /\ pc' = IF ss # "STOP" THEN "checkTimer" ELSE "sleep"
    /\ UNCHANGED <<sets, status, store, corruption, device, core, locals>>

\* Mutant: timer_done is not tested.
CheckTimerSkipped ==
    /\ Goto("checkTimer", "enter")
    /\ UNCHANGED <<sets, status, store, corruption, device, core, locals>>

CheckTimer ==
    /\ pc = "checkTimer"
    /\ pc' = IF timer_done THEN "enter" ELSE "sleep"
    /\ UNCHANGED <<sets, status, store, corruption, device, core, locals>>

\* Mutant: the count is kept but PRIMASK is never set.
EnterUnmasked ==
    /\ Goto("enter", "claim")
    /\ nest' = nest + 1
    /\ UNCHANGED <<sets, status, store, corruption, device, locals, masked>>

\* cpu_irq_enter_critical(): interrupts are disabled only when the count was 0
Enter ==
    /\ Goto("enter", "claim")
    /\ masked' = (masked \/ nest = 0)
    /\ nest' = nest + 1
    /\ UNCHANGED <<sets, status, store, corruption, device, locals>>

\* Mutant: room for the sample's first byte is taken for room for the sample.
ClaimWithoutRoom ==
    /\ Goto("claim", "copy")
    /\ timer_done' = FALSE
    /\ bufLen < BUFFER_LENGTH
    /\ UNCHANGED <<sets, store, corruption, device, core, locals, ss, dataRdy>>

\* The tick is claimed and the room for a sample checked.
Claim ==
    /\ Goto("claim", "copy")
    /\ timer_done' = FALSE
    /\ bufLen <= BUFFER_LENGTH - ADC_BYTES_PER_SAMPLE
    /\ UNCHANGED <<sets, store, corruption, device, core, locals, ss, dataRdy>>

\* No room: the return at sampling.c:129 leaves readData inside the critical section.
Overflow ==
    /\ Goto("claim", "sleep")
    /\ timer_done' = FALSE
    /\ bufLen > BUFFER_LENGTH - ADC_BYTES_PER_SAMPLE
    /\ corrupt_sample_set' = TRUE
    /\ corruption_amount' = corruption_amount + ADC_BYTES_PER_SAMPLE + 4
    /\ overflows' = overflows + 1
    /\ UNCHANGED <<sets, store, device, core, locals, ss, dataRdy>>

\* The copy loop keeps bufLen in a register: read before, written after.
CopyFirst ==
    /\ Goto("copy", "copyRest")
    /\ reg' = [reg EXCEPT !.bufLen = bufLen, !.half = adcData]
    /\ UNCHANGED <<sets, status, store, corruption, device, core, last>>

CopyRest ==
    /\ Goto("copyRest", "dec")
    /\ bufLen' = reg.bufLen + ADC_BYTES_PER_SAMPLE
    /\ unread' = unread + ADC_BYTES_PER_SAMPLE
    /\ got' = got + 1
    /\ last' = [first |-> reg.half, rest |-> adcData, for |-> HeadSelection, nth |-> got']
    /\ reg' = NoReg
    /\ UNCHANGED <<status, corruption, device, core, queue, leaked>>

\* status_check(): dec(), and rm() when the set is complete
DecCounts ==
    /\ Goto("dec", "leave")
    /\ queue # <<>> /\ ~Complete(Head(queue).num)
    /\ queue' = [queue EXCEPT ![1].num = @ - 1]
    /\ UNCHANGED <<status, store, corruption, device, core, locals, leaked, got>>

DecEnds ==
    /\ Goto("dec", "stopAdc")
    /\ queue = <<>> \/ (Len(queue) = 1 /\ Complete(Head(queue).num))
    /\ queue' = <<>>
    /\ got' = 0
    /\ UNCHANGED <<status, store, corruption, device, core, locals, leaked>>

\* Mutant: the rate is taken from the set that has just been removed.
DecSwitchesOldRate ==
    /\ Goto("dec", "setAdcRate")
    /\ Len(queue) > 1 /\ Complete(Head(queue).num)
    /\ queue' = Tail(queue)
    /\ got' = 0
    /\ reg' = [reg EXCEPT !.rate = Head(queue).rate]
    /\ UNCHANGED <<status, store, corruption, device, core, leaked, last>>

DecSwitches ==
    /\ Goto("dec", "setAdcRate")
    /\ Len(queue) > 1 /\ Complete(Head(queue).num)
    /\ queue' = Tail(queue)
    /\ got' = 0
    /\ reg' = [reg EXCEPT !.rate = Head(queue').rate]
    /\ UNCHANGED <<status, store, corruption, device, core, leaked, last>>

\* stop(), called by status_check
StopAdc ==
    /\ Goto("stopAdc", "stopTimer")
    /\ hw' = startADC(hw, FALSE)
    /\ UNCHANGED <<sets, status, store, corruption, conversion, core, locals>>

\* Mutants: stop() does not update the status; status_check() lacks the else
\* after stop(); readData returns from stop() without leaving its section.
StopTimerOnly ==
    /\ Goto("stopTimer", "leave")
    /\ hw' = disable_timer(hw)
    /\ UNCHANGED <<sets, status, store, corruption, conversion, core, locals>>
StopTimerFallsThrough ==
    /\ Goto("stopTimer", "setAdcRate")
    /\ ss' = "STOP"
    /\ hw' = disable_timer(hw)
    /\ UNCHANGED <<sets, store, corruption, conversion, core, locals, timer_done, dataRdy>>
StopTimerReturns ==
    /\ Goto("stopTimer", "sleep")
    /\ ss' = "STOP"
    /\ hw' = disable_timer(hw)
    /\ UNCHANGED <<sets, store, corruption, conversion, core, locals, timer_done, dataRdy>>

StopTimer ==
    /\ Goto("stopTimer", "leave")
    /\ ss' = "STOP"
    /\ hw' = disable_timer(hw)
    /\ UNCHANGED <<sets, store, corruption, conversion, core, locals, timer_done, dataRdy>>

\* Mutant: the ADC keeps the rate of the set before.
SetAdcRateSkipped ==
    /\ Goto("setAdcRate", "setTimer")
    /\ UNCHANGED <<sets, status, store, corruption, device, core, locals>>

\* setRate(): the ADC's data rate, the timer, then the interrupts and GO
SetAdcRate ==
    /\ Goto("setAdcRate", "setTimer")
    /\ hw' = changeSampleRate(hw, reg.rate)
    /\ UNCHANGED <<sets, status, store, corruption, conversion, core, locals>>

SetTimer ==
    /\ Goto("setTimer", "enable")
    /\ hw' = reconfig_timer(hw, reg.rate)
    /\ timer_done' = FALSE
    /\ reg' = NoReg
    /\ UNCHANGED <<sets, store, corruption, conversion, core, ss, dataRdy, last>>

Enable ==
    /\ Goto("enable", "setChannels")
    /\ hw' = startADC(hw, TRUE)
    /\ ss' = "GO"
    /\ UNCHANGED <<sets, store, corruption, conversion, core, locals, timer_done, dataRdy>>

\* change_channel(queue->channels), then STOP_ADC and START_ADC, which restart
\* the conversion.  With interrupts leaking in, queue may be NULL by now: any
\* channel selection may be read through it.
SetChannels ==
    /\ Goto("setChannels", "leave")
    /\ IF queue # <<>> THEN hw' = change_channel(hw, Head(queue).chans)
       ELSE \E c \in {r.chans : r \in Requests} : hw' = change_channel(hw, c)
    /\ UNCHANGED <<sets, status, store, corruption, conversion, core, locals>>

\* cpu_irq_leave_critical(): interrupts come back only when the count returns to 0
Leave ==
    /\ Goto("leave", "sleep")
    /\ nest' = nest - 1
    /\ masked' = (masked /\ nest' # 0)
    /\ last' = NoSample
    /\ UNCHANGED <<sets, status, store, corruption, device, reg>>

Main ==
    \/ Sleep \/ Wfi \/ CheckQueue \/ CheckState \/ CheckTimer \/ Enter
    \/ Claim \/ Overflow \/ CopyFirst \/ CopyRest
    \/ DecCounts \/ DecEnds \/ DecSwitches
    \/ StopAdc \/ StopTimer
    \/ SetAdcRate \/ SetTimer \/ Enable \/ SetChannels \/ Leave

Next == DrdyEdge \/ DrdyIsr \/ TimerIsr \/ OtherIsr \/ Host \/ Main

Spec == Init /\ [][Next]_vars

----------------------------------------------------------------------------
(* Fairness: the core executes, an enabled ADC converts, and an interrupt  *)
(* that is pending again and again is taken when PRIMASK is next clear.    *)
(* The host and the start-of-frame tick owe nothing.                       *)

Fairness ==
    /\ WF_vars(Main)
    /\ WF_vars(DrdyEdge)
    /\ SF_vars(DrdyIsr)
    /\ SF_vars(TimerIsr)

FairSpec == Spec /\ Fairness

----------------------------------------------------------------------------
(* Properties *)

PCs == {"sleep", "wfi", "asleep", "checkQueue", "checkState", "checkTimer", "enter",
        "claim", "copy", "copyRest", "dec", "stopAdc", "stopTimer", "setAdcRate",
        "setTimer", "enable", "setChannels", "leave"}
InCritical == pc \in {"claim", "copy", "copyRest", "dec", "stopAdc", "stopTimer",
                      "setAdcRate", "setTimer", "enable", "setChannels", "leave"}

TypeOK ==
    /\ queue \in Seq(SampleSet)
    /\ leaked \in Nat
    /\ ss \in {"START", "STOP", "GO"}
    /\ timer_done \in BOOLEAN /\ dataRdy \in BOOLEAN
    /\ bufLen \in Nat
    /\ corrupt_sample_set \in BOOLEAN /\ corruption_amount \in Nat /\ overflows \in Nat
    /\ adcData \in Data /\ adcOut \in Settings
    /\ hw \in Devices
    /\ drdyPend \in BOOLEAN
    /\ masked \in BOOLEAN /\ nest \in Nat /\ pc \in PCs
    /\ reg \in Registers
    /\ last \in Stored
    /\ got \in Nat /\ unread \in Nat

\* The DRDY and timer handlers hand over one sample at a time: a tick is
\* never pending together with a sample newer than the tick (adcLib.c:92,
\* timer.c:136-139), whatever the main loop is doing.
HandshakeExclusive == ~(timer_done /\ dataRdy)

\* The critical-section count is the main loop's own section plus one for
\* each overflow that returned without leaving it.
NestingBalanced == nest = overflows + (IF InCritical THEN 1 ELSE 0)

\* Until the first overflow PRIMASK is set exactly inside readData's
\* critical section.
MaskedUntilOverflow == ~corrupt_sample_set => (masked <=> InCritical)

\* Critical sections are kept: every path through readData and the handlers
\* leaves the count and PRIMASK as cpu_irq_enter_critical and
\* cpu_irq_leave_critical mean them to be, the overflow path excepted
\* (sampling.c:129), which is off by exactly one section each time.
SectionsKept == NestingBalanced /\ MaskedUntilOverflow

\* What system_interrupt.h:166-168 promises of nested critical sections:
\* inside one, interrupts are off.
CriticalSectionMasks == InCritical => masked

\* Until the first overflow every stored sample is one conversion: the DRDY
\* handler never rewrites adcData between the bytes of the copy.
NoTornSample == ~corrupt_sample_set => last.first = last.rest

\* dataBuf is never overrun, overflows and leaked sections included.
BufferBounded ==
    /\ bufLen <= BUFFER_LENGTH
    /\ pc = "copyRest" => reg.bufLen + ADC_BYTES_PER_SAMPLE <= BUFFER_LENGTH

\* Until the first overflow bufLen counts exactly the bytes stored since the
\* buffer was last given up: the host's read never falls between the main
\* loop's read and write of bufLen.
UnreadAccounted == ~corrupt_sample_set => bufLen = unread

\* Until the first overflow a set loses one count for each sample stored
\* while it is the head, so it ends after exactly `want' samples, across
\* STOP, START and RM.
CountExact ==
    ~corrupt_sample_set /\ queue # <<>> =>
        /\ Head(queue).num > 0
        /\ Head(queue).num + got = Head(queue).want + (IF pc = "dec" THEN 1 ELSE 0)

\* Until the first overflow, wherever an interrupt may be taken the ADC and
\* the timer run if and only if the status says that sampling is on.
StatusMatchesDevice ==
    ~corrupt_sample_set /\ ~masked => /\ hw.adc <=> ss # "STOP"
                                      /\ hw.tmr <=> ss # "STOP"

\* The corruption record: flagged from the first overflow on, and never
\* owing more than the overflows added.
CorruptionRecorded ==
    /\ corrupt_sample_set <=> overflows > 0
    /\ corruption_amount <= (ADC_BYTES_PER_SAMPLE + 4) * overflows

\* The sampling.c:76 comment, "Stops sampling routine": after STOP only a
\* START command takes the status away from STOP.
StopIsFinal == [][ss = "STOP" => ss' \in {"STOP", "START"}]_vars

\* The tests readData made before its critical section still hold inside it.
ClaimJustified == pc = "claim" => timer_done /\ ss # "STOP" /\ queue # <<>>

\* structure.h:21, "Sample set includes ... sample rate": while samples are
\* taken the timer and the ADC run at the rate of the head of the queue.
RateMatchesHead ==
    ~corrupt_sample_set /\ ~masked /\ ss # "STOP" /\ queue # <<>> =>
        /\ hw.tmrRate = Head(queue).rate
        /\ hw.adcRate = DetermineADCRate(Head(queue).rate)

\* Sampling never goes on with nothing left to sample.
SamplesForSomeSet == ~corrupt_sample_set /\ ~masked /\ ss # "STOP" => queue # <<>>

\* A DRDY edge held back during the change of sets makes at most the first
\* sample of a set one that was converted at the rate before.
StaleAtMostOnce == last.nth > 1 => last.rest.rate = DetermineADCRate(last.for.rate)

\* structure.h:21, "Sample set includes channels to be collected": a sample
\* counted to a set was converted on the channels of that set.
OwnChannels == last # NoSample => last.rest.chans = last.for.chans

\* A tick that finds a sample is served while sampling goes on, even when it
\* comes between the last test and WFI and so wakes nobody.
TickServed == (timer_done /\ ss # "STOP") ~> (~timer_done \/ ss = "STOP")

\* Once the host falls silent, sampling comes to its end (or has flagged an
\* overflow): every queued set is taken in turn and stop() is called.
SamplingEnds ==
    <>[][~Host]_vars => ((ss # "STOP") ~> (ss = "STOP" \/ corrupt_sample_set))
=============================================================================
