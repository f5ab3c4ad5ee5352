# DAQ firmware: TLA+ models, model checking and proofs

The program is the firmware of a USB data-acquisition device: a SAMD21 core
(Atmel START/ASF drivers) that reads a 24-bit, six-channel ADC over SPI and
talks USBTMC to a host. The host queues *sample sets* (how many samples, at
which rate, on which channels), starts sampling, and reads the samples back in
bulk transfers. Paths below are relative to `src/`.

## 1. Inventory

### Components

| Component | Source | State | Operations |
|---|---|---|---|
| Sampling engine | `src/sampling.c` | `ss`, `dataBuf`/`bufLen`, `corrupt_sample_set`, `corruption_amount` | `start`, `stop`, `setRate`, `readData`, `send_ADC_data`, `interruptEnable`, `status_check` |
| Sample-set queue | `src/structure.c` | linked list `queue`, heap | `add`, `rm`, `dec`, `findSet`, `qryDSet` |
| Sample timer | `src/timer.c` | TC4, `timer_done` | `reconfig_timer`, `disable_timer`, `timer_callback`, `delay_*` |
| ADC driver | `src/adcLib.c` | `adcData`, `dataRdy`, ADC registers, START pin, DRDY callback | `drdy_callback`, `readADC`, `writeReg`, `changeSampleRate`, `change_channel`, `startADC`, `enableDrdy` |
| Main loop | `src/main.c` (`main`, `init`) | where it is | `sleep; readData` forever |
| Critical sections, sleep | `interrupt_sam_nvic.c`, `sleepmgr.h` | nesting count, PRIMASK | enter, leave, WFI |
| Command interpreter | `src/main.c`, `src/command.c` | `cmd_txbuf`, `cmd_resp` | ADD, RM, START, STOP, RST, RREG, CRPT, QRY |
| USBTMC message layer | `udi_tmc.c`, second half of `src/main.c` | message header, `activeDataRequest`, `deviceDataResponse`, abort answer | receive a message, answer a request, abort, clear |
| USB endpoint driver | `usb_device_udd.c` | one job per endpoint | run, transfer complete, abort, halt, clear halt, free |
| Control endpoint | `usb_device_udd.c`, `usb.c`, `udc.c`, `udi_tmc.c` | `udd_ep_control_state`, payload counts, the bank's flags | SETUP, data and status stages; the decoding of a request |
| USB device core | `udc.c` | address, configuration | enable, disable, reset, ENDPOINT_HALT, the standard requests |
| SPI transport | `spi_com.c` | receive FIFO, `rx_buf` | exchange bytes, one at a time |
| UI, board and clock set-up, vendored peripheral drivers, start-up code | `ui.c`, `ASF/...` | registers | not modelled (section 8) |

### How they interact

There is no operating system. One core runs the main loop; three interrupts
share its data: EIC (DRDY, a conversion is ready), TC4 (the sample timer) and
USB (host commands, requests, control requests). All have the reset NVIC
priority, so no handler preempts another; every handler may come between any
two instructions of the main loop unless PRIMASK is set.

One sample travels: the ADC raises DRDY; `drdy_callback` reads it into
`adcData` and sets `dataRdy`; the next timer tick finds `dataRdy`, takes it and
sets `timer_done`; the main loop wakes, `readData` tests queue, status and
`timer_done`, enters a critical section, copies `adcData` into `dataBuf`, calls
`dec` on the head set and, when that set is complete, `setRate` for the next
one (or `stop`). Later the host's REQUEST makes the USB handler call
`send_ADC_data`, which empties `dataBuf` into the response message; the
endpoint driver sends it, and the callback of the last hardware transfer
re-arms the OUT endpoint for the next message. A command's reply takes the
same way out: it waits in `cmd_txbuf` until the next request.

### What is hard

- `readData` tests shared state *before* its critical section and relies on it
  inside; a host command may come in between.
- The copy of a sample and the update of `bufLen` are many instructions; DRDY
  and the host's read write the same data.
- The overflow path of `readData` returns from inside the critical section.
- A handshake of two flags over three actors (DRDY, timer, main loop).
- Sampling is changed from the main loop (`setRate`, `stop`) and from the
  host's commands, each by several register writes.
- A tick between the last test and WFI wakes nobody.
- A USB job has two halves, what the driver believes and what the peripheral
  does, and a control request may part them; freeing, aborting or halting one
  endpoint runs a callback that arms the other.
- The linked list is walked, extended and shortened by the USB interrupt while
  the main loop unlinks and frees its head, in sections that stop masking after
  the first overflow.
- The same holds for the SPI: the chip select is driven low once and stays low,
  the lock's answer is ignored, so a transfer begun in an interrupt continues
  the command another one left half sent.
- A register write is verified by reading it back over the same noisy wire, up
  to four times, and given up silently.
- The control endpoint's flags outlive the request that raised them, and the
  handler takes them in the order of its code, not of their coming: the host may
  be steps ahead, also into its next request.
- A response longer than one hardware transfer is continued from interrupt to
  interrupt, and only the last one makes the device listen again.

`PROJECT.json` lists each of these hazards, with the line where it bites and the
property that covers it, or why none does.

### What makes each component correct

| Component | Correct when |
|---|---|
| Sampling engine | every stored sample is one conversion (`NoTornSample`), no byte is counted twice or forgotten (`UnreadAccounted`), the buffer is never overrun (`BufferBounded`), a loss is recorded (`CorruptionRecorded`, proved), STOP stops (`StopIsFinal`), sampling ends (`SamplingEnds`) |
| Queue | each set gets exactly its samples (`CountExact`); the list is the queue, record by record (`ListIsFifo`, `StillAList`), no record is lost or freed twice (`HeapAccounted`), QRY finds the set it names (`FindsByPosition`), walks go forward (`WalkAdvances`, proved) and end (`WalkEnds`), all of it an abstract FIFO (`KeepsPromise`) |
| Timer, ADC | they run exactly while the status says so (`StatusMatchesDevice`), at the rate of the set being sampled (`RateMatchesHead`), one sample in the handshake at a time (`HandshakeExclusive`) |
| SPI, registers, timer arithmetic | every register holds the value of the set or was given up on (`Programmed`), no other is touched (`OthersKept`), reads return what they asked for (`ReadsAligned`), the period is the set's as near as floats have it (`TickFollowsRate`), a switch comes forward and ends (`SwitchAdvances`, `SwitchEnds`) |
| Main loop, critical sections | sections are balanced and mask (`SectionsKept`, `CriticalSectionMasks`), tests still hold when used (`ClaimJustified`), no tick is forgotten (`TickServed`) |
| Message layer | after every message the device listens again (`NeverDeaf`, `ListensAgain`), byte counts add up (`CountsAddUp`), a response is not rewritten in flight (`ReplyStable`), an abort is answered truthfully (`AbortAnswered`) |
| Endpoint driver | a job is registered exactly while the peripheral works for it (`JobMatchesHardware`); whatever the host clears, no job waits for nothing (`JobServed`) |
| Control endpoint, device core | a request is decided once and as a whole (`KeepsPromise`), answered in full (`FullAnswer`), stalled only if refused (`StallOnlyRefused`), and ends (`Answered`); host and device agree on the address (`Reachable`) |

## 2. Modules

| Module | Content |
|---|---|
| `SampleClock` | `determineADCRate`, the choice of the ADC's data rate. Operators only. |
| `Acquisition` | Everything between the ADC pin and `bufLen`: sampling engine, queue, timer, DRDY handler, critical sections, sleep and main loop, and the effect of every host command on them. EXTENDS `SampleClock`. |
| `SetQueue` | What the queue of sample sets promises: a FIFO in a heap of known capacity. |
| `SampleSets` | The queue as it is: a linked list of malloc'ed records, with the command handler between any two accesses of the main loop. Implements `SetQueue`. |
| `TimerClock` | The prescaler and the counter of TC4 for a rate, in the floats that `timer.c` computes them in. Operators only. |
| `AdcLink` | How a set's settings reach the ADC's registers and TC4: the writes with their read-back, byte by byte, and what handlers do in between. EXTENDS `SampleClock`, `TimerClock`. |
| `TmcTransfer` | Everything between a bulk message and the endpoint registers: message layer, endpoint jobs, and the device core's calls on them. |
| `ControlTransfer` | What the control endpoint promises: each request decided once and answered as a whole. |
| `ControlPipe` | The control endpoint as it is: tokens, banks and interrupt flags, the interrupt handler, the endpoint-0 state machine, the request decoder. Implements `ControlTransfer`. |
| `AcquisitionProofs`, `SampleSetsProofs`, `SampleSetsRefinement`, `AdcLinkProofs`, `TmcTransferProofs`, `ControlPipeProofs` | The theorems about each (section 5). |
| `SampleClockProofs`, `Induction` | Lemmas the others share: the codes of `determineADCRate`; induction over the natural numbers, stated of sets. |
| `MCAcquisition`, `MCSampleSets`, `MCAdcLink`, `MCTmcTransfer`, `MCControlPipe` | The sets of requests and messages for the runs. |

`SampleSets` and `AdcLink` each open one step of `Acquisition` (`dec`, and the
register writes of `setRate`) into the accesses that it is made of. That step
may stay whole in `Acquisition` until the first overflow, since the section
masks interrupts; what can come between its parts afterwards is what these two
modules are for.

### `Acquisition` and the code

`queue` is a sequence of records for the linked list; the heap is a number of
cells (`HeapCells`), of which `leaked` were allocated by refused ADDs and never
freed (structure.c:33). `ss`, `timer_done`, `dataRdy`, `bufLen` and the two
corruption variables have the code's names. `hw` holds what the driver calls
leave in the peripherals: START pin and DRDY callback (`adc`), TC4 (`tmr`,
`tmrRate`), the ADC's rate code and channels. `adcOut` is the conversion the ADC
holds, `drdyPend` the EIC flag, `adcData` what `readADC` last left. A sample's
value is abstracted to the settings it was converted under and a parity bit, so
that two successive conversions differ. `masked` is PRIMASK, `nest` the
critical-section count, `reg` the locals of `readData`. `want`, `got`, `last`,
`unread` and `overflows` are ghosts: they record history and guard nothing,
except that `overflows` carries the bound `MaxOverflows`.

The main loop is one action per access that an interrupt can separate:

| `pc` | Code |
|---|---|
| `sleep`, `wfi`, `asleep` | `sleepmgr_enter_sleep`: CPSID, the test, CPSIE, WFI |
| `checkQueue`, `checkState`, `checkTimer` | the three tests of `readData`, sampling.c:120-122 |
| `enter`, `claim` | `cpu_irq_enter_critical`; room test and overflow return |
| `copy`, `copyRest` | the copy loop, in two halves, and the write-back of `bufLen` |
| `dec`, `stopAdc`, `stopTimer`, `setAdcRate`, `setTimer`, `enable`, `setChannels` | `dec`, then `setRate` and `stop`, one step per register written |
| `leave` | `cpu_irq_leave_critical` |

`DrdyIsr`, `TimerIsr`, `OtherIsr` and the host's `Add`, `Rm`, `Stop`, `Start`,
`Read`, `Reset` are single actions enabled while PRIMASK is clear, since nothing
interrupts a handler. A wake-up needs no PRIMASK. `DrdyEdge` is the ADC
completing a conversion while its START pin is high.

Merged or abstracted, each without hiding an interleaving that matters here:
`dec()` is one step and so is the `rm()` inside it (both run in the section;
after an overflow a handler can also fall inside them, which `SampleSets`
models; the properties that `Acquisition` states beyond the first overflow do
not depend on the list); `claim` reads `bufLen` once where the code reads it for the test and
again for the copy. Rates are whole numbers of samples per second. RREG, CRPT,
QRY and start-of-frame leave this state alone and appear as `OtherIsr`, which
wakes the core. The order in which the NVIC takes two pending interrupts is left
open, a superset of what the core does. The heap that `printf` takes is not
counted. When the queue is emptied under a running engine (only possible once
sections stop masking) the code dereferences NULL for the channels; that is any
selection.

### `TmcTransfer` and the code

`inp` and `out` are the bulk endpoints. `busy` and `left` are the driver's job;
`armed` (the peripheral will move a packet) and `pend` (it has, and the
interrupt is due) are the peripheral's; `halted` is the stall request and `on`
the endpoint's enable. `hdr` is `bulkOUTmsgHeader`, `request`
`activeDataRequest`, `xfer` `g_bulkIN_xfer_active`, `cmd_resp` and `cmd_len` the
reply that waits, `resp` `deviceDataResponse`, `answer` the last control answer.
`asked` is a ghost: what the request of the active tag asked for.

The host acts on the peripheral (`HostSends`, `HostTakes`). The interrupt serves
an IN transfer (`NextChunk`: a further hardware transfer of the same message;
`InSent`: the last one, whose callback listens again) before a message on OUT,
one action per outcome: `Command`, `Reset`, `Unknown`, `Ignored` (a request
with transfer attributes), `Refused` (size or buffer), `Served`. Control
requests: `InitiateAbortIn`, `CheckAbortIn`, `InitiateClear`, `CheckClear`,
`HaltIn/Out`, `UnhaltIn/Out`, `Unconfigure` (bus reset or SET_CONFIGURATION(0)),
`Configure`.

CLEAR_FEATURE(ENDPOINT_HALT) is forwarded whether or not the endpoint is halted
(udc.c:487-497), and `udd_ep_clear_halt` ends whatever job it finds
(usb_device_udd.c:589). `UnhaltIn` and `UnhaltOut` do this at any time for a host
that may send "UNHALT". A host with "UNSTALL" instead clears a halt only where
there is one; that is the host of `tmc_faults`, since for the other one
`JobMatchesHardware` is false, for the reason that `tmc_clear` shows. What holds
for both is `ServedTheorem`.

A message is one OUT transfer: it is received into the one header structure
`bulkOUTmsgHeader`, and how the peripheral cuts it into packets is not modelled.
Bytes of a response are not modelled, its length is, with the padding
of main.c that keeps the last packet short. A COMMAND's `size` stands for the
length of the reply that the interpreter writes, since nothing else of the
command is visible here. `send_ADC_data` returns a member of `AdcSizes`. What
hardware decides is left open: whether a stall request outlives the disabling of
its endpoint. What the compiler decides is taken from the repository's build:
`udd_ep_clear_halt` calls a callback of three arguments with none, which is
undefined. That of an IN job looks at none of them; that of an OUT job finds a 1,
UDD_EP_TRANSFER_ABORT, in the register of the first
(`Debug/GccBoardProject2.lss`, addresses 24ee and 24fe) and does nothing.

### `SampleSets` and the code

`queue`, `next` and `num` are the list, `allocated` what malloc has given out.
The main loop's place is `pc`, its registers `d` (`dec`'s queue), `temp` and `nx`
(`rm`'s); the handler's are `new`, `end`, `i` and `pos`. `DecLoad`, `DecCount`,
`RmLoad`, `RmNext`, `RmStore`, `RmFree` are the loads and stores of the object
code (`Debug/GccBoardProject2.lss`): `dec` loads `queue` once and keeps it, `rm`
loads it again. `Use` is `status_check` reading the next set's rate. `Overflow`
is the return inside the section, after which (`unmasked`) commands are served
anywhere. A handler runs to its end without the main loop; it is split only where
it loops (`AddWalk`, `FindStep`), since whether a loop ends is a question.

`order`, `lost` and `overlap` are ghosts: the queue as the host sees it, the
records that refused ADDs keep, and whether a command has been served at one of
the few places where it does harm. `Overlaps` names those places: an ADD between
the load and the store of `rm` when the list has one record (the new one hangs
on the record being unlinked and is lost), an ADD that finds the heap full of a
record about to be freed (answered FULL too early), and an RM while the main
loop has the head in its registers (it is freed twice or read after free).
Everything is stated up to there. After a harmful RM nothing is promised, since
the heap's own bookkeeping is then open; after a harmful ADD the list is still
one (`StillAList`). A second `free` of the same record is taken to do nothing,
as newlib-nano's does while the block is at the head of its free list.

### `AdcLink` and the code

`regs` and `wire` are the ADS1299, as far as `adcLib.c` uses it: registers 0 to
23 and the command decoder, which counts bytes and knows nothing of who sends
them. `rx` is the receive FIFO of the SERCOM, `rx_buf` the byte of `spi_com.c`'s
buffer that `readReg` returns and all transfers share. `head` is the first set of
the queue, `target` what the main loop has loaded from it: `status_check` loads
`queue` for the rate (`Begin`, sampling.c:46) and again for the channels
(`Reconfigure`, sampling.c:47), and an RM in between gives it the rate of one set
and the channels of another.

A switch runs through `step`: CONFIG1, the timer, the channels, STOP and START
(`status_check`, `setRate`); START's own switch, in the interrupt, ends after the
timer. In it each byte is `Put` (the byte is sent and its answer is in the FIFO)
and `Get` (the answer is taken), and `Accept`, `Retry` and `GiveUp` are the three
outcomes of `writeReg`'s comparison. Noise garbles a register's *value*, on its
way out or back, once per attempt. It never garbles an opcode or a count byte:
those could send the value to another register, and nothing in the code would
notice or is meant to.

`DrdyIsr`, `RregIsr`, `RmIsr` and `StartIsr` are handlers, whole, between any two
of those steps while the main loop writes, as they can come after an overflow.
START follows a STOP, which changes nothing here: it writes CONFIG1 (`WriteReg`,
in up to four attempts) and sets the timer under the main loop's hands. `readADC`'s
uninitialised counter is a choice among `Attempts`. `inside` counts the handlers
that came inside a transfer, and `moved` says that an RM has come; `Programmed`
speaks of switches with neither. `split` is set by an RREG or START inside a
transfer: the ADC may then take a register number for a count of bytes and miss
what follows, so that later reads, even undisturbed ones, return other bytes than
they asked for. A DRDY transfer there does not do that: its 22 bytes outlast any
command half sent, and the ADC waits for an opcode again. So `ReadsAligned` speaks
of the time before `split`.

### `TimerClock` and the code

A rate is a fraction [n, d], and so is a float's value. `Float(a, b)` is the
quotient a/b rounded to `FLOAT_INTS` (2^24), to the nearest and of two to the even
one; it is scaled by the `Powers` of two that the quotient needs. `Fits`,
`CLK_PS_1` and `DetermineCounter` round where the code divides and nowhere else,
because the clock, the prescalers and their products with a rate of the run are
floats themselves. `PrescaleToInt` keeps its eight bits. A division by the 0 that
this leaves of 256 gives infinity, and `ToUint32` saturates.

### `ControlPipe` and the code

The host's side is `phase`, `request`, `got`, `outcome` and the address it uses;
the peripheral's the two banks, the stall requests and `flags` (EPINTFLAG); the
driver's `state` (`udd_ep_control_state`), `payload`, `trans`, `prev` and `short`
(the counts of `udd_ctrl_in_sent`), `callback` (the address is set when the
status stage has ended) and the device core's `addr`, `conf`, `enabled`.

A token (`HostSetup`, `HostIn`, `HostOut`) acts on the peripheral at once and
leaves a flag. The interrupt takes one flag at a time in the order of usb.c:
SETUP first, then a completed transfer, then a failed one, and a bus reset only
when no endpoint has an interrupt due. `SetupRefused`, `SetupRead`, `SetupWrite`
are the outcomes of decoding; `TransferOk` is a completed stage, `Underflow` and
`Overflow` are failed tokens. A request is its kind (`op`), its wLength and the
size of its payload or its value; `Granted` and `Process` follow `udc.c` with the
order of their effects. A SETUP while flags are due makes the request `late`:
those flags will be served as if they were its own, and of late requests the
properties say only what still holds. `orphan` is a SET_ADDRESS given up half way.

## 3. Runs

| Run | Specification and bounds | States | Result |
|---|---|---|---|
| `commands` | `Spec`; all six host operations; two sets in different ADC bands and one refused; heap of 2, buffer of 5 bytes, samples of 2; one overflow | 456,359 | pass |
| `steady` | `FairSpec`; ADD, START, READ | 24,082 | pass |
| `sample_sets` | `Spec`; three records; sets of one and two samples, one refused | 485,629 | pass |
| `adc_link` | `Spec`; one channel, two sets of different rates, handlers between transfers and one inside a transfer, one register given up on | 577,496 | pass |
| `tmc_polite` | `FairSpec`; well-formed messages, CLEAR, reconfiguration | 34,815 | pass |
| `tmc_faults` | `Spec`; also bad messages, aborts, halts and their clearing, reused tags | 1,077,080 | pass |
| `control` | `Spec`; nine requests, packets of 16 bytes, one transfer given up | 334,432 | pass |
| `overrun_masking` | two overflows, buffer of one sample and a byte | | `CriticalSectionMasks` violated |
| `stop_race` | one set of one sample; ADD, STOP, START | | `StopIsFinal` violated |
| `first_channels` | one set of one channel; ADD, START | | `OwnChannels` violated |
| `tmc_clear` | well-formed messages, CLEAR | | `JobMatchesHardware` violated |
| `tmc_abort` | well-formed messages, ABORT | | `AbortAnswered` violated |

What the passing runs ask:

- **commands**: does anything the host can do, at any point of the main loop,
  break atomicity, accounting, the count of a set, or the agreement of status
  and device? Not before the first overflow. And what survives one, after which
  sections do not mask? The buffer is still bounded, the handshake holds and the
  nesting count is off by exactly the overflows. Checks `TypeOK`,
  `SectionsKept`, `NoTornSample`, `UnreadAccounted`, `CountExact`,
  `StatusMatchesDevice`, `HandshakeExclusive`, `BufferBounded`.
- **steady**: with a host that neither stops nor removes, are sets run in turn
  at their own rates, and does sampling end? Checks `ClaimJustified`,
  `RateMatchesHead`, `StaleAtMostOnce`, `TickServed`, `SamplingEnds`.
- **sample_sets**: is the linked list a FIFO, with a command between any two
  accesses of the main loop? Until one is served at a harmful place; and then,
  if it was an ADD, still a list. Checks `TypeOK`, `ListIsFifo`,
  `HeapAccounted`, `FindsByPosition`, `StillAList`, `WalkEnds`, `KeepsPromise`.
- **adc_link**: do the settings of the set at the head reach ADC and timer over a
  wire that garbles values, with other transfers, RM and START between those of
  the main loop? And with one of them inside a transfer of the main loop, does the
  switch still come forward and end, and what can still be read? Checks `TypeOK`,
  `Programmed`, `OthersKept`, `TickFollowsRate`, `ReadsAligned`, `SwitchAdvances`,
  `SwitchEnds`.
- **tmc_polite**: is a well-behaved host always heard, INITIATE_CLEAR and
  reconfigurations at any time included, and is no job left to wait for nothing?
  Checks `TypeOK`, `NeverDeaf`, `JobServed`, `ListensAgain`.
- **tmc_faults**: do driver, peripheral and counts agree whatever a host sends that
  clears only halts it has met? Checks `JobMatchesHardware`, `CountsAddUp`,
  `ReplyStable`.
- **control**: is each request decided once, answered in full and stalled only
  if refused, with a host steps ahead that gives transfers up and resets the
  bus? Checks `TypeOK`, `FullAnswer`, `StallOnlyRefused`, `Reachable`,
  `Answered`, `KeepsPromise`.

Why the bounds are enough. Two sets in different bands make every switch of
rate and channels happen, and the last one makes `stop` happen; a heap of two
makes ADD answer FULL and leak. A buffer of two samples and a byte has all of
empty, one sample, full, and a remainder too small for one more. One overflow
already ends the masking for good; that later ones only add to the nesting count
is a theorem (section 5). The timer falls silent after `MaxOverflows` (the guard
of `TimerIsr`), a bound on behaviour.

Three records are the least with which a list has an inner one, a refused ADD
leaks one and two remain. Sets of two samples separate a count from the end of a
set. A count that passes 0 becomes `UINT32_MAX`, 3 in the run. `Promised` cuts
the run off after an RM that did harm, where nothing is promised.

One channel of the six stands for all, whose writes are alike; that nothing
depends on their number is a theorem. Floats have five bits, and the 32-bit range is scaled with them
(`UINT32_MAX` is 2^13 - 1, as 2^32 is to 2^24); the clock is 92 counts a second, so
that the longest count lasts 89 seconds, as on the board, and the rates at which
the prescaler changes are those of the code. The rates are 320 Hz, in another
band of the ADC and faster than this clock counts, and 1/5041 Hz, which takes the
prescaler of 64 and whose count the float rounds, 7168 for 7246. What becomes of
other rates, those beyond that prescaler among them, is a theorem. Of
`Attempts`, 1 and 3 stand for a counter that ends the loop at once and one that
lets it go on; registers 10 and 200 for one that exists and one refused, 10 being
a number that takes the ADC past the next reads when it is taken for a count.
`MaxInside` and `MaxFailed` end harm and noise after one.

In `TmcTransfer` the response buffer is 60 bytes instead of 10000 and a hardware
transfer 64 instead of 8191, so that a response fits one transfer, needs two, or
is padded, and a reply is cut by a short request; two tags give a new tag, a
repeated one and a stale one. In `ControlPipe` a payload of 32 bytes fills its
packets exactly, with and without more asked for; 18 is cut to 8; a class reply
of 24 is asked for in 8 (babble) and 16; each kind of refusal occurs.

Every property of a passing run has a mutant in `PROJECT.json`: a change of a
definition that a plausible slip in the code would make (a dropped test, a flag
not taken, an interrupt mask left out, two calls swapped), under which the same
run reports the property violated.

## 4. Fairness

`Acquisition.Fairness` is WF on the main loop (the core executes whenever it is
not asleep), WF on `DrdyEdge` (an ADC whose START pin is high converts), and SF
on `DrdyIsr` and `TimerIsr`: a flag raised in a critical section stays pending
and is taken when PRIMASK is next clear, though the section may be entered again
and again. Nothing is assumed of the host or of the start-of-frame tick, so
`TickServed` does not rest on something else waking the core: the next DRDY or
timer interrupt does. `SamplingEnds` is conditional on the host falling silent,
since a host may always add another set.

`TmcTransfer.FairSpec` is WF on both halves of the USB interrupt, and WF on
`HostTakes`: a host that has asked for data reads it. Without the last,
`ListensAgain` would be false for a reason outside the program.

`SampleSets.Spec` is WF on the handler once it has begun: nothing interrupts it.
`AdcLink.Spec` is WF on the main loop's transfers: the SPI driver polls a
peripheral that answers every byte; handlers and noise may come as often as the
bounds allow. `ControlPipe.Spec` is WF on the interrupt and on the host's IN and
OUT tokens: a host polls a transfer it has begun, though it may give it up, and
nothing makes it begin one.

## 5. Theorems

All for every value of the constants that the named assumptions allow.

`AcquisitionProofs`, for any host: `TypeCorrectness`, `NestingTheorem`,
`HandshakeTheorem`, `BufferTheorem`, `CorruptionTheorem`, `AtomicityTheorem`
(`NoTornSample`), `AccountTheorem` (`UnreadAccounted`), `CountTheorem`
(`CountExact`), `StatusTheorem` (`StatusMatchesDevice`), `SectionsTheorem`
(`SectionsKept`: `NestingBalanced` and `MaskedUntilOverflow`). For hosts that send no STOP, RM or RST (`QuietHost`):
`ClaimTheorem` (`ClaimJustified`), `RateTheorem` (`RateMatchesHead`) and
`SomeSetTheorem` (`SamplesForSomeSet`), and until the first overflow
`StaleTheorem` (`StaleAtMostOnce`). For hosts that send no STOP `StopTheorem`
(`StopIsFinal`), which run `stop_race` shows false of others. `BUFFER_LENGTH` need not be a multiple of
the sample size, and `MaxOverflows` is any number.

The invariant has three layers, each inductive on top of the one before:

1. `Typed == TypeOK /\ NestingBalanced`. The count is needed for the types:
   leaving a section decrements an unsigned number, and only the balance says it
   was positive.
2. `Robust`, what holds overflows or not: the handshake, the corruption record,
   the bound of the buffer, and `RoomKept`: between the room test and the end of
   the copy there *is* still room. None of it may use that sections mask.
   `RoomKept` holds because handlers only ever make `bufLen` smaller.
3. `Clean`, until the first overflow: PRIMASK is set exactly inside the section,
   hence no handler runs there, hence the half copied equals `adcData`, `bufLen`
   equals the bytes stored and not given up, the head's count and the samples
   stored add up to what ADD asked for, and (`DeviceFollows`) at each point of
   `setRate` and `stop` status, START pin and timer differ by exactly the writes
   still to come. The named properties leave the last out, so they are not
   inductive: `StatusMatchesDevice` speaks only of unmasked states.

For quiet hosts two more conjuncts carry on. `Tested`: what a test of `readData`
found is still so at the next one, since handlers then only ever add to what was
tested. `AtRate`: at each point of `setRate` the programmed rate is that of the
head, or the write that makes it so is still to come. On top of them
`FirstOnly`: when a set begins no sample is waiting, so a conversion held back
from before is read as the set's first, and every edge after it is of the new
rate.

`TmcTransferProofs`: `TypeCorrectness` and `ServedTheorem` (`JobServed`) for any
host; for hosts that send only well-formed messages and neither abort, halt,
clear a halt nor reuse a tag (`PoliteHost`) `HeardTheorem` (`NeverDeaf`); and for
hosts that send neither INITIATE_CLEAR nor CLEAR_FEATURE for an endpoint that is
not halted (`ClearsOnlyStalls`) `JobTheorem` (`JobMatchesHardware`),
`CountsTheorem` (`CountsAddUp`) and the action property `ReplyTheorem`
(`ReplyStable`). The restriction is not a convenience: run `tmc_clear` shows the
first of them false of a host that sends INITIATE_CLEAR, and CLEAR_FEATURE does
the same. Nor is that of `PoliteHost`: a CLEAR_FEATURE for OUT while a message
waits to be served, after an INITIATE_CLEAR that left an IN transfer under way,
ends with a request refused for the response still being sent, and OUT halted.

`ServedTheorem` rests on `Serving`: a job's transfer is armed, or done and its
interrupt due. A job is only ever registered on an enabled endpoint or, by the
callback of one being freed, on one that is freed next. For the other three the
invariant is `Typed == TypeOK /\ OnTogether` (both endpoints are enabled or
neither) and `Jobs`: `Turns` says that job and peripheral agree on each endpoint,
that a halted one has no job, *and that the two endpoints never have a job at
the same time*. The last is the strengthening that carries the rest: a response
is built only in the interrupt of the OUT endpoint, which therefore is not
running, and the only thing that starts it is the end of the IN job. `Counted`
follows with it: counts may disagree only between a request and its answer.
For polite hosts `Alternate` says that whenever the endpoints are enabled OUT
has a job or IN has a packet moving or done, whose interrupt starts OUT; and
`Polite` that no message is due that would be dropped without an answer.

`SampleSetsProofs`: `TypeCorrectness`, `ListCorrect` (`ListIsFifo`), `HeapCorrect`
(`HeapAccounted`), `FindCorrect` (`FindsByPosition`), for any heap and any
requests. The invariant is `TypeOK`, `Masks` (until an overflow the handler finds
the main loop outside, and so does no harm) and, while no command has done harm,
`Linked`, `Accounted` and `Hands`: the registers of the main loop and of the
handler point into the list where their places say. `Hands` is the
strengthening: without it nothing ties `rm`'s `temp` to the head it unlinks, or
`findSet`'s record to its position. The work is in `Link` and `Unlink`, what an
append and a removal do to the chain. `SampleSetsRefinement` proves `Refines`:
`SampleSets` implements `SetQueue`, steps after the first harmful command mapping
to a promise that is off. Its invariant adds `Counts`: every record in the list
has samples to go, except the head between the count that ended it and the store
that unlinks it. FULL is where the heap comes in: the records linked and the
leaked ones are all there are, as many as the sets and the refusals.

A harmful ADD ends that invariant but not the list. `ListEnds` (`StillAList`) and
`WalksAdvance` (`WalkAdvances`) go on with `ListInv`: `order` no longer says what
the list holds, but *some* sequence of different, allocated records does
(`SomeList`), and the registers fit it (`Held`). In particular the `nx` that `rm`
has loaded is the next of the head still, or NULL because it was NULL then, in
which case the store drops all that an ADD hung there since. A sequence of
different records is no longer than the heap has records, so `Trail`, unfolded by
induction, ends, and the loops of `add` and `findSet`, each step of which goes one
record further on it, take at most that many steps: `WalkEnds` without its
fairness.

`AdcLinkProofs`, for every precision of floats, every clock and rate that are
floats themselves, any number of channels and any `MaxInside` and `MaxFailed`:

- `TimerAccurate` (`TickFollowsRate`): unless an RM comes inside the switch, the
  period is the head's to within one count or three parts in `FLOAT_INTS`
  wherever the prescaler fits eight bits, and the longest there is where it does
  not, START included. It is not exact: at 48 MHz the count for 1/5000 Hz is
  3750000128, not 3750000000. It rests on lemmas about rounded division
  (`NearestBounds` first) and on one about the eight prescalers.
- `TypeCorrectness` (`TypeOK`), from `LinkInv == TimerInv /\ Control /\ Typed`:
  where a switch can be, and that an answer waits only in the middle of a
  transfer. A handler's transfer takes as many answers as it causes.
- `SwitchComesOn` (`SwitchAdvances`) and `SwitchBounded`: each step of the main
  loop brings a switch forward, and there is only so far to go: what `SwitchEnds`
  says, without its fairness.
- `ReadsStayAligned` (`ReadsAligned`), from `Sync`: until an RREG or START comes inside a
  transfer the ADC is either waiting for an opcode or exactly as far in the main
  loop's command as the main loop is, whatever DRDY transfers came. The property
  alone is not inductive, since a later read goes wrong because of where an
  earlier one left the decoder.
- `RegistersProgrammed` (`Programmed`) and `OtherRegistersKept` (`OthersKept`),
  from `Exact`: until a handler comes inside a transfer (and for the first an RM
  inside the switch), whatever value bytes are garbled, the ADC follows the main
  loop to the byte (`Follows`); a register holds what was written to it, unless
  that byte was garbled (`Written`); what comes back is what it holds, unless that
  was garbled (`Returned`); and every attempt but the present one was
  (`Noisy`). The last is why giving up needs four garbled attempts, and the third
  why a register that compares equal is right.

A handler's transfer is a recursive function of its bytes, and its attempts
(`Tried`, of `readADC` and START's `writeReg`) one of their number. What it leaves is shown byte by byte: READ_ADC brings 21 bytes of
sample and leaves the ADC waiting, and begun anywhere in another command it
also ends waiting. The recursion is unfolded with `Iterates` and `UpTo` of
`Induction`, which derive from the library's well-foundedness of `<` an induction
whose predicate is a set, and hence can be instantiated by the provers.

`ControlPipeProofs`: `TypeCorrectness`, `AnswersInFull` (`FullAnswer`),
`StallsRefusalsOnly` (`StallOnlyRefused`), `AddressAgreed` (`Reachable`), and
`Refines`: `ControlPipe` implements `ControlTransfer`, for every set of requests
and every packet size. The invariant is `TypeOK` and `Stages`, which says for
each stage of the host's transfer which states of the driver and which flags
are possible: before the SETUP is served (`Fresh`), during a bus reset
(`Quiet`), in a transfer begun with no interrupt due (`Clean`, one of `Refused`,
`Writing`, `Armed`, `Taken`, `Closing`) and after it (`Ended`). It is a table
because the host runs ahead: no single relation holds between its phase and the
driver's state. `AddressAgreed` has an invariant
of its own, `AddrInv`: who holds the address until the status stage's interrupt
is served, and that no callback is left to run twice.

`CorruptionRecorded`, `SamplesForSomeSet` and `WalkAdvances` are proved and checked by
no run, and `StopIsFinal` by `stop_race` alone, where the host does stop.

## 6. Model-checked only

Liveness (`TickServed`, `SamplingEnds`, `WalkEnds`, `SwitchEnds`, `ListensAgain`,
`Answered`) stays with TLC, since fairness and ENABLED are beyond the prover. Of
`WalkEnds` and `SwitchEnds` the rest is proved, see above: every step counts and
there are boundedly many. Every invariant and every other action property that a
passing run checks is the statement of a theorem.

## 7. Disagreements found

| Run | What the code does |
|---|---|
| `overrun_masking` | `readData` returns at sampling.c:129 without leaving the section it entered. The count never falls to zero again, so after one overflow critical sections no longer mask, against system_interrupt.h:166. |
| `stop_race` | A STOP between the tests of sampling.c:120-122 and the section is undone when the sample completes its set: `setRate` starts timer and ADC again and the status goes to GO (sampling.c:89). |
| `first_channels` | `start` does not select the first set's channels (commented out at sampling.c:62). |
| `tmc_clear` | `udd_ep_clear_halt`, called for INITIATE_CLEAR, ends a job whose transfer is still running; the next request rewrites the response in flight. |
| `tmc_abort` | An `else` is missing at main.c:224: the abort of an active transfer is answered NOT_IN_PROGRESS. |

Met while modelling and kept in the models, without a run of their own:

- CLEAR_FEATURE(ENDPOINT_HALT) for an endpoint that is not halted does to either
  endpoint what INITIATE_CLEAR does to IN (udc.c:487-497 asks for no halt), and
  calls a callback of three arguments with none (usb_device_udd.c:591). This is why
  `JobMatchesHardware` is asked of hosts that clear only halts.
- RM unlinks the set that is being sampled and reprograms nothing
  (structure.c:45); the next set is counted at the removed set's rate. This is
  why `RateMatchesHead` is asked of hosts without RM.
- For rates below about one sample in 5726 seconds the prescaler is 256 or 1024,
  which `prescaleToInt` (timer.c:85, "Returns the value of the prescaler" at
  line 81) cuts to 0; the division saturates and the timer runs at its longest
  period instead. `TickFollowsRate` states exactly this boundary.
- After an overflow an RM between sampling.c:46 and 47 leaves the ADC with the
  rate of one set and the channels of another. This is why `Programmed` is asked
  of switches without RM.
- After an overflow a DRDY transfer may begin between the opcode and the count
  byte of a register write. Its READ_ADC opcode then counts as the number of
  registers to write, and nineteen of them are overwritten. adcLib.c:184-185
  says of the multiple-register form that "this functionality is ignored". This is why
  `Programmed` and `OthersKept` end with the first handler inside a transfer.
- After an overflow an RM between the load and the store of the main loop's own
  `rm` frees a record twice; two sets may then share one record, the list becomes
  a cycle, and the next ADD never ends, in the USB interrupt. An ADD at that
  place is answered with success and lost.
- An OUT-data request is refused with a stall of IN tokens only; the host's OUT
  data is NAKed until the host gives up.

## 8. Not modelled

The modules cover the application (`sampling.c`, `structure.c`, `timer.c`,
`adcLib.c`, `spi_com.c`, `main.c`), the USBTMC class, the device core and the
endpoint driver. These are a small share of the repository's lines: most of its
110,000 are vendored register definitions (`component/`, `instance/`, `pio/`),
the CMSIS headers and DSP library, drivers for peripherals that the program does
not use, and the `OLD` copies of drivers, none of which has behaviour of this
program to state. Of the rest, not modelled:

- Tokenising of commands and wording of replies: text, no shared state. So QRY's
  number, which `strtoul` reads in base 50 (main.c), is taken as a number.
- Bytes of samples and responses: `send_ADC_data` appears by its effect on
  `bufLen` and the counts. What its copy loop leaves behind (it stops 17 bytes
  short of the request) is a hazard without a property, because no comment or
  test says what a short request should get.
- Delays (`delay_ms`, `delay_us`) and the power-up sequence of `initADC`: time
  that passes once, before anything else runs.
- START inside `reconfig_timer` of the main loop, in `AdcLink`: it is taken to come
  just after, since `tc_init` refuses a timer that is enabled. Anywhere else in a
  switch START is `StartIsr`.
- SET_FEATURE and CLEAR_FEATURE for endpoint 0, whose job is a NULL pointer
  (usb_device_udd.c:320): `ControlPipe`'s `FEATURE` is one for a bulk endpoint,
  and granted.
- malloc and free as such: newlib's are not locked and could meet in the
  interrupt after an overflow; `SampleSets` takes each as one step.
- The re-check of the flags inside one run of usb.c's handler
  (TRFAIL against TRCPT): each run of `Isr` takes one flag. `udd_ctrl_out_received`,
  since no request with OUT data is ever granted. Suspend and wake-up, remote
  wake-up, the contents of descriptors.
- Abort of a bulk OUT transfer, capabilities, indicator pulse: control requests
  that answer and change nothing (their replies are `ControlPipe`'s `CLASS`).
- The OUT cache buffer and `udd_ep_wait_stall_clear`, which nobody reaches here.
- LEDs, clocks, pins, vendored register drivers and start-up code: executed once
  or output only. What they show the application (an EIC flag that outlives a
  disabled callback, a timer that ticks while enabled, the byte loop of the SPI
  driver) is in `DrdyIsr`, `TimerIsr` and `AdcLink`.

## 9. Plan

Done: `SampleClock`, `Acquisition`, `TmcTransfer`, `SampleSets` with `SetQueue`,
`AdcLink`, `ControlPipe` with `ControlTransfer`, and their proofs. What would
come next:

1. `DataBuffer`: `send_ADC_data` as the loop and as a closed form; which requests
   lose the tail of the buffer; the response never exceeds its buffer.
2. `Daq`: `Acquisition` and `TmcTransfer` composed, so that the host's Read is the
   request that `TmcTransfer` serves; an abstract device as the host sees it
   (samples delivered in order, without repetition, or reported corrupt) and the
   refinement. The product is far larger than either part, so it needs a smaller
   `Acquisition` first, which the abstract device would give.
3. Proofs: the steps of a set bounded like those of a switch, as the part of
   `SamplingEnds` that does not rest on fairness.

## 10. Running it

    tlc -workers 2 -config Commands.cfg MCAcquisition.tla     # likewise Steady, OverrunMasking, StopRace, FirstChannels
    tlc -workers 2 -config SampleSets.cfg MCSampleSets.tla    # a minute and a half
    tlc -workers 2 -config AdcLink.cfg MCAdcLink.tla          # two minutes
    tlc -workers 2 -config TmcFaults.cfg MCTmcTransfer.tla    # likewise TmcPolite, TmcClear, TmcAbort
    tlc -workers 2 -config Control.cfg MCControlPipe.tla      # two minutes
    tlapm AcquisitionProofs.tla                               # 1013 obligations
    tlapm Induction.tla                                       # 78 obligations
    tlapm SampleClockProofs.tla                               # 14 obligations
    tlapm SampleSetsProofs.tla                                # 1379 obligations
    tlapm SampleSetsRefinement.tla                            # 622 obligations
    tlapm AdcLinkProofs.tla                                   # 3810 obligations
    tlapm TmcTransferProofs.tla                               # 979 obligations
    tlapm ControlPipeProofs.tla                               # 1526 obligations
