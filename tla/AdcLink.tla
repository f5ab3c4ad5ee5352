------------------------------- MODULE AdcLink -------------------------------
(***************************************************************************)
(* How a sample set's settings reach the ADC and the timer (adcLib.c,      *)
(* spi_com.c): the register writes with their read-back, byte by byte over *)
(* SPI, and where in them the timer is set (TimerClock.tla).               *)
(*                                                                         *)
(* The chip select is driven low once, in initGPIO, and stays low, and     *)
(* nobody looks at what spi_lock() returns: a transfer begun by an         *)
(* interrupt handler continues the command another one left half sent.     *)
(* Handlers are kept out by the critical section of readData() until a     *)
(* buffer overflow leaves it without closing it (see Acquisition.tla);     *)
(* from then on drdy_callback(), RREG, RM and START come between any two   *)
(* accesses, and status_check() reads the queue twice, once for the rate   *)
(* and once, all of setRate() later, for the channels.                     *)
(*                                                                         *)
(* `wire' is the command decoder of the ADS1299 and `rx' the receive FIFO  *)
(* of SERCOM0: the two things the firmware's transfers share.              *)
(***************************************************************************)
EXTENDS SampleClock, TimerClock, Sequences, FiniteSets

CONSTANTS
    Sets,           \* the [rate, chans] of the sample sets; a rate is [n, d], n/d Hz
    Channels,       \* the channels change_channel() writes: HIGHEST_CHANNEL
    Attempts,       \* the numbers of attempts readADC's counter may leave
    ReadRegs,       \* the registers RREG asks for
    MaxInside,      \* bound: handlers that come inside a transfer; after the last of
                    \* them the queue and the bytes stay as they are
    MaxFailed       \* bound: registers given up on before the noise ends

Rates == {s.rate : s \in Sets}

ASSUME SetsAssumption ==
    /\ Sets \subseteq [rate : Rates, chans : Nat]
    /\ \A r \in Rates : Computable(r)
    /\ Channels \in 1..8
    /\ ReadRegs \subseteq 0..255 /\ Attempts \subseteq 1..4
ASSUME BoundsAssumption == MaxInside \in Nat /\ MaxFailed \in Nat

VARIABLES
    regs,           \* the registers of the ADC
    wire,           \* its decoder: what the next byte means
    rx,             \* received bytes nobody has taken
    rx_buf,         \* the third byte of spi_com.c's buffer, which readReg returns
    by,             \* who is writing settings: "main" (status_check), "usb" (START)
    head,           \* the first sample set of the queue
    target,         \* the rate and the channels loaded from it for the switch
    step,           \* the place in that switch, 0 when there is none
    phase,          \* writeReg: "write", or the "read" that verifies
    pos,            \* the byte of the transfer; Len + 1 when its answer is judged
    awaiting,       \* the byte is sent and its answer not taken
    attempts,
    timer,          \* TC4: prescaler selected and counter loaded
    aligned,        \* ghost: a read between transfers returned what it asked for
    hit,            \* ghost: this attempt has met a garbled byte
    noise,          \* ghost: garbled attempts at the current register
    failed,         \* ghost: registers this switch gave up on after four such attempts
    inside,         \* ghost: handlers that came inside a transfer
    split,          \* ghost: one of them was no read of a sample
    moved           \* ghost: the head has been removed during this switch

chip == <<regs, wire, rx>>
queued == <<head, target, moved>>
writer == <<by, step, phase, pos, awaiting, attempts, rx_buf>>
ghosts == <<hit, noise, failed, inside, split>>
vars == <<chip, writer, queued, timer, aligned, ghosts>>

----------------------------------------------------------------------------
(* Bytes *)

WRITE_REG == 64
READ_REG == 32
READ_ADC == 18
START_ADC == 8
STOP_ADC == 10
CONFIG1_REG == 1
CONFIG4_REG == 23
CH_0_SET_REG == 5
CONFIG1_REG_INIT == 208
CHSET_ON_REG_VAL == 0
CHSET_OFF_REG_VAL == 129

STATUS == 256       \* the first byte of a sample, whose upper half is 0xC
DATA == 257         \* any other byte of a sample
JUNK == 258         \* what comes back while a command is being sent
GARBLED == 255

\* initADC: CONFIG1-3 and MISC1 written, all channels on, the rest as reset.
InitialRegs ==
    [r \in 0..CONFIG4_REG |->
        CASE r = CONFIG1_REG -> CONFIG1_REG_INIT
          [] r = 2 -> 195
          [] r = 3 -> 96
          [] r = 21 -> 32
          [] OTHER -> 0]

IdleWire == [st |-> "idle", reg |-> 0, n |-> 0]

----------------------------------------------------------------------------
(* The ADS1299, as adcLib.c uses it *)

Opcode(b) ==
    CASE b \div 32 = 2 -> [st |-> "wcount", reg |-> b % 32, n |-> 0]
      [] b \div 32 = 1 -> [st |-> "rcount", reg |-> b % 32, n |-> 0]
      [] b = READ_ADC  -> [st |-> "sample", reg |-> 0, n |-> 21]
      [] OTHER         -> IdleWire

\* The next register of a command, or its end
Further(w) == IF w.n = 1 THEN IdleWire ELSE [w EXCEPT !.reg = @ + 1, !.n = @ - 1]

\* What the next byte means after byte b
Decoded(w, b) ==
    CASE w.st = "idle"   -> Opcode(b)
      [] w.st = "wcount" -> [st |-> "wdata", reg |-> w.reg, n |-> (b % 32) + 1]
      [] w.st = "rcount" -> [st |-> "rdata", reg |-> w.reg, n |-> (b % 32) + 1]
      [] OTHER           -> Further(w)

\* What comes back while a byte goes out
Answer(c, garbled) ==
    LET w == c.wire
    IN  CASE w.st = "rdata"  -> IF garbled THEN GARBLED
                                ELSE IF w.reg \in DOMAIN c.regs THEN c.regs[w.reg] ELSE 0
          [] w.st = "sample" -> IF w.n = 21 THEN STATUS ELSE DATA
          [] OTHER           -> JUNK

\* The registers after byte b
Stored(c, b, garbled) ==
    IF c.wire.st = "wdata" /\ c.wire.reg \in DOMAIN c.regs
    THEN [c.regs EXCEPT ![c.wire.reg] = IF garbled THEN GARBLED ELSE b]
    ELSE c.regs

\* One byte b goes out and one comes in.  Registers are written and read in
\* sequence, one more of them than the count byte says.
Exchange(c, b, garbled) ==
    [wire |-> Decoded(c.wire, b), regs |-> Stored(c, b, garbled), rx |-> Append(c.rx, Answer(c, garbled))]

Chip == [regs |-> regs, wire |-> wire, rx |-> rx]

\* One byte of a handler's transfer: sent, and the oldest answer taken
Cross(t, b) ==
    LET e == Exchange(t.chip, b, FALSE)
    IN  [chip |-> [e EXCEPT !.rx = Tail(@)], taken |-> Append(t.taken, Head(e.rx))]

\* A whole transfer by a handler
Transfer(c, bytes) ==
    LET after[k \in 0..Len(bytes)] ==
            IF k = 0 THEN [chip |-> c, taken |-> <<>>] ELSE Cross(after[k - 1], bytes[k])
    IN  after[Len(bytes)]

\* A transfer in n attempts: another is made unless its answer i is the one wanted.
Tried(c, bytes, i, wanted, n) ==
    LET after[k \in 0..n] ==
            IF k = 0 THEN [chip |-> c, taken |-> <<>>]
            ELSE LET t == after[k - 1]
                 IN  IF k > 1 /\ t.taken[i] = wanted THEN t ELSE Transfer(t.chip, bytes)
    IN  after[n]

Becomes(c) == regs' = c.regs /\ wire' = c.wire /\ rx' = c.rx

----------------------------------------------------------------------------
(* A switch: CONFIG1, the timer, the channels, STOP and START again.  START's *)
(* own switch ends after the timer.                                          *)

TimerFor == [r \in Rates |-> ConfigTimer(r)]

TimerStep == 2
RestartStep == Channels + 3
LastStep == IF by = "usb" THEN TimerStep ELSE RestartStep
RegSteps == {1} \cup 3..(Channels + 2)

RegOf(k) == IF k = 1 THEN CONFIG1_REG ELSE CH_0_SET_REG + k - 3
ValueOf(k, s) ==
    IF k = 1 THEN (DetermineADCRate(s.rate.n \div s.rate.d) % 8) + CONFIG1_REG_INIT
    ELSE IF (s.chans \div 2^(k - 3)) % 2 = 1 THEN CHSET_ON_REG_VAL ELSE CHSET_OFF_REG_VAL

\* Mutant: the count byte is the number of registers, not one less.
BytesCountOne(k, ph, s) ==
    IF k = RestartStep THEN <<STOP_ADC, START_ADC>>
    ELSE IF ph = "write" THEN <<WRITE_REG + RegOf(k), 1, ValueOf(k, s)>>
    ELSE <<READ_REG + RegOf(k), 0, 0>>

\* The tx array of status_check, writeReg or readReg
Bytes(k, ph, s) ==
    IF k = RestartStep THEN <<STOP_ADC, START_ADC>>
    ELSE IF ph = "write" THEN <<WRITE_REG + RegOf(k), 0, ValueOf(k, s)>>
    ELSE <<READ_REG + RegOf(k), 0, 0>>

Sending == step # 0 /\ step # TimerStep
Judging == step \in RegSteps /\ phase = "read" /\ pos = 4

Init ==
    /\ regs = InitialRegs /\ wire = IdleWire /\ rx = <<>>
    /\ rx_buf = JUNK
    /\ by = "none" /\ head \in Sets /\ target = head /\ moved = FALSE /\ step = 0
    /\ phase = "write" /\ pos = 1 /\ awaiting = FALSE /\ attempts = 0
    /\ timer = [ps |-> 1, cc |-> 0]
    /\ aligned = TRUE
    /\ hit = FALSE /\ noise = 0 /\ failed = {} /\ inside = 0 /\ split = FALSE

Quiet == inside > 0 /\ inside = MaxInside

\* setRate(queue->rate) is reached: from status_check() when a set has been
\* completed, or from start().
Begin(s, who) ==
    /\ step = 0
    /\ Quiet => s = head
    /\ by' = who /\ head' = s /\ target' = s /\ moved' = FALSE /\ step' = 1
    /\ phase' = "write" /\ pos' = 1 /\ attempts' = 0
    /\ hit' = FALSE /\ noise' = 0 /\ failed' = {}
    /\ UNCHANGED <<chip, awaiting, rx_buf, timer, aligned, inside, split>>

\* spi_write(): the byte and its answer cross.  Noise spoils a value being written
\* or read back, once in an attempt at most; commands and counts always arrive.
Put(garbled) ==
    /\ Sending /\ ~awaiting /\ ~Judging
    /\ garbled => /\ wire.st \in {"wdata", "rdata"}
                  /\ ~hit /\ ~Quiet /\ Cardinality(failed) < MaxFailed
    /\ Becomes(Exchange(Chip, Bytes(step, phase, target)[pos], garbled))
    /\ awaiting' = TRUE
    /\ hit' = (hit \/ garbled)
    /\ noise' = IF garbled /\ noise < 4 THEN noise + 1 ELSE noise
    /\ UNCHANGED <<by, step, phase, pos, attempts, rx_buf, queued, timer, aligned,
                   failed, inside, split>>

\* spi_read(): the oldest answer is taken.  A finished write is followed by the
\* read that verifies it, a finished restart by readData()'s end.
Get ==
    /\ awaiting
    /\ rx_buf' = IF pos = 3 THEN Head(rx) ELSE rx_buf
    /\ rx' = Tail(rx)
    /\ awaiting' = FALSE
    /\ CASE step = RestartStep /\ pos = 2 -> step' = 0 /\ pos' = 1 /\ UNCHANGED phase
         [] step # RestartStep /\ pos = 3 /\ phase = "write" ->
                phase' = "read" /\ pos' = 1 /\ UNCHANGED step
         [] OTHER -> pos' = pos + 1 /\ UNCHANGED <<step, phase>>
    /\ UNCHANGED <<regs, wire, by, attempts, queued, timer, aligned, ghosts>>

\* Mutant: attempts++ <= 3
MoreAttemptsFive(a) == a <= 3

\* Mutant: three attempts, not four
MoreAttemptsTwo(a) == a < 2

\* writeReg's attempts++ < 3
MoreAttempts(a) == a < 3

\* Mutant: attempts is never advanced.
CountNothing(a) == a

Count(a) == a + 1

Proceed ==
    /\ step' = IF step = LastStep THEN 0 ELSE step + 1
    /\ phase' = "write" /\ pos' = 1 /\ attempts' = 0
    /\ hit' = FALSE /\ noise' = 0

\* A byte that is no answer to the read may be anything.
Verified == rx_buf \in {ValueOf(step, target), JUNK, STATUS, DATA}
Refuted == rx_buf # ValueOf(step, target)

\* The value came back: on to the next register.
Accept ==
    /\ Judging /\ Verified
    /\ Proceed
    /\ UNCHANGED <<chip, by, awaiting, rx_buf, queued, timer, aligned, failed, inside, split>>

\* Once more, from the write
Retry ==
    /\ Judging /\ Refuted /\ MoreAttempts(attempts)
    /\ attempts' = Count(attempts)
    /\ phase' = "write" /\ pos' = 1
    /\ hit' = FALSE
    /\ UNCHANGED <<chip, by, step, awaiting, rx_buf, queued, timer, aligned, noise, failed, inside, split>>

\* The fourth attempt failed: writeReg() returns as if it had succeeded.
GiveUp ==
    /\ Judging /\ Refuted /\ ~MoreAttempts(attempts)
    /\ Proceed
    /\ failed' = IF noise >= 4 THEN failed \cup {RegOf(step)} ELSE failed
    /\ UNCHANGED <<chip, by, awaiting, rx_buf, queued, timer, aligned, inside, split>>

\* reconfig_timer(), and change_channel(queue->channels) is reached.  A START that
\* comes inside it leaves what one just after it does: tc_init() refuses a timer
\* that is enabled.
Reconfigure ==
    /\ step = TimerStep
    /\ timer' = TimerFor[target.rate]
    /\ target' = IF by = "main" THEN [target EXCEPT !.chans = head.chans] ELSE target
    /\ Proceed
    /\ UNCHANGED <<chip, by, awaiting, rx_buf, head, moved, aligned, failed, inside, split>>

----------------------------------------------------------------------------
(* Handlers that come while the main loop writes settings, as they can after *)
(* the first buffer overflow                                                 *)

Open == by = "main" /\ step # 0

\* The handler finds a command half sent or an answer not taken, or, if it uses
\* rx_buf, the answer not judged.
Amid(usesBuf) == awaiting \/ (pos # 1 /\ ~Judging) \/ (Judging /\ usesBuf)

Mark(amid) ==
    /\ amid => inside < MaxInside
    /\ inside' = IF amid THEN inside + 1 ELSE inside

\* Mutant: 21 of a sample's bytes are asked for: the opcode was not counted.
ReadAdcBytesShort == [i \in 1..21 |-> IF i = 1 THEN READ_ADC ELSE 0]

ReadAdcBytes == [i \in 1..22 |-> IF i = 1 THEN READ_ADC ELSE 0]
Sample == [i \in 1..21 |-> IF i = 1 THEN STATUS ELSE DATA]

\* readADC() by drdy_callback(): one to four attempts, for the counter starts
\* at whatever the stack holds, and another only after an answer whose second
\* byte did not look like the start of a sample.
ReadAdc(c, n) == Tried(c, ReadAdcBytes, 2, STATUS, n)

DrdyIsr(n) ==
    /\ Open
    /\ Mark(Amid(FALSE))
    /\ \E t \in {ReadAdc(Chip, n)} :
          /\ Becomes(t.chip)
          /\ aligned' = (aligned /\ (Amid(FALSE) \/ Tail(t.taken) = Sample))
    /\ UNCHANGED <<writer, queued, timer, hit, noise, failed, split>>

\* RREG r: readReg() from the USB handler, through the same rx_buf.  Inside a
\* transfer its register number may be taken for a count of bytes, which the ADC
\* then misses for as long as it takes.
RregIsr(r) ==
    /\ Open
    /\ r <= CONFIG4_REG
    /\ Mark(Amid(TRUE))
    /\ \E t \in {Transfer(Chip, <<READ_REG + r, 0, 0>>)} :
          /\ Becomes(t.chip)
          /\ rx_buf' = t.taken[3]
          /\ aligned' = (aligned /\ (Amid(TRUE) \/ t.taken[3] = regs[r]))
    /\ split' = (split \/ Amid(FALSE))
    /\ UNCHANGED <<by, step, phase, pos, awaiting, attempts, queued, timer, hit, noise, failed>>

\* RM: s is the new head, or what is read through a queue that is NULL.
RmIsr(s) ==
    /\ Open
    /\ ~Quiet
    /\ head' = s /\ moved' = TRUE
    /\ UNCHANGED <<chip, writer, target, timer, aligned, ghosts>>

\* The two transfers of an attempt of writeReg()
WriteBytes(r, v) == <<WRITE_REG + r, 0, v, READ_REG + r, 0, 0>>

\* writeReg() by a handler: an attempt whose answer is none to the read may be the
\* last, for that byte may be anything.
WriteReg(c, r, v, n) == Tried(c, WriteBytes(r, v), 6, v, n)

\* START after a STOP: start() runs setRate() in the USB handler.
StartIsr(n) ==
    /\ Open
    /\ Mark(Amid(TRUE))
    /\ LET v == ValueOf(1, head)
       IN  \E t \in {WriteReg(Chip, CONFIG1_REG, v, n)} :
              /\ n = 4 \/ t.taken[6] \in {v, JUNK, STATUS, DATA}
              /\ Becomes(t.chip)
              /\ rx_buf' = t.taken[6]
              /\ aligned' = (aligned /\ (Amid(TRUE) \/ t.taken[6] = v))
    /\ split' = (split \/ Amid(FALSE))
    /\ timer' = TimerFor[head.rate]
    /\ UNCHANGED <<by, step, phase, pos, awaiting, attempts, queued, hit, noise, failed>>

Main == (\E g \in BOOLEAN : Put(g)) \/ Get \/ Accept \/ Retry \/ GiveUp \/ Reconfigure

Next ==
    \/ Main
    \/ \E s \in Sets, who \in {"main", "usb"} : Begin(s, who)
    \/ \E n \in Attempts : DrdyIsr(n)
    \/ \E r \in ReadRegs : RregIsr(r)
    \/ \E s \in Sets : RmIsr(s)
    \/ \E n \in 1..4 : StartIsr(n)

\* A transfer waits for nothing but the hardware, which answers every byte.
Spec == Init /\ [][Next]_vars /\ WF_vars(Main)

----------------------------------------------------------------------------
(* Properties *)

\* Types.  Whatever handlers come, one answer is waiting exactly when the main
\* loop has one to take: the receive FIFO, two bytes deep, never overflows.
TypeOK ==
    /\ regs \in [0..CONFIG4_REG -> 0..255]
    /\ wire.st \in {"idle", "wcount", "rcount", "wdata", "rdata", "sample"}
    /\ wire.reg \in Nat /\ wire.n \in 0..32
    /\ Len(rx) = IF awaiting THEN 1 ELSE 0
    /\ rx_buf \in 0..258
    /\ by \in {"none", "main", "usb"} /\ step \in 0..RestartStep
    /\ head \in Sets /\ moved \in BOOLEAN
    /\ target \in [rate : Rates, chans : Nat]
    /\ phase \in {"write", "read"} /\ pos \in 1..4 /\ awaiting \in BOOLEAN
    /\ attempts \in 0..3 /\ hit \in BOOLEAN /\ noise \in 0..4
    /\ timer.ps \in Prescalers /\ timer.cc \in 0..UINT32_MAX
    /\ aligned \in BOOLEAN /\ split \in BOOLEAN /\ inside \in 0..MaxInside
    /\ failed \subseteq {RegOf(k) : k \in RegSteps}

\* The steps of the switch that have been gone through
Passed == {k \in RegSteps : k <= LastStep /\ by # "none" /\ (step = 0 \/ k < step)}

\* Unless a handler comes inside a transfer or an RM between the two loads, every
\* register the switch has passed holds the value of the set now at the head, or is
\* one that four garbled attempts could not write; a START inside the switch and
\* samples or registers read between its transfers change nothing in that.
Programmed ==
    inside = 0 /\ ~moved =>
        \A k \in Passed : regs[RegOf(k)] = ValueOf(k, head) \/ RegOf(k) \in failed

\* Until a handler comes inside a transfer no other register is disturbed, whatever
\* values are garbled and whatever comes between transfers.
OthersKept ==
    inside = 0 => \A r \in DOMAIN regs :
        (\A k \in RegSteps : r # RegOf(k)) => regs[r] = InitialRegs[r]

\* A handler's read that comes between transfers returns what it asked for, a
\* whole sample or the register: the samples read inside a transfer do not cost
\* the reads after it theirs, unlike an RREG or a START there.
ReadsAligned == ~split => aligned

\* A count is right for a rate if its period is the rate's to within one count, or
\* to within three parts in 2^24: what the floats of the two computations may cost.
Near(cc, e, b) ==
    \/ e - b < cc * b /\ cc * b < e + b
    \/ FLOAT_INTS * (cc * b) <= (FLOAT_INTS + 3) * e /\ (FLOAT_INTS - 3) * e <= FLOAT_INTS * (cc * b)

\* From its step on, unless an RM comes in between, the timer's period is the rate's
\* at the head, as near as floats have it, and only if that is too long for the
\* prescaler of 64 the longest of all: the larger two do not fit prescaleToInt's
\* result.
TickFollowsRate ==
    by # "none" /\ ~moved /\ (step = 0 \/ step > TimerStep) =>
        LET e == F_CPU * head.rate.d  n == head.rate.n
        IN  IF timer.ps <= 64 THEN Near(timer.cc, e, timer.ps * n)
            ELSE /\ timer.cc = UINT32_MAX
                 /\ (FLOAT_INTS - 1) * ((UINT32_MAX + 1) * (64 * n)) <= (FLOAT_INTS + 1) * e

\* How far a switch has come: its step, the attempts at it, the bytes of one
Advance ==
    52 * step + 13 * attempts
        + (IF phase = "read" THEN 6 ELSE 0) + 2 * (pos - 1) + (IF awaiting THEN 1 ELSE 0)

\* Every step of the main loop in a switch brings it forward or ends it, noise and
\* mistaken answers included, and no handler sets it back.
SwitchAdvances ==
    [][step # 0 => IF Main THEN step' = 0 \/ Advance' > Advance
                   ELSE step' # 0 /\ Advance' = Advance]_vars

\* A switch ends, however many bytes are garbled and whatever handlers come.
SwitchEnds == step # 0 ~> step = 0
=============================================================================
