-------------------------- MODULE AcquisitionProofs --------------------------
(***************************************************************************)
(* Theorems about Acquisition for every set of requests, heap, buffer and  *)
(* sample size, proved with TLAPS.                                         *)
(***************************************************************************)
EXTENDS Acquisition, SampleClockProofs, SequenceTheorems, TLAPS

----------------------------------------------------------------------------
(* Types, together with the count of critical sections: TypeOK alone is not *)
(* inductive, since only the count tells that nest - 1 stays in Nat.        *)

Typed == TypeOK /\ NestingBalanced

LEMMA DefaultsTyped ==
    NoSample \in Stored /\ NoReg \in Registers /\ NoSample.first \in Data
  BY DEF NoSample, NoReg, NoSet, Stored, Registers, Data, DataRates

LEMMA InitTyped == Init => Typed
<1> SUFFICES ASSUME Init PROVE Typed
  OBVIOUS
<1>1. hw \in Devices /\ adcOut \in Settings
  BY DEF Init, Devices, Settings, SettingsOf, DataRates, DATA_RATE_16000
<1>2. queue \in Seq(SampleSet)
  BY DEF Init
<1>3. NestingBalanced
  BY DEF Init, NestingBalanced, InCritical
<1>4. TypeOK
  BY <1>1, <1>2, DefaultsTyped DEF Init, TypeOK, PCs
<1> QED
  BY <1>3, <1>4 DEF Typed

\* The records that a step writes keep their types.
LEMMA RecordUpdates ==
    ASSUME NEW h \in Devices, NEW r \in Nat, NEW b \in BOOLEAN, NEW x \in Nat,
           NEW g \in Registers, NEW d \in Data
    PROVE  /\ startADC(h, b) \in Devices
           /\ disable_timer(h) \in Devices
           /\ changeSampleRate(h, r) \in Devices
           /\ reconfig_timer(h, r) \in Devices
           /\ change_channel(h, r) \in Devices
           /\ SettingsOf(h) \in Settings
           /\ [g EXCEPT !.rate = r] \in Registers
           /\ [g EXCEPT !.bufLen = x, !.half = d] \in Registers
  BY DetermineADCRateType
  DEF Devices, Registers, Settings, startADC, disable_timer, changeSampleRate,
      reconfig_timer, change_channel, SettingsOf

\* Taking one sample off a set that is owed more leaves a set.
LEMMA CountDown ==
    ASSUME NEW s \in SampleSet, NEW k \in Nat \ {0}
    PROVE  [s EXCEPT !.num = k] \in SampleSet
  BY DEF SampleSet

\* What the head and the tail of the queue are.
LEMMA QueueParts ==
    ASSUME NEW q \in Seq(SampleSet), q # <<>>
    PROVE  /\ Head(q) \in SampleSet
           /\ Tail(q) \in Seq(SampleSet)
           /\ Head(q).rate \in Nat /\ Head(q).chans \in Nat
           /\ Head(q).num \in Nat \ {0} /\ Head(q).want \in Nat
           /\ ~Complete(Head(q).num) => [q EXCEPT ![1].num = @ - 1] \in Seq(SampleSet)
<1>1. Head(q) \in SampleSet /\ Tail(q) \in Seq(SampleSet) /\ q[1] \in SampleSet /\ Head(q) = q[1]
  OBVIOUS
<1>2. Head(q).rate \in Nat /\ Head(q).chans \in Nat /\ Head(q).num \in Nat \ {0}
      /\ Head(q).want \in Nat
  BY <1>1 DEF SampleSet
<1>3. ASSUME ~Complete(Head(q).num)
      PROVE  [q EXCEPT ![1].num = @ - 1] \in Seq(SampleSet)
  <2>1. q[1].num - 1 \in Nat \ {0}
    BY <1>1, <1>2, <1>3 DEF Complete
  <2>2. [q[1] EXCEPT !.num = q[1].num - 1] \in SampleSet
    BY <1>1, <2>1, CountDown
  <2> QED
    BY <2>2
<1> QED
  BY <1>1, <1>2, <1>3

LEMMA SwitchParts ==
    ASSUME NEW q \in Seq(SampleSet), Len(q) > 1
    PROVE  Tail(q) \in Seq(SampleSet) /\ Tail(q) # <<>>
<1>1. q # <<>> /\ Len(q) \in Nat
  OBVIOUS
<1>2. Tail(q) \in Seq(SampleSet) /\ Len(Tail(q)) = Len(q) - 1
  BY <1>1, HeadTailProperties
<1>3. Len(Tail(q)) # 0
  BY <1>1, <1>2
<1>4. Len(<<>>) = 0
  OBVIOUS
<1>5. Tail(q) # <<>>
  BY <1>3, <1>4
<1> QED
  BY <1>2, <1>5

LEMMA OneLess ==
    ASSUME NEW num \in Nat, NEW n \in Nat, NEW total \in Nat, num + n = total + 1
    PROVE  (num - 1) + n = total
  OBVIOUS

LEMMA NextTyped == Typed /\ [Next]_vars => Typed'
<1> SUFFICES ASSUME Typed, [Next]_vars
             PROVE  Typed'
  OBVIOUS
<1> USE SizesAssumption DEF Typed, TypeOK, NestingBalanced, InCritical, PCs,
        sets, status, store, corruption, conversion, device, core, locals
<1>1. CASE UNCHANGED vars
  BY <1>1 DEF vars
<1>2. CASE DrdyEdge
  BY <1>2, RecordUpdates DEF DrdyEdge
<1>3. CASE DrdyIsr
  <2>1. adcData' \in Data
    BY <1>3 DEF DrdyIsr, Data, Settings
  <2> QED
    BY <1>3, <2>1 DEF DrdyIsr, Interrupt
<1>4. CASE TimerIsr
  BY <1>4 DEF TimerIsr, Interrupt
<1>5. CASE OtherIsr
  BY <1>5 DEF OtherIsr, Interrupt
<1>6. CASE \E r \in Requests : Add(r)
  <2>1. PICK r \in Requests : Add(r)
    BY <1>6
  <2>2. r.num \in Nat /\ r.rate \in Nat /\ r.chans \in Nat
    BY RequestsAssumption
  <2>3. Acceptable(r) => [num |-> r.num, want |-> r.num, rate |-> r.rate, chans |-> r.chans] \in SampleSet
    BY <2>2 DEF Acceptable, SampleSet
  <2>4. queue' \in Seq(SampleSet)
    BY <2>1, <2>3 DEF Add
  <2> QED
    BY <1>6, <2>1, <2>2, <2>3, <2>4 DEF Add, Interrupt
<1>7. CASE Rm
  BY <1>7, QueueParts DEF Rm, Interrupt
<1>8. CASE Stop
  BY <1>8, RecordUpdates DEF Stop, Interrupt
<1>9. CASE Start
  <2>1. hw' \in Devices
    BY <1>9, QueueParts, RecordUpdates DEF Start
  <2> QED
    BY <1>9, <2>1 DEF Start, Interrupt
<1>10. CASE \E k \in ReadSizes : Read(k)
  BY <1>10 DEF Read, Interrupt, Copied
<1>11. CASE Reset
  <2>1. hw' \in Devices /\ adcOut' \in Settings
    BY <1>11 DEF Reset, Devices, Settings, SettingsOf, DataRates, DATA_RATE_16000
  <2>2. queue' \in Seq(SampleSet)
    BY <1>11 DEF Reset
  <2>3. NestingBalanced'
    BY <1>11 DEF Reset
  <2>4. TypeOK'
    BY <1>11, <2>1, <2>2, DefaultsTyped DEF Reset
  <2> QED
    BY <1>11, <2>1, <2>2, <2>3, <2>4, DefaultsTyped DEF Reset
<1>12. CASE Sleep
  BY <1>12 DEF Sleep, Goto
<1>13. CASE Wfi
  BY <1>13 DEF Wfi, Goto
<1>14. CASE Enter
  BY <1>14 DEF Enter, Goto
<1>15. CASE Claim
  BY <1>15 DEF Claim, Goto
<1>16. CASE Overflow
  <2>1. corruption_amount' \in Nat /\ overflows' \in Nat
    BY <1>16 DEF Overflow
  <2>2. NestingBalanced'
    BY <1>16, <2>1 DEF Overflow, Goto
  <2>3. TypeOK'
    BY <1>16, <2>1 DEF Overflow, Goto
  <2> QED
    BY <1>16, <2>1, <2>2, <2>3 DEF Overflow, Goto
<1>17. CASE CopyFirst
  <2>1. reg' \in Registers
    BY <1>17, RecordUpdates DEF CopyFirst
  <2> QED
    BY <1>17, <2>1 DEF CopyFirst, Goto
<1>18. CASE CopyRest
  <2>1. reg.half \in Data /\ reg.bufLen \in Nat
    BY DEF Registers
  <2>2. HeadSelection \in [rate : Nat, chans : Nat]
    BY QueueParts DEF HeadSelection, NoSet
  <2>3. last' = [first |-> reg.half, rest |-> adcData, for |-> HeadSelection, nth |-> got + 1]
    BY <1>18 DEF CopyRest
  <2>4. last' \in Stored
    BY <2>1, <2>2, <2>3 DEF Stored
  <2>5. bufLen' \in Nat /\ unread' \in Nat /\ got' \in Nat
    BY <1>18, <2>1 DEF CopyRest
  <2> QED
    BY <1>18, <2>1, <2>2, <2>3, <2>4, <2>5, DefaultsTyped DEF CopyRest, Goto
<1>19. CASE DecCounts
  <2>1. queue' \in Seq(SampleSet)
    BY <1>19, QueueParts DEF DecCounts
  <2> QED
    BY <1>19, <2>1 DEF DecCounts, Goto
<1>20. CASE DecEnds
  BY <1>20 DEF DecEnds, Goto
<1>21. CASE DecSwitches
  <2>1. queue' \in Seq(SampleSet) /\ queue' # <<>>
    <3>1. queue' = Tail(queue) /\ Len(queue) > 1
      BY <1>21 DEF DecSwitches
    <3>2. queue \in Seq(SampleSet)
      OBVIOUS
    <3> QED
      BY <3>1, <3>2, SwitchParts
  <2>2. reg' \in Registers
    BY <1>21, <2>1, QueueParts, RecordUpdates DEF DecSwitches
  <2> QED
    BY <1>21, <2>1, <2>2 DEF DecSwitches, Goto
<1>22. CASE StopAdc
  BY <1>22, RecordUpdates DEF StopAdc, Goto
<1>23. CASE StopTimer
  BY <1>23, RecordUpdates DEF StopTimer, Goto
<1>24. CASE SetAdcRate
  <2>1. reg.rate \in Nat
    BY DEF Registers
  <2> QED
    BY <1>24, <2>1, RecordUpdates DEF SetAdcRate, Goto
<1>25. CASE SetTimer
  <2>1. reg.rate \in Nat
    BY DEF Registers
  <2> QED
    BY <1>25, <2>1, RecordUpdates, DefaultsTyped DEF SetTimer, Goto
<1>26. CASE Enable
  BY <1>26, RecordUpdates DEF Enable, Goto
<1>27. CASE SetChannels
  <2>1. \A r \in Requests : r.chans \in Nat
    BY RequestsAssumption
  <2>2. \E c \in Nat : hw' = change_channel(hw, c)
    BY <1>27, <2>1, QueueParts DEF SetChannels
  <2>3. hw' \in Devices
    BY <2>2, RecordUpdates
  <2> QED
    BY <1>27, <2>1, <2>2, <2>3 DEF SetChannels, Goto
<1>28. CASE Leave
  BY <1>28, DefaultsTyped DEF Leave, Goto
<1>29. CASE CheckQueue
  BY <1>29 DEF CheckQueue
<1>30. CASE CheckState
  BY <1>30 DEF CheckState
<1>31. CASE CheckTimer
  BY <1>31 DEF CheckTimer
<1> QED
  BY <1>1, <1>2, <1>3, <1>4, <1>5, <1>6, <1>7, <1>8, <1>9, <1>10, <1>11, <1>12, <1>13, <1>14, <1>15, <1>16, <1>17, <1>18, <1>19, <1>20, <1>21, <1>22, <1>23, <1>24, <1>25, <1>26, <1>27, <1>28, <1>29, <1>30, <1>31
  DEF Next, Host, Main

----------------------------------------------------------------------------
(* What holds through overflows too: the handshake of the two handlers,    *)
(* the bounds of dataBuf and the corruption record.  The room that Claim   *)
(* found is still there when the copy starts, since only the main loop     *)
(* makes bufLen grow.                                                      *)

RoomKept == pc = "copy" => bufLen <= BUFFER_LENGTH - ADC_BYTES_PER_SAMPLE
Robust == HandshakeExclusive /\ CorruptionRecorded /\ BufferBounded /\ RoomKept

----------------------------------------------------------------------------
(* What holds until the first overflow, when the critical section masks    *)
(* interrupts.  CountExact needs the sets behind the head to be untouched, *)
(* StatusMatchesDevice the device's state between the steps of stop() and  *)
(* setRate(), NoTornSample and UnreadAccounted the registers of the copy.  *)

CopyIntact == pc = "copyRest" => reg.half = adcData /\ reg.bufLen = bufLen
Counted ==
    /\ queue = <<>> => got = 0 \/ pc = "dec"
    /\ queue # <<>> => Head(queue).num + got = Head(queue).want + (IF pc = "dec" THEN 1 ELSE 0)
    /\ \A i \in 2..Len(queue) : queue[i].num = queue[i].want
DeviceFollows ==
    /\ IF pc = "stopTimer" THEN ~hw.adc ELSE hw.adc <=> ss # "STOP"
    /\ IF pc = "enable" THEN hw.tmr ELSE hw.tmr <=> ss # "STOP"
Clean ==
    ~corrupt_sample_set =>
        /\ masked <=> InCritical
        /\ CopyIntact
        /\ last.first = last.rest
        /\ bufLen = unread
        /\ Counted
        /\ DeviceFollows

LEMMA InitRobust == Init => Robust
  BY SizesAssumption
  DEF Init, Robust, HandshakeExclusive, CorruptionRecorded, BufferBounded, RoomKept, NoReg

LEMMA NextRobust == Typed /\ Robust /\ [Next]_vars => Robust'
<1> SUFFICES ASSUME Typed, Robust, [Next]_vars
             PROVE  Robust'
  OBVIOUS
<1>a. /\ bufLen \in Nat /\ corruption_amount \in Nat /\ overflows \in Nat
      /\ corrupt_sample_set \in BOOLEAN /\ timer_done \in BOOLEAN /\ dataRdy \in BOOLEAN
      /\ reg.bufLen \in Nat /\ pc \in PCs
  BY DEF Typed, TypeOK, Registers
<1> USE <1>a, SizesAssumption
        DEF Robust, HandshakeExclusive, CorruptionRecorded, BufferBounded, RoomKept, PCs,
        sets, status, store, corruption, conversion, device, core, locals
<1>1. CASE UNCHANGED vars
  BY <1>1 DEF vars
<1>2. CASE DrdyEdge
  BY <1>2 DEF DrdyEdge
<1>3. CASE DrdyIsr
  BY <1>3 DEF DrdyIsr, Interrupt
<1>4. CASE TimerIsr
  BY <1>4 DEF TimerIsr, Interrupt
<1>5. CASE OtherIsr
  BY <1>5 DEF OtherIsr, Interrupt
<1>6. CASE \E r \in Requests : Add(r)
  BY <1>6 DEF Add, Interrupt
<1>7. CASE Rm
  BY <1>7 DEF Rm, Interrupt
<1>8. CASE Stop
  BY <1>8 DEF Stop, Interrupt
<1>9. CASE Start
  BY <1>9 DEF Start, Interrupt
<1>10. CASE \E k \in ReadSizes : Read(k)
  BY <1>10 DEF Read, Interrupt, Copied
<1>11. CASE Reset
  BY <1>11 DEF Reset, NoReg
<1>12. CASE Sleep
  BY <1>12 DEF Sleep, Goto
<1>13. CASE Wfi
  BY <1>13 DEF Wfi, Goto
<1>14. CASE CheckQueue
  BY <1>14 DEF CheckQueue
<1>15. CASE CheckState
  BY <1>15 DEF CheckState
<1>16. CASE CheckTimer
  BY <1>16 DEF CheckTimer
<1>17. CASE Enter
  BY <1>17 DEF Enter, Goto
<1>18. CASE Claim
  BY <1>18 DEF Claim, Goto
<1>19. CASE Overflow
  BY <1>19 DEF Overflow, Goto
<1>20. CASE CopyFirst
  <2>1. reg'.bufLen = bufLen
    BY <1>20 DEF CopyFirst, Typed, TypeOK, Registers
  <2> QED
    BY <1>20, <2>1 DEF CopyFirst, Goto
<1>21. CASE CopyRest
  BY <1>21 DEF CopyRest, Goto, NoReg
<1>22. CASE DecCounts
  BY <1>22 DEF DecCounts, Goto
<1>23. CASE DecEnds
  BY <1>23 DEF DecEnds, Goto
<1>24. CASE DecSwitches
  BY <1>24 DEF DecSwitches, Goto
<1>25. CASE StopAdc
  BY <1>25 DEF StopAdc, Goto
<1>26. CASE StopTimer
  BY <1>26 DEF StopTimer, Goto
<1>27. CASE SetAdcRate
  BY <1>27 DEF SetAdcRate, Goto
<1>28. CASE SetTimer
  BY <1>28 DEF SetTimer, Goto, NoReg
<1>29. CASE Enable
  BY <1>29 DEF Enable, Goto
<1>30. CASE SetChannels
  BY <1>30 DEF SetChannels, Goto
<1>31. CASE Leave
  BY <1>31 DEF Leave, Goto
<1> QED
  BY <1>1, <1>2, <1>3, <1>4, <1>5, <1>6, <1>7, <1>8, <1>9, <1>10, <1>11, <1>12, <1>13, <1>14, <1>15, <1>16, <1>17, <1>18, <1>19, <1>20, <1>21, <1>22, <1>23, <1>24, <1>25, <1>26, <1>27, <1>28, <1>29, <1>30, <1>31
  DEF Next, Host, Main

LEMMA InitClean == Init => Clean
  BY DEF Init, Clean, InCritical, CopyIntact, Counted, DeviceFollows, NoSample

\* The set that becomes the head has given up no sample yet.
LEMMA TailCounts ==
    ASSUME NEW q \in Seq(SampleSet), q # <<>>,
           \A i \in 2..Len(q) : q[i].num = q[i].want
    PROVE  /\ Tail(q) # <<>> => Head(Tail(q)).num = Head(Tail(q)).want
           /\ \A i \in 2..Len(Tail(q)) : Tail(q)[i].num = Tail(q)[i].want
  OBVIOUS

LEMMA AppendCounts ==
    ASSUME NEW q \in Seq(SampleSet), NEW s,
           \A i \in 2..Len(q) : q[i].num = q[i].want,
           s.num = s.want
    PROVE  /\ Append(q, s) # <<>>
           /\ Head(Append(q, s)) = IF q = <<>> THEN s ELSE Head(q)
           /\ \A i \in 2..Len(Append(q, s)) : Append(q, s)[i].num = Append(q, s)[i].want
  OBVIOUS

LEMMA NextClean == Typed /\ Robust /\ Clean /\ [Next]_vars => Clean'
<1> SUFFICES ASSUME Typed, Robust, Clean, [Next]_vars, ~corrupt_sample_set'
             PROVE  Clean'
  BY DEF Clean
<1>a. /\ queue \in Seq(SampleSet) /\ got \in Nat /\ bufLen \in Nat /\ unread \in Nat
      /\ masked \in BOOLEAN /\ nest \in Nat /\ pc \in PCs /\ overflows \in Nat
      /\ NestingBalanced /\ (corrupt_sample_set <=> overflows > 0)
      /\ hw \in Devices
  BY DEF Typed, TypeOK, Robust, CorruptionRecorded
<1> USE <1>a DEF Clean, InCritical, PCs, CopyIntact, Counted, DeviceFollows,
        sets, status, store, corruption, conversion, device, core, locals
<1>1. CASE UNCHANGED vars
  BY <1>1 DEF vars
<1>2. CASE DrdyEdge
  BY <1>2 DEF DrdyEdge
<1>3. CASE DrdyIsr
  BY <1>3 DEF DrdyIsr, Interrupt
<1>4. CASE TimerIsr
  BY <1>4 DEF TimerIsr, Interrupt
<1>5. CASE OtherIsr
  BY <1>5 DEF OtherIsr, Interrupt
<1>6. CASE \E r \in Requests : Add(r)
  <2>1. PICK r \in Requests : Add(r)
    BY <1>6
  <2>2. CASE Acceptable(r)
    <3>1. /\ queue' = Append(queue, [num |-> r.num, want |-> r.num, rate |-> r.rate, chans |-> r.chans])
          /\ got' = got /\ ~masked /\ ~corrupt_sample_set
      BY <2>1, <2>2 DEF Add, Interrupt
    <3>2. pc # "dec" /\ pc' # "dec"
      BY <2>1, <3>1 DEF Add, Interrupt
    <3>3. r.num \in Nat
      BY RequestsAssumption
    <3>4. Counted'
      BY <3>1, <3>2, <3>3, AppendCounts
    <3> QED
      BY <2>1, <2>2, <3>4 DEF Add, Interrupt
  <2>3. CASE ~Acceptable(r)
    BY <2>1, <2>3 DEF Add, Interrupt
  <2> QED
    BY <2>2, <2>3
<1>7. CASE Rm
  <2>1. Counted'
    BY <1>7, TailCounts, QueueParts DEF Rm, Interrupt
  <2> QED
    BY <1>7, <2>1 DEF Rm, Interrupt
<1>8. CASE Stop
  BY <1>8 DEF Stop, Interrupt, startADC, disable_timer, Devices
<1>9. CASE Start
  BY <1>9 DEF Start, Interrupt, startADC, reconfig_timer, changeSampleRate, Devices
<1>10. CASE \E k \in ReadSizes : Read(k)
  BY <1>10 DEF Read, Interrupt
<1>11. CASE Reset
  BY <1>11 DEF Reset, NoSample
<1>12. CASE Sleep
  BY <1>12 DEF Sleep, Goto
<1>13. CASE Wfi
  BY <1>13 DEF Wfi, Goto
<1>14. CASE CheckQueue
  BY <1>14 DEF CheckQueue
<1>15. CASE CheckState
  BY <1>15 DEF CheckState
<1>16. CASE CheckTimer
  BY <1>16 DEF CheckTimer
<1>17. CASE Enter
  <2>1. nest = 0
    BY <1>17 DEF Enter, Goto, NestingBalanced
  <2> QED
    BY <1>17, <2>1 DEF Enter, Goto
<1>18. CASE Claim
  BY <1>18 DEF Claim, Goto
<1>19. CASE Overflow
  BY <1>19 DEF Overflow, Goto
<1>20. CASE CopyFirst
  BY <1>20 DEF CopyFirst, Goto
<1>21. CASE CopyRest
  <2>1. CopyIntact' /\ DeviceFollows' /\ (masked' <=> InCritical')
    BY <1>21 DEF CopyRest, Goto
  <2>3. Counted'
    <3>1. queue' = queue /\ got' = got + 1 /\ pc = "copyRest" /\ pc' = "dec" /\ ~corrupt_sample_set
      BY <1>21 DEF CopyRest, Goto
    <3>2. queue # <<>> => Head(queue).num \in Nat /\ Head(queue).want \in Nat
      BY QueueParts
    <3>3. queue # <<>> => Head(queue).num + got = Head(queue).want
      BY <3>1, <3>2
    <3> QED
      BY <3>1, <3>2, <3>3
  <2>2. last'.first = last'.rest /\ bufLen' = unread'
    BY <1>21 DEF CopyRest, Goto
  <2> QED
    BY <2>1, <2>2, <2>3
<1>22. CASE DecCounts
  <2>1. /\ queue' # <<>> /\ Len(queue') = Len(queue)
        /\ \A i \in 2..Len(queue) : queue'[i] = queue[i]
        /\ Head(queue').num = Head(queue).num - 1 /\ Head(queue').want = Head(queue).want
    <3>1. queue # <<>> /\ queue' = [queue EXCEPT ![1] = [queue[1] EXCEPT !.num = queue[1].num - 1]]
      BY <1>22 DEF DecCounts
    <3>2. queue[1] \in SampleSet /\ Head(queue) = queue[1] /\ Len(queue) >= 1
      BY <3>1
    <3>3. queue'[1] = [queue[1] EXCEPT !.num = queue[1].num - 1] /\ Len(queue') = Len(queue)
          /\ \A i \in 2..Len(queue) : queue'[i] = queue[i]
      BY <3>1, <3>2
    <3>4. queue' \in Seq(SampleSet)
      BY <1>22, QueueParts DEF DecCounts
    <3>5. queue'[1].num = queue[1].num - 1 /\ queue'[1].want = queue[1].want
      BY <3>2, <3>3 DEF SampleSet
    <3>6. Head(queue') = queue'[1] /\ queue' # <<>>
      BY <3>2, <3>3, <3>4
    <3> QED
      BY <3>2, <3>3, <3>5, <3>6
  <2>2. Counted'
    <3>1. pc = "dec" /\ pc' = "leave" /\ got' = got /\ queue # <<>> /\ ~corrupt_sample_set
      BY <1>22 DEF DecCounts, Goto
    <3>2. Head(queue).num \in Nat /\ Head(queue).want \in Nat
      BY <3>1, QueueParts
    <3>3. Head(queue).num + got = Head(queue).want + 1
      BY <3>1
    <3>4. (Head(queue).num - 1) + got = Head(queue).want
      <4>1. got \in Nat
        OBVIOUS
      <4> QED
        BY <4>1, <3>2, <3>3, OneLess
    <3>5. \A i \in 2..Len(queue') : queue'[i].num = queue'[i].want
      BY <2>1, <3>1
    <3>6. Head(queue').num + got' = Head(queue').want
      BY <2>1, <3>1, <3>4
    <3> QED
      BY <2>1, <3>1, <3>2, <3>5, <3>6
  <2> QED
    BY <1>22, <2>2 DEF DecCounts, Goto
<1>23. CASE DecEnds
  BY <1>23 DEF DecEnds, Goto
<1>24. CASE DecSwitches
  <2>1. Counted'
    <3>1. /\ queue' = Tail(queue) /\ got' = 0 /\ pc' = "setAdcRate"
          /\ queue \in Seq(SampleSet) /\ Len(queue) > 1 /\ queue # <<>>
          /\ \A i \in 2..Len(queue) : queue[i].num = queue[i].want
      BY <1>24 DEF DecSwitches, Goto
    <3>2. queue' \in Seq(SampleSet) /\ queue' # <<>>
      BY <3>1, SwitchParts
    <3>3. Head(queue').num \in Nat /\ Head(queue').want \in Nat
      BY <3>2, QueueParts
    <3>4. /\ Head(queue').num = Head(queue').want
          /\ \A i \in 2..Len(queue') : queue'[i].num = queue'[i].want
      BY <3>1, <3>2, TailCounts
    <3> QED
      BY <3>1, <3>2, <3>3, <3>4
  <2> QED
    BY <1>24, <2>1 DEF DecSwitches, Goto
<1>25. CASE StopAdc
  BY <1>25 DEF StopAdc, Goto, startADC, Devices
<1>26. CASE StopTimer
  BY <1>26 DEF StopTimer, Goto, disable_timer, Devices
<1>27. CASE SetAdcRate
  BY <1>27 DEF SetAdcRate, Goto, changeSampleRate, Devices
<1>28. CASE SetTimer
  BY <1>28 DEF SetTimer, Goto, reconfig_timer, Devices
<1>29. CASE Enable
  BY <1>29 DEF Enable, Goto, startADC, Devices
<1>30. CASE SetChannels
  BY <1>30 DEF SetChannels, Goto, change_channel, Devices
<1>31. CASE Leave
  <2>1. nest' = 0
    BY <1>31 DEF Leave, Goto, NestingBalanced
  <2> QED
    BY <1>31, <2>1 DEF Leave, Goto, NoSample
<1> QED
  BY <1>1, <1>2, <1>3, <1>4, <1>5, <1>6, <1>7, <1>8, <1>9, <1>10, <1>11, <1>12, <1>13, <1>14, <1>15, <1>16, <1>17, <1>18, <1>19, <1>20, <1>21, <1>22, <1>23, <1>24, <1>25, <1>26, <1>27, <1>28, <1>29, <1>30, <1>31
  DEF Next, Host, Main

----------------------------------------------------------------------------
(* Theorems *)

Inv == Typed /\ Robust /\ Clean

LEMMA Invariance == Spec => []Inv
<1>1. Init => Inv
  BY InitTyped, InitRobust, InitClean DEF Inv
<1>2. Inv /\ [Next]_vars => Inv'
  BY NextTyped, NextRobust, NextClean DEF Inv
<1> QED
  BY <1>1, <1>2, PTL DEF Spec

\* Every variable keeps its type; in particular the critical-section count
\* never goes below zero, and no set in the queue is owed no samples.
THEOREM TypeCorrectness == Spec => []TypeOK
<1>1. Inv => TypeOK
  BY DEF Inv, Typed
<1> QED
  BY <1>1, Invariance, PTL

\* The critical-section count is exactly the overflows plus the section the
\* main loop is in: nothing else in the firmware unbalances it.
THEOREM NestingTheorem == Spec => []NestingBalanced
<1>1. Inv => NestingBalanced
  BY DEF Inv, Typed
<1> QED
  BY <1>1, Invariance, PTL

\* timer_done and dataRdy are never both set, even when overflows have left
\* critical sections unmasked.
THEOREM HandshakeTheorem == Spec => []HandshakeExclusive
<1>1. Inv => HandshakeExclusive
  BY DEF Inv, Robust
<1> QED
  BY <1>1, Invariance, PTL

\* The copy never writes past the end of dataBuf, whatever interleaves.
THEOREM BufferTheorem == Spec => []BufferBounded
<1>1. Inv => BufferBounded
  BY DEF Inv, Robust
<1> QED
  BY <1>1, Invariance, PTL

\* corrupt_sample_set tells exactly whether a sample was ever refused.
THEOREM CorruptionTheorem == Spec => []CorruptionRecorded
<1>1. Inv => CorruptionRecorded
  BY DEF Inv, Robust
<1> QED
  BY <1>1, Invariance, PTL

\* Until the first overflow PRIMASK is set exactly in readData's section, so
\* that no stored sample mixes two conversions.
THEOREM AtomicityTheorem == Spec => [](MaskedUntilOverflow /\ NoTornSample)
<1>1. Inv => MaskedUntilOverflow /\ NoTornSample
  BY DEF Inv, Clean, MaskedUntilOverflow, NoTornSample
<1> QED
  BY <1>1, Invariance, PTL

\* Count and PRIMASK together: no path through readData but the overflow, and no
\* handler, leaves the count off balance, or, before the first overflow,
\* interrupts off outside the section or on inside it.
THEOREM SectionsTheorem == Spec => []SectionsKept
<1>1. Inv => SectionsKept
  BY DEF Inv, Typed, Clean, SectionsKept, MaskedUntilOverflow
<1> QED
  BY <1>1, Invariance, PTL

\* Until the first overflow no read of the host tears bufLen.
THEOREM AccountTheorem == Spec => []UnreadAccounted
<1>1. Inv => UnreadAccounted
  BY DEF Inv, Clean, UnreadAccounted
<1> QED
  BY <1>1, Invariance, PTL

\* Until the first overflow a set ends after exactly the samples it asked for.
THEOREM CountTheorem == Spec => []CountExact
<1>1. Inv => CountExact
  <2>1. ASSUME Inv, queue # <<>> PROVE Head(queue).num \in Nat \ {0}
    BY <2>1, QueueParts DEF Inv, Typed, TypeOK
  <2>2. ASSUME Inv, queue # <<>> PROVE Head(queue).num > 0
    BY <2>1, <2>2
  <2> QED
    BY <2>2 DEF Inv, Clean, Counted, CountExact
<1> QED
  BY <1>1, Invariance, PTL

\* Until the first overflow the ADC and the timer run, wherever an interrupt
\* can be taken, exactly while the status is not STOP.
THEOREM StatusTheorem == Spec => []StatusMatchesDevice
<1>1. Inv => StatusMatchesDevice
  BY DEF Inv, Typed, TypeOK, Devices, Clean, DeviceFollows, InCritical, StatusMatchesDevice
<1> QED
  BY <1>1, Invariance, PTL
----------------------------------------------------------------------------
(* A host that neither stops, removes nor resets.  What readData tested     *)
(* stays true without any masking, since only such a host, or the main      *)
(* loop itself, could take it back; while it does, the rate in use is the   *)
(* head's, which START set or the switch carries in reg.rate.               *)

QuietHost == HostOps \cap {"STOP", "RM", "RST"} = {}

Tested ==
    /\ pc \in {"checkState", "checkTimer", "enter", "claim"} => queue # <<>>
    /\ pc \in {"checkTimer", "enter", "claim"} => ss # "STOP"
    /\ pc \in {"enter", "claim"} => timer_done

Ending == pc \in {"stopAdc", "stopTimer"}
Switching == pc \in {"setAdcRate", "setTimer", "enable", "setChannels"}
AtRate ==
    ~corrupt_sample_set =>
        /\ pc \in {"copy", "copyRest", "dec"} \/ Switching => queue # <<>> /\ ss # "STOP"
        /\ ss # "STOP" /\ ~Ending => queue # <<>>
        /\ ss # "STOP" /\ queue # <<>> =>
              /\ hw.tmrRate = Head(queue).rate \/ pc \in {"setAdcRate", "setTimer"}
              /\ hw.adcRate = DetermineADCRate(Head(queue).rate) \/ pc = "setAdcRate"
        /\ pc \in {"setAdcRate", "setTimer"} => reg.rate = Head(queue).rate

LEMMA InitSteady == Init => Tested /\ AtRate
  BY DEF Init, Tested, AtRate, Switching

\* The head of the queue stays when a set is added behind it, and keeps its
\* rate when it is counted down.
LEMMA HeadStays ==
    ASSUME NEW q \in Seq(SampleSet), q # <<>>, NEW s \in SampleSet
    PROVE  /\ Append(q, s) # <<>> /\ Head(Append(q, s)) = Head(q)
           /\ [q EXCEPT ![1].num = @ - 1] # <<>>
           /\ Head([q EXCEPT ![1].num = @ - 1]).rate = Head(q).rate
<1>1. Append(q, s) # <<>> /\ Head(Append(q, s)) = Head(q)
  OBVIOUS
<1> DEFINE h == [q[1] EXCEPT !.num = @ - 1]
           p == [q EXCEPT ![1] = h]
<1>2. q[1] \in SampleSet /\ Head(q) = q[1] /\ Len(q) >= 1
  OBVIOUS
<1>3. h.rate = q[1].rate
  BY <1>2 DEF SampleSet
<1> HIDE DEF h
<1>4. p # <<>> /\ Head(p) = h
  BY <1>2
<1>5. [q EXCEPT ![1].num = @ - 1] = p
  BY DEF h
<1> QED
  BY <1>1, <1>2, <1>3, <1>4, <1>5

LEMMA NextTested ==
    ASSUME QuietHost, TypeOK, Tested, [Next]_vars
    PROVE  Tested'
<1> USE DEF Tested, QuietHost, PCs, sets, status, store, corruption, conversion, device, core, locals
<1>1. CASE UNCHANGED vars
  BY <1>1 DEF vars
<1>2. CASE DrdyEdge \/ DrdyIsr \/ TimerIsr \/ OtherIsr
  BY <1>2 DEF DrdyEdge, DrdyIsr, TimerIsr, OtherIsr, Interrupt
<1>3. CASE \E r \in Requests : Add(r)
  <2>1. PICK r \in Requests : Add(r)
    BY <1>3
  <2>2. queue # <<>> => queue' # <<>>
    BY <2>1 DEF Add, TypeOK
  <2> QED
    BY <2>1, <2>2 DEF Add, Interrupt
<1>4. CASE Start \/ \E k \in ReadSizes : Read(k)
  BY <1>4 DEF Start, Read, Interrupt
<1>5. CASE Rm \/ Stop \/ Reset
  BY <1>5 DEF Rm, Stop, Reset
<1>6. CASE Sleep \/ Wfi \/ CheckQueue \/ CheckState \/ CheckTimer \/ Enter
  BY <1>6 DEF Sleep, Wfi, CheckQueue, CheckState, CheckTimer, Enter, Goto
<1>7. CASE Claim \/ Overflow \/ CopyFirst \/ CopyRest \/ DecCounts \/ DecEnds \/ DecSwitches
  BY <1>7 DEF Claim, Overflow, CopyFirst, CopyRest, DecCounts, DecEnds, DecSwitches, Goto
<1>8. CASE StopAdc \/ StopTimer \/ SetAdcRate \/ SetTimer \/ Enable \/ SetChannels \/ Leave
  BY <1>8 DEF StopAdc, StopTimer, SetAdcRate, SetTimer, Enable, SetChannels, Leave, Goto
<1> QED
  BY <1>1, <1>2, <1>3, <1>4, <1>5, <1>6, <1>7, <1>8 DEF Next, Host, Main

LEMMA NextAtRate ==
    ASSUME QuietHost, Inv, Tested, AtRate, [Next]_vars
    PROVE  AtRate'
<1> SUFFICES ASSUME ~corrupt_sample_set' PROVE AtRate'
  BY DEF AtRate
<1>a. /\ queue \in Seq(SampleSet) /\ hw \in Devices /\ reg \in Registers /\ pc \in PCs
      /\ (masked <=> InCritical) \/ corrupt_sample_set
  BY DEF Inv, Typed, TypeOK, Clean
<1> USE <1>a DEF AtRate, QuietHost, Ending, Switching, PCs, InCritical,
        sets, status, store, corruption, conversion, device, core, locals
<1>1. CASE UNCHANGED vars
  BY <1>1 DEF vars
<1>2. CASE DrdyEdge \/ DrdyIsr \/ TimerIsr \/ OtherIsr
  BY <1>2 DEF DrdyEdge, DrdyIsr, TimerIsr, OtherIsr, Interrupt
<1>3. CASE \E r \in Requests : Add(r)
  <2>1. PICK r \in Requests : Add(r)
    BY <1>3
  <2>2. queue # <<>> => queue' # <<>> /\ Head(queue') = Head(queue)
    <3>1. CASE Acceptable(r)
      <4>1. [num |-> r.num, want |-> r.num, rate |-> r.rate, chans |-> r.chans] \in SampleSet
        BY <3>1, RequestsAssumption DEF Acceptable, SampleSet
      <4> QED
        BY <2>1, <3>1, <4>1, HeadStays DEF Add
    <3>2. CASE ~Acceptable(r)
      BY <2>1, <3>2 DEF Add
    <3> QED
      BY <3>1, <3>2
  <2>3. UNCHANGED <<hw, ss, reg, corrupt_sample_set>> /\ ~masked /\ pc' \in {pc, "checkQueue"}
    BY <2>1 DEF Add, Interrupt
  <2>4. pc' # pc => pc = "asleep"
    BY <2>1 DEF Add, Interrupt
  <2> QED
    BY <2>2, <2>3, <2>4
<1>4. CASE Start
  <2>1. pc' \notin {"copy", "copyRest", "dec", "setAdcRate", "setTimer", "enable", "setChannels"}
    BY <1>4 DEF Start, Interrupt
  <2>2. hw'.tmrRate = Head(queue).rate /\ hw'.adcRate = DetermineADCRate(Head(queue).rate)
    BY <1>4 DEF Start, startADC, reconfig_timer, changeSampleRate, Devices
  <2> QED
    BY <1>4, <2>1, <2>2 DEF Start
<1>5. CASE \E k \in ReadSizes : Read(k)
  BY <1>5 DEF Read, Interrupt
<1>6. CASE Rm \/ Stop \/ Reset
  BY <1>6 DEF Rm, Stop, Reset
<1>7. CASE Sleep \/ Wfi \/ CheckQueue \/ CheckState \/ CheckTimer \/ Enter
  BY <1>7 DEF Sleep, Wfi, CheckQueue, CheckState, CheckTimer, Enter, Goto
<1>8. CASE Claim
  BY <1>8 DEF Claim, Goto, Tested
<1>9. CASE Overflow
  BY <1>9 DEF Overflow
<1>10. CASE CopyFirst \/ CopyRest
  BY <1>10 DEF CopyFirst, CopyRest, Goto
<1>11. CASE DecCounts
  <2>1. queue' # <<>> /\ Head(queue').rate = Head(queue).rate
    <3>1. queue[1] \in SampleSet /\ queue # <<>>
      BY <1>11 DEF DecCounts
    <3> QED
      BY <1>11, <3>1, HeadStays DEF DecCounts
  <2> QED
    BY <1>11, <2>1 DEF DecCounts, Goto
<1>12. CASE DecEnds
  BY <1>12 DEF DecEnds, Goto
<1>13. CASE DecSwitches
  <2>1. queue' # <<>> /\ reg'.rate = Head(queue').rate
    BY <1>13, SwitchParts DEF DecSwitches, Registers
  <2> QED
    BY <1>13, <2>1 DEF DecSwitches, Goto
<1>14. CASE StopAdc \/ StopTimer
  BY <1>14 DEF StopAdc, StopTimer, Goto, startADC, disable_timer, Devices
<1>15. CASE SetAdcRate
  BY <1>15 DEF SetAdcRate, Goto, changeSampleRate, Devices
<1>16. CASE SetTimer
  BY <1>16 DEF SetTimer, Goto, reconfig_timer, Devices
<1>17. CASE Enable
  BY <1>17 DEF Enable, Goto, startADC, Devices
<1>18. CASE SetChannels
  BY <1>18 DEF SetChannels, Goto, change_channel, Devices
<1>19. CASE Leave
  BY <1>19 DEF Leave, Goto
<1> QED
  BY <1>1, <1>2, <1>3, <1>4, <1>5, <1>6, <1>7, <1>8, <1>9, <1>10, <1>11, <1>12, <1>13,
     <1>14, <1>15, <1>16, <1>17, <1>18, <1>19 DEF Next, Host, Main

LEMMA SteadyInvariance ==
    ASSUME QuietHost
    PROVE  Spec => [](Inv /\ Tested /\ AtRate)
<1>1. Init => Inv /\ Tested /\ AtRate
  BY InitTyped, InitRobust, InitClean, InitSteady DEF Inv
<1>2. Inv /\ Tested /\ AtRate /\ [Next]_vars => (Inv /\ Tested /\ AtRate)'
  <2>1. Inv => TypeOK
    BY DEF Inv, Typed
  <2>2. Inv /\ [Next]_vars => Inv'
    BY NextTyped, NextRobust, NextClean DEF Inv
  <2> QED
    BY <2>1, <2>2, NextTested, NextAtRate
<1> QED
  BY <1>1, <1>2, PTL DEF Spec

\* What readData tested with interrupts on still holds when it acts on it,
\* after an overflow too, as long as the host neither stops nor removes.
THEOREM ClaimTheorem == ASSUME QuietHost PROVE Spec => []ClaimJustified
<1>1. Tested => ClaimJustified
  BY DEF Tested, ClaimJustified
<1> QED
  BY <1>1, SteadyInvariance, PTL

\* Every set runs at its own rate, for queues of every length.
THEOREM RateTheorem == ASSUME QuietHost PROVE Spec => []RateMatchesHead
<1>1. Inv /\ AtRate => RateMatchesHead
  BY DEF Inv, Clean, AtRate, RateMatchesHead, InCritical
<1> QED
  BY <1>1, SteadyInvariance, PTL

\* Sampling stops with the last set.
THEOREM SomeSetTheorem == ASSUME QuietHost PROVE Spec => []SamplesForSomeSet
<1>1. Inv /\ AtRate => SamplesForSomeSet
  BY DEF Inv, Clean, AtRate, Ending, SamplesForSomeSet, InCritical
<1> QED
  BY <1>1, SteadyInvariance, PTL

----------------------------------------------------------------------------
(* STOP is final for a host that never sends it: the main loop's own stop() *)
(* comes at the end of a section, and nothing after it restarts sampling.   *)

\* From the test of the status to the last write of setRate()
Sampling == {"checkTimer", "enter", "claim", "copy", "copyRest", "dec",
             "setAdcRate", "setTimer", "enable"}
Going == pc \in Sampling => ss # "STOP"

LEMMA NextGoing ==
    ASSUME "STOP" \notin HostOps, Going, [Next]_vars
    PROVE  Going' /\ (ss = "STOP" => ss' \in {"STOP", "START"} \/ ss' = ss)
<1> USE DEF Going, Sampling, sets, status, store, corruption, conversion, device, core, locals
<1>1. CASE UNCHANGED vars
  BY <1>1 DEF vars
<1>2. CASE DrdyEdge \/ DrdyIsr \/ TimerIsr \/ OtherIsr
  BY <1>2 DEF DrdyEdge, DrdyIsr, TimerIsr, OtherIsr, Interrupt
<1>3. CASE \E r \in Requests : Add(r)
  BY <1>3 DEF Add, Interrupt
<1>4. CASE Rm \/ Stop \/ Start \/ Reset \/ \E k \in ReadSizes : Read(k)
  BY <1>4 DEF Rm, Stop, Start, Reset, Read, Interrupt
<1>5. CASE Sleep \/ Wfi \/ CheckQueue \/ CheckState \/ CheckTimer \/ Enter
  BY <1>5 DEF Sleep, Wfi, CheckQueue, CheckState, CheckTimer, Enter, Goto
<1>6. CASE Claim \/ Overflow \/ CopyFirst \/ CopyRest \/ DecCounts \/ DecEnds \/ DecSwitches
  BY <1>6 DEF Claim, Overflow, CopyFirst, CopyRest, DecCounts, DecEnds, DecSwitches, Goto
<1>7. CASE StopAdc \/ StopTimer \/ SetAdcRate \/ SetTimer \/ Enable \/ SetChannels \/ Leave
  BY <1>7 DEF StopAdc, StopTimer, SetAdcRate, SetTimer, Enable, SetChannels, Leave, Goto
<1> QED
  BY <1>1, <1>2, <1>3, <1>4, <1>5, <1>6, <1>7 DEF Next, Host, Main

\* stop() stays in force until START (sampling.c:76), overflows, removed sets and
\* resets included, if it is not the host that stops.
THEOREM StopTheorem == ASSUME "STOP" \notin HostOps PROVE Spec => StopIsFinal
<1>1. Init => Going
  BY DEF Init, Going, Sampling
<1>2. Going /\ [Next]_vars => Going'
  BY NextGoing
<1>3. Going /\ [Next]_vars => [ss = "STOP" => ss' \in {"STOP", "START"}]_vars
  BY NextGoing
<1> QED
  BY <1>1, <1>2, <1>3, PTL DEF Spec, StopIsFinal

----------------------------------------------------------------------------
(* A sample made under the rate before is at most the first of its set:     *)
(* when a set begins no sample is waiting, so a conversion held back from   *)
(* before is the next one read, and the edge after it is the new rate's.    *)

\* A sample has been read and not stored.
Waiting == dataRdy \/ timer_done \/ pc \in {"copy", "copyRest"}
Stale(sample) == sample.rate # DetermineADCRate(Head(queue).rate)

FirstOnly ==
    ~corrupt_sample_set =>
        /\ ss = "STOP" \/ Ending \/ Switching => got = 0
        /\ InCritical => ~dataRdy
        /\ InCritical /\ pc # "claim" => ~timer_done
        /\ ss # "STOP" /\ ~Ending =>
              /\ drdyPend /\ Stale(adcOut) => got = 0 /\ ~Waiting
              /\ Waiting /\ Stale(adcData) => got = 0
        /\ StaleAtMostOnce

LEMMA InitFirstOnly == Init => FirstOnly
  BY DEF Init, FirstOnly, Ending, Switching, InCritical, StaleAtMostOnce, NoSample, NoSet

LEMMA NextFirstOnly ==
    ASSUME QuietHost, Inv, Tested, AtRate, FirstOnly, [Next]_vars
    PROVE  FirstOnly'
<1> SUFFICES ASSUME ~corrupt_sample_set' PROVE FirstOnly'
  BY DEF FirstOnly
<1>a. /\ queue \in Seq(SampleSet) /\ hw \in Devices /\ pc \in PCs /\ got \in Nat
      /\ adcOut \in Settings /\ adcData \in Data /\ last \in Stored
      /\ (masked <=> InCritical) \/ corrupt_sample_set
      /\ ~(timer_done /\ dataRdy)
  BY DEF Inv, Typed, TypeOK, Clean, Robust, HandshakeExclusive
<1>b. corrupt_sample_set \/ ss = "STOP" \/ Ending \/ queue # <<>>
  BY DEF AtRate
<1> USE <1>a DEF FirstOnly, Waiting, Stale, QuietHost, Ending, Switching, PCs, InCritical,
        StaleAtMostOnce,
        sets, status, store, corruption, conversion, device, core, locals
<1>1. CASE UNCHANGED vars
  BY <1>1 DEF vars
<1>2. CASE DrdyEdge
  <2>1. /\ adcOut' = SettingsOf(hw) /\ drdyPend' = TRUE
        /\ UNCHANGED <<queue, got, ss, timer_done, dataRdy, adcData, pc, last, corrupt_sample_set>>
    BY <1>2 DEF DrdyEdge
  <2>2. adcOut'.rate = hw.adcRate
    BY <2>1 DEF SettingsOf
  <2>3. ss # "STOP" /\ ~Ending /\ pc # "setAdcRate" => ~Stale(adcOut')
    BY <1>b, <2>1, <2>2 DEF AtRate
  <2> QED
    BY <2>1, <2>3
<1>3. CASE DrdyIsr
  <2>1. /\ UNCHANGED <<queue, got, ss, timer_done, adcOut, last, corrupt_sample_set>>
        /\ ~masked /\ drdyPend /\ ~drdyPend' /\ (pc' = pc \/ (pc = "asleep" /\ pc' = "checkQueue"))
    BY <1>3 DEF DrdyIsr, Interrupt
  <2>2. CASE timer_done
    <3>1. UNCHANGED <<dataRdy, adcData>>
      BY <1>3, <2>2 DEF DrdyIsr
    <3> QED
      BY <2>1, <3>1
  <2>3. CASE ~timer_done
    <3>1. dataRdy' /\ adcData'.rate = adcOut.rate
      BY <1>3, <2>3 DEF DrdyIsr
    <3> QED
      BY <2>1, <3>1
  <2> QED
    BY <2>2, <2>3
<1>4. CASE TimerIsr
  BY <1>4 DEF TimerIsr, Interrupt
<1>5. CASE OtherIsr
  BY <1>5 DEF OtherIsr, Interrupt
<1>6. CASE \E r \in Requests : Add(r)
  <2>1. PICK r \in Requests : Add(r)
    BY <1>6
  <2>2. queue # <<>> => queue' # <<>> /\ Head(queue') = Head(queue)
    <3>1. CASE Acceptable(r)
      <4>1. [num |-> r.num, want |-> r.num, rate |-> r.rate, chans |-> r.chans] \in SampleSet
        BY <3>1, RequestsAssumption DEF Acceptable, SampleSet
      <4> QED
        BY <2>1, <3>1, <4>1, HeadStays DEF Add
    <3>2. CASE ~Acceptable(r)
      BY <2>1, <3>2 DEF Add
    <3> QED
      BY <3>1, <3>2
  <2>3. /\ UNCHANGED <<got, ss, timer_done, dataRdy, adcData, adcOut, drdyPend, last,
                       corrupt_sample_set>>
        /\ pc' = pc \/ (pc = "asleep" /\ pc' = "checkQueue")
    BY <2>1 DEF Add, Interrupt
  <2> QED
    BY <1>b, <2>2, <2>3
<1>7. CASE Start
  BY <1>7 DEF Start, Interrupt
<1>8. CASE \E k \in ReadSizes : Read(k)
  BY <1>8 DEF Read, Interrupt
<1>9. CASE Rm \/ Stop \/ Reset
  BY <1>9 DEF Rm, Stop, Reset
<1>10. CASE Sleep \/ Wfi \/ CheckQueue \/ CheckState \/ CheckTimer
  BY <1>10 DEF Sleep, Wfi, CheckQueue, CheckState, CheckTimer, Goto
<1>11. CASE Enter
  BY <1>11 DEF Enter, Goto, Tested
<1>12. CASE Claim
  BY <1>12 DEF Claim, Goto, Tested
<1>13. CASE Overflow
  BY <1>13 DEF Overflow
<1>14. CASE CopyFirst
  BY <1>14 DEF CopyFirst, Goto
<1>15. CASE CopyRest
  <2>1. /\ pc = "copyRest" /\ pc' = "dec" /\ got' = got + 1
        /\ last' = [first |-> reg.half, rest |-> adcData, for |-> HeadSelection, nth |-> got']
        /\ UNCHANGED <<queue, ss, timer_done, dataRdy, adcData, adcOut, drdyPend, corrupt_sample_set>>
    BY <1>15 DEF CopyRest, Goto
  <2>2. queue # <<>> /\ ss # "STOP" /\ ~corrupt_sample_set
    BY <2>1 DEF AtRate
  <2>3. Stale(adcData) => got = 0
    BY <2>1, <2>2
  <2>4. ~(drdyPend /\ Stale(adcOut))
    BY <2>1, <2>2
  <2>5. last'.nth = got + 1 /\ last'.rest.rate = adcData.rate /\ last'.for.rate = Head(queue).rate
    BY <2>1, <2>2 DEF HeadSelection
  <2>6. StaleAtMostOnce'
    BY <2>3, <2>5
  <2> QED
    BY <2>1, <2>2, <2>4, <2>6
<1>16. CASE DecCounts
  <2>1. queue' # <<>> /\ Head(queue').rate = Head(queue).rate
    <3>1. queue[1] \in SampleSet /\ queue # <<>>
      BY <1>16 DEF DecCounts
    <3> QED
      BY <1>16, <3>1, HeadStays DEF DecCounts
  <2> QED
    BY <1>16, <2>1 DEF DecCounts, Goto
<1>17. CASE DecEnds
  BY <1>17 DEF DecEnds, Goto
<1>18. CASE DecSwitches
  BY <1>18 DEF DecSwitches, Goto
<1>19. CASE StopAdc \/ StopTimer
  BY <1>19 DEF StopAdc, StopTimer, Goto
<1>20. CASE SetAdcRate \/ SetTimer
  BY <1>20 DEF SetAdcRate, SetTimer, Goto
<1>21. CASE Enable
  BY <1>21 DEF Enable, Goto
<1>22. CASE SetChannels
  BY <1>22 DEF SetChannels, Goto
<1>23. CASE Leave
  BY <1>23 DEF Leave, Goto, NoSample
<1> QED
  BY <1>1, <1>2, <1>3, <1>4, <1>5, <1>6, <1>7, <1>8, <1>9, <1>10, <1>11, <1>12, <1>13,
     <1>14, <1>15, <1>16, <1>17, <1>18, <1>19, <1>20, <1>21, <1>22, <1>23 DEF Next, Host, Main

\* Until the first overflow a set has at most one sample of another rate, and it
\* is the first (the DRDY edge that setRate leaves pending).
THEOREM StaleTheorem ==
    ASSUME QuietHost
    PROVE  Spec => [](~corrupt_sample_set => StaleAtMostOnce)
<1>1. Init => FirstOnly
  BY InitFirstOnly
<1>2. Inv /\ Tested /\ AtRate /\ FirstOnly /\ [Next]_vars => FirstOnly'
  BY NextFirstOnly
<1>3. FirstOnly => (~corrupt_sample_set => StaleAtMostOnce)
  BY DEF FirstOnly
<1> QED
  BY <1>1, <1>2, <1>3, SteadyInvariance, PTL DEF Spec

=============================================================================
