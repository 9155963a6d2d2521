-------------------------- MODULE PlatformTimeProofs --------------------------
(***************************************************************************)
(* Theorems about PlatformTime, for every width of the counters and of the *)
(* prescalers and every set of configurations the application may pass.    *)
(***************************************************************************)
EXTENDS PlatformTime, TLAPS

-----------------------------------------------------------------------------
(* The inductive invariant *)

\* What the two timers and the interrupt gates are at each step of PLATFORM_init():
\* the services are torn down or built up in one order.
GatesAre(interrupt, enabled) ==
  timebaseReg.interrupt = interrupt /\ irq.enabled = enabled

TimebaseIs(state, next) == timebaseTimer = [state |-> state, next |-> next]
TimestampIs(state, next) == timestampTimer = [state |-> state, next |-> next]

AllUp ==
  TimebaseIs("RUNNING", "none") /\ TimestampIs("RUNNING", "none") /\ GatesAre(TRUE, TRUE)
AllDown ==
  /\ timebaseTimer.state # "RUNNING" /\ timebaseTimer.next = "none"
  /\ timestampTimer.state # "RUNNING" /\ timestampTimer.next = "none"
  /\ GatesAre(FALSE, FALSE)

BothStopped == TimebaseIs("STOPPED", "none") /\ TimestampIs("STOPPED", "none")

ServiceInv ==
  /\ call.pc = "idle" => AllUp \/ (AllDown /\ call.result # "OK")
  /\ call.pc = "initTimebase" => AllUp \/ AllDown
  /\ call.pc = "initTimestamp" => AllDown /\ TimebaseIs("STOPPED", "none")
  /\ call.pc = "enableVector" => BothStopped /\ GatesAre(FALSE, FALSE)
  /\ call.pc = "enableInterrupt" => BothStopped /\ GatesAre(FALSE, TRUE)
  /\ call.pc = "startTimestamp" => BothStopped /\ GatesAre(TRUE, TRUE)
  /\ call.pc = "markTimestamp" =>
       /\ TimebaseIs("STOPPED", "none") /\ TimestampIs("STOPPED", "RUNNING")
       /\ GatesAre(TRUE, TRUE)
  /\ call.pc = "startTimebase" =>
       /\ TimebaseIs("STOPPED", "none") /\ TimestampIs("RUNNING", "none")
       /\ GatesAre(TRUE, TRUE)
  /\ call.pc = "markTimebase" =>
       /\ TimebaseIs("STOPPED", "RUNNING") /\ TimestampIs("RUNNING", "none")
       /\ GatesAre(TRUE, TRUE)

\* The ISR's flag is still set when it comes to clear it.
TickInv ==
  /\ isr = "clearFlag" => timebaseReg.overflow
  /\ OneTickPerPeriod

\* The timestamp counter runs as its configuration says, once a call set it going.
CounterInv ==
  Timestamp!Initialized =>
    /\ timestampReg.counting <=>
         timestampTimer.state = "RUNNING" \/ timestampTimer.next = "RUNNING"
    /\ timestampReg.period = timestampPast.config.periodTicks - 1
    /\ timestampReg.divider = timestampPast.config.clockDivider - 1
    /\ timestampReg.prescale <= timestampReg.divider

\* A measurement runs only on a counter that no call touches any more.
Measuring ==
  sample.taken =>
    /\ Timestamp!Initialized /\ timestampReg.counting
    /\ FreeRunning /\ sample.elapsed < CounterMod =>
         \/ sample.start - timestampReg.count = sample.elapsed
         \/ sample.start - timestampReg.count = sample.elapsed - CounterMod

PlatformInv == TypeOK /\ ServiceInv /\ TickInv /\ CounterInv /\ Measuring
-----------------------------------------------------------------------------
(* Types *)

Handle ==
  [state : {"UNINITIALIZED", "STOPPED", "RUNNING"}, next : {"none", "STOPPED", "RUNNING"}]
Registers ==
  [counting : BOOLEAN, overflow : BOOLEAN, interrupt : BOOLEAN,
   period : 0..CounterMod - 1, count : 0..CounterMod - 1,
   divider : 0..DividerMod - 1, prescale : 0..DividerMod - 1]
TimebasePast == [config : {c \in Timebase!Config : Timebase!AcceptsConfig(c)}, elapsed : Nat]
TimestampPast == [config : {c \in Timestamp!Config : Timestamp!AcceptsConfig(c)}, elapsed : Nat]
Step ==
  {"idle", "initTimebase", "initTimestamp", "enableVector", "enableInterrupt",
   "startTimestamp", "markTimestamp", "startTimebase", "markTimebase"}
Call ==
  [pc : Step, timebase : Timebase!Config, timestamp : Timestamp!Config,
   result : {"none", "OK", "FAILED"}]
Irq == [enabled : BOOLEAN, blocked : BOOLEAN, global : BOOLEAN]
TickCount == [behind : Int, missed : BOOLEAN]
Sample == [taken : BOOLEAN, start : 0..CounterMod - 1, elapsed : 0..MaxSample]

LEMMA TypeParts ==
  TypeOK <=>
    /\ timebaseTimer \in Handle /\ timebaseReg \in Registers /\ timebasePast \in TimebasePast
    /\ timestampTimer \in Handle /\ timestampReg \in Registers
    /\ timestampPast \in TimestampPast
    /\ call \in Call /\ irq \in Irq /\ isr \in {"none", "clearFlag", "acknowledge"}
    /\ ticks \in TickCount /\ sample \in Sample
  BY Zenon DEF TypeOK, Timebase!TimerTypeOK, Timestamp!TimerTypeOK, Handle, Registers,
     TimebasePast, TimestampPast, Step, Call, Irq, TickCount, Sample

LEMMA TypePartsNext ==
  TypeOK' <=>
    /\ timebaseTimer' \in Handle /\ timebaseReg' \in Registers
    /\ timebasePast' \in TimebasePast
    /\ timestampTimer' \in Handle /\ timestampReg' \in Registers
    /\ timestampPast' \in TimestampPast
    /\ call' \in Call /\ irq' \in Irq /\ isr' \in {"none", "clearFlag", "acknowledge"}
    /\ ticks' \in TickCount /\ sample' \in Sample
  BY Zenon DEF TypeOK, Timebase!TimerTypeOK, Timestamp!TimerTypeOK, Handle, Registers,
     TimebasePast, TimestampPast, Step, Call, Irq, TickCount, Sample

\* Neither register loses a bit of an accepted configuration.
LEMMA RegistersExact ==
  ASSUME NEW n \in 1..CounterMod, NEW d \in 1..DividerMod
  PROVE  /\ (n - 1) % CounterMod = n - 1 /\ n - 1 \in 0..CounterMod - 1
         /\ (d - 1) % DividerMod = d - 1 /\ d - 1 \in 0..DividerMod - 1
  BY PlatformAssumption

\* What the assignments of the handlers make of a handle, of a call and of the registers.
LEMMA HandleUpdates ==
  ASSUME NEW h \in Handle
  PROVE  /\ [h EXCEPT !.state = "STOPPED"] \in Handle
         /\ [h EXCEPT !.next = "STOPPED"] \in Handle
         /\ [h EXCEPT !.next = "RUNNING"] \in Handle
         /\ h.next # "none" => [state |-> h.next, next |-> "none"] \in Handle
  BY DEF Handle

LEMMA CallUpdates ==
  ASSUME NEW c \in Call, NEW p \in Step, NEW r \in {"none", "OK", "FAILED"}
  PROVE  /\ [c EXCEPT !.pc = p] \in Call
         /\ [c EXCEPT !.pc = p, !.result = r] \in Call
  BY DEF Call

LEMMA TickUpdates ==
  ASSUME NEW t \in TickCount
  PROVE  /\ [t EXCEPT !.behind = t.behind - 1] \in TickCount
         /\ [t EXCEPT !.behind = t.behind + 1] \in TickCount
         /\ [t EXCEPT !.missed = TRUE] \in TickCount
<1>1. t.behind - 1 \in Int /\ t.behind + 1 \in Int
  BY DEF TickCount
<1> QED BY <1>1 DEF TickCount

LEMMA RegisterUpdates ==
  ASSUME NEW r \in Registers, NEW b \in BOOLEAN
  PROVE  /\ [r EXCEPT !.counting = b] \in Registers
         /\ [r EXCEPT !.overflow = b] \in Registers
         /\ [r EXCEPT !.interrupt = b] \in Registers
         /\ [r EXCEPT !.count = r.period, !.prescale = r.divider] \in Registers
<1> DEFINE P == 0..CounterMod - 1
           D == 0..DividerMod - 1
<1>1. Registers = [counting : BOOLEAN, overflow : BOOLEAN, interrupt : BOOLEAN,
                   period : P, count : P, divider : D, prescale : D]
  BY Zenon DEF Registers
<1> HIDE DEF P, D
<1> QED BY <1>1

\* What one clock does to them.
LEMMA CountingTyped ==
  ASSUME NEW r \in Registers, NEW s,
         \/ r.prescale > 0 /\ s = [r EXCEPT !.prescale = r.prescale - 1]
         \/ r.count > 0 /\ s = [r EXCEPT !.count = r.count - 1, !.prescale = r.divider]
         \/ s = [[r EXCEPT !.count = r.period, !.prescale = r.divider]
                   EXCEPT !.overflow = TRUE]
  PROVE  s \in Registers
<1>1. r.prescale > 0 => r.prescale - 1 \in 0..DividerMod - 1
  BY PlatformAssumption DEF Registers
<1>2. r.count > 0 => r.count - 1 \in 0..CounterMod - 1
  BY PlatformAssumption DEF Registers
<1> DEFINE P == 0..CounterMod - 1
           D == 0..DividerMod - 1
<1>3. Registers = [counting : BOOLEAN, overflow : BOOLEAN, interrupt : BOOLEAN,
                   period : P, count : P, divider : D, prescale : D]
  BY Zenon DEF Registers
<1>4. /\ r.prescale > 0 => r.prescale - 1 \in D
      /\ r.count > 0 => r.count - 1 \in P
  BY <1>1, <1>2
<1> HIDE DEF P, D
<1>5. CASE r.prescale > 0 /\ s = [r EXCEPT !.prescale = r.prescale - 1]
  BY <1>3, <1>4, <1>5
<1>6. CASE r.count > 0 /\ s = [r EXCEPT !.count = r.count - 1, !.prescale = r.divider]
  BY <1>3, <1>4, <1>6
<1>7. CASE s = [[r EXCEPT !.count = r.period, !.prescale = r.divider] EXCEPT !.overflow = TRUE]
  BY <1>3, <1>7
<1> QED BY <1>5, <1>6, <1>7

LEMMA ClockTyped ==
  ASSUME TypeOK, SystemClock
  PROVE  timebaseReg' \in Registers /\ timestampReg' \in Registers
<1>1. timebaseReg \in Registers /\ timestampReg \in Registers
  BY TypeParts
<1>2. /\ timebaseReg' = IF timebaseReg.counting THEN Timebase!Counted ELSE timebaseReg
      /\ timestampReg' = IF timestampReg.counting THEN Timestamp!Counted ELSE timestampReg
  BY DEF SystemClock, Timebase!Clock, Timestamp!Clock
<1>3. Timebase!Counted \in Registers
  <2>1. \/ /\ timebaseReg.prescale > 0
           /\ Timebase!Counted = [timebaseReg EXCEPT !.prescale = timebaseReg.prescale - 1]
        \/ /\ timebaseReg.count > 0
           /\ Timebase!Counted = [timebaseReg EXCEPT !.count = timebaseReg.count - 1,
                                                     !.prescale = timebaseReg.divider]
        \/ Timebase!Counted = [[timebaseReg EXCEPT !.count = timebaseReg.period,
                                                   !.prescale = timebaseReg.divider]
                                 EXCEPT !.overflow = TRUE]
    BY Zenon DEF Timebase!Counted, Timebase!Reloaded
  <2> QED BY <1>1, <2>1, CountingTyped, Zenon
<1>4. Timestamp!Counted \in Registers
  <2>1. \/ /\ timestampReg.prescale > 0
           /\ Timestamp!Counted = [timestampReg EXCEPT !.prescale = timestampReg.prescale - 1]
        \/ /\ timestampReg.count > 0
           /\ Timestamp!Counted = [timestampReg EXCEPT !.count = timestampReg.count - 1,
                                                       !.prescale = timestampReg.divider]
        \/ Timestamp!Counted = [[timestampReg EXCEPT !.count = timestampReg.period,
                                                     !.prescale = timestampReg.divider]
                                  EXCEPT !.overflow = TRUE]
    BY Zenon DEF Timestamp!Counted, Timestamp!Reloaded
  <2> QED BY <1>1, <2>1, CountingTyped, Zenon
<1> QED BY <1>1, <1>2, <1>3, <1>4, Zenon

LEMMA InitialTyped ==
  /\ \A c : Timebase!AcceptsConfig(c) => Timebase!InitialRegisters(c) \in Registers
  /\ \A c : Timestamp!AcceptsConfig(c) => Timestamp!InitialRegisters(c) \in Registers
<1>1. ASSUME NEW c, Timebase!AcceptsConfig(c)
      PROVE  Timebase!InitialRegisters(c) \in Registers
  BY <1>1, PlatformAssumption, RegistersExact
     DEF Timebase!InitialRegisters, Timebase!Configured, Timebase!Reloaded, Registers,
         Timebase!PeriodRegister, Timebase!DividerRegister, Timebase!AcceptsConfig
<1>2. ASSUME NEW c, Timestamp!AcceptsConfig(c)
      PROVE  Timestamp!InitialRegisters(c) \in Registers
  BY <1>2, PlatformAssumption, RegistersExact
     DEF Timestamp!InitialRegisters, Timestamp!Configured, Timestamp!Reloaded, Registers,
         Timestamp!PeriodRegister, Timestamp!DividerRegister, Timestamp!AcceptsConfig
<1> QED BY <1>1, <1>2

LEMMA InitTyped == Init => TypeOK
<1> SUFFICES ASSUME Init PROVE TypeOK
  OBVIOUS
<1>1. /\ timebaseTimer \in Handle /\ timestampTimer \in Handle
      /\ irq \in Irq /\ isr \in {"none", "clearFlag", "acknowledge"} /\ ticks \in TickCount
  BY DEF Init, Timebase!TimerInit, Timestamp!TimerInit, Handle, Irq, TickCount
<1>2. timebaseReg \in Registers /\ timestampReg \in Registers
  BY PlatformAssumption DEF Init, Timebase!TimerInit, Timestamp!TimerInit, Registers
<1>3. timebasePast \in TimebasePast /\ timestampPast \in TimestampPast
  BY PlatformAssumption DEF Init, Timebase!TimerInit, Timestamp!TimerInit, TimebasePast,
     TimestampPast, Timebase!Config, Timestamp!Config, Timebase!AcceptsConfig,
     Timestamp!AcceptsConfig
<1>4. sample \in Sample
  BY PlatformAssumption DEF Init, NoSample, Sample
<1>5. call \in Call
  BY <1>3 DEF Init, IdleCall, Call, Step, TimebasePast, TimestampPast
<1> QED BY <1>1, <1>2, <1>3, <1>4, <1>5, TypeParts

LEMMA TypeStep == TypeOK /\ [Next]_vars => TypeOK'
<1> SUFFICES ASSUME TypeOK, [Next]_vars PROVE TypeOK'
  OBVIOUS
<1>a. /\ timebaseTimer \in Handle /\ timebaseReg \in Registers /\ timebasePast \in TimebasePast
      /\ timestampTimer \in Handle /\ timestampReg \in Registers
      /\ timestampPast \in TimestampPast
      /\ call \in Call /\ irq \in Irq /\ isr \in {"none", "clearFlag", "acknowledge"}
      /\ ticks \in TickCount /\ sample \in Sample
  BY TypeParts
<1>b. /\ \A p \in Step : [call EXCEPT !.pc = p] \in Call
      /\ [call EXCEPT !.pc = "idle", !.result = "OK"] \in Call
      /\ [call EXCEPT !.pc = "idle", !.result = "FAILED"] \in Call
  <2>1. /\ "idle" \in Step
        /\ "OK" \in {"none", "OK", "FAILED"} /\ "FAILED" \in {"none", "OK", "FAILED"}
    BY DEF Step
  <2> QED BY <1>a, <2>1, CallUpdates, Zenon
<1>c. /\ "initTimestamp" \in Step /\ "enableVector" \in Step /\ "enableInterrupt" \in Step
      /\ "startTimestamp" \in Step /\ "markTimestamp" \in Step /\ "startTimebase" \in Step
      /\ "markTimebase" \in Step
  BY DEF Step
<1>d. \A r \in Registers, b \in BOOLEAN :
        /\ [r EXCEPT !.overflow = b] \in Registers
        /\ [r EXCEPT !.interrupt = b] \in Registers
        /\ [r EXCEPT !.counting = b] \in Registers
        /\ [[r EXCEPT !.count = r.period, !.prescale = r.divider]
              EXCEPT !.counting = TRUE] \in Registers
  <2> SUFFICES ASSUME NEW r \in Registers, NEW b \in BOOLEAN
               PROVE  /\ [r EXCEPT !.overflow = b] \in Registers
                      /\ [r EXCEPT !.interrupt = b] \in Registers
                      /\ [r EXCEPT !.counting = b] \in Registers
                      /\ [[r EXCEPT !.count = r.period, !.prescale = r.divider]
                            EXCEPT !.counting = TRUE] \in Registers
    BY Zenon
  <2>1. [r EXCEPT !.count = r.period, !.prescale = r.divider] \in Registers
    BY RegisterUpdates, Zenon
  <2>2. \A q \in Registers, on \in BOOLEAN : [q EXCEPT !.counting = on] \in Registers
    BY RegisterUpdates, Zenon
  <2> QED BY <2>1, <2>2, RegisterUpdates, Zenon
<1>1. CASE InitCall
  <2>1. call' \in Call
    BY <1>1, PlatformAssumption DEF InitCall, Call, Step
  <2> QED BY <1>1, <1>a, <2>1, TypePartsNext DEF InitCall, timebase, timestamp
<1>2. CASE InitTimebase
  <2>1. CASE Timebase!InitTimer(call.timebase)
    <3>1. /\ timebaseReg' = Timebase!InitialRegisters(call.timebase)
          /\ timebaseTimer' = [timebaseTimer EXCEPT !.state = "STOPPED"]
          /\ timebasePast' = [config |-> call.timebase, elapsed |-> 0]
          /\ Timebase!AcceptsConfig(call.timebase)
      BY <2>1 DEF Timebase!InitTimer, Timebase!MarkStopped
    <3>2. timebasePast' \in TimebasePast /\ timebaseTimer' \in Handle
      BY <1>a, <3>1, HandleUpdates DEF TimebasePast, Call
    <3>3. /\ call' \in Call /\ ticks' \in TickCount
          /\ UNCHANGED <<timestampTimer, timestampReg, timestampPast, irq, isr, sample>>
      <4>1. \/ /\ ticks' = [behind |-> 0, missed |-> FALSE]
               /\ call' = [call EXCEPT !.pc = "initTimestamp"]
            \/ call' = [call EXCEPT !.pc = "idle", !.result = "FAILED"] /\ UNCHANGED ticks
        BY <1>2, Zenon DEF InitTimebase, Goto, Return
      <4>2. UNCHANGED <<timestampTimer, timestampReg, timestampPast, irq, isr, sample>>
        BY <1>2, Zenon DEF InitTimebase, timestamp
      <4>3. [behind |-> 0, missed |-> FALSE] \in TickCount
        BY DEF TickCount
      <4> QED BY <1>a, <1>b, <1>c, <4>1, <4>2, <4>3, Zenon
    <3> QED BY <1>a, <3>1, <3>2, <3>3, InitialTyped, TypePartsNext
  <2>2. CASE Return("FAILED") /\ UNCHANGED <<timebase, ticks>>
    <3>1. UNCHANGED <<timebaseTimer, timebaseReg, timebasePast, ticks, timestampTimer,
                      timestampReg, timestampPast, irq, isr, sample>>
      BY <1>2, <2>2, Zenon DEF InitTimebase, timebase, timestamp
    <3>2. call' \in Call
      BY <1>b, <2>2 DEF Return
    <3> QED BY <1>a, <3>1, <3>2, TypePartsNext
  <2> QED BY <1>2, <2>1, <2>2, Zenon DEF InitTimebase
<1>3. CASE InitTimestamp
  <2>a. UNCHANGED <<timebaseTimer, timebaseReg, timebasePast, irq, isr, ticks, sample>>
    BY <1>3, Zenon DEF InitTimestamp, timebase
  <2>b. call' \in Call
    <3>1. \/ call' = [call EXCEPT !.pc = "enableVector"]
          \/ call' = [call EXCEPT !.pc = "idle", !.result = "FAILED"]
      BY <1>3, Zenon DEF InitTimestamp, Goto, Return
    <3> QED BY <1>b, <1>c, <3>1, Zenon
  <2>1. CASE Timestamp!InitTimer(call.timestamp)
    <3>1. /\ timestampReg' = Timestamp!InitialRegisters(call.timestamp)
          /\ timestampTimer' = [timestampTimer EXCEPT !.state = "STOPPED"]
          /\ timestampPast' = [config |-> call.timestamp, elapsed |-> 0]
          /\ Timestamp!AcceptsConfig(call.timestamp)
      BY <2>1 DEF Timestamp!InitTimer, Timestamp!MarkStopped
    <3>2. timestampPast' \in TimestampPast /\ timestampTimer' \in Handle
      BY <1>a, <3>1, HandleUpdates DEF TimestampPast, Call
    <3> QED BY <1>a, <2>a, <2>b, <3>1, <3>2, InitialTyped, TypePartsNext
  <2>2. CASE UNCHANGED <<timestampTimer, timestampReg, timestampPast>>
    BY <1>a, <2>a, <2>b, <2>2, TypePartsNext
  <2> QED BY <1>3, <2>1, <2>2, Zenon DEF InitTimestamp, timestamp
<1>4. CASE EnableVector
  <2>1. irq' \in Irq /\ call' \in Call
    BY <1>4, <1>a, <1>b DEF EnableVector, Goto, Irq, Step
  <2> QED BY <1>4, <1>a, <2>1, TypePartsNext DEF EnableVector, timebase, timestamp
<1>5. CASE EnableInterrupt
  <2>1. call' \in Call
    <3>1. \/ call' = [call EXCEPT !.pc = "startTimestamp"]
          \/ call' = [call EXCEPT !.pc = "idle", !.result = "FAILED"]
      BY <1>5, Zenon DEF EnableInterrupt, Goto, Return
    <3> QED BY <1>b, <1>c, <3>1, Zenon
  <2>2. timebaseReg' \in Registers /\ UNCHANGED <<timebaseTimer, timebasePast>>
    BY <1>5, <1>a, <1>d, Zenon DEF EnableInterrupt, Timebase!SetInterrupt, timebase
  <2> QED BY <1>5, <1>a, <2>1, <2>2, TypePartsNext DEF EnableInterrupt, timestamp
<1>6. CASE StartTimestamp
  <2>1. call' \in Call
    <3>1. \/ call' = [call EXCEPT !.pc = "markTimestamp"]
          \/ call' = [call EXCEPT !.pc = "idle", !.result = "FAILED"]
      BY <1>6, Zenon DEF StartTimestamp, Goto, Return
    <3> QED BY <1>b, <1>c, <3>1, Zenon
  <2>2. timebaseReg' \in Registers /\ irq' \in Irq
        /\ UNCHANGED <<timebaseTimer, timebasePast, isr, ticks, sample>>
    <3>1. /\ \/ timebaseReg' = timebaseReg /\ irq' = irq
             \/ /\ timebaseReg' = [timebaseReg EXCEPT !.interrupt = FALSE]
                /\ irq' = [irq EXCEPT !.enabled = FALSE]
          /\ UNCHANGED <<timebaseTimer, timebasePast, isr, ticks, sample>>
      BY <1>6, Zenon DEF StartTimestamp, Timebase!SetInterrupt, timebase
    <3>2. [irq EXCEPT !.enabled = FALSE] \in Irq
      BY <1>a DEF Irq
    <3> QED BY <1>a, <1>d, <3>1, <3>2, Zenon
  <2>3. timestampReg' \in Registers
    <3>1. \/ timestampReg' = [[timestampReg EXCEPT !.count = timestampReg.period,
                                   !.prescale = timestampReg.divider] EXCEPT !.counting = TRUE]
          \/ timestampReg' = timestampReg
      BY <1>6, Zenon DEF StartTimestamp, Timestamp!StartCounter, Timestamp!Reloaded, timestamp
    <3> QED BY <1>a, <1>d, <3>1, Zenon
  <2>4. timestampTimer' \in Handle /\ timestampPast' \in TimestampPast
    <3>1. \/ /\ timestampTimer' = [timestampTimer EXCEPT !.next = "RUNNING"]
             /\ timestampPast' = [timestampPast EXCEPT !.elapsed = 0]
          \/ timestampTimer' = timestampTimer /\ timestampPast' = timestampPast
      BY <1>6, Zenon DEF StartTimestamp, Timestamp!StartCounter, timestamp
    <3>2. [timestampPast EXCEPT !.elapsed = 0] \in TimestampPast
      BY <1>a DEF TimestampPast
    <3> QED BY <1>a, <3>1, <3>2, HandleUpdates, Zenon
  <2> QED BY <1>a, <2>1, <2>2, <2>3, <2>4, TypePartsNext
<1>7. CASE MarkTimestamp
  <2>1. timestampTimer' \in Handle /\ call' \in Call
    BY <1>7, <1>a, <1>b, HandleUpdates
       DEF MarkTimestamp, Timestamp!RecordState, Timestamp!MarkNext, Goto, Step
  <2> QED BY <1>7, <1>a, <2>1, TypePartsNext
    DEF MarkTimestamp, Timestamp!RecordState, timebase
<1>8. CASE StartTimebase
  <2>1. call' \in Call
    <3>1. \/ call' = [call EXCEPT !.pc = "markTimebase"]
          \/ call' = [call EXCEPT !.pc = "idle", !.result = "FAILED"]
      BY <1>8, Zenon DEF StartTimebase, Goto, Return
    <3> QED BY <1>b, <1>c, <3>1, Zenon
  <2>2. timestampReg' \in Registers /\ irq' \in Irq /\ timestampTimer' \in Handle
        /\ UNCHANGED <<timestampPast, isr, ticks, sample>>
    <3>1. /\ \/ timestampReg' = timestampReg /\ irq' = irq /\ timestampTimer' = timestampTimer
             \/ /\ \/ timestampReg' = [timestampReg EXCEPT !.counting = FALSE]
                   \/ timestampReg' = timestampReg
                /\ irq' = [irq EXCEPT !.enabled = FALSE]
                /\ \/ timestampTimer' = [timestampTimer EXCEPT !.state = "STOPPED"]
                   \/ timestampTimer' = timestampTimer
          /\ UNCHANGED <<timestampPast, isr, ticks, sample>>
      BY <1>8, Zenon
         DEF StartTimebase, Timestamp!StopTimer, Timestamp!MarkStopped, Timestamp!timerVars,
             timestamp
    <3>2. [irq EXCEPT !.enabled = FALSE] \in Irq
      BY <1>a DEF Irq
    <3> QED BY <1>a, <1>d, <3>1, <3>2, HandleUpdates, Zenon
  <2>3. timebaseReg' \in Registers
    <3>1. \/ timebaseReg' = [[timebaseReg EXCEPT !.count = timebaseReg.period,
                                   !.prescale = timebaseReg.divider] EXCEPT !.counting = TRUE]
          \/ timebaseReg' = [timebaseReg EXCEPT !.interrupt = FALSE]
      BY <1>8, Zenon DEF StartTimebase, Timebase!StartCounter, Timebase!Reloaded,
         Timebase!SetInterrupt
    <3> QED BY <1>a, <1>d, <3>1, Zenon
  <2>4. timebaseTimer' \in Handle /\ timebasePast' \in TimebasePast
    <3>1. \/ /\ timebaseTimer' = [timebaseTimer EXCEPT !.next = "RUNNING"]
             /\ timebasePast' = [timebasePast EXCEPT !.elapsed = 0]
          \/ timebaseTimer' = timebaseTimer /\ timebasePast' = timebasePast
      BY <1>8, Zenon DEF StartTimebase, Timebase!StartCounter, Timebase!SetInterrupt
    <3>2. [timebasePast EXCEPT !.elapsed = 0] \in TimebasePast
      BY <1>a DEF TimebasePast
    <3> QED BY <1>a, <3>1, <3>2, HandleUpdates, Zenon
  <2> QED BY <1>a, <2>1, <2>2, <2>3, <2>4, TypePartsNext
<1>9. CASE MarkTimebase
  <2>1. timebaseTimer' \in Handle /\ call' \in Call
    BY <1>9, <1>a, <1>b, HandleUpdates
       DEF MarkTimebase, Timebase!RecordState, Timebase!MarkNext, Return
  <2> QED BY <1>9, <1>a, <2>1, TypePartsNext
    DEF MarkTimebase, Timebase!RecordState, timestamp
<1>10. CASE GetTimestamp
  <2>1. sample' \in Sample
    BY <1>10, <1>a, PlatformAssumption DEF GetTimestamp, Sample, Registers
  <2> QED BY <1>10, <1>a, <2>1, TypePartsNext DEF GetTimestamp, timebase, timestamp
<1>11. CASE IsrEnter
  <2>1. irq' \in Irq /\ ticks' \in TickCount
    <3>1. [irq EXCEPT !.blocked = TRUE] \in Irq
      BY <1>a DEF Irq
    <3> QED BY <1>11, <1>a, <3>1, TickUpdates, Zenon DEF IsrEnter
  <2> QED BY <1>11, <1>a, <2>1, TypePartsNext DEF IsrEnter, timebase, timestamp
<1>12. CASE ClearFlag
  <2>1. timebaseReg' \in Registers /\ UNCHANGED <<timebaseTimer, timebasePast>>
    BY <1>12, <1>a, <1>d, Zenon DEF ClearFlag, Timebase!ClearOverflowFlag, timebase
  <2> QED BY <1>12, <1>a, <2>1, TypePartsNext DEF ClearFlag, timestamp
<1>13. CASE AcknowledgeGroup
  <2>1. irq' \in Irq
    BY <1>13, <1>a DEF AcknowledgeGroup, Irq
  <2> QED BY <1>13, <1>a, <2>1, TypePartsNext DEF AcknowledgeGroup, timebase, timestamp
<1>14. CASE SetGlobal
  <2>1. irq' \in Irq
    BY <1>14, <1>a DEF SetGlobal, Irq
  <2> QED BY <1>14, <1>a, <2>1, TypePartsNext DEF SetGlobal, timebase, timestamp
<1>15. CASE SystemClock
  <2>1. timebaseReg' \in Registers /\ timestampReg' \in Registers
    BY <1>15, ClockTyped
  <2>2. timebasePast' \in TimebasePast /\ timestampPast' \in TimestampPast
    BY <1>15, <1>a DEF SystemClock, Timebase!Clock, Timestamp!Clock, TimebasePast, TimestampPast
  <2>3. ticks' \in TickCount
    BY <1>15, <1>a, TickUpdates, Zenon DEF SystemClock, CountedTicks
  <2>4. sample' \in Sample
    BY <1>15, <1>a, PlatformAssumption DEF SystemClock, Measured, Sample
  <2>5. UNCHANGED <<timebaseTimer, timestampTimer, call, irq, isr>>
    BY <1>15 DEF SystemClock, Timebase!Clock, Timestamp!Clock
  <2> QED BY <1>a, <2>1, <2>2, <2>3, <2>4, <2>5, TypePartsNext
<1>16. CASE UNCHANGED vars
  BY <1>16, <1>a, TypePartsNext DEF vars, timebase, timestamp
<1> QED
  BY <1>1, <1>2, <1>3, <1>4, <1>5, <1>6, <1>7, <1>8, <1>9, <1>10, <1>11, <1>12, <1>13,
     <1>14, <1>15, <1>16 DEF Next, InitStep

-----------------------------------------------------------------------------
(* The services *)

LEMMA CallMoves ==
  ASSUME call \in Call
  PROVE  /\ \A p : Goto(p) => call'.pc = p
         /\ \A r : Return(r) => call'.pc = "idle" /\ call'.result = r
<1>1. ASSUME NEW p, Goto(p) PROVE call'.pc = p
  BY <1>1 DEF Goto, Call
<1>2. ASSUME NEW r, Return(r) PROVE call'.pc = "idle" /\ call'.result = r
  BY <1>2 DEF Return, Call
<1> QED BY <1>1, <1>2, Zenon

LEMMA ServiceInit == Init => ServiceInv
  BY DEF Init, IdleCall, Timebase!TimerInit, Timestamp!TimerInit, ServiceInv, AllUp, AllDown,
     GatesAre

\* Which action leaves a step of PLATFORM_init() and where it goes decides; the tail of the
\* proof are the actions that touch neither the handles nor the gates.
LEMMA ServiceStep == TypeOK /\ ServiceInv /\ [Next]_vars => ServiceInv'
<1> SUFFICES ASSUME TypeOK, ServiceInv, [Next]_vars PROVE ServiceInv'
  OBVIOUS
<1> USE DEF ServiceInv, AllUp, AllDown, BothStopped, GatesAre, TimebaseIs, TimestampIs
<1>a. /\ timebaseTimer \in Handle /\ timebaseReg \in Registers
      /\ timestampTimer \in Handle /\ timestampReg \in Registers
      /\ call \in Call /\ irq \in Irq
  BY TypeParts
<1>b. /\ \A p : Goto(p) => call'.pc = p
      /\ \A r : Return(r) => call'.pc = "idle" /\ call'.result = r
  BY <1>a, CallMoves
<1>1. CASE InitCall
  BY <1>1 DEF InitCall, timebase, timestamp
<1>2. CASE InitTimebase
  <2>1. CASE Timebase!InitTimer(call.timebase) /\ Goto("initTimestamp")
    <3>1. /\ timebaseReg'.interrupt = FALSE
          /\ timebaseTimer' = [timebaseTimer EXCEPT !.state = "STOPPED"]
          /\ timebaseTimer.state # "RUNNING"
      BY <2>1 DEF Timebase!InitTimer, Timebase!MarkStopped, Timebase!InitialRegisters,
         Timebase!Configured, Timebase!Reloaded, Timebase!MayInit
    <3>2. /\ call.pc = "initTimebase" /\ call'.pc = "initTimestamp"
          /\ UNCHANGED <<timestampTimer, irq>>
      BY <1>b, <1>2, <2>1 DEF InitTimebase, timestamp
    <3> QED BY <1>a, <3>1, <3>2 DEF Handle
  <2>2. CASE Return("FAILED") /\ UNCHANGED <<timebase, ticks>>
    <3>1. /\ call.pc = "initTimebase" /\ call'.pc = "idle" /\ call'.result = "FAILED"
          /\ UNCHANGED <<timebaseTimer, timebaseReg, timestampTimer, irq>>
      BY <1>b, <1>2, <2>2 DEF InitTimebase, timebase, timestamp
    <3> QED BY <3>1
  <2> QED BY <1>2, <2>1, <2>2, Zenon DEF InitTimebase
<1>3. CASE InitTimestamp
  <2>1. CASE Timestamp!InitTimer(call.timestamp) /\ Goto("enableVector")
    <3>1. /\ timestampTimer' = [timestampTimer EXCEPT !.state = "STOPPED"]
          /\ UNCHANGED <<timebaseTimer, timebaseReg, irq>>
          /\ call.pc = "initTimestamp" /\ call'.pc = "enableVector"
      BY <1>b, <1>3, <2>1 DEF InitTimestamp, timebase, Timestamp!InitTimer, Timestamp!MarkStopped
    <3> QED BY <1>a, <3>1 DEF Handle
  <2>2. CASE Return("FAILED") /\ UNCHANGED timestamp
    <3>1. /\ call.pc = "initTimestamp" /\ call'.pc = "idle" /\ call'.result = "FAILED"
          /\ UNCHANGED <<timebaseTimer, timebaseReg, timestampTimer, irq>>
      BY <1>b, <1>3, <2>2 DEF InitTimestamp, timebase, timestamp
    <3> QED BY <3>1
  <2> QED BY <1>3, <2>1, <2>2, Zenon DEF InitTimestamp
<1>4. CASE EnableVector
  <2>1. /\ call.pc = "enableVector" /\ call'.pc = "enableInterrupt"
        /\ irq'.enabled = TRUE
        /\ UNCHANGED <<timebaseTimer, timebaseReg, timestampTimer>>
    BY <1>a, <1>b, <1>4 DEF EnableVector, timebase, timestamp, Irq
  <2> QED BY <2>1
<1>5. CASE EnableInterrupt
  <2>1. /\ call.pc = "enableInterrupt" /\ Timebase!Initialized
        /\ UNCHANGED <<timestampTimer, irq>>
    BY <1>5 DEF EnableInterrupt, timestamp, Timebase!Initialized
  <2>2. /\ timebaseReg' = [timebaseReg EXCEPT !.interrupt = TRUE]
        /\ call'.pc = "startTimestamp" /\ UNCHANGED timebaseTimer
    BY <1>b, <1>5, <2>1, Zenon DEF EnableInterrupt, Timebase!SetInterrupt
  <2> QED BY <1>a, <2>1, <2>2 DEF Registers
<1>6. CASE StartTimestamp
  <2>1. call.pc = "startTimestamp" /\ Timestamp!MayRun
    BY <1>6 DEF StartTimestamp, Timestamp!MayRun
  <2>2. /\ timestampTimer' = [timestampTimer EXCEPT !.next = "RUNNING"]
        /\ call'.pc = "markTimestamp" /\ UNCHANGED <<timebaseTimer, timebaseReg, irq>>
    BY <1>b, <1>6, <2>1, Zenon DEF StartTimestamp, Timestamp!StartCounter, timebase
  <2> QED BY <1>a, <2>1, <2>2 DEF Handle
<1>7. CASE MarkTimestamp
  <2>1. /\ call.pc = "markTimestamp" /\ call'.pc = "startTimebase"
        /\ timestampTimer' = [state |-> timestampTimer.next, next |-> "none"]
        /\ UNCHANGED <<timebaseTimer, timebaseReg, irq>>
    BY <1>b, <1>7 DEF MarkTimestamp, Timestamp!RecordState, Timestamp!MarkNext, timebase
  <2> QED BY <2>1
<1>8. CASE StartTimebase
  <2>1. call.pc = "startTimebase" /\ Timebase!MayRun
    BY <1>8 DEF StartTimebase, Timebase!MayRun
  <2>2. /\ timebaseTimer' = [timebaseTimer EXCEPT !.next = "RUNNING"]
        /\ timebaseReg' = [[timebaseReg EXCEPT !.count = timebaseReg.period,
                                   !.prescale = timebaseReg.divider] EXCEPT !.counting = TRUE]
        /\ call'.pc = "markTimebase" /\ UNCHANGED <<timestampTimer, irq>>
    BY <1>b, <1>8, <2>1, Zenon
       DEF StartTimebase, Timebase!StartCounter, Timebase!Reloaded, timestamp
  <2> QED BY <1>a, <2>1, <2>2 DEF Handle, Registers
<1>9. CASE MarkTimebase
  <2>1. /\ call.pc = "markTimebase" /\ call'.pc = "idle" /\ call'.result = "OK"
        /\ timebaseTimer' = [state |-> timebaseTimer.next, next |-> "none"]
        /\ UNCHANGED <<timestampTimer, timebaseReg, irq>>
    BY <1>b, <1>9 DEF MarkTimebase, Timebase!RecordState, Timebase!MarkNext, timestamp
  <2> QED BY <2>1
<1>10. ASSUME UNCHANGED <<timebaseTimer, timestampTimer, call>>,
              timebaseReg'.interrupt = timebaseReg.interrupt, irq'.enabled = irq.enabled
       PROVE  ServiceInv'
  BY <1>10
<1>11. CASE GetTimestamp \/ UNCHANGED vars
  BY <1>10, <1>11 DEF GetTimestamp, vars, timebase, timestamp
<1>12. CASE IsrEnter \/ AcknowledgeGroup \/ SetGlobal
  <2>1. UNCHANGED <<timebaseTimer, timestampTimer, timebaseReg, call>>
    BY <1>12, Zenon DEF IsrEnter, AcknowledgeGroup, SetGlobal, timebase, timestamp
  <2>2. irq'.enabled = irq.enabled
    BY <1>12, <1>a DEF IsrEnter, AcknowledgeGroup, SetGlobal, Irq
  <2> QED BY <1>10, <2>1, <2>2
<1>13. CASE ClearFlag
  <2>1. /\ UNCHANGED <<timebaseTimer, timestampTimer, irq, call>>
        /\ timebaseReg' = timebaseReg \/ timebaseReg' = [timebaseReg EXCEPT !.overflow = FALSE]
    BY <1>13, Zenon DEF ClearFlag, Timebase!ClearOverflowFlag, timebase, timestamp
  <2> QED BY <1>a, <1>10, <2>1 DEF Registers
<1>14. CASE SystemClock
  <2>1. UNCHANGED <<timebaseTimer, timestampTimer, irq, call>>
    BY <1>14 DEF SystemClock, Timebase!Clock, Timestamp!Clock
  <2>2. timebaseReg'.interrupt = timebaseReg.interrupt
    BY <1>14, <1>a DEF SystemClock, Timebase!Clock, Timebase!Counted, Timebase!Reloaded, Registers
  <2> QED BY <1>10, <2>1, <2>2
<1> QED
  BY <1>1, <1>2, <1>3, <1>4, <1>5, <1>6, <1>7, <1>8, <1>9, <1>11, <1>12, <1>13, <1>14, Zenon
     DEF Next, InitStep

-----------------------------------------------------------------------------
(* Ticks *)

LEMMA TickInit == Init => TickInv
  BY DEF Init, TickInv, OneTickPerPeriod, Timebase!TimerInit, Timebase!Initialized

\* The actions that leave what the tick count relates alone.
LEMMA TickFrame ==
  ASSUME TickInv, timebaseReg'.overflow = timebaseReg.overflow, UNCHANGED ticks,
         isr' = isr \/ (isr = "acknowledge" /\ isr' = "none"),
         Timebase!Initialized' => Timebase!Initialized
  PROVE  TickInv'
  BY DEF TickInv, OneTickPerPeriod

LEMMA TickStep == TypeOK /\ ServiceInv /\ TickInv /\ [Next]_vars => TickInv'
<1> SUFFICES ASSUME TypeOK, ServiceInv, TickInv, [Next]_vars PROVE TickInv'
  OBVIOUS
<1>a. /\ timebaseTimer \in Handle /\ timebaseReg \in Registers /\ ticks \in TickCount
  BY TypeParts
<1>1. CASE InitTimebase
  <2>1. CASE Timebase!InitTimer(call.timebase) /\ ticks' = [behind |-> 0, missed |-> FALSE]
    <3>1. timebaseReg'.overflow = FALSE /\ isr = "none" /\ isr' = "none"
      BY <1>1, <2>1 DEF InitTimebase, Foreground, Timebase!InitTimer,
         Timebase!InitialRegisters, Timebase!Configured, Timebase!Reloaded
    <3> QED BY <2>1, <3>1 DEF TickInv, OneTickPerPeriod
  <2>2. CASE UNCHANGED <<timebase, ticks>>
    <3>1. UNCHANGED <<timebaseTimer, timebaseReg, ticks, isr>>
      BY <1>1, <2>2 DEF InitTimebase, timebase
    <3> QED BY <3>1, TickFrame DEF Timebase!Initialized
  <2> QED BY <1>1, <2>1, <2>2, Zenon DEF InitTimebase
<1>2. CASE \/ InitCall \/ InitTimestamp \/ EnableVector \/ MarkTimestamp \/ GetTimestamp
           \/ SetGlobal \/ UNCHANGED vars
  <2>1. UNCHANGED <<timebaseTimer, timebaseReg, ticks, isr>>
    BY <1>2, Zenon DEF InitCall, InitTimestamp, EnableVector, MarkTimestamp, GetTimestamp,
       SetGlobal, vars, timebase
  <2> QED BY <2>1, TickFrame DEF Timebase!Initialized
<1>3. CASE EnableInterrupt \/ StartTimestamp
  <2>1. /\ UNCHANGED <<timebaseTimer, ticks, isr>>
        /\ \/ timebaseReg' = timebaseReg
           \/ \E on \in BOOLEAN : timebaseReg' = [timebaseReg EXCEPT !.interrupt = on]
    BY <1>3, Zenon DEF EnableInterrupt, StartTimestamp, Timebase!SetInterrupt, timebase
  <2>2. timebaseReg'.overflow = timebaseReg.overflow
    BY <1>a, <2>1 DEF Registers
  <2> QED BY <2>1, <2>2, TickFrame DEF Timebase!Initialized
<1>4. CASE StartTimebase
  <2>1. call.pc = "startTimebase" /\ Timebase!MayRun
    BY <1>4 DEF StartTimebase, Timebase!MayRun, ServiceInv, TimebaseIs
  <2>2. /\ timebaseTimer' = [timebaseTimer EXCEPT !.next = "RUNNING"]
        /\ timebaseReg' = [[timebaseReg EXCEPT !.count = timebaseReg.period,
                                   !.prescale = timebaseReg.divider] EXCEPT !.counting = TRUE]
        /\ UNCHANGED <<ticks, isr>>
    BY <1>4, <2>1, Zenon DEF StartTimebase, Timebase!StartCounter, Timebase!Reloaded
  <2>3. /\ timebaseReg'.overflow = timebaseReg.overflow
        /\ Timebase!Initialized
    BY <1>a, <2>1, <2>2 DEF Registers, Timebase!MayRun, Timebase!Initialized
  <2> QED BY <2>2, <2>3, TickFrame
<1>5. CASE MarkTimebase
  <2>1. UNCHANGED <<timebaseReg, ticks, isr>> /\ Timebase!Initialized
    BY <1>5 DEF MarkTimebase, Timebase!RecordState, ServiceInv, TimebaseIs, Timebase!Initialized
  <2> QED BY <2>1, TickFrame
<1>6. CASE AcknowledgeGroup
  <2>1. UNCHANGED <<timebaseTimer, timebaseReg, ticks>> /\ isr = "acknowledge" /\ isr' = "none"
    BY <1>6 DEF AcknowledgeGroup, timebase
  <2> QED BY <2>1, TickFrame DEF Timebase!Initialized
<1>7. CASE IsrEnter
  <2>1. /\ isr = "none" /\ isr' = "clearFlag" /\ timebaseReg.overflow
        /\ ticks' = [ticks EXCEPT !.behind = ticks.behind - 1]
        /\ UNCHANGED <<timebaseTimer, timebaseReg>>
    BY <1>7, Zenon DEF IsrEnter, Requested, timebase
  <2>2. ticks'.behind = ticks.behind - 1 /\ ticks'.missed = ticks.missed
    BY <1>a, <2>1 DEF TickCount
  <2> QED BY <1>a, <2>1, <2>2 DEF TickInv, OneTickPerPeriod, Timebase!Initialized, TickCount
<1>8. CASE ClearFlag
  <2>1. /\ isr = "clearFlag" /\ isr' = "acknowledge" /\ UNCHANGED <<timebaseTimer, ticks>>
    BY <1>8, Zenon DEF ClearFlag, Timebase!ClearOverflowFlag, timebase
  <2>2. ASSUME Timebase!Initialized PROVE timebaseReg'.overflow = FALSE
    <3>1. timebaseReg' = [timebaseReg EXCEPT !.overflow = FALSE]
      BY <1>8, <2>2, Zenon DEF ClearFlag, Timebase!ClearOverflowFlag
    <3> QED BY <1>a, <3>1 DEF Registers
  <2> QED BY <1>a, <2>1, <2>2 DEF TickInv, OneTickPerPeriod, Timebase!Initialized, TickCount
<1>9. CASE SystemClock
  <2>1. /\ UNCHANGED <<timebaseTimer, isr>>
        /\ ticks' = CountedTicks
        /\ timebaseReg' = IF timebaseReg.counting THEN Timebase!Counted ELSE timebaseReg
    BY <1>9 DEF SystemClock, Timebase!Clock
  <2>2. CASE Timebase!Overflows
    <3>1. timebaseReg'.overflow = TRUE
      BY <1>a, <2>1, <2>2
         DEF Timebase!Overflows, Timebase!Counted, Timebase!Reloaded, Registers
    <3>2. CASE ~Timebase!Initialized
      BY <2>1, <3>1, <3>2 DEF TickInv, OneTickPerPeriod, Timebase!Initialized
    <3>3. CASE Timebase!Initialized /\ timebaseReg.overflow
      <4>1. ticks' = [ticks EXCEPT !.missed = TRUE]
        BY <2>1, <2>2, <3>3, Zenon DEF CountedTicks
      <4>2. ticks'.missed
        BY <1>a, <4>1 DEF TickCount
      <4> QED BY <3>1, <4>2 DEF TickInv, OneTickPerPeriod
    <3>4. CASE Timebase!Initialized /\ ~timebaseReg.overflow
      <4>1. ticks' = [ticks EXCEPT !.behind = ticks.behind + 1]
        BY <2>1, <2>2, <3>4, Zenon DEF CountedTicks
      <4>2. ticks'.behind = ticks.behind + 1 /\ ticks'.missed = ticks.missed
        BY <1>a, <4>1 DEF TickCount
      <4>3. isr # "clearFlag" /\ isr' = isr
        BY <2>1, <3>4 DEF TickInv
      <4> QED BY <1>a, <3>1, <3>4, <4>2, <4>3 DEF TickInv, OneTickPerPeriod, TickCount
    <3> QED BY <3>2, <3>3, <3>4
  <2>3. CASE ~Timebase!Overflows
    <3>1. UNCHANGED ticks
      BY <2>1, <2>3, Zenon DEF CountedTicks
    <3>2. timebaseReg'.overflow = timebaseReg.overflow
      <4>1. \/ timebaseReg' = timebaseReg
            \/ timebaseReg' = [timebaseReg EXCEPT !.prescale = timebaseReg.prescale - 1]
            \/ timebaseReg' = [timebaseReg EXCEPT !.count = timebaseReg.count - 1,
                                                  !.prescale = timebaseReg.divider]
        <5>1. /\ timebaseReg.counting \in BOOLEAN
              /\ timebaseReg.prescale \in Nat /\ timebaseReg.count \in Nat
          BY <1>a, PlatformAssumption DEF Registers
        <5>2. ~timebaseReg.counting \/ timebaseReg.prescale > 0 \/ timebaseReg.count > 0
          BY <2>3, <5>1 DEF Timebase!Overflows
        <5> QED BY <2>1, <5>2, Zenon DEF Timebase!Counted
      <4> QED BY <1>a, <4>1 DEF Registers
    <3> QED BY <2>1, <3>1, <3>2, TickFrame DEF Timebase!Initialized
  <2> QED BY <2>2, <2>3
<1> QED
  BY <1>1, <1>2, <1>3, <1>4, <1>5, <1>6, <1>7, <1>8, <1>9, Zenon DEF Next, InitStep

-----------------------------------------------------------------------------
(* Timestamps *)

LEMMA SampleInit == Init => CounterInv /\ Measuring
  BY DEF Init, NoSample, Timestamp!TimerInit, CounterInv, Measuring, Timestamp!Initialized

\* The actions that leave the timestamp timer and the measurement alone.
LEMMA SampleFrame ==
  ASSUME CounterInv, Measuring,
         UNCHANGED <<timestampTimer, timestampReg, timestampPast, sample>>
  PROVE  CounterInv' /\ Measuring'
  BY DEF CounterInv, Measuring, Timestamp!Initialized, FreeRunning

\* A counter that is about to be configured or started is not being read.
LEMMA NotMeasured ==
  ASSUME TypeOK, CounterInv, Measuring, timestampTimer.state # "RUNNING",
         timestampTimer.next = "none"
  PROVE  ~sample.taken
<1>1. ~(Timestamp!Initialized /\ timestampReg.counting)
  BY DEF CounterInv
<1> QED BY <1>1 DEF Measuring

LEMMA SampleClock ==
  ASSUME TypeOK, ServiceInv, CounterInv, Measuring, SystemClock
  PROVE  CounterInv' /\ Measuring'
<1>a. /\ timestampTimer \in Handle /\ timestampReg \in Registers /\ timestampPast \in TimestampPast
      /\ sample \in Sample
  BY TypeParts
<1>b. /\ CounterMod \in Nat \ {0} /\ DividerMod \in Nat \ {0}
      /\ timestampReg.counting \in BOOLEAN
      /\ timestampReg.prescale \in Nat /\ timestampReg.count \in Nat
      /\ timestampReg.period \in Nat /\ timestampReg.divider \in Nat
      /\ timestampReg.count < CounterMod
      /\ sample.start \in Nat /\ sample.start < CounterMod /\ sample.elapsed \in Nat
  BY <1>a, PlatformAssumption DEF Registers, Sample
<1>1. /\ UNCHANGED timestampTimer
      /\ timestampReg' = IF timestampReg.counting THEN Timestamp!Counted ELSE timestampReg
      /\ timestampPast'.config = timestampPast.config
      /\ sample' = IF sample.taken THEN Measured ELSE sample
  BY <1>a DEF SystemClock, Timestamp!Clock, TimestampPast
<1>2. /\ timestampReg'.counting = timestampReg.counting
      /\ timestampReg'.period = timestampReg.period /\ timestampReg'.divider = timestampReg.divider
      /\ \/ /\ timestampReg.prescale > 0
            /\ timestampReg'.prescale = timestampReg.prescale - 1
         \/ timestampReg'.prescale = timestampReg.prescale
         \/ timestampReg'.prescale = timestampReg.divider
  BY <1>a, <1>1 DEF Timestamp!Counted, Timestamp!Reloaded, Registers
<1>3. CounterInv'
  BY <1>b, <1>1, <1>2 DEF CounterInv, Timestamp!Initialized
<1>4. ASSUME sample.taken
      PROVE  /\ Timestamp!Initialized' /\ timestampReg'.counting
             /\ FreeRunning' /\ sample'.elapsed < CounterMod =>
                  \/ sample'.start - timestampReg'.count = sample'.elapsed
                  \/ sample'.start - timestampReg'.count = sample'.elapsed - CounterMod
  <2>1. Timestamp!Initialized /\ timestampReg.counting
    BY <1>4 DEF Measuring
  <2>2. Timestamp!Initialized' /\ timestampReg'.counting
    BY <1>1, <1>2, <2>1 DEF Timestamp!Initialized
  <2>3. sample'.start = sample.start /\ sample'.elapsed = sample.elapsed + 1
    BY <1>a, <1>1, <1>4 DEF Measured, Sample
  <2>4. ASSUME FreeRunning', sample'.elapsed < CounterMod
        PROVE  \/ sample'.start - timestampReg'.count = sample'.elapsed
               \/ sample'.start - timestampReg'.count = sample'.elapsed - CounterMod
    <3>1. FreeRunning
      BY <1>1, <2>4 DEF FreeRunning
    <3>2. timestampReg.period = CounterMod - 1 /\ timestampReg.divider = 0
      <4>1. /\ timestampPast.config.periodTicks = CounterMod
            /\ timestampPast.config.clockDivider = 1
        BY <3>1 DEF FreeRunning
      <4>2. /\ timestampReg.period = timestampPast.config.periodTicks - 1
            /\ timestampReg.divider = timestampPast.config.clockDivider - 1
        BY <2>1 DEF CounterInv
      <4> QED BY <1>b, <4>1, <4>2
    <3>3. ~(timestampReg.prescale > 0)
      <4>1. timestampReg.prescale <= timestampReg.divider
        BY <2>1 DEF CounterInv
      <4> QED BY <1>b, <3>2, <4>1
    <3>4. \/ sample.start - timestampReg.count = sample.elapsed
          \/ sample.start - timestampReg.count = sample.elapsed - CounterMod
      <4>1. sample.elapsed < CounterMod
        BY <1>b, <2>3, <2>4
      <4> QED BY <1>4, <3>1, <4>1 DEF Measuring
    <3>5. CASE timestampReg.count > 0
      <4>1. timestampReg' = [timestampReg EXCEPT !.count = timestampReg.count - 1,
                                                 !.prescale = timestampReg.divider]
        BY <1>1, <2>1, <3>3, <3>5, Zenon DEF Timestamp!Counted
      <4>2. timestampReg'.count = timestampReg.count - 1
        BY <1>a, <4>1 DEF Registers
      <4> QED BY <1>b, <2>3, <3>4, <4>2
    <3>6. CASE ~(timestampReg.count > 0)
      <4>1. timestampReg' = [Timestamp!Reloaded(timestampReg) EXCEPT !.overflow = TRUE]
        BY <1>1, <2>1, <3>3, <3>6, Zenon DEF Timestamp!Counted
      <4>2. timestampReg'.count = CounterMod - 1 /\ timestampReg.count = 0
        BY <1>a, <1>b, <3>2, <3>6, <4>1 DEF Registers, Timestamp!Reloaded
      <4> QED BY <1>b, <2>3, <2>4, <3>4, <4>2
    <3> QED BY <3>5, <3>6
  <2> QED BY <2>2, <2>4
<1>5. ~sample.taken => ~sample'.taken
  BY <1>1
<1> QED BY <1>3, <1>4, <1>5 DEF Measuring

LEMMA SampleStep ==
  TypeOK /\ ServiceInv /\ CounterInv /\ Measuring /\ [Next]_vars => CounterInv' /\ Measuring'
<1> SUFFICES ASSUME TypeOK, ServiceInv, CounterInv, Measuring, [Next]_vars
             PROVE  CounterInv' /\ Measuring'
  OBVIOUS
<1>a. /\ timestampTimer \in Handle /\ timestampReg \in Registers /\ timestampPast \in TimestampPast
      /\ sample \in Sample /\ call \in Call
  BY TypeParts
<1>b. CASE UNCHANGED <<timestampTimer, timestampReg, timestampPast, sample>>
  BY <1>b, SampleFrame
<1>1. CASE \/ InitCall \/ InitTimebase \/ EnableVector \/ EnableInterrupt \/ MarkTimebase
           \/ IsrEnter \/ ClearFlag \/ AcknowledgeGroup \/ SetGlobal \/ UNCHANGED vars
  <2>1. UNCHANGED <<timestampTimer, timestampReg, timestampPast, sample>>
    BY <1>1, Zenon DEF InitCall, InitTimebase, EnableVector, EnableInterrupt, MarkTimebase,
       IsrEnter, ClearFlag, AcknowledgeGroup, SetGlobal, vars, timestamp
  <2> QED BY <2>1, SampleFrame
<1>2. CASE InitTimestamp
  <2>1. CASE Timestamp!InitTimer(call.timestamp)
    <3>1. /\ timestampReg' = Timestamp!InitialRegisters(call.timestamp)
          /\ timestampTimer' = [timestampTimer EXCEPT !.state = "STOPPED"]
          /\ timestampPast' = [config |-> call.timestamp, elapsed |-> 0]
          /\ Timestamp!AcceptsConfig(call.timestamp)
          /\ call.pc = "initTimestamp" /\ sample' = sample
      BY <1>2, <2>1 DEF InitTimestamp, Timestamp!InitTimer, Timestamp!MarkStopped
    <3>2. timestampTimer.state # "RUNNING" /\ timestampTimer.next = "none"
      BY <3>1 DEF ServiceInv, AllDown
    <3>3. ~sample.taken
      BY <3>2, NotMeasured
    <3>4. timestampTimer'.state = "STOPPED" /\ timestampTimer'.next = "none"
      BY <1>a, <3>1, <3>2 DEF Handle
    <3>5. /\ timestampReg'.counting = FALSE
          /\ timestampReg'.period = Timestamp!PeriodRegister(call.timestamp.periodTicks)
          /\ timestampReg'.divider = Timestamp!DividerRegister(call.timestamp.clockDivider)
          /\ timestampReg'.prescale = timestampReg'.divider
      BY <3>1 DEF Timestamp!InitialRegisters, Timestamp!Configured, Timestamp!Reloaded
    <3>6. /\ timestampReg'.period = call.timestamp.periodTicks - 1
          /\ timestampReg'.divider = call.timestamp.clockDivider - 1
          /\ timestampReg'.divider \in Nat
      BY <3>1, <3>5, RegistersExact, PlatformAssumption
         DEF Timestamp!PeriodRegister, Timestamp!DividerRegister, Timestamp!AcceptsConfig
    <3> QED BY <3>1, <3>3, <3>4, <3>5, <3>6 DEF CounterInv, Measuring
  <2>2. CASE UNCHANGED timestamp
    BY <1>2, <2>2, SampleFrame DEF InitTimestamp, timestamp
  <2> QED BY <1>2, <2>1, <2>2, Zenon DEF InitTimestamp
<1>3. CASE StartTimestamp
  <2>1. call.pc = "startTimestamp" /\ sample' = sample
        /\ timestampTimer.state = "STOPPED" /\ timestampTimer.next = "none"
    BY <1>3 DEF StartTimestamp, ServiceInv, BothStopped, TimestampIs
  <2>2. /\ timestampTimer' = [timestampTimer EXCEPT !.next = "RUNNING"]
        /\ timestampReg' = [Timestamp!Reloaded(timestampReg) EXCEPT !.counting = TRUE]
        /\ timestampPast' = [timestampPast EXCEPT !.elapsed = 0]
    BY <1>3, <2>1, Zenon DEF StartTimestamp, Timestamp!StartCounter, Timestamp!MayRun
  <2>3. timestampTimer'.state = "STOPPED" /\ timestampTimer'.next = "RUNNING"
    BY <1>a, <2>1, <2>2 DEF Handle
  <2>4. /\ timestampReg'.counting = TRUE /\ timestampReg'.period = timestampReg.period
        /\ timestampReg'.divider = timestampReg.divider
        /\ timestampReg'.prescale = timestampReg.divider
    BY <1>a, <2>2 DEF Registers, Timestamp!Reloaded
  <2>5. timestampPast'.config = timestampPast.config
    BY <1>a, <2>2 DEF TimestampPast
  <2>6. timestampReg.divider \in Nat
    BY <1>a, PlatformAssumption DEF Registers
  <2>7. ~sample.taken
    BY <2>1, NotMeasured
  <2> QED BY <2>1, <2>3, <2>4, <2>5, <2>6, <2>7 DEF CounterInv, Measuring, Timestamp!Initialized
<1>4. CASE MarkTimestamp
  <2>1. /\ UNCHANGED <<timestampReg, timestampPast, sample>>
        /\ timestampTimer.state = "STOPPED" /\ timestampTimer.next = "RUNNING"
        /\ timestampTimer'.state = "RUNNING" /\ timestampTimer'.next = "none"
    BY <1>4 DEF MarkTimestamp, Timestamp!RecordState, Timestamp!MarkNext, ServiceInv, TimestampIs
  <2> QED BY <2>1 DEF CounterInv, Measuring, Timestamp!Initialized, FreeRunning
<1>5. CASE StartTimebase
  <2>1. UNCHANGED <<timestampTimer, timestampReg, timestampPast, sample>>
    <3>1. Timebase!MayRun
      BY <1>5 DEF StartTimebase, ServiceInv, TimebaseIs, Timebase!MayRun
    <3> QED BY <1>5, <3>1, Zenon DEF StartTimebase, timestamp
  <2> QED BY <2>1, SampleFrame
<1>6. CASE GetTimestamp
  <2>1. /\ Timestamp!Initialized
        /\ UNCHANGED <<timestampTimer, timestampReg, timestampPast>>
        /\ sample'.taken = timestampReg.counting /\ sample'.start = timestampReg.count
        /\ sample'.elapsed = 0
    BY <1>6 DEF GetTimestamp, timestamp
  <2>2. timestampReg.count \in Nat
    BY <1>a, PlatformAssumption DEF Registers
  <2> QED BY <2>1, <2>2 DEF CounterInv, Measuring, Timestamp!Initialized, FreeRunning
<1>7. CASE SystemClock
  BY <1>7, SampleClock
<1> QED
  BY <1>1, <1>2, <1>3, <1>4, <1>5, <1>6, <1>7, Zenon DEF Next, InitStep

-----------------------------------------------------------------------------
(* Theorems *)

\* The inductive invariant holds in every behaviour.
LEMMA PlatformCorrect == Spec => []PlatformInv
<1>1. Init => PlatformInv
  BY InitTyped, ServiceInit, TickInit, SampleInit DEF PlatformInv
<1>2. PlatformInv /\ [Next]_vars => PlatformInv'
  BY TypeStep, ServiceStep, TickStep, SampleStep DEF PlatformInv
<1> QED BY <1>1, <1>2, PTL DEF Spec

\* TypeOK: handles, registers and calls keep their types and widths.
THEOREM PlatformTypeCorrect == Spec => []TypeOK
<1>1. PlatformInv => TypeOK
  BY DEF PlatformInv
<1> QED BY <1>1, PlatformCorrect, PTL

\* ServicesAllOrNone: PLATFORM_init() leaves every time service running or none, whatever
\* configurations it is given and however often it is called.
THEOREM ServicesTogether == Spec => []ServicesAllOrNone
<1>1. PlatformInv => ServicesAllOrNone
  <2> SUFFICES ASSUME PlatformInv, call.pc = "idle" PROVE ServicesAllOrNone
    BY DEF ServicesAllOrNone
  <2>1. AllUp \/ (AllDown /\ call.result # "OK")
    BY DEF PlatformInv, ServiceInv
  <2>2. CASE AllUp
    <3>1. /\ timebaseTimer.state = "RUNNING" /\ timestampTimer.state = "RUNNING"
          /\ timebaseReg.interrupt = TRUE /\ irq.enabled = TRUE
      BY <2>2 DEF AllUp, TimebaseIs, TimestampIs, GatesAre
    <3> QED BY <3>1 DEF ServicesAllOrNone
  <2>3. CASE AllDown /\ call.result # "OK"
    <3>1. /\ timebaseTimer.state # "RUNNING" /\ timestampTimer.state # "RUNNING"
          /\ timebaseReg.interrupt = FALSE /\ irq.enabled = FALSE /\ call.result # "OK"
      BY <2>3 DEF AllDown, GatesAre
    <3> QED BY <3>1 DEF ServicesAllOrNone
  <2> QED BY <2>1, <2>2, <2>3
<1> QED BY <1>1, PlatformCorrect, PTL

\* StartsNeverRefused: the rollback branches of initTimeServices() are never taken.
THEOREM RollbackUnreachable == Spec => []StartsNeverRefused
<1>1. PlatformInv => StartsNeverRefused
  <2> SUFFICES ASSUME PlatformInv PROVE StartsNeverRefused
    OBVIOUS
  <2>1. call.pc \in {"enableInterrupt", "startTimestamp", "startTimebase"} =>
          timebaseTimer = [state |-> "STOPPED", next |-> "none"]
    BY DEF PlatformInv, ServiceInv, BothStopped, TimebaseIs
  <2>2. call.pc = "startTimestamp" => timestampTimer = [state |-> "STOPPED", next |-> "none"]
    BY DEF PlatformInv, ServiceInv, BothStopped, TimestampIs
  <2> QED
    BY <2>1, <2>2
       DEF StartsNeverRefused, Timebase!Initialized, Timestamp!MayRun, Timebase!MayRun
<1> QED BY <1>1, PlatformCorrect, PTL

\* OneTickPerPeriod: a tick is counted for each overflow after the initialisation.
THEOREM TicksExact == Spec => []OneTickPerPeriod
<1>1. PlatformInv => OneTickPerPeriod
  BY DEF PlatformInv, TickInv
<1> QED BY <1>1, PlatformCorrect, PTL

\* A difference that wrapped at most once, reduced by the counter's width.
LEMMA WrappedDifference ==
  ASSUME NEW e \in Nat, e < CounterMod, NEW n \in Int, n = e \/ n = e - CounterMod
  PROVE  n % CounterMod = e
<1>1. CounterMod \in Nat \ {0}
  BY PlatformAssumption
<1>2. e % CounterMod = e
  BY <1>1
<1>3. (e - CounterMod) % CounterMod = e
  BY <1>1
<1> QED BY <1>2, <1>3

\* TimestampMeasuresTime: the difference of two timestamps is the time between them,
\* across a wrap, for every width of the counter.
THEOREM TimestampsExact == Spec => []TimestampMeasuresTime
<1>1. PlatformInv => TimestampMeasuresTime
  <2> SUFFICES ASSUME PlatformInv, sample.taken, FreeRunning, sample.elapsed < CounterMod
               PROVE  (sample.start - timestampReg.count) % CounterMod = sample.elapsed
    BY DEF TimestampMeasuresTime
  <2>1. \/ sample.start - timestampReg.count = sample.elapsed
        \/ sample.start - timestampReg.count = sample.elapsed - CounterMod
    BY DEF PlatformInv, Measuring
  <2>2. sample.elapsed \in Nat /\ sample.start - timestampReg.count \in Int
    <3>1. timestampReg \in Registers /\ sample \in Sample
      BY TypeParts DEF PlatformInv
    <3> QED BY <3>1, PlatformAssumption DEF Registers, Sample
  <2> QED BY <2>1, <2>2, WrappedDifference
<1> QED BY <1>1, PlatformCorrect, PTL
===============================================================================
