---------------------------- MODULE PlatformTime ----------------------------
(***************************************************************************)
(* Time services of the reference platform                                 *)
(* (reference/platform/launchboard_28002x/platform.c): Timer0 interrupts   *)
(* the application once per timebase period, Timer2 counts down freely as  *)
(* a timestamp.  Both handles are static objects of platform.c, so their   *)
(* only users are PLATFORM_init(), PLATFORM_getTimestamp() and             *)
(* PLATFORM_acknowledgeTimebaseInterrupt().                                *)
(*                                                                         *)
(* PLATFORM_init() is split at every HAL call and at the state assignment  *)
(* that ends HAL_CPUTIMER_start(); the clock runs and the ISR preempts     *)
(* between two steps.  The interrupt controller and the application's ISR  *)
(* are outside the repository and modelled from how platform.c uses them.  *)
(***************************************************************************)
EXTENDS Integers

CONSTANTS
  CounterMod, DividerMod,   \* widths of the timers' registers
  TimebaseConfigs,          \* values the user may give gPlatformTimebaseTimerConfig
  TimestampConfigs,         \* values the user may give gPlatformTimestampTimerConfig
  MaxSample                 \* bound: clocks a measurement lasts

VARIABLES
  timebaseTimer, timebaseReg, timebasePast,      \* Timer0
  timestampTimer, timestampReg, timestampPast,   \* Timer2
  call,     \* PLATFORM_init() in progress and its last result
  irq,      \* interrupt controller: vector enabled, group unacknowledged, global
  isr,      \* step of APP_timebaseISR
  ticks,    \* history: overflows the application has not counted; one was missed
  sample    \* history: a timestamp read earlier, clocks and reloads since then

timebase == <<timebaseTimer, timebaseReg, timebasePast>>
timestamp == <<timestampTimer, timestampReg, timestampPast>>
vars == <<timebase, timestamp, call, irq, isr, ticks, sample>>

Timebase == INSTANCE CpuTimer
  WITH timer <- timebaseTimer, reg <- timebaseReg, past <- timebasePast
Timestamp == INSTANCE CpuTimer
  WITH timer <- timestampTimer, reg <- timestampReg, past <- timestampPast

ASSUME PlatformAssumption ==
  /\ CounterMod \in Nat \ {0} /\ DividerMod \in Nat \ {0}
  /\ TimebaseConfigs \subseteq Timebase!Config
  /\ TimestampConfigs \subseteq Timestamp!Config
  /\ MaxSample \in Nat

NoSample == [taken |-> FALSE, start |-> 0, elapsed |-> 0]
IdleCall == [pc |-> "idle", timebase |-> timebasePast.config,
             timestamp |-> timestampPast.config, result |-> "none"]

Init ==
  /\ Timebase!TimerInit /\ Timestamp!TimerInit
  /\ call = IdleCall
  /\ irq = [enabled |-> FALSE, blocked |-> FALSE, global |-> FALSE]
  /\ isr = "none"
  /\ ticks = [behind |-> 0, missed |-> FALSE]
  /\ sample = NoSample

Foreground == isr = "none"
Goto(step) == call' = [call EXCEPT !.pc = step]
Return(result) == call' = [call EXCEPT !.pc = "idle", !.result = result]

-----------------------------------------------------------------------------
(* PLATFORM_init.  CPUTimer_selectClockSource, its first call, writes the same   *)
(* constants at every init() and nothing here reads them: it is left out         *)

InitCall ==
  /\ Foreground /\ call.pc = "idle"
  /\ \E tb \in TimebaseConfigs, ts \in TimestampConfigs :
       call' = [pc |-> "initTimebase", timebase |-> tb, timestamp |-> ts, result |-> "none"]
  /\ UNCHANGED <<timebase, timestamp, irq, isr, ticks, sample>>

InitTimebase ==
  /\ Foreground /\ call.pc = "initTimebase"
  /\ \/ /\ Timebase!InitTimer(call.timebase)
        /\ ticks' = [behind |-> 0, missed |-> FALSE]
        /\ Goto("initTimestamp")
     \/ /\ ~(Timebase!MayInit /\ Timebase!AcceptsConfig(call.timebase))
        /\ Return("FAILED")
        /\ UNCHANGED <<timebase, ticks>>
  /\ UNCHANGED <<timestamp, irq, isr, sample>>

InitTimestamp ==
  /\ Foreground /\ call.pc = "initTimestamp"
  /\ \/ /\ Timestamp!InitTimer(call.timestamp)
        /\ Goto("enableVector")
     \/ /\ ~(Timestamp!MayInit /\ Timestamp!AcceptsConfig(call.timestamp))
        /\ Return("FAILED")
        /\ UNCHANGED timestamp
  /\ UNCHANGED <<timebase, irq, isr, ticks, sample>>

\* Interrupt_register and Interrupt_enable.
EnableVector ==
  /\ Foreground /\ call.pc = "enableVector"
  /\ irq' = [irq EXCEPT !.enabled = TRUE]
  /\ Goto("enableInterrupt")
  /\ UNCHANGED <<timebase, timestamp, isr, ticks, sample>>

\* Mutant: the timer's own interrupt stays off.
SkipsInterrupt ==
  /\ Foreground /\ call.pc = "enableInterrupt"
  /\ Goto("startTimestamp")
  /\ UNCHANGED <<timebase, timestamp, irq, isr, ticks, sample>>

EnableInterrupt ==
  /\ Foreground /\ call.pc = "enableInterrupt"
  /\ IF Timebase!Initialized
     THEN Timebase!SetInterrupt(TRUE) /\ Goto("startTimestamp")
     ELSE Return("FAILED") /\ UNCHANGED timebase
  /\ UNCHANGED <<timestamp, irq, isr, ticks, sample>>

\* A refused start undoes the interrupt and, for the timebase, stops the timestamp
\* as well.  Neither start can be refused (RollbackUnreachable in
\* PlatformTimeProofs), so an undo is one step.
StartTimestamp ==
  /\ Foreground /\ call.pc = "startTimestamp"
  /\ IF Timestamp!MayRun
     THEN /\ Timestamp!StartCounter
          /\ Goto("markTimestamp")
          /\ UNCHANGED <<timebase, irq>>
     ELSE /\ Timebase!SetInterrupt(FALSE)
          /\ irq' = [irq EXCEPT !.enabled = FALSE]
          /\ Return("FAILED")
          /\ UNCHANGED timestamp
  /\ UNCHANGED <<isr, ticks, sample>>

MarkTimestamp ==
  /\ Foreground /\ call.pc = "markTimestamp"
  /\ Timestamp!RecordState
  /\ Goto("startTimebase")
  /\ UNCHANGED <<timebase, irq, isr, ticks, sample>>

StartTimebase ==
  /\ Foreground /\ call.pc = "startTimebase"
  /\ IF Timebase!MayRun
     THEN /\ Timebase!StartCounter
          /\ Goto("markTimebase")
          /\ UNCHANGED <<timestamp, irq>>
     ELSE /\ Timestamp!StopTimer
          /\ Timebase!SetInterrupt(FALSE)
          /\ irq' = [irq EXCEPT !.enabled = FALSE]
          /\ Return("FAILED")
  /\ UNCHANGED <<isr, ticks, sample>>

MarkTimebase ==
  /\ Foreground /\ call.pc = "markTimebase"
  /\ Timebase!RecordState
  /\ Return("OK")
  /\ UNCHANGED <<timestamp, irq, isr, ticks, sample>>

InitStep ==
  \/ InitTimebase \/ InitTimestamp \/ EnableVector \/ EnableInterrupt
  \/ StartTimestamp \/ MarkTimestamp \/ StartTimebase \/ MarkTimebase

-----------------------------------------------------------------------------
(* PLATFORM_getTimestamp *)

\* A caller reads the counter; if it runs, a measurement starts.
GetTimestamp ==
  /\ Timestamp!Initialized
  /\ sample' = [taken |-> timestampReg.counting, start |-> timestampReg.count,
                elapsed |-> 0]
  /\ UNCHANGED <<timebase, timestamp, call, irq, isr, ticks>>

-----------------------------------------------------------------------------
(* The ISR of the application (external): it counts the tick, then calls        *)
(* PLATFORM_acknowledgeTimebaseInterrupt()                                       *)

Requested == timebaseReg.overflow /\ timebaseReg.interrupt /\ irq.enabled

IsrEnter ==
  /\ isr = "none" /\ Requested /\ irq.global /\ ~irq.blocked
  /\ irq' = [irq EXCEPT !.blocked = TRUE]
  /\ ticks' = [ticks EXCEPT !.behind = @ - 1]
  /\ isr' = "clearFlag"
  /\ UNCHANGED <<timebase, timestamp, call, sample>>

\* Its first call: HAL_CPUTIMER_clearOverflowFlag.
ClearFlag ==
  /\ isr = "clearFlag"
  /\ IF Timebase!Initialized THEN Timebase!ClearOverflowFlag ELSE UNCHANGED timebase
  /\ isr' = "acknowledge"
  /\ UNCHANGED <<timestamp, call, irq, ticks, sample>>

\* Mutant: the group is not acknowledged.
KeepsBlocked ==
  /\ isr = "acknowledge"
  /\ isr' = "none"
  /\ UNCHANGED <<timebase, timestamp, call, irq, ticks, sample>>

\* Its second call: Interrupt_clearACKGroup, whatever the first one answered.
AcknowledgeGroup ==
  /\ isr = "acknowledge"
  /\ irq' = [irq EXCEPT !.blocked = FALSE]
  /\ isr' = "none"
  /\ UNCHANGED <<timebase, timestamp, call, ticks, sample>>

\* The firmware opens and closes global interrupts.
SetGlobal ==
  /\ Foreground
  /\ irq' = [irq EXCEPT !.global = ~@]
  /\ UNCHANGED <<timebase, timestamp, call, isr, ticks, sample>>

-----------------------------------------------------------------------------
(* The clock both timers count (external) *)

CountedTicks ==
  IF ~(Timebase!Overflows /\ Timebase!Initialized) THEN ticks
  ELSE IF timebaseReg.overflow THEN [ticks EXCEPT !.missed = TRUE]
  ELSE [ticks EXCEPT !.behind = @ + 1]

Measured == [sample EXCEPT !.elapsed = @ + 1]

SystemClock ==
  /\ sample.elapsed < MaxSample
  /\ Timebase!Clock /\ Timestamp!Clock
  /\ ticks' = CountedTicks
  /\ sample' = IF sample.taken THEN Measured ELSE sample
  /\ UNCHANGED <<call, irq, isr>>

-----------------------------------------------------------------------------
Next ==
  \/ InitCall \/ InitStep
  \/ GetTimestamp
  \/ IsrEnter \/ ClearFlag \/ AcknowledgeGroup
  \/ SetGlobal
  \/ SystemClock

Spec == Init /\ [][Next]_vars

\* An ISR runs to its end, and a request that keeps finding the gates open is
\* served: firmware closes global interrupts only for a while.
FairSpec == Spec /\ WF_vars(ClearFlag \/ AcknowledgeGroup) /\ SF_vars(IsrEnter)

-----------------------------------------------------------------------------
(* Properties *)

\* Handles, registers and calls keep their types.
TypeOK ==
  /\ Timebase!TimerTypeOK /\ Timestamp!TimerTypeOK
  /\ call \in
       [pc : {"idle", "initTimebase", "initTimestamp", "enableVector", "enableInterrupt",
              "startTimestamp", "markTimestamp", "startTimebase", "markTimebase"},
        timebase : Timebase!Config, timestamp : Timestamp!Config,
        result : {"none", "OK", "FAILED"}]
  /\ irq \in [enabled : BOOLEAN, blocked : BOOLEAN, global : BOOLEAN]
  /\ isr \in {"none", "clearFlag", "acknowledge"}
  /\ ticks \in [behind : Int, missed : BOOLEAN]
  /\ sample \in [taken : BOOLEAN, start : 0..CounterMod - 1, elapsed : 0..MaxSample]

\* PLATFORM_init() starts every time service or none: whether it succeeded, failed
\* on a configuration or was called a second time, the two timers, the timer
\* interrupt and its vector are on together or off together.
ServicesAllOrNone ==
  call.pc = "idle" =>
    LET up == timebaseTimer.state = "RUNNING"
    IN /\ (timestampTimer.state = "RUNNING") = up
       /\ timebaseReg.interrupt = up
       /\ irq.enabled = up
       /\ call.result = "OK" => up

\* Once both timers are initialised nothing can refuse the start: the rollback
\* branches of initTimeServices() are never taken, also on a repeated call.
StartsNeverRefused ==
  /\ call.pc = "enableInterrupt" => Timebase!Initialized
  /\ call.pc = "startTimestamp" => Timestamp!MayRun
  /\ call.pc = "startTimebase" => Timebase!MayRun

\* The application counts one tick per period: none for an overflow latched before
\* PLATFORM_init(), none twice, and none is lost unless an ISR was delayed until
\* the next overflow.
OneTickPerPeriod ==
  Timebase!Initialized /\ ~ticks.missed =>
    ticks.behind = IF timebaseReg.overflow /\ isr # "clearFlag" THEN 1 ELSE 0

FreeRunning ==
  timestampPast.config = [periodTicks |-> CounterMod, clockDivider |-> 1]

\* The unsigned difference of two timestamps is the time between them, across a
\* wrap of the counter, as long as the time fits the counter; a repeated
\* PLATFORM_init() does not disturb a measurement.
TimestampMeasuresTime ==
  sample.taken /\ FreeRunning /\ sample.elapsed < CounterMod =>
    (sample.start - timestampReg.count) % CounterMod = sample.elapsed

\* Every request is served: the acknowledgement opens the group again.
TicksAreServed ==
  Requested /\ irq.global ~> isr # "none" \/ ~irq.global
=============================================================================
