------------------------------ MODULE CpuTimer ------------------------------
(***************************************************************************)
(* One CPU timer handle (source/hxs320f28002x/hal_cputimer.c) and the      *)
(* down-counter behind it.  start(), resume() and stop() change the        *)
(* hardware first and the handle's state afterwards, so the counter and    *)
(* the interrupt run between the two: they are split there.  init() is one *)
(* step, the counter is stopped by its first register write.  A refused    *)
(* call changes nothing and is left out; so is the emulation mode, which   *)
(* only matters while a debugger halts the processor.                      *)
(***************************************************************************)
EXTENDS Integers

CONSTANTS
  CounterMod,   \* values of the counter and of its period register (2^32)
  DividerMod    \* values of the prescaler register (65536)

ASSUME CpuTimerAssumption ==
  /\ CounterMod \in Nat \ {0}
  /\ DividerMod \in Nat \ {0}

VARIABLES
  timer,   \* HAL_CPUTIMER_Obj; next is the state a started call still assigns
  reg,     \* registers of the timer
  past     \* history: accepted configuration, clocks since the last reload

timerVars == <<timer, reg, past>>

\* What a configuration may ask for, accepted or not.
Config == [periodTicks : 0..CounterMod + 1, clockDivider : 0..DividerMod + 1]

\* Mutant: a zero period or divider is not refused.
AcceptsZero(config) ==
  config.periodTicks <= CounterMod /\ config.clockDivider <= DividerMod

AcceptsConfig(config) ==
  /\ config.periodTicks \in 1..CounterMod
  /\ config.clockDivider \in 1..DividerMod

\* Mutants: the register takes the physical value; the period saturates at the
\* register's width before it is converted.
PhysicalPeriod(ticks) == ticks
SaturatedPeriod(ticks) == (IF ticks = CounterMod THEN CounterMod - 1 ELSE ticks) - 1

\* The registers hold one less than the physical value, in their own width.
PeriodRegister(ticks) == (ticks - 1) % CounterMod
DividerRegister(divider) == (divider - 1) % DividerMod

\* After reset the counter runs from its maximum, or was left by a bootloader
\* in any state; its interrupt is off.
TimerInit ==
  /\ timer = [state |-> "UNINITIALIZED", next |-> "none"]
  /\ \E counting, overflow \in BOOLEAN :
       reg = [counting |-> counting, overflow |-> overflow, interrupt |-> FALSE,
              period |-> CounterMod - 1, divider |-> 0,
              count |-> CounterMod - 1, prescale |-> 0]
  /\ past = [config |-> [periodTicks |-> CounterMod, clockDivider |-> 1], elapsed |-> 0]

Initialized == timer.state \in {"STOPPED", "RUNNING"}
MayInit == timer.state # "RUNNING"
MayRun == timer.state = "STOPPED"
MayStop == timer.state = "RUNNING"

Reloaded(r) == [r EXCEPT !.count = r.period, !.prescale = r.divider]

-----------------------------------------------------------------------------
(* Calls *)

MarkStopped == [timer EXCEPT !.state = "STOPPED"]

Configured(config) ==
  [counting |-> FALSE, overflow |-> FALSE, interrupt |-> FALSE,
   period |-> PeriodRegister(config.periodTicks),
   divider |-> DividerRegister(config.clockDivider), count |-> 0, prescale |-> 0]

\* Mutant: an overflow latched before the call stays latched.
StaleOverflow(config) == [Reloaded(Configured(config)) EXCEPT !.overflow = reg.overflow]

InitialRegisters(config) == Reloaded(Configured(config))

\* HAL_CPUTIMER_init.
InitTimer(config) ==
  /\ MayInit
  /\ AcceptsConfig(config)
  /\ reg' = InitialRegisters(config)
  /\ timer' = MarkStopped
  /\ past' = [config |-> config, elapsed |-> 0]

\* HAL_CPUTIMER_start: reload and count.
StartCounter ==
  /\ MayRun
  /\ reg' = [Reloaded(reg) EXCEPT !.counting = TRUE]
  /\ timer' = [timer EXCEPT !.next = "RUNNING"]
  /\ past' = [past EXCEPT !.elapsed = 0]

\* HAL_CPUTIMER_resume: count on from the preserved value.
ResumeCounter ==
  /\ MayRun
  /\ reg' = [reg EXCEPT !.counting = TRUE]
  /\ timer' = [timer EXCEPT !.next = "RUNNING"]
  /\ UNCHANGED past

\* HAL_CPUTIMER_stop.
StopCounter ==
  /\ MayStop
  /\ reg' = [reg EXCEPT !.counting = FALSE]
  /\ timer' = [timer EXCEPT !.next = "STOPPED"]
  /\ UNCHANGED past

\* HAL_CPUTIMER_stop in one step, by a caller that ignores its answer.
StopTimer ==
  IF MayStop
  THEN /\ reg' = [reg EXCEPT !.counting = FALSE]
       /\ timer' = MarkStopped
       /\ UNCHANGED past
  ELSE UNCHANGED timerVars

\* Mutant: the state is assigned "STOPPED" whatever the call did.
AlwaysStopped == [state |-> "STOPPED", next |-> "none"]

MarkNext == [state |-> timer.next, next |-> "none"]

\* The assignment that ends start(), resume() and stop().
RecordState ==
  /\ timer.next # "none"
  /\ timer' = MarkNext
  /\ UNCHANGED <<reg, past>>

\* HAL_CPUTIMER_reload.
Reload ==
  /\ Initialized
  /\ reg' = Reloaded(reg)
  /\ past' = [past EXCEPT !.elapsed = 0]
  /\ UNCHANGED timer

\* HAL_CPUTIMER_enableInterrupt and HAL_CPUTIMER_disableInterrupt.
SetInterrupt(on) ==
  /\ Initialized
  /\ reg' = [reg EXCEPT !.interrupt = on]
  /\ UNCHANGED <<timer, past>>

\* HAL_CPUTIMER_clearOverflowFlag.
ClearOverflowFlag ==
  /\ Initialized
  /\ reg' = [reg EXCEPT !.overflow = FALSE]
  /\ UNCHANGED <<timer, past>>

-----------------------------------------------------------------------------
(* The counter (external): the prescaler divides the clock, the counter goes   *)
(* from the period register down to zero and reloads on the next decrement     *)

Overflows == reg.counting /\ reg.prescale = 0 /\ reg.count = 0

Counted ==
  IF reg.prescale > 0 THEN [reg EXCEPT !.prescale = @ - 1]
  ELSE IF reg.count > 0 THEN [reg EXCEPT !.count = @ - 1, !.prescale = reg.divider]
  ELSE [Reloaded(reg) EXCEPT !.overflow = TRUE]

Clock ==
  /\ reg' = IF reg.counting THEN Counted ELSE reg
  /\ past' = [past EXCEPT !.elapsed =
                CASE Overflows    -> 0
                  [] reg.counting /\ ~Overflows -> @ + 1
                  [] OTHER        -> @]
  /\ UNCHANGED timer

-----------------------------------------------------------------------------
\* One caller: a call ends before the next begins, the clock does not wait.
Ready == timer.next = "none"

TimerNext ==
  \/ Ready /\ \E config \in Config : InitTimer(config)
  \/ Ready /\ StartCounter
  \/ Ready /\ ResumeCounter
  \/ Ready /\ StopCounter
  \/ RecordState
  \/ Ready /\ Reload
  \/ Ready /\ \E on \in BOOLEAN : SetInterrupt(on)
  \/ Ready /\ ClearOverflowFlag
  \/ Clock

TimerSpec == TimerInit /\ [][TimerNext]_timerVars

-----------------------------------------------------------------------------
(* Properties *)

\* Every field of the handle and of the registers keeps its type and width.
TimerTypeOK ==
  /\ timer \in [state : {"UNINITIALIZED", "STOPPED", "RUNNING"},
                next : {"none", "STOPPED", "RUNNING"}]
  /\ reg \in [counting : BOOLEAN, overflow : BOOLEAN, interrupt : BOOLEAN,
              period : 0..CounterMod - 1, count : 0..CounterMod - 1,
              divider : 0..DividerMod - 1, prescale : 0..DividerMod - 1]
  /\ past \in [config : {c \in Config : AcceptsConfig(c)}, elapsed : Nat]

\* Between calls the state the handle tracks is what the counter does, so the
\* guards of start(), resume() and stop() decide about the real counter.
StateFollowsCounter ==
  Initialized /\ Ready => (timer.state = "RUNNING" <=> reg.counting)

\* Clocks until the counter overflows.
Remaining == reg.count * (reg.divider + 1) + reg.prescale + 1

\* The counter overflows exactly periodTicks * clockDivider clocks after a reload,
\* for every accepted configuration and however often it was stopped and resumed.
PeriodIsExact ==
  Initialized =>
    past.elapsed + Remaining = past.config.periodTicks * past.config.clockDivider
=============================================================================
