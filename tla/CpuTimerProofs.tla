---------------------------- MODULE CpuTimerProofs ----------------------------
(***************************************************************************)
(* Proofs about CpuTimer, for every width of the counter and of the        *)
(* prescaler.                                                              *)
(***************************************************************************)
EXTENDS CpuTimer, TLAPS

\* Every accepted configuration is represented exactly by the two registers.
LEMMA RegistersExact ==
  ASSUME NEW config \in Config, AcceptsConfig(config)
  PROVE  /\ PeriodRegister(config.periodTicks) = config.periodTicks - 1
         /\ PeriodRegister(config.periodTicks) \in 0..CounterMod - 1
         /\ DividerRegister(config.clockDivider) = config.clockDivider - 1
         /\ DividerRegister(config.clockDivider) \in 0..DividerMod - 1
  BY CpuTimerAssumption DEF Config, AcceptsConfig, PeriodRegister, DividerRegister

\* The inductive invariant: the configuration in force is the one in the
\* registers, and a call in progress has already moved the counter.
StateInv ==
  /\ timer.next = "RUNNING" => reg.counting /\ Initialized
  /\ timer.next = "STOPPED" => ~reg.counting /\ Initialized
  /\ timer.next = "none" /\ Initialized => (timer.state = "RUNNING" <=> reg.counting)

PeriodInv ==
  /\ reg.period = past.config.periodTicks - 1
  /\ reg.divider = past.config.clockDivider - 1
  /\ reg.count <= reg.period /\ reg.prescale <= reg.divider
  /\ past.elapsed + Remaining = past.config.periodTicks * past.config.clockDivider

TimerInv == TimerTypeOK /\ StateInv /\ PeriodInv

LEMMA InitEstablishes == TimerInit => TimerInv
  BY CpuTimerAssumption
     DEF TimerInit, TimerInv, TimerTypeOK, StateInv, PeriodInv, Initialized, Remaining,
         Config, AcceptsConfig

\* A reload leaves exactly one full period.
LEMMA FullPeriod ==
  ASSUME NEW p \in Nat, NEW d \in Nat, NEW P \in Nat, NEW D \in Nat,
         p = P - 1, d = D - 1
  PROVE  0 + (p * (d + 1) + d + 1) = P * D
  <1>1. d + 1 = D /\ P = p + 1 OBVIOUS
  <1>2. P * D = p * D + D BY <1>1
  <1> QED BY <1>1, <1>2

LEMMA TypeStep == TimerTypeOK /\ [TimerNext]_timerVars => TimerTypeOK'
  <1> SUFFICES ASSUME TimerTypeOK, [TimerNext]_timerVars PROVE TimerTypeOK'
    OBVIOUS
  <1> USE CpuTimerAssumption DEF TimerTypeOK
  <1>1. ASSUME NEW config \in Config, InitTimer(config) PROVE TimerTypeOK'
    BY <1>1, RegistersExact
       DEF InitTimer, InitialRegisters, Configured, Reloaded, MarkStopped
  <1>2. CASE StartCounter
    BY <1>2 DEF StartCounter, Reloaded
  <1>3. CASE ResumeCounter
    BY <1>3 DEF ResumeCounter
  <1>4. CASE StopCounter
    BY <1>4 DEF StopCounter
  <1>5. CASE RecordState
    BY <1>5 DEF RecordState, MarkNext
  <1>6. CASE Reload
    BY <1>6 DEF Reload, Reloaded
  <1>7. ASSUME NEW on \in BOOLEAN, SetInterrupt(on) PROVE TimerTypeOK'
    BY <1>7 DEF SetInterrupt
  <1>8. CASE ClearOverflowFlag
    BY <1>8 DEF ClearOverflowFlag
  <1>9. CASE Clock
    <2>1. timer' = timer BY <1>9 DEF Clock
    <2>2. reg' \in [counting : BOOLEAN, overflow : BOOLEAN, interrupt : BOOLEAN,
              period : 0..CounterMod - 1, count : 0..CounterMod - 1,
              divider : 0..DividerMod - 1, prescale : 0..DividerMod - 1]
      <3>1. CASE reg.counting /\ reg.prescale > 0
        <4>1. reg' = [reg EXCEPT !.prescale = reg.prescale - 1]
          BY <1>9, <3>1 DEF Clock, Counted
        <4> QED BY <3>1, <4>1
      <3>2. CASE reg.counting /\ ~(reg.prescale > 0) /\ reg.count > 0
        <4>1. reg' = [reg EXCEPT !.count = reg.count - 1, !.prescale = reg.divider]
          BY <1>9, <3>2 DEF Clock, Counted
        <4>2. reg.count - 1 \in 0..CounterMod - 1
          BY <3>2
        <4> HIDE CpuTimerAssumption
        <4> QED BY <4>1, <4>2
      <3>3. CASE reg.counting /\ ~(reg.prescale > 0) /\ ~(reg.count > 0)
        <4>1. reg' = [reg EXCEPT !.count = reg.period, !.prescale = reg.divider,
                                 !.overflow = TRUE]
          BY <1>9, <3>3 DEF Clock, Counted, Reloaded
        <4> QED BY <4>1
      <3>4. CASE ~reg.counting
        <4>1. reg' = reg BY <1>9, <3>4 DEF Clock
        <4> QED BY <4>1
      <3> QED BY <3>1, <3>2, <3>3, <3>4
    <2>3. past' \in [config : {c \in Config : AcceptsConfig(c)}, elapsed : Nat]
      BY <1>9 DEF Clock, Overflows
    <2> QED BY <2>1, <2>2, <2>3
  <1>10. CASE UNCHANGED timerVars
    BY <1>10 DEF timerVars
  <1> QED
    BY <1>1, <1>2, <1>3, <1>4, <1>5, <1>6, <1>7, <1>8, <1>9, <1>10 DEF TimerNext

LEMMA StateStep == TimerTypeOK /\ StateInv /\ [TimerNext]_timerVars => StateInv'
  <1> SUFFICES ASSUME TimerTypeOK, StateInv, [TimerNext]_timerVars PROVE StateInv'
    OBVIOUS
  <1> USE DEF TimerTypeOK, StateInv, Initialized, Ready
  <1>1. ASSUME NEW config \in Config, Ready, InitTimer(config) PROVE StateInv'
    BY <1>1 DEF InitTimer, InitialRegisters, Configured, Reloaded, MarkStopped
  <1>2. CASE StartCounter
    BY <1>2 DEF StartCounter, MayRun, Reloaded
  <1>3. CASE ResumeCounter
    BY <1>3 DEF ResumeCounter, MayRun
  <1>4. CASE StopCounter
    BY <1>4 DEF StopCounter, MayStop
  <1>5. CASE RecordState
    BY <1>5 DEF RecordState, MarkNext
  <1>6. CASE Reload
    BY <1>6 DEF Reload, Reloaded
  <1>7. ASSUME NEW on \in BOOLEAN, SetInterrupt(on) PROVE StateInv'
    BY <1>7 DEF SetInterrupt
  <1>8. CASE ClearOverflowFlag
    BY <1>8 DEF ClearOverflowFlag
  <1>9. CASE Clock
    BY <1>9 DEF Clock, Counted, Reloaded
  <1>10. CASE UNCHANGED timerVars
    BY <1>10 DEF timerVars
  <1> QED
    BY <1>1, <1>2, <1>3, <1>4, <1>5, <1>6, <1>7, <1>8, <1>9, <1>10 DEF TimerNext

\* Counting one down takes one round of the prescaler off what remains.
LEMMA OneRound ==
  ASSUME NEW c \in Nat, NEW w \in Nat
  PROVE  (c - 1) * w + w = c * w
  OBVIOUS

\* The invariant in terms of the numbers it is about.
LEMMA PeriodStep == TimerInv /\ [TimerNext]_timerVars => PeriodInv'
  <1> SUFFICES ASSUME TimerInv, [TimerNext]_timerVars PROVE PeriodInv'
    OBVIOUS
  <1> USE CpuTimerAssumption
  <1> DEFINE P == past.config.periodTicks
             D == past.config.clockDivider
  <1>a. /\ reg.period \in Nat /\ reg.divider \in Nat
        /\ reg.count \in Nat /\ reg.prescale \in Nat /\ past.elapsed \in Nat
        /\ P \in Nat /\ D \in Nat
        /\ reg.period = P - 1 /\ reg.divider = D - 1
    BY DEF TimerInv, TimerTypeOK, PeriodInv, Config
  <1>b. ASSUME reg'.period = reg.period, reg'.divider = reg.divider,
               past'.config = past.config, past'.elapsed = 0,
               reg'.count = reg.period, reg'.prescale = reg.divider
        PROVE  PeriodInv'
    <2>1. past'.elapsed + (reg'.count * (reg'.divider + 1) + reg'.prescale + 1) = P * D
      BY <1>a, <1>b, FullPeriod
    <2> QED BY <1>a, <1>b, <2>1 DEF PeriodInv, Remaining
  <1>c. ASSUME reg'.period = reg.period, reg'.divider = reg.divider,
               past'.config = past.config, past'.elapsed = past.elapsed,
               reg'.count = reg.count, reg'.prescale = reg.prescale
        PROVE  PeriodInv'
    BY <1>c DEF TimerInv, PeriodInv, Remaining
  <1>1. ASSUME NEW config \in Config, InitTimer(config) PROVE PeriodInv'
    <2>1. AcceptsConfig(config) /\ past' = [config |-> config, elapsed |-> 0]
      BY <1>1 DEF InitTimer
    <2>2. reg' = Reloaded(Configured(config))
      BY <1>1 DEF InitTimer, InitialRegisters
    <2>3. /\ reg'.period = config.periodTicks - 1 /\ reg'.divider = config.clockDivider - 1
          /\ reg'.count = reg'.period /\ reg'.prescale = reg'.divider
          /\ reg'.period \in Nat /\ reg'.divider \in Nat
      BY <2>1, <2>2, RegistersExact DEF Reloaded, Configured
    <2>4. config.periodTicks \in Nat /\ config.clockDivider \in Nat
      BY DEF Config
    <2>5. 0 + (reg'.count * (reg'.divider + 1) + reg'.divider + 1)
            = config.periodTicks * config.clockDivider
      BY <2>3, <2>4, FullPeriod
    <2>6. past'.elapsed = 0 /\ past'.config = config
      BY <2>1
    <2> QED BY <2>3, <2>4, <2>5, <2>6 DEF PeriodInv, Remaining
  <1>2. CASE StartCounter
    BY <1>2, <1>b DEF StartCounter, Reloaded, TimerInv, TimerTypeOK
  <1>3. CASE ResumeCounter
    BY <1>3, <1>c DEF ResumeCounter, TimerInv, TimerTypeOK
  <1>4. CASE StopCounter
    BY <1>4, <1>c DEF StopCounter, TimerInv, TimerTypeOK
  <1>5. CASE RecordState
    BY <1>5, <1>c DEF RecordState
  <1>6. CASE Reload
    BY <1>6, <1>b DEF Reload, Reloaded, TimerInv, TimerTypeOK
  <1>7. ASSUME NEW on \in BOOLEAN, SetInterrupt(on) PROVE PeriodInv'
    BY <1>7, <1>c DEF SetInterrupt, TimerInv, TimerTypeOK
  <1>8. CASE ClearOverflowFlag
    BY <1>8, <1>c DEF ClearOverflowFlag, TimerInv, TimerTypeOK
  <1>9. CASE Clock
    <2>1. CASE reg.counting /\ reg.prescale > 0
      <3>1. /\ reg'.period = reg.period /\ reg'.divider = reg.divider
            /\ reg'.count = reg.count /\ reg'.prescale = reg.prescale - 1
        BY <1>9, <2>1 DEF Clock, Counted, TimerInv, TimerTypeOK
      <3>2. ~Overflows
        BY <1>a, <2>1 DEF Overflows
      <3>3. past'.config = past.config /\ past'.elapsed = past.elapsed + 1
        BY <1>9, <2>1, <3>2 DEF Clock, TimerInv, TimerTypeOK
      <3>4. reg.count * (reg.divider + 1) \in Nat
        BY <1>a
      <3> QED BY <1>a, <2>1, <3>1, <3>3, <3>4 DEF TimerInv, PeriodInv, Remaining
    <2>2. CASE reg.counting /\ ~(reg.prescale > 0) /\ reg.count > 0
      <3>1. /\ reg'.period = reg.period /\ reg'.divider = reg.divider
            /\ reg'.count = reg.count - 1 /\ reg'.prescale = reg.divider
        BY <1>9, <2>2 DEF Clock, Counted, TimerInv, TimerTypeOK
      <3>2. ~Overflows
        BY <1>a, <2>2 DEF Overflows
      <3>3. past'.config = past.config /\ past'.elapsed = past.elapsed + 1
        BY <1>9, <2>2, <3>2 DEF Clock, TimerInv, TimerTypeOK
      <3>4. reg.prescale = 0
        BY <1>a, <2>2
      <3>5. (reg.count - 1) * (reg.divider + 1) + (reg.divider + 1)
              = reg.count * (reg.divider + 1)
        <4>1. reg.divider + 1 \in Nat BY <1>a
        <4> QED BY <1>a, <4>1, OneRound
      <3>6. reg.count * (reg.divider + 1) \in Nat /\ (reg.count - 1) * (reg.divider + 1) \in Int
        BY <1>a
      <3> QED BY <1>a, <2>2, <3>1, <3>3, <3>4, <3>5, <3>6 DEF TimerInv, PeriodInv, Remaining
    <2>3. CASE reg.counting /\ ~(reg.prescale > 0) /\ ~(reg.count > 0)
      <3>1. reg' = [Reloaded(reg) EXCEPT !.overflow = TRUE]
        BY <1>9, <2>3 DEF Clock, Counted
      <3>2. Overflows
        BY <1>a, <2>3 DEF Overflows
      <3>3. past'.config = past.config /\ past'.elapsed = 0
        BY <1>9, <2>3, <3>2 DEF Clock, TimerInv, TimerTypeOK
      <3> QED BY <1>b, <3>1, <3>3 DEF Reloaded, TimerInv, TimerTypeOK
    <2>4. CASE ~reg.counting
      <3>1. reg' = reg
        BY <1>9, <2>4 DEF Clock
      <3>2. past' = past
        BY <1>9, <2>4 DEF Clock, Overflows, TimerInv, TimerTypeOK
      <3> QED BY <1>c, <3>1, <3>2
    <2> QED BY <2>1, <2>2, <2>3, <2>4
  <1>10. CASE UNCHANGED timerVars
    BY <1>10, <1>c DEF timerVars
  <1> QED
    BY <1>1, <1>2, <1>3, <1>4, <1>5, <1>6, <1>7, <1>8, <1>9, <1>10 DEF TimerNext

LEMMA TimerInvariance == TimerSpec => []TimerInv
  <1>1. TimerInit => TimerInv
    BY InitEstablishes
  <1>2. TimerInv /\ [TimerNext]_timerVars => TimerInv'
    BY TypeStep, StateStep, PeriodStep DEF TimerInv
  <1> QED BY <1>1, <1>2, PTL DEF TimerSpec

\* Type correctness: the registers never leave their width.
THEOREM TimerTypeCorrect == TimerSpec => []TimerTypeOK
  <1>1. TimerInv => TimerTypeOK
    BY DEF TimerInv
  <1> QED BY TimerInvariance, <1>1, PTL

\* The state hal_cputimer.c tracks is what the counter does.
THEOREM StateIsCounter == TimerSpec => []StateFollowsCounter
  <1>1. TimerInv => StateFollowsCounter
    BY DEF TimerInv, StateInv, StateFollowsCounter, Ready
  <1> QED BY TimerInvariance, <1>1, PTL

\* An overflow comes exactly periodTicks * clockDivider clocks after a reload.
THEOREM PeriodExact == TimerSpec => []PeriodIsExact
  <1>1. TimerInv => PeriodIsExact
    BY DEF TimerInv, PeriodInv, PeriodIsExact
  <1> QED BY TimerInvariance, <1>1, PTL
===============================================================================
