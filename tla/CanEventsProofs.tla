--------------------------- MODULE CanEventsProofs ---------------------------
(***************************************************************************)
(* Theorems about CanEvents, for every number of objects, every set of     *)
(* configurations and every bound.                                         *)
(*                                                                         *)
(* EventMoves says, per object and without frames or calls of the model,   *)
(* what a step may do; EventsMove shows that every step does one of these. *)
(* The invariants are then proved from it, each inductive relative to the  *)
(* earlier ones: the types, TimeoutInv, CallInv (calls, commands and what  *)
(* they leave in the objects), IsrInv (interface 2), HandInv and QueueInv  *)
(* (where a frame is), LineInv (interrupt lines), ServedInv (flags that    *)
(* are due), OwedInv (completions to report), LossInv (frames that can be  *)
(* seen). The last section shows with RaiseInv that the promises which     *)
(* CanMailbox checks for polling stand with interrupts at work.            *)
(***************************************************************************)
EXTENDS CanEvents, CanConfigProofs, CanMailboxProofs, FiniteSetTheorems

\* Only HAL_CAN_init programs the bit timing: every other step leaves the register and
\* the lifecycle alone.
TimingKept == UNCHANGED timing /\ can'.initialized = can.initialized

\* The handle is a record of its seven fields (what EXCEPT needs to know).
IsHandle ==
  can = [initialized |-> can.initialized, configured |-> can.configured,
         enabled |-> can.enabled, diagnostic |-> can.diagnostic,
         rxCapacity |-> can.rxCapacity, txCapacity |-> can.txCapacity, line1 |-> can.line1]

\* The inductive invariant: what the register holds was computed from what was accepted.
TimingInv ==
  /\ IsHandle
  /\ can.initialized =>
       /\ timing.accepted \in Configs /\ AcceptsConfig(timing.accepted)
       /\ timing.register = TimingRegister(timing.accepted.bitTiming)

\* HAL_CAN_init apart, no call programs the bit timing, and no interrupt or peripheral step.
LEMMA ForegroundKeepsTiming ==
  ASSUME IsHandle, ForegroundStep
  PROVE  \/ \E config \in Configs, timeout \in BOOLEAN : InitController(config, timeout)
         \/ IsHandle' /\ TimingKept
<1> USE DEF TimingKept
<1>1. CASE StartStopController
  BY <1>1 DEF StartStopController, events, IsHandle
<1>2. CASE \E config \in InterruptConfigs : ConfigureInterrupts(config)
  BY <1>2 DEF ConfigureInterrupts, IsHandle
<1>3. CASE EnableInterrupts
  BY <1>3 DEF EnableInterrupts, IsHandle
<1>4. CASE DisableInterrupts
  BY <1>4 DEF DisableInterrupts, IsHandle
<1>5. CASE \E o \in Mailbox : Receive(o) \/ \E ie \in BOOLEAN : ConfigureObject(o, ie)
  BY <1>5 DEF Receive, ConfigureObject, events, IsHandle
<1>6. CASE FinishObject
  BY <1>6 DEF FinishObject, Routed, IsHandle
<1>7. CASE CancelCalls \/ WriteBack \/ EndReceive \/ MailboxStep
  BY <1>7 DEF CancelCalls, WriteBack, EndReceive, MailboxStep, events, IsHandle
<1>8. CASE WaitGivesUp \/ CountTimeout
  BY <1>8 DEF WaitGivesUp, CountTimeout, IsHandle
<1>9. CASE GetRxEvent \/ GetTxCompleteEvent
  BY <1>9 DEF GetRxEvent, GetTxCompleteEvent, IsHandle
<1> QED
  BY <1>1, <1>2, <1>3, <1>4, <1>5, <1>6, <1>7, <1>8, <1>9 DEF ForegroundStep

LEMMA OthersKeepTiming ==
  ASSUME IsHandle,
         PeripheralStep \/ (\E o \in Mailbox : IsrEnter(o)) \/ IsrStep \/ IsrExpires
  PROVE  IsHandle' /\ TimingKept
<1> USE DEF TimingKept, IsHandle
<1>1. CASE PeripheralStep
  BY <1>1 DEF PeripheralStep, TransferStep, ArriveStep, FrameOutStep
<1>2. CASE \E o \in Mailbox : IsrEnter(o)
  <2>1. PICK o \in Mailbox : IsrEnter(o)
    BY <1>2
  <2>2. UNCHANGED can /\ UNCHANGED timing
    BY <2>1, Zenon DEF IsrEnter
  <2> QED BY <2>2
<1>3. CASE IsrStep
  <2>1. CASE IsrSnapshot \/ IsrClear
    BY <2>1 DEF IsrSnapshot, IsrClear, IsrIssue
  <2>2. CASE IsrNothingNew \/ IsrTake \/ IsrLengthRefused
    BY <2>2 DEF IsrNothingNew, IsrTake, IsrLengthRefused
  <2>3. CASE IsrQueueFrame \/ IsrReportCompletion
    BY <2>3 DEF IsrQueueFrame, IsrReportCompletion
  <2> QED BY <1>3, <2>1, <2>2, <2>3 DEF IsrStep
<1>4. CASE IsrExpires
  BY <1>4 DEF IsrExpires
<1> QED BY <1>1, <1>2, <1>3, <1>4

\* What the register holds was computed from what was accepted, after every step.
LEMMA TimingStep ==
  ASSUME TimingInv, [EventsNext]_all
  PROVE  TimingInv'
<1>1. ASSUME NEW config \in Configs, NEW timeout \in BOOLEAN, InitController(config, timeout)
      PROVE  TimingInv'
  <2>1. CASE timeout
    BY <1>1, <2>1 DEF InitController, TimingInv, IsHandle, CleanHandle
  <2>2. CASE ~timeout
    BY <1>1, <2>2 DEF InitController, TimingInv, IsHandle, CleanHandle
  <2> QED BY <2>1, <2>2
<1>2. CASE IsHandle' /\ TimingKept
  BY <1>2 DEF TimingInv, TimingKept
<1>3. CASE UNCHANGED all
  BY <1>3 DEF TimingInv, IsHandle, all, events
<1> QED
  BY <1>1, <1>2, <1>3, ForegroundKeepsTiming, OthersKeepTiming DEF EventsNext, TimingInv

\* TimingRepresentsConfig: whatever the application configures, in whatever order, and
\* whichever waits expire, an initialised controller runs the timing it was asked for.
THEOREM TimingCorrect == EventsSpec => []TimingRepresentsConfig
<1>1. EventsInit => TimingInv
  BY DEF EventsInit, TimingInv, IsHandle, CleanHandle
<1>2. TimingInv /\ [EventsNext]_all => TimingInv'
  BY TimingStep
<1>3. TimingInv => TimingRepresentsConfig
  <2> SUFFICES ASSUME TimingInv, can.initialized
               PROVE  LET t == timing.accepted.bitTiming
                      IN /\ Represents(timing.register, t)
                         /\ BitRateDivisor(t) <= timing.accepted.sourceClockHz
                         /\ timing.accepted.sourceClockHz < 1000001 * BitRateDivisor(t)
    BY DEF TimingRepresentsConfig
  <2>1. /\ IsConfig(timing.accepted) /\ AcceptsConfig(timing.accepted)
        /\ timing.register = TimingRegister(timing.accepted.bitTiming)
    BY EventsAssumption DEF TimingInv
  <2>2. timing.accepted.bitTiming \in BitTiming /\ AcceptsTiming(timing.accepted.bitTiming)
    BY <2>1 DEF IsConfig, AcceptsConfig
  <2>3. Represents(timing.register, timing.accepted.bitTiming)
    BY <2>1, <2>2, AcceptedTimingFits
  <2>4. LET divisor == BitRateDivisor(timing.accepted.bitTiming)
        IN divisor <= timing.accepted.sourceClockHz
             /\ timing.accepted.sourceClockHz < 1000001 * divisor
    BY <2>1, <2>2, AcceptedRate DEF AcceptsConfig
  <2> QED BY <2>3, <2>4
<1> QED BY <1>1, <1>2, <1>3, PTL DEF EventsSpec

-----------------------------------------------------------------------------
(* Types *)

\* The variables of the interrupt path and the history variables.
HandleOK ==
  /\ can \in [initialized : BOOLEAN, configured : BOOLEAN, enabled : BOOLEAN,
              diagnostic : BOOLEAN, rxCapacity : Nat, txCapacity : Nat,
              line1 : SUBSET Mailbox]
  /\ can.initialized => timing.accepted \in Configs
\* Queues hold what their storage allows, and the ISR works while interrupts are enabled.
QueuesOK ==
  /\ rxEventQueue \in Seq([mailboxObjIndex : Mailbox, data : Data])
  /\ txCompleteEventQueue \in Seq(Mailbox)
  /\ Len(rxEventQueue) <= can.rxCapacity /\ Len(txCompleteEventQueue) <= can.txCapacity
IsrOK ==
  /\ isr \in [pc : {"idle", "snapshot", "fetched", "taken", "clear", "cleared"},
              obj : Mailbox, arg : Content]
  /\ isr.pc # "idle" => can.enabled
HistoryOK ==
  /\ sampled \in Nat /\ completions \in Nat /\ expiries \in [1..2 -> Nat]
  /\ origin \in Seq(Mailbox) /\ Len(origin) = arrivals
  /\ unreported \subseteq Mailbox /\ disturbed \subseteq Mailbox

TypesInv == TypeOK /\ HandleOK /\ QueuesOK /\ IsrOK /\ HistoryOK

\* The idle ISR has the type of an ISR at work.
LEMMA IdleIsrIsTyped ==
  IdleIsr \in [pc : {"idle", "snapshot", "fetched", "taken", "clear", "cleared"},
               obj : Mailbox, arg : Content]
  BY MailboxAssumption, BlankIsContent DEF IdleIsr, Mailbox

\* What the first event and the queue without it are.
LEMMA HeadAndTail ==
  ASSUME NEW S, NEW q \in Seq(S), q # <<>>
  PROVE  /\ Head(q) \in S /\ Head(q) = q[1] /\ 1 \in DOMAIN q
         /\ Tail(q) \in Seq(S) /\ Len(Tail(q)) < Len(q)
         /\ \A n \in DOMAIN Tail(q) : n + 1 \in DOMAIN q /\ Tail(q)[n] = q[n + 1] /\ n + 1 # 1
  OBVIOUS

\* The message objects, the interfaces and the call in progress keep their types.
LEMMA ForegroundKeepsMailbox ==
  ASSUME TypeOK, HistoryOK, HandleOK, QueuesOK, ForegroundStep
  PROVE  TypeOK'
<1>1. ASSUME NEW config \in Configs, NEW timeout \in BOOLEAN, InitController(config, timeout)
      PROVE  TypeOK'
  <2>1. /\ ram' = [o \in Mailbox |-> Blank] /\ canDiagnostics' = [c \in Counter |-> 0]
        /\ purpose' = [o \in Mailbox |-> "NONE"] /\ cancelled' = {} /\ unrequested' = {}
        /\ UNCHANGED <<running, fg, frame, submitted, arrivals, overruns>>
    BY <1>1 DEF InitController, bus
  <2>2. NoCommand \in Command
    BY MailboxAssumption DEF NoCommand, Command, Mailbox
  <2>3. ifc' \in [1..2 -> [busy : BOOLEAN, regs : Content, cmd : Command]] /\ calls' \in Nat
    <3>1. CASE timeout
      BY <1>1, <3>1 DEF InitController, TypeOK
    <3>2. CASE ~timeout
      <4>1. /\ ifc' = [i \in 1..2 |-> [busy |-> FALSE, regs |-> Blank, cmd |-> NoCommand]]
            /\ calls' = calls + 1
        BY <1>1, <3>2 DEF InitController
      <4> QED BY <4>1, <2>2, BlankIsContent DEF TypeOK
    <3> QED BY <3>1, <3>2
  <2> QED BY <2>1, <2>3, BlankIsContent DEF TypeOK, Role
<1>2. CASE StartStopController
  <2>1. StartStop
    BY <1>2 DEF StartStopController
  <2> QED BY <2>1, LocalKeeps DEF StartStop, TypeOK, CallFields, bus, Kept
<1>3. CASE \/ \E config \in InterruptConfigs : ConfigureInterrupts(config)
           \/ EnableInterrupts \/ DisableInterrupts \/ GetTxCompleteEvent
  <2>1. UNCHANGED vars
    BY <1>3, Zenon
       DEF ConfigureInterrupts, EnableInterrupts, DisableInterrupts, GetTxCompleteEvent
  <2> QED BY <2>1 DEF vars, TypeOK
<1>4. CASE \E o \in Mailbox : Receive(o) \/ \E ie \in BOOLEAN : ConfigureObject(o, ie)
  BY <1>4, ReceivingKeeps, ConfiguringKeeps DEF Receive, ConfigureObject, Receiving, Kept
<1>5. CASE FinishObject
  BY <1>5, ConfiguringKeeps DEF FinishObject, Kept
<1>6. CASE CancelCalls \/ WriteBack
  BY <1>6, CancellingKeeps DEF CancelCalls, WriteBack, Cancelling, Kept
<1>7. CASE EndReceive
  BY <1>7, ReceivingKeeps DEF EndReceive, Receiving, Kept
<1>8. CASE MailboxStep
  BY <1>8, ConfiguringKeeps, ReceivingKeeps, TransmittingKeeps, CancellingKeeps
     DEF MailboxStep, Receiving, Cancelling, Kept
<1>9. CASE WaitGivesUp
  <2>1. fg' = [fg EXCEPT !.pc = "expired"] /\ UNCHANGED <<callerView, ram, ifc, canDiagnostics, bus>>
    BY <1>9 DEF WaitGivesUp
  <2>2. /\ fg' \in CallFields
        /\ IF fg'.op \in {"abort", "cancelAll"} THEN fg'.obj \in fg'.todo ELSE fg'.todo = {}
    BY <2>1 DEF TypeOK, CallFields, Step
  <2> QED BY <2>1, <2>2 DEF TypeOK, CallFields, callerView, bus
<1>10. CASE CountTimeout
  <2>1. /\ fg' = IdleCall /\ UNCHANGED <<callerView, ram, ifc, bus>>
        /\ canDiagnostics' = [canDiagnostics EXCEPT !.transactionTimeoutCount = sampled + 1]
    BY <1>10 DEF CountTimeout, Incremented
  <2>2. canDiagnostics' \in [Counter -> Nat]
    BY <2>1 DEF TypeOK, HistoryOK
  <2> QED BY <2>1, <2>2, ReturnKeeps DEF Kept
<1>11. CASE GetRxEvent
  <2> DEFINE event == Head(rxEventQueue)
  <2>1. event \in [mailboxObjIndex : Mailbox, data : Data]
    <3>1. rxEventQueue # <<>> /\ rxEventQueue \in Seq([mailboxObjIndex : Mailbox, data : Data])
      BY <1>11 DEF GetRxEvent, QueuesOK
    <3> QED BY <3>1, HeadAndTail
  <2>2. /\ frame' = [frame EXCEPT ![event.mailboxObjIndex] = event.data]
        /\ UNCHANGED <<running, ram, ifc, fg, canDiagnostics, purpose, cancelled>>
        /\ UNCHANGED <<unrequested, submitted, arrivals, overruns, calls>>
    BY <1>11 DEF GetRxEvent, bus
  <2>3. frame' \in [Mailbox -> Data]
    BY <2>1, <2>2 DEF TypeOK
  <2> QED BY <2>2, <2>3 DEF TypeOK
<1> QED
  BY <1>1, <1>2, <1>3, <1>4, <1>5, <1>6, <1>7, <1>8, <1>9, <1>10, <1>11 DEF ForegroundStep

\* Counting an event moves counters that are there.
LEMMA CountEventTyped ==
  ASSUME NEW d \in [Counter -> Nat], NEW capacity, NEW length,
         NEW done \in Counter, NEW dropped \in Counter
  PROVE  CountEvent(d, capacity, length, done, dropped) \in [Counter -> Nat]
<1>1. d.unexpectedInterruptCount + 1 \in Nat /\ d[done] + 1 \in Nat
      /\ [d EXCEPT ![done] = @ + 1] \in [Counter -> Nat]
  BY DEF Counter
<1>2. [d EXCEPT ![done] = @ + 1, ![dropped] = @ + 1] \in [Counter -> Nat]
  <2> DEFINE e == [d EXCEPT ![done] = @ + 1]
  <2>1. e \in [Counter -> Nat] /\ e[dropped] \in Nat
    BY <1>1
  <2>2. [e EXCEPT ![dropped] = @ + 1] \in [Counter -> Nat]
    BY <2>1
  <2> QED BY <2>2
<1> QED BY <1>1, <1>2 DEF CountEvent

\* The ISR and the peripheral leave the state of CanMailbox well typed.
LEMMA IsrKeepsMailbox ==
  ASSUME TypeOK, IsrOK, IsrStep \/ IsrExpires \/ \E o \in Mailbox : IsrEnter(o)
  PROVE  TypeOK'
<1>1. ASSUME NEW from, NEW to, NEW fields \in SUBSET Field, IsrIssue(from, fields, to)
      PROVE  TypeOK'
  <2>1. /\ Ready(2) /\ Issue(2, isr.obj, ifc[2].regs, FALSE, fields)
        /\ UNCHANGED <<callerView, ram, fg, canDiagnostics, bus>>
    BY <1>1 DEF IsrIssue
  <2>2. ifc[2].regs \in Content /\ isr.obj \in Mailbox
        /\ fg' \in CallFields
        /\ IF fg'.op \in {"abort", "cancelAll"} THEN fg'.obj \in fg'.todo ELSE fg'.todo = {}
    BY <2>1 DEF TypeOK, IsrOK, CallFields
  <2> QED BY <2>1, <2>2, IssueKeeps, FieldSets DEF Kept
<1>2. CASE IsrSnapshot \/ IsrClear
  <2>1. {"CLRINTPND"} \in SUBSET Field
    BY DEF Field
  <2> QED BY <1>1, <1>2, <2>1, FieldSets DEF IsrSnapshot, IsrClear
<1>3. CASE IsrTake
  <2>1. /\ Ready(2) /\ Issue(2, isr.obj, ifc[2].regs, FALSE, AcknowledgeFields)
        /\ UNCHANGED <<callerView, ram, fg, canDiagnostics, bus>>
    BY <1>3 DEF IsrTake
  <2>2. ifc[2].regs \in Content /\ isr.obj \in Mailbox
        /\ fg' \in CallFields
        /\ IF fg'.op \in {"abort", "cancelAll"} THEN fg'.obj \in fg'.todo ELSE fg'.todo = {}
    BY <2>1 DEF TypeOK, IsrOK, CallFields
  <2> QED BY <2>1, <2>2, IssueKeeps, FieldSets DEF Kept
<1>4. CASE IsrNothingNew \/ IsrLengthRefused \/ \E o \in Mailbox : IsrEnter(o)
  <2>1. UNCHANGED vars
    BY <1>4, Zenon DEF IsrNothingNew, IsrLengthRefused, IsrEnter
  <2> QED BY <2>1 DEF vars, TypeOK
<1>5. ASSUME canDiagnostics' \in [Counter -> Nat], UNCHANGED <<callerView, ram, ifc, fg, bus>>
      PROVE  TypeOK'
  BY <1>5 DEF TypeOK, callerView, bus
<1>6. CASE IsrQueueFrame
  <2> DEFINE d == [canDiagnostics EXCEPT !.rxOverflowCount = IF isr.arg.msglst THEN @ + 1 ELSE @]
  <2>1. d \in [Counter -> Nat]
    BY DEF TypeOK, Counter
  <2>2. canDiagnostics' = CountEvent(d, can.rxCapacity, Len(rxEventQueue),
                                     "rxFrameCount", "rxQueueOverflowCount")
    BY <1>6, Zenon DEF IsrQueueFrame
  <2> HIDE DEF d
  <2>3. canDiagnostics' \in [Counter -> Nat]
    BY <2>1, <2>2, CountEventTyped DEF Counter
  <2> QED BY <1>5, <1>6, <2>3 DEF IsrQueueFrame
<1>7. CASE IsrReportCompletion
  <2>1. canDiagnostics' = CountEvent(canDiagnostics, can.txCapacity, Len(txCompleteEventQueue),
                                     "txCompleteCount", "txEventOverflowCount")
    BY <1>7, Zenon DEF IsrReportCompletion
  <2>2. canDiagnostics' \in [Counter -> Nat]
    BY <2>1, CountEventTyped DEF Counter, TypeOK
  <2> QED BY <1>5, <1>7, <2>2 DEF IsrReportCompletion
<1>8. CASE IsrExpires
  <2>1. canDiagnostics' \in [Counter -> Nat]
    BY <1>8 DEF IsrExpires, TimedOut, TypeOK
  <2> QED BY <1>5, <1>8, <2>1 DEF IsrExpires
<1> QED BY <1>2, <1>3, <1>4, <1>6, <1>7, <1>8 DEF IsrStep

LEMMA PeripheralKeepsMailbox ==
  ASSUME TypeOK, PeripheralStep
  PROVE  TypeOK'
BY TransferKeeps, ArriveKeeps, FrameOutKeeps, 1 \in 1..2
   DEF PeripheralStep, TransferStep, ArriveStep, FrameOutStep, Kept

\* The handle, the queues, the ISR and the history keep their types.
LEMMA HandleKept ==
  ASSUME TypesInv, [EventsNext]_all
  PROVE  HandleOK'
<1> USE DEF HandleOK
<1>1. ASSUME NEW config \in Configs, NEW timeout \in BOOLEAN, InitController(config, timeout)
      PROVE  HandleOK'
  <2>1. CASE timeout
    <3>1. can' = [CleanHandle EXCEPT !.line1 = can.line1]
      BY <1>1, <2>1, Zenon DEF InitController
    <3> QED BY <3>1 DEF TypesInv, CleanHandle
  <2>2. CASE ~timeout
    <3>1. /\ can' = [CleanHandle EXCEPT !.initialized = TRUE]
          /\ timing' = [register |-> TimingRegister(config.bitTiming), accepted |-> config]
      BY <1>1, <2>2, Zenon DEF InitController
    <3> QED BY <3>1 DEF TypesInv, CleanHandle
  <2> QED BY <2>1, <2>2
<1>2. ASSUME NEW config \in InterruptConfigs, ConfigureInterrupts(config) PROVE HandleOK'
  <2>1. config \in [rxEventStorage : BOOLEAN, rxEventCapacity : Nat,
                    txCompleteEventStorage : BOOLEAN, txCompleteEventCapacity : Nat,
                    diagnostics : BOOLEAN]
    BY EventsAssumption
  <2> QED BY <1>2, <2>1 DEF ConfigureInterrupts, TypesInv
<1>3. CASE EnableInterrupts \/ DisableInterrupts
  BY <1>3 DEF EnableInterrupts, DisableInterrupts, TypesInv
<1>4. CASE FinishObject
  <2>1. can' = Routed /\ UNCHANGED timing /\ fg.obj \in Mailbox
    BY <1>4 DEF FinishObject, TypesInv, TypeOK
  <2> QED BY <2>1 DEF Routed, TypesInv
<1>5. ASSUME UNCHANGED <<can, timing>> PROVE HandleOK'
  BY <1>5 DEF TypesInv
<1>6. CASE StartStopController \/ CancelCalls \/ MailboxStep
           \/ \E o \in Mailbox : Receive(o) \/ \E ie \in BOOLEAN : ConfigureObject(o, ie)
  BY <1>5, <1>6
     DEF StartStopController, CancelCalls, MailboxStep, Receive, ConfigureObject, events
<1>7. CASE WriteBack \/ EndReceive \/ WaitGivesUp \/ CountTimeout
           \/ GetRxEvent \/ GetTxCompleteEvent
  BY <1>5, <1>7, Zenon
     DEF WriteBack, EndReceive, WaitGivesUp, CountTimeout, GetRxEvent, GetTxCompleteEvent
<1>8. CASE PeripheralStep \/ IsrExpires \/ \E o \in Mailbox : IsrEnter(o)
  <2>1. UNCHANGED <<can, timing>>
    BY <1>8, Zenon
       DEF PeripheralStep, TransferStep, ArriveStep, FrameOutStep, IsrExpires, IsrEnter
  <2> QED BY <1>5, <2>1
<1>9. CASE IsrStep
  <2>1. UNCHANGED <<can, timing>>
    BY <1>9, Zenon
       DEF IsrStep, IsrSnapshot, IsrNothingNew, IsrTake, IsrLengthRefused, IsrQueueFrame,
           IsrClear, IsrReportCompletion, IsrIssue
  <2> QED BY <1>5, <2>1
<1>10. CASE UNCHANGED all
  BY <1>5, <1>10 DEF all, events
<1> QED
  BY <1>1, <1>2, <1>3, <1>4, <1>6, <1>7, <1>8, <1>9, <1>10 DEF EventsNext, ForegroundStep

\* A queue never holds more events than the caller gave it room for.
LEMMA PushedTyped ==
  ASSUME NEW S, NEW q \in Seq(S), NEW capacity \in Nat, Len(q) <= capacity, NEW event \in S
  PROVE  Pushed(q, capacity, event) \in Seq(S) /\ Len(Pushed(q, capacity, event)) <= capacity
  BY DEF Pushed

LEMMA QueuesKept ==
  ASSUME TypesInv, [EventsNext]_all
  PROVE  QueuesOK'
<1> USE DEF QueuesOK
<1>1. ASSUME NEW config \in Configs, NEW timeout \in BOOLEAN, InitController(config, timeout)
      PROVE  QueuesOK'
  <2>1. rxEventQueue' = <<>> /\ txCompleteEventQueue' = <<>>
    BY <1>1 DEF InitController
  <2>2. can'.rxCapacity = 0 /\ can'.txCapacity = 0
    BY <1>1 DEF InitController, CleanHandle
  <2> QED BY <2>1, <2>2
<1>2. ASSUME NEW config \in InterruptConfigs, ConfigureInterrupts(config) PROVE QueuesOK'
  <2>1. config.rxEventCapacity \in Nat /\ config.txCompleteEventCapacity \in Nat
    BY EventsAssumption
  <2>2. /\ rxEventQueue' = <<>> /\ txCompleteEventQueue' = <<>>
        /\ can'.rxCapacity = config.rxEventCapacity
        /\ can'.txCapacity = config.txCompleteEventCapacity
    BY <1>2 DEF ConfigureInterrupts, TypesInv, HandleOK
  <2> QED BY <2>1, <2>2
<1>3. ASSUME UNCHANGED queues, can'.rxCapacity = can.rxCapacity, can'.txCapacity = can.txCapacity
      PROVE  QueuesOK'
  BY <1>3 DEF TypesInv, queues
<1>4. CASE EnableInterrupts \/ DisableInterrupts
  BY <1>3, <1>4 DEF EnableInterrupts, DisableInterrupts, TypesInv, HandleOK
<1>5. CASE FinishObject
  <2>1. can' = Routed /\ UNCHANGED queues
    BY <1>5 DEF FinishObject
  <2> QED BY <1>3, <2>1 DEF Routed, TypesInv, HandleOK
<1>6. CASE GetRxEvent
  <2>1. /\ rxEventQueue # <<>> /\ rxEventQueue' = Tail(rxEventQueue)
        /\ UNCHANGED <<can, txCompleteEventQueue>>
        /\ rxEventQueue \in Seq([mailboxObjIndex : Mailbox, data : Data])
    BY <1>6 DEF GetRxEvent, TypesInv
  <2>2. /\ rxEventQueue' \in Seq([mailboxObjIndex : Mailbox, data : Data])
        /\ Len(rxEventQueue') < Len(rxEventQueue)
    BY <2>1, HeadAndTail
  <2>3. Len(rxEventQueue') \in Nat /\ Len(rxEventQueue) \in Nat
    BY <2>1, <2>2
  <2> QED BY <2>1, <2>2, <2>3 DEF TypesInv, HandleOK
<1>7. CASE GetTxCompleteEvent
  <2>1. /\ txCompleteEventQueue # <<>> /\ txCompleteEventQueue' = Tail(txCompleteEventQueue)
        /\ UNCHANGED <<can, rxEventQueue>>
        /\ txCompleteEventQueue \in Seq(Mailbox)
    BY <1>7 DEF GetTxCompleteEvent, TypesInv
  <2>2. txCompleteEventQueue' \in Seq(Mailbox)
        /\ Len(txCompleteEventQueue') < Len(txCompleteEventQueue)
    BY <2>1, HeadAndTail
  <2>3. Len(txCompleteEventQueue') \in Nat /\ Len(txCompleteEventQueue) \in Nat
    BY <2>1, <2>2
  <2> QED BY <2>1, <2>2, <2>3 DEF TypesInv, HandleOK
<1>8. CASE IsrQueueFrame
  <2> DEFINE event == [mailboxObjIndex |-> isr.obj, data |-> isr.arg.data]
  <2>1. event \in [mailboxObjIndex : Mailbox, data : Data]
    BY DEF TypesInv, IsrOK, Content
  <2>2. /\ rxEventQueue' = Pushed(rxEventQueue, can.rxCapacity, event)
        /\ UNCHANGED <<can, txCompleteEventQueue>>
    BY <1>8 DEF IsrQueueFrame
  <2> HIDE DEF event
  <2> QED BY <2>1, <2>2, PushedTyped DEF TypesInv, HandleOK
<1>9. CASE IsrReportCompletion
  <2>1. /\ txCompleteEventQueue' = Pushed(txCompleteEventQueue, can.txCapacity, isr.obj)
        /\ UNCHANGED <<can, rxEventQueue>> /\ isr.obj \in Mailbox
    BY <1>9 DEF IsrReportCompletion, TypesInv, IsrOK
  <2> QED BY <2>1, PushedTyped DEF TypesInv, HandleOK
<1>10. ASSUME UNCHANGED can, UNCHANGED queues PROVE QueuesOK'
  BY <1>3, <1>10
<1>11. CASE StartStopController \/ CancelCalls \/ MailboxStep
            \/ \E o \in Mailbox : Receive(o) \/ \E ie \in BOOLEAN : ConfigureObject(o, ie)
  <2>1. UNCHANGED can /\ UNCHANGED queues
    BY <1>11 DEF StartStopController, CancelCalls, MailboxStep, Receive, ConfigureObject, events,
                 queues
  <2> QED BY <1>10, <2>1
<1>12. CASE WriteBack \/ EndReceive \/ WaitGivesUp \/ CountTimeout
  <2>1. UNCHANGED can /\ UNCHANGED queues
    BY <1>12, Zenon DEF WriteBack, EndReceive, WaitGivesUp, CountTimeout
  <2> QED BY <1>10, <2>1
<1>13. CASE PeripheralStep \/ IsrExpires \/ \E o \in Mailbox : IsrEnter(o)
  <2>1. UNCHANGED can /\ UNCHANGED queues
    BY <1>13, Zenon
       DEF PeripheralStep, TransferStep, ArriveStep, FrameOutStep, IsrExpires, IsrEnter
  <2> QED BY <1>10, <2>1
<1>14. CASE IsrSnapshot \/ IsrNothingNew \/ IsrTake \/ IsrLengthRefused \/ IsrClear
  <2>1. UNCHANGED can /\ UNCHANGED queues
    BY <1>14, Zenon
       DEF IsrSnapshot, IsrNothingNew, IsrTake, IsrLengthRefused, IsrClear, IsrIssue
  <2> QED BY <1>10, <2>1
<1>15. CASE UNCHANGED all
  BY <1>10, <1>15 DEF all, events, queues
<1> QED
  BY <1>1, <1>2, <1>4, <1>5, <1>6, <1>7, <1>8, <1>9, <1>11, <1>12, <1>13, <1>14, <1>15
     DEF EventsNext, ForegroundStep, IsrStep

LEMMA IsrKept ==
  ASSUME TypesInv, [EventsNext]_all
  PROVE  IsrOK'
<1> USE DEF IsrOK
<1>1. CASE ForegroundStep
  <2>1. isr.pc = "idle" /\ isr' = isr
    <3>1. CASE \/ \E config \in Configs, timeout \in BOOLEAN : InitController(config, timeout)
               \/ \E config \in InterruptConfigs : ConfigureInterrupts(config)
               \/ EnableInterrupts \/ DisableInterrupts \/ FinishObject
               \/ WriteBack \/ EndReceive \/ WaitGivesUp \/ CountTimeout
               \/ GetRxEvent \/ GetTxCompleteEvent
      BY <1>1, <3>1, Zenon
         DEF ForegroundStep, InitController, ConfigureInterrupts, EnableInterrupts,
             DisableInterrupts, FinishObject, WriteBack, EndReceive, WaitGivesUp, CountTimeout,
             GetRxEvent, GetTxCompleteEvent
    <3>2. CASE StartStopController \/ CancelCalls \/ MailboxStep
               \/ \E o \in Mailbox : Receive(o) \/ \E ie \in BOOLEAN : ConfigureObject(o, ie)
      BY <1>1, <3>2
         DEF ForegroundStep, StartStopController, CancelCalls, MailboxStep, Receive,
             ConfigureObject, events
    <3> QED BY <1>1, <3>1, <3>2 DEF ForegroundStep
  <2> QED BY <2>1 DEF TypesInv
<1>2. ASSUME UNCHANGED <<can, isr>> PROVE IsrOK'
  BY <1>2 DEF TypesInv
<1>3. CASE PeripheralStep
  BY <1>2, <1>3, Zenon DEF PeripheralStep, TransferStep, ArriveStep, FrameOutStep
<1>4. ASSUME NEW o \in Mailbox, IsrEnter(o) PROVE IsrOK'
  <2>1. isr' = [isr EXCEPT !.pc = IF LineOf(o) = 0 THEN "snapshot" ELSE "clear", !.obj = o]
        /\ UNCHANGED can /\ can.enabled
    BY <1>4 DEF IsrEnter, Asserted, LineOpen
  <2> QED BY <2>1 DEF TypesInv
<1>5. ASSUME isr' = IdleIsr, UNCHANGED can PROVE IsrOK'
  BY <1>5, IdleIsrIsTyped DEF IdleIsr
<1>6. CASE IsrExpires \/ IsrNothingNew \/ IsrLengthRefused \/ IsrQueueFrame \/ IsrReportCompletion
  BY <1>5, <1>6
     DEF IsrExpires, IsrNothingNew, IsrLengthRefused, IsrQueueFrame, IsrReportCompletion
<1>7. CASE IsrSnapshot \/ IsrClear
  BY <1>7 DEF IsrSnapshot, IsrClear, IsrIssue, TypesInv
<1>8. CASE IsrTake
  <2>1. /\ isr.pc = "fetched" /\ UNCHANGED can /\ ifc[2].regs \in Content
        /\ isr' = [isr EXCEPT !.pc = "taken", !.arg = ifc[2].regs]
    BY <1>8 DEF IsrTake, TypesInv, TypeOK
  <2> QED BY <2>1 DEF TypesInv
<1>9. CASE UNCHANGED all
  BY <1>2, <1>9 DEF all, events
<1> QED
  BY <1>1, <1>3, <1>4, <1>6, <1>7, <1>8, <1>9 DEF EventsNext, IsrStep

\* A received frame is appended to the frames so far.
LEMMA FramesGrow ==
  ASSUME HistoryOK, NEW o \in Mailbox, origin' = Append(origin, o)
  PROVE  /\ origin' \in Seq(Mailbox) /\ Len(origin') = Len(origin) + 1
         /\ Frames' = Frames \union {Len(origin) + 1} /\ Len(origin) + 1 \notin Frames
         /\ \A k \in Frames : origin'[k] = origin[k]
         /\ origin'[Len(origin) + 1] = o
  BY DEF HistoryOK, Frames

-----------------------------------------------------------------------------
(* What the steps of the foreground leave alone *)

\* The steps that only a call in progress, or the beginning of one, explains.
CallStep ==
  \/ StartStopController
  \/ \E o \in Mailbox : Receive(o) \/ \E ie \in BOOLEAN : ConfigureObject(o, ie)
  \/ CancelCalls \/ MailboxStep

\* A call reaches the message objects through the interfaces only.
LEMMA CallLeavesRam ==
  ASSUME CallStep \/ FinishObject \/ WriteBack \/ EndReceive
  PROVE  UNCHANGED <<ram, arrivals>>
<1>0. bus' = bus /\ ram' = ram
  <2>1. CASE StartStopController \/ \E o \in Mailbox : Receive(o)
    BY <2>1, Zenon DEF StartStopController, StartStop, Receive, ReceiveCall, Begin
  <2>2. CASE \E o \in Mailbox, ie \in BOOLEAN : ConfigureObject(o, ie)
    <3>1. PICK o \in Mailbox, ie \in BOOLEAN : ConfigureRx(o, ie) \/ ConfigureSender(o, ie)
      BY <2>2, Zenon DEF ConfigureObject
    <3>2. PICK role, dlc, data : ConfigureCall(o, role, ie, dlc, data)
      BY <3>1, Zenon
         DEF ConfigureRx, ConfigureSender, ConfigureTx, ConfigureRemoteRequest,
             ConfigureRemoteResponse
    <3> QED BY <3>2, Zenon DEF ConfigureCall, Begin
  <2>3. CASE CancelCalls
    BY <2>3, Zenon DEF CancelCalls, CancelAll, AbortTx, CancelCall
  <2>4. CASE FinishObject \/ WriteBack \/ EndReceive
    BY <2>4, Zenon
       DEF FinishObject, PreloadObject, ConfigureReturns, WriteBack, WriteControl,
           EndReceive, Deliver, LengthRefused
  <2>5. CASE Transmitting
    BY <2>5, Zenon
       DEF Transmitting, SendCall, RequestCall, UpdateCall, Begin, Busy, NotBusy, ReadLength,
           LengthMismatch, SubmitData, SubmitRemoteRequest, RequestAccepted, UpdateData,
           UpdateReturns
  <2>6. CASE SetupObject \/ ReadObject \/ NothingNew \/ TakeObject
             \/ ReadControl \/ CancelNext \/ CancelReturns
    BY <2>6, Zenon
       DEF SetupObject, ReadObject, NothingNew, TakeObject, ReadControl, CancelNext,
           CancelReturns
  <2> QED BY <2>1, <2>2, <2>3, <2>4, <2>5, <2>6 DEF CallStep, MailboxStep
<1> QED BY <1>0 DEF bus

\* The ISR runs to its end before the foreground goes on, and no frame arrives in it.
LEMMA ForegroundFrame ==
  ASSUME ForegroundStep
  PROVE  /\ isr.pc = "idle" /\ isr' = isr /\ origin' = origin /\ arrivals' = arrivals
         /\ \/ \E config \in Configs, timeout \in BOOLEAN : InitController(config, timeout)
            \/ UNCHANGED <<ram, unreported, completions>>
<1>1. isr.pc = "idle"
  BY DEF ForegroundStep
<1>2. CASE \E config \in Configs, timeout \in BOOLEAN : InitController(config, timeout)
  <2>1. isr' = isr /\ origin' = origin /\ bus' = bus
    BY <1>2, Zenon DEF InitController
  <2> QED BY <1>1, <1>2, <2>1 DEF bus
<1>3. CASE \/ \E config \in InterruptConfigs : ConfigureInterrupts(config)
           \/ EnableInterrupts \/ DisableInterrupts \/ GetTxCompleteEvent
  <2>1. /\ isr' = isr /\ origin' = origin /\ vars' = vars
        /\ unreported' = unreported /\ completions' = completions
    BY <1>3, Zenon
       DEF ConfigureInterrupts, EnableInterrupts, DisableInterrupts, GetTxCompleteEvent, ghosts
  <2> QED BY <1>1, <2>1 DEF vars
<1>4. CASE GetRxEvent
  <2>1. /\ isr' = isr /\ origin' = origin /\ bus' = bus /\ ram' = ram
        /\ unreported' = unreported /\ completions' = completions
    BY <1>4, Zenon DEF GetRxEvent
  <2> QED BY <1>1, <2>1 DEF bus
<1>5. CASE WaitGivesUp \/ CountTimeout
  <2>1. /\ isr' = isr /\ origin' = origin /\ bus' = bus /\ ram' = ram
        /\ unreported' = unreported /\ completions' = completions
    BY <1>5, Zenon DEF WaitGivesUp, CountTimeout, ghosts
  <2> QED BY <1>1, <2>1 DEF bus
<1>6. CASE CallStep \/ FinishObject \/ WriteBack \/ EndReceive
  <2>1. /\ isr' = isr /\ origin' = origin
        /\ unreported' = unreported /\ completions' = completions
    <3>1. CASE CallStep
      BY <3>1 DEF CallStep, StartStopController, CancelCalls, MailboxStep, Receive,
                  ConfigureObject, events
    <3>2. CASE FinishObject \/ WriteBack \/ EndReceive
      BY <3>2, Zenon DEF FinishObject, WriteBack, EndReceive, ghosts
    <3> QED BY <1>6, <3>1, <3>2
  <2>2. ram' = ram /\ arrivals' = arrivals
    BY <1>6, CallLeavesRam
  <2> QED BY <1>1, <2>1, <2>2
<1> QED BY <1>2, <1>3, <1>4, <1>5, <1>6 DEF ForegroundStep, CallStep

\* The history variables keep their types.
LEMMA HistoryKept ==
  ASSUME TypesInv, [EventsNext]_all
  PROVE  HistoryOK'
<1> USE DEF HistoryOK
<1>1. ASSUME NEW config \in Configs, NEW timeout \in BOOLEAN, InitController(config, timeout)
      PROVE  HistoryOK'
  <2>1. /\ unreported' = {} /\ disturbed' = {}
        /\ completions' = 0 /\ expiries' = [i \in 1..2 |-> 0]
        /\ UNCHANGED <<sampled, origin, bus>>
    BY <1>1, Zenon DEF InitController
  <2> QED BY <2>1 DEF TypesInv, bus
<1>2. ASSUME UNCHANGED <<completions, origin, arrivals, unreported>>,
             sampled' \in Nat, expiries' \in [1..2 -> Nat], disturbed' \subseteq Mailbox
      PROVE  HistoryOK'
  BY <1>2 DEF TypesInv
<1>3. CASE ForegroundStep /\ UNCHANGED <<ram, unreported, completions>>
  <2>1. UNCHANGED <<completions, origin, arrivals, unreported>>
    BY <1>3, ForegroundFrame
  <2>2. CASE \/ \E config \in InterruptConfigs : ConfigureInterrupts(config)
             \/ EnableInterrupts \/ DisableInterrupts \/ GetTxCompleteEvent \/ GetRxEvent
             \/ FinishObject \/ EndReceive
    <3>1. UNCHANGED <<sampled, expiries, disturbed>>
      BY <2>2, Zenon
         DEF ConfigureInterrupts, EnableInterrupts, DisableInterrupts, GetTxCompleteEvent,
             GetRxEvent, FinishObject, EndReceive, ghosts
    <3> QED BY <1>2, <2>1, <3>1 DEF TypesInv
  <2>3. CASE CallStep
    <3>1. UNCHANGED <<sampled, expiries, disturbed>>
      BY <2>3 DEF CallStep, StartStopController, CancelCalls, MailboxStep, Receive,
                  ConfigureObject, events
    <3> QED BY <1>2, <2>1, <3>1 DEF TypesInv
  <2>4. CASE WriteBack
    <3>1. UNCHANGED <<sampled, expiries>> /\ disturbed' = disturbed \union {fg.obj}
      BY <2>4, Zenon DEF WriteBack
    <3> QED BY <1>2, <2>1, <3>1 DEF TypesInv, TypeOK
  <2>5. CASE WaitGivesUp
    <3>1. /\ sampled' = canDiagnostics.transactionTimeoutCount
          /\ expiries' = [expiries EXCEPT ![Interface] = @ + 1]
          /\ disturbed' = disturbed \union Misrouted
      BY <2>5, Zenon DEF WaitGivesUp
    <3>2. Misrouted \subseteq Mailbox
      BY DEF Misrouted, TypesInv, TypeOK
    <3> QED BY <1>2, <2>1, <3>1, <3>2 DEF TypesInv, TypeOK, Counter, Interface
  <2>6. CASE CountTimeout
    <3>1. sampled' = 0 /\ UNCHANGED <<expiries, disturbed>>
      BY <2>6, Zenon DEF CountTimeout, ghosts
    <3> QED BY <1>2, <2>1, <3>1 DEF TypesInv
  <2>7. ASSUME NEW config \in Configs, NEW timeout \in BOOLEAN, InitController(config, timeout)
        PROVE  HistoryOK'
    BY <1>1, <2>7
  <2> QED
    BY <1>3, <2>2, <2>3, <2>4, <2>5, <2>6, <2>7 DEF ForegroundStep, CallStep
<1>4. ASSUME NEW i \in 1..2, TransferStep(i) PROVE HistoryOK'
  <2>1. UNCHANGED <<sampled, origin, disturbed, completions, expiries, arrivals>>
    BY <1>4, Zenon DEF TransferStep, Transfer
  <2>2. unreported' \subseteq unreported
    BY <1>4, Zenon DEF TransferStep
  <2> QED BY <2>1, <2>2 DEF TypesInv
<1>5. ASSUME NEW o \in Mailbox, NEW dlc \in Lengths, ArriveStep(o, dlc) PROVE HistoryOK'
  <2>1. /\ UNCHANGED <<sampled, disturbed, completions, expiries, unreported>>
        /\ origin' = Append(origin, o) /\ arrivals' = arrivals + 1
    BY <1>5, Zenon DEF ArriveStep, Arrive
  <2> QED BY <2>1, FramesGrow DEF TypesInv
<1>6. ASSUME NEW o \in Mailbox, FrameOutStep(o) PROVE HistoryOK'
  <2>1. /\ UNCHANGED <<sampled, origin, disturbed, expiries>> /\ UNCHANGED bus
    BY <1>6, Zenon DEF FrameOutStep, FrameOut, Transmit, RemoteFrame
  <2>2. \/ unreported' = unreported \union {o} /\ completions' = completions + 1
        \/ UNCHANGED <<unreported, completions>>
    BY <1>6, Zenon DEF FrameOutStep
  <2> QED BY <2>1, <2>2 DEF TypesInv, bus
<1>7. ASSUME UNCHANGED <<completions, origin, arrivals, sampled, disturbed>>,
             unreported' \subseteq unreported, expiries' \in [1..2 -> Nat]
      PROVE  HistoryOK'
  BY <1>7 DEF TypesInv
<1>8. CASE IsrSnapshot \/ IsrClear \/ IsrTake \/ IsrQueueFrame
  <2>1. UNCHANGED <<sampled, ghosts, expiries, bus>>
    BY <1>8, Zenon DEF IsrSnapshot, IsrClear, IsrIssue, IsrTake, IsrQueueFrame
  <2> QED BY <1>7, <2>1 DEF ghosts, bus, TypesInv
<1>9. CASE IsrNothingNew \/ IsrLengthRefused \/ \E o \in Mailbox : IsrEnter(o)
  <2>1. /\ UNCHANGED <<sampled, origin, unreported, disturbed, completions, expiries>>
        /\ UNCHANGED vars
    BY <1>9, Zenon DEF IsrNothingNew, IsrLengthRefused, IsrEnter, ghosts
  <2> QED BY <1>7, <2>1 DEF vars, TypesInv
<1>10. CASE IsrReportCompletion
  <2>1. /\ UNCHANGED <<sampled, origin, disturbed, completions, expiries, bus>>
        /\ unreported' \subseteq unreported
    BY <1>10, Zenon DEF IsrReportCompletion
  <2> QED BY <1>7, <2>1 DEF bus, TypesInv
<1>11. CASE IsrExpires
  <2>1. UNCHANGED <<sampled, ghosts, bus>> /\ expiries' = [expiries EXCEPT ![2] = @ + 1]
    BY <1>11, Zenon DEF IsrExpires
  <2> QED BY <1>7, <2>1 DEF ghosts, bus, TypesInv
<1>12. CASE UNCHANGED all
  BY <1>7, <1>12 DEF all, events, vars, TypesInv
<1> QED
  BY <1>1, <1>3, <1>4, <1>5, <1>6, <1>8, <1>9, <1>10, <1>11, <1>12, ForegroundFrame
     DEF EventsNext, IsrStep, PeripheralStep

\* Types are kept by every step, and hold from the first state.
LEMMA TypesStep ==
  ASSUME TypesInv, [EventsNext]_all
  PROVE  TypesInv'
<1>1. TypeOK'
  <2>1. CASE UNCHANGED all
    BY <2>1 DEF all, vars, TypesInv, TypeOK
  <2> QED BY <2>1, ForegroundKeepsMailbox, IsrKeepsMailbox, PeripheralKeepsMailbox
             DEF TypesInv, EventsNext
<1> QED BY <1>1, HandleKept, QueuesKept, IsrKept, HistoryKept DEF TypesInv

LEMMA EventsInitTyped == EventsInit => TypesInv
<1> SUFFICES ASSUME EventsInit PROVE TypesInv
  OBVIOUS
<1>1. TypeOK
  BY InitTyped DEF EventsInit
<1>2. IsrOK
  BY IdleIsrIsTyped DEF EventsInit, IsrOK, IdleIsr
<1>3. HandleOK /\ QueuesOK
  BY DEF EventsInit, HandleOK, QueuesOK, CleanHandle
<1>4. HistoryOK
  BY DEF EventsInit, Init, HistoryOK
<1> QED BY <1>1, <1>2, <1>3, <1>4 DEF TypesInv

LEMMA TypesHold == EventsSpec => []TypesInv
<1>1. TypesInv /\ [EventsNext]_all => TypesInv'
  BY TypesStep
<1> QED BY <1>1, EventsInitTyped, PTL DEF EventsSpec

\* EventsTypeOK: no event queue outgrows the storage the caller gave it, and the ISR is at
\* work only while interrupts are enabled, for every allocation and configuration.
THEOREM EventsTyped == EventsSpec => []EventsTypeOK
<1>1. TypesInv => EventsTypeOK
  BY DEF TypesInv, EventsTypeOK, HandleOK, QueuesOK, IsrOK
<1> QED BY <1>1, TypesHold, PTL

-----------------------------------------------------------------------------
(* Timeouts *)

\* While the foreground is about to store its increment, the ISR may have counted, and
\* what is stored may be older than what is there.
TimeoutInv ==
  LET n == canDiagnostics.transactionTimeoutCount
      expired == expiries[1] + expiries[2]
  IN IF At("expired")
     THEN sampled < expired /\ n < expired
     ELSE (n = 0 <=> expired = 0) /\ n <= expired

\* Counting an event leaves every other counter alone.
LEMMA CountEventOthers ==
  ASSUME NEW d \in [Counter -> Nat], NEW capacity, NEW length,
         NEW done \in Counter, NEW dropped \in Counter,
         NEW c \in Counter \ {done, dropped, "unexpectedInterruptCount"}
  PROVE  CountEvent(d, capacity, length, done, dropped)[c] = d[c]
  BY DEF CountEvent

\* The counters that only events and timeouts move.
EventCountsKept ==
  /\ canDiagnostics'.transactionTimeoutCount = canDiagnostics.transactionTimeoutCount
  /\ canDiagnostics'.txCompleteCount = canDiagnostics.txCompleteCount
  /\ canDiagnostics'.rxQueueOverflowCount = canDiagnostics.rxQueueOverflowCount
  /\ canDiagnostics'.unexpectedInterruptCount = canDiagnostics.unexpectedInterruptCount

\* No call but one that gave up is in the state expired.
LEMMA CallsCountNoTimeout ==
  ASSUME TypeOK, CallStep \/ FinishObject \/ WriteBack \/ EndReceive
  PROVE  ~At("expired") /\ ~At("expired")' /\ EventCountsKept
<1> USE DEF At, Idle, EventCountsKept
<1>1. IdleCall.pc = "idle"
  BY DEF IdleCall
<1>2. CASE StartStopController
  BY <1>2 DEF StartStopController, StartStop
<1>3. ASSUME NEW o \in Mailbox, NEW arg, NEW pc \in {"setup", "commit", "poll"}, NEW op, Begin(Call(pc, op, o, arg), {o})
      PROVE  /\ ~At("expired") /\ ~At("expired")' /\ UNCHANGED canDiagnostics
  <2>1. fg' = [IdleCall EXCEPT !.pc = pc, !.op = op, !.obj = o, !.arg = arg] /\ fg.pc = "idle"
        /\ UNCHANGED canDiagnostics
    BY <1>3 DEF Begin, Call
  <2> QED BY <2>1 DEF IdleCall
<1>4. CASE \E o \in Mailbox : Receive(o) \/ \E ie \in BOOLEAN : ConfigureObject(o, ie)
  <2>1. PICK o \in Mailbox : Receive(o) \/ \E ie \in BOOLEAN : ConfigureObject(o, ie)
    BY <1>4
  <2>2. ASSUME NEW ie \in BOOLEAN, ConfigureObject(o, ie)
        PROVE  \E arg : Begin(Call("setup", "configure", o, arg), {o})
    <3>1. ConfigureRx(o, ie) \/ ConfigureSender(o, ie)
      BY <2>2, Zenon DEF ConfigureObject
    <3>2. PICK role, dlc, data : ConfigureCall(o, role, ie, dlc, data)
      BY <3>1, Zenon
         DEF ConfigureRx, ConfigureSender, ConfigureTx, ConfigureRemoteRequest,
             ConfigureRemoteResponse
    <3> QED BY <3>2, Zenon DEF ConfigureCall
  <2>3. Receive(o) => Begin(Call("poll", "receive", o, Blank), {o})
    BY DEF Receive, ReceiveCall
  <2> QED BY <1>3, <2>1, <2>2, <2>3
<1>5. CASE CancelCalls
  <2>1. PICK op, scope : CancelCall(op, scope)
    BY <1>5, Zenon DEF CancelCalls, CancelAll, AbortTx
  <2>2. fg.pc = "idle" /\ UNCHANGED canDiagnostics
    BY <2>1, Zenon DEF CancelCall
  <2>3. \/ UNCHANGED fg
        \/ \E o, todo : fg' = [IdleCall EXCEPT !.pc = "cancel", !.op = op,
                         !.obj = o, !.todo = todo, !.found = todo]
    BY <2>1, Zenon DEF CancelCall
  <2>4. ASSUME NEW o, NEW todo, fg' = [IdleCall EXCEPT !.pc = "cancel", !.op = op,
                                         !.obj = o, !.todo = todo, !.found = todo]
        PROVE  fg'.pc = "cancel"
    BY <2>4 DEF IdleCall
  <2>5. UNCHANGED fg \/ fg'.pc = "cancel"
    BY <2>3, <2>4, Zenon
  <2> QED BY <2>2, <2>5
<1>6. CASE SetupObject \/ PreloadObject \/ ConfigureReturns \/ ReadControl \/ WriteControl
           \/ CancelNext \/ CancelReturns
  BY <1>1, <1>6
     DEF SetupObject, PreloadObject, WriteData, ConfigureReturns, ObjectLoaded, ReadControl,
         WriteControl, CancelNext, CancelReturns, Submit, TypeOK
<1>7. CASE ReadObject \/ NothingNew \/ TakeObject \/ LengthRefused
  BY <1>1, <1>7 DEF ReadObject, NothingNew, TakeObject, LengthRefused, Submit, TypeOK
<1>8. CASE Deliver
  <2>1. fg.pc = "taken" /\ fg' = IdleCall
        /\ canDiagnostics' = Counted(canDiagnostics, fg.arg)
    BY <1>8 DEF Deliver
  <2>2. EventCountsKept
    BY <2>1 DEF Counted, TypeOK, Counter
  <2> QED BY <1>1, <2>1, <2>2
<1>9. CASE Busy \/ NotBusy \/ ReadLength \/ LengthMismatch \/ SubmitData
           \/ SubmitRemoteRequest \/ UpdateData \/ UpdateReturns
  BY <1>1, <1>9
     DEF Busy, NotBusy, ReadLength, LengthMismatch, SubmitData, SubmitRemoteRequest, UpdateData,
         WriteData, UpdateReturns, Submit, TypeOK
<1>10. CASE RequestAccepted
  <2>1. fg.pc = "submitted" /\ fg' = IdleCall
        /\ canDiagnostics' = [canDiagnostics EXCEPT !.txRequestCount = @ + 1]
    BY <1>10 DEF RequestAccepted
  <2>2. EventCountsKept
    BY <2>1 DEF TypeOK, Counter
  <2> QED BY <1>1, <2>1, <2>2
<1>11. CASE \E o \in Mailbox : \/ \E dlc \in SendLength, data \in CallerData : SendCall(o, dlc, data)
                               \/ RequestCall(o)
                               \/ \E data \in CallerData : UpdateCall(o, data)
  <2>1. PICK o, op, arg : o \in Mailbox /\ Begin(Call("commit", op, o, arg), {o})
    BY <1>11, Zenon DEF SendCall, RequestCall, UpdateCall
  <2> QED BY <1>3, <2>1
<1> QED
  BY <1>2, <1>4, <1>5, <1>6, <1>7, <1>8, <1>9, <1>10, <1>11
     DEF CallStep, FinishObject, WriteBack, EndReceive, MailboxStep, Transmitting

\* Every step counts an expired wait, keeps it in the foreground's sample, or counts nothing.
LEMMA TimeoutStep ==
  ASSUME TypesInv, TimeoutInv, [EventsNext]_all
  PROVE  TimeoutInv'
<1> USE DEF TimeoutInv
<1>1. /\ canDiagnostics.transactionTimeoutCount \in Nat /\ sampled \in Nat
      /\ expiries[1] \in Nat /\ expiries[2] \in Nat
  BY DEF TypesInv, TypeOK, HistoryOK, Counter
<1>2. ASSUME canDiagnostics'.transactionTimeoutCount = canDiagnostics.transactionTimeoutCount,
             UNCHANGED expiries, ~At("expired"), ~At("expired")'
      PROVE  TimeoutInv'
  BY <1>2
<1>3. ASSUME canDiagnostics'.transactionTimeoutCount = canDiagnostics.transactionTimeoutCount,
             UNCHANGED <<expiries, fg, sampled>>
      PROVE  TimeoutInv'
  BY <1>3 DEF At
<1>4. CASE ForegroundStep
  <2>1. ASSUME NEW config, NEW timeout, InitController(config, timeout) PROVE TimeoutInv'
    <3>1. /\ canDiagnostics' = [c \in Counter |-> 0] /\ expiries' = [i \in 1..2 |-> 0]
          /\ UNCHANGED fg /\ Idle
      BY <2>1, Zenon DEF InitController
    <3>2. canDiagnostics'.transactionTimeoutCount = 0 /\ expiries'[1] = 0 /\ expiries'[2] = 0
      BY <3>1 DEF Counter
    <3>3. ~At("expired")'
      BY <3>1 DEF At, Idle
    <3> QED BY <3>2, <3>3
  <2>2. CASE \/ \E config \in InterruptConfigs : ConfigureInterrupts(config)
             \/ EnableInterrupts \/ DisableInterrupts \/ GetTxCompleteEvent
    <3>1. UNCHANGED vars /\ UNCHANGED <<expiries, sampled>>
      BY <2>2, Zenon
         DEF ConfigureInterrupts, EnableInterrupts, DisableInterrupts, GetTxCompleteEvent
    <3> QED BY <1>3, <3>1 DEF vars
  <2>3. CASE GetRxEvent
    <3>1. UNCHANGED <<canDiagnostics, expiries, fg, sampled>>
      BY <2>3, Zenon DEF GetRxEvent
    <3> QED BY <1>3, <3>1
  <2>4. CASE CallStep \/ FinishObject \/ WriteBack \/ EndReceive
    <3>1. UNCHANGED expiries
      <4>1. CASE CallStep
        BY <4>1 DEF CallStep, StartStopController, CancelCalls, MailboxStep, Receive,
                    ConfigureObject, events
      <4>2. CASE FinishObject \/ WriteBack \/ EndReceive
        BY <4>2, Zenon DEF FinishObject, WriteBack, EndReceive
      <4> QED BY <2>4, <4>1, <4>2
    <3> QED BY <1>2, <2>4, <3>1, CallsCountNoTimeout DEF TypesInv, EventCountsKept
  <2>5. CASE WaitGivesUp
    <3>1. /\ ~At("expired") /\ fg' = [fg EXCEPT !.pc = "expired"] /\ UNCHANGED canDiagnostics
          /\ sampled' = canDiagnostics.transactionTimeoutCount
          /\ expiries' = [expiries EXCEPT ![Interface] = @ + 1]
      BY <2>5, Zenon DEF WaitGivesUp
    <3>2. At("expired")'
      BY <3>1 DEF At, TypesInv, TypeOK
    <3>3. expiries'[1] + expiries'[2] = expiries[1] + expiries[2] + 1
      BY <1>1, <3>1 DEF Interface, TypesInv, HistoryOK
    <3> QED BY <1>1, <3>1, <3>2, <3>3
  <2>6. CASE CountTimeout
    <3>1. /\ At("expired") /\ fg' = IdleCall /\ UNCHANGED expiries
          /\ canDiagnostics' = [canDiagnostics EXCEPT !.transactionTimeoutCount = sampled + 1]
      BY <2>6 DEF CountTimeout, Incremented
    <3>2. canDiagnostics'.transactionTimeoutCount = sampled + 1 /\ ~At("expired")'
      BY <3>1 DEF TypesInv, TypeOK, Counter, At, IdleCall
    <3> QED BY <1>1, <3>1, <3>2
  <2> QED BY <1>4, <2>1, <2>2, <2>3, <2>4, <2>5, <2>6 DEF ForegroundStep, CallStep
<1>5. CASE PeripheralStep
  <2>1. UNCHANGED <<canDiagnostics, expiries, fg, sampled>>
    BY <1>5, Zenon
       DEF PeripheralStep, TransferStep, ArriveStep, FrameOutStep, Transfer, Arrive, FrameOut,
           Transmit, RemoteFrame
  <2> QED BY <1>3, <2>1
<1>6. CASE IsrSnapshot \/ IsrClear \/ IsrTake
  <2>1. UNCHANGED <<canDiagnostics, expiries, fg, sampled>>
    BY <1>6, Zenon DEF IsrSnapshot, IsrClear, IsrTake, IsrIssue
  <2> QED BY <1>3, <2>1
<1>7. CASE IsrNothingNew \/ IsrLengthRefused \/ \E o \in Mailbox : IsrEnter(o)
  <2>1. UNCHANGED vars /\ UNCHANGED <<expiries, sampled>>
    BY <1>7, Zenon DEF IsrNothingNew, IsrLengthRefused, IsrEnter
  <2> QED BY <1>3, <2>1 DEF vars
<1>8. CASE IsrQueueFrame
  <2> DEFINE d == [canDiagnostics EXCEPT !.rxOverflowCount = IF isr.arg.msglst THEN @ + 1 ELSE @]
  <2>1. /\ canDiagnostics' = CountEvent(d, can.rxCapacity, Len(rxEventQueue),
                                        "rxFrameCount", "rxQueueOverflowCount")
        /\ UNCHANGED <<expiries, fg, sampled>>
    BY <1>8, Zenon DEF IsrQueueFrame
  <2>2. /\ d \in [Counter -> Nat]
        /\ d.transactionTimeoutCount = canDiagnostics.transactionTimeoutCount
    BY DEF TypesInv, TypeOK, Counter
  <2> HIDE DEF d
  <2>3. canDiagnostics'.transactionTimeoutCount = d.transactionTimeoutCount
    BY <2>1, <2>2, CountEventOthers DEF Counter
  <2> QED BY <1>3, <2>1, <2>2, <2>3
<1>9. CASE IsrReportCompletion
  <2>1. /\ canDiagnostics' = CountEvent(canDiagnostics, can.txCapacity, Len(txCompleteEventQueue),
                                        "txCompleteCount", "txEventOverflowCount")
        /\ UNCHANGED <<expiries, fg, sampled>>
    BY <1>9, Zenon DEF IsrReportCompletion
  <2>2. canDiagnostics'.transactionTimeoutCount = canDiagnostics.transactionTimeoutCount
    BY <2>1, CountEventOthers DEF Counter, TypesInv, TypeOK
  <2> QED BY <1>3, <2>1, <2>2
<1>10. CASE IsrExpires
  <2>1. /\ canDiagnostics' = TimedOut(canDiagnostics) /\ expiries' = [expiries EXCEPT ![2] = @ + 1]
        /\ UNCHANGED <<fg, sampled>>
    BY <1>10, Zenon DEF IsrExpires
  <2>2. /\ canDiagnostics'.transactionTimeoutCount = canDiagnostics.transactionTimeoutCount + 1
        /\ expiries'[1] = expiries[1] /\ expiries'[2] = expiries[2] + 1
    BY <2>1 DEF TimedOut, TypesInv, TypeOK, HistoryOK, Counter
  <2> QED BY <1>1, <2>1, <2>2 DEF At
<1>11. CASE UNCHANGED all
  BY <1>3, <1>11 DEF all, events, vars
<1> QED
  BY <1>4, <1>5, <1>6, <1>7, <1>8, <1>9, <1>10, <1>11 DEF EventsNext, IsrStep

LEMMA TimeoutsHold == EventsSpec => []TimeoutInv
<1>1. EventsInit => TimeoutInv
  BY DEF EventsInit, Init, TimeoutInv, Counter, At, IdleCall
<1>2. TypesInv /\ TimeoutInv /\ [EventsNext]_all => TimeoutInv'
  BY TimeoutStep
<1> QED BY <1>1, <1>2, TypesHold, PTL DEF EventsSpec

\* TimeoutsVisible: the count that foreground and ISR increment without a lock may lose
\* increments, but never all of them, and it never shows a timeout that did not happen.
THEOREM TimeoutsAreVisible == EventsSpec => []TimeoutsVisible
<1>1. TimeoutInv => TimeoutsVisible
  BY DEF TimeoutInv, TimeoutsVisible
<1> QED BY <1>1, TimeoutsHold, PTL

-----------------------------------------------------------------------------
(* What a step of a call does to the call and to the interfaces *)

\* The call goes to its next step.
Goes(step) ==
  /\ fg'.pc = step /\ fg'.op = fg.op /\ fg'.obj = fg.obj /\ fg'.arg = fg.arg
  /\ fg'.todo = fg.todo

\* A command is issued on a free interface.
Issued(i, o, regs, write, fields) ==
  /\ ~ifc[i].busy /\ ifc'[i].busy /\ ifc'[i].regs = regs
  /\ ifc'[i].cmd.obj = o /\ ifc'[i].cmd.write = write /\ ifc'[i].cmd.fields = fields
  /\ \A j \in 1..2 : j # i => ifc'[j] = ifc[j]

\* The call submits a command on interface 1.
Submits(from, regs, write, fields, step) ==
  /\ fg.pc = from /\ Issued(1, fg.obj, regs, write, fields) /\ Goes(step)
  /\ UNCHANGED <<running, purpose>>

\* Nothing is begun: the controller starts or stops, or there is no request to cancel.
Stays == fg.pc = "idle" /\ can.initialized /\ UNCHANGED <<fg, ifc, purpose>>

\* A call on an object that is configured for it begins.
Opens(op, step, role) ==
  /\ fg.pc = "idle" /\ purpose[fg'.obj] = role
  /\ fg'.op = op /\ fg'.pc = step /\ fg'.todo = {}
  /\ UNCHANGED <<ifc, running, purpose>>

\* A configuration begins: the object is not configured until the call returns OK.
OpensConfigure ==
  /\ fg.pc = "idle" /\ can.initialized /\ ~can.enabled /\ ~running
  /\ fg'.op = "configure" /\ fg'.pc = "setup" /\ fg'.todo = {}
  /\ fg'.arg.role \in Allocation[fg'.obj]
  /\ fg'.arg.role # "NONE" /\ ~fg'.arg.newdat /\ ~fg'.arg.txrqst /\ ~fg'.arg.intpnd
  /\ purpose' = [purpose EXCEPT ![fg'.obj] = "NONE"]
  /\ UNCHANGED <<ifc, running>>

\* A cancel begins on the requests that are pending.
OpensCancel ==
  /\ fg.pc = "idle" /\ can.initialized
  /\ fg'.op \in Cancels /\ fg'.pc = "cancel" /\ \A o \in fg'.todo : ram[o].txrqst
  /\ UNCHANGED <<ifc, running, purpose>>

\* A call ends in one of these steps.
Returns(from) ==
  /\ fg.pc \in from /\ fg' = IdleCall
  /\ UNCHANGED <<ifc, running>>

\* The model's commands are the ones the moves speak of.
LEMMA IssueIsIssued ==
  ASSUME TypeOK, NEW i \in 1..2, ~ifc[i].busy, NEW o, NEW regs, NEW write, NEW fields,
         Issue(i, o, regs, write, fields)
  PROVE  Issued(i, o, regs, write, fields)
<1>1. /\ ifc'[i].busy /\ ifc'[i].regs = regs /\ ifc'[i].cmd.obj = o
      /\ ifc'[i].cmd.write = write /\ ifc'[i].cmd.fields = fields
      /\ \A j \in 1..2 : j # i => ifc'[j] = ifc[j]
  BY IssueFacts, Zenon
<1> QED BY <1>1 DEF Issued

LEMMA SubmitGoes ==
  ASSUME TypeOK, Ready(1), NEW regs, NEW write, NEW fields, NEW step, NEW from, At(from),
         Submit(1, regs, write, fields, step), UNCHANGED callerView
  PROVE  Submits(from, regs, write, fields, step)
<1>1. Issue(1, fg.obj, regs, write, fields) /\ fg' = [fg EXCEPT !.pc = step]
  BY DEF Submit
<1>2. Issued(1, fg.obj, regs, write, fields)
  BY <1>1, IssueIsIssued DEF Ready
<1>3. Goes(step)
  BY <1>1 DEF TypeOK, Goes
<1> QED BY <1>2, <1>3 DEF Submits, At, callerView

\* The calls of the model open as OpenMoves says.
LEMMA BeginOpens ==
  ASSUME NEW pc, NEW op, NEW o, NEW arg, Begin(Call(pc, op, o, arg), {o})
  PROVE  /\ fg.pc = "idle" /\ UNCHANGED <<ifc, running>>
         /\ fg'.pc = pc /\ fg'.op = op /\ fg'.obj = o /\ fg'.arg = arg /\ fg'.todo = {}
<1>1. /\ fg' = [IdleCall EXCEPT !.pc = pc, !.op = op, !.obj = o, !.arg = arg] /\ fg.pc = "idle"
      /\ UNCHANGED <<ifc, running>>
  BY DEF Begin, Call, Idle
<1> QED BY <1>1 DEF IdleCall

LEMMA ConfigureOpens ==
  ASSUME TypeOK, NEW o \in Mailbox, NEW ie \in BOOLEAN, ConfigureObject(o, ie)
  PROVE  OpensConfigure
<1>1. /\ can.initialized /\ ~can.enabled
      /\ ConfigureRx(o, ie) \/ ConfigureSender(o, ie)
  BY Zenon DEF ConfigureObject
<1>2. PICK role, dlc, data : ConfigureCall(o, role, ie, dlc, data)
  BY <1>1, Zenon
     DEF ConfigureRx, ConfigureSender, ConfigureTx, ConfigureRemoteRequest, ConfigureRemoteResponse
<1> DEFINE arg == [Blank EXCEPT !.role = role, !.ie = ie, !.dlc = dlc, !.data = data]
<1>3. /\ ~running /\ role \in Allocation[o] /\ Begin(Call("setup", "configure", o, arg), {o})
      /\ purpose' = [purpose EXCEPT ![o] = "NONE"]
  BY <1>2, Zenon DEF ConfigureCall
<1>4. role # "NONE"
  BY <1>3, AllocationAssumption
<1>5. arg.role = role /\ ~arg.newdat /\ ~arg.txrqst /\ ~arg.intpnd
  BY DEF Blank
<1> HIDE DEF arg
<1>6. /\ fg.pc = "idle" /\ UNCHANGED <<ifc, running>>
      /\ fg'.pc = "setup" /\ fg'.op = "configure" /\ fg'.obj = o /\ fg'.arg = arg /\ fg'.todo = {}
  BY <1>3, BeginOpens, Zenon
<1> QED BY <1>1, <1>3, <1>4, <1>5, <1>6 DEF OpensConfigure

LEMMA CancelCallOpens ==
  ASSUME NEW op \in Cancels, NEW scope, can.initialized, CancelCall(op, scope)
  PROVE  (Stays /\ UNCHANGED running) \/ OpensCancel
<1> DEFINE pending == TxRequests \intersect scope
<1>1. /\ fg.pc = "idle" /\ UNCHANGED <<running, ifc, purpose>>
      /\ IF pending = {} THEN UNCHANGED fg
         ELSE fg' = [IdleCall EXCEPT !.pc = "cancel", !.op = op,
                       !.obj = NextObject(pending), !.todo = pending, !.found = pending]
  BY Zenon DEF CancelCall, Idle
<1>2. \A o \in pending : ram[o].txrqst
  BY DEF TxRequests
<1> HIDE DEF pending
<1>3. CASE UNCHANGED fg
  BY <1>1, <1>3 DEF Stays
<1>4. CASE fg' = [IdleCall EXCEPT !.pc = "cancel", !.op = op,
                    !.obj = NextObject(pending), !.todo = pending, !.found = pending]
  <2>1. fg'.op = op /\ fg'.pc = "cancel" /\ fg'.todo = pending
    BY <1>4 DEF IdleCall
  <2> QED BY <1>1, <1>2, <2>1 DEF OpensCancel
<1> QED BY <1>1, <1>3, <1>4

LEMMA CancelOpens ==
  ASSUME CancelCalls
  PROVE  (Stays /\ UNCHANGED running) \/ OpensCancel
<1>1. can.initialized /\ (CancelAll \/ \E o \in Mailbox : AbortTx(o))
  BY Zenon DEF CancelCalls
<1>2. "abort" \in Cancels /\ "cancelAll" \in Cancels
  BY DEF Cancels
<1>3. CASE CancelAll
  BY <1>1, <1>2, <1>3, CancelCallOpens, Zenon DEF CancelAll
<1>4. ASSUME NEW o \in Mailbox, AbortTx(o) PROVE (Stays /\ UNCHANGED running) \/ OpensCancel
  BY <1>1, <1>2, <1>4, CancelCallOpens, Zenon DEF AbortTx
<1> QED BY <1>1, <1>3, <1>4

\* A call begins.
OpenMoves ==
  /\ \/ Stays
     \/ OpensConfigure \/ OpensCancel
     \/ running /\ Opens("send", "commit", "TX_DATA")
     \/ running /\ Opens("request", "commit", "TX_REMOTE_REQUEST")
     \/ Opens("update", "commit", "REMOTE_RESPONSE")
     \/ running /\ ~can.enabled /\ Opens("receive", "poll", "RX_DATA")
  /\ UNCHANGED <<can, settled, disturbed>>

\* A command is issued on interface 1.
SubmitMoves ==
  \/ /\ Submits("setup", [fg.arg EXCEPT !.data = ifc[1].regs.data], TRUE,
                {"ARB", "CONTROL"}, "loaded")
     /\ UNCHANGED <<can, settled, disturbed>>
  \/ /\ fg.arg.role = "REMOTE_RESPONSE"
     /\ \E regs : Submits("loaded", regs, TRUE, {"DATA"}, "stored")
     /\ can' = Routed /\ UNCHANGED <<settled, disturbed>>
  \/ /\ \/ fg.op = "send" /\ Submits("free", ifc[1].regs, FALSE, {"CONTROL"}, "length")
        \/ \E regs : \E fields \in {{"DATA", "TXRQST"}, {"TXRQST"}} :
             Submits("length", regs, TRUE, fields, "submitted")
        \/ fg.op = "request" /\ Submits("free", ifc[1].regs, TRUE, {"TXRQST"}, "submitted")
        \/ fg.op = "update" /\ \E regs : Submits("free", regs, TRUE, {"DATA"}, "stored")
        \/ Submits("cancel", ifc[1].regs, FALSE, {"CONTROL", "TXRQST"}, "control")
     /\ UNCHANGED <<can, settled, disturbed>>
  \/ /\ Submits("control", Cleared(ifc[1].regs), TRUE, {"CONTROL", "TXRQST"}, "next")
     /\ disturbed' = disturbed \union {fg.obj}
     /\ UNCHANGED <<can, settled>>

\* A command is issued on interface 2, or none.
OtherMoves ==
  /\ \/ /\ fg.pc = "commit" /\ ~ifc[1].busy /\ ~ram[fg.obj].txrqst
        /\ Goes("free") /\ UNCHANGED <<ifc, running, purpose>>
     \/ /\ fg.pc = "next" /\ ~ifc[1].busy /\ UNCHANGED <<ifc, running, purpose>>
        /\ fg'.pc = "cancel" /\ fg'.op = fg.op /\ fg'.todo \subseteq fg.todo
     \/ /\ fg.pc = "poll" /\ Goes("fetched") /\ UNCHANGED <<running, purpose>>
        /\ Issued(2, fg.obj, ifc[2].regs, FALSE, SnapshotFields)
     \/ /\ fg.pc = "fetched" /\ UNCHANGED <<running, purpose>>
        /\ ifc[2].regs.newdat /\ Issued(2, fg.obj, ifc[2].regs, FALSE, AcknowledgeFields)
        /\ fg'.pc = "taken" /\ fg'.op = fg.op /\ fg'.obj = fg.obj /\ fg'.arg = ifc[2].regs
        /\ fg'.todo = fg.todo
  /\ UNCHANGED <<can, settled, disturbed>>

\* A call returns.
ReturnMoves ==
  \/ /\ Returns({"loaded", "stored"}) /\ ~ifc[1].busy /\ fg.op = "configure"
     /\ purpose' = [purpose EXCEPT ![fg.obj] = fg.arg.role]
     /\ can' = Routed /\ UNCHANGED <<settled, disturbed>>
  \/ /\ Returns({"commit", "length", "submitted", "stored", "next"}) /\ ~ifc[1].busy
     /\ UNCHANGED <<purpose, can, settled, disturbed>>
  \/ /\ Returns({"fetched"}) /\ ~ifc[2].busy /\ ~ifc[2].regs.newdat
     /\ UNCHANGED <<purpose, can, settled, disturbed>>
  \/ /\ Returns({"taken"}) /\ ~ifc[2].busy /\ settled' = settled \union {fg.arg.data}
     /\ UNCHANGED <<purpose, can, disturbed>>

\* All that a step of a call may do.
CallMoves == OpenMoves \/ SubmitMoves \/ OtherMoves \/ ReturnMoves

LEMMA CallsOpen ==
  ASSUME TypeOK, NEW o \in Mailbox,
         \/ \E dlc \in SendLength, data \in CallerData : SendCall(o, dlc, data)
         \/ RequestCall(o)
         \/ \E data \in CallerData : UpdateCall(o, data)
         \/ ~can.enabled /\ ReceiveCall(o)
  PROVE  \/ running /\ Opens("send", "commit", "TX_DATA")
         \/ running /\ Opens("request", "commit", "TX_REMOTE_REQUEST")
         \/ Opens("update", "commit", "REMOTE_RESPONSE")
         \/ running /\ ~can.enabled /\ Opens("receive", "poll", "RX_DATA")
<1>1. ASSUME NEW pc, NEW op, NEW arg, NEW role, purpose[o] = role, UNCHANGED purpose,
             Begin(Call(pc, op, o, arg), {o})
      PROVE  Opens(op, pc, role)
  BY <1>1, BeginOpens, Zenon DEF Opens
<1>2. ASSUME NEW dlc, NEW data, SendCall(o, dlc, data)
      PROVE  running /\ Opens("send", "commit", "TX_DATA")
  BY <1>1, <1>2, Zenon DEF SendCall
<1>3. ASSUME RequestCall(o) PROVE running /\ Opens("request", "commit", "TX_REMOTE_REQUEST")
  BY <1>1, <1>3, Zenon DEF RequestCall
<1>4. ASSUME NEW data, UpdateCall(o, data) PROVE Opens("update", "commit", "REMOTE_RESPONSE")
  BY <1>1, <1>4, Zenon DEF UpdateCall
<1>5. ASSUME ReceiveCall(o) PROVE running /\ Opens("receive", "poll", "RX_DATA")
  BY <1>1, <1>5, Zenon DEF ReceiveCall
<1> QED BY <1>2, <1>3, <1>4, <1>5, Zenon

\* Unless noted, only the call, the interfaces and the caller's view change.
LEMMA CallFacts ==
  ASSUME TypesInv, CallStep \/ FinishObject \/ WriteBack \/ EndReceive
  PROVE  CallMoves
<1> USE DEF TypesInv
<1> USE DEF CallMoves
<1>0. 2 \in 1..2
  OBVIOUS
<1>1. CASE CallStep
  <2>1. UNCHANGED <<can, settled, disturbed>>
    BY <1>1 DEF CallStep, StartStopController, CancelCalls, MailboxStep, Receive,
                ConfigureObject, events
  <2>2. CASE StartStopController
    <3>1. Stays
      BY <2>2 DEF StartStopController, StartStop, Stays, Idle
    <3> QED BY <2>1, <3>1, Zenon DEF OpenMoves
  <2>3. ASSUME NEW o \in Mailbox, Receive(o) \/ \E ie \in BOOLEAN : ConfigureObject(o, ie)
        PROVE  CallMoves
    <3>1. ASSUME Receive(o) PROVE ~can.enabled /\ ReceiveCall(o)
      BY <3>1 DEF Receive, MayPoll
    <3> QED BY <2>1, <2>3, <3>1, CallsOpen, ConfigureOpens, Zenon DEF OpenMoves
  <2>4. CASE CancelCalls
    BY <2>1, <2>4, CancelOpens, Zenon DEF OpenMoves
  <2>5. CASE SetupObject
    BY <2>1, <2>5, SubmitGoes, Zenon DEF SetupObject, SubmitMoves
  <2>6. CASE ReadControl
    BY <2>1, <2>6, SubmitGoes, Zenon DEF ReadControl, SubmitMoves
  <2>7. CASE Transmitting
    <3>1. ASSUME NEW o \in Mailbox,
                 \/ \E dlc \in SendLength, data \in CallerData : SendCall(o, dlc, data)
                 \/ RequestCall(o)
                 \/ \E data \in CallerData : UpdateCall(o, data)
          PROVE  CallMoves
      BY <2>1, <3>1, CallsOpen, Zenon DEF OpenMoves
    <3>2. CASE NotBusy
      <4>1. fg.pc = "commit" /\ fg' = [fg EXCEPT !.pc = "free"] /\ UNCHANGED <<ifc, running, purpose>>
        BY <3>2 DEF NotBusy, At, callerView
      <4>2. Goes("free")
        BY <4>1 DEF Goes, TypeOK
      <4>3. ~ifc[1].busy /\ ~ram[fg.obj].txrqst
        BY <3>2 DEF NotBusy, Committed, Ready, TxRequests, TypeOK
      <4> QED BY <2>1, <4>1, <4>2, <4>3, Zenon DEF OtherMoves
    <3>3. CASE Busy \/ LengthMismatch \/ RequestAccepted \/ UpdateReturns
      <4>1. /\ fg.pc \in {"commit", "length", "submitted", "stored"} /\ fg' = IdleCall
            /\ ~ifc[1].busy
        BY <3>3 DEF Busy, LengthMismatch, RequestAccepted, UpdateReturns, At, Ready, Committed
      <4>2. UNCHANGED <<ifc, running, purpose>>
        BY <3>3 DEF Busy, LengthMismatch, RequestAccepted, UpdateReturns, callerView
      <4>3. Returns({"commit", "length", "submitted", "stored", "next"})
        BY <4>1, <4>2 DEF Returns
      <4> QED BY <2>1, <4>1, <4>2, <4>3, Zenon DEF ReturnMoves
    <3>4. CASE ReadLength
      BY <2>1, <3>4, SubmitGoes, Zenon DEF ReadLength, SubmitMoves
    <3>5. CASE SubmitData
      <4>1. \E regs : \E fields \in {{"DATA", "TXRQST"}, {"TXRQST"}} :
              Submit(1, regs, TRUE, fields, "submitted")
        <5>1. {"DATA", "TXRQST"} \in {{"DATA", "TXRQST"}, {"TXRQST"}}
              /\ {"TXRQST"} \in {{"DATA", "TXRQST"}, {"TXRQST"}}
          OBVIOUS
        <5> QED BY <3>5, <5>1, Zenon DEF SubmitData
      <4>2. At("length") /\ Ready(1) /\ UNCHANGED callerView
        BY <3>5, Zenon DEF SubmitData
      <4> QED BY <2>1, <4>1, <4>2, SubmitGoes, Zenon DEF SubmitMoves
    <3>6. CASE SubmitRemoteRequest
      BY <2>1, <3>6, SubmitGoes, Zenon DEF SubmitRemoteRequest, SubmitMoves
    <3>7. CASE UpdateData
      BY <2>1, <3>7, SubmitGoes, Zenon DEF UpdateData, WriteData, PreloadFields, SubmitMoves
    <3> QED BY <2>7, <3>1, <3>2, <3>3, <3>4, <3>5, <3>6, <3>7 DEF Transmitting
  <2>8. CASE CancelNext
    <3> DEFINE rest == fg.todo \ {fg.obj}
    <3>1. /\ fg.pc = "next" /\ ~ifc[1].busy /\ UNCHANGED <<ifc, running, purpose>>
          /\ fg' = [fg EXCEPT !.pc = "cancel", !.todo = rest, !.obj = NextObject(rest)]
      BY <2>8 DEF CancelNext, At, Ready, callerView
    <3>2. fg'.pc = "cancel" /\ fg'.op = fg.op /\ fg'.todo \subseteq fg.todo
      BY <3>1 DEF TypeOK
    <3> QED BY <2>1, <3>1, <3>2, Zenon DEF OtherMoves
  <2>9. CASE CancelReturns
    <3>1. fg.pc = "next" /\ ~ifc[1].busy /\ fg' = IdleCall /\ UNCHANGED <<ifc, running, purpose>>
      BY <2>9 DEF CancelReturns, At, Ready
    <3>2. Returns({"commit", "length", "submitted", "stored", "next"})
      BY <3>1 DEF Returns
    <3> QED BY <2>1, <3>1, <3>2, Zenon DEF ReturnMoves
  <2>10. CASE ReadObject
    <3>1. /\ Issue(2, fg.obj, ifc[2].regs, FALSE, SnapshotFields)
          /\ fg.pc = "poll" /\ ~ifc[2].busy
          /\ fg' = [fg EXCEPT !.pc = "fetched"] /\ UNCHANGED <<running, purpose>>
      BY <2>10 DEF ReadObject, Submit, At, Ready, callerView
    <3>2. Issued(2, fg.obj, ifc[2].regs, FALSE, SnapshotFields) /\ Goes("fetched")
      <4>1. Issued(2, fg.obj, ifc[2].regs, FALSE, SnapshotFields)
        BY <3>1, <1>0, IssueIsIssued, Zenon
      <4>2. Goes("fetched")
        BY <3>1 DEF Goes, TypeOK
      <4> QED BY <4>1, <4>2
    <3> QED BY <2>1, <3>1, <3>2, Zenon DEF OtherMoves
  <2>11. CASE TakeObject
    <3>1. /\ Issue(2, fg.obj, ifc[2].regs, FALSE, AcknowledgeFields)
          /\ fg.pc = "fetched" /\ ~ifc[2].busy /\ ifc[2].regs.newdat
          /\ fg' = [fg EXCEPT !.pc = "taken", !.arg = ifc[2].regs]
          /\ UNCHANGED <<running, purpose>>
      BY <2>11 DEF TakeObject, At, Ready, callerView
    <3>2. Issued(2, fg.obj, ifc[2].regs, FALSE, AcknowledgeFields)
      BY <3>1, <1>0, IssueIsIssued, Zenon
    <3>3. /\ fg'.pc = "taken" /\ fg'.op = fg.op /\ fg'.obj = fg.obj /\ fg'.arg = ifc[2].regs
          /\ fg'.todo = fg.todo
      BY <3>1 DEF TypeOK
    <3> QED BY <2>1, <3>1, <3>2, <3>3, Zenon DEF OtherMoves
  <2>12. CASE NothingNew
    <3>1. /\ fg.pc = "fetched" /\ ~ifc[2].busy /\ ~ifc[2].regs.newdat
          /\ fg' = IdleCall /\ UNCHANGED <<ifc, running, purpose>>
      BY <2>12 DEF NothingNew, At, Ready, callerView
    <3>2. Returns({"fetched"})
      BY <3>1 DEF Returns
    <3> QED BY <2>1, <3>1, <3>2, Zenon DEF ReturnMoves
  <2> QED
    BY <1>1, <2>2, <2>3, <2>4, <2>5, <2>6, <2>7, <2>8, <2>9, <2>10, <2>11, <2>12
       DEF CallStep, MailboxStep
<1>2. CASE FinishObject
  <2>1. can' = Routed /\ UNCHANGED <<settled, disturbed>>
    BY <1>2, Zenon DEF FinishObject, ghosts
  <2>2. CASE PreloadObject
    <3>1. \E regs : Submits("loaded", regs, TRUE, {"DATA"}, "stored")
      BY <2>2, SubmitGoes, Zenon DEF PreloadObject, WriteData, PreloadFields
    <3> QED BY <2>1, <2>2, <3>1, Zenon DEF PreloadObject, SubmitMoves
  <2>3. CASE ConfigureReturns
    <3>1. /\ fg.pc \in {"loaded", "stored"} /\ ~ifc[1].busy /\ fg.op = "configure"
          /\ purpose' = [purpose EXCEPT ![fg.obj] = fg.arg.role]
          /\ fg' = IdleCall /\ UNCHANGED <<ifc, running>>
      BY <2>3 DEF ConfigureReturns, ObjectLoaded, At, Ready
    <3>2. Returns({"loaded", "stored"})
      BY <3>1 DEF Returns
    <3> QED BY <2>1, <3>1, <3>2, Zenon DEF ReturnMoves
  <2> QED BY <1>2, <2>2, <2>3 DEF FinishObject
<1>3. CASE WriteBack
  BY <1>3, SubmitGoes, Zenon DEF WriteBack, WriteControl, SubmitMoves
<1>4. CASE EndReceive
  <2>1. /\ fg.pc = "taken" /\ ~ifc[2].busy
        /\ fg' = IdleCall /\ UNCHANGED <<ifc, running, purpose>>
    BY <1>4 DEF EndReceive, Deliver, LengthRefused, At, Ready, callerView
  <2>2. Returns({"taken"})
    BY <2>1 DEF Returns
  <2>3. settled' = settled \union {fg.arg.data} /\ UNCHANGED <<can, disturbed>>
    BY <1>4, Zenon DEF EndReceive
  <2> QED BY <2>1, <2>2, <2>3, Zenon DEF ReturnMoves
<1> QED BY <1>1, <1>2, <1>3, <1>4

-----------------------------------------------------------------------------
(* What every step does to what the invariants speak of *)

\* A step of a call: CallMoves, and the rest stays.
CallFrame ==
  /\ isr.pc = "idle"
  /\ UNCHANGED <<isr, rxEventQueue, origin, arrivals, ram, unreported, completions, expiries>>
  /\ EventCountsKept

\* HAL_CAN_init; a wait that expires in it leaves the interfaces alone.
Resets ==
  /\ isr.pc = "idle" /\ fg.pc = "idle" /\ ~running /\ ~can.enabled
  /\ UNCHANGED <<isr, fg, running, origin, arrivals>>
  /\ ~can'.enabled /\ rxEventQueue' = <<>> /\ settled' = Frames /\ unreported' = {}
  /\ disturbed' = {} /\ completions' = 0 /\ expiries'[1] = 0 /\ expiries'[2] = 0
  /\ \A o \in Mailbox : ram'[o] = Blank /\ purpose'[o] = "NONE"
  /\ canDiagnostics'.txCompleteCount = 0
  /\ IF can'.initialized
     THEN can'.line1 = {} /\ ~ifc'[1].busy /\ ~ifc'[2].busy
     ELSE UNCHANGED ifc

\* The handle's interrupt configuration changes, or an event is taken that no frame
\* belongs to.
Handles ==
  /\ isr.pc = "idle" /\ fg.pc = "idle"
  /\ can'.initialized = can.initialized /\ can'.line1 = can.line1
  /\ can'.enabled => can.enabled \/ can.initialized
  /\ UNCHANGED <<isr, origin, arrivals, ram, ifc, fg, running, purpose, unreported, disturbed,
                 completions, expiries, canDiagnostics>>
  /\ \/ rxEventQueue' = <<>> /\ settled' = settled \union Queued
     \/ UNCHANGED <<rxEventQueue, settled>>

\* A wait of the foreground expires, and is counted.
GivesUp ==
  /\ isr.pc = "idle" /\ fg.pc # "idle" /\ Goes("expired") /\ ifc[Interface].busy
  /\ disturbed' = disturbed \union Misrouted
  /\ expiries'[1] + expiries'[2] > 0
  /\ IF fg.op = "receive" THEN expiries'[2] > 0 ELSE expiries'[2] = expiries[2]
  /\ UNCHANGED <<isr, can, rxEventQueue, origin, arrivals, ram, ifc, running, purpose, settled,
                 unreported, completions, canDiagnostics>>
\* The expired wait is counted.
Counts ==
  /\ isr.pc = "idle" /\ fg.pc = "expired" /\ fg' = IdleCall
  /\ UNCHANGED <<isr, can, rxEventQueue, origin, arrivals, ram, ifc, running, purpose, settled,
                 unreported, disturbed, completions, expiries>>
  /\ canDiagnostics'.txCompleteCount = canDiagnostics.txCompleteCount

\* The foreground takes the oldest event.
TakesEvent ==
  /\ isr.pc = "idle" /\ fg.pc = "idle"
  /\ rxEventQueue # <<>> /\ rxEventQueue' = Tail(rxEventQueue)
  /\ settled' = settled \union {Head(rxEventQueue).data}
  /\ UNCHANGED <<isr, can, origin, arrivals, ram, ifc, fg, running, purpose, unreported, disturbed,
                 completions, expiries, canDiagnostics>>

\* What the peripheral leaves alone.
PeripheralFrame ==
  UNCHANGED <<isr, can, rxEventQueue, fg, running, purpose, disturbed, expiries, canDiagnostics>>

\* The command of interface i is executed.
Executes(i) ==
  LET o == ifc[i].cmd.obj
      fields == ifc[i].cmd.fields
  IN /\ PeripheralFrame /\ UNCHANGED <<origin, arrivals, completions>>
     /\ ifc[i].busy /\ ~ifc'[i].busy
     /\ \A j \in 1..2 : j # i => ifc'[j] = ifc[j]
     /\ o \in Mailbox /\ \A m \in Mailbox : m # o => ram'[m] = ram[m]
     /\ IF ifc[i].cmd.write
        THEN ram'[o] = Written(ram[o], ifc[i].regs, fields) /\ ifc'[i].regs = ifc[i].regs
        ELSE ram'[o] = Released(ram[o], fields) /\ ifc'[i].regs = Fetched(ifc[i].regs, ram[o], fields)
     /\ IF ifc[i].cmd.write /\ "ARB" \in fields
        THEN settled' = settled \union Left(o) /\ unreported' = unreported \ {o}
        ELSE UNCHANGED <<settled, unreported>>

\* A frame is stored in an object.
Arrives(o) ==
  /\ PeripheralFrame /\ UNCHANGED <<ifc, settled, unreported, completions>>
  /\ running /\ ram[o].role = "RX_DATA"
  /\ arrivals + 1 \notin Frames /\ Frames' = Frames \union {arrivals + 1}
  /\ origin'[arrivals + 1] = o /\ \A k \in Frames : origin'[k] = origin[k]
  /\ \A m \in Mailbox : m # o => ram'[m] = ram[m]
  /\ ram'[o].role = ram[o].role /\ ram'[o].txrqst = ram[o].txrqst /\ ram'[o].ie = ram[o].ie
  /\ ram'[o].newdat /\ ram'[o].data = arrivals + 1
  /\ ram'[o].msglst = (ram[o].msglst \/ ram[o].newdat)
  /\ ram'[o].intpnd = (ram[o].intpnd \/ ram[o].ie)

\* A frame goes out, or a remote frame asks for one.
Sends(o) ==
  /\ PeripheralFrame /\ UNCHANGED <<ifc, origin, arrivals, settled>>
  /\ running
  /\ \A m \in Mailbox : m # o => ram'[m] = ram[m]
  /\ ram'[o].role = ram[o].role /\ ram'[o].ie = ram[o].ie /\ ram'[o].newdat = ram[o].newdat
  /\ ram'[o].data = ram[o].data /\ ram'[o].msglst = ram[o].msglst
  /\ \/ /\ ram[o].txrqst /\ ~ram'[o].txrqst
        /\ ram'[o].intpnd = (ram[o].intpnd \/ ram[o].ie)
        /\ IF ram[o].ie
           THEN unreported' = unreported \union {o} /\ completions' = completions + 1
           ELSE UNCHANGED <<unreported, completions>>
     \/ /\ ram[o].role = "REMOTE_RESPONSE" /\ ram'[o].intpnd = ram[o].intpnd
        /\ ram'[o] = [ram[o] EXCEPT !.txrqst = TRUE]
        /\ UNCHANGED <<unreported, completions>>

\* What the ISR leaves alone.
IsrFrame ==
  UNCHANGED <<can, fg, running, purpose, ram, origin, arrivals, disturbed, completions>>

\* The ISR begins to serve an object, by its line.
Enters(o) ==
  /\ IsrFrame /\ UNCHANGED <<ifc, rxEventQueue, settled, unreported, expiries, canDiagnostics>>
  /\ isr.pc = "idle" /\ can.enabled /\ ram[o].intpnd
  /\ isr'.obj = o
  /\ IF o \in can.line1 THEN isr'.pc = "clear" ELSE isr'.pc = "snapshot"

\* The ISR issues a command on interface 2.
IsrIssues(from, fields, to) ==
  /\ IsrFrame /\ UNCHANGED <<rxEventQueue, settled, unreported, expiries, canDiagnostics>>
  /\ can.enabled /\ isr.pc = from /\ isr'.pc = to /\ isr'.obj = isr.obj
  /\ Issued(2, isr.obj, ifc[2].regs, FALSE, fields)

\* The ISR ends: nothing was new, the frame was refused, or queued, or dropped, the completion
\* was reported, or a wait expired.
IsrEnds ==
  /\ IsrFrame /\ UNCHANGED ifc /\ can.enabled /\ isr'.pc = "idle" /\ isr.pc # "idle"
  /\ \/ /\ isr.pc = "fetched" /\ ~ifc[2].busy /\ ~ifc[2].regs.newdat
        /\ UNCHANGED <<rxEventQueue, settled, unreported, expiries, canDiagnostics>>
     \/ /\ isr.pc = "taken" /\ ~ifc[2].busy
        /\ settled' = settled \union {isr.arg.data}
        /\ UNCHANGED <<rxEventQueue, unreported, expiries, canDiagnostics>>
     \/ /\ isr.pc = "taken" /\ ~ifc[2].busy
        /\ UNCHANGED <<settled, unreported, expiries>>
        /\ canDiagnostics'.txCompleteCount = canDiagnostics.txCompleteCount
        /\ \/ /\ rxEventQueue' = Append(rxEventQueue, [mailboxObjIndex |-> isr.obj,
                                                       data |-> isr.arg.data])
              /\ canDiagnostics'.rxQueueOverflowCount + canDiagnostics'.unexpectedInterruptCount
                  >= canDiagnostics.rxQueueOverflowCount + canDiagnostics.unexpectedInterruptCount
           \/ /\ UNCHANGED rxEventQueue
              /\ canDiagnostics'.rxQueueOverflowCount + canDiagnostics'.unexpectedInterruptCount > 0
     \/ /\ isr.pc = "cleared" /\ ~ifc[2].busy
        /\ unreported' = unreported \ (IF ram[isr.obj].intpnd THEN {} ELSE {isr.obj})
        /\ UNCHANGED <<rxEventQueue, settled, expiries>>
        /\ canDiagnostics'.txCompleteCount <= canDiagnostics.txCompleteCount + 1
        /\ canDiagnostics'.rxQueueOverflowCount + canDiagnostics'.unexpectedInterruptCount
            >= canDiagnostics.rxQueueOverflowCount + canDiagnostics.unexpectedInterruptCount
     \/ /\ ifc[2].busy /\ expiries'[1] = expiries[1] /\ expiries'[2] > 0
        /\ UNCHANGED <<rxEventQueue, settled, unreported>>
        /\ canDiagnostics'.txCompleteCount = canDiagnostics.txCompleteCount

\* All that a step of the ISR may do.
IsrMoves ==
  \/ IsrIssues("snapshot", SnapshotFields, "fetched") \/ IsrIssues("clear", {"CLRINTPND"}, "cleared")
  \/ /\ IsrIssues("fetched", AcknowledgeFields, "taken")
     /\ ifc[2].regs.newdat /\ isr'.arg = ifc[2].regs
  \/ IsrEnds

\* Nothing that the invariants speak of changes.
Stutters ==
  UNCHANGED <<isr, can, rxEventQueue, origin, arrivals, ram, ifc, fg, running, purpose, settled,
              unreported, disturbed, completions, expiries, canDiagnostics>>

\* All that a step of the specification may do.
EventMoves ==
  \/ Resets \/ Handles \/ GivesUp \/ Counts \/ TakesEvent
  \/ CallMoves /\ CallFrame
  \/ Executes(1) \/ Executes(2)
  \/ \E o \in Mailbox : Arrives(o) \/ Sends(o) \/ Enters(o)
  \/ IsrMoves
  \/ Stutters

\* Every action of CanEvents is one of the moves.
LEMMA CallFrameHolds ==
  ASSUME TypesInv, isr.pc = "idle", CallStep \/ FinishObject \/ WriteBack \/ EndReceive
  PROVE  CallFrame
<1>1. ForegroundStep
  BY DEF ForegroundStep, CallStep
<1>2. EventCountsKept
  BY CallsCountNoTimeout DEF TypesInv
<1>3. UNCHANGED <<rxEventQueue, expiries>>
  <2>1. CASE CallStep
    BY <2>1 DEF CallStep, StartStopController, CancelCalls, MailboxStep, Receive,
                ConfigureObject, events
  <2>2. CASE FinishObject \/ WriteBack \/ EndReceive
    <3>1. UNCHANGED <<queues, expiries>>
      BY <2>2, Zenon DEF FinishObject, WriteBack, EndReceive
    <3> QED BY <3>1 DEF queues
  <2> QED BY <2>1, <2>2
<1>4. UNCHANGED <<isr, origin, ram, unreported, completions, arrivals>>
  <2>1. CASE CallStep
    <3>1. UNCHANGED <<isr, origin, unreported, completions>>
      BY <2>1 DEF CallStep, StartStopController, CancelCalls, MailboxStep, Receive,
                  ConfigureObject, events
    <3>2. UNCHANGED <<ram, arrivals>>
      BY <2>1, CallLeavesRam
    <3> QED BY <3>1, <3>2
  <2>2. CASE FinishObject \/ WriteBack \/ EndReceive
    <3>1. UNCHANGED <<isr, origin, unreported, completions>>
      BY <2>2, Zenon DEF FinishObject, WriteBack, EndReceive, ghosts
    <3>2. UNCHANGED <<ram, arrivals>>
      BY <2>2, CallLeavesRam
    <3> QED BY <3>1, <3>2
  <2> QED BY <2>1, <2>2
<1> QED BY <1>2, <1>3, <1>4 DEF CallFrame

LEMMA InitResets ==
  ASSUME TypesInv, isr.pc = "idle", NEW config, NEW timeout, InitController(config, timeout)
  PROVE  Resets
<1>1. /\ fg.pc = "idle" /\ ~running /\ ~can.enabled
      /\ canDiagnostics' = [c \in Counter |-> 0]
      /\ rxEventQueue' = <<>> /\ purpose' = [o \in Mailbox |-> "NONE"]
      /\ settled' = Frames /\ unreported' = {} /\ disturbed' = {}
      /\ completions' = 0 /\ expiries' = [i \in 1..2 |-> 0]
      /\ ram' = [o \in Mailbox |-> Blank]
      /\ UNCHANGED <<running, fg, isr, origin>> /\ UNCHANGED bus
  BY Zenon DEF InitController, Idle
<1>2. expiries'[1] = 0 /\ expiries'[2] = 0 /\ canDiagnostics'.txCompleteCount = 0
  BY <1>1 DEF Counter
<1>3. /\ ~can'.enabled
      /\ IF can'.initialized
         THEN can'.line1 = {} /\ ~ifc'[1].busy /\ ~ifc'[2].busy
         ELSE UNCHANGED ifc
  <2>1. CASE timeout
    <3>1. can' = [CleanHandle EXCEPT !.line1 = can.line1] /\ UNCHANGED ifc
      BY <2>1, Zenon DEF InitController
    <3> QED BY <3>1 DEF CleanHandle
  <2>2. CASE ~timeout
    <3>1. /\ can' = [CleanHandle EXCEPT !.initialized = TRUE]
          /\ ifc' = [i \in 1..2 |-> [busy |-> FALSE, regs |-> Blank, cmd |-> NoCommand]]
      BY <2>2, Zenon DEF InitController
    <3> QED BY <3>1 DEF CleanHandle
  <2> QED BY <2>1, <2>2
<1> QED BY <1>1, <1>2, <1>3 DEF Resets, bus

LEMMA HandleCalls ==
  ASSUME TypesInv, isr.pc = "idle",
         \/ \E config \in InterruptConfigs : ConfigureInterrupts(config)
         \/ EnableInterrupts \/ DisableInterrupts \/ GetTxCompleteEvent
  PROVE  Handles
<1>1. /\ UNCHANGED vars
      /\ UNCHANGED <<isr, origin, unreported, disturbed, completions, expiries>>
  BY Zenon DEF ConfigureInterrupts, EnableInterrupts, DisableInterrupts, GetTxCompleteEvent, ghosts
<1>2. fg.pc = "idle"
  BY Zenon
     DEF ConfigureInterrupts, EnableInterrupts, DisableInterrupts, GetTxCompleteEvent, Idle
<1>3. /\ can'.initialized = can.initialized /\ can'.line1 = can.line1
      /\ can'.enabled => can.enabled \/ can.initialized
  <2>1. CASE \E config \in InterruptConfigs : ConfigureInterrupts(config)
    <3>1. PICK config : can' = [can EXCEPT !.configured = TRUE, !.diagnostic = config.diagnostics,
                                           !.rxCapacity = config.rxEventCapacity,
                                           !.txCapacity = config.txCompleteEventCapacity]
      BY <2>1, Zenon DEF ConfigureInterrupts
    <3> QED BY <3>1 DEF TypesInv, HandleOK
  <2>2. CASE EnableInterrupts \/ DisableInterrupts
    <3>1. \/ can' = [can EXCEPT !.enabled = TRUE] /\ can.initialized
          \/ can' = [can EXCEPT !.enabled = FALSE]
      BY <2>2, Zenon DEF EnableInterrupts, DisableInterrupts
    <3> QED BY <3>1 DEF TypesInv, HandleOK
  <2>3. CASE GetTxCompleteEvent
    <3>1. UNCHANGED can
      BY <2>3, Zenon DEF GetTxCompleteEvent
    <3> QED BY <3>1
  <2> QED BY <2>1, <2>2, <2>3
<1>4. \/ rxEventQueue' = <<>> /\ settled' = settled \union Queued
      \/ UNCHANGED <<rxEventQueue, settled>>
  <2>2. CASE \E config \in InterruptConfigs : ConfigureInterrupts(config)
    BY <2>2, Zenon DEF ConfigureInterrupts
  <2>3. CASE EnableInterrupts \/ DisableInterrupts
    <3>1. UNCHANGED <<queues, ghosts>>
      BY <2>3, Zenon DEF EnableInterrupts, DisableInterrupts
    <3> QED BY <3>1 DEF queues, ghosts
  <2>4. CASE GetTxCompleteEvent
    <3>1. UNCHANGED rxEventQueue /\ UNCHANGED ghosts
      BY <2>4, Zenon DEF GetTxCompleteEvent
    <3> QED BY <3>1 DEF ghosts
  <2> QED BY <2>2, <2>3, <2>4
<1> QED BY <1>1, <1>2, <1>3, <1>4 DEF Handles, vars

LEMMA WaitsGiveUp ==
  ASSUME TypesInv, isr.pc = "idle", WaitGivesUp
  PROVE  GivesUp
<1>1. /\ fg.pc # "idle" /\ ifc[Interface].busy
      /\ disturbed' = disturbed \union Misrouted
      /\ UNCHANGED callerView /\ UNCHANGED bus
      /\ UNCHANGED <<isr, can, rxEventQueue, origin, ram, ifc, settled, unreported, completions,
                     canDiagnostics>>
  BY Zenon DEF WaitGivesUp, Idle, queues
<1>2. Goes("expired")
  BY DEF WaitGivesUp, Goes, TypesInv, TypeOK
<1>3. /\ expiries'[1] + expiries'[2] > 0
      /\ IF fg.op = "receive" THEN expiries'[2] > 0 ELSE expiries'[2] = expiries[2]
  <2>1. expiries' = [expiries EXCEPT ![Interface] = @ + 1] /\ Interface \in 1..2
    BY DEF WaitGivesUp, Interface
  <2>2. expiries[1] \in Nat /\ expiries[2] \in Nat
    BY DEF TypesInv, HistoryOK
  <2> QED BY <2>1, <2>2 DEF TypesInv, HistoryOK, Interface
<1> QED BY <1>1, <1>2, <1>3 DEF GivesUp, callerView, bus

LEMMA TimeoutsCount ==
  ASSUME TypesInv, isr.pc = "idle", CountTimeout
  PROVE  Counts
<1>1. /\ fg.pc = "expired" /\ fg' = IdleCall
      /\ UNCHANGED callerView /\ UNCHANGED bus
      /\ UNCHANGED <<isr, can, rxEventQueue, origin, ram, ifc, settled, unreported, disturbed,
                     completions, expiries>>
  BY Zenon DEF CountTimeout, At, queues, ghosts
<1>2. canDiagnostics'.txCompleteCount = canDiagnostics.txCompleteCount
  BY DEF CountTimeout, TypesInv, TypeOK, Counter
<1> QED BY <1>1, <1>2 DEF Counts, callerView, bus

LEMMA EventsAreTaken ==
  ASSUME TypesInv, isr.pc = "idle", GetRxEvent
  PROVE  TakesEvent
<1>1. /\ fg.pc = "idle" /\ rxEventQueue # <<>> /\ rxEventQueue' = Tail(rxEventQueue)
      /\ settled' = settled \union {Head(rxEventQueue).data}
      /\ UNCHANGED <<isr, can, origin, ram, ifc, fg, running, purpose, unreported, disturbed,
                     completions, expiries, canDiagnostics>>
      /\ UNCHANGED bus
  BY Zenon DEF GetRxEvent, Idle
<1> QED BY <1>1 DEF TakesEvent, bus

LEMMA TransfersExecute ==
  ASSUME TypesInv, NEW i \in 1..2, TransferStep(i)
  PROVE  Executes(i)
<1> DEFINE c == ifc[i].cmd
           regs == ifc[i].regs
           old == ram[c.obj]
           new == IF c.write THEN Written(old, regs, c.fields) ELSE Released(old, c.fields)
           filled == IF c.write THEN regs ELSE Fetched(regs, old, c.fields)
<1>1. /\ ifc[i].busy /\ ram' = [ram EXCEPT ![c.obj] = new]
      /\ ifc' = [ifc EXCEPT ![i] = [busy |-> FALSE, cmd |-> NoCommand, regs |-> filled]]
      /\ UNCHANGED callerView /\ UNCHANGED <<fg, canDiagnostics, arrivals>>
  BY Zenon DEF TransferStep, Transfer
<1>2. /\ UNCHANGED <<can, isr, origin, disturbed, completions, expiries>> /\ UNCHANGED queues
      /\ settled' = settled \union (IF c.write /\ "ARB" \in c.fields THEN Left(c.obj) ELSE {})
      /\ unreported' = unreported \ (IF c.write /\ "ARB" \in c.fields THEN {c.obj} ELSE {})
  BY Zenon DEF TransferStep
<1>3. c.obj \in Mailbox
  BY DEF TypesInv, TypeOK, Command
<1>4. PeripheralFrame /\ UNCHANGED <<origin, arrivals, completions>>
  BY <1>1, <1>2 DEF PeripheralFrame, callerView, queues
<1>5. ~ifc'[i].busy /\ ifc'[i].regs = filled /\ \A j \in 1..2 : j # i => ifc'[j] = ifc[j]
  BY <1>1 DEF TypesInv, TypeOK
<1>6. ram'[c.obj] = new /\ \A m \in Mailbox : m # c.obj => ram'[m] = ram[m]
  BY <1>1, <1>3 DEF TypesInv, TypeOK
<1>7. IF c.write /\ "ARB" \in c.fields
      THEN settled' = settled \union Left(c.obj) /\ unreported' = unreported \ {c.obj}
      ELSE UNCHANGED <<settled, unreported>>
  BY <1>2
<1> QED BY <1>1, <1>3, <1>4, <1>5, <1>6, <1>7, Zenon DEF Executes

LEMMA FramesArrive ==
  ASSUME TypesInv, NEW o \in Mailbox, NEW dlc \in Lengths, ArriveStep(o, dlc)
  PROVE  Arrives(o)
<1> DEFINE new == [ram[o] EXCEPT !.data = arrivals + 1, !.dlc = dlc, !.newdat = TRUE,
                                 !.msglst = @ \/ ram[o].newdat, !.intpnd = @ \/ ram[o].ie]
<1>1. /\ running /\ ram[o].role = "RX_DATA" /\ ram' = [ram EXCEPT ![o] = new]
      /\ UNCHANGED callerView /\ UNCHANGED <<ifc, fg, canDiagnostics>>
      /\ UNCHANGED <<can, isr, settled, unreported, disturbed, completions, expiries>>
      /\ UNCHANGED queues /\ origin' = Append(origin, o)
  BY Zenon DEF ArriveStep, Arrive
<1>2. /\ new.role = ram[o].role /\ new.txrqst = ram[o].txrqst /\ new.ie = ram[o].ie
      /\ new.newdat /\ new.data = arrivals + 1
      /\ new.msglst = (ram[o].msglst \/ ram[o].newdat)
      /\ new.intpnd = (ram[o].intpnd \/ ram[o].ie)
  BY DEF TypesInv, TypeOK, Content
<1> HIDE DEF new
<1>3. /\ arrivals + 1 \notin Frames /\ Frames' = Frames \union {arrivals + 1}
      /\ origin'[arrivals + 1] = o /\ \A k \in Frames : origin'[k] = origin[k]
  BY <1>1, FramesGrow DEF TypesInv, HistoryOK
<1>4. ram'[o] = new /\ \A m \in Mailbox : m # o => ram'[m] = ram[m]
  BY <1>1 DEF TypesInv, TypeOK
<1>5. PeripheralFrame /\ UNCHANGED <<ifc, settled, unreported, completions>>
  BY <1>1 DEF PeripheralFrame, callerView, queues
<1> QED BY <1>1, <1>2, <1>3, <1>4, <1>5 DEF Arrives

LEMMA FramesLeave ==
  ASSUME TypesInv, NEW o \in Mailbox, FrameOutStep(o)
  PROVE  Sends(o)
<1>1. /\ running /\ UNCHANGED callerView /\ UNCHANGED bus /\ UNCHANGED queues
      /\ UNCHANGED <<ifc, fg, canDiagnostics>>
      /\ UNCHANGED <<can, isr, origin, settled, disturbed, expiries>>
  BY Zenon DEF FrameOutStep, FrameOut, Transmit, RemoteFrame
<1>2. running /\ PeripheralFrame /\ UNCHANGED <<ifc, origin, arrivals, settled>>
  BY <1>1 DEF PeripheralFrame, callerView, queues, bus
<1>3. IF ram[o].txrqst /\ ram[o].ie
      THEN unreported' = unreported \union {o} /\ completions' = completions + 1
      ELSE UNCHANGED <<unreported, completions>>
  BY Zenon DEF FrameOutStep
<1>4. CASE Transmit(o)
  <2> DEFINE new == [ram[o] EXCEPT !.txrqst = FALSE, !.intpnd = @ \/ ram[o].ie]
  <2>1. ram' = [ram EXCEPT ![o] = new] /\ ram[o].txrqst
    BY <1>4, Zenon DEF Transmit
  <2>2. /\ new.role = ram[o].role /\ ~new.txrqst /\ new.ie = ram[o].ie
        /\ new.newdat = ram[o].newdat /\ new.data = ram[o].data /\ new.msglst = ram[o].msglst
        /\ new.intpnd = (ram[o].intpnd \/ ram[o].ie)
    BY DEF TypesInv, TypeOK, Content
  <2> HIDE DEF new
  <2>3. ram'[o] = new /\ \A m \in Mailbox : m # o => ram'[m] = ram[m]
    BY <2>1 DEF TypesInv, TypeOK
  <2> QED BY <1>2, <1>3, <2>1, <2>2, <2>3 DEF Sends
<1>5. CASE RemoteFrame(o)
  <2> DEFINE new == [ram[o] EXCEPT !.txrqst = TRUE]
  <2>1. ram' = [ram EXCEPT ![o].txrqst = TRUE] /\ ~ram[o].txrqst /\ ram[o].role = "REMOTE_RESPONSE"
    BY <1>5, Zenon DEF RemoteFrame
  <2>2. /\ new.role = ram[o].role /\ new.ie = ram[o].ie
        /\ new.newdat = ram[o].newdat /\ new.data = ram[o].data /\ new.msglst = ram[o].msglst
        /\ new.intpnd = ram[o].intpnd
    BY DEF TypesInv, TypeOK, Content
  <2>3. ram'[o] = new /\ \A m \in Mailbox : m # o => ram'[m] = ram[m]
    BY <2>1 DEF TypesInv, TypeOK
  <2>4. ram'[o] = [ram[o] EXCEPT !.txrqst = TRUE]
    BY <2>3
  <2> HIDE DEF new
  <2> QED BY <1>2, <1>3, <2>1, <2>2, <2>3, <2>4 DEF Sends
<1> QED BY <1>4, <1>5 DEF FrameOutStep, FrameOut

\* What counting an event does to the counts of events.
LEMMA EventCounts ==
  ASSUME NEW d \in [Counter -> Nat], NEW capacity \in Nat, NEW length \in Nat,
         NEW done \in {"rxFrameCount", "txCompleteCount"},
         NEW dropped \in {"rxQueueOverflowCount", "txEventOverflowCount"}
  PROVE  LET e == CountEvent(d, capacity, length, done, dropped)
         IN /\ e.txCompleteCount <= d.txCompleteCount + 1
            /\ done = "rxFrameCount" => e.txCompleteCount = d.txCompleteCount
            /\ e.rxQueueOverflowCount + e.unexpectedInterruptCount
                 >= d.rxQueueOverflowCount + d.unexpectedInterruptCount
            /\ dropped = "rxQueueOverflowCount" /\ ~(length < capacity) =>
                 e.rxQueueOverflowCount + e.unexpectedInterruptCount > 0
<1>1. /\ d.txCompleteCount \in Nat /\ d.rxQueueOverflowCount \in Nat
      /\ d.unexpectedInterruptCount \in Nat /\ d.rxFrameCount \in Nat /\ d.txEventOverflowCount \in Nat
  BY DEF Counter
<1>2. CASE capacity = 0
  BY <1>1, <1>2 DEF CountEvent, Counter
<1>3. CASE capacity # 0 /\ length < capacity
  <2>1. CountEvent(d, capacity, length, done, dropped) = [d EXCEPT ![done] = @ + 1]
    BY <1>3 DEF CountEvent
  <2> QED BY <1>1, <1>3, <2>1 DEF Counter
<1>4. CASE capacity # 0 /\ ~(length < capacity)
  <2> DEFINE e == [d EXCEPT ![done] = @ + 1]
  <2>1. CountEvent(d, capacity, length, done, dropped) = [e EXCEPT ![dropped] = e[dropped] + 1]
    BY <1>4 DEF CountEvent
  <2>2. /\ e \in [Counter -> Nat] /\ e.rxQueueOverflowCount = d.rxQueueOverflowCount
        /\ e.unexpectedInterruptCount = d.unexpectedInterruptCount
        /\ e.txCompleteCount <= d.txCompleteCount + 1
        /\ done = "rxFrameCount" => e.txCompleteCount = d.txCompleteCount
        /\ e.txCompleteCount \in Nat
    BY <1>1 DEF Counter
  <2> HIDE DEF e
  <2> QED BY <1>1, <2>1, <2>2 DEF Counter
<1> QED BY <1>2, <1>3, <1>4

LEMMA IsrEnters ==
  ASSUME TypesInv, NEW o \in Mailbox, IsrEnter(o)
  PROVE  Enters(o)
<1>1. /\ isr.pc = "idle" /\ Asserted(o)
      /\ isr' = [isr EXCEPT !.pc = IF LineOf(o) = 0 THEN "snapshot" ELSE "clear", !.obj = o]
      /\ UNCHANGED vars /\ UNCHANGED queues /\ UNCHANGED ghosts
      /\ UNCHANGED <<can, expiries>>
  BY Zenon DEF IsrEnter
<1>2. /\ IsrFrame
      /\ UNCHANGED <<ifc, rxEventQueue, settled, unreported, expiries, canDiagnostics>>
  BY <1>1 DEF IsrFrame, vars, queues, ghosts
<1>3. can.enabled /\ ram[o].intpnd
  BY <1>1 DEF Asserted, LineOpen
<1>4. isr'.obj = o /\ IF o \in can.line1 THEN isr'.pc = "clear" ELSE isr'.pc = "snapshot"
  BY <1>1 DEF LineOf, TypesInv, IsrOK
<1> QED BY <1>1, <1>2, <1>3, <1>4 DEF Enters

LEMMA IsrWorks ==
  ASSUME TypesInv, IsrStep \/ IsrExpires
  PROVE  IsrMoves
<1>0. 2 \in 1..2
  OBVIOUS
<1>1. ASSUME NEW from, NEW fields, NEW to, IsrIssue(from, fields, to), isr.pc # "idle"
      PROVE  IsrIssues(from, fields, to)
  <2>1. /\ isr.pc = from /\ ~ifc[2].busy /\ Issue(2, isr.obj, ifc[2].regs, FALSE, fields)
        /\ isr' = [isr EXCEPT !.pc = to] /\ UNCHANGED callerView /\ UNCHANGED bus
        /\ UNCHANGED queues /\ UNCHANGED ghosts
        /\ UNCHANGED <<can, ram, fg, canDiagnostics, expiries>>
    BY <1>1, Zenon DEF IsrIssue, Ready
  <2>2. Issued(2, isr.obj, ifc[2].regs, FALSE, fields)
    BY <1>0, <2>1, IssueIsIssued, Zenon DEF TypesInv
  <2>3. /\ IsrFrame /\ UNCHANGED <<rxEventQueue, settled, unreported, expiries, canDiagnostics>>
    BY <2>1 DEF IsrFrame, callerView, queues, ghosts, bus
  <2>4. can.enabled /\ isr'.pc = to /\ isr'.obj = isr.obj
    BY <1>1, <2>1 DEF TypesInv, IsrOK
  <2> QED BY <2>1, <2>2, <2>3, <2>4 DEF IsrIssues
<1>2. CASE IsrSnapshot
  <2>1. isr.pc # "idle"
    BY <1>2 DEF IsrSnapshot, IsrIssue
  <2> QED BY <1>1, <1>2, <2>1, Zenon DEF IsrSnapshot, IsrMoves
<1>3. CASE IsrClear
  <2>1. isr.pc # "idle"
    BY <1>3 DEF IsrClear, IsrIssue
  <2> QED BY <1>1, <1>3, <2>1, Zenon DEF IsrClear, IsrMoves
<1>4. CASE IsrTake
  <2>1. /\ isr.pc = "fetched" /\ ~ifc[2].busy /\ ifc[2].regs.newdat
        /\ Issue(2, isr.obj, ifc[2].regs, FALSE, AcknowledgeFields)
        /\ isr' = [isr EXCEPT !.pc = "taken", !.arg = ifc[2].regs]
        /\ UNCHANGED callerView /\ UNCHANGED bus
        /\ UNCHANGED queues /\ UNCHANGED ghosts
        /\ UNCHANGED <<can, ram, fg, canDiagnostics, expiries>>
    BY <1>4, Zenon DEF IsrTake, Ready
  <2>2. Issued(2, isr.obj, ifc[2].regs, FALSE, AcknowledgeFields)
    BY <1>0, <2>1, IssueIsIssued, Zenon DEF TypesInv
  <2>3. /\ IsrFrame /\ UNCHANGED <<rxEventQueue, settled, unreported, expiries, canDiagnostics>>
    BY <2>1 DEF IsrFrame, callerView, queues, ghosts, bus
  <2>4. can.enabled /\ isr'.pc = "taken" /\ isr'.obj = isr.obj /\ isr'.arg = ifc[2].regs
    BY <2>1 DEF TypesInv, IsrOK
  <2> QED BY <2>1, <2>2, <2>3, <2>4 DEF IsrIssues, IsrMoves
<1>5. CASE IsrNothingNew \/ IsrLengthRefused \/ IsrQueueFrame \/ IsrReportCompletion \/ IsrExpires
  <2>1. /\ IsrFrame /\ UNCHANGED ifc /\ can.enabled /\ isr'.pc = "idle" /\ isr.pc # "idle"
    <3>1. isr' = IdleIsr /\ isr.pc # "idle"
      BY <1>5 DEF IsrNothingNew, IsrLengthRefused, IsrQueueFrame, IsrReportCompletion, IsrExpires
    <3>2. CASE IsrNothingNew \/ IsrLengthRefused
      <4>1. UNCHANGED vars /\ UNCHANGED <<can, origin, disturbed, completions>>
        BY <3>2, Zenon DEF IsrNothingNew, IsrLengthRefused, ghosts
      <4> QED BY <3>1, <4>1 DEF IsrFrame, vars, TypesInv, IsrOK, IdleIsr
    <3>3. CASE IsrQueueFrame \/ IsrReportCompletion \/ IsrExpires
      <4>1. /\ UNCHANGED callerView /\ UNCHANGED bus
            /\ UNCHANGED <<ram, ifc, fg, can, origin, disturbed, completions>>
        BY <3>3, Zenon DEF IsrQueueFrame, IsrReportCompletion, IsrExpires, ghosts
      <4> QED BY <3>1, <4>1 DEF IsrFrame, callerView, bus, TypesInv, IsrOK, IdleIsr
    <3> QED BY <1>5, <3>2, <3>3
  <2>2. CASE IsrNothingNew
    <3>1. /\ isr.pc = "fetched" /\ ~ifc[2].busy /\ ~ifc[2].regs.newdat
          /\ UNCHANGED vars /\ UNCHANGED queues /\ UNCHANGED ghosts /\ UNCHANGED expiries
      BY <2>2, Zenon DEF IsrNothingNew, Ready
    <3> QED BY <2>1, <3>1 DEF IsrMoves, IsrEnds, vars, queues, ghosts
  <2>3. CASE IsrLengthRefused
    <3>1. /\ isr.pc = "taken" /\ ~ifc[2].busy /\ settled' = settled \union {isr.arg.data}
          /\ UNCHANGED vars /\ UNCHANGED queues /\ UNCHANGED <<unreported, expiries>>
      BY <2>3, Zenon DEF IsrLengthRefused, Ready
    <3> QED BY <2>1, <3>1 DEF IsrMoves, IsrEnds, vars, queues
  <2>4. CASE IsrQueueFrame
    <3> DEFINE event == [mailboxObjIndex |-> isr.obj, data |-> isr.arg.data]
               d == [canDiagnostics EXCEPT !.rxOverflowCount = IF isr.arg.msglst THEN @ + 1 ELSE @]
    <3>1. /\ isr.pc = "taken" /\ ~ifc[2].busy
          /\ rxEventQueue' = Pushed(rxEventQueue, can.rxCapacity, event)
          /\ canDiagnostics' = CountEvent(d, can.rxCapacity, Len(rxEventQueue),
                                          "rxFrameCount", "rxQueueOverflowCount")
          /\ UNCHANGED ghosts /\ UNCHANGED expiries
      BY <2>4, Zenon DEF IsrQueueFrame, Ready
    <3>2. /\ d \in [Counter -> Nat] /\ d.txCompleteCount = canDiagnostics.txCompleteCount
          /\ d.rxQueueOverflowCount = canDiagnostics.rxQueueOverflowCount
          /\ d.unexpectedInterruptCount = canDiagnostics.unexpectedInterruptCount
      BY DEF TypesInv, TypeOK, Counter
    <3> HIDE DEF d, event
    <3>3. can.rxCapacity \in Nat /\ Len(rxEventQueue) \in Nat
      BY DEF TypesInv, HandleOK, QueuesOK
    <3>4. /\ canDiagnostics'.txCompleteCount = d.txCompleteCount
          /\ canDiagnostics'.rxQueueOverflowCount + canDiagnostics'.unexpectedInterruptCount
               >= d.rxQueueOverflowCount + d.unexpectedInterruptCount
          /\ ~(Len(rxEventQueue) < can.rxCapacity) =>
               canDiagnostics'.rxQueueOverflowCount + canDiagnostics'.unexpectedInterruptCount > 0
      BY <3>1, <3>2, <3>3, EventCounts
    <3>5. \/ rxEventQueue' = Append(rxEventQueue, event)
          \/ UNCHANGED rxEventQueue /\ ~(Len(rxEventQueue) < can.rxCapacity)
      BY <3>1 DEF Pushed
    <3>6. UNCHANGED <<settled, unreported, expiries>>
      BY <3>1 DEF ghosts
    <3> QED BY <2>1, <3>1, <3>2, <3>4, <3>5, <3>6 DEF IsrMoves, IsrEnds, event
  <2>5. CASE IsrReportCompletion
    <3>1. /\ isr.pc = "cleared" /\ ~ifc[2].busy
          /\ canDiagnostics' = CountEvent(canDiagnostics, can.txCapacity, Len(txCompleteEventQueue),
                                          "txCompleteCount", "txEventOverflowCount")
          /\ unreported' = unreported \ (IF ram[isr.obj].intpnd THEN {} ELSE {isr.obj})
          /\ UNCHANGED <<rxEventQueue, settled, expiries>>
      BY <2>5, Zenon DEF IsrReportCompletion, Ready
    <3>2. /\ can.txCapacity \in Nat /\ Len(txCompleteEventQueue) \in Nat
          /\ canDiagnostics \in [Counter -> Nat]
      BY DEF TypesInv, HandleOK, QueuesOK, TypeOK
    <3>3. /\ canDiagnostics'.txCompleteCount <= canDiagnostics.txCompleteCount + 1
          /\ canDiagnostics'.rxQueueOverflowCount + canDiagnostics'.unexpectedInterruptCount
               >= canDiagnostics.rxQueueOverflowCount + canDiagnostics.unexpectedInterruptCount
      BY <3>1, <3>2, EventCounts
    <3> QED BY <2>1, <3>1, <3>3, Zenon DEF IsrMoves, IsrEnds
  <2>6. CASE IsrExpires
    <3>1. /\ ifc[2].busy /\ expiries' = [expiries EXCEPT ![2] = @ + 1]
          /\ canDiagnostics' = TimedOut(canDiagnostics)
          /\ UNCHANGED queues /\ UNCHANGED ghosts
      BY <2>6, Zenon DEF IsrExpires
    <3>2. expiries'[1] = expiries[1] /\ expiries'[2] > 0
      BY <3>1 DEF TypesInv, HistoryOK
    <3>3. canDiagnostics'.txCompleteCount = canDiagnostics.txCompleteCount
      BY <3>1 DEF TimedOut, TypesInv, TypeOK, Counter
    <3> QED BY <2>1, <3>1, <3>2, <3>3 DEF IsrMoves, IsrEnds, queues, ghosts
  <2> QED BY <1>5, <2>2, <2>3, <2>4, <2>5, <2>6
<1> QED BY <1>2, <1>3, <1>4, <1>5 DEF IsrStep

\* So every step of the specification is one of the moves.
LEMMA EventsMove ==
  ASSUME TypesInv, [EventsNext]_all
  PROVE  EventMoves
<1> USE DEF EventMoves
<1>1. CASE ForegroundStep
  <2>1. isr.pc = "idle"
    BY <1>1 DEF ForegroundStep
  <2>2. CASE \E config \in Configs, timeout \in BOOLEAN : InitController(config, timeout)
    BY <2>1, <2>2, InitResets, Zenon
  <2>3. CASE \/ \E config \in InterruptConfigs : ConfigureInterrupts(config)
             \/ EnableInterrupts \/ DisableInterrupts \/ GetTxCompleteEvent
    BY <2>1, <2>3, HandleCalls, Zenon
  <2>4. CASE CallStep \/ FinishObject \/ WriteBack \/ EndReceive
    BY <2>1, <2>4, CallFacts, CallFrameHolds, Zenon
  <2>5. CASE WaitGivesUp \/ CountTimeout \/ GetRxEvent
    BY <2>1, <2>5, WaitsGiveUp, TimeoutsCount, EventsAreTaken, Zenon
  <2> QED BY <1>1, <2>2, <2>3, <2>4, <2>5, Zenon DEF ForegroundStep, CallStep
<1>2. CASE PeripheralStep
  <2>1. 1 \in 1..2 /\ 2 \in 1..2 /\ \A i \in 1..2 : i = 1 \/ i = 2
    OBVIOUS
  <2>2. ASSUME NEW i \in 1..2, TransferStep(i) PROVE EventMoves
    BY <2>1, <2>2, TransfersExecute, Zenon
  <2> QED BY <1>2, <2>2, FramesArrive, FramesLeave, Zenon DEF PeripheralStep
<1>3. CASE IsrStep \/ IsrExpires \/ \E o \in Mailbox : IsrEnter(o)
  BY <1>3, IsrWorks, IsrEnters, Zenon
<1>4. CASE UNCHANGED all
  BY <1>4 DEF all, events, vars, Stutters
<1> QED BY <1>1, <1>2, <1>3, <1>4 DEF EventsNext

-----------------------------------------------------------------------------
(* The life of the handle, and which steps a call has *)

\* Before HAL_CAN_init nothing runs, and after it gave up nothing is owed to the caller.
LifeInv ==
  /\ ~can.initialized => Frames \subseteq settled /\ rxEventQueue = <<>>
  /\ running \/ can.enabled \/ fg.op # "none" => can.initialized
  /\ \A o \in Mailbox : purpose[o] # "NONE" => can.initialized

\* The steps of each call, and what its object was configured for when it began.
StepsInv ==
  /\ fg.op = "none" <=> fg.pc = "idle"
  /\ fg.op = "configure" =>
       /\ fg.pc \in {"setup", "loaded", "stored", "expired"}
       /\ ~running /\ ~can.enabled /\ purpose[fg.obj] = "NONE"
  /\ fg.op = "send" =>
       fg.pc \in {"commit", "free", "length", "submitted", "expired"} /\ purpose[fg.obj] = "TX_DATA"
  /\ fg.op = "request" =>
       /\ fg.pc \in {"commit", "free", "submitted", "expired"}
       /\ purpose[fg.obj] = "TX_REMOTE_REQUEST"
  /\ fg.op = "update" =>
       fg.pc \in {"commit", "free", "stored", "expired"} /\ purpose[fg.obj] = "REMOTE_RESPONSE"
  /\ fg.op \in Cancels => fg.pc \in {"cancel", "control", "next", "expired"}
  /\ fg.op = "receive" =>
       /\ fg.pc \in {"poll", "fetched", "taken", "expired"}
       /\ purpose[fg.obj] = "RX_DATA" /\ ~can.enabled

\* Routing an interrupt changes the routing only.
LEMMA RoutedLine ==
  ASSUME HandleOK, can' = Routed
  PROVE  /\ can'.initialized = can.initialized /\ can'.enabled = can.enabled
         /\ can'.line1 = IF ~fg.arg.ie THEN can.line1
                         ELSE IF fg.arg.role = "RX_DATA" THEN can.line1 \ {fg.obj}
                         ELSE can.line1 \union {fg.obj}
  BY DEF HandleOK, Routed

\* The call in progress ends, or goes on as it was.
LEMMA IdleCallFields == IdleCall.pc = "idle" /\ IdleCall.op = "none" /\ IdleCall.todo = {}
  BY DEF IdleCall

\* Nothing runs without HAL_CAN_init, after every step.
LEMMA LifeStep ==
  ASSUME TypesInv, TypesInv', LifeInv, StepsInv, EventMoves
  PROVE  LifeInv'
<1> USE DEF LifeInv
<1>0. /\ fg.op \in Operation /\ fg'.obj \in Mailbox /\ fg.obj \in Mailbox
      /\ purpose \in [Mailbox -> Role]
  BY DEF TypesInv, TypeOK
<1>1. ASSUME UNCHANGED <<purpose, settled, rxEventQueue, origin>>,
             can'.initialized = can.initialized, can'.enabled = can.enabled,
             running' => running \/ can.initialized, fg'.op # "none" => fg.op # "none" \/ can.initialized
      PROVE  LifeInv'
  BY <1>1 DEF Frames
<1>2. CASE Resets
  BY <1>2 DEF Resets, Frames, TypesInv, IsrOK, StepsInv
<1>3. CASE Handles
  BY <1>3 DEF Handles, Frames
<1>4. CASE GivesUp \/ Counts \/ Stutters
  BY <1>1, <1>4, IdleCallFields DEF GivesUp, Counts, Stutters, Goes
<1>5. CASE TakesEvent
  BY <1>5 DEF TakesEvent, Frames
<1>6. CASE CallMoves /\ CallFrame
  <2>1. UNCHANGED <<rxEventQueue, origin>>
    BY <1>6 DEF CallFrame
  <2>2. CASE OpenMoves
    <3>1. UNCHANGED <<can, settled>>
      BY <2>2 DEF OpenMoves
    <3>2. CASE Stays
      BY <1>1, <2>1, <3>1, <3>2 DEF Stays
    <3>3. CASE OpensConfigure
      BY <1>0, <2>1, <3>1, <3>3 DEF OpensConfigure, Frames
    <3>4. CASE OpensCancel
      BY <1>1, <2>1, <3>1, <3>4 DEF OpensCancel
    <3>5. ASSUME NEW op, NEW step, NEW role \in Role \ {"NONE"}, Opens(op, step, role)
          PROVE  LifeInv'
      <4>1. can.initialized
        BY <1>0, <3>5 DEF Opens
      <4> QED BY <1>1, <2>1, <3>1, <3>5, <4>1 DEF Opens
    <3>6. /\ "TX_DATA" \in Role \ {"NONE"} /\ "TX_REMOTE_REQUEST" \in Role \ {"NONE"}
          /\ "REMOTE_RESPONSE" \in Role \ {"NONE"} /\ "RX_DATA" \in Role \ {"NONE"}
      BY DEF Role
    <3> QED BY <2>2, <3>2, <3>3, <3>4, <3>5, <3>6, Zenon DEF OpenMoves
  <2>3. CASE SubmitMoves \/ OtherMoves
    <3>1. /\ UNCHANGED <<running, purpose, settled>> /\ fg'.op = fg.op
          /\ can' = can \/ can' = Routed
      BY <2>3 DEF SubmitMoves, OtherMoves, Submits, Goes
    <3> QED BY <1>1, <2>1, <3>1, RoutedLine DEF TypesInv
  <2>4. CASE ReturnMoves
    <3>1. /\ UNCHANGED running /\ fg'.op = "none" /\ settled \subseteq settled'
          /\ can' = can \/ can' = Routed
          /\ can.initialized \/ UNCHANGED purpose
      BY <2>4, IdleCallFields DEF ReturnMoves, Returns
    <3> QED BY <1>0, <2>1, <3>1, RoutedLine DEF Frames, TypesInv
  <2> QED BY <1>6, <2>2, <2>3, <2>4 DEF CallMoves
<1>7. ASSUME NEW i \in 1..2, Executes(i) PROVE LifeInv'
  BY <1>7 DEF Executes, PeripheralFrame, Frames
<1>8. ASSUME NEW o \in Mailbox, Arrives(o) \/ Sends(o) \/ Enters(o) PROVE LifeInv'
  BY <1>1, <1>8 DEF Arrives, Sends, Enters, PeripheralFrame, IsrFrame
<1>9. CASE IsrMoves
  BY <1>9 DEF IsrMoves, IsrIssues, IsrEnds, IsrFrame, Frames
<1> QED BY <1>2, <1>3, <1>4, <1>5, <1>6, <1>7, <1>8, <1>9 DEF EventMoves

\* Calls stay within their steps.
LEMMA StepsStep ==
  ASSUME TypesInv, TypesInv', LifeInv, StepsInv, EventMoves
  PROVE  StepsInv'
<1> USE DEF StepsInv
<1>0. /\ fg.op \in Operation /\ fg.pc \in Step /\ fg'.obj \in Mailbox /\ fg.obj \in Mailbox
      /\ purpose \in [Mailbox -> Role]
  BY DEF TypesInv, TypeOK
<1> USE DEF Operation, Cancels
<1>1. ASSUME UNCHANGED <<fg, purpose, running>>, can'.enabled = can.enabled
      PROVE  StepsInv'
  BY <1>1
<1>2. ASSUME fg'.op = "none", fg'.pc = "idle" PROVE StepsInv'
  BY <1>2
<1>3. CASE Resets \/ Handles
  BY <1>2, <1>3 DEF Resets, Handles
<1>4. CASE GivesUp
  BY <1>4 DEF GivesUp, Goes
<1>5. CASE Counts \/ Stutters \/ TakesEvent
  BY <1>1, <1>2, <1>5, IdleCallFields DEF Counts, Stutters, TakesEvent
<1>6. CASE CallMoves /\ CallFrame
  <2>1. CASE OpenMoves
    <3>1. UNCHANGED can
      BY <2>1 DEF OpenMoves
    <3>2. CASE Stays
      BY <1>2, <3>2 DEF Stays
    <3>3. CASE OpensConfigure
      BY <1>0, <3>1, <3>3 DEF OpensConfigure
    <3>4. CASE OpensCancel
      BY <3>1, <3>4 DEF OpensCancel
    <3>5. CASE \/ running /\ Opens("send", "commit", "TX_DATA")
               \/ running /\ Opens("request", "commit", "TX_REMOTE_REQUEST")
               \/ Opens("update", "commit", "REMOTE_RESPONSE")
               \/ running /\ ~can.enabled /\ Opens("receive", "poll", "RX_DATA")
      BY <3>1, <3>5 DEF Opens
    <3> QED BY <2>1, <3>2, <3>3, <3>4, <3>5, Zenon DEF OpenMoves
  <2>2. CASE SubmitMoves
    <3>1. /\ UNCHANGED <<running, purpose>> /\ fg'.op = fg.op /\ fg'.obj = fg.obj
          /\ can' = can \/ can' = Routed
      BY <2>2 DEF SubmitMoves, Submits, Goes
    <3>2. can'.enabled = can.enabled
      BY <3>1, RoutedLine DEF TypesInv
    <3>3. \/ fg.pc = "setup" /\ fg'.pc = "loaded"
          \/ fg.pc = "loaded" /\ fg'.pc = "stored"
          \/ fg.pc = "free" /\ fg.op = "send" /\ fg'.pc = "length"
          \/ fg.pc = "length" /\ fg'.pc = "submitted"
          \/ fg.pc = "free" /\ fg.op = "request" /\ fg'.pc = "submitted"
          \/ fg.pc = "free" /\ fg.op = "update" /\ fg'.pc = "stored"
          \/ fg.pc = "cancel" /\ fg'.pc = "control"
          \/ fg.pc = "control" /\ fg'.pc = "next"
      BY <2>2 DEF SubmitMoves, Submits, Goes
    <3> QED BY <1>0, <3>1, <3>2, <3>3
  <2>3. CASE OtherMoves
    BY <1>0, <2>3 DEF OtherMoves, Goes
  <2>4. CASE ReturnMoves
    BY <1>2, <2>4, IdleCallFields DEF ReturnMoves, Returns
  <2> QED BY <1>6, <2>1, <2>2, <2>3, <2>4 DEF CallMoves
<1>7. ASSUME NEW i \in 1..2, Executes(i) PROVE StepsInv'
  BY <1>1, <1>7 DEF Executes, PeripheralFrame
<1>8. ASSUME NEW o \in Mailbox, Arrives(o) \/ Sends(o) \/ Enters(o) PROVE StepsInv'
  BY <1>1, <1>8 DEF Arrives, Sends, Enters, PeripheralFrame, IsrFrame
<1>9. CASE IsrMoves
  BY <1>1, <1>9 DEF IsrMoves, IsrIssues, IsrEnds, IsrFrame
<1> QED BY <1>3, <1>4, <1>5, <1>6, <1>7, <1>8, <1>9 DEF EventMoves

-----------------------------------------------------------------------------
(* The commands and what they leave in the message objects *)

\* What a write leaves in an object, and what a read leaves there and in the registers.
LEMMA WrittenFields ==
  ASSUME NEW c \in Content, NEW r \in Content, NEW fields
  PROVE  LET new == Written(c, r, fields)
         IN /\ new.role = IF "ARB" \in fields THEN r.role ELSE c.role
            /\ new.data = IF "DATA" \in fields THEN r.data ELSE c.data
            /\ IF "CONTROL" \in fields
               THEN /\ new.txrqst = r.txrqst /\ new.newdat = r.newdat /\ new.msglst = r.msglst
                    /\ new.ie = r.ie /\ new.intpnd = r.intpnd
               ELSE /\ new.txrqst = (c.txrqst \/ "TXRQST" \in fields)
                    /\ new.newdat = c.newdat /\ new.msglst = c.msglst
                    /\ new.ie = c.ie /\ new.intpnd = c.intpnd
  BY DEF Written, Content

\* Reading moves what the command names, and clears what it asks to be cleared.
LEMMA ReadFields ==
  ASSUME NEW c \in Content, NEW r \in Content, NEW fields
  PROVE  LET new == Released(c, fields)
             filled == Fetched(r, c, fields)
         IN /\ new.role = c.role /\ new.data = c.data /\ new.txrqst = c.txrqst
            /\ new.msglst = c.msglst /\ new.ie = c.ie
            /\ new.newdat = (c.newdat /\ "TXRQST" \notin fields)
            /\ new.intpnd = (c.intpnd /\ "CLRINTPND" \notin fields)
            /\ filled.newdat = IF "CONTROL" \in fields THEN c.newdat ELSE r.newdat
            /\ filled.data = IF "DATA" \in fields THEN c.data ELSE r.data
            /\ filled.role = IF "ARB" \in fields THEN c.role ELSE r.role
  BY DEF Released, Fetched, Content

\* Interface 2 reads, as receive() and the ISR do; interface 1 reads control words.
CommandsInv ==
  /\ ifc[2].busy =>
       /\ ~ifc[2].cmd.write
       /\ ifc[2].cmd.fields \in {SnapshotFields, AcknowledgeFields, {"CLRINTPND"}}
  /\ ifc[1].busy /\ ~ifc[1].cmd.write =>
       ifc[1].cmd.fields \in {{"CONTROL"}, {"CONTROL", "TXRQST"}}

\* A received frame, by its number, that object o stored.
Holds(k, o) == k \in Frames /\ origin[k] = o
\* What the object holds is a frame it received.
Own(o) == ram[o].role = "RX_DATA" /\ Holds(ram[o].data, o)

\* A cancel writes the control word back.
Restoring == Writing /\ ifc[1].cmd.fields = {"CONTROL", "TXRQST"}

\* The four commands that write: the setup of an object that is not configured yet, new
\* data for a responder, a request of a sender, the control word a cancel writes back.
WritingInv ==
  can.initialized /\ Writing =>
    LET o == ifc[1].cmd.obj
        r == ifc[1].regs
    IN \/ Setting /\ ~r.txrqst /\ ~r.newdat /\ ~r.intpnd /\ purpose[o] = "NONE"
       \/ ifc[1].cmd.fields = {"DATA"} /\ ram[o].role = "REMOTE_RESPONSE"
       \/ Raising /\ ram[o].role \in Senders
       \/ Restoring /\ o \in disturbed /\ ~r.txrqst /\ (r.newdat => Own(o))

\* A receive object requests nothing, and what an object offers is a frame it received.
ObjectInv ==
  /\ RoleInv
  /\ can.initialized => \A o \in Mailbox :
       /\ ram[o].role = "RX_DATA" => ~ram[o].txrqst
       /\ ram[o].newdat => Own(o)

\* The control word a cancel has read offers a frame only if the object did, and an object
\* is loaded with what its configuration says and offers nothing until the call returns.
StageInv ==
  /\ At("control") =>
       IF ifc[1].busy
       THEN /\ ~ifc[1].cmd.write /\ ifc[1].cmd.obj = fg.obj
            /\ ifc[1].cmd.fields = {"CONTROL", "TXRQST"}
       ELSE ifc[1].regs.newdat => Own(fg.obj)
  /\ fg.op = "configure" =>
       /\ ~fg.arg.newdat /\ ~fg.arg.txrqst /\ ~fg.arg.intpnd
       /\ At("loaded") /\ ifc[1].busy =>
            /\ Setting /\ ifc[1].cmd.obj = fg.obj
            /\ ifc[1].regs.role = fg.arg.role /\ ifc[1].regs.ie = fg.arg.ie
       /\ At("stored") => fg.arg.role = "REMOTE_RESPONSE"
       /\ At("stored") /\ ifc[1].busy => Writing /\ ifc[1].cmd.fields = {"DATA"}
       /\ (At("loaded") /\ ~ifc[1].busy) \/ At("stored") =>
            /\ ram[fg.obj].role = fg.arg.role /\ ram[fg.obj].ie = fg.arg.ie
            /\ ~ram[fg.obj].newdat /\ ~ram[fg.obj].intpnd /\ fg.obj \notin unreported

\* Every command stays one of those the code issues.
LEMMA CommandsStep ==
  ASSUME TypesInv, CommandsInv, EventMoves
  PROVE  CommandsInv'
<1> USE DEF CommandsInv
<1>1. ASSUME UNCHANGED ifc PROVE CommandsInv'
  BY <1>1
<1>2. CASE Resets
  <2>1. UNCHANGED ifc \/ (~ifc'[1].busy /\ ~ifc'[2].busy)
    BY <1>2 DEF Resets
  <2> QED BY <2>1
<1>3. CASE Handles \/ GivesUp \/ Counts \/ TakesEvent \/ Stutters
  BY <1>1, <1>3 DEF Handles, GivesUp, Counts, TakesEvent, Stutters
<1>4. ASSUME NEW o, NEW regs, NEW write, NEW fields, Issued(1, o, regs, write, fields),
             write \/ fields \in {{"CONTROL"}, {"CONTROL", "TXRQST"}}
      PROVE  CommandsInv'
  BY <1>4 DEF Issued
<1>5. ASSUME NEW o, NEW regs, NEW fields, Issued(2, o, regs, FALSE, fields),
             fields \in {SnapshotFields, AcknowledgeFields, {"CLRINTPND"}}
      PROVE  CommandsInv'
  BY <1>5 DEF Issued
<1>6. CASE CallMoves
  <2>1. CASE OpenMoves \/ ReturnMoves
    BY <1>1, <2>1 DEF OpenMoves, Stays, Opens, OpensConfigure, OpensCancel, ReturnMoves, Returns
  <2>2. CASE SubmitMoves
    BY <1>4, <2>2, Zenon DEF SubmitMoves, Submits
  <2>3. CASE OtherMoves
    BY <1>1, <1>5, <2>3, Zenon DEF OtherMoves
  <2> QED BY <1>6, <2>1, <2>2, <2>3 DEF CallMoves
<1>7. ASSUME NEW i \in 1..2, Executes(i) PROVE CommandsInv'
  BY <1>7 DEF Executes
<1>8. ASSUME NEW o \in Mailbox, Arrives(o) \/ Sends(o) \/ Enters(o) PROVE CommandsInv'
  BY <1>1, <1>8 DEF Arrives, Sends, Enters
<1>9. CASE IsrMoves
  BY <1>1, <1>5, <1>9, Zenon DEF IsrMoves, IsrIssues, IsrEnds
<1> QED BY <1>2, <1>3, <1>6, <1>7, <1>8, <1>9 DEF EventMoves

\* What the command of an interface does to its object.
LEMMA WriteExecuted ==
  ASSUME TypesInv, NEW i \in 1..2, Executes(i), ifc[i].cmd.write
  PROVE  LET o == ifc[i].cmd.obj
             fields == ifc[i].cmd.fields
             r == ifc[i].regs
         IN /\ ram'[o].role = IF "ARB" \in fields THEN r.role ELSE ram[o].role
            /\ ram'[o].data = IF "DATA" \in fields THEN r.data ELSE ram[o].data
            /\ IF "CONTROL" \in fields
               THEN /\ ram'[o].txrqst = r.txrqst /\ ram'[o].newdat = r.newdat
                    /\ ram'[o].msglst = r.msglst /\ ram'[o].ie = r.ie
                    /\ ram'[o].intpnd = r.intpnd
               ELSE /\ ram'[o].txrqst = (ram[o].txrqst \/ "TXRQST" \in fields)
                    /\ ram'[o].newdat = ram[o].newdat /\ ram'[o].msglst = ram[o].msglst
                    /\ ram'[o].ie = ram[o].ie /\ ram'[o].intpnd = ram[o].intpnd
<1> DEFINE o == ifc[i].cmd.obj
           fields == ifc[i].cmd.fields
           r == ifc[i].regs
<1>1. o \in Mailbox /\ ram'[o] = Written(ram[o], r, fields)
  BY DEF Executes
<1>2. ram[o] \in Content /\ r \in Content
  BY <1>1 DEF TypesInv, TypeOK
<1> QED BY <1>1, <1>2, WrittenFields

\* The same for a command that reads.
LEMMA ReadExecuted ==
  ASSUME TypesInv, NEW i \in 1..2, Executes(i), ~ifc[i].cmd.write
  PROVE  LET o == ifc[i].cmd.obj
             fields == ifc[i].cmd.fields
             r == ifc[i].regs
         IN /\ ram'[o].role = ram[o].role /\ ram'[o].data = ram[o].data
            /\ ram'[o].txrqst = ram[o].txrqst /\ ram'[o].msglst = ram[o].msglst
            /\ ram'[o].ie = ram[o].ie
            /\ ram'[o].newdat = (ram[o].newdat /\ "TXRQST" \notin fields)
            /\ ram'[o].intpnd = (ram[o].intpnd /\ "CLRINTPND" \notin fields)
            /\ ifc'[i].regs.newdat = IF "CONTROL" \in fields THEN ram[o].newdat ELSE r.newdat
            /\ ifc'[i].regs.data = IF "DATA" \in fields THEN ram[o].data ELSE r.data
            /\ ifc'[i].regs.role = IF "ARB" \in fields THEN ram[o].role ELSE r.role
<1> DEFINE o == ifc[i].cmd.obj
           fields == ifc[i].cmd.fields
           r == ifc[i].regs
<1>1. /\ o \in Mailbox /\ ram'[o] = Released(ram[o], fields)
      /\ ifc'[i].regs = Fetched(r, ram[o], fields)
  BY DEF Executes
<1>2. ram[o] \in Content /\ r \in Content
  BY <1>1 DEF TypesInv, TypeOK
<1> QED BY <1>1, <1>2, ReadFields

\* Only HAL_CAN_init forgets: the handle stays initialised, the frames and the marks stay.
LEMMA Remembers ==
  ASSUME TypesInv, EventMoves
  PROVE  /\ Frames \subseteq Frames' /\ \A k \in Frames : origin'[k] = origin[k]
         /\ Resets \/ (can'.initialized = can.initialized /\ disturbed \subseteq disturbed')
<1>1. CASE CallMoves /\ CallFrame
  <2>1. can' = can \/ can' = Routed
    BY <1>1 DEF CallMoves, OpenMoves, SubmitMoves, OtherMoves, ReturnMoves
  <2>2. disturbed \subseteq disturbed'
    BY <1>1 DEF CallMoves, OpenMoves, SubmitMoves, OtherMoves, ReturnMoves
  <2> QED BY <1>1, <2>1, <2>2, RoutedLine DEF CallFrame, Frames, TypesInv
<1>2. CASE Resets \/ Handles \/ GivesUp \/ Counts \/ TakesEvent \/ Stutters
  BY <1>2 DEF Resets, Handles, GivesUp, Counts, TakesEvent, Stutters, Frames
<1>3. ASSUME NEW i \in 1..2, Executes(i)
      PROVE  UNCHANGED <<origin, can, disturbed>>
  BY <1>3 DEF Executes, PeripheralFrame
<1>4. ASSUME NEW o \in Mailbox, Arrives(o) \/ Sends(o) \/ Enters(o)
      PROVE  /\ UNCHANGED <<can, disturbed>> /\ Frames \subseteq Frames'
             /\ \A k \in Frames : origin'[k] = origin[k]
  BY <1>4 DEF Arrives, Sends, Enters, PeripheralFrame, IsrFrame, Frames
<1>5. CASE IsrMoves
  BY <1>5 DEF IsrMoves, IsrIssues, IsrEnds, IsrFrame, Frames
<1> QED BY <1>1, <1>2, <1>3, <1>4, <1>5 DEF EventMoves, Frames

\* Only the peripheral and HAL_CAN_init change a message object.
LEMMA RamKept ==
  ASSUME EventMoves
  PROVE  \/ UNCHANGED ram
         \/ Resets \/ Executes(1) \/ Executes(2)
         \/ \E o \in Mailbox : Arrives(o) \/ Sends(o)
<1>1. CASE CallMoves /\ CallFrame
  BY <1>1 DEF CallFrame
<1>2. CASE Handles \/ GivesUp \/ Counts \/ TakesEvent \/ Stutters
  BY <1>2 DEF Handles, GivesUp, Counts, TakesEvent, Stutters
<1>3. ASSUME NEW o \in Mailbox, Enters(o) PROVE UNCHANGED ram
  BY <1>3 DEF Enters, IsrFrame
<1>4. CASE IsrMoves
  BY <1>4 DEF IsrMoves, IsrIssues, IsrEnds, IsrFrame
<1> QED BY <1>1, <1>2, <1>3, <1>4 DEF EventMoves

\* The role of an object changes when it is set up, and what is stored in a receive object
\* was received.
LEMMA RolesKept ==
  ASSUME TypesInv, CommandsInv, EventMoves, ~Resets, ~Executes(1), NEW o \in Mailbox
  PROVE  /\ ram'[o].role = ram[o].role
         /\ Own(o) => Own(o)'
<1> USE DEF Own, Holds
<1>1. Frames \subseteq Frames' /\ \A k \in Frames : origin'[k] = origin[k]
  BY Remembers
<1>2. CASE UNCHANGED ram
  BY <1>1, <1>2
<1>3. CASE Executes(2)
  <2>1. ~ifc[2].cmd.write /\ 2 \in 1..2
    BY <1>3 DEF Executes, CommandsInv
  <2>2. ram'[o].role = ram[o].role /\ ram'[o].data = ram[o].data
    BY <1>3, <2>1, ReadExecuted DEF Executes
  <2> QED BY <1>1, <2>2
<1>4. ASSUME NEW m \in Mailbox, Arrives(m) \/ Sends(m)
      PROVE  /\ ram'[o].role = ram[o].role
             /\ Own(o) => Own(o)'
  <2>1. ram'[o].role = ram[o].role
    BY <1>4 DEF Arrives, Sends
  <2>2. CASE Sends(m)
    BY <1>1, <1>4, <2>1, <2>2 DEF Sends
  <2>3. CASE Arrives(m) /\ m # o
    BY <1>1, <1>4, <2>1, <2>3 DEF Arrives
  <2>4. CASE Arrives(o)
    BY <1>4, <2>1, <2>4 DEF Arrives
  <2> QED BY <1>4, <2>2, <2>3, <2>4
<1> QED BY <1>2, <1>3, <1>4, RamKept

\* Nor does a write that is not a setup change it.
LEMMA WritesKeepOwn ==
  ASSUME TypesInv, CommandsInv, WritingInv, can.initialized, Executes(1), ~Setting,
         NEW o \in Mailbox
  PROVE  /\ ram'[o].role = ram[o].role
         /\ Own(o) => Own(o)'
<1>0. 1 \in 1..2 /\ ifc[1].busy /\ UNCHANGED origin
  BY DEF Executes
<1>1. CASE o # ifc[1].cmd.obj
  BY <1>0, <1>1 DEF Executes, Own, Holds, Frames
<1>2. CASE o = ifc[1].cmd.obj /\ ~ifc[1].cmd.write
  BY <1>0, <1>2, ReadExecuted DEF Own, Holds, Frames
<1>3. CASE o = ifc[1].cmd.obj /\ ifc[1].cmd.write
  <2>1. Writing
    BY <1>0, <1>3 DEF Writing
  <2>2. "ARB" \notin ifc[1].cmd.fields
        /\ ("DATA" \in ifc[1].cmd.fields => ram[o].role # "RX_DATA")
    BY <1>3, <2>1 DEF WritingInv, Raising, Restoring, Senders
  <2>3. ram'[o].role = ram[o].role /\ (ram[o].role = "RX_DATA" => ram'[o].data = ram[o].data)
    BY <1>0, <1>3, <2>2, WriteExecuted
  <2> QED BY <1>0, <2>3 DEF Own, Holds, Frames
<1> QED BY <1>1, <1>2, <1>3

\* A command that is under way stays what it was issued as.
LEMMA WritingStands ==
  ASSUME TypesInv, CommandsInv, WritingInv, EventMoves, ~Resets, ~Executes(1),
         ifc'[1] = ifc[1],
         ifc[1].busy => \A o \in Mailbox : purpose[o] = "NONE" => purpose'[o] = "NONE"
  PROVE  WritingInv'
<1>1. can'.initialized = can.initialized /\ disturbed \subseteq disturbed'
  BY Remembers
<1>2. PICK o \in Mailbox : o = ifc[1].cmd.obj
  BY DEF TypesInv, TypeOK, Command
<1>3. ram'[o].role = ram[o].role /\ (Own(o) => Own(o)')
  BY <1>2, RolesKept
<1>4. /\ Writing' = Writing /\ Setting' = Setting /\ Raising' = Raising /\ Restoring' = Restoring
  BY DEF Writing, Setting, Raising, Restoring
<1>5. CASE can.initialized /\ Writing
  <2>1. \/ Setting /\ ~ifc[1].regs.txrqst /\ ~ifc[1].regs.newdat /\ ~ifc[1].regs.intpnd
           /\ purpose[o] = "NONE"
        \/ ifc[1].cmd.fields = {"DATA"} /\ ram[o].role = "REMOTE_RESPONSE"
        \/ Raising /\ ram[o].role \in Senders
        \/ Restoring /\ o \in disturbed /\ ~ifc[1].regs.txrqst /\ (ifc[1].regs.newdat => Own(o))
    BY <1>2, <1>5 DEF WritingInv
  <2>2. purpose[o] = "NONE" => purpose'[o] = "NONE"
    BY <1>5 DEF Writing
  <2>3. \/ Setting' /\ ~ifc'[1].regs.txrqst /\ ~ifc'[1].regs.newdat /\ ~ifc'[1].regs.intpnd
           /\ purpose'[o] = "NONE"
        \/ ifc'[1].cmd.fields = {"DATA"} /\ ram'[o].role = "REMOTE_RESPONSE"
        \/ Raising' /\ ram'[o].role \in Senders
        \/ Restoring' /\ o \in disturbed' /\ ~ifc'[1].regs.txrqst /\ (ifc'[1].regs.newdat => Own(o)')
    BY <1>1, <1>3, <1>4, <2>1, <2>2
  <2>4. o = ifc'[1].cmd.obj
    BY <1>2
  <2> QED BY <2>3, <2>4 DEF WritingInv, Own, Holds
<1> QED BY <1>1, <1>4, <1>5 DEF WritingInv

\* Every write stays one of the four.
LEMMA WritingStep ==
  ASSUME TypesInv, TypesInv', LifeInv, StepsInv, CommandsInv, WritingInv, ObjectInv, StageInv,
         EventMoves
  PROVE  WritingInv'
<1>1. CASE Resets
  BY <1>1 DEF Resets, WritingInv, Writing
<1>2. CASE Executes(1)
  BY <1>2 DEF Executes, WritingInv, Writing
<1> SUFFICES ASSUME ~Resets, ~Executes(1) PROVE WritingInv'
  BY <1>1, <1>2
<1>3. /\ can'.initialized = can.initialized /\ disturbed \subseteq disturbed'
      /\ \A o \in Mailbox : ram'[o].role = ram[o].role
  BY Remembers, RolesKept
<1>4. ASSUME NEW o \in Mailbox, NEW r, NEW write, NEW fields, Issued(1, o, r, write, fields),
             can.initialized =>
               \/ ~write
               \/ /\ fields = {"ARB", "CONTROL"} /\ purpose'[o] = "NONE"
                  /\ ~r.txrqst /\ ~r.newdat /\ ~r.intpnd
               \/ fields = {"DATA"} /\ ram[o].role = "REMOTE_RESPONSE"
               \/ fields \in {{"DATA", "TXRQST"}, {"TXRQST"}} /\ ram[o].role \in Senders
               \/ /\ fields = {"CONTROL", "TXRQST"} /\ o \in disturbed'
                  /\ ~r.txrqst /\ (r.newdat => Own(o))
      PROVE  WritingInv'
  <2>1. Own(o) => Own(o)'
    BY RolesKept
  <2>2. /\ ifc'[1].busy /\ ifc'[1].regs = r /\ ifc'[1].cmd.obj = o
        /\ ifc'[1].cmd.write = write /\ ifc'[1].cmd.fields = fields
    BY <1>4 DEF Issued
  <2>3. r.newdat => (Own(o) => Own(ifc[1].cmd.obj)')
    BY <2>1, <2>2 DEF Own, Holds
  <2> QED
    BY <1>3, <1>4, <2>2, <2>3 DEF WritingInv, Writing, Setting, Raising, Restoring
<1>5. CASE CallMoves
  <2>0. fg.obj \in Mailbox /\ fg.op \in Operation /\ purpose \in [Mailbox -> Role]
    BY DEF TypesInv, TypeOK
  <2>1. CASE OpenMoves
    <3>1. UNCHANGED ifc /\ \A o \in Mailbox : purpose[o] = "NONE" => purpose'[o] = "NONE"
      BY <2>0, <2>1 DEF OpenMoves, Stays, Opens, OpensConfigure, OpensCancel
    <3> QED BY <3>1, WritingStands
  <2>2. CASE ReturnMoves
    <3>1. UNCHANGED ifc /\ (ifc[1].busy => UNCHANGED purpose)
      BY <2>2 DEF ReturnMoves, Returns
    <3> QED BY <3>1, WritingStands
  <2>3. CASE OtherMoves
    <3>1. ifc'[1] = ifc[1] /\ UNCHANGED purpose
      BY <2>3 DEF OtherMoves, Issued
    <3> QED BY <3>1, WritingStands
  <2>4. CASE SubmitMoves
    <3>1. UNCHANGED purpose
      BY <2>4 DEF SubmitMoves, Submits
    <3>2. ASSUME Submits("setup", [fg.arg EXCEPT !.data = ifc[1].regs.data], TRUE,
                         {"ARB", "CONTROL"}, "loaded")
          PROVE  WritingInv'
      <4> DEFINE r == [fg.arg EXCEPT !.data = ifc[1].regs.data]
      <4>1. fg.op = "configure"
        BY <2>0, <3>2 DEF Submits, StepsInv, Operation, Cancels
      <4>2. ~r.txrqst /\ ~r.newdat /\ ~r.intpnd
        BY <4>1 DEF StageInv, TypesInv, TypeOK, Content
      <4>3. Issued(1, fg.obj, r, TRUE, {"ARB", "CONTROL"})
        BY <3>2 DEF Submits
      <4> HIDE DEF r
      <4> QED BY <1>4, <2>0, <3>1, <4>1, <4>2, <4>3 DEF StepsInv
    <3>3. ASSUME NEW r, fg.arg.role = "REMOTE_RESPONSE", Submits("loaded", r, TRUE, {"DATA"}, "stored")
          PROVE  WritingInv'
      <4>1. fg.op = "configure" /\ fg.pc = "loaded" /\ ~ifc[1].busy
        BY <2>0, <3>3 DEF Submits, StepsInv, Operation, Cancels, Issued
      <4>2. ram[fg.obj].role = "REMOTE_RESPONSE"
        BY <3>3, <4>1 DEF StageInv, At
      <4> QED BY <1>4, <2>0, <3>3, <4>2 DEF Submits
    <3>4. ASSUME NEW r, NEW fields \in {{"DATA", "TXRQST"}, {"TXRQST"}},
                 Submits("length", r, TRUE, fields, "submitted")
          PROVE  WritingInv'
      <4>1. fg.op = "send"
        BY <2>0, <3>4 DEF Submits, StepsInv, Operation, Cancels
      <4>2. ram[fg.obj].role \in Senders
        BY <2>0, <4>1 DEF StepsInv, ObjectInv, RoleInv, Senders
      <4> QED BY <1>4, <2>0, <3>4, <4>2 DEF Submits
    <3>5. ASSUME NEW r, fg.op = "request", Submits("free", r, TRUE, {"TXRQST"}, "submitted")
          PROVE  WritingInv'
      <4>1. ram[fg.obj].role \in Senders
        BY <2>0, <3>5 DEF StepsInv, ObjectInv, RoleInv, Senders
      <4> QED BY <1>4, <2>0, <3>5, <4>1 DEF Submits
    <3>6. ASSUME NEW r, fg.op = "update", Submits("free", r, TRUE, {"DATA"}, "stored")
          PROVE  WritingInv'
      <4>1. ram[fg.obj].role = "REMOTE_RESPONSE"
        BY <2>0, <3>6 DEF StepsInv, ObjectInv, RoleInv
      <4> QED BY <1>4, <2>0, <3>6, <4>1 DEF Submits
    <3>7. ASSUME NEW r, NEW fields, NEW from, NEW to, Submits(from, r, FALSE, fields, to)
          PROVE  WritingInv'
      BY <1>4, <2>0, <3>7 DEF Submits
    <3>8. ASSUME Submits("control", Cleared(ifc[1].regs), TRUE, {"CONTROL", "TXRQST"}, "next"),
                 disturbed' = disturbed \union {fg.obj}
          PROVE  WritingInv'
      <4> DEFINE r == Cleared(ifc[1].regs)
      <4>1. ~r.txrqst /\ r.newdat = ifc[1].regs.newdat
        BY DEF Cleared, TypesInv, TypeOK, Content
      <4>2. ifc[1].regs.newdat => Own(fg.obj)
        BY <3>8 DEF StageInv, At, Submits, Issued
      <4>3. Issued(1, fg.obj, r, TRUE, {"CONTROL", "TXRQST"})
        BY <3>8 DEF Submits
      <4> HIDE DEF r
      <4> QED BY <1>4, <2>0, <3>8, <4>1, <4>2, <4>3
    <3> QED BY <2>4, <3>2, <3>3, <3>4, <3>5, <3>6, <3>7, <3>8, Zenon DEF SubmitMoves
  <2> QED BY <1>5, <2>1, <2>2, <2>3, <2>4 DEF CallMoves
<1>6. CASE Handles \/ GivesUp \/ Counts \/ TakesEvent \/ Stutters
  <2>1. ifc'[1] = ifc[1] /\ UNCHANGED purpose
    BY <1>6 DEF Handles, GivesUp, Counts, TakesEvent, Stutters
  <2> QED BY <2>1, WritingStands
<1>7. CASE Executes(2)
  <2>1. ifc'[1] = ifc[1] /\ UNCHANGED purpose
    BY <1>7 DEF Executes, PeripheralFrame
  <2> QED BY <2>1, WritingStands
<1>8. ASSUME NEW o \in Mailbox, Arrives(o) \/ Sends(o) \/ Enters(o) PROVE WritingInv'
  <2>1. ifc'[1] = ifc[1] /\ UNCHANGED purpose
    BY <1>8 DEF Arrives, Sends, Enters, PeripheralFrame, IsrFrame
  <2> QED BY <2>1, WritingStands
<1>9. CASE IsrMoves
  <2>1. ifc'[1] = ifc[1] /\ UNCHANGED purpose
    BY <1>9 DEF IsrMoves, IsrIssues, IsrEnds, IsrFrame, Issued
  <2> QED BY <2>1, WritingStands
<1> QED BY <1>5, <1>6, <1>7, <1>8, <1>9 DEF EventMoves

\* A configured object has the role of its configuration, after every step.
LEMMA RoleStep ==
  ASSUME TypesInv, TypesInv', LifeInv, StepsInv, CommandsInv, WritingInv, ObjectInv, StageInv,
         EventMoves
  PROVE  RoleInv'
<1>0. /\ purpose \in [Mailbox -> Role] /\ fg.obj \in Mailbox /\ fg'.obj \in Mailbox
  BY DEF TypesInv, TypeOK
<1>1. CASE Resets
  BY <1>1 DEF Resets, RoleInv
<1>2. CASE Executes(1)
  <2>1. UNCHANGED purpose
    BY <1>2 DEF Executes, PeripheralFrame
  <2>2. ASSUME NEW o \in Mailbox, purpose[o] # "NONE" PROVE ram'[o].role = ram[o].role
    <3>1. can.initialized
      BY <2>2 DEF LifeInv
    <3>2. CASE ~Setting
      BY <1>2, <3>1, <3>2, WritesKeepOwn
    <3>3. CASE Setting
      <4>1. purpose[ifc[1].cmd.obj] = "NONE"
        BY <3>1, <3>3 DEF WritingInv, Setting, Raising, Restoring
      <4> QED BY <1>2, <2>2, <4>1 DEF Executes
    <3> QED BY <3>2, <3>3
  <2> QED BY <2>1, <2>2 DEF RoleInv, ObjectInv
<1> SUFFICES ASSUME ~Resets, ~Executes(1) PROVE RoleInv'
  BY <1>1, <1>2
<1>3. \A o \in Mailbox : ram'[o].role = ram[o].role
  BY RolesKept
<1>4. CASE UNCHANGED purpose
  BY <1>3, <1>4 DEF ObjectInv, RoleInv
<1>5. CASE CallMoves
  <2>1. CASE OpensConfigure
    BY <1>0, <1>3, <2>1 DEF OpensConfigure, ObjectInv, RoleInv
  <2>2. CASE /\ Returns({"loaded", "stored"}) /\ ~ifc[1].busy /\ fg.op = "configure"
             /\ purpose' = [purpose EXCEPT ![fg.obj] = fg.arg.role]
    <3>1. ram[fg.obj].role = fg.arg.role
      BY <2>2 DEF Returns, StageInv, At
    <3> QED BY <1>0, <1>3, <2>2, <3>1 DEF ObjectInv, RoleInv
  <2>3. UNCHANGED purpose \/ OpensConfigure
        \/ /\ Returns({"loaded", "stored"}) /\ ~ifc[1].busy /\ fg.op = "configure"
           /\ purpose' = [purpose EXCEPT ![fg.obj] = fg.arg.role]
    BY <1>5, Zenon
       DEF CallMoves, OpenMoves, Stays, Opens, OpensCancel, SubmitMoves, Submits, OtherMoves,
           ReturnMoves
  <2> QED BY <1>4, <2>1, <2>2, <2>3
<1>6. CASE Handles \/ GivesUp \/ Counts \/ TakesEvent \/ Stutters \/ Executes(2) \/ IsrMoves
  <2>1. UNCHANGED purpose
    BY <1>6 DEF Handles, GivesUp, Counts, TakesEvent, Stutters, Executes, PeripheralFrame,
                IsrMoves, IsrIssues, IsrEnds, IsrFrame
  <2> QED BY <1>4, <2>1
<1>7. ASSUME NEW o \in Mailbox, Arrives(o) \/ Sends(o) \/ Enters(o) PROVE UNCHANGED purpose
  BY <1>7 DEF Arrives, Sends, Enters, PeripheralFrame, IsrFrame
<1> QED BY <1>4, <1>5, <1>6, <1>7 DEF EventMoves

\* Objects offer frames they received, after every step.
LEMMA ObjectStep ==
  ASSUME TypesInv, TypesInv', LifeInv, StepsInv, CommandsInv, WritingInv, ObjectInv, StageInv,
         EventMoves
  PROVE  ObjectInv'
<1>1. RoleInv'
  BY RoleStep
<1>2. ASSUME can'.initialized, NEW o \in Mailbox
      PROVE  /\ ram'[o].role = "RX_DATA" => ~ram'[o].txrqst
             /\ ram'[o].newdat => Own(o)'
  <2>1. CASE Resets
    BY <2>1 DEF Resets, Blank
  <2> SUFFICES ASSUME ~Resets PROVE /\ ram'[o].role = "RX_DATA" => ~ram'[o].txrqst
                                    /\ ram'[o].newdat => Own(o)'
    BY <2>1
  <2>2. can.initialized
    BY <1>2, Remembers
  <2>3. /\ ram[o].role = "RX_DATA" => ~ram[o].txrqst
        /\ ram[o].newdat => Own(o)
    BY <2>2 DEF ObjectInv
  <2>4. CASE Executes(1)
    <3>0. 1 \in 1..2 /\ ifc[1].busy
      BY <2>4 DEF Executes
    <3>1. CASE o # ifc[1].cmd.obj
      BY <2>3, <2>4, <3>1 DEF Executes, Own, Holds, Frames
    <3>2. CASE o = ifc[1].cmd.obj /\ ~ifc[1].cmd.write
      <4>1. ram'[o].txrqst = ram[o].txrqst /\ ram'[o].role = ram[o].role
            /\ (ram'[o].newdat => ram[o].newdat)
        BY <2>4, <3>0, <3>2, ReadExecuted
      <4>2. Own(o) => Own(o)'
        BY <2>2, <2>4, <3>2, WritesKeepOwn DEF Setting, Writing
      <4> QED BY <2>3, <4>1, <4>2
    <3>3. CASE o = ifc[1].cmd.obj /\ Setting
      <4>1. ifc[1].cmd.write /\ "CONTROL" \in ifc[1].cmd.fields
        BY <3>3 DEF Setting, Writing
      <4>2. ~ifc[1].regs.txrqst /\ ~ifc[1].regs.newdat
        BY <2>2, <3>3 DEF WritingInv, Setting, Raising, Restoring
      <4>3. ~ram'[o].txrqst /\ ~ram'[o].newdat
        BY <2>4, <3>0, <3>3, <4>1, <4>2, WriteExecuted
      <4> QED BY <4>3
    <3>4. CASE o = ifc[1].cmd.obj /\ Writing /\ ~Setting
      <4>1. ram'[o].role = ram[o].role /\ (Own(o) => Own(o)')
        BY <2>2, <2>4, <3>4, WritesKeepOwn
      <4>2. \/ ifc[1].cmd.fields = {"DATA"} /\ ram[o].role = "REMOTE_RESPONSE"
            \/ Raising /\ ram[o].role \in Senders
            \/ Restoring /\ ~ifc[1].regs.txrqst /\ (ifc[1].regs.newdat => Own(o))
        BY <2>2, <3>4 DEF WritingInv
      <4>3. \/ "CONTROL" \notin ifc[1].cmd.fields /\ ram[o].role # "RX_DATA"
            \/ /\ "CONTROL" \in ifc[1].cmd.fields
               /\ ~ifc[1].regs.txrqst /\ (ifc[1].regs.newdat => Own(o))
        BY <4>2 DEF Raising, Restoring, Senders
      <4>4. ifc[1].cmd.write
        BY <3>4 DEF Writing
      <4>5. IF "CONTROL" \in ifc[1].cmd.fields
            THEN ram'[o].txrqst = ifc[1].regs.txrqst /\ ram'[o].newdat = ifc[1].regs.newdat
            ELSE ram'[o].newdat = ram[o].newdat
        BY <2>4, <3>0, <3>4, <4>4, WriteExecuted
      <4>6. \/ ram[o].role # "RX_DATA" /\ ram'[o].newdat = ram[o].newdat
            \/ ~ram'[o].txrqst /\ (ram'[o].newdat => Own(o))
        BY <4>3, <4>5
      <4> QED BY <2>3, <4>1, <4>6
    <3> QED BY <3>0, <3>1, <3>2, <3>3, <3>4 DEF Writing
  <2>5. CASE ~Executes(1)
    <3>1. ram'[o].role = ram[o].role /\ (Own(o) => Own(o)')
      BY <2>5, RolesKept
    <3>2. CASE UNCHANGED ram
      BY <2>3, <3>1, <3>2
    <3>3. CASE Executes(2)
      <4>1. ~ifc[2].cmd.write /\ 2 \in 1..2
        BY <3>3 DEF CommandsInv, Executes
      <4>2. \A m \in Mailbox : m # ifc[2].cmd.obj => ram'[m] = ram[m]
        BY <3>3 DEF Executes
      <4>3. ram'[o].txrqst = ram[o].txrqst /\ (ram'[o].newdat => ram[o].newdat)
        <5>1. CASE o # ifc[2].cmd.obj
          BY <4>2, <5>1
        <5>2. CASE o = ifc[2].cmd.obj
          BY <3>3, <4>1, <5>2, ReadExecuted
        <5> QED BY <5>1, <5>2
      <4> QED BY <2>3, <3>1, <4>3
    <3>4. ASSUME NEW m \in Mailbox, Arrives(m) \/ Sends(m)
          PROVE /\ ram'[o].role = "RX_DATA" => ~ram'[o].txrqst
                /\ ram'[o].newdat => Own(o)'
      <4>1. CASE m # o
        BY <2>3, <3>1, <3>4, <4>1 DEF Arrives, Sends
      <4>2. CASE Arrives(o)
        BY <2>3, <3>1, <4>2 DEF Arrives, Own, Holds
      <4>3. CASE Sends(o)
        BY <2>3, <3>1, <4>3 DEF Sends
      <4> QED BY <3>4, <4>1, <4>2, <4>3
    <3> QED BY <2>5, <3>2, <3>3, <3>4, RamKept
  <2> QED BY <2>4, <2>5
<1> QED BY <1>1, <1>2 DEF ObjectInv

\* What a configuration under way relies on, apart from its arguments.
LoadedOK(o) ==
  /\ ram[o].role = fg.arg.role /\ ram[o].ie = fg.arg.ie
  /\ ~ram[o].newdat /\ ~ram[o].intpnd /\ o \notin unreported

\* A step that leaves the call and interface 1 alone.
LEMMA StageStands ==
  ASSUME TypesInv, LifeInv, StepsInv, CommandsInv, StageInv, EventMoves,
         ~Resets, ~Executes(1), ifc'[1] = ifc[1], UNCHANGED fg
  PROVE  StageInv'
<1>0. fg.obj \in Mailbox
  BY DEF TypesInv, TypeOK
<1>1. Own(fg.obj) => Own(fg.obj)'
  <2>1. PICK o \in Mailbox : o = fg.obj
    BY <1>0
  <2>2. Own(o) => Own(o)'
    BY RolesKept
  <2> QED BY <2>1, <2>2 DEF Own, Holds
<1>2. ASSUME fg.op = "configure", LoadedOK(fg.obj) PROVE LoadedOK(fg.obj)'
  <2>1. ~running /\ ~can.enabled
    BY <1>2 DEF StepsInv
  <2>2. \/ Executes(2)
        \/ UNCHANGED ram /\ unreported' \subseteq unreported
    <3>1. CASE CallMoves /\ CallFrame
      BY <3>1 DEF CallFrame
    <3>2. CASE Handles \/ GivesUp \/ Counts \/ TakesEvent \/ Stutters
      BY <3>2 DEF Handles, GivesUp, Counts, TakesEvent, Stutters
    <3>3. ASSUME NEW o \in Mailbox, Arrives(o) \/ Sends(o) \/ Enters(o) PROVE FALSE
      BY <2>1, <3>3 DEF Arrives, Sends, Enters
    <3>4. CASE IsrMoves
      BY <2>1, <3>4 DEF IsrMoves, IsrIssues, IsrEnds
    <3> QED BY <3>1, <3>2, <3>3, <3>4 DEF EventMoves
  <2>3. CASE Executes(2)
    <3>1. ~ifc[2].cmd.write /\ 2 \in 1..2
      BY <2>3 DEF CommandsInv, Executes
    <3>2. /\ ram'[fg.obj].role = ram[fg.obj].role /\ ram'[fg.obj].ie = ram[fg.obj].ie
          /\ ram'[fg.obj].newdat => ram[fg.obj].newdat
          /\ ram'[fg.obj].intpnd => ram[fg.obj].intpnd
      <4>1. \A m \in Mailbox : m # ifc[2].cmd.obj => ram'[m] = ram[m]
        BY <2>3 DEF Executes
      <4> QED BY <1>0, <2>3, <3>1, <4>1, ReadExecuted
    <3>3. UNCHANGED unreported
      BY <2>3, <3>1 DEF Executes
    <3> QED BY <1>2, <3>2, <3>3 DEF LoadedOK
  <2> QED BY <1>2, <2>2, <2>3 DEF LoadedOK
<1>3. /\ Writing' = Writing /\ Setting' = Setting /\ \A step \in Step : At(step)' = At(step)
  BY DEF Writing, Setting, At
<1>4. "control" \in Step /\ "loaded" \in Step /\ "stored" \in Step
  BY DEF Step
<1> QED BY <1>1, <1>2, <1>3, <1>4 DEF StageInv, LoadedOK

\* The command of interface 1 is what the configuration under way waits for.
LEMMA StageExecuted ==
  ASSUME TypesInv, LifeInv, StepsInv, CommandsInv, WritingInv, ObjectInv, StageInv, Executes(1)
  PROVE  StageInv'
<1>0. /\ fg.obj \in Mailbox /\ UNCHANGED fg /\ ifc[1].busy /\ ~ifc'[1].busy /\ 1 \in 1..2
      /\ fg.op # "none" => can.initialized
  BY DEF TypesInv, TypeOK, Executes, PeripheralFrame, LifeInv
<1>1. CASE At("control")
  <2>1. ~ifc[1].cmd.write /\ ifc[1].cmd.obj = fg.obj /\ ifc[1].cmd.fields = {"CONTROL", "TXRQST"}
    BY <1>0, <1>1 DEF StageInv
  <2>2. ifc'[1].regs.newdat => ram[fg.obj].newdat
    BY <1>0, <2>1, ReadExecuted
  <2>3. can.initialized /\ fg.op # "configure"
    BY <1>0, <1>1 DEF StepsInv, At
  <2>4. PICK o \in Mailbox : o = fg.obj
    BY <1>0
  <2>5. ~Setting
    BY <2>1 DEF Setting, Writing
  <2>6. Own(o) => Own(o)'
    BY <2>3, <2>5, WritesKeepOwn
  <2>7. ram[o].newdat => Own(o)
    BY <2>3 DEF ObjectInv
  <2> QED BY <1>0, <1>1, <2>2, <2>3, <2>4, <2>6, <2>7 DEF StageInv, At, Own, Holds
<1>2. CASE fg.op = "configure" /\ At("loaded")
  <2>1. /\ Setting /\ ifc[1].cmd.obj = fg.obj
        /\ ifc[1].regs.role = fg.arg.role /\ ifc[1].regs.ie = fg.arg.ie
    BY <1>0, <1>2 DEF StageInv
  <2>2. ifc[1].cmd.write /\ "ARB" \in ifc[1].cmd.fields /\ "CONTROL" \in ifc[1].cmd.fields
    BY <2>1 DEF Setting, Writing
  <2>3. can.initialized
    BY <1>0, <1>2
  <2>4. ~ifc[1].regs.newdat /\ ~ifc[1].regs.intpnd
    BY <2>1, <2>3 DEF WritingInv, Setting, Raising, Restoring
  <2>5. LoadedOK(fg.obj)'
    <3>1. unreported' = unreported \ {fg.obj}
      BY <2>1, <2>2 DEF Executes
    <3>2. /\ ram'[fg.obj].role = fg.arg.role /\ ram'[fg.obj].ie = fg.arg.ie
          /\ ~ram'[fg.obj].newdat /\ ~ram'[fg.obj].intpnd
      BY <1>0, <2>1, <2>2, <2>4, WriteExecuted
    <3> QED BY <1>0, <3>1, <3>2 DEF LoadedOK
  <2> QED BY <1>0, <1>2, <2>5 DEF StageInv, At, LoadedOK
<1>3. CASE fg.op = "configure" /\ At("stored")
  <2>1. /\ Writing /\ ifc[1].cmd.fields = {"DATA"} /\ fg.arg.role = "REMOTE_RESPONSE"
        /\ LoadedOK(fg.obj)
    BY <1>0, <1>3 DEF StageInv, LoadedOK
  <2>2. ifc[1].cmd.write /\ "ARB" \notin ifc[1].cmd.fields /\ "CONTROL" \notin ifc[1].cmd.fields
    BY <2>1 DEF Writing
  <2>3. LoadedOK(fg.obj)'
    <3>1. unreported' = unreported
      BY <2>2 DEF Executes
    <3>2. /\ ram'[fg.obj].role = ram[fg.obj].role /\ ram'[fg.obj].ie = ram[fg.obj].ie
          /\ ram'[fg.obj].newdat = ram[fg.obj].newdat
          /\ ram'[fg.obj].intpnd = ram[fg.obj].intpnd
      <4>1. CASE ifc[1].cmd.obj = fg.obj
        BY <1>0, <2>2, <4>1, WriteExecuted
      <4>2. CASE ifc[1].cmd.obj # fg.obj
        BY <1>0, <4>2 DEF Executes
      <4> QED BY <4>1, <4>2
    <3> QED BY <1>0, <2>1, <3>1, <3>2 DEF LoadedOK
  <2> QED BY <1>0, <1>3, <2>1, <2>3 DEF StageInv, At, LoadedOK
<1>4. CASE ~At("control") /\ ~(fg.op = "configure" /\ fg.pc \in {"loaded", "stored"})
  BY <1>0, <1>4 DEF StageInv, At
<1> QED BY <1>1, <1>2, <1>3, <1>4 DEF At

\* Cancels and configurations keep what they rely on.
LEMMA StageStep ==
  ASSUME TypesInv, TypesInv', LifeInv, StepsInv, CommandsInv, WritingInv, ObjectInv, StageInv,
         EventMoves
  PROVE  StageInv'
<1>1. CASE fg'.pc # "control" /\ fg'.op # "configure"
  BY <1>1 DEF StageInv, At
<1>2. CASE Resets
  BY <1>1, <1>2 DEF Resets, StepsInv
<1>3. CASE Executes(1)
  BY <1>3, StageExecuted
<1> SUFFICES ASSUME ~Resets, ~Executes(1) PROVE StageInv'
  BY <1>2, <1>3
<1>4. CASE CallMoves /\ CallFrame
  <2>0. UNCHANGED <<ram, unreported, origin>>
    BY <1>4 DEF CallFrame
  <2>1. CASE OpenMoves
    <3>1. CASE Stays
      BY <3>1, StageStands DEF Stays
    <3>2. CASE OpensConfigure
      BY <3>2 DEF OpensConfigure, StageInv, At
    <3>3. CASE OpensCancel
      BY <1>1, <3>3 DEF OpensCancel, Cancels
    <3>4. CASE \/ running /\ Opens("send", "commit", "TX_DATA")
               \/ running /\ Opens("request", "commit", "TX_REMOTE_REQUEST")
               \/ Opens("update", "commit", "REMOTE_RESPONSE")
               \/ running /\ ~can.enabled /\ Opens("receive", "poll", "RX_DATA")
      BY <1>1, <3>4 DEF Opens
    <3> QED BY <2>1, <3>1, <3>2, <3>3, <3>4, Zenon DEF OpenMoves
  <2>2. CASE ReturnMoves
    BY <1>1, <2>2, IdleCallFields DEF ReturnMoves, Returns
  <2>3. CASE OtherMoves
    <3>1. fg'.pc # "control" /\ fg.pc \notin {"setup", "loaded", "stored", "expired"}
          /\ fg'.op = fg.op
      BY <2>3 DEF OtherMoves, Goes
    <3> QED BY <1>1, <3>1 DEF StepsInv
  <2>4. CASE SubmitMoves
    <3>0. fg'.op = fg.op /\ fg'.obj = fg.obj /\ fg'.arg = fg.arg /\ fg.op \in Operation
      BY <2>4 DEF SubmitMoves, Submits, Goes, TypesInv, TypeOK
    <3>1. ASSUME Submits("setup", [fg.arg EXCEPT !.data = ifc[1].regs.data], TRUE,
                         {"ARB", "CONTROL"}, "loaded")
          PROVE  StageInv'
      <4> DEFINE r == [fg.arg EXCEPT !.data = ifc[1].regs.data]
      <4>1. r.role = fg.arg.role /\ r.ie = fg.arg.ie
        BY DEF TypesInv, TypeOK, Content
      <4>2. Issued(1, fg.obj, r, TRUE, {"ARB", "CONTROL"}) /\ fg'.pc = "loaded"
        BY <3>1 DEF Submits, Goes
      <4> HIDE DEF r
      <4>3. ~fg.arg.newdat /\ ~fg.arg.txrqst /\ ~fg.arg.intpnd
        BY <3>0, <3>1 DEF StageInv, Submits, StepsInv, Operation, Cancels
      <4> QED BY <3>0, <4>1, <4>2, <4>3 DEF StageInv, At, Issued, Setting, Writing
    <3>2. ASSUME NEW r, fg.arg.role = "REMOTE_RESPONSE", Submits("loaded", r, TRUE, {"DATA"}, "stored")
          PROVE  StageInv'
      <4>1. fg.op = "configure" /\ At("loaded") /\ ~ifc[1].busy
        BY <3>0, <3>2 DEF Submits, StepsInv, Operation, Cancels, Issued, At
      <4>2. /\ ~fg.arg.newdat /\ ~fg.arg.txrqst /\ ~fg.arg.intpnd
            /\ LoadedOK(fg.obj)
        BY <4>1 DEF StageInv, LoadedOK
      <4>3. Issued(1, fg.obj, r, TRUE, {"DATA"}) /\ fg'.pc = "stored"
        BY <3>2 DEF Submits, Goes
      <4> QED
        BY <2>0, <3>0, <3>2, <4>2, <4>3 DEF StageInv, LoadedOK, At, Issued, Writing
    <3>3. ASSUME NEW r, Submits("cancel", r, FALSE, {"CONTROL", "TXRQST"}, "control")
          PROVE  StageInv'
      <4>1. fg.op # "configure"
        BY <3>3 DEF Submits, StepsInv
      <4>2. Issued(1, fg.obj, r, FALSE, {"CONTROL", "TXRQST"})
        BY <3>3 DEF Submits
      <4> QED BY <3>0, <4>1, <4>2 DEF StageInv, At, Issued
    <3>4. ASSUME fg.pc \in {"free", "length", "control"}, fg'.pc # "control"
          PROVE  StageInv'
      BY <1>1, <3>0, <3>4 DEF StepsInv
    <3>5. \/ Submits("setup", [fg.arg EXCEPT !.data = ifc[1].regs.data], TRUE,
                     {"ARB", "CONTROL"}, "loaded")
          \/ /\ fg.arg.role = "REMOTE_RESPONSE"
             /\ \E r : Submits("loaded", r, TRUE, {"DATA"}, "stored")
          \/ \E r : Submits("cancel", r, FALSE, {"CONTROL", "TXRQST"}, "control")
          \/ fg.pc \in {"free", "length", "control"} /\ fg'.pc # "control"
      BY <2>4 DEF SubmitMoves, Submits, Goes
    <3> QED BY <3>1, <3>2, <3>3, <3>4, <3>5, Zenon
  <2> QED BY <1>4, <2>1, <2>2, <2>3, <2>4 DEF CallMoves
<1>5. CASE GivesUp
  BY <1>5 DEF GivesUp, Goes, StageInv, At
<1>6. CASE Handles \/ Counts \/ TakesEvent \/ Stutters
  <2>1. UNCHANGED ifc /\ (UNCHANGED fg \/ fg' = IdleCall)
    BY <1>6 DEF Handles, Counts, TakesEvent, Stutters
  <2> QED BY <1>1, <2>1, StageStands, IdleCallFields
<1>7. CASE Executes(2)
  <2>1. ifc'[1] = ifc[1] /\ UNCHANGED fg
    BY <1>7 DEF Executes, PeripheralFrame
  <2> QED BY <2>1, StageStands
<1>8. ASSUME NEW o \in Mailbox, Arrives(o) \/ Sends(o) \/ Enters(o) PROVE StageInv'
  <2>1. ifc'[1] = ifc[1] /\ UNCHANGED fg
    BY <1>8 DEF Arrives, Sends, Enters, PeripheralFrame, IsrFrame
  <2> QED BY <2>1, StageStands
<1>9. CASE IsrMoves
  <2>1. ifc'[1] = ifc[1] /\ UNCHANGED fg
    BY <1>9 DEF IsrMoves, IsrIssues, IsrEnds, IsrFrame, Issued
  <2> QED BY <2>1, StageStands
<1> QED BY <1>4, <1>5, <1>6, <1>7, <1>8, <1>9 DEF EventMoves

-----------------------------------------------------------------------------
(* The invariant of the calls, and what a step does to one message object *)

\* The invariant of the calls.
CallInv == LifeInv /\ StepsInv /\ CommandsInv /\ WritingInv /\ ObjectInv /\ StageInv

\* It is inductive.
LEMMA CallInvStep ==
  ASSUME TypesInv, TypesInv', CallInv, EventMoves
  PROVE  CallInv'
<1> USE DEF CallInv
<1>1. LifeInv' /\ StepsInv' /\ CommandsInv'
  BY LifeStep, StepsStep, CommandsStep
<1>2. WritingInv' /\ ObjectInv' /\ StageInv'
  BY WritingStep, ObjectStep, StageStep
<1> QED BY <1>1, <1>2

LEMMA CallHolds == EventsSpec => []CallInv
<1>1. EventsInit => CallInv
  <2> SUFFICES ASSUME EventsInit PROVE CallInv
    OBVIOUS
  <2>1. /\ ~can.initialized /\ ~can.enabled /\ ~running /\ rxEventQueue = <<>> /\ origin = <<>>
        /\ fg = IdleCall /\ ifc = [i \in 1..2 |-> [busy |-> FALSE, regs |-> Blank, cmd |-> NoCommand]]
        /\ purpose = [o \in Mailbox |-> "NONE"]
    BY DEF EventsInit, Init, CleanHandle
  <2>2. fg.op = "none" /\ fg.pc = "idle" /\ ~ifc[1].busy /\ ~ifc[2].busy
    BY <2>1, IdleCallFields
  <2>3. LifeInv /\ StepsInv /\ CommandsInv
    BY <2>1, <2>2 DEF LifeInv, StepsInv, CommandsInv, Frames, Cancels
  <2>4. WritingInv /\ ObjectInv /\ StageInv
    BY <2>1, <2>2 DEF WritingInv, ObjectInv, RoleInv, StageInv, At
  <2> QED BY <2>3, <2>4 DEF CallInv
<1>2. TypesInv /\ TypesInv' /\ CallInv /\ [EventsNext]_all => CallInv'
  BY EventsMove, CallInvStep
<1> QED BY <1>1, <1>2, TypesHold, PTL DEF EventsSpec

\* Nothing happens to the object but that a sender is given data or a request.
Sits(o) ==
  /\ ram'[o].role = ram[o].role /\ ram'[o].ie = ram[o].ie /\ ram'[o].newdat = ram[o].newdat
  /\ ram'[o].intpnd = ram[o].intpnd /\ ram'[o].msglst = ram[o].msglst
  /\ ram[o].role = "RX_DATA" => ram'[o].data = ram[o].data

\* The three ways an interface changes it: configured anew, given back its control word by
\* a cancel, or read.
SetUp(o) ==
  /\ Executes(1) /\ Setting /\ ifc[1].cmd.obj = o /\ purpose[o] = "NONE"
  /\ ram'[o].role = ifc[1].regs.role /\ ram'[o].ie = ifc[1].regs.ie
  /\ ~ram'[o].newdat /\ ~ram'[o].intpnd
Restored(o) ==
  /\ Executes(1) /\ Restoring /\ ifc[1].cmd.obj = o /\ o \in disturbed
  /\ ram'[o].role = ram[o].role /\ ram'[o].data = ram[o].data
  /\ ram'[o].newdat => Own(o)
ReadOut(i, o) ==
  /\ Executes(i) /\ ~ifc[i].cmd.write /\ ifc[i].cmd.obj = o
  /\ ram'[o].role = ram[o].role /\ ram'[o].ie = ram[o].ie /\ ram'[o].data = ram[o].data
  /\ ram'[o].msglst = ram[o].msglst
  /\ ram'[o].newdat = (ram[o].newdat /\ "TXRQST" \notin ifc[i].cmd.fields)
  /\ ram'[o].intpnd = (ram[o].intpnd /\ "CLRINTPND" \notin ifc[i].cmd.fields)
  /\ ifc'[i].regs.newdat = IF "CONTROL" \in ifc[i].cmd.fields THEN ram[o].newdat
                           ELSE ifc[i].regs.newdat
  /\ ifc'[i].regs.data = IF "DATA" \in ifc[i].cmd.fields THEN ram[o].data
                         ELSE ifc[i].regs.data

\* A read leaves the object alone, or reads it.
LEMMA ReadsOut ==
  ASSUME TypesInv, NEW i \in 1..2, Executes(i), ~ifc[i].cmd.write, NEW o \in Mailbox
  PROVE  Sits(o) \/ ReadOut(i, o)
<1>1. CASE o # ifc[i].cmd.obj
  <2>1. ram'[o] = ram[o]
    BY <1>1 DEF Executes
  <2> QED BY <2>1 DEF Sits
<1>2. CASE o = ifc[i].cmd.obj
  BY <1>2, ReadExecuted DEF ReadOut
<1> QED BY <1>1, <1>2

\* A write gives a sender data or a request, sets the object up, or restores its control word.
LEMMA WritesIn ==
  ASSUME TypesInv, CallInv, can.initialized, Executes(1), ifc[1].cmd.write, NEW o \in Mailbox
  PROVE  Sits(o) \/ SetUp(o) \/ Restored(o)
<1>0. 1 \in 1..2 /\ Writing
  BY DEF Executes, Writing
<1>1. CASE o # ifc[1].cmd.obj
  <2>1. ram'[o] = ram[o]
    BY <1>1 DEF Executes
  <2> QED BY <2>1 DEF Sits
<1>2. CASE o = ifc[1].cmd.obj
  <2> DEFINE fields == ifc[1].cmd.fields
             r == ifc[1].regs
  <2>1. /\ ram'[o].role = IF "ARB" \in fields THEN r.role ELSE ram[o].role
        /\ ram'[o].data = IF "DATA" \in fields THEN r.data ELSE ram[o].data
        /\ IF "CONTROL" \in fields
           THEN ram'[o].newdat = r.newdat /\ ram'[o].ie = r.ie /\ ram'[o].intpnd = r.intpnd
           ELSE /\ ram'[o].newdat = ram[o].newdat /\ ram'[o].msglst = ram[o].msglst
                /\ ram'[o].ie = ram[o].ie /\ ram'[o].intpnd = ram[o].intpnd
    BY <1>0, <1>2, WriteExecuted
  <2>2. \/ Setting /\ ~r.newdat /\ ~r.intpnd /\ purpose[o] = "NONE"
        \/ fields = {"DATA"} /\ ram[o].role # "RX_DATA"
        \/ Raising /\ ram[o].role # "RX_DATA"
        \/ Restoring /\ o \in disturbed /\ (r.newdat => Own(o))
    BY <1>0, <1>2 DEF CallInv, WritingInv, Senders
  <2> HIDE DEF fields, r
  <2>3. CASE Setting /\ ~r.newdat /\ ~r.intpnd /\ purpose[o] = "NONE"
    <3>1. "ARB" \in fields /\ "CONTROL" \in fields
      BY <2>3 DEF Setting, fields
    <3> QED BY <1>2, <2>1, <2>3, <3>1 DEF SetUp, r
  <2>4. CASE (fields = {"DATA"} \/ Raising) /\ ram[o].role # "RX_DATA"
    <3>1. "ARB" \notin fields /\ "CONTROL" \notin fields
      BY <2>4 DEF Raising, fields
    <3> QED BY <2>1, <2>4, <3>1 DEF Sits
  <2>5. CASE Restoring /\ o \in disturbed /\ (r.newdat => Own(o))
    <3>1. "ARB" \notin fields /\ "DATA" \notin fields /\ "CONTROL" \in fields
      BY <2>5 DEF Restoring, fields
    <3> QED BY <1>2, <2>1, <2>5, <3>1 DEF Restored
  <2> QED BY <2>2, <2>3, <2>4, <2>5
<1> QED BY <1>1, <1>2

\* All that can happen to a message object of an initialised controller.
LEMMA ObjectMoves ==
  ASSUME TypesInv, CallInv, can.initialized, EventMoves, ~Resets, NEW o \in Mailbox
  PROVE  \/ Sits(o) \/ SetUp(o) \/ Restored(o) \/ ReadOut(1, o) \/ ReadOut(2, o)
         \/ Arrives(o) \/ Sends(o)
<1>1. CASE UNCHANGED ram
  BY <1>1 DEF Sits
<1>2. CASE Executes(1)
  <2>1. 1 \in 1..2
    OBVIOUS
  <2> QED BY <1>2, <2>1, ReadsOut, WritesIn, Zenon
<1>3. CASE Executes(2)
  <2>1. 2 \in 1..2
    OBVIOUS
  <2>2. ~ifc[2].cmd.write
    BY <1>3 DEF CallInv, CommandsInv, Executes
  <2> QED BY <1>3, <2>1, <2>2, ReadsOut, Zenon
<1>4. ASSUME NEW m \in Mailbox, Arrives(m) \/ Sends(m)
      PROVE  Sits(o) \/ Arrives(o) \/ Sends(o)
  <2>1. m # o => ram'[o] = ram[o]
    BY <1>4 DEF Arrives, Sends
  <2> QED BY <1>4, <2>1 DEF Sits
<1> QED BY <1>1, <1>2, <1>3, <1>4, RamKept

-----------------------------------------------------------------------------
(* Interface 2 and the two transactions that use it *)

\* receive() begins to read its object, and has found a frame in it.
ReceiveReads ==
  /\ fg'.op = "receive" /\ fg'.pc = "fetched"
  /\ Issued(2, fg'.obj, ifc[2].regs, FALSE, SnapshotFields)
\* The frame is copied and the object acknowledged.
ReceiveTakes ==
  /\ fg.op = "receive" /\ fg.pc = "fetched" /\ ifc[2].regs.newdat
  /\ fg'.op = "receive" /\ fg'.pc = "taken" /\ fg'.obj = fg.obj /\ fg'.arg = ifc[2].regs
  /\ Issued(2, fg.obj, ifc[2].regs, FALSE, AcknowledgeFields)

\* No other call uses interface 2.
LEMMA CallReads ==
  ASSUME TypesInv, CallInv, CallMoves
  PROVE  \/ ifc'[2] = ifc[2] /\ (fg'.op = "receive" => fg'.pc = "poll")
         \/ ReceiveReads \/ ReceiveTakes
<1>0. fg.pc \in Step /\ fg.op \in Operation /\ 2 \in 1..2
  BY DEF TypesInv, TypeOK
<1> USE DEF CallInv, StepsInv, Operation, Cancels
<1>1. CASE OpenMoves
  BY <1>1 DEF OpenMoves, Stays, Opens, OpensConfigure, OpensCancel
<1>2. CASE SubmitMoves
  <2>1. /\ ifc'[2] = ifc[2] /\ fg'.op = fg.op
        /\ fg.pc \in {"setup", "loaded", "free", "length", "cancel", "control"}
    BY <1>2 DEF SubmitMoves, Submits, Issued, Goes
  <2> QED BY <1>0, <2>1
<1>3. CASE OtherMoves
  <2>1. CASE fg.pc \in {"commit", "next"} /\ UNCHANGED ifc /\ fg'.op = fg.op
    BY <1>0, <2>1
  <2>2. CASE /\ fg.pc = "poll" /\ Goes("fetched")
             /\ Issued(2, fg.obj, ifc[2].regs, FALSE, SnapshotFields)
    <3>1. fg.op = "receive"
      BY <1>0, <2>2
    <3> QED BY <2>2, <3>1 DEF Goes, ReceiveReads
  <2>3. CASE /\ fg.pc = "fetched" /\ ifc[2].regs.newdat
             /\ Issued(2, fg.obj, ifc[2].regs, FALSE, AcknowledgeFields)
             /\ fg'.pc = "taken" /\ fg'.op = fg.op /\ fg'.obj = fg.obj /\ fg'.arg = ifc[2].regs
    <3>1. fg.op = "receive"
      BY <1>0, <2>3
    <3> QED BY <2>3, <3>1 DEF ReceiveTakes
  <2> QED BY <1>3, <2>1, <2>2, <2>3, Zenon DEF OtherMoves, Goes
<1>4. CASE ReturnMoves
  BY <1>4, IdleCallFields DEF ReturnMoves, Returns
<1> QED BY <1>1, <1>2, <1>3, <1>4 DEF CallMoves

\* The command of interface 2, while it is the reader's own, and the line the ISR serves.
Serves(o, fields) == ifc[2].cmd.obj = o /\ ifc[2].cmd.fields = fields
\* The ISR and receive() wait for their own command, and the ISR serves the right line.
IsrInv ==
  /\ ifc[2].busy =>
       /\ isr.pc = "fetched" => Serves(isr.obj, SnapshotFields)
       /\ isr.pc = "taken" => Serves(isr.obj, AcknowledgeFields)
       /\ isr.pc = "cleared" => Serves(isr.obj, {"CLRINTPND"})
       /\ fg.op = "receive" /\ At("fetched") => Serves(fg.obj, SnapshotFields)
       /\ fg.op = "receive" /\ At("taken") => Serves(fg.obj, AcknowledgeFields)
  /\ isr.pc \in {"snapshot", "fetched", "taken"} => isr.obj \notin can.line1
  /\ isr.pc \in {"clear", "cleared"} => isr.obj \in can.line1

\* The ISR and receive() exclude each other, and the ISR any call that needs it disabled.
LEMMA ReadersExclude ==
  ASSUME TypesInv, CallInv, isr.pc # "idle"
  PROVE  can.enabled /\ can.initialized /\ fg.op # "receive" /\ fg.op # "configure"
  BY DEF TypesInv, IsrOK, CallInv, StepsInv, LifeInv

\* It is inductive.
LEMMA IsrInvStep ==
  ASSUME TypesInv, CallInv, IsrInv, EventMoves
  PROVE  IsrInv'
<1> USE DEF IsrInv, Serves
<1>1. ASSUME UNCHANGED isr, can'.line1 = can.line1, ifc'[2] = ifc[2] \/ ~ifc'[2].busy,
             UNCHANGED fg \/ fg'.op = "none" \/ fg'.pc = "expired"
      PROVE  IsrInv'
  BY <1>1, IdleCallFields DEF At, CallInv, StepsInv
<1>2. CASE Resets
  BY <1>2 DEF Resets, CallInv, StepsInv, At
<1>3. CASE Handles \/ GivesUp \/ Counts \/ TakesEvent \/ Stutters
  <2>1. /\ UNCHANGED <<isr, ifc>> /\ can'.line1 = can.line1
        /\ UNCHANGED fg \/ fg' = IdleCall \/ fg'.pc = "expired"
    BY <1>3 DEF Handles, GivesUp, Counts, TakesEvent, Stutters, Goes
  <2> QED BY <1>1, <2>1, IdleCallFields
<1>4. CASE CallMoves /\ CallFrame
  <2>1. isr.pc = "idle" /\ isr'.pc = "idle"
    BY <1>4 DEF CallFrame
  <2>2. CASE ifc'[2] = ifc[2] /\ (fg'.op = "receive" => fg'.pc = "poll")
    BY <2>1, <2>2 DEF At
  <2>3. CASE ReceiveReads
    BY <2>1, <2>3 DEF ReceiveReads, Issued, At
  <2>4. CASE ReceiveTakes
    BY <2>1, <2>4 DEF ReceiveTakes, Issued, At
  <2> QED BY <1>4, <2>2, <2>3, <2>4, CallReads
<1>5. ASSUME NEW i \in 1..2, Executes(i) PROVE IsrInv'
  BY <1>1, <1>5 DEF Executes, PeripheralFrame
<1>6. ASSUME NEW o \in Mailbox, Arrives(o) \/ Sends(o) PROVE IsrInv'
  BY <1>1, <1>6 DEF Arrives, Sends, PeripheralFrame
<1>7. ASSUME NEW o \in Mailbox, Enters(o) PROVE IsrInv'
  <2>1. fg.op # "receive" /\ UNCHANGED <<can, fg>>
    BY <1>7 DEF Enters, IsrFrame, CallInv, StepsInv
  <2> QED BY <1>7, <2>1 DEF Enters
<1>8. CASE IsrMoves
  <2>1. CASE IsrEnds
    <3>1. fg.op # "receive" /\ UNCHANGED <<can, fg>> /\ isr'.pc = "idle"
      BY <2>1 DEF IsrEnds, IsrFrame, CallInv, StepsInv
    <3> QED BY <3>1
  <2>2. ASSUME NEW from, NEW fields, NEW to, IsrIssues(from, fields, to)
        PROVE  /\ fg.op # "receive" /\ UNCHANGED <<can, fg>> /\ isr.pc = from /\ isr'.pc = to
               /\ isr'.obj = isr.obj /\ Serves(isr.obj, fields)'
    BY <2>2 DEF IsrIssues, IsrFrame, CallInv, StepsInv, Issued
  <2>3. CASE \/ IsrIssues("snapshot", SnapshotFields, "fetched")
             \/ IsrIssues("clear", {"CLRINTPND"}, "cleared")
             \/ IsrIssues("fetched", AcknowledgeFields, "taken")
    BY <2>2, <2>3
  <2> QED BY <1>8, <2>1, <2>3 DEF IsrMoves
<1> QED BY <1>2, <1>3, <1>4, <1>5, <1>6, <1>7, <1>8 DEF EventMoves

LEMMA IsrHolds == EventsSpec => []IsrInv
<1>1. EventsInit => IsrInv
  BY IdleCallFields DEF EventsInit, Init, IsrInv, IdleIsr, At
<1>2. TypesInv /\ CallInv /\ IsrInv /\ [EventsNext]_all => IsrInv'
  BY EventsMove, IsrInvStep
<1> QED BY <1>1, <1>2, TypesHold, CallHolds, PTL DEF EventsSpec

-----------------------------------------------------------------------------
(* Where a received frame is, from the message object to the caller *)

\* Object o is being read and the reader is at this step; the frame it took.
Reader(o, step) ==
  \/ isr.obj = o /\ isr.pc = step
  \/ fg.op = "receive" /\ fg.obj = o /\ At(step)
\* The frame the reader has copied.
Held == IF isr.pc = "taken" THEN isr.arg ELSE fg.arg

\* The frames that are settled with the caller or wait in its queue.
Done == settled \union Queued
\* A frame of the object that nobody was given yet.
NewFrame(k, o) == Holds(k, o) /\ (o \notin disturbed => k \notin Done)

\* A frame that an object offers, that the snapshot on interface 2 holds or that a reader
\* took is not done, and the object no longer offers the one that was taken.
HandInv ==
  /\ settled \subseteq Frames
  /\ can.initialized => \A o \in Mailbox : ram[o].newdat => NewFrame(ram[o].data, o)
  /\ \A o \in Mailbox :
       Reader(o, "fetched") /\ Ready(2) /\ ifc[2].regs.newdat => NewFrame(ifc[2].regs.data, o)
  /\ \A o \in Mailbox : Reader(o, "taken") =>
       /\ NewFrame(Held.data, o)
       /\ o \notin disturbed /\ Ready(2) /\ ram[o].newdat => ram[o].data # Held.data

\* Queued frames were received by the object of their event, and wait there once.
QueueInv ==
  \A n \in DOMAIN rxEventQueue :
    LET event == rxEventQueue[n]
    IN /\ Holds(event.data, event.mailboxObjIndex)
       /\ event.mailboxObjIndex \notin disturbed =>
            /\ event.data \notin settled
            /\ \A m \in DOMAIN rxEventQueue : rxEventQueue[m].data = event.data => m = n

\* A snapshot that is complete was so before, or its command has just been executed.
LEMMA Fetching ==
  ASSUME TypesInv, CallInv, EventMoves, NEW o \in Mailbox, Reader(o, "fetched")', ~ifc'[2].busy
  PROVE  Reader(o, "fetched") /\ (ifc'[2] = ifc[2] \/ Executes(2))
<1> USE DEF Reader, At
<1>0. isr.pc # "idle" => fg.op # "receive"
  BY ReadersExclude
<1>1. CASE Resets \/ Handles \/ Counts \/ TakesEvent \/ Stutters \/ GivesUp
  <2>1. CASE Resets
    BY <2>1 DEF Resets, CallInv, StepsInv
  <2>2. \/ UNCHANGED <<isr, ifc>> /\ (UNCHANGED fg \/ fg' = IdleCall \/ fg'.pc = "expired")
        \/ Resets
    BY <1>1 DEF Handles, GivesUp, Counts, TakesEvent, Stutters, Goes
  <2> QED BY <2>1, <2>2, IdleCallFields
<1>2. CASE CallMoves /\ CallFrame
  BY <1>2, CallReads DEF CallFrame, ReceiveReads, ReceiveTakes, Issued
<1>3. ASSUME NEW i \in 1..2, Executes(i) PROVE Reader(o, "fetched") /\ (ifc'[2] = ifc[2] \/ Executes(2))
  BY <1>3 DEF Executes, PeripheralFrame
<1>4. ASSUME NEW m \in Mailbox, Arrives(m) \/ Sends(m) \/ Enters(m)
      PROVE  Reader(o, "fetched") /\ ifc'[2] = ifc[2]
  BY <1>4 DEF Arrives, Sends, Enters, PeripheralFrame, IsrFrame
<1>5. CASE IsrMoves
  BY <1>0, <1>5 DEF IsrMoves, IsrEnds, IsrIssues, IsrFrame, Issued
<1> QED BY <1>1, <1>2, <1>3, <1>4, <1>5 DEF EventMoves

\* A frame in hand was, or has just been copied from the registers.
LEMMA Taking ==
  ASSUME TypesInv, CallInv, EventMoves, NEW o \in Mailbox, Reader(o, "taken")'
  PROVE  \/ Reader(o, "taken") /\ Held' = Held /\ (ifc'[2] = ifc[2] \/ Executes(2))
         \/ /\ Reader(o, "fetched") /\ ~ifc[2].busy /\ ifc[2].regs.newdat
            /\ Held' = ifc[2].regs /\ ifc'[2].busy
<1> USE DEF Reader, At, Held
<1>0. isr.pc # "idle" => fg.op # "receive"
  BY ReadersExclude
<1>1. CASE Resets \/ Handles \/ Counts \/ TakesEvent \/ Stutters \/ GivesUp
  <2>1. CASE Resets
    BY <2>1 DEF Resets, CallInv, StepsInv
  <2>2. \/ UNCHANGED <<isr, ifc>> /\ (UNCHANGED fg \/ fg' = IdleCall \/ fg'.pc = "expired")
        \/ Resets
    BY <1>1 DEF Handles, GivesUp, Counts, TakesEvent, Stutters, Goes
  <2> QED BY <2>1, <2>2, IdleCallFields
<1>2. CASE CallMoves /\ CallFrame
  BY <1>2, CallReads DEF CallFrame, ReceiveReads, ReceiveTakes, Issued
<1>3. ASSUME NEW i \in 1..2, Executes(i)
      PROVE  Reader(o, "taken") /\ Held' = Held /\ (ifc'[2] = ifc[2] \/ Executes(2))
  BY <1>3 DEF Executes, PeripheralFrame
<1>4. ASSUME NEW m \in Mailbox, Arrives(m) \/ Sends(m)
      PROVE  Reader(o, "taken") /\ Held' = Held /\ ifc'[2] = ifc[2]
  BY <1>4 DEF Arrives, Sends, PeripheralFrame
<1>5. ASSUME NEW m \in Mailbox, Enters(m) PROVE FALSE
  BY <1>5 DEF Enters, IsrFrame, CallInv, StepsInv
<1>6. CASE IsrMoves
  BY <1>0, <1>6 DEF IsrMoves, IsrEnds, IsrIssues, IsrFrame, Issued
<1> QED BY <1>1, <1>2, <1>3, <1>4, <1>5, <1>6 DEF EventMoves

\* The reader of object o is through with the frame it took.
Finishes(o) ==
  /\ Reader(o, "taken") /\ Ready(2) /\ UNCHANGED <<ifc, ram, origin>>
  /\ \A m \in Mailbox : ~Reader(m, "fetched")' /\ ~Reader(m, "taken")'
  /\ \/ UNCHANGED rxEventQueue /\ settled' = settled \union {Held.data}
     \/ /\ UNCHANGED settled
        /\ rxEventQueue' = Append(rxEventQueue, [mailboxObjIndex |-> o, data |-> Held.data])

\* What happens to the queue and to what is settled.
LEMMA Settling ==
  ASSUME TypesInv, CallInv, EventMoves, ~Resets
  PROVE  \/ UNCHANGED <<rxEventQueue, settled>>
         \/ rxEventQueue' = <<>> /\ settled' = settled \union Queued
         \/ TakesEvent
         \/ /\ UNCHANGED <<rxEventQueue, origin>> /\ Executes(1) /\ Writing
            /\ "ARB" \in ifc[1].cmd.fields /\ settled' = settled \union Left(ifc[1].cmd.obj)
         \/ \E o \in Mailbox : Finishes(o)
<1>0. isr.obj \in Mailbox /\ fg.obj \in Mailbox /\ fg.pc \in Step /\ fg.op \in Operation
  BY DEF TypesInv, TypeOK, IsrOK
<1>1. CASE Handles \/ GivesUp \/ Counts \/ TakesEvent \/ Stutters
  BY <1>1 DEF Handles, GivesUp, Counts, Stutters
<1>2. CASE CallMoves /\ CallFrame
  <2>1. CASE UNCHANGED settled
    BY <1>2, <2>1 DEF CallFrame
  <2>2. CASE Returns({"taken"}) /\ ~ifc[2].busy /\ settled' = settled \union {fg.arg.data}
    <3>1. fg.op = "receive" /\ fg.pc = "taken" /\ fg' = IdleCall /\ UNCHANGED ifc
      BY <1>0, <2>2 DEF Returns, CallInv, StepsInv, Operation, Cancels
    <3>2. isr.pc = "idle" /\ UNCHANGED <<isr, rxEventQueue, ram, origin>>
      BY <1>2 DEF CallFrame
    <3>3. Finishes(fg.obj)
      BY <2>2, <3>1, <3>2, IdleCallFields DEF Finishes, Reader, At, Held, Ready
    <3> QED BY <1>0, <3>3
  <2> QED BY <1>2, <2>1, <2>2 DEF CallMoves, OpenMoves, SubmitMoves, OtherMoves, ReturnMoves
<1>3. CASE Executes(1)
  BY <1>3 DEF Executes, PeripheralFrame, Writing
<1>4. CASE Executes(2)
  BY <1>4 DEF Executes, PeripheralFrame, CallInv, CommandsInv
<1>5. ASSUME NEW o \in Mailbox, Arrives(o) \/ Sends(o) \/ Enters(o)
      PROVE  UNCHANGED <<rxEventQueue, settled>>
  BY <1>5 DEF Arrives, Sends, Enters, PeripheralFrame
<1>6. CASE IsrMoves
  <2>1. CASE UNCHANGED <<rxEventQueue, settled>>
    BY <2>1
  <2>2. CASE IsrEnds /\ ~UNCHANGED <<rxEventQueue, settled>>
    <3>1. /\ isr.pc = "taken" /\ ~ifc[2].busy /\ isr'.pc = "idle" /\ UNCHANGED <<ifc, ram, fg, origin>>
          /\ \/ UNCHANGED rxEventQueue /\ settled' = settled \union {isr.arg.data}
             \/ /\ UNCHANGED settled
                /\ rxEventQueue' = Append(rxEventQueue, [mailboxObjIndex |-> isr.obj,
                                                         data |-> isr.arg.data])
      BY <2>2 DEF IsrEnds, IsrFrame
    <3>2. fg.op # "receive"
      BY <3>1, ReadersExclude
    <3>3. Finishes(isr.obj)
      BY <3>1, <3>2 DEF Finishes, Reader, At, Held, Ready
    <3> QED BY <1>0, <3>3
  <2> QED BY <1>6, <2>1, <2>2 DEF IsrMoves, IsrIssues
<1> QED BY <1>1, <1>2, <1>3, <1>4, <1>5, <1>6 DEF EventMoves

\* Only a setup and the end of a reading settle or queue a frame.
LEMMA DoneGrows ==
  ASSUME TypesInv, CallInv, EventMoves, ~Resets, NEW k \in Done', k \notin Done
  PROVE  \/ Executes(1) /\ Writing /\ "ARB" \in ifc[1].cmd.fields /\ k \in Left(ifc[1].cmd.obj)
         \/ \E o \in Mailbox : Finishes(o) /\ k = Held.data
<1>0. rxEventQueue \in Seq([mailboxObjIndex : Mailbox, data : Data])
  BY DEF TypesInv, QueuesOK
<1>1. CASE UNCHANGED <<rxEventQueue, settled>>
  BY <1>1 DEF Done, Queued
<1>2. CASE rxEventQueue' = <<>> /\ settled' = settled \union Queued
  BY <1>2 DEF Done, Queued
<1>3. CASE TakesEvent
  <2>1. /\ rxEventQueue # <<>> /\ rxEventQueue' = Tail(rxEventQueue)
        /\ settled' = settled \union {Head(rxEventQueue).data}
    BY <1>3 DEF TakesEvent
  <2>2. /\ Head(rxEventQueue) = rxEventQueue[1] /\ 1 \in DOMAIN rxEventQueue
        /\ \A n \in DOMAIN Tail(rxEventQueue) :
             n + 1 \in DOMAIN rxEventQueue /\ Tail(rxEventQueue)[n] = rxEventQueue[n + 1]
    BY <1>0, <2>1, HeadAndTail
  <2>3. Queued' \subseteq Queued /\ Head(rxEventQueue).data \in Queued
    BY <2>1, <2>2 DEF Queued
  <2> QED BY <2>1, <2>3 DEF Done
<1>4. CASE /\ UNCHANGED rxEventQueue /\ Executes(1) /\ Writing
           /\ "ARB" \in ifc[1].cmd.fields /\ settled' = settled \union Left(ifc[1].cmd.obj)
  BY <1>4 DEF Done, Queued
<1>5. ASSUME NEW o \in Mailbox, Finishes(o) PROVE k = Held.data
  <2>1. CASE UNCHANGED rxEventQueue /\ settled' = settled \union {Held.data}
    BY <2>1 DEF Done, Queued
  <2>2. CASE /\ UNCHANGED settled
             /\ rxEventQueue' = Append(rxEventQueue, [mailboxObjIndex |-> o, data |-> Held.data])
    <3> DEFINE event == [mailboxObjIndex |-> o, data |-> Held.data]
    <3>1. event.data = Held.data
      OBVIOUS
    <3> HIDE DEF event
    <3>2. \A n \in DOMAIN rxEventQueue' :
            \/ n \in DOMAIN rxEventQueue /\ rxEventQueue'[n] = rxEventQueue[n]
            \/ rxEventQueue'[n] = event
      BY <1>0, <2>2 DEF event
    <3> QED BY <2>2, <3>1, <3>2 DEF Done, Queued
  <2> QED BY <1>5, <2>1, <2>2 DEF Finishes
<1> QED BY <1>1, <1>2, <1>3, <1>4, <1>5, Settling

\* A frame stays new unless its object is set up while nobody holds it, or its reader is
\* through with it.
LEMMA StaysNew ==
  ASSUME TypesInv, CallInv, HandInv, EventMoves, ~Resets, NEW o \in Mailbox, NEW k, NewFrame(k, o),
         Executes(1) /\ Writing /\ "ARB" \in ifc[1].cmd.fields /\ ifc[1].cmd.obj = o => k \in InHand,
         Finishes(o) /\ o \notin disturbed => k # Held.data
  PROVE  NewFrame(k, o)'
<1>1. /\ Frames \subseteq Frames' /\ \A j \in Frames : origin'[j] = origin[j]
      /\ disturbed \subseteq disturbed'
  BY Remembers
<1>2. Holds(k, o)'
  BY <1>1 DEF NewFrame, Holds
<1>3. ASSUME o \notin disturbed', k \in Done' PROVE FALSE
  <2>1. o \notin disturbed /\ k \notin Done /\ k \in Frames /\ origin[k] = o
    BY <1>1, <1>3 DEF NewFrame, Holds
  <2>2. CASE Executes(1) /\ Writing /\ "ARB" \in ifc[1].cmd.fields /\ k \in Left(ifc[1].cmd.obj)
    BY <2>1, <2>2 DEF Left
  <2>3. ASSUME NEW m \in Mailbox, Finishes(m), k = Held.data PROVE FALSE
    <3>1. origin[k] = m
      BY <2>3 DEF HandInv, Finishes, NewFrame, Holds
    <3> QED BY <2>1, <2>3, <3>1
  <2> QED BY <1>3, <2>1, <2>2, <2>3, DoneGrows
<1> QED BY <1>2, <1>3 DEF NewFrame

\* A setup leaves nothing to read.
LEMMA SetupClears ==
  ASSUME TypesInv, CallInv, can.initialized, Executes(1), Writing, "ARB" \in ifc[1].cmd.fields
  PROVE  ~ram'[ifc[1].cmd.obj].newdat
<1>1. Setting /\ ~ifc[1].regs.newdat /\ 1 \in 1..2
  BY DEF CallInv, WritingInv, Raising, Restoring
<1>2. ifc[1].cmd.write /\ "CONTROL" \in ifc[1].cmd.fields
  BY <1>1 DEF Setting, Writing
<1> QED BY <1>1, <1>2, WriteExecuted

\* What a reader holds is in the hands of the software.
LEMMA HeldInHand ==
  ASSUME TypesInv, CallInv, NEW o \in Mailbox
  PROVE  /\ Reader(o, "taken") => Held.data \in InHand /\ can.initialized
         /\ Reader(o, "fetched") /\ ~ifc[2].busy /\ ifc[2].regs.newdat => ifc[2].regs.data \in InHand
         /\ Reader(o, "fetched") => can.initialized
<1>1. isr.pc # "idle" => fg.op # "receive" /\ can.initialized
  BY ReadersExclude
<1>2. fg.op = "receive" => can.initialized
  BY DEF CallInv, LifeInv
<1> QED BY <1>1, <1>2 DEF Reader, Held, InHand, Reading, Ready

\* What an object offers after a step it offered before, received, or was given back.
LEMMA Offering ==
  ASSUME TypesInv, CallInv, can.initialized, EventMoves, ~Resets, NEW o \in Mailbox,
         ram'[o].newdat
  PROVE  \/ ram[o].newdat /\ ram'[o].data = ram[o].data /\ Own(o)
         \/ Executes(1) /\ o \in disturbed /\ Own(o) /\ ram'[o].data = ram[o].data
         \/ Arrives(o)
<1>1. ram[o].newdat => Own(o)
  BY DEF CallInv, ObjectInv
<1>2. CASE Sits(o) \/ ReadOut(1, o) \/ ReadOut(2, o) \/ Sends(o)
  <2>1. ram[o].newdat /\ (Own(o) => ram'[o].data = ram[o].data)
    BY <1>2 DEF Sits, ReadOut, Sends, Own
  <2> QED BY <1>1, <2>1
<1>3. CASE SetUp(o)
  BY <1>3 DEF SetUp
<1>4. CASE Restored(o)
  BY <1>4 DEF Restored
<1> QED BY <1>2, <1>3, <1>4, ObjectMoves

\* What an object offers after a step is new.
LEMMA OffersStep ==
  ASSUME TypesInv, CallInv, IsrInv, HandInv, QueueInv, EventMoves, ~Resets, can.initialized,
         NEW o \in Mailbox, ram'[o].newdat
  PROVE  NewFrame(ram[o].data, o)'
<1> DEFINE k == ram'[o].data
<1>1. /\ Frames \subseteq Frames' /\ \A j \in Frames : origin'[j] = origin[j]
      /\ disturbed \subseteq disturbed'
  BY Remembers
<1>2. CASE ram[o].newdat /\ ram'[o].data = ram[o].data /\ Own(o)
  <2>1. NewFrame(ram[o].data, o)
    BY <1>2 DEF HandInv
  <2>2. Executes(1) /\ Writing /\ "ARB" \in ifc[1].cmd.fields => ifc[1].cmd.obj # o
    BY SetupClears
  <2>3. Finishes(o) /\ o \notin disturbed => ram[o].data # Held.data
    BY <1>2 DEF Finishes, HandInv
  <2>4. PICK j : j = ram[o].data
    OBVIOUS
  <2>5. NewFrame(j, o)'
    BY <2>1, <2>2, <2>3, <2>4, StaysNew
  <2> QED BY <1>2, <2>4, <2>5 DEF NewFrame, Holds
<1>3. CASE Executes(1) /\ o \in disturbed /\ Own(o) /\ ram'[o].data = ram[o].data
  BY <1>1, <1>3 DEF NewFrame, Holds, Own
<1>4. CASE Arrives(o)
  <2>1. /\ arrivals + 1 \notin Frames /\ Frames' = Frames \union {arrivals + 1}
        /\ origin'[arrivals + 1] = o /\ k = arrivals + 1
        /\ UNCHANGED <<rxEventQueue, settled, disturbed>>
    BY <1>4 DEF Arrives, PeripheralFrame
  <2>2. o \notin disturbed => k \notin settled
    BY <2>1 DEF HandInv
  <2>3. k \notin Queued
    BY <2>1 DEF QueueInv, Holds, Queued
  <2>4. Done' = Done
    BY <2>1 DEF Done, Queued
  <2> QED BY <2>1, <2>2, <2>3, <2>4 DEF NewFrame, Holds, Done
<1> QED BY <1>2, <1>3, <1>4, Offering

\* What a snapshot shows after a step is new.
LEMMA SnapshotStep ==
  ASSUME TypesInv, CallInv, IsrInv, HandInv, QueueInv, EventMoves, ~Resets,
         NEW o \in Mailbox, Reader(o, "fetched")', ~ifc'[2].busy, ifc'[2].regs.newdat
  PROVE  NewFrame(ifc[2].regs.data, o)'
<1>1. Reader(o, "fetched") /\ (ifc'[2] = ifc[2] \/ Executes(2))
  BY Fetching
<1>2. can.initialized
  BY <1>1, HeldInHand
<1>3. \A m \in Mailbox : ~Finishes(m)
  BY DEF Finishes
<1>4. CASE ifc'[2] = ifc[2]
  <2>1. NewFrame(ifc[2].regs.data, o) /\ ifc[2].regs.data \in InHand
    BY <1>1, <1>4, HeldInHand DEF HandInv, Ready
  <2>2. PICK j : j = ifc[2].regs.data
    OBVIOUS
  <2>3. NewFrame(j, o)'
    BY <1>3, <2>1, <2>2, StaysNew
  <2> QED BY <1>4, <2>2, <2>3 DEF NewFrame, Holds
<1>5. CASE Executes(2)
  <2>1. ifc[2].busy /\ ~ifc[2].cmd.write /\ 2 \in 1..2
    BY <1>5 DEF Executes, CallInv, CommandsInv
  <2>2. ifc[2].cmd.obj = o /\ ifc[2].cmd.fields = SnapshotFields
    BY <1>1, <2>1 DEF IsrInv, Serves, Reader
  <2>3. ram[o].newdat /\ ifc'[2].regs.data = ram[o].data
    BY <1>5, <2>1, <2>2, ReadExecuted DEF SnapshotFields
  <2>4. NewFrame(ram[o].data, o)
    BY <1>2, <2>3 DEF HandInv
  <2>5. UNCHANGED <<origin, settled, rxEventQueue, disturbed>>
    BY <1>5, <2>1 DEF Executes, PeripheralFrame
  <2> QED BY <2>3, <2>4, <2>5 DEF NewFrame, Holds, Done, Queued, Frames
<1> QED BY <1>1, <1>4, <1>5

\* What a reader holds after a step is new.
LEMMA HeldStep ==
  ASSUME TypesInv, CallInv, IsrInv, HandInv, QueueInv, EventMoves, ~Resets,
         NEW o \in Mailbox, Reader(o, "taken")'
  PROVE  NewFrame(Held.data, o)'
<1>1. \A m \in Mailbox : ~Finishes(m)
  BY DEF Finishes
<1>2. \/ Reader(o, "taken") /\ Held' = Held
      \/ /\ Reader(o, "fetched") /\ ~ifc[2].busy /\ ifc[2].regs.newdat
         /\ Held' = ifc[2].regs
  BY Taking
<1>3. NewFrame(Held'.data, o) /\ Held'.data \in InHand
  BY <1>2, HeldInHand DEF HandInv, Ready
<1>4. PICK j : j = Held'.data
  OBVIOUS
<1>5. NewFrame(j, o)'
  BY <1>1, <1>3, <1>4, StaysNew
<1> QED BY <1>4, <1>5 DEF NewFrame, Holds

\* An object does not offer again what its reader took, unless a cancel disturbs it.
LEMMA OtherFrameStep ==
  ASSUME TypesInv, CallInv, IsrInv, HandInv, QueueInv, EventMoves, ~Resets,
         NEW o \in Mailbox, Reader(o, "taken")', o \notin disturbed', ~ifc'[2].busy, ram'[o].newdat
  PROVE  ram'[o].data # Held'.data
<1>1. Reader(o, "taken") /\ Held' = Held /\ (ifc'[2] = ifc[2] \/ Executes(2)) /\ o \notin disturbed
  BY Taking, Remembers
<1>2. can.initialized
  BY <1>1, HeldInHand
<1>3. CASE Arrives(o)
  BY <1>1, <1>3 DEF HandInv, NewFrame, Holds, Arrives
<1>4. CASE ram[o].newdat /\ ram'[o].data = ram[o].data /\ ifc'[2] = ifc[2]
  BY <1>1, <1>4 DEF HandInv, Ready
<1>5. CASE Executes(2)
  <2>1. ifc[2].busy /\ ~ifc[2].cmd.write /\ 2 \in 1..2
    BY <1>5 DEF Executes, CallInv, CommandsInv
  <2>2. ifc[2].cmd.obj = o /\ ifc[2].cmd.fields = AcknowledgeFields
    BY <1>1, <2>1 DEF IsrInv, Serves, Reader
  <2> QED BY <1>5, <2>1, <2>2, ReadExecuted DEF AcknowledgeFields
<1> QED BY <1>1, <1>2, <1>3, <1>4, <1>5, Offering

\* HAL_CAN_init leaves no frame to read.
LEMMA HandReset ==
  ASSUME TypesInv, CallInv, Resets
  PROVE  HandInv' /\ QueueInv'
<1>1. /\ isr'.pc = "idle" /\ fg'.op = "none" /\ Frames' = Frames /\ settled' = Frames
      /\ rxEventQueue' = <<>> /\ \A o \in Mailbox : ~ram'[o].newdat
  BY DEF Resets, CallInv, StepsInv, Blank, Frames
<1>2. \A o \in Mailbox : ~Reader(o, "fetched")' /\ ~Reader(o, "taken")'
  BY <1>1 DEF Reader
<1> QED BY <1>1, <1>2 DEF HandInv, QueueInv

\* Only received frames are settled.
LEMMA SettledStep ==
  ASSUME TypesInv, CallInv, HandInv, QueueInv, EventMoves, ~Resets
  PROVE  settled' \subseteq Frames'
<1>1. Frames \subseteq Frames' /\ settled \subseteq Frames
  BY Remembers DEF HandInv
<1>2. Queued \subseteq Frames
  BY DEF QueueInv, Queued, Holds
<1>3. CASE TakesEvent
  <2>1. 1 \in DOMAIN rxEventQueue /\ Head(rxEventQueue) = rxEventQueue[1]
    BY <1>3, HeadAndTail DEF TakesEvent, TypesInv, QueuesOK
  <2>2. Head(rxEventQueue).data \in Queued
    BY <2>1 DEF Queued
  <2> QED BY <1>1, <1>2, <1>3, <2>2 DEF TakesEvent
<1>4. ASSUME settled' = settled \union Left(ifc[1].cmd.obj) PROVE settled' \subseteq Frames'
  BY <1>1, <1>4 DEF Left
<1>5. ASSUME NEW o \in Mailbox, Finishes(o) PROVE settled' \subseteq Frames'
  BY <1>1, <1>5 DEF Finishes, HandInv, NewFrame, Holds
<1> QED BY <1>1, <1>2, <1>3, <1>4, <1>5, Settling

\* The queue holds each frame once, after every step.
LEMMA QueueStep ==
  ASSUME TypesInv, CallInv, HandInv, QueueInv, EventMoves, ~Resets
  PROVE  QueueInv'
<1>0. /\ rxEventQueue \in Seq([mailboxObjIndex : Mailbox, data : Data])
      /\ Frames \subseteq Frames' /\ \A j \in Frames : origin'[j] = origin[j]
      /\ disturbed \subseteq disturbed'
  BY Remembers DEF TypesInv, QueuesOK
<1>1. ASSUME UNCHANGED rxEventQueue,
             \A n \in DOMAIN rxEventQueue :
               /\ rxEventQueue[n].mailboxObjIndex \notin disturbed
               /\ rxEventQueue[n].data \notin settled
               => rxEventQueue[n].data \notin settled'
      PROVE  QueueInv'
  BY <1>0, <1>1 DEF QueueInv, Holds
<1>2. CASE UNCHANGED <<rxEventQueue, settled>>
  BY <1>1, <1>2
<1>3. CASE rxEventQueue' = <<>>
  BY <1>3 DEF QueueInv
<1>4. CASE TakesEvent
  <2>1. /\ rxEventQueue # <<>> /\ rxEventQueue' = Tail(rxEventQueue)
        /\ settled' = settled \union {Head(rxEventQueue).data}
    BY <1>4 DEF TakesEvent
  <2>2. /\ Head(rxEventQueue) = rxEventQueue[1] /\ 1 \in DOMAIN rxEventQueue
        /\ \A n \in DOMAIN Tail(rxEventQueue) :
             n + 1 \in DOMAIN rxEventQueue /\ Tail(rxEventQueue)[n] = rxEventQueue[n + 1] /\ n + 1 # 1
    BY <1>0, <2>1, HeadAndTail
  <2>3. ASSUME NEW n \in DOMAIN rxEventQueue'
        PROVE  LET event == rxEventQueue'[n]
               IN /\ event.data \in Frames' /\ origin'[event.data] = event.mailboxObjIndex
                  /\ event.mailboxObjIndex \notin disturbed' =>
                       /\ event.data \notin settled'
                       /\ \A m \in DOMAIN rxEventQueue' : rxEventQueue'[m].data = event.data => m = n
    <3>1. n + 1 \in DOMAIN rxEventQueue /\ rxEventQueue'[n] = rxEventQueue[n + 1] /\ n + 1 # 1
      BY <2>1, <2>2, <2>3
    <3>2. PICK event : event = rxEventQueue[n + 1]
      OBVIOUS
    <3>3. /\ event.data \in Frames /\ origin[event.data] = event.mailboxObjIndex
          /\ event.mailboxObjIndex \notin disturbed =>
               /\ event.data \notin settled
               /\ \A m \in DOMAIN rxEventQueue : rxEventQueue[m].data = event.data => m = n + 1
      BY <3>1, <3>2 DEF QueueInv, Holds
    <3>4. event.data \in Frames' /\ origin'[event.data] = event.mailboxObjIndex
      BY <1>0, <3>3
    <3>5. ASSUME event.mailboxObjIndex \notin disturbed'
          PROVE  /\ event.data \notin settled'
                 /\ \A m \in DOMAIN rxEventQueue' : rxEventQueue'[m].data = event.data => m = n
      <4>1. /\ event.data \notin settled
            /\ \A m \in DOMAIN rxEventQueue : rxEventQueue[m].data = event.data => m = n + 1
        BY <1>0, <3>3, <3>5
      <4>2. event.data # rxEventQueue[1].data
        BY <2>2, <3>1, <4>1
      <4>3. ASSUME NEW m \in DOMAIN rxEventQueue', rxEventQueue'[m].data = event.data PROVE m = n
        <5>1. m + 1 \in DOMAIN rxEventQueue /\ rxEventQueue[m + 1].data = event.data
          BY <2>1, <2>2, <4>3
        <5>2. m + 1 = n + 1 /\ m \in Int /\ n \in Int
          BY <1>0, <2>1, <2>3, <4>1, <4>3, <5>1
        <5> QED BY <5>2
      <4> QED BY <2>1, <2>2, <4>1, <4>2, <4>3
    <3> QED BY <3>1, <3>2, <3>4, <3>5 DEF Holds
  <2> QED BY <2>3 DEF QueueInv, Holds
<1>5. CASE /\ UNCHANGED <<rxEventQueue, origin>> /\ Executes(1) /\ Writing
           /\ "ARB" \in ifc[1].cmd.fields /\ settled' = settled \union Left(ifc[1].cmd.obj)
  <2>1. \A n \in DOMAIN rxEventQueue : rxEventQueue[n].data \notin Left(ifc[1].cmd.obj)
    BY DEF Left, Queued
  <2> QED BY <1>1, <1>5, <2>1
<1>6. ASSUME NEW o \in Mailbox, Finishes(o) PROVE QueueInv'
  <2>1. /\ Holds(Held.data, o) /\ (o \notin disturbed => Held.data \notin settled /\ Held.data \notin Queued)
        /\ UNCHANGED origin
    BY <1>6 DEF Finishes, HandInv, NewFrame, Done
  <2>2. CASE UNCHANGED rxEventQueue /\ settled' = settled \union {Held.data}
    <3>1. ASSUME NEW n \in DOMAIN rxEventQueue, rxEventQueue[n].mailboxObjIndex \notin disturbed,
                 rxEventQueue[n].data = Held.data
          PROVE  FALSE
      <4>1. rxEventQueue[n].mailboxObjIndex = o /\ rxEventQueue[n].data \in Queued
        BY <2>1, <3>1 DEF QueueInv, Holds, Queued
      <4> QED BY <2>1, <3>1, <4>1
    <3> QED BY <1>1, <2>2, <3>1
  <2>3. CASE /\ UNCHANGED settled
             /\ rxEventQueue' = Append(rxEventQueue, [mailboxObjIndex |-> o, data |-> Held.data])
    <3> DEFINE new == [mailboxObjIndex |-> o, data |-> Held.data]
    <3>1. new.data = Held.data /\ new.mailboxObjIndex = o
      OBVIOUS
    <3> HIDE DEF new
    <3>2. PICK last : last = Len(rxEventQueue) + 1
      OBVIOUS
    <3>3. /\ last \notin DOMAIN rxEventQueue /\ rxEventQueue'[last] = new
          /\ DOMAIN rxEventQueue' = DOMAIN rxEventQueue \union {last}
          /\ \A n \in DOMAIN rxEventQueue : rxEventQueue'[n] = rxEventQueue[n]
      BY <1>0, <2>3, <3>2 DEF new
    <3>4. \A n \in DOMAIN rxEventQueue : rxEventQueue[n].data \in Queued
      BY DEF Queued
    <3>5. ASSUME NEW n \in DOMAIN rxEventQueue', n # last
          PROVE  LET event == rxEventQueue'[n]
                 IN /\ event.data \in Frames' /\ origin'[event.data] = event.mailboxObjIndex
                    /\ event.mailboxObjIndex \notin disturbed' =>
                         /\ event.data \notin settled'
                         /\ \A m \in DOMAIN rxEventQueue' : rxEventQueue'[m].data = event.data => m = n
      <4>1. n \in DOMAIN rxEventQueue /\ rxEventQueue'[n] = rxEventQueue[n]
        BY <3>3, <3>5
      <4>2. PICK event : event = rxEventQueue[n]
        OBVIOUS
      <4>3. /\ event.data \in Frames /\ origin[event.data] = event.mailboxObjIndex
            /\ event.mailboxObjIndex \notin disturbed =>
                 /\ event.data \notin settled
                 /\ \A m \in DOMAIN rxEventQueue : rxEventQueue[m].data = event.data => m = n
        BY <4>1, <4>2 DEF QueueInv, Holds
      <4>4. event.mailboxObjIndex \notin disturbed => event.data # new.data
        BY <2>1, <3>1, <3>4, <4>1, <4>2, <4>3 DEF Holds
      <4>5. ASSUME event.mailboxObjIndex \notin disturbed', NEW m \in DOMAIN rxEventQueue',
                   rxEventQueue'[m].data = event.data
            PROVE  m = n
        BY <1>0, <3>3, <4>3, <4>4, <4>5
      <4> QED BY <1>0, <2>1, <2>3, <4>1, <4>2, <4>3, <4>5 DEF Holds, Frames
    <3>6. LET event == rxEventQueue'[last]
          IN /\ event.data \in Frames' /\ origin'[event.data] = event.mailboxObjIndex
             /\ event.mailboxObjIndex \notin disturbed' =>
                  /\ event.data \notin settled'
                  /\ \A m \in DOMAIN rxEventQueue' : rxEventQueue'[m].data = event.data => m = last
      <4>1. o \notin disturbed' => /\ Held.data \notin settled'
                                   /\ \A m \in DOMAIN rxEventQueue : rxEventQueue'[m].data # Held.data
        BY <1>0, <2>1, <2>3, <3>3, <3>4
      <4> QED BY <2>1, <3>1, <3>3, <4>1 DEF Holds, Frames
    <3> QED BY <3>5, <3>6 DEF QueueInv, Holds
  <2> QED BY <1>6, <2>2, <2>3 DEF Finishes
<1> QED BY <1>2, <1>3, <1>4, <1>5, <1>6, Settling

\* HandInv and QueueInv are inductive together.
LEMMA FramesStep ==
  ASSUME TypesInv, CallInv, IsrInv, HandInv, QueueInv, EventMoves
  PROVE  HandInv' /\ QueueInv'
<1>1. CASE Resets
  BY <1>1, HandReset
<1>2. CASE ~Resets
  <2>1. can'.initialized = can.initialized
    BY <1>2, Remembers
  <2>2. can'.initialized => \A o \in Mailbox : ram'[o].newdat => NewFrame(ram[o].data, o)'
    BY <1>2, <2>1, OffersStep
  <2>3. \A o \in Mailbox : Reader(o, "fetched")' /\ ~ifc'[2].busy /\ ifc'[2].regs.newdat =>
          NewFrame(ifc[2].regs.data, o)'
    BY <1>2, SnapshotStep
  <2>4. \A o \in Mailbox : Reader(o, "taken")' =>
          /\ NewFrame(Held.data, o)'
          /\ o \notin disturbed' /\ ~ifc'[2].busy /\ ram'[o].newdat => ram'[o].data # Held'.data
    BY <1>2, HeldStep, OtherFrameStep
  <2>5. settled' \subseteq Frames' /\ QueueInv'
    BY <1>2, SettledStep, QueueStep
  <2> QED BY <2>2, <2>3, <2>4, <2>5 DEF HandInv, Ready
<1> QED BY <1>1, <1>2

LEMMA FramesHold == EventsSpec => [](HandInv /\ QueueInv)
<1>1. EventsInit => HandInv /\ QueueInv
  <2> SUFFICES ASSUME EventsInit PROVE HandInv /\ QueueInv
    OBVIOUS
  <2>1. /\ ~can.initialized /\ rxEventQueue = <<>> /\ settled = {} /\ isr.pc = "idle"
        /\ fg = IdleCall
    BY DEF EventsInit, Init, CleanHandle, IdleIsr
  <2>2. \A o \in Mailbox : ~Reader(o, "fetched") /\ ~Reader(o, "taken")
    BY <2>1, IdleCallFields DEF Reader
  <2> QED BY <2>1, <2>2 DEF HandInv, QueueInv
<1>2. TypesInv /\ CallInv /\ IsrInv /\ HandInv /\ QueueInv /\ [EventsNext]_all
        => HandInv' /\ QueueInv'
  BY EventsMove, FramesStep
<1> QED BY <1>1, <1>2, TypesHold, CallHolds, IsrHolds, PTL DEF EventsSpec

\* While no cancel's write-back brings a taken frame back, and no object set up for receiving
\* is still served as a sender, frames reach the caller once.
OnceUnlessDisturbed == {k \in Queued : origin[k] \notin disturbed} \intersect settled = {}

\* A frame in the event queue was not delivered before, neither by an event nor by polling,
\* unless its object is disturbed.
THEOREM UndisturbedComeOnce == EventsSpec => []OnceUnlessDisturbed
<1>1. QueueInv => OnceUnlessDisturbed
  <2> SUFFICES ASSUME QueueInv, NEW k \in Queued, origin[k] \notin disturbed PROVE k \notin settled
    BY DEF OnceUnlessDisturbed
  <2> QED BY DEF QueueInv, Queued, Holds
<1> QED BY <1>1, FramesHold, PTL

-----------------------------------------------------------------------------
(* The two interrupt lines *)

\* The setup of an object has loaded it, and the configuration has not gone on yet.
Loading(o) == fg.op = "configure" /\ fg.obj = o /\ At("loaded")

\* The line of completions carries no receive object, except while a configuration moves
\* it from there, and it carries every other object that raises interrupts.
LineInv ==
  can.initialized =>
    /\ \A o \in can.line1 \ disturbed :
         /\ ram[o].role = "RX_DATA" /\ ram[o].ie => Loading(o) /\ ~ifc[1].busy
         /\ Setting /\ ifc[1].cmd.obj = o /\ ifc[1].regs.role = "RX_DATA" /\ ifc[1].regs.ie
              => Loading(o)
    /\ \A o \in Mailbox \ disturbed :
         purpose[o] # "NONE" /\ ram[o].ie /\ ram[o].role # "RX_DATA" => o \in can.line1

\* A configuration routes its object, goes to load it, or a call does neither.
Routes ==
  /\ fg.op = "configure" /\ fg.pc \in {"loaded", "stored"} /\ ~ifc[1].busy
  /\ can' = Routed /\ ~Setting' /\ UNCHANGED disturbed
  /\ \A o \in Mailbox : o # fg.obj => purpose'[o] = purpose[o]
  /\ fg'.op = "none" \/ fg.arg.role # "RX_DATA"
\* The setup is issued.
Loads ==
  /\ fg.op = "configure" /\ fg.pc = "setup" /\ UNCHANGED <<can, purpose, disturbed>>
  /\ fg'.op = "configure" /\ fg'.pc = "loaded" /\ fg'.obj = fg.obj
  /\ ifc'[1].cmd.obj = fg.obj
\* The call does not touch the routing.
Passes ==
  /\ ~(fg.op = "configure" /\ fg.pc = "loaded") /\ UNCHANGED can
  /\ \A o \in Mailbox : purpose'[o] # "NONE" => purpose[o] # "NONE"
  /\ ~Setting' \/ ifc'[1] = ifc[1]

\* A step of a call routes, loads or passes.
LEMMA CallRoutes ==
  ASSUME TypesInv, CallInv, CallMoves
  PROVE  Routes \/ Loads \/ Passes
<1>0. /\ fg.pc \in Step /\ fg.op \in Operation /\ fg.obj \in Mailbox
      /\ purpose \in [Mailbox -> Role]
  BY DEF TypesInv, TypeOK
<1>1. CASE OpenMoves
  <2>1. /\ fg.pc = "idle" /\ UNCHANGED <<can, ifc>>
        /\ \A o \in Mailbox : purpose'[o] # "NONE" => purpose[o] # "NONE"
    BY <1>0, <1>1 DEF OpenMoves, Stays, Opens, OpensConfigure, OpensCancel
  <2> QED BY <2>1 DEF Passes
<1>2. CASE SubmitMoves
  <2>1. CASE /\ Submits("setup", [fg.arg EXCEPT !.data = ifc[1].regs.data], TRUE,
                        {"ARB", "CONTROL"}, "loaded")
             /\ UNCHANGED <<can, settled, disturbed>>
    <3>1. fg.op = "configure"
      BY <1>0, <2>1 DEF Submits, CallInv, StepsInv, Operation, Cancels
    <3> QED BY <2>1, <3>1 DEF Submits, Issued, Goes, Loads
  <2>2. CASE /\ fg.arg.role = "REMOTE_RESPONSE"
             /\ \E regs : Submits("loaded", regs, TRUE, {"DATA"}, "stored")
             /\ can' = Routed /\ UNCHANGED <<settled, disturbed>>
    <3>1. fg.op = "configure"
      BY <1>0, <2>2 DEF Submits, CallInv, StepsInv, Operation, Cancels
    <3> QED BY <2>2, <3>1 DEF Submits, Issued, Routes, Setting
  <2>4. CASE /\ \/ fg.op = "send" /\ Submits("free", ifc[1].regs, FALSE, {"CONTROL"}, "length")
                \/ \E regs : \E fields \in {{"DATA", "TXRQST"}, {"TXRQST"}} :
                     Submits("length", regs, TRUE, fields, "submitted")
                \/ fg.op = "request" /\ Submits("free", ifc[1].regs, TRUE, {"TXRQST"}, "submitted")
                \/ fg.op = "update" /\ \E regs : Submits("free", regs, TRUE, {"DATA"}, "stored")
                \/ Submits("cancel", ifc[1].regs, FALSE, {"CONTROL", "TXRQST"}, "control")
             /\ UNCHANGED <<can, settled, disturbed>>
    <3>1. fg.pc # "loaded" /\ UNCHANGED <<can, purpose>>
      BY <2>4 DEF Submits
    <3>2. ifc'[1].cmd.fields # {"ARB", "CONTROL"}
      BY <2>4 DEF Submits, Issued
    <3> QED BY <3>1, <3>2 DEF Passes, Setting
  <2>5. CASE Submits("control", Cleared(ifc[1].regs), TRUE, {"CONTROL", "TXRQST"}, "next")
             /\ UNCHANGED can
    BY <2>5 DEF Submits, Issued, Passes, Setting
  <2> QED BY <1>2, <2>1, <2>2, <2>4, <2>5, Zenon DEF SubmitMoves
<1>3. CASE OtherMoves
  BY <1>3 DEF OtherMoves, Issued, Passes
<1>4. CASE ReturnMoves
  <2>1. CASE /\ Returns({"loaded", "stored"}) /\ ~ifc[1].busy /\ fg.op = "configure"
             /\ purpose' = [purpose EXCEPT ![fg.obj] = fg.arg.role]
             /\ can' = Routed /\ UNCHANGED <<settled, disturbed>>
    BY <1>0, <2>1, IdleCallFields DEF Returns, Routes, Setting, Writing
  <2>2. CASE UNCHANGED <<purpose, can, ifc>> /\ fg.pc # "loaded"
    BY <2>2 DEF Passes
  <2> QED BY <1>4, <2>1, <2>2 DEF ReturnMoves, Returns
<1> QED BY <1>1, <1>2, <1>3, <1>4 DEF CallMoves

\* Role and interrupt flag of an object change when it is set up, or with a write-back.
LEMMA RolesStand ==
  ASSUME TypesInv, CallInv, can.initialized, EventMoves, ~Resets,
         NEW o \in Mailbox, o \notin disturbed'
  PROVE  SetUp(o) \/ (ram'[o].role = ram[o].role /\ ram'[o].ie = ram[o].ie)
<1>1. o \notin disturbed
  BY Remembers
<1> QED BY <1>1, ObjectMoves DEF Sits, Restored, ReadOut, Arrives, Sends

\* The lines stand while no object is routed or set up.
LEMMA LineStands ==
  ASSUME TypesInv, CallInv, LineInv, EventMoves, ~Resets, ~Executes(1),
         can'.line1 = can.line1,
         \A o \in Mailbox : purpose'[o] # "NONE" => purpose[o] # "NONE",
         ~Setting' \/ ifc'[1] = ifc[1],
         \A o \in Mailbox : Loading(o) => UNCHANGED fg /\ (ifc'[1].busy => ifc[1].busy)
  PROVE  LineInv'
<1>1. can'.initialized = can.initialized /\ disturbed \subseteq disturbed'
  BY Remembers
<1>2. ASSUME can.initialized, NEW o \in Mailbox \ disturbed'
      PROVE  ram'[o].role = ram[o].role /\ ram'[o].ie = ram[o].ie
  BY <1>2, RolesStand DEF SetUp
<1>3. can.line1 \subseteq Mailbox
  BY DEF TypesInv, HandleOK
<1>4. \A o \in Mailbox : Loading(o) => Loading(o)'
  BY DEF Loading, At
<1>5. ifc'[1] = ifc[1] => Setting' = Setting
  BY DEF Setting, Writing
<1> QED BY <1>1, <1>2, <1>3, <1>4, <1>5 DEF LineInv

\* LineInv is inductive.
LEMMA LineStep ==
  ASSUME TypesInv, TypesInv', CallInv, CallInv', LineInv, EventMoves
  PROVE  LineInv'
<1>0. /\ can.line1 \subseteq Mailbox /\ can'.line1 \subseteq Mailbox /\ fg.obj \in Mailbox
      /\ fg.op # "none" <=> fg.pc # "idle"
  BY DEF TypesInv, HandleOK, TypeOK, CallInv, StepsInv
<1>1. CASE Resets
  BY <1>1 DEF Resets, LineInv
<1> SUFFICES ASSUME ~Resets PROVE LineInv'
  BY <1>1
<1>2. can'.initialized = can.initialized /\ disturbed \subseteq disturbed'
  BY Remembers
<1> SUFFICES ASSUME can.initialized PROVE LineInv'
  BY <1>2 DEF LineInv
<1>3. CASE Handles \/ Counts \/ TakesEvent \/ Stutters
  <2>1. /\ can'.line1 = can.line1 /\ UNCHANGED <<purpose, ifc>>
        /\ UNCHANGED fg \/ fg.pc = "expired"
    BY <1>3 DEF Handles, Counts, TakesEvent, Stutters
  <2>2. ~Executes(1)
    BY <2>1 DEF Executes
  <2> QED BY <2>1, <2>2, LineStands DEF Loading, At
<1>4. CASE GivesUp
  <2>1. /\ disturbed' = disturbed \union Misrouted /\ ifc[Interface].busy
        /\ UNCHANGED <<can, ram, ifc, purpose>>
    BY <1>4 DEF GivesUp
  <2>2. ASSUME NEW o \in can.line1 \ disturbed', Loading(o)
        PROVE  /\ ~(ram[o].role = "RX_DATA" /\ ram[o].ie)
               /\ ~(Setting /\ ifc[1].cmd.obj = o /\ ifc[1].regs.role = "RX_DATA" /\ ifc[1].regs.ie)
    <3>1. ifc[1].busy /\ ~(fg.arg.role = "RX_DATA" /\ fg.arg.ie)
      BY <2>1, <2>2 DEF Loading, Interface, Misrouted
    <3>2. ifc[1].regs.role = fg.arg.role /\ ifc[1].regs.ie = fg.arg.ie
      BY <2>2, <3>1 DEF CallInv, StageInv, Loading
    <3> QED BY <2>1, <2>2, <3>1, <3>2 DEF LineInv
  <2>3. Setting' = Setting
    BY <2>1 DEF Setting, Writing
  <2>4. ASSUME NEW o \in can.line1 \ disturbed'
        PROVE  /\ ~(ram[o].role = "RX_DATA" /\ ram[o].ie)
               /\ ~(Setting /\ ifc[1].cmd.obj = o /\ ifc[1].regs.role = "RX_DATA" /\ ifc[1].regs.ie)
    BY <1>2, <2>2, <2>4 DEF LineInv
  <2> QED BY <1>2, <2>1, <2>3, <2>4 DEF LineInv
<1>5. CASE CallMoves /\ CallFrame
  <2>1. UNCHANGED ram
    BY <1>5 DEF CallFrame
  <2>2. CASE Passes /\ ~Executes(1)
    BY <2>2, LineStands DEF Passes, Loading, At
  <2>3. CASE Passes /\ Executes(1)
    BY <2>1, <2>3 DEF Passes, LineInv, Loading, At, Executes, Setting, Writing, PeripheralFrame
  <2>4. CASE Loads
    <3>1. \A o \in can.line1 \ disturbed : ~(ram[o].role = "RX_DATA" /\ ram[o].ie)
      BY <2>4 DEF Loads, LineInv, Loading, At
    <3> QED BY <2>1, <2>4, <3>1 DEF Loads, LineInv, Loading, At
  <2>5. CASE Routes
    <3>1. /\ can'.line1 = IF ~fg.arg.ie THEN can.line1
                          ELSE IF fg.arg.role = "RX_DATA" THEN can.line1 \ {fg.obj}
                          ELSE can.line1 \union {fg.obj}
          /\ ~Setting' /\ disturbed' = disturbed
      BY <2>5, RoutedLine DEF Routes, TypesInv
    <3>2. /\ ram[fg.obj].role = fg.arg.role /\ ram[fg.obj].ie = fg.arg.ie
      BY <2>5 DEF Routes, CallInv, StageInv, At
    <3>3. ASSUME NEW o \in can'.line1 \ disturbed', ram'[o].role = "RX_DATA", ram'[o].ie
          PROVE  FALSE
      <4>1. o # fg.obj
        BY <2>1, <3>1, <3>2, <3>3
      <4> QED BY <2>1, <3>1, <3>3, <4>1 DEF LineInv, Loading
    <3>4. ASSUME NEW o \in Mailbox \ disturbed', purpose'[o] # "NONE", ram'[o].ie,
                 ram'[o].role # "RX_DATA"
          PROVE  o \in can'.line1
      <4>1. CASE o = fg.obj
        BY <2>1, <3>1, <3>2, <3>4, <4>1
      <4>2. CASE o # fg.obj
        <5>1. purpose[o] # "NONE"
          BY <2>5, <3>4, <4>2 DEF Routes
        <5> QED BY <2>1, <3>1, <3>4, <4>2, <5>1 DEF LineInv
      <4> QED BY <4>1, <4>2
    <3> QED BY <3>1, <3>3, <3>4 DEF LineInv
  <2> QED BY <1>5, <2>2, <2>3, <2>4, <2>5, CallRoutes
<1>6. CASE Executes(1)
  <2>1. ~ifc'[1].busy /\ ifc[1].busy /\ UNCHANGED <<can, fg, purpose, disturbed>>
    BY <1>6 DEF Executes, PeripheralFrame
  <2>2. ~Setting'
    BY <2>1 DEF Setting, Writing
  <2>3. ASSUME NEW o \in can.line1 \ disturbed, ram'[o].role = "RX_DATA", ram'[o].ie
        PROVE  Loading(o)
    BY <1>0, <2>1, <2>3, RolesStand DEF SetUp, LineInv
  <2>4. ASSUME NEW o \in Mailbox \ disturbed, purpose[o] # "NONE", ram'[o].ie,
               ram'[o].role # "RX_DATA"
        PROVE  o \in can.line1
    BY <2>1, <2>4, RolesStand DEF SetUp, LineInv
  <2> QED BY <2>1, <2>2, <2>3, <2>4 DEF LineInv, Loading, At
<1>7. CASE Executes(2) /\ ~Executes(1)
  <2>1. ifc'[1] = ifc[1] /\ UNCHANGED <<can, fg, purpose>>
    BY <1>7 DEF Executes, PeripheralFrame
  <2> QED BY <1>7, <2>1, LineStands
<1>8. ASSUME NEW o \in Mailbox, Arrives(o) \/ Sends(o) \/ Enters(o) PROVE LineInv'
  <2>1. UNCHANGED <<ifc, can, fg, purpose>>
    BY <1>8 DEF Arrives, Sends, Enters, PeripheralFrame, IsrFrame
  <2>2. ~Executes(1)
    BY <2>1 DEF Executes
  <2> QED BY <2>1, <2>2, LineStands
<1>9. CASE IsrMoves
  <2>1. ifc'[1] = ifc[1] /\ UNCHANGED <<can, fg, purpose>>
    BY <1>9 DEF IsrMoves, IsrIssues, IsrEnds, IsrFrame, Issued
  <2>2. ~Executes(1)
    BY <2>1 DEF Executes
  <2> QED BY <2>1, <2>2, LineStands
<1> QED BY <1>3, <1>4, <1>5, <1>6, <1>7, <1>8, <1>9 DEF EventMoves

LEMMA LinesHold == EventsSpec => []LineInv
<1>1. EventsInit => LineInv
  BY DEF EventsInit, CleanHandle, LineInv
<1>2. TypesInv /\ TypesInv' /\ CallInv /\ CallInv' /\ LineInv /\ [EventsNext]_all => LineInv'
  BY EventsMove, LineStep
<1> QED BY <1>1, <1>2, TypesHold, CallHolds, PTL DEF EventsSpec

-----------------------------------------------------------------------------
(* Every interrupt flag that is due is pending, or in the hands of the ISR *)

\* The frame object o offers is on its way to the reader of the object.
InReading(o) ==
  \/ Reader(o, "fetched") /\ ~ifc[2].busy /\ ifc[2].regs.newdat
  \/ Reader(o, "taken") /\ ifc[2].busy

\* While no wait on interface 2 expired, its command has an owner that waits for it.
Owner == isr.pc \in {"fetched", "taken", "cleared"}
         \/ (fg.op = "receive" /\ fg.pc \in {"fetched", "taken"})

\* The frame or completion whose flag is gone is in the hands of a reader or of the ISR.
ServedInv ==
  can.initialized /\ expiries[2] = 0 =>
    /\ ifc[2].busy => Owner
    /\ \A o \in Mailbox \ disturbed :
         /\ ram[o].role = "RX_DATA" /\ ram[o].ie /\ ram[o].newdat => ram[o].intpnd \/ InReading(o)
         /\ o \in unreported /\ purpose[o] # "NONE" =>
              /\ ram[o].role # "RX_DATA" /\ ram[o].ie
              /\ ram[o].intpnd \/ (isr.pc = "cleared" /\ isr.obj = o /\ ~ifc[2].busy)

\* Only HAL_CAN_init forgets that a wait expired.
LEMMA NoExpiryStays ==
  ASSUME EventMoves, ~Resets, expiries'[2] = 0
  PROVE  /\ expiries[2] = 0
         /\ GivesUp => fg.op # "receive"
         /\ IsrEnds => ~ifc[2].busy
<1>1. expiries[2] = 0
  <2>1. CASE CallMoves /\ CallFrame
    BY <2>1 DEF CallFrame
  <2>2. CASE Handles \/ GivesUp \/ Counts \/ TakesEvent \/ Stutters
    BY <2>2 DEF Handles, GivesUp, Counts, TakesEvent, Stutters
  <2>3. ASSUME NEW i \in 1..2, Executes(i) PROVE UNCHANGED expiries
    BY <2>3 DEF Executes, PeripheralFrame
  <2>4. ASSUME NEW o \in Mailbox, Arrives(o) \/ Sends(o) \/ Enters(o) PROVE UNCHANGED expiries
    BY <2>4 DEF Arrives, Sends, Enters, PeripheralFrame
  <2>5. CASE IsrMoves
    <3>1. UNCHANGED expiries \/ expiries'[2] > 0
      BY <2>5, Zenon DEF IsrMoves, IsrIssues, IsrEnds
    <3> QED BY <3>1
  <2> QED BY <2>1, <2>2, <2>3, <2>4, <2>5 DEF EventMoves
<1>2. GivesUp => fg.op # "receive"
  BY DEF GivesUp
<1>3. IsrEnds => ~ifc[2].busy
  BY DEF IsrEnds
<1> QED BY <1>1, <1>2, <1>3

\* receive() waits for its command.
LEMMA CallsWait ==
  ASSUME TypesInv, CallInv, CallMoves, fg.op = "receive", fg.pc \in {"fetched", "taken"}
  PROVE  ~ifc[2].busy
<1>1. ~OpenMoves
  BY DEF OpenMoves, Stays, Opens, OpensConfigure, OpensCancel
<1>2. ~SubmitMoves
  BY DEF SubmitMoves, Submits
<1>3. OtherMoves => ~ifc[2].busy
  BY DEF OtherMoves, Issued
<1>4. ReturnMoves => ~ifc[2].busy
  BY DEF ReturnMoves, Returns
<1> QED BY <1>1, <1>2, <1>3, <1>4 DEF CallMoves

\* A frame on its way stays there until it is taken from the object.
LEMMA ReadingStands ==
  ASSUME TypesInv, CallInv, IsrInv, EventMoves, ~Resets, expiries'[2] = 0,
         NEW o \in Mailbox, InReading(o), ram'[o].newdat
  PROVE  InReading(o)'
<1> USE DEF InReading, Reader, At
<1>0. /\ isr.pc # "idle" => fg.op # "receive"
      /\ fg.op = "receive" => isr.pc = "idle" /\ ~can.enabled
      /\ 2 \in 1..2
  BY ReadersExclude DEF CallInv, StepsInv
<1>1. CASE CallMoves /\ CallFrame
  <2>1. isr.pc = "idle" /\ UNCHANGED isr
    BY <1>1 DEF CallFrame
  <2>2. fg.op = "receive" /\ fg.obj = o /\ fg.pc = "fetched" /\ ~ifc[2].busy /\ ifc[2].regs.newdat
    BY <1>1, <2>1, CallsWait
  <2>3. ~ReturnMoves /\ ~OpenMoves /\ ~SubmitMoves
    BY <2>2 DEF ReturnMoves, Returns, OpenMoves, Stays, Opens, OpensConfigure, OpensCancel,
                SubmitMoves, Submits
  <2> QED BY <1>1, <2>1, <2>2, <2>3 DEF CallMoves, OtherMoves, Issued
<1>2. CASE Handles \/ Counts \/ TakesEvent \/ Stutters
  BY <1>2 DEF Handles, Counts, TakesEvent, Stutters
<1>3. CASE GivesUp
  <2>1. fg.op # "receive"
    BY <1>3, NoExpiryStays
  <2> QED BY <1>3, <2>1 DEF GivesUp
<1>4. CASE Executes(2)
  <2>1. ifc[2].busy /\ ~ifc[2].cmd.write
    BY <1>4 DEF Executes, CallInv, CommandsInv
  <2>2. ifc[2].cmd.obj = o /\ ifc[2].cmd.fields = AcknowledgeFields
    BY <2>1 DEF IsrInv, Serves
  <2>3. ~ram'[o].newdat
    BY <1>0, <1>4, <2>1, <2>2, ReadExecuted DEF AcknowledgeFields
  <2> QED BY <2>3
<1>5. CASE Executes(1)
  BY <1>0, <1>5 DEF Executes, PeripheralFrame
<1>6. ASSUME NEW m \in Mailbox, Arrives(m) \/ Sends(m) PROVE InReading(o)'
  BY <1>6 DEF Arrives, Sends, PeripheralFrame
<1>7. ASSUME NEW m \in Mailbox, Enters(m) PROVE InReading(o)'
  BY <1>0, <1>7 DEF Enters, IsrFrame
<1>8. CASE IsrMoves
  <2>1. isr.pc # "idle" /\ fg.op # "receive"
    BY <1>0, <1>8 DEF IsrMoves, IsrIssues, IsrEnds
  <2>2. CASE IsrEnds
    <3>1. ~ifc[2].busy
      BY <2>2, NoExpiryStays
    <3> QED BY <2>1, <2>2, <3>1 DEF IsrEnds
  <2>3. CASE ~IsrEnds
    BY <1>8, <2>1, <2>3 DEF IsrMoves, IsrIssues, Issued
  <2> QED BY <2>2, <2>3
<1> QED BY <1>1, <1>2, <1>3, <1>4, <1>5, <1>6, <1>7, <1>8 DEF EventMoves

\* A report that is due is made.
LEMMA ReportStands ==
  ASSUME TypesInv, CallInv, EventMoves, ~Resets, expiries'[2] = 0,
         NEW o \in Mailbox, isr.pc = "cleared", isr.obj = o, ~ifc[2].busy, o \in unreported'
  PROVE  ram[o].intpnd \/ (isr'.pc = "cleared" /\ isr'.obj = o /\ ~ifc'[2].busy)
<1>1. ~(CallMoves /\ CallFrame) /\ ~Handles /\ ~GivesUp /\ ~Counts /\ ~TakesEvent
  BY DEF CallFrame, Handles, GivesUp, Counts, TakesEvent
<1>2. CASE Stutters \/ Executes(1) \/ Executes(2)
  BY <1>2 DEF Stutters, Executes, PeripheralFrame
<1>3. ASSUME NEW m \in Mailbox, Arrives(m) \/ Sends(m) \/ Enters(m)
      PROVE  isr'.pc = "cleared" /\ isr'.obj = o /\ ~ifc'[2].busy
  BY <1>3 DEF Arrives, Sends, Enters, PeripheralFrame
<1>4. CASE IsrMoves
  BY <1>4 DEF IsrMoves, IsrIssues, IsrEnds
<1> QED BY <1>1, <1>2, <1>3, <1>4 DEF EventMoves

\* Who loses its interrupt flag to interface 2.
LEMMA FlagTaken ==
  ASSUME TypesInv, CallInv, IsrInv, LineInv, can.initialized, Executes(2), Owner,
         NEW o \in Mailbox \ disturbed, ifc[2].cmd.obj = o
  PROVE  \/ Reader(o, "fetched") /\ ifc[2].cmd.fields = SnapshotFields
         \/ Reader(o, "taken") /\ ifc[2].cmd.fields = AcknowledgeFields
         \/ isr.pc = "cleared" /\ isr.obj = o /\ ~(ram[o].role = "RX_DATA" /\ ram[o].ie)
<1>1. ifc[2].busy
  BY DEF Executes
<1>2. CASE isr.pc = "cleared"
  <2>1. isr.obj = o /\ o \in can.line1 /\ fg.op # "configure"
    BY <1>1, <1>2, ReadersExclude DEF IsrInv, Serves
  <2> QED BY <1>2, <2>1 DEF LineInv, Loading
<1>3. CASE isr.pc \in {"fetched", "taken"}
  BY <1>1, <1>3 DEF IsrInv, Serves, Reader
<1>4. CASE fg.op = "receive" /\ fg.pc \in {"fetched", "taken"}
  BY <1>1, <1>4 DEF IsrInv, Serves, Reader, At
<1> QED BY <1>2, <1>3, <1>4 DEF Owner

\* The command of interface 2 keeps its owner.
LEMMA OwnerStep ==
  ASSUME TypesInv, CallInv, EventMoves, ~Resets, expiries'[2] = 0, ifc[2].busy => Owner
  PROVE  ifc'[2].busy => Owner'
<1> USE DEF Owner
<1>0. isr.pc # "idle" => fg.op # "receive"
  BY ReadersExclude
<1>1. CASE CallMoves /\ CallFrame
  <2>1. isr.pc = "idle"
    BY <1>1 DEF CallFrame
  <2>2. ~ifc[2].busy
    BY <1>1, <2>1, CallsWait
  <2> QED BY <1>1, <2>2, CallReads DEF ReceiveReads, ReceiveTakes
<1>2. CASE Handles \/ Counts \/ TakesEvent \/ Stutters
  <2>1. /\ UNCHANGED <<ifc, isr>>
        /\ UNCHANGED fg \/ fg.pc = "expired"
    BY <1>2 DEF Handles, Counts, TakesEvent, Stutters
  <2> QED BY <2>1
<1>3. CASE GivesUp
  <2>1. fg.op # "receive"
    BY <1>3, NoExpiryStays
  <2> QED BY <1>3, <2>1 DEF GivesUp
<1>4. ASSUME NEW i \in 1..2, Executes(i) PROVE ifc'[2].busy => Owner'
  BY <1>4 DEF Executes, PeripheralFrame
<1>5. ASSUME NEW o \in Mailbox, Arrives(o) \/ Sends(o) PROVE ifc'[2].busy => Owner'
  BY <1>5 DEF Arrives, Sends, PeripheralFrame
<1>6. ASSUME NEW o \in Mailbox, Enters(o) PROVE ifc'[2].busy => Owner'
  BY <1>6 DEF Enters, IsrFrame
<1>7. CASE IsrMoves
  <2>1. CASE IsrEnds
    BY <2>1, NoExpiryStays DEF IsrEnds
  <2>2. CASE ~IsrEnds
    BY <1>7, <2>2 DEF IsrMoves, IsrIssues
  <2> QED BY <2>1, <2>2
<1> QED BY <1>1, <1>2, <1>3, <1>4, <1>5, <1>6, <1>7 DEF EventMoves

\* A frame waits with its flag set, or is being read.
LEMMA FlagStep ==
  ASSUME TypesInv, CallInv, IsrInv, LineInv, ServedInv, EventMoves, ~Resets,
         can.initialized, expiries'[2] = 0, NEW o \in Mailbox, o \notin disturbed',
         ram'[o].role = "RX_DATA", ram'[o].ie, ram'[o].newdat
  PROVE  ram'[o].intpnd \/ InReading(o)'
<1>0. expiries[2] = 0 /\ o \notin disturbed
  BY NoExpiryStays, Remembers
<1>1. CASE Arrives(o)
  BY <1>1 DEF Arrives
<1>2. CASE Sits(o) \/ Sends(o) \/ ReadOut(1, o)
  <2>1. CommandsInv
    BY DEF CallInv
  <2>2. /\ ram[o].role = "RX_DATA" /\ ram[o].ie /\ ram[o].newdat
        /\ ram[o].intpnd => ram'[o].intpnd
    BY <1>2, <2>1 DEF Sits, Sends, ReadOut, CommandsInv, Executes
  <2> QED BY <1>0, <2>2, ReadingStands DEF ServedInv
<1>3. CASE ReadOut(2, o)
  <2>1. /\ Executes(2) /\ ifc[2].busy /\ ~ifc'[2].busy /\ UNCHANGED <<isr, fg>>
        /\ ram[o].role = "RX_DATA" /\ ram[o].ie /\ ram[o].newdat /\ ifc[2].cmd.obj = o
        /\ "TXRQST" \notin ifc[2].cmd.fields
        /\ "CONTROL" \in ifc[2].cmd.fields => ifc'[2].regs.newdat
    BY <1>3 DEF ReadOut, Executes, PeripheralFrame
  <2>2. Owner
    BY <1>0, <2>1 DEF ServedInv
  <2>3. Reader(o, "fetched") /\ ifc[2].cmd.fields = SnapshotFields
    BY <1>0, <2>1, <2>2, FlagTaken DEF AcknowledgeFields
  <2>4. Reader(o, "fetched")' /\ ifc'[2].regs.newdat
    BY <2>1, <2>3 DEF Reader, At, SnapshotFields
  <2> QED BY <2>1, <2>4 DEF InReading
<1>4. ~SetUp(o) /\ ~Restored(o)
  BY <1>0 DEF SetUp, Restored
<1> QED BY <1>1, <1>2, <1>3, <1>4, ObjectMoves

\* A completion is due from when it happens to when the ISR reports it.
LEMMA DueStep ==
  ASSUME TypesInv, CallInv, IsrInv, LineInv, ServedInv, EventMoves, ~Resets,
         can.initialized, expiries'[2] = 0, NEW o \in Mailbox, o \notin disturbed',
         o \in unreported', purpose'[o] # "NONE"
  PROVE  \/ Sends(o) /\ ram'[o].intpnd /\ ram'[o].ie /\ ram'[o].role # "RX_DATA"
         \/ o \in unreported /\ purpose[o] # "NONE"
<1>0. unreported \subseteq Mailbox /\ fg.obj \in Mailbox
  BY DEF TypesInv, HistoryOK, TypeOK
<1>1. CASE CallMoves /\ CallFrame
  <2>1. o \in unreported
    BY <1>1 DEF CallFrame
  <2>2. CASE Routes
    <3>1. fg.obj \notin unreported
      BY <2>2 DEF Routes, CallInv, StageInv, At
    <3> QED BY <2>1, <2>2, <3>1 DEF Routes
  <2> QED BY <1>1, <2>1, <2>2, CallRoutes DEF Loads, Passes
<1>2. CASE Handles \/ GivesUp \/ Counts \/ TakesEvent \/ Stutters
  BY <1>2 DEF Handles, GivesUp, Counts, TakesEvent, Stutters
<1>3. ASSUME NEW i \in 1..2, Executes(i) PROVE o \in unreported /\ purpose[o] # "NONE"
  BY <1>3 DEF Executes, PeripheralFrame
<1>4. ASSUME NEW m \in Mailbox, Arrives(m) \/ Enters(m) PROVE o \in unreported /\ purpose[o] # "NONE"
  BY <1>4 DEF Arrives, Enters, PeripheralFrame, IsrFrame
<1>5. ASSUME NEW m \in Mailbox, Sends(m)
      PROVE  \/ Sends(o) /\ ram'[o].intpnd /\ ram'[o].ie /\ ram'[o].role # "RX_DATA"
             \/ o \in unreported /\ purpose[o] # "NONE"
  <2>1. purpose[o] # "NONE"
    BY <1>5 DEF Sends, PeripheralFrame
  <2>2. CASE o \notin unreported
    <3>1. m = o /\ ram[o].txrqst /\ ram[o].ie /\ ram'[o].intpnd
      BY <1>5, <2>2 DEF Sends
    <3>2. ram[o].role # "RX_DATA"
      BY <3>1 DEF CallInv, ObjectInv
    <3> QED BY <1>5, <3>1, <3>2 DEF Sends
  <2> QED BY <2>1, <2>2
<1>6. CASE IsrMoves
  BY <1>6 DEF IsrMoves, IsrIssues, IsrEnds, IsrFrame
<1> QED BY <1>1, <1>2, <1>3, <1>4, <1>5, <1>6 DEF EventMoves

\* A completion nobody reported is pending, or about to be reported, after every step.
LEMMA ReportStep ==
  ASSUME TypesInv, CallInv, IsrInv, LineInv, ServedInv, EventMoves, ~Resets,
         can.initialized, expiries'[2] = 0, NEW o \in Mailbox, o \notin disturbed',
         o \in unreported', purpose'[o] # "NONE"
  PROVE  /\ ram'[o].role # "RX_DATA" /\ ram'[o].ie
         /\ ram'[o].intpnd \/ (isr'.pc = "cleared" /\ isr'.obj = o /\ ~ifc'[2].busy)
<1>0. expiries[2] = 0 /\ o \notin disturbed
  BY NoExpiryStays, Remembers
<1> SUFFICES ASSUME o \in unreported, purpose[o] # "NONE"
             PROVE  /\ ram'[o].role # "RX_DATA" /\ ram'[o].ie
                    /\ ram'[o].intpnd \/ (isr'.pc = "cleared" /\ isr'.obj = o /\ ~ifc'[2].busy)
  BY DueStep
<1>1. /\ ram[o].role # "RX_DATA" /\ ram[o].ie
      /\ ram[o].intpnd \/ (isr.pc = "cleared" /\ isr.obj = o /\ ~ifc[2].busy)
  BY <1>0 DEF ServedInv
<1>2. ram'[o].role = ram[o].role /\ ram'[o].ie = ram[o].ie
  BY RolesStand DEF SetUp
<1>3. CASE ~ram[o].intpnd
  <2>1. isr'.pc = "cleared" /\ isr'.obj = o /\ ~ifc'[2].busy
    BY <1>1, <1>3, ReportStands
  <2> QED BY <1>1, <1>2, <2>1
<1>4. CASE ram[o].intpnd
  <2>1. CASE Sits(o) \/ Sends(o) \/ Arrives(o) \/ ReadOut(1, o)
    <3>1. CommandsInv
      BY DEF CallInv
    <3> QED BY <1>1, <1>2, <1>4, <2>1, <3>1 DEF Sits, Sends, Arrives, ReadOut, CommandsInv, Executes
  <2>2. CASE ReadOut(2, o)
    <3>1. Executes(2) /\ ifc[2].busy /\ ~ifc'[2].busy /\ UNCHANGED <<isr, fg>> /\ ifc[2].cmd.obj = o
      BY <2>2 DEF ReadOut, Executes, PeripheralFrame
    <3>2. Owner
      BY <1>0, <3>1 DEF ServedInv
    <3>3. o \in can.line1
      BY <1>0, <1>1 DEF LineInv
    <3>4. fg.op = "receive" => fg.obj # o
      BY <1>1 DEF CallInv, StepsInv, ObjectInv, RoleInv
    <3>5. ~Reader(o, "fetched") /\ ~Reader(o, "taken")
      BY <3>3, <3>4 DEF Reader, IsrInv
    <3> QED BY <1>0, <1>1, <1>2, <3>1, <3>2, <3>5, FlagTaken
  <2>3. ~SetUp(o) /\ ~Restored(o)
    BY <1>0 DEF SetUp, Restored
  <2> QED BY <2>1, <2>2, <2>3, ObjectMoves
<1> QED BY <1>3, <1>4

\* ServedInv is inductive.
LEMMA ServedStep ==
  ASSUME TypesInv, CallInv, IsrInv, LineInv, ServedInv, EventMoves
  PROVE  ServedInv'
<1>1. CASE Resets
  <2>1. can'.initialized => ~ifc'[2].busy
    BY <1>1 DEF Resets
  <2>2. /\ unreported' = {} /\ \A o \in Mailbox : ~ram'[o].newdat
    BY <1>1 DEF Resets, Blank
  <2> QED BY <2>1, <2>2 DEF ServedInv
<1>2. CASE ~Resets
  <2>1. can'.initialized = can.initialized
    BY <1>2, Remembers
  <2>2. ASSUME can.initialized, expiries'[2] = 0 PROVE ifc'[2].busy => Owner'
    <3>1. ifc[2].busy => Owner
      BY <1>2, <2>2, NoExpiryStays DEF ServedInv
    <3> QED BY <1>2, <2>2, <3>1, OwnerStep
  <2> QED BY <1>2, <2>1, <2>2, FlagStep, ReportStep DEF ServedInv
<1> QED BY <1>1, <1>2

LEMMA ServedHolds == EventsSpec => []ServedInv
<1>1. EventsInit => ServedInv
  BY DEF EventsInit, CleanHandle, ServedInv
<1>2. TypesInv /\ CallInv /\ IsrInv /\ LineInv /\ ServedInv /\ [EventsNext]_all => ServedInv'
  BY EventsMove, ServedStep
<1> QED BY <1>1, <1>2, TypesHold, CallHolds, IsrHolds, LinesHold, PTL DEF EventsSpec

\* NothingForgotten: outside the ISR, a frame that was not read and a completion that was
\* not reported still have their interrupt pending, whatever calls and ISR did before.
THEOREM InterruptsAreKept == EventsSpec => []NothingForgotten
<1>1. TypesInv /\ ServedInv => NothingForgotten
  <2> SUFFICES ASSUME TypesInv, ServedInv, isr.pc = "idle", expiries[2] = 0, can.initialized,
                      fg.op # "receive", NEW o \in Mailbox, purpose[o] # "NONE", o \notin disturbed
               PROVE  /\ ram[o].role = "RX_DATA" /\ ram[o].ie /\ ram[o].newdat => ram[o].intpnd
                      /\ o \in unreported => ram[o].intpnd
    BY DEF NothingForgotten
  <2>1. ~InReading(o)
    BY DEF InReading, Reader
  <2> QED BY <2>1 DEF ServedInv
<1> QED BY <1>1, TypesHold, ServedHolds, PTL

-----------------------------------------------------------------------------
(* Completions and the events that report them *)

\* The completions that are pending and not yet in the hands of the ISR, and the one that
\* the ISR is about to report.
Owed ==
  {o \in can.line1 : ram[o].intpnd} \
    (IF isr.pc = "clear" \/ (isr.pc = "cleared" /\ ifc[2].busy) THEN {isr.obj} ELSE {})
\* One while the ISR is about to report.
Reporting == IF isr.pc \in {"clear", "cleared"} THEN 1 ELSE 0

\* What was reported, will be reported next and is pending has all completed.
OwedInv ==
  IF can.initialized
  THEN disturbed = {} =>
         canDiagnostics.txCompleteCount + Cardinality(Owed) + Reporting <= completions
  ELSE canDiagnostics.txCompleteCount = 0

\* A set of objects is finite.
LEMMA ObjectsAreFinite ==
  ASSUME NEW S \in SUBSET Mailbox
  PROVE  IsFiniteSet(S) /\ Cardinality(S) \in Nat
<1>1. Mailboxes \in Int
  BY MailboxAssumption
<1>2. IsFiniteSet(Mailbox)
  BY <1>1, FS_Interval DEF Mailbox
<1>3. IsFiniteSet(S)
  BY <1>2, FS_Subset
<1> QED BY <1>3, FS_CardinalityType

\* So there are finitely many completions to report.
LEMMA OwedIsFinite ==
  ASSUME HandleOK
  PROVE  IsFiniteSet(Owed) /\ Cardinality(Owed) \in Nat
<1>1. Owed \in SUBSET Mailbox
  BY DEF Owed, HandleOK
<1> QED BY <1>1, ObjectsAreFinite

\* Counting sets that differ in one element at most.
LEMMA Counting ==
  ASSUME NEW S, NEW T, NEW x, IsFiniteSet(S)
  PROVE  /\ T \subseteq S => Cardinality(T) <= Cardinality(S)
         /\ T \subseteq S \union {x} => Cardinality(T) <= Cardinality(S) + 1
         /\ x \in S /\ T \subseteq S \ {x} => Cardinality(T) + 1 <= Cardinality(S)
<1>0. Cardinality(S) \in Nat
  BY FS_CardinalityType
<1>1. T \subseteq S => Cardinality(T) <= Cardinality(S)
  BY FS_Subset
<1>2. ASSUME T \subseteq S \union {x} PROVE Cardinality(T) <= Cardinality(S) + 1
  <2>1. /\ IsFiniteSet(S \union {x})
        /\ Cardinality(S \union {x}) = Cardinality(S) \/ Cardinality(S \union {x}) = Cardinality(S) + 1
    BY FS_AddElement
  <2>2. Cardinality(T) <= Cardinality(S \union {x}) /\ IsFiniteSet(T)
    BY <1>2, <2>1, FS_Subset
  <2>3. Cardinality(T) \in Nat
    BY <2>2, FS_CardinalityType
  <2> QED BY <1>0, <2>1, <2>2, <2>3
<1>3. ASSUME x \in S, T \subseteq S \ {x} PROVE Cardinality(T) + 1 <= Cardinality(S)
  <2>1. IsFiniteSet(S \ {x}) /\ Cardinality(S \ {x}) = Cardinality(S) - 1
    BY <1>3, FS_RemoveElement
  <2>2. Cardinality(T) <= Cardinality(S \ {x}) /\ IsFiniteSet(T)
    BY <1>3, <2>1, FS_Subset
  <2>3. Cardinality(T) \in Nat
    BY <2>2, FS_CardinalityType
  <2> QED BY <1>0, <2>1, <2>2, <2>3
<1> QED BY <1>1, <1>2, <1>3

\* A command of an interface raises no interrupt flag.
LEMMA CommandsRaiseNone ==
  ASSUME TypesInv, CallInv, can.initialized, EventMoves, ~Resets, disturbed' = {},
         NEW i \in 1..2, Executes(i), NEW o \in Mailbox
  PROVE  ram'[o].intpnd => ram[o].intpnd
<1>1. disturbed = {}
  BY Remembers
<1>2. ~Arrives(o) /\ ~Sends(o)
  BY DEF Executes, Arrives, Sends, Frames
<1> QED BY <1>1, <1>2, ObjectMoves DEF Sits, SetUp, Restored, ReadOut

\* OwedInv is inductive.
LEMMA OwedStep ==
  ASSUME TypesInv, TypesInv', CallInv, IsrInv, LineInv, OwedInv, EventMoves
  PROVE  OwedInv'
<1>0. /\ HandleOK /\ HandleOK' /\ can.line1 \subseteq Mailbox /\ completions \in Nat
      /\ canDiagnostics.txCompleteCount \in Nat /\ canDiagnostics'.txCompleteCount \in Nat
      /\ Reporting \in 0..1 /\ Reporting' \in 0..1 /\ fg.obj \in Mailbox
      /\ completions' \in Nat
  <2>1. HandleOK /\ HandleOK' /\ can.line1 \subseteq Mailbox /\ can'.line1 \subseteq Mailbox
    BY DEF TypesInv, HandleOK
  <2>2. completions \in Nat /\ completions' \in Nat
    BY DEF TypesInv, HistoryOK
  <2>3. canDiagnostics \in [Counter -> Nat] /\ canDiagnostics' \in [Counter -> Nat]
        /\ fg.obj \in Mailbox
    BY DEF TypesInv, TypeOK
  <2>4. Reporting \in 0..1 /\ Reporting' \in 0..1
    BY DEF Reporting
  <2>5. "txCompleteCount" \in Counter
    BY DEF Counter
  <2> QED BY <2>1, <2>2, <2>3, <2>4, <2>5
<1>1. /\ IsFiniteSet(Owed) /\ Cardinality(Owed) \in Nat /\ Cardinality(Owed') \in Nat
  <2>1. can'.line1 \subseteq Mailbox
    BY DEF TypesInv, HandleOK
  <2>2. Owed' \in SUBSET Mailbox
    BY <2>1 DEF Owed
  <2>3. Cardinality(Owed') \in Nat
    BY <2>2, ObjectsAreFinite
  <2> QED BY <1>0, <2>3, OwedIsFinite
<1>2. CASE Resets
  <2>1. /\ completions' = 0 /\ canDiagnostics'.txCompleteCount = 0 /\ isr'.pc = "idle"
        /\ can'.initialized => can'.line1 = {}
    BY <1>2 DEF Resets
  <2>2. can'.initialized => Owed' = {} /\ Reporting' = 0
    BY <2>1 DEF Owed, Reporting
  <2> QED BY <2>1, <2>2, FS_EmptySet DEF OwedInv
<1> SUFFICES ASSUME ~Resets PROVE OwedInv'
  BY <1>2
<1>3. can'.initialized = can.initialized /\ disturbed \subseteq disturbed'
  BY Remembers
<1>4. CASE ~can.initialized
  <2>1. canDiagnostics'.txCompleteCount = canDiagnostics.txCompleteCount
    <3>1. ~IsrMoves /\ \A o \in Mailbox : ~Enters(o)
      BY <1>4 DEF IsrMoves, IsrIssues, IsrEnds, Enters, CallInv, LifeInv
    <3>2. CASE CallMoves /\ CallFrame
      BY <3>2 DEF CallFrame, EventCountsKept
    <3>3. CASE Handles \/ GivesUp \/ Counts \/ TakesEvent \/ Stutters
      BY <3>3 DEF Handles, GivesUp, Counts, TakesEvent, Stutters
    <3>4. ASSUME NEW i \in 1..2, Executes(i)
          PROVE  canDiagnostics'.txCompleteCount = canDiagnostics.txCompleteCount
      BY <3>4 DEF Executes, PeripheralFrame
    <3>5. ASSUME NEW o \in Mailbox, Arrives(o) \/ Sends(o)
          PROVE  canDiagnostics'.txCompleteCount = canDiagnostics.txCompleteCount
      BY <3>5 DEF Arrives, Sends, PeripheralFrame
    <3> QED BY <3>1, <3>2, <3>3, <3>4, <3>5 DEF EventMoves
  <2> QED BY <1>3, <1>4, <2>1 DEF OwedInv
<1> SUFFICES ASSUME can.initialized, disturbed' = {} PROVE OwedInv'
  BY <1>3, <1>4 DEF OwedInv
<1>5. canDiagnostics.txCompleteCount + Cardinality(Owed) + Reporting <= completions
      /\ disturbed = {}
  BY <1>3 DEF OwedInv
<1> SUFFICES canDiagnostics'.txCompleteCount + Cardinality(Owed') + Reporting' <= completions'
  BY <1>3 DEF OwedInv
<1>6. ASSUME Owed' \subseteq Owed, Reporting' = Reporting, completions' = completions,
             canDiagnostics'.txCompleteCount = canDiagnostics.txCompleteCount
      PROVE  canDiagnostics'.txCompleteCount + Cardinality(Owed') + Reporting' <= completions'
  <2>1. Cardinality(Owed') <= Cardinality(Owed)
    BY <1>1, <1>6, Counting
  <2> QED BY <1>0, <1>1, <1>5, <1>6, <2>1
<1>7. CASE Handles \/ GivesUp \/ Counts \/ TakesEvent \/ Stutters
  <2>1. /\ UNCHANGED <<isr, ram, ifc, completions>> /\ can'.line1 = can.line1
        /\ canDiagnostics'.txCompleteCount = canDiagnostics.txCompleteCount
    BY <1>7 DEF Handles, GivesUp, Counts, TakesEvent, Stutters
  <2> QED BY <1>6, <2>1 DEF Owed, Reporting
<1>8. CASE CallMoves /\ CallFrame
  <2>1. /\ isr.pc = "idle" /\ UNCHANGED <<isr, ram, completions>>
        /\ canDiagnostics'.txCompleteCount = canDiagnostics.txCompleteCount
    BY <1>8 DEF CallFrame, EventCountsKept
  <2>2. \A o \in can'.line1 : ram[o].intpnd => o \in can.line1
    <3>1. CASE Routes
      <4>1. ~ram[fg.obj].intpnd
        BY <3>1 DEF Routes, CallInv, StageInv, At
      <4> QED BY <1>0, <3>1, <4>1, RoutedLine DEF Routes
    <3> QED BY <1>8, <3>1, CallRoutes DEF Loads, Passes
  <2>3. Owed' \subseteq Owed
    BY <2>1, <2>2 DEF Owed
  <2> QED BY <1>6, <2>1, <2>3 DEF Reporting
<1>9. ASSUME NEW i \in 1..2, Executes(i)
      PROVE  canDiagnostics'.txCompleteCount + Cardinality(Owed') + Reporting' <= completions'
  <2>1. UNCHANGED <<isr, can, completions, canDiagnostics>>
    BY <1>9 DEF Executes, PeripheralFrame
  <2>2. \A o \in Mailbox : ram'[o].intpnd => ram[o].intpnd
    BY <1>9, CommandsRaiseNone
  <2>3. ASSUME isr.pc = "cleared", ifc[2].busy, ~ifc'[2].busy PROVE ~ram'[isr.obj].intpnd
    <3>1. i = 2
      BY <1>9, <2>3 DEF Executes
    <3>2. /\ ifc[2].cmd.obj = isr.obj /\ "CLRINTPND" \in ifc[2].cmd.fields
          /\ ~ifc[2].cmd.write
      BY <2>3 DEF IsrInv, Serves, CallInv, CommandsInv
    <3> QED BY <1>9, <3>1, <3>2, ReadExecuted
  <2>4. isr.pc = "cleared" /\ ~ifc[2].busy => ~ifc'[2].busy
    BY <1>9 DEF Executes
  <2>5. Owed' \subseteq Owed
    BY <1>0, <2>1, <2>2, <2>3, <2>4 DEF Owed
  <2> QED BY <1>6, <2>1, <2>5 DEF Reporting
<1>10. ASSUME NEW m \in Mailbox, Arrives(m)
       PROVE  canDiagnostics'.txCompleteCount + Cardinality(Owed') + Reporting' <= completions'
  <2>1. /\ UNCHANGED <<isr, can, ifc, completions, canDiagnostics>>
        /\ \A o \in Mailbox : o # m => ram'[o] = ram[o]
        /\ ram'[m].intpnd = (ram[m].intpnd \/ ram[m].ie) /\ running /\ ram[m].role = "RX_DATA"
    BY <1>10 DEF Arrives, PeripheralFrame
  <2>2. m \in can.line1 => ~ram[m].ie
    BY <1>5, <2>1 DEF LineInv, Loading, CallInv, StepsInv
  <2>3. Owed' \subseteq Owed
    BY <1>0, <2>1, <2>2 DEF Owed
  <2> QED BY <1>6, <2>1, <2>3 DEF Reporting
<1>11. ASSUME NEW m \in Mailbox, Sends(m)
       PROVE  canDiagnostics'.txCompleteCount + Cardinality(Owed') + Reporting' <= completions'
  <2>1. /\ UNCHANGED <<isr, can, ifc, canDiagnostics>>
        /\ \A o \in Mailbox : o # m => ram'[o] = ram[o]
    BY <1>11 DEF Sends, PeripheralFrame
  <2>2. CASE completions' = completions /\ (ram'[m].intpnd => ram[m].intpnd)
    <3>1. Owed' \subseteq Owed
      BY <1>0, <2>1, <2>2 DEF Owed
    <3> QED BY <1>6, <2>1, <2>2, <3>1 DEF Reporting
  <2>3. CASE completions' = completions + 1
    <3>1. Owed' \subseteq Owed \union {m} /\ Reporting' = Reporting
      BY <1>0, <2>1 DEF Owed, Reporting
    <3>2. Cardinality(Owed') <= Cardinality(Owed) + 1
      BY <1>1, <3>1, Counting
    <3> QED BY <1>0, <1>1, <1>5, <2>1, <2>3, <3>1, <3>2
  <2> QED BY <1>11, <2>2, <2>3 DEF Sends
<1>12. ASSUME NEW m \in Mailbox, Enters(m)
       PROVE  canDiagnostics'.txCompleteCount + Cardinality(Owed') + Reporting' <= completions'
  <2>1. /\ UNCHANGED <<can, ram, completions, canDiagnostics>> /\ isr.pc = "idle"
        /\ ram[m].intpnd /\ isr'.obj = m
        /\ IF m \in can.line1 THEN isr'.pc = "clear" ELSE isr'.pc = "snapshot"
    BY <1>12 DEF Enters, IsrFrame
  <2>2. CASE m \in can.line1
    <3>1. m \in Owed /\ Owed' \subseteq Owed \ {m} /\ Reporting = 0 /\ Reporting' = 1
      BY <2>1, <2>2 DEF Owed, Reporting
    <3>2. Cardinality(Owed') + 1 <= Cardinality(Owed)
      BY <1>1, <3>1, Counting
    <3> QED BY <1>0, <1>1, <1>5, <2>1, <3>1, <3>2
  <2>3. CASE m \notin can.line1
    <3>1. Owed' \subseteq Owed /\ Reporting' = Reporting
      BY <2>1, <2>3 DEF Owed, Reporting
    <3> QED BY <1>6, <2>1, <3>1
  <2> QED BY <2>2, <2>3
<1>13. ASSUME NEW from, NEW fields, NEW to, IsrIssues(from, fields, to),
              <<from, to>> \in {<<"snapshot", "fetched">>, <<"clear", "cleared">>, <<"fetched", "taken">>}
       PROVE  canDiagnostics'.txCompleteCount + Cardinality(Owed') + Reporting' <= completions'
  <2>1. /\ UNCHANGED <<can, ram, completions, canDiagnostics>> /\ isr'.obj = isr.obj
        /\ isr.pc = from /\ isr'.pc = to /\ ifc'[2].busy
    BY <1>13 DEF IsrIssues, IsrFrame, Issued
  <2>2. Owed' \subseteq Owed /\ Reporting' = Reporting
    BY <1>13, <2>1 DEF Owed, Reporting
  <2> QED BY <1>6, <2>1, <2>2
<1>14. CASE IsrEnds
  <2>1. /\ UNCHANGED <<can, ram, completions>> /\ isr'.pc = "idle" /\ Reporting' = 0
    BY <1>14 DEF IsrEnds, IsrFrame, Reporting
  <2>2. CASE isr.pc = "cleared" /\ ~ifc[2].busy
             /\ canDiagnostics'.txCompleteCount <= canDiagnostics.txCompleteCount + 1
    <3>1. Owed' \subseteq Owed /\ Reporting = 1
      BY <2>1, <2>2 DEF Owed, Reporting
    <3>2. Cardinality(Owed') <= Cardinality(Owed)
      BY <1>1, <3>1, Counting
    <3> QED BY <1>0, <1>1, <1>5, <2>1, <2>2, <3>1, <3>2
  <2>3. CASE isr.pc \in {"clear", "cleared"}
             /\ canDiagnostics'.txCompleteCount = canDiagnostics.txCompleteCount
    <3>1. Owed' \subseteq Owed \union {isr.obj} /\ Reporting = 1
      BY <2>1, <2>3 DEF Owed, Reporting
    <3>2. Cardinality(Owed') <= Cardinality(Owed) + 1
      BY <1>1, <3>1, Counting
    <3> QED BY <1>0, <1>1, <1>5, <2>1, <2>3, <3>1, <3>2
  <2>4. CASE isr.pc \notin {"clear", "cleared"}
             /\ canDiagnostics'.txCompleteCount = canDiagnostics.txCompleteCount
    <3>1. Owed' \subseteq Owed /\ Reporting' = Reporting
      BY <2>1, <2>4 DEF Owed, Reporting
    <3> QED BY <1>6, <2>1, <2>4, <3>1
  <2>5. canDiagnostics'.txCompleteCount = canDiagnostics.txCompleteCount
        \/ (isr.pc = "cleared" /\ ~ifc[2].busy
            /\ canDiagnostics'.txCompleteCount <= canDiagnostics.txCompleteCount + 1)
    BY <1>14, Zenon DEF IsrEnds
  <2> QED BY <2>2, <2>3, <2>4, <2>5
<1>15. CASE IsrMoves
  <2>1. /\ <<"snapshot", "fetched">> \in {<<"snapshot", "fetched">>, <<"clear", "cleared">>, <<"fetched", "taken">>}
        /\ <<"clear", "cleared">> \in {<<"snapshot", "fetched">>, <<"clear", "cleared">>, <<"fetched", "taken">>}
        /\ <<"fetched", "taken">> \in {<<"snapshot", "fetched">>, <<"clear", "cleared">>, <<"fetched", "taken">>}
    OBVIOUS
  <2> QED BY <1>13, <1>14, <1>15, <2>1, Zenon DEF IsrMoves
<1>16. 1 \in 1..2 /\ 2 \in 1..2
  OBVIOUS
<1> QED BY <1>7, <1>8, <1>9, <1>10, <1>11, <1>12, <1>15, <1>16 DEF EventMoves

LEMMA OwedHolds == EventsSpec => []OwedInv
<1>1. EventsInit => OwedInv
  BY DEF EventsInit, Init, CleanHandle, OwedInv, Counter
<1>2. TypesInv /\ TypesInv' /\ CallInv /\ IsrInv /\ LineInv /\ OwedInv /\ [EventsNext]_all => OwedInv'
  BY EventsMove, OwedStep
<1> QED BY <1>1, <1>2, TypesHold, CallHolds, IsrHolds, LinesHold, PTL DEF EventsSpec

\* NoInventedCompletion: while no object is disturbed, no more completions are reported than
\* transmissions completed, for every interleaving of ISR, calls and transmissions.
THEOREM NoCompletionIsInvented == EventsSpec => []NoInventedCompletion
<1>1. TypesInv /\ OwedInv => NoInventedCompletion
  <2> SUFFICES ASSUME TypesInv, OwedInv, disturbed = {}
               PROVE  canDiagnostics.txCompleteCount <= completions
    BY DEF NoInventedCompletion
  <2>1. Cardinality(Owed) \in Nat /\ Reporting \in 0..1 /\ completions \in Nat
        /\ canDiagnostics.txCompleteCount \in Nat
    BY OwedIsFinite DEF TypesInv, HistoryOK, Reporting, TypeOK, Counter
  <2> QED BY <2>1 DEF OwedInv
<1> QED BY <1>1, TypesHold, OwedHolds, PTL

-----------------------------------------------------------------------------
(* A frame is lost only where the caller can see it *)

\* No wait expired since HAL_CAN_init.
NoTimeout == can.initialized /\ expiries[1] = 0 /\ expiries[2] = 0

\* Interface 1 works for the call in progress, which is not a receive().
CommandIsTheCalls ==
  ifc[1].busy =>
    /\ ifc[1].cmd.obj = fg.obj /\ fg.op \notin {"none", "receive"}
    /\ Setting => fg.op = "configure"
    /\ {"CONTROL", "TXRQST"} \subseteq ifc[1].cmd.fields => fg.op \in Cancels

\* A cancel works on senders and responders only.
SendersAreCancelled == fg.op \in Cancels => \A o \in fg.todo : ram[o].role # "RX_DATA"

\* The object that received the frame still has it, or marks that it lost one.
Visible(k, o) ==
  ram[o].role = "RX_DATA" /\ (ram[o].msglst \/ (ram[o].newdat /\ ram[o].data = k))

\* An event was counted that no queue took.
Dropped == canDiagnostics.rxQueueOverflowCount + canDiagnostics.unexpectedInterruptCount > 0

\* A frame that is read stays visible until the object is acknowledged, and one that nobody
\* holds is visible unless an event was dropped.
LossInv ==
  NoTimeout =>
    /\ CommandIsTheCalls /\ SendersAreCancelled
    /\ \A o \in Mailbox :
         /\ Reader(o, "fetched") /\ ~ifc[2].busy /\ ifc[2].regs.newdat =>
              Visible(ifc[2].regs.data, o)
         /\ Reader(o, "taken") /\ ifc[2].busy => Visible(Held.data, o)
    /\ ~Dropped => \A k \in Frames \ (Done \union InHand) : Visible(k, origin[k])

\* While no wait expires, nothing is given up, nothing is left to count, and an event that
\* was dropped stays counted.
LEMMA NothingExpires ==
  ASSUME TypesInv, TypesInv', TimeoutInv, EventMoves, ~Resets, NoTimeout'
  PROVE  /\ NoTimeout /\ ~GivesUp /\ ~Counts /\ (IsrEnds => ~ifc[2].busy)
         /\ ~Dropped' => ~Dropped
<1>0. /\ expiries[1] \in Nat /\ expiries[2] \in Nat /\ sampled \in Nat
      /\ can'.initialized /\ expiries'[1] = 0 /\ expiries'[2] = 0
  BY DEF TypesInv, HistoryOK, NoTimeout
<1>1. can.initialized
  BY <1>0, Remembers
<1>2. ~GivesUp
  BY <1>0 DEF GivesUp
<1>3. expiries[2] = 0 /\ (IsrEnds => ~ifc[2].busy)
  BY <1>0, NoExpiryStays
<1>4. expiries[1] = 0
  <2>1. CASE CallMoves /\ CallFrame
    BY <1>0, <2>1 DEF CallFrame
  <2>2. CASE Handles \/ Counts \/ TakesEvent \/ Stutters
    BY <1>0, <2>2 DEF Handles, Counts, TakesEvent, Stutters
  <2>3. ASSUME NEW i \in 1..2, Executes(i) PROVE expiries[1] = 0
    BY <1>0, <2>3 DEF Executes, PeripheralFrame
  <2>4. ASSUME NEW o \in Mailbox, Arrives(o) \/ Sends(o) \/ Enters(o) PROVE expiries[1] = 0
    BY <1>0, <2>4 DEF Arrives, Sends, Enters, PeripheralFrame
  <2>5. CASE IsrMoves
    <3>1. UNCHANGED expiries \/ expiries'[1] = expiries[1]
      BY <2>5, Zenon DEF IsrMoves, IsrIssues, IsrEnds
    <3> QED BY <1>0, <3>1
  <2> QED BY <1>2, <2>1, <2>2, <2>3, <2>4, <2>5 DEF EventMoves
<1>5. ~Counts
  <2>1. ~At("expired")
    BY <1>0, <1>3, <1>4 DEF TimeoutInv
  <2> QED BY <2>1 DEF Counts, At
<1>6. ~Dropped' => ~Dropped
  <2> USE DEF Dropped
  <2>0. /\ canDiagnostics.rxQueueOverflowCount \in Nat
        /\ canDiagnostics.unexpectedInterruptCount \in Nat
        /\ canDiagnostics'.rxQueueOverflowCount \in Nat
        /\ canDiagnostics'.unexpectedInterruptCount \in Nat
    BY DEF TypesInv, TypeOK, Counter
  <2>1. CASE UNCHANGED canDiagnostics
    BY <2>0, <2>1
  <2>2. CASE CallMoves /\ CallFrame
    BY <2>0, <2>2 DEF CallFrame, EventCountsKept
  <2>3. CASE Handles \/ TakesEvent \/ Stutters
    BY <2>1, <2>3 DEF Handles, TakesEvent, Stutters
  <2>4. ASSUME NEW i \in 1..2, Executes(i) PROVE UNCHANGED canDiagnostics
    BY <2>4 DEF Executes, PeripheralFrame
  <2>5. ASSUME NEW o \in Mailbox, Arrives(o) \/ Sends(o) \/ Enters(o)
        PROVE  UNCHANGED canDiagnostics
    BY <2>5 DEF Arrives, Sends, Enters, PeripheralFrame
  <2>6. CASE IsrMoves
    <3>1. CASE ~IsrEnds
      BY <2>1, <2>6, <3>1 DEF IsrMoves, IsrIssues
    <3>2. CASE IsrEnds
      <4> DEFINE n == canDiagnostics.rxQueueOverflowCount + canDiagnostics.unexpectedInterruptCount
      <4>1. UNCHANGED canDiagnostics \/ n' >= n \/ n' > 0
        BY <1>3, <3>2, Zenon DEF IsrEnds
      <4> QED BY <2>0, <2>1, <4>1
    <3> QED BY <3>1, <3>2
  <2>7. 1 \in 1..2 /\ 2 \in 1..2
    OBVIOUS
  <2> QED BY <1>2, <1>5, <2>1, <2>2, <2>3, <2>4, <2>5, <2>6, <2>7 DEF EventMoves
<1> QED BY <1>1, <1>2, <1>3, <1>4, <1>5, <1>6 DEF NoTimeout

\* The call waits for its command before it goes on.
LEMMA CommandStays ==
  ASSUME TypesInv, CallInv, TimeoutInv, CommandIsTheCalls, EventMoves, ~Resets, ~GivesUp, ~Counts,
         IsrEnds => ~ifc[2].busy
  PROVE  CommandIsTheCalls'
<1> USE DEF CommandIsTheCalls
<1>0. fg.pc \in Step /\ fg.op \in Operation /\ 1 \in 1..2
  BY DEF TypesInv, TypeOK
<1>1. CASE UNCHANGED fg /\ (ifc'[1] = ifc[1] \/ ~ifc'[1].busy)
  BY <1>1 DEF Setting, Writing
<1>2. CASE CallMoves
  <2>1. CASE OpenMoves
    <3>1. CASE UNCHANGED <<fg, ifc>>
      BY <1>1, <3>1
    <3>2. CASE fg.pc = "idle" /\ UNCHANGED ifc
      BY <3>2 DEF CallInv, StepsInv
    <3> QED BY <2>1, <3>1, <3>2 DEF OpenMoves, Stays, Opens, OpensConfigure, OpensCancel
  <2>2. CASE SubmitMoves
    <3>1. /\ ~ifc[1].busy /\ ifc'[1].cmd.obj = fg.obj /\ fg'.obj = fg.obj /\ fg'.op = fg.op
          /\ fg.pc \in {"setup", "loaded", "free", "length", "cancel", "control"}
      BY <1>0, <2>2 DEF SubmitMoves, Submits, Issued, Goes
    <3>2. fg.op \notin {"none", "receive"}
      BY <1>0, <3>1 DEF CallInv, StepsInv
    <3>3. \/ fg.pc = "setup" /\ ifc'[1].cmd.fields = {"ARB", "CONTROL"}
          \/ fg.pc \in {"cancel", "control"} /\ ifc'[1].cmd.fields = {"CONTROL", "TXRQST"}
          \/ ifc'[1].cmd.fields \in {{"DATA"}, {"CONTROL"}, {"DATA", "TXRQST"}, {"TXRQST"}}
      BY <2>2 DEF SubmitMoves, Submits, Issued
    <3>4. fg.pc = "setup" => fg.op = "configure"
      BY <1>0 DEF CallInv, StepsInv, Operation, Cancels
    <3>5. fg.pc \in {"cancel", "control"} => fg.op \in Cancels
      BY <1>0 DEF CallInv, StepsInv, Operation, Cancels
    <3> QED BY <3>1, <3>2, <3>3, <3>4, <3>5 DEF Setting, Writing
  <2>3. CASE OtherMoves
    <3>1. ifc'[1] = ifc[1] /\ fg'.op = fg.op
      BY <1>0, <2>3 DEF OtherMoves, Issued, Goes
    <3>2. fg'.obj = fg.obj \/ ~ifc[1].busy
      BY <2>3 DEF OtherMoves, Goes
    <3> QED BY <3>1, <3>2 DEF Setting, Writing
  <2>4. CASE ReturnMoves
    <3>1. CASE fg.pc \in {"fetched", "taken"}
      <4>1. fg.op = "receive"
        BY <1>0, <3>1 DEF CallInv, StepsInv, Operation, Cancels
      <4> QED BY <2>4, <4>1 DEF ReturnMoves, Returns
    <3>2. CASE fg.pc \notin {"fetched", "taken"}
      BY <2>4, <3>2 DEF ReturnMoves, Returns
    <3> QED BY <3>1, <3>2
  <2> QED BY <1>2, <2>1, <2>2, <2>3, <2>4 DEF CallMoves
<1>3. CASE Handles \/ TakesEvent \/ Stutters
  BY <1>1, <1>3 DEF Handles, TakesEvent, Stutters
<1>4. ASSUME NEW i \in 1..2, Executes(i) PROVE CommandIsTheCalls'
  BY <1>0, <1>1, <1>4 DEF Executes, PeripheralFrame
<1>5. ASSUME NEW o \in Mailbox, Arrives(o) \/ Sends(o) \/ Enters(o) PROVE CommandIsTheCalls'
  BY <1>1, <1>5 DEF Arrives, Sends, Enters, PeripheralFrame, IsrFrame
<1>6. CASE IsrMoves
  BY <1>0, <1>1, <1>6 DEF IsrMoves, IsrIssues, IsrEnds, IsrFrame, Issued
<1>7. 2 \in 1..2
  OBVIOUS
<1> QED BY <1>0, <1>2, <1>3, <1>4, <1>5, <1>6, <1>7 DEF EventMoves

\* What a cancel has begun with sends.
LEMMA CancelsStay ==
  ASSUME TypesInv, TypesInv', CallInv, can.initialized, CommandIsTheCalls, SendersAreCancelled,
         EventMoves, ~Resets
  PROVE  SendersAreCancelled'
<1> USE DEF SendersAreCancelled
<1>0. fg'.todo \subseteq Mailbox
  BY DEF TypesInv, TypeOK
<1>1. ASSUME fg'.op \in Cancels
      PROVE  \A o \in fg'.todo : ram[o].role # "RX_DATA"
  <2>1. CASE UNCHANGED fg
    BY <1>1, <2>1
  <2>2. CASE fg' = IdleCall
    BY <1>1, <2>2, IdleCallFields DEF Cancels
  <2>3. CASE CallMoves /\ CallFrame
    <3>1. CASE OpensCancel
      BY <1>0, <3>1 DEF OpensCancel, CallInv, ObjectInv
    <3>2. \/ fg'.op = fg.op /\ fg'.todo \subseteq fg.todo
          \/ fg' = IdleCall
          \/ OpensCancel
          \/ fg'.todo = {} /\ fg'.op \notin Cancels
      BY <2>3 DEF CallMoves, OpenMoves, SubmitMoves, OtherMoves, ReturnMoves, Stays, Opens,
                  OpensConfigure, Submits, Goes, Returns, Cancels
    <3> QED BY <1>1, <2>2, <3>1, <3>2
  <2>4. CASE GivesUp
    BY <1>1, <2>4 DEF GivesUp, Goes
  <2>5. CASE Handles \/ Counts \/ TakesEvent \/ Stutters
    BY <2>1, <2>2, <2>5 DEF Handles, Counts, TakesEvent, Stutters
  <2>6. ASSUME NEW i \in 1..2, Executes(i) PROVE UNCHANGED fg
    BY <2>6 DEF Executes, PeripheralFrame
  <2>7. ASSUME NEW o \in Mailbox, Arrives(o) \/ Sends(o) \/ Enters(o) PROVE UNCHANGED fg
    BY <2>7 DEF Arrives, Sends, Enters, PeripheralFrame, IsrFrame
  <2>8. CASE IsrMoves
    BY <2>1, <2>8 DEF IsrMoves, IsrIssues, IsrEnds, IsrFrame
  <2>9. 1 \in 1..2 /\ 2 \in 1..2
    OBVIOUS
  <2> QED BY <2>1, <2>3, <2>4, <2>5, <2>6, <2>7, <2>8, <2>9 DEF EventMoves
<1>2. ASSUME fg'.op \in Cancels, NEW o \in fg'.todo PROVE ram'[o].role = ram[o].role
  <2>1. o \in Mailbox
    BY <1>0, <1>2
  <2>2. ~SetUp(o)
    <3>1. SUFFICES ASSUME SetUp(o) PROVE FALSE
      OBVIOUS
    <3>2. fg.op = "configure" /\ UNCHANGED fg
      BY <3>1 DEF SetUp, Executes, PeripheralFrame, CommandIsTheCalls
    <3> QED BY <1>2, <3>2 DEF Cancels
  <2> QED BY <2>1, <2>2, ObjectMoves DEF Sits, Restored, ReadOut, Arrives, Sends
<1> QED BY <1>1, <1>2

\* A visible frame stays visible until its object is set up anew or acknowledged.
LEMMA VisibleStays ==
  ASSUME TypesInv, CallInv, can.initialized, CommandIsTheCalls, SendersAreCancelled, EventMoves,
         ~Resets, NEW o \in Mailbox, NEW k, Visible(k, o)
  PROVE  \/ Visible(k, o)'
         \/ SetUp(o)
         \/ ReadOut(2, o) /\ ifc[2].cmd.fields = AcknowledgeFields
<1> USE DEF Visible
<1>1. CASE Sits(o)
  BY <1>1 DEF Sits
<1>2. CASE Arrives(o) \/ Sends(o)
  BY <1>2 DEF Arrives, Sends
<1>3. ASSUME Executes(1), ifc[1].cmd.obj = o, {"CONTROL", "TXRQST"} \subseteq ifc[1].cmd.fields
      PROVE  FALSE
  <2>1. ifc[1].busy
    BY <1>3 DEF Executes
  <2>2. fg.op \in Cancels /\ fg.obj = o
    BY <1>3, <2>1 DEF CommandIsTheCalls
  <2>3. o \in fg.todo
    BY <2>2 DEF TypesInv, TypeOK, Cancels
  <2> QED BY <2>2, <2>3 DEF SendersAreCancelled
<1>4. CASE Restored(o)
  BY <1>3, <1>4 DEF Restored, Restoring
<1>5. CASE ReadOut(1, o)
  <2>1. Executes(1) /\ ifc[1].busy /\ ~ifc[1].cmd.write /\ ifc[1].cmd.obj = o
    BY <1>5 DEF ReadOut, Executes
  <2>2. ifc[1].cmd.fields \in {{"CONTROL"}, {"CONTROL", "TXRQST"}}
    BY <2>1 DEF CallInv, CommandsInv
  <2>3. "TXRQST" \notin ifc[1].cmd.fields
    BY <1>3, <2>1, <2>2
  <2> QED BY <1>5, <2>3 DEF ReadOut
<1>6. CASE ReadOut(2, o)
  <2>1. ifc[2].busy
    BY <1>6 DEF ReadOut, Executes
  <2>2. ifc[2].cmd.fields \in {SnapshotFields, AcknowledgeFields, {"CLRINTPND"}}
    BY <2>1 DEF CallInv, CommandsInv
  <2>3. ifc[2].cmd.fields = AcknowledgeFields \/ "TXRQST" \notin ifc[2].cmd.fields
    BY <2>2 DEF SnapshotFields
  <2> QED BY <1>6, <2>3 DEF ReadOut
<1> QED BY <1>1, <1>2, <1>4, <1>5, <1>6, ObjectMoves

\* No object is set up while one is read.
LEMMA ReadNotSetUp ==
  ASSUME TypesInv, CallInv, CommandIsTheCalls, NEW o \in Mailbox,
         Reader(o, "fetched") \/ Reader(o, "taken")
  PROVE  ~SetUp(o)
<1>1. fg.op # "configure"
  BY ReadersExclude DEF Reader
<1> QED BY <1>1 DEF SetUp, Executes, CommandIsTheCalls

\* A complete snapshot shows a frame that is still visible in its object.
LEMMA SnapshotVisible ==
  ASSUME TypesInv, CallInv, IsrInv, LossInv, NoTimeout, EventMoves, ~Resets,
         NEW o \in Mailbox, Reader(o, "fetched")', ~ifc'[2].busy, ifc'[2].regs.newdat
  PROVE  Visible(ifc[2].regs.data, o)'
<1>0. can.initialized /\ CommandIsTheCalls /\ SendersAreCancelled
  BY DEF LossInv, NoTimeout
<1>1. Reader(o, "fetched") /\ (ifc'[2] = ifc[2] \/ Executes(2))
  BY Fetching
<1>2. CASE ifc'[2] = ifc[2]
  <2>1. PICK k : k = ifc[2].regs.data
    OBVIOUS
  <2>2. Visible(k, o)
    BY <1>1, <1>2, <2>1 DEF LossInv
  <2>3. ~ReadOut(2, o)
    BY <1>2 DEF ReadOut, Executes
  <2>4. Visible(k, o)'
    BY <1>0, <1>1, <2>2, <2>3, ReadNotSetUp, VisibleStays
  <2> QED BY <1>2, <2>1, <2>4 DEF Visible
<1>3. CASE Executes(2)
  <2>1. ifc[2].busy /\ ~ifc[2].cmd.write /\ 2 \in 1..2
    BY <1>3 DEF Executes, CallInv, CommandsInv
  <2>2. ifc[2].cmd.obj = o /\ ifc[2].cmd.fields = SnapshotFields
    BY <1>1, <2>1 DEF IsrInv, Serves, Reader
  <2>3. /\ ram[o].newdat /\ ram'[o].newdat /\ ram'[o].role = ram[o].role
        /\ ram'[o].data = ram[o].data /\ ifc'[2].regs.data = ram[o].data
    BY <1>3, <2>1, <2>2, ReadExecuted DEF SnapshotFields
  <2>4. ram[o].role = "RX_DATA"
    BY <1>0, <2>3 DEF CallInv, ObjectInv, Own
  <2> QED BY <2>3, <2>4 DEF Visible
<1> QED BY <1>1, <1>2, <1>3

\* So does a frame that was taken, as long as it is not acknowledged.
LEMMA TakenVisible ==
  ASSUME TypesInv, CallInv, IsrInv, LossInv, NoTimeout, EventMoves, ~Resets,
         NEW o \in Mailbox, Reader(o, "taken")', ifc'[2].busy
  PROVE  Visible(Held.data, o)'
<1>0. can.initialized /\ CommandIsTheCalls /\ SendersAreCancelled
  BY DEF LossInv, NoTimeout
<1>1. \/ Reader(o, "taken") /\ Held' = Held /\ ifc'[2] = ifc[2]
      \/ Reader(o, "fetched") /\ ~ifc[2].busy /\ ifc[2].regs.newdat /\ Held' = ifc[2].regs
  <2>1. Executes(2) => ~ifc'[2].busy
    BY DEF Executes
  <2> QED BY <2>1, Taking
<1>2. ~Executes(2)
  BY DEF Executes
<1>3. PICK k : k = Held'.data
  OBVIOUS
<1>4. Visible(k, o)
  BY <1>1, <1>3 DEF LossInv
<1>5. Visible(k, o)'
  BY <1>0, <1>1, <1>2, <1>4, ReadNotSetUp, VisibleStays DEF ReadOut
<1> QED BY <1>3, <1>5 DEF Visible

\* What is settled or queued remains so.
LEMMA DoneStays ==
  ASSUME TypesInv, CallInv, EventMoves, ~Resets
  PROVE  Done \subseteq Done'
<1>0. rxEventQueue \in Seq([mailboxObjIndex : Mailbox, data : Data])
  BY DEF TypesInv, QueuesOK
<1>1. CASE UNCHANGED <<rxEventQueue, settled>>
  BY <1>1 DEF Done, Queued
<1>2. CASE settled' = settled \union Queued
  BY <1>2 DEF Done
<1>3. CASE TakesEvent
  <2>1. /\ rxEventQueue # <<>> /\ rxEventQueue' = Tail(rxEventQueue)
        /\ settled' = settled \union {Head(rxEventQueue).data}
    BY <1>3 DEF TakesEvent
  <2>2. ASSUME NEW n \in DOMAIN rxEventQueue
        PROVE  \/ rxEventQueue[n] = Head(rxEventQueue)
               \/ \E m \in DOMAIN rxEventQueue' : rxEventQueue'[m] = rxEventQueue[n]
    <3>1. CASE n = 1
      BY <1>0, <2>1, <3>1, HeadAndTail
    <3>2. CASE n # 1
      <4>1. n - 1 \in DOMAIN Tail(rxEventQueue) /\ Tail(rxEventQueue)[n - 1] = rxEventQueue[n]
        BY <1>0, <2>1, <2>2, <3>2
      <4> QED BY <2>1, <4>1
    <3> QED BY <3>1, <3>2
  <2> QED BY <2>1, <2>2 DEF Done, Queued
<1>4. CASE UNCHANGED rxEventQueue /\ settled' = settled \union Left(ifc[1].cmd.obj)
  BY <1>4 DEF Done, Queued
<1>5. ASSUME NEW o \in Mailbox, Finishes(o) PROVE Done \subseteq Done'
  <2>1. CASE UNCHANGED rxEventQueue /\ settled' = settled \union {Held.data}
    BY <2>1 DEF Done, Queued
  <2>2. CASE /\ UNCHANGED settled
             /\ rxEventQueue' = Append(rxEventQueue, [mailboxObjIndex |-> o, data |-> Held.data])
    <3> DEFINE event == [mailboxObjIndex |-> o, data |-> Held.data]
    <3> HIDE DEF event
    <3>1. \A n \in DOMAIN rxEventQueue :
            n \in DOMAIN rxEventQueue' /\ rxEventQueue'[n] = rxEventQueue[n]
      BY <1>0, <2>2 DEF event
    <3> QED BY <2>2, <3>1 DEF Done, Queued
  <2> QED BY <1>5, <2>1, <2>2 DEF Finishes
<1> QED BY <1>1, <1>2, <1>3, <1>4, <1>5, Settling

\* A frame that was appended to the queue waits there.
LEMMA AppendedWaits ==
  ASSUME TypesInv, NEW event, rxEventQueue' = Append(rxEventQueue, event)
  PROVE  event.data \in Done'
<1>0. rxEventQueue \in Seq([mailboxObjIndex : Mailbox, data : Data])
  BY DEF TypesInv, QueuesOK
<1>1. PICK last : last = Len(rxEventQueue) + 1
  OBVIOUS
<1>2. last \in DOMAIN rxEventQueue' /\ rxEventQueue'[last] = event
  BY <1>0, <1>1
<1> QED BY <1>2 DEF Done, Queued

\* A frame leaves the software's hands for the caller or its queue, or is counted as lost.
LEMMA HandEmpties ==
  ASSUME TypesInv, CallInv, EventMoves, ~Resets, ~GivesUp, ~Counts, IsrEnds => ~ifc[2].busy,
         NEW k \in InHand
  PROVE  k \in InHand' \/ k \in Done' \/ Dropped'
<1> USE DEF InHand, Reading, At, Ready
<1>0. /\ isr.pc # "idle" => fg.op # "receive"
      /\ fg.op = "receive" => ~can.enabled /\ fg.pc \in {"poll", "fetched", "taken", "expired"}
      /\ 2 \in 1..2
  BY ReadersExclude DEF CallInv, StepsInv
<1>1. CASE UNCHANGED <<isr, fg>> /\ ifc'[2] = ifc[2]
  BY <1>1
<1>2. CASE CallMoves /\ CallFrame
  <2>1. isr.pc = "idle" /\ UNCHANGED isr
    BY <1>2 DEF CallFrame
  <2>2. /\ fg.op = "receive" /\ ~ifc[2].busy
        /\ \/ fg.pc = "fetched" /\ ifc[2].regs.newdat /\ k = ifc[2].regs.data
           \/ fg.pc = "taken" /\ k = fg.arg.data
    BY <1>2, <2>1, CallsWait
  <2>3. ~OpenMoves /\ ~SubmitMoves
    BY <2>2 DEF OpenMoves, Stays, Opens, OpensConfigure, OpensCancel, SubmitMoves, Submits
  <2>4. CASE OtherMoves
    BY <2>2, <2>4 DEF OtherMoves
  <2>5. CASE ReturnMoves
    BY <2>2, <2>5 DEF ReturnMoves, Returns, Done
  <2> QED BY <1>2, <2>3, <2>4, <2>5 DEF CallMoves
<1>3. CASE Handles \/ TakesEvent \/ Stutters
  BY <1>1, <1>3 DEF Handles, TakesEvent, Stutters
<1>4. CASE Executes(1)
  BY <1>0, <1>1, <1>4 DEF Executes, PeripheralFrame
<1>5. CASE Executes(2)
  BY <1>5 DEF Executes, PeripheralFrame
<1>6. ASSUME NEW o \in Mailbox, Arrives(o) \/ Sends(o) PROVE k \in InHand'
  BY <1>1, <1>6 DEF Arrives, Sends, PeripheralFrame
<1>7. ASSUME NEW o \in Mailbox, Enters(o) PROVE FALSE
  BY <1>0, <1>7 DEF Enters
<1>8. CASE IsrMoves /\ ~IsrEnds
  BY <1>0, <1>8 DEF IsrMoves, IsrIssues, IsrFrame, Issued
<1>9. CASE IsrEnds
  <2>1. /\ isr.pc # "idle" /\ ~ifc[2].busy
        /\ \/ isr.pc = "fetched" /\ ~ifc[2].regs.newdat
           \/ isr.pc = "taken" /\ settled' = settled \union {isr.arg.data}
           \/ isr.pc = "taken" /\ rxEventQueue' = Append(rxEventQueue,
                                    [mailboxObjIndex |-> isr.obj, data |-> isr.arg.data])
           \/ isr.pc = "taken" /\ Dropped'
           \/ isr.pc = "cleared"
    BY <1>9, Zenon DEF IsrEnds, Dropped
  <2>2. isr.pc = "taken" /\ k = isr.arg.data
    BY <1>0, <2>1
  <2>3. ASSUME rxEventQueue' = Append(rxEventQueue,
                                      [mailboxObjIndex |-> isr.obj, data |-> isr.arg.data])
        PROVE  k \in Done'
    <3> DEFINE event == [mailboxObjIndex |-> isr.obj, data |-> isr.arg.data]
    <3>1. event.data = k
      BY <2>2
    <3> HIDE DEF event
    <3> QED BY <2>3, <3>1, AppendedWaits DEF event
  <2> QED BY <2>1, <2>2, <2>3 DEF Done
<1> QED BY <1>2, <1>3, <1>4, <1>5, <1>6, <1>7, <1>8, <1>9 DEF EventMoves

\* A frame in nobody's hands is visible, unless an event was dropped.
LEMMA UnheldVisible ==
  ASSUME TypesInv, TypesInv', CallInv, IsrInv, ServedInv, LossInv, NoTimeout, ~Dropped, ~Dropped',
         EventMoves, ~Resets, ~GivesUp, ~Counts, IsrEnds => ~ifc[2].busy,
         NEW k \in Frames' \ (Done' \union InHand')
  PROVE  Visible(k, origin[k])'
<1>0. /\ can.initialized /\ CommandIsTheCalls /\ SendersAreCancelled
      /\ ifc[2].busy => Owner
      /\ \A j \in Frames \ (Done \union InHand) : Visible(j, origin[j])
  BY DEF LossInv, NoTimeout, ServedInv
<1>1. CASE k \in Frames
  <2>1. k \notin Done /\ k \notin InHand
    BY <1>1, DoneStays, HandEmpties
  <2>2. PICK o : o = origin[k]
    OBVIOUS
  <2>3. Visible(k, o) /\ o \in Mailbox /\ origin'[k] = o
    <3>1. o \in Mailbox
      BY <1>1, <2>2 DEF TypesInv, HistoryOK, Frames
    <3>2. Visible(k, o)
      BY <1>0, <1>1, <2>1, <2>2
    <3>3. origin'[k] = o
      BY <1>1, <2>2, Remembers
    <3> QED BY <3>1, <3>2, <3>3
  <2>4. ~SetUp(o)
    <3> SUFFICES ASSUME SetUp(o) PROVE FALSE
      OBVIOUS
    <3>1. settled' = settled \union Left(o)
      BY DEF SetUp, Executes, Setting, Writing
    <3>2. k \in Left(o)
      BY <1>1, <2>1, <2>2 DEF Left, Done
    <3> QED BY <3>1, <3>2 DEF Done
  <2>5. CASE ReadOut(2, o) /\ ifc[2].cmd.fields = AcknowledgeFields
    <3>1. Executes(2) /\ ifc[2].busy /\ ifc[2].cmd.obj = o
      BY <2>5 DEF ReadOut, Executes
    <3>2. Reader(o, "taken")
      <4>1. AcknowledgeFields # SnapshotFields /\ AcknowledgeFields # {"CLRINTPND"}
        BY DEF AcknowledgeFields, SnapshotFields
      <4> QED BY <1>0, <2>5, <3>1, <4>1 DEF Owner, IsrInv, Serves, Reader, At
    <3>3. Visible(Held.data, o) /\ Held.data \in InHand
      BY <2>3, <3>1, <3>2, HeldInHand DEF LossInv
    <3>4. ram[o].msglst /\ ram[o].role = "RX_DATA"
      BY <2>1, <2>3, <3>3 DEF Visible
    <3> QED BY <2>3, <2>5, <3>4 DEF ReadOut, Visible
  <2>6. Visible(k, o)'
    <3>1. CASE Visible(k, o)'
      BY <3>1
    <3>2. CASE ReadOut(2, o) /\ ifc[2].cmd.fields = AcknowledgeFields
      BY <2>3, <2>5, <3>2 DEF Visible
    <3> QED BY <1>0, <2>3, <2>4, <3>1, <3>2, VisibleStays
  <2> QED BY <2>3, <2>6 DEF Visible
<1>2. CASE k \notin Frames
  <2>1. PICK o \in Mailbox : Arrives(o)
    <3>1. CASE CallMoves /\ CallFrame
      BY <1>2, <3>1 DEF CallFrame, Frames
    <3>2. CASE Handles \/ TakesEvent \/ Stutters
      BY <1>2, <3>2 DEF Handles, TakesEvent, Stutters, Frames
    <3>3. CASE Executes(1) \/ Executes(2)
      BY <1>2, <3>3 DEF Executes, Frames
    <3>4. ASSUME NEW o \in Mailbox, Sends(o) \/ Enters(o) PROVE FALSE
      BY <1>2, <3>4 DEF Sends, Enters, IsrFrame, Frames
    <3>5. CASE IsrMoves
      BY <1>2, <3>5 DEF IsrMoves, IsrIssues, IsrEnds, IsrFrame, Frames
    <3> QED BY <3>1, <3>2, <3>3, <3>4, <3>5 DEF EventMoves
  <2> QED BY <1>2, <2>1 DEF Arrives, Visible
<1> QED BY <1>1, <1>2

\* LossInv is inductive.
LEMMA LossStep ==
  ASSUME TypesInv, TypesInv', CallInv, IsrInv, ServedInv, TimeoutInv, LossInv, EventMoves
  PROVE  LossInv'
<1>1. CASE Resets
  <2> SUFFICES ASSUME can'.initialized PROVE LossInv'
    BY DEF LossInv, NoTimeout
  <2>1. /\ isr'.pc = "idle" /\ fg'.op = "none" /\ Frames' = Frames /\ settled' = Frames
        /\ ~ifc'[1].busy
    BY <1>1 DEF Resets, CallInv, StepsInv, Frames
  <2>2. \A o \in Mailbox : ~Reader(o, "fetched")' /\ ~Reader(o, "taken")'
    BY <2>1 DEF Reader
  <2>3. CommandIsTheCalls' /\ SendersAreCancelled'
    BY <2>1 DEF CommandIsTheCalls, SendersAreCancelled, Cancels
  <2> QED BY <2>1, <2>2, <2>3 DEF LossInv, Done
<1> SUFFICES ASSUME ~Resets, NoTimeout' PROVE LossInv'
  BY <1>1 DEF LossInv
<1>2. NoTimeout /\ ~GivesUp /\ ~Counts /\ (IsrEnds => ~ifc[2].busy) /\ (~Dropped' => ~Dropped)
  BY NothingExpires
<1>3. can.initialized /\ CommandIsTheCalls /\ SendersAreCancelled
  BY <1>2 DEF LossInv, NoTimeout
<1>4. CommandIsTheCalls' /\ SendersAreCancelled'
  BY <1>2, <1>3, CommandStays, CancelsStay
<1>5. \A o \in Mailbox : Reader(o, "fetched")' /\ ~ifc'[2].busy /\ ifc'[2].regs.newdat =>
                           Visible(ifc[2].regs.data, o)'
  BY <1>2, SnapshotVisible
<1>6. \A o \in Mailbox : Reader(o, "taken")' /\ ifc'[2].busy => Visible(Held.data, o)'
  BY <1>2, TakenVisible
<1>7. ~Dropped' => \A k \in Frames' \ (Done' \union InHand') : Visible(k, origin[k])'
  BY <1>2, UnheldVisible
<1> QED BY <1>4, <1>5, <1>6, <1>7 DEF LossInv, Visible

LEMMA LossesHold == EventsSpec => []LossInv
<1>1. EventsInit => LossInv
  BY DEF EventsInit, CleanHandle, LossInv, NoTimeout
<1>2. TypesInv /\ TypesInv' /\ CallInv /\ IsrInv /\ ServedInv /\ TimeoutInv /\ LossInv
        /\ [EventsNext]_all => LossInv'
  BY EventsMove, LossStep
<1> QED BY <1>1, <1>2, TypesHold, CallHolds, IsrHolds, ServedHolds, TimeoutsHold, PTL
        DEF EventsSpec

\* LossIsVisible: a received frame is in its object, in the software's hands, in the event
\* queue or settled with the caller, or a counter or MSGLST shows that frames were lost, in
\* whatever order arrivals, readings, setups, cancels and timeouts come.
THEOREM LossesAreVisible == EventsSpec => []LossIsVisible
<1>1. TypesInv /\ CallInv /\ TimeoutInv /\ LossInv => LossIsVisible
  <2> SUFFICES ASSUME TypesInv, CallInv, TimeoutInv, LossInv,
                      NEW k \in Frames \ (settled \union Queued \union InHand),
                      \A o \in Mailbox : ~ram[o].msglst,
                      ~(canDiagnostics.rxOverflowCount + canDiagnostics.rxQueueOverflowCount
                          + canDiagnostics.unexpectedInterruptCount > 0),
                      ~(canDiagnostics.transactionTimeoutCount > 0), ~At("expired")
               PROVE  ram[origin[k]].newdat /\ ram[origin[k]].data = k
    BY Zenon DEF LossIsVisible
  <2>1. can.initialized
    BY DEF CallInv, LifeInv
  <2>2. /\ canDiagnostics.transactionTimeoutCount \in Nat
        /\ canDiagnostics.rxOverflowCount \in Nat /\ canDiagnostics.rxQueueOverflowCount \in Nat
        /\ canDiagnostics.unexpectedInterruptCount \in Nat
        /\ expiries[1] \in Nat /\ expiries[2] \in Nat
    BY DEF TypesInv, TypeOK, HistoryOK, Counter
  <2>3. expiries[1] = 0 /\ expiries[2] = 0
    BY <2>2 DEF TimeoutInv
  <2>4. ~Dropped
    BY <2>2 DEF Dropped
  <2>5. Visible(k, origin[k])
    BY <2>1, <2>3, <2>4 DEF LossInv, NoTimeout, Done
  <2>6. origin[k] \in Mailbox
    BY DEF TypesInv, HistoryOK, Frames
  <2> QED BY <2>5, <2>6 DEF Visible
<1> QED BY <1>1, TypesHold, CallHolds, TimeoutsHold, LossesHold, PTL

-----------------------------------------------------------------------------
(* Objects that only receive *)

Receivers == {o \in Mailbox : "RX_DATA" \in Allocation[o]}

\* The platform uses no object for both directions.
SeparateDirections == \A o \in Receivers : Allocation[o] = {"RX_DATA"}

\* Receivers never request anything, so that no cancel works on them, and no completion is
\* routed for them.
DirectionInv ==
  /\ \A k \in Frames : origin[k] \in Receivers
  /\ can.initialized => \A o \in Mailbox :
       /\ ram[o].role = "RX_DATA" => o \in Receivers
       /\ o \in Receivers =>
            /\ ram[o].role \in {"NONE", "RX_DATA"} /\ ~ram[o].txrqst
            /\ o \notin can.line1 \union disturbed
            /\ fg.op \in Cancels => o \notin fg.todo
       /\ fg.op = "configure" /\ fg.obj = o => (fg.arg.role = "RX_DATA" <=> o \in Receivers)
       /\ Setting /\ ifc[1].cmd.obj = o => (ifc[1].regs.role = "RX_DATA" <=> o \in Receivers)

\* A step that reaches no object and routes nothing leaves receivers alone.
LEMMA DirectionStands ==
  ASSUME TypesInv, DirectionInv, UNCHANGED <<origin, ram>>,
         can'.initialized = can.initialized,
         can.initialized => can'.line1 \intersect Receivers \subseteq can.line1,
         can.initialized => disturbed' \intersect Receivers \subseteq disturbed,
         \/ UNCHANGED fg \/ fg'.op = "none"
         \/ fg'.op = fg.op /\ fg'.obj = fg.obj /\ fg'.arg = fg.arg /\ fg'.todo = fg.todo
         \/ fg'.op = fg.op /\ fg.op \in Cancels /\ fg'.todo \subseteq fg.todo
         \/ fg'.op \notin Cancels \union {"configure"}
         \/ fg'.op \in Cancels /\ \A o \in fg'.todo : ram[o].txrqst
         \/ fg'.op = "configure" /\ (fg'.arg.role = "RX_DATA" <=> fg'.obj \in Receivers),
         \/ ~Setting' \/ ifc'[1] = ifc[1]
         \/ ifc'[1].cmd.obj = fg.obj /\ ifc'[1].regs.role = fg.arg.role /\ fg.op = "configure"
  PROVE  DirectionInv'
<1>1. Frames' = Frames
  BY DEF Frames
<1>2. ifc'[1] = ifc[1] => Setting' = Setting
  BY DEF Setting, Writing
<1>3. ASSUME can.initialized, NEW o \in Mailbox, o \in Receivers
      PROVE  /\ o \notin can'.line1 \union disturbed'
             /\ fg'.op \in Cancels => o \notin fg'.todo
  BY <1>3 DEF DirectionInv, Cancels
<1>4. ASSUME can.initialized, NEW o \in Mailbox, fg'.op = "configure", fg'.obj = o
      PROVE  fg'.arg.role = "RX_DATA" <=> o \in Receivers
  BY <1>4 DEF DirectionInv, Cancels
<1>5. ASSUME can.initialized, NEW o \in Mailbox, Setting', ifc'[1].cmd.obj = o
      PROVE  ifc'[1].regs.role = "RX_DATA" <=> o \in Receivers
  BY <1>2, <1>5 DEF DirectionInv
<1> QED BY <1>1, <1>3, <1>4, <1>5 DEF DirectionInv, Receivers

\* A call leaves receivers alone.
LEMMA DirectionCall ==
  ASSUME SeparateDirections, TypesInv, TypesInv', CallInv, DirectionInv, CallMoves, CallFrame
  PROVE  DirectionInv'
<1>0. /\ fg.pc \in Step /\ fg.op \in Operation /\ fg.obj \in Mailbox /\ fg'.obj \in Mailbox
      /\ fg.op \in Cancels => fg.obj \in fg.todo
      /\ fg.op # "none" => can.initialized
  BY DEF TypesInv, TypeOK, CallInv, LifeInv, Cancels
<1>1. UNCHANGED <<origin, ram>>
  BY DEF CallFrame
<1>2. CASE OpenMoves
  <2>1. UNCHANGED <<can, disturbed, ifc>>
    BY <1>2 DEF OpenMoves, Stays, Opens, OpensConfigure, OpensCancel
  <2>2. CASE OpensConfigure
    <3>1. fg'.arg.role = "RX_DATA" <=> fg'.obj \in Receivers
      BY <1>0, <2>2 DEF OpensConfigure, Receivers, SeparateDirections
    <3>2. fg'.op = "configure"
      BY <2>2 DEF OpensConfigure
    <3> QED BY <1>1, <2>1, <3>1, <3>2, DirectionStands
  <2>3. CASE OpensCancel
    <3>1. fg'.op \in Cancels /\ \A o \in fg'.todo : ram[o].txrqst
      BY <2>3 DEF OpensCancel
    <3> QED BY <1>1, <2>1, <3>1, DirectionStands
  <2>4. CASE Stays
    BY <1>1, <2>1, <2>4, DirectionStands DEF Stays
  <2>5. ASSUME NEW op \in {"send", "request", "update", "receive"}, NEW step, NEW role,
               Opens(op, step, role)
        PROVE  DirectionInv'
    <3>1. fg'.op \notin Cancels \union {"configure"}
      BY <2>5 DEF Opens, Cancels
    <3> QED BY <1>1, <2>1, <3>1, DirectionStands
  <2> QED BY <1>2, <2>2, <2>3, <2>4, <2>5 DEF OpenMoves
<1>3. CASE SubmitMoves
  <2>1. Goes(fg'.pc)
    BY <1>3 DEF SubmitMoves, Submits, Goes
  <2>2. CASE /\ Submits("setup", [fg.arg EXCEPT !.data = ifc[1].regs.data], TRUE,
                        {"ARB", "CONTROL"}, "loaded")
             /\ UNCHANGED <<can, settled, disturbed>>
    <3>1. fg.op = "configure"
      BY <1>0, <2>2 DEF Submits, CallInv, StepsInv, Operation, Cancels
    <3>2. ifc'[1].cmd.obj = fg.obj /\ ifc'[1].regs.role = fg.arg.role
      <4>1. /\ ifc'[1].cmd.obj = fg.obj
            /\ ifc'[1].regs = [fg.arg EXCEPT !.data = ifc[1].regs.data]
        BY <2>2, Zenon DEF Submits, Issued
      <4>2. fg.arg \in Content
        BY DEF TypesInv, TypeOK
      <4> QED BY <4>1, <4>2 DEF Content
    <3> QED BY <1>1, <2>1, <2>2, <3>1, <3>2, DirectionStands DEF Goes
  <2>3. CASE /\ fg.arg.role = "REMOTE_RESPONSE"
             /\ \E regs : Submits("loaded", regs, TRUE, {"DATA"}, "stored")
             /\ can' = Routed /\ UNCHANGED <<settled, disturbed>>
    <3>1. fg.op = "configure" /\ ~Setting'
      BY <1>0, <2>3 DEF Submits, Issued, Setting, CallInv, StepsInv, Operation, Cancels
    <3>2. can'.line1 \intersect Receivers \subseteq can.line1 /\ can'.initialized = can.initialized
      BY <1>0, <2>3, <3>1, RoutedLine DEF TypesInv, DirectionInv
    <3> QED BY <1>1, <2>1, <2>3, <3>1, <3>2, DirectionStands DEF Goes
  <2>4. CASE /\ \/ fg.op = "send" /\ Submits("free", ifc[1].regs, FALSE, {"CONTROL"}, "length")
                \/ \E regs : \E fields \in {{"DATA", "TXRQST"}, {"TXRQST"}} :
                     Submits("length", regs, TRUE, fields, "submitted")
                \/ fg.op = "request" /\ Submits("free", ifc[1].regs, TRUE, {"TXRQST"}, "submitted")
                \/ fg.op = "update" /\ \E regs : Submits("free", regs, TRUE, {"DATA"}, "stored")
                \/ Submits("cancel", ifc[1].regs, FALSE, {"CONTROL", "TXRQST"}, "control")
             /\ UNCHANGED <<can, settled, disturbed>>
    <3>1. ifc'[1].cmd.fields # {"ARB", "CONTROL"}
      BY <2>4 DEF Submits, Issued
    <3> QED BY <1>1, <2>1, <2>4, <3>1, DirectionStands DEF Goes, Setting
  <2>5. CASE /\ Submits("control", Cleared(ifc[1].regs), TRUE, {"CONTROL", "TXRQST"}, "next")
             /\ disturbed' = disturbed \union {fg.obj}
             /\ UNCHANGED <<can, settled>>
    <3>1. ~Setting' /\ fg.op \in Cancels
      BY <1>0, <2>5 DEF Submits, Issued, Setting, CallInv, StepsInv, Operation, Cancels
    <3>2. fg.obj \notin Receivers
      BY <1>0, <3>1 DEF DirectionInv, Cancels
    <3> QED BY <1>1, <2>1, <2>5, <3>1, <3>2, DirectionStands DEF Goes
  <2> QED BY <1>3, <2>2, <2>3, <2>4, <2>5, Zenon DEF SubmitMoves
<1>4. CASE OtherMoves
  <2>1. UNCHANGED <<can, disturbed>> /\ ifc'[1] = ifc[1]
    BY <1>4 DEF OtherMoves, Issued
  <2>2. \/ Goes(fg'.pc)
        \/ fg'.op = fg.op /\ fg.op \in Cancels /\ fg'.todo \subseteq fg.todo
        \/ fg'.op \notin Cancels \union {"configure"}
    BY <1>0, <1>4 DEF OtherMoves, Goes, CallInv, StepsInv, Operation, Cancels
  <2> QED BY <1>1, <2>1, <2>2, DirectionStands DEF Goes
<1>5. CASE ReturnMoves
  <2>1. UNCHANGED <<disturbed, ifc>> /\ fg'.op = "none"
    BY <1>5, IdleCallFields DEF ReturnMoves, Returns
  <2>2. CASE fg.op = "configure" /\ can' = Routed
    <3>1. can'.line1 \intersect Receivers \subseteq can.line1 /\ can'.initialized = can.initialized
      BY <1>0, <2>2, RoutedLine DEF TypesInv, DirectionInv
    <3> QED BY <1>1, <2>1, <3>1, DirectionStands
  <2>3. CASE UNCHANGED can
    BY <1>1, <2>1, <2>3, DirectionStands
  <2> QED BY <1>5, <2>2, <2>3 DEF ReturnMoves
<1> QED BY <1>2, <1>3, <1>4, <1>5 DEF CallMoves

\* A command that is executed sets a receiver up for receiving, or writes to no receiver.
LEMMA DirectionWrite ==
  ASSUME TypesInv, CallInv, DirectionInv, can.initialized, NEW i \in 1..2, Executes(i),
         NEW o \in Mailbox
  PROVE  /\ ram'[o].role = "RX_DATA" => o \in Receivers
         /\ o \in Receivers => ram'[o].role \in {"NONE", "RX_DATA"} /\ ~ram'[o].txrqst
<1>1. /\ ram[o].role = "RX_DATA" => o \in Receivers
      /\ o \in Receivers => /\ ram[o].role \in {"NONE", "RX_DATA"} /\ ~ram[o].txrqst
                            /\ o \notin disturbed
  BY DEF DirectionInv
<1>2. CASE ifc[i].cmd.obj # o
  <2>1. ram'[o] = ram[o]
    BY <1>2 DEF Executes
  <2> QED BY <1>1, <2>1
<1>3. CASE ifc[i].cmd.obj = o /\ ~ifc[i].cmd.write
  <2>1. ram'[o] = Released(ram[o], ifc[i].cmd.fields)
    BY <1>3 DEF Executes
  <2>2. ram[o] \in Content
    BY DEF TypesInv, TypeOK
  <2>3. ram'[o].role = ram[o].role /\ ram'[o].txrqst = ram[o].txrqst
    BY <2>1, <2>2, ReadFields
  <2> QED BY <1>1, <2>3
<1>4. CASE ifc[i].cmd.obj = o /\ ifc[i].cmd.write
  <2>1. i = 1 /\ Writing
    BY <1>4 DEF Executes, CallInv, CommandsInv, Writing
  <2>2. ram'[o] = Written(ram[o], ifc[1].regs, ifc[1].cmd.fields)
    BY <1>4, <2>1 DEF Executes
  <2>3. ram[o] \in Content /\ ifc[1].regs \in Content
    BY DEF TypesInv, TypeOK
  <2>4. /\ ram'[o].role = IF "ARB" \in ifc[1].cmd.fields THEN ifc[1].regs.role ELSE ram[o].role
        /\ ram'[o].txrqst = IF "CONTROL" \in ifc[1].cmd.fields THEN ifc[1].regs.txrqst
                            ELSE ram[o].txrqst \/ "TXRQST" \in ifc[1].cmd.fields
    BY <2>2, <2>3, WrittenFields
  <2>5. CASE Setting /\ ~ifc[1].regs.txrqst
    BY <1>4, <2>1, <2>4, <2>5 DEF Setting, DirectionInv
  <2>6. CASE ifc[1].cmd.fields = {"DATA"} /\ ram[o].role = "REMOTE_RESPONSE"
    BY <1>1, <2>4, <2>6
  <2>7. CASE Raising /\ ram[o].role \in Senders
    BY <1>1, <2>4, <2>7 DEF Raising, Senders
  <2>8. CASE Restoring /\ o \in disturbed
    BY <1>1, <2>4, <2>8 DEF Restoring
  <2> QED BY <1>4, <2>1, <2>5, <2>6, <2>7, <2>8 DEF CallInv, WritingInv
<1> QED BY <1>2, <1>3, <1>4

\* DirectionInv is inductive.
LEMMA DirectionStep ==
  ASSUME SeparateDirections, TypesInv, TypesInv', CallInv, DirectionInv, EventMoves
  PROVE  DirectionInv'
<1>0. fg.op = "none" <=> fg.pc = "idle"
  BY DEF CallInv, StepsInv
<1>1. CASE Resets
  <2>1. /\ UNCHANGED <<origin, fg>> /\ fg.op = "none" /\ disturbed' = {}
        /\ \A o \in Mailbox : ram'[o] = Blank
        /\ can'.initialized => (can'.line1 = {} /\ ~ifc'[1].busy)
    BY <1>0, <1>1 DEF Resets
  <2>2. Blank.role = "NONE" /\ ~Blank.txrqst
    BY DEF Blank
  <2> QED BY <2>1, <2>2 DEF DirectionInv, Frames, Setting, Writing, Cancels
<1>2. CASE Handles \/ Counts \/ TakesEvent \/ Stutters
  <2>1. /\ UNCHANGED <<origin, ram, ifc, disturbed>>
        /\ UNCHANGED fg \/ fg'.op = "none"
        /\ can'.initialized = can.initialized /\ can'.line1 = can.line1
    BY <1>2, IdleCallFields DEF Handles, Counts, TakesEvent, Stutters
  <2> QED BY <2>1, DirectionStands
<1>3. CASE GivesUp
  <2>1. /\ UNCHANGED <<origin, ram, ifc, can>> /\ Goes("expired")
        /\ disturbed' = disturbed \union Misrouted
    BY <1>3 DEF GivesUp
  <2>2. can.initialized => disturbed' \intersect Receivers \subseteq disturbed
    BY <2>1 DEF Misrouted, DirectionInv, Receivers
  <2> QED BY <2>1, <2>2, DirectionStands DEF Goes
<1>4. CASE CallMoves /\ CallFrame
  BY <1>4, DirectionCall
<1>5. ASSUME NEW i \in 1..2, Executes(i) PROVE DirectionInv'
  <2>1. /\ UNCHANGED <<origin, can, fg, disturbed>>
        /\ ~Setting' \/ ifc'[1] = ifc[1]
    BY <1>5 DEF Executes, PeripheralFrame, Setting, Writing
  <2>2. ifc'[1] = ifc[1] => Setting' = Setting
    BY DEF Setting, Writing
  <2>3. can.initialized => \A o \in Mailbox :
          /\ ram'[o].role = "RX_DATA" => o \in Receivers
          /\ o \in Receivers => ram'[o].role \in {"NONE", "RX_DATA"} /\ ~ram'[o].txrqst
    BY <1>5, DirectionWrite
  <2> QED BY <2>1, <2>2, <2>3 DEF DirectionInv, Frames
<1>6. ASSUME NEW o \in Mailbox, Arrives(o) PROVE DirectionInv'
  <2>1. /\ UNCHANGED <<can, fg, disturbed, ifc>> /\ can.initialized /\ ram[o].role = "RX_DATA"
        /\ ram'[o].role = ram[o].role /\ ram'[o].txrqst = ram[o].txrqst
        /\ \A m \in Mailbox : m # o => ram'[m] = ram[m]
    BY <1>6 DEF Arrives, PeripheralFrame, CallInv, LifeInv
  <2>2. Setting' = Setting
    BY <2>1 DEF Setting, Writing
  <2>3. \A k \in Frames' : origin'[k] \in Receivers
    BY <1>6, <2>1 DEF Arrives, DirectionInv
  <2>4. \A m \in Mailbox : ram'[m].role = ram[m].role /\ ram'[m].txrqst = ram[m].txrqst
    BY <2>1
  <2> QED BY <2>1, <2>2, <2>3, <2>4 DEF DirectionInv
<1>7. ASSUME NEW o \in Mailbox, Sends(o) PROVE DirectionInv'
  <2>1. /\ UNCHANGED <<can, fg, disturbed, ifc, origin>> /\ can.initialized
        /\ ram'[o].role = ram[o].role
        /\ ~ram'[o].txrqst \/ ram[o].role = "REMOTE_RESPONSE"
        /\ \A m \in Mailbox : m # o => ram'[m] = ram[m]
    BY <1>7 DEF Sends, PeripheralFrame, CallInv, LifeInv
  <2>2. Setting' = Setting
    BY <2>1 DEF Setting, Writing
  <2>3. \A m \in Mailbox :
          /\ ram'[m].role = ram[m].role
          /\ m \in Receivers => ~ram'[m].txrqst
    BY <1>7, <2>1 DEF DirectionInv, Sends
  <2> QED BY <2>1, <2>2, <2>3 DEF DirectionInv, Frames
<1>8. ASSUME NEW o \in Mailbox, Enters(o) PROVE DirectionInv'
  <2>1. UNCHANGED <<can, fg, disturbed, ifc, origin, ram>>
    BY <1>8 DEF Enters, IsrFrame
  <2> QED BY <2>1, DirectionStands
<1>9. CASE IsrMoves
  <2>1. UNCHANGED <<can, fg, disturbed, origin, ram>> /\ ifc'[1] = ifc[1]
    BY <1>9 DEF IsrMoves, IsrIssues, IsrEnds, IsrFrame, Issued
  <2> QED BY <2>1, DirectionStands
<1> QED BY <1>1, <1>2, <1>3, <1>4, <1>5, <1>6, <1>7, <1>8, <1>9 DEF EventMoves

LEMMA DirectionsHold ==
  ASSUME SeparateDirections PROVE EventsSpec => []DirectionInv
<1>1. EventsInit => DirectionInv
  <2> SUFFICES ASSUME EventsInit PROVE DirectionInv
    OBVIOUS
  <2>1. ~can.initialized /\ origin = <<>>
    BY DEF EventsInit, CleanHandle
  <2> QED BY <2>1 DEF DirectionInv, Frames
<1>2. TypesInv /\ TypesInv' /\ CallInv /\ DirectionInv /\ [EventsNext]_all => DirectionInv'
  BY EventsMove, DirectionStep
<1> QED BY <1>1, <1>2, TypesHold, CallHolds, PTL DEF EventsSpec

\* EventsOnce: where no object is used for both directions, a frame in the event queue was not
\* delivered before, neither by an event nor by polling.
THEOREM EventsComeOnce ==
  ASSUME SeparateDirections PROVE EventsSpec => []EventsOnce
<1>1. TypesInv /\ CallInv /\ QueueInv /\ DirectionInv => EventsOnce
  <2> SUFFICES ASSUME TypesInv, CallInv, QueueInv, DirectionInv, NEW k \in Queued
               PROVE  k \notin settled
    BY DEF EventsOnce
  <2>1. can.initialized
    BY DEF CallInv, LifeInv, Queued
  <2>2. k \in Frames /\ (origin[k] \notin disturbed => k \notin settled)
    BY DEF QueueInv, Queued, Holds
  <2>3. origin[k] \notin disturbed
    BY <2>1, <2>2 DEF DirectionInv, Receivers
  <2> QED BY <2>2, <2>3
<1> QED BY <1>1, TypesHold, CallHolds, FramesHold, DirectionsHold, PTL

-----------------------------------------------------------------------------
(* What CanMailbox promises in polled operation holds with interrupts, too *)

\* An interface is written only while it is free, by the calls and by the ISR.
THEOREM InterfacesStayOwned == EventsSpec => InterfaceUndisturbed
<1> DEFINE Undisturbed == \A i \in 1..2 : ifc[i].busy /\ ifc'[i] # ifc[i] => ~ifc'[i].busy
<1>1. TypesInv /\ [EventsNext]_all => Undisturbed
  <2> SUFFICES ASSUME TypesInv, EventMoves PROVE Undisturbed
    BY EventsMove
  <2>1. CASE CallMoves /\ CallFrame
    <3>1. CASE OpenMoves
      BY <3>1 DEF OpenMoves, Stays, Opens, OpensConfigure, OpensCancel
    <3>2. CASE SubmitMoves
      BY <3>2 DEF SubmitMoves, Submits, Issued
    <3>3. CASE OtherMoves
      BY <3>3 DEF OtherMoves, Issued
    <3>4. CASE ReturnMoves
      BY <3>4 DEF ReturnMoves, Returns
    <3> QED BY <2>1, <3>1, <3>2, <3>3, <3>4 DEF CallMoves
  <2>2. CASE Resets \/ Handles \/ GivesUp \/ Counts \/ TakesEvent \/ Stutters
    BY <2>2 DEF Resets, Handles, GivesUp, Counts, TakesEvent, Stutters
  <2>3. ASSUME NEW i \in 1..2, Executes(i) PROVE Undisturbed
    BY <2>3 DEF Executes
  <2>4. ASSUME NEW o \in Mailbox, Arrives(o) \/ Sends(o) \/ Enters(o) PROVE Undisturbed
    BY <2>4 DEF Arrives, Sends, Enters
  <2>5. CASE IsrMoves
    BY <2>5 DEF IsrMoves, IsrIssues, IsrEnds, Issued
  <2> QED BY <2>1, <2>2, <2>3, <2>4, <2>5 DEF EventMoves
<1> QED BY <1>1, TypesHold, PTL DEF EventsSpec, InterfaceUndisturbed

\* Interface 2 has one owner: a polled receive() and the ISR never use it together.
OneReader == isr.pc # "idle" => fg.op # "receive"

\* docs/can.md: the ISR owns interface 2 while interrupts are enabled, the foreground otherwise.
THEOREM OneReaderAtATime == EventsSpec => []OneReader
<1>1. TypesInv /\ CallInv => OneReader
  BY ReadersExclude DEF OneReader
<1> QED BY <1>1, TypesHold, CallHolds, PTL

\* A sender was found free and stays so until the command that raises its request; and after a
\* HAL_CAN_init that gave up, at most one command is left, and it starts no transmission.
RaiseInv ==
  /\ can.initialized =>
       /\ Raising => ~ram[ifc[1].cmd.obj].txrqst
       /\ fg.op \in {"send", "request"} /\ fg.pc \in {"free", "length"} =>
            ~ram[fg.obj].txrqst /\ ~Writing
  /\ ~can.initialized =>
       /\ \A o \in Mailbox : ram[o].role # "NONE" => ~ram[o].txrqst
       /\ Writing => /\ Setting \/ Restoring \/ Raising \/ ifc[1].cmd.fields = {"DATA"}
                     /\ Setting \/ Restoring => ~ifc[1].regs.txrqst
                     /\ \A o \in Mailbox : ram[o].role = "NONE"

\* A command that is executed raises the request of a sender that was free, or clears it, or
\* writes the data of a responder.
LEMMA RequestWritten ==
  ASSUME TypesInv, CallInv, RaiseInv, NEW i \in 1..2, Executes(i), NEW o \in Mailbox,
         ram'[o].txrqst, can.initialized \/ ram'[o].role # "NONE"
  PROVE  \/ /\ ram'[o].role = ram[o].role /\ ram'[o].txrqst = ram[o].txrqst
            /\ ram'[o].dlc = ram[o].dlc
            /\ ram[o].role = "REMOTE_RESPONSE" \/ ram'[o].data = ram[o].data
         \/ ~ram[o].txrqst /\ ram'[o].role \in Senders
<1>0. ram[o] \in Content
  BY DEF TypesInv, TypeOK
<1>1. CASE ifc[i].cmd.obj # o
  <2>1. ram'[o] = ram[o]
    BY <1>1 DEF Executes
  <2> QED BY <2>1
<1>2. CASE ifc[i].cmd.obj = o /\ ~ifc[i].cmd.write
  <2>1. ram'[o] = Released(ram[o], ifc[i].cmd.fields)
    BY <1>2 DEF Executes
  <2>2. ram'[o].dlc = ram[o].dlc
    BY <1>0, <2>1 DEF Released, Content
  <2>3. ram'[o].role = ram[o].role /\ ram'[o].txrqst = ram[o].txrqst /\ ram'[o].data = ram[o].data
    BY <1>2, ReadExecuted
  <2> QED BY <2>2, <2>3
<1>3. CASE ifc[i].cmd.obj = o /\ ifc[i].cmd.write
  <2>1. i = 1 /\ Writing
    BY <1>3 DEF Executes, CallInv, CommandsInv, Writing
  <2>2. /\ ram'[o].role = IF "ARB" \in ifc[1].cmd.fields THEN ifc[1].regs.role ELSE ram[o].role
        /\ ram'[o].txrqst = IF "CONTROL" \in ifc[1].cmd.fields THEN ifc[1].regs.txrqst
                            ELSE ram[o].txrqst \/ "TXRQST" \in ifc[1].cmd.fields
    BY <1>3, <2>1, WriteExecuted
  <2>3. CASE ~can.initialized
    BY <2>1, <2>2, <2>3 DEF RaiseInv, Setting, Restoring, Raising
  <2>4. CASE can.initialized
    <3>1. CASE Setting /\ ~ifc[1].regs.txrqst
      BY <2>2, <3>1 DEF Setting
    <3>2. CASE ifc[1].cmd.fields = {"DATA"} /\ ram[o].role = "REMOTE_RESPONSE"
      <4>1. ram'[o] = Written(ram[o], ifc[1].regs, {"DATA"})
        BY <1>3, <2>1, <3>2 DEF Executes
      <4>2. ram'[o].dlc = ram[o].dlc
        BY <1>0, <4>1 DEF Written, Content
      <4> QED BY <2>2, <3>2, <4>2
    <3>3. CASE Raising /\ ram[o].role \in Senders
      BY <1>3, <2>1, <2>2, <2>4, <3>3 DEF Raising, RaiseInv
    <3>4. CASE Restoring /\ ~ifc[1].regs.txrqst
      BY <2>2, <3>4 DEF Restoring
    <3> QED BY <1>3, <2>1, <2>4, <3>1, <3>2, <3>3, <3>4 DEF CallInv, WritingInv
  <2> QED BY <2>3, <2>4
<1> QED BY <1>1, <1>2, <1>3

\* The requests of senders stand while no object is written and no command begins to write.
LEMMA RaiseStands ==
  ASSUME RaiseInv, UNCHANGED ram, can'.initialized = can.initialized,
         ifc'[1] = ifc[1] \/ (can.initialized /\ ~Writing'),
         \/ fg'.op = fg.op /\ fg'.obj = fg.obj /\ fg'.pc = fg.pc
         \/ fg'.op \notin {"send", "request"}
         \/ fg'.pc \notin {"free", "length"}
         \/ ~Writing' /\ ~ram[fg'.obj].txrqst
  PROVE  RaiseInv'
<1>1. ifc'[1] = ifc[1] => /\ Writing' = Writing /\ Raising' = Raising /\ Setting' = Setting
                         /\ Restoring' = Restoring
  BY DEF Writing, Raising, Setting, Restoring
<1>2. ~Writing' => ~Raising'
  BY DEF Raising
<1> QED BY <1>1, <1>2 DEF RaiseInv

\* A call raises requests of free senders only.
LEMMA RaiseCall ==
  ASSUME TypesInv, CallInv, CallInv', RaiseInv, CallMoves, CallFrame
  PROVE  RaiseInv'
<1>0. /\ fg.pc \in Step /\ fg.op \in Operation /\ fg.obj \in Mailbox
      /\ fg.op # "none" => can.initialized
      /\ fg.op = "none" <=> fg.pc = "idle"
  BY DEF TypesInv, TypeOK, CallInv, LifeInv, StepsInv
<1>1. UNCHANGED ram
  BY DEF CallFrame
<1>2. can'.initialized = can.initialized
  <2>1. can' = can \/ can' = Routed
    BY DEF CallMoves, OpenMoves, SubmitMoves, OtherMoves, ReturnMoves
  <2> QED BY <2>1, RoutedLine DEF TypesInv
<1>3. CASE OpenMoves
  <2>1. /\ UNCHANGED ifc
        /\ UNCHANGED fg \/ fg'.pc \notin {"free", "length"}
    BY <1>3 DEF OpenMoves, Stays, Opens, OpensConfigure, OpensCancel
  <2> QED BY <1>1, <1>2, <2>1, RaiseStands
<1>4. CASE SubmitMoves
  <2>1. CASE \/ fg.op = "send" /\ Submits("free", ifc[1].regs, FALSE, {"CONTROL"}, "length")
             \/ Submits("cancel", ifc[1].regs, FALSE, {"CONTROL", "TXRQST"}, "control")
    <3>1. ~Writing' /\ can.initialized
      BY <1>0, <2>1 DEF Submits, Issued, Writing
    <3>2. \/ fg'.pc \notin {"free", "length"}
          \/ ~Writing' /\ ~ram[fg'.obj].txrqst
      BY <1>0, <2>1, <3>1 DEF Submits, Goes, RaiseInv
    <3> QED BY <1>1, <1>2, <3>1, <3>2, RaiseStands
  <2>2. CASE \/ \E regs : \E fields \in {{"DATA", "TXRQST"}, {"TXRQST"}} :
                  Submits("length", regs, TRUE, fields, "submitted")
             \/ fg.op = "request" /\ Submits("free", ifc[1].regs, TRUE, {"TXRQST"}, "submitted")
    <3>1. fg.op \in {"send", "request"}
      BY <1>0, <2>2 DEF Submits, CallInv, StepsInv, Operation, Cancels
    <3>2. /\ fg'.pc = "submitted" /\ ifc'[1].cmd.obj = fg.obj /\ fg.pc \in {"free", "length"}
      BY <2>2 DEF Submits, Issued, Goes
    <3>3. ~ram[fg.obj].txrqst /\ can.initialized
      BY <1>0, <3>1, <3>2 DEF RaiseInv
    <3> QED BY <1>1, <1>2, <3>2, <3>3 DEF RaiseInv
  <2>3. CASE \/ Submits("setup", [fg.arg EXCEPT !.data = ifc[1].regs.data], TRUE,
                        {"ARB", "CONTROL"}, "loaded")
             \/ \E regs : Submits("loaded", regs, TRUE, {"DATA"}, "stored")
             \/ \E regs : Submits("free", regs, TRUE, {"DATA"}, "stored")
             \/ Submits("control", Cleared(ifc[1].regs), TRUE, {"CONTROL", "TXRQST"}, "next")
    <3> DEFINE Quiet ==
          /\ fg'.pc \notin {"free", "length"} /\ fg.pc # "idle"
          /\ ifc'[1].cmd.fields \in {{"ARB", "CONTROL"}, {"DATA"}, {"CONTROL", "TXRQST"}}
    <3>1. ASSUME NEW from \in {"setup", "loaded", "free", "control"}, NEW regs,
                 NEW fields \in {{"ARB", "CONTROL"}, {"DATA"}, {"CONTROL", "TXRQST"}},
                 NEW step \in {"loaded", "stored", "next"},
                 Submits(from, regs, TRUE, fields, step)
          PROVE  Quiet
      <4>1. fg.pc = from /\ fg'.pc = step /\ ifc'[1].cmd.fields = fields
        BY <3>1, Zenon DEF Submits, Issued, Goes
      <4> QED BY <4>1
    <3>2. Quiet
      <4> HIDE DEF Quiet
      <4>1. /\ "setup" \in {"setup", "loaded", "free", "control"}
            /\ "loaded" \in {"setup", "loaded", "free", "control"}
            /\ "free" \in {"setup", "loaded", "free", "control"}
            /\ "control" \in {"setup", "loaded", "free", "control"}
            /\ {"ARB", "CONTROL"} \in {{"ARB", "CONTROL"}, {"DATA"}, {"CONTROL", "TXRQST"}}
            /\ {"DATA"} \in {{"ARB", "CONTROL"}, {"DATA"}, {"CONTROL", "TXRQST"}}
            /\ {"CONTROL", "TXRQST"} \in {{"ARB", "CONTROL"}, {"DATA"}, {"CONTROL", "TXRQST"}}
            /\ "loaded" \in {"loaded", "stored", "next"}
            /\ "stored" \in {"loaded", "stored", "next"}
            /\ "next" \in {"loaded", "stored", "next"}
        OBVIOUS
      <4>2. ASSUME NEW regs, Submits("setup", regs, TRUE, {"ARB", "CONTROL"}, "loaded")
            PROVE  Quiet
        BY <3>1, <4>1, <4>2, Zenon
      <4>3. ASSUME NEW regs, Submits("loaded", regs, TRUE, {"DATA"}, "stored")
            PROVE  Quiet
        BY <3>1, <4>1, <4>3, Zenon
      <4>4. ASSUME NEW regs, Submits("free", regs, TRUE, {"DATA"}, "stored")
            PROVE  Quiet
        BY <3>1, <4>1, <4>4, Zenon
      <4>5. ASSUME NEW regs, Submits("control", regs, TRUE, {"CONTROL", "TXRQST"}, "next")
            PROVE  Quiet
        BY <3>1, <4>1, <4>5, Zenon
      <4> QED BY <2>3, <4>2, <4>3, <4>4, <4>5, Zenon
    <3>3. can.initialized /\ ~Raising'
      <4>1. can.initialized
        BY <1>0, <3>2
      <4> QED BY <3>2, <4>1 DEF Raising
    <3> QED BY <1>1, <1>2, <3>2, <3>3 DEF RaiseInv
  <2> QED BY <1>4, <2>1, <2>2, <2>3, Zenon DEF SubmitMoves
<1>5. CASE OtherMoves
  <2>1. ifc'[1] = ifc[1]
    BY <1>5 DEF OtherMoves, Issued
  <2>2. \/ fg'.pc \notin {"free", "length"}
        \/ ~Writing' /\ ~ram[fg'.obj].txrqst
    BY <1>5, <2>1 DEF OtherMoves, Goes, Writing
  <2> QED BY <1>1, <1>2, <2>1, <2>2, RaiseStands
<1>6. CASE ReturnMoves
  <2>1. UNCHANGED ifc /\ fg'.pc = "idle"
    BY <1>6, IdleCallFields DEF ReturnMoves, Returns
  <2> QED BY <1>1, <1>2, <2>1, RaiseStands
<1> QED BY <1>3, <1>4, <1>5, <1>6 DEF CallMoves

\* RaiseInv is inductive.
LEMMA RaiseStep ==
  ASSUME TypesInv, TypesInv', CallInv, CallInv', RaiseInv, EventMoves
  PROVE  RaiseInv'
<1>0. /\ fg.op = "none" <=> fg.pc = "idle"
      /\ running \/ fg.op # "none" => can.initialized
      /\ fg.obj \in Mailbox /\ purpose \in [Mailbox -> Role]
  BY DEF CallInv, StepsInv, LifeInv, TypesInv, TypeOK
<1>1. CASE Resets
  <2>1. Blank.role = "NONE" /\ ~Blank.txrqst
    BY DEF Blank
  <2>2. /\ fg'.op = "none" /\ \A o \in Mailbox : ram'[o] = Blank
        /\ IF can'.initialized THEN ~ifc'[1].busy ELSE UNCHANGED ifc
    BY <1>0, <1>1 DEF Resets
  <2>3. CASE can'.initialized
    BY <2>2, <2>3 DEF RaiseInv, Raising, Writing
  <2>4. CASE ~can'.initialized
    <3>1. /\ Writing' = Writing /\ Setting' = Setting /\ Restoring' = Restoring
          /\ Raising' = Raising
      BY <2>2, <2>4 DEF Writing, Setting, Restoring, Raising
    <3>2. Writing => /\ Setting \/ Restoring \/ Raising \/ ifc[1].cmd.fields = {"DATA"}
                     /\ Setting \/ Restoring => ~ifc[1].regs.txrqst
      <4>1. ~(Setting /\ Restoring) /\ ~(Raising /\ (Setting \/ Restoring))
            /\ (ifc[1].cmd.fields = {"DATA"} => ~Setting /\ ~Restoring)
        BY DEF Setting, Restoring, Raising
      <4> QED BY <4>1 DEF RaiseInv, CallInv, WritingInv
    <3> QED BY <2>1, <2>2, <2>4, <3>1, <3>2 DEF RaiseInv
  <2> QED BY <2>3, <2>4
<1>2. CASE Handles \/ GivesUp \/ Counts \/ TakesEvent \/ Stutters
  <2>1. /\ UNCHANGED <<ram, ifc>> /\ can'.initialized = can.initialized
        /\ UNCHANGED fg \/ fg'.pc \notin {"free", "length"}
    BY <1>2, IdleCallFields DEF Handles, GivesUp, Counts, TakesEvent, Stutters, Goes
  <2> QED BY <2>1, RaiseStands
<1>3. CASE CallMoves /\ CallFrame
  BY <1>3, RaiseCall
<1>4. CASE Executes(1)
  <2>1. ~ifc'[1].busy /\ UNCHANGED <<can, fg>>
    BY <1>4 DEF Executes, PeripheralFrame
  <2>2. ~Writing' /\ ~Raising'
    BY <2>1 DEF Writing, Raising
  <2>3. ASSUME ~can.initialized, NEW o \in Mailbox, ram'[o].role # "NONE", ram'[o].txrqst
        PROVE  FALSE
    <3>1. CASE ifc[1].cmd.obj # o
      BY <1>4, <2>3, <3>1 DEF Executes, RaiseInv
    <3>2. CASE ifc[1].cmd.obj = o /\ ~ifc[1].cmd.write
      <4>1. ram'[o] = Released(ram[o], ifc[1].cmd.fields) /\ ram[o] \in Content
        BY <1>4, <3>2 DEF Executes, TypesInv, TypeOK
      <4> QED BY <2>3, <4>1, ReadFields DEF RaiseInv
    <3>3. CASE ifc[1].cmd.obj = o /\ ifc[1].cmd.write
      <4>1. /\ ram'[o].role = IF "ARB" \in ifc[1].cmd.fields THEN ifc[1].regs.role
                              ELSE ram[o].role
            /\ ram'[o].txrqst = IF "CONTROL" \in ifc[1].cmd.fields THEN ifc[1].regs.txrqst
                                ELSE ram[o].txrqst \/ "TXRQST" \in ifc[1].cmd.fields
        BY <1>4, <3>3, WriteExecuted
      <4>2. Writing
        BY <1>4, <3>3 DEF Executes, Writing
      <4> QED BY <2>3, <4>1, <4>2 DEF RaiseInv, Setting, Restoring, Raising
    <3> QED BY <3>1, <3>2, <3>3
  <2>4. ASSUME can.initialized, fg.op \in {"send", "request"}, fg.pc \in {"free", "length"}
        PROVE  ~ram'[fg.obj].txrqst
    <3>1. ~ram[fg.obj].txrqst /\ ~Writing
      BY <2>4 DEF RaiseInv
    <3>2. CASE ifc[1].cmd.obj # fg.obj
      BY <1>0, <1>4, <3>1, <3>2 DEF Executes
    <3>3. CASE ifc[1].cmd.obj = fg.obj
      <4>1. /\ ram'[fg.obj] = Released(ram[fg.obj], ifc[1].cmd.fields) /\ ram[fg.obj] \in Content
        BY <1>0, <1>4, <3>1, <3>3 DEF Executes, TypesInv, TypeOK, Writing
      <4> QED BY <3>1, <4>1, ReadFields
    <3> QED BY <3>2, <3>3
  <2> QED BY <2>1, <2>2, <2>3, <2>4 DEF RaiseInv
<1>5. CASE Executes(2)
  <2>1. ifc'[1] = ifc[1] /\ UNCHANGED <<can, fg>>
    BY <1>5 DEF Executes, PeripheralFrame
  <2>2. \A o \in Mailbox : ram'[o].role = ram[o].role /\ ram'[o].txrqst = ram[o].txrqst
    <3> SUFFICES ASSUME NEW o \in Mailbox
                 PROVE  ram'[o].role = ram[o].role /\ ram'[o].txrqst = ram[o].txrqst
      OBVIOUS
    <3>1. CASE ifc[2].cmd.obj # o
      <4>1. ram'[o] = ram[o]
        BY <1>5, <3>1 DEF Executes
      <4> QED BY <4>1
    <3>2. CASE ifc[2].cmd.obj = o
      <4>1. ram'[o] = Released(ram[o], ifc[2].cmd.fields) /\ ram[o] \in Content
        BY <1>5, <3>2 DEF Executes, CallInv, CommandsInv, TypesInv, TypeOK
      <4> QED BY <4>1, ReadFields
    <3> QED BY <3>1, <3>2
  <2>3. /\ Writing' = Writing /\ Raising' = Raising /\ Setting' = Setting
        /\ Restoring' = Restoring
    BY <2>1 DEF Writing, Raising, Setting, Restoring
  <2>4. ifc[1].cmd.obj \in Mailbox
    BY DEF TypesInv, TypeOK, Command
  <2> QED BY <1>0, <2>1, <2>2, <2>3, <2>4 DEF RaiseInv
<1>6. ASSUME NEW o \in Mailbox, Arrives(o) \/ Sends(o) PROVE RaiseInv'
  <2>1. UNCHANGED <<ifc, can, fg>> /\ can.initialized
    BY <1>0, <1>6 DEF Arrives, Sends, PeripheralFrame
  <2>2. \A m \in Mailbox : ram'[m].txrqst => ram[m].txrqst \/ ram[m].role = "REMOTE_RESPONSE"
    BY <1>6 DEF Arrives, Sends
  <2>3. Writing' = Writing /\ Raising' = Raising
    BY <2>1 DEF Writing, Raising
  <2>4. Raising => ifc[1].cmd.obj \in Mailbox /\ ram[ifc[1].cmd.obj].role # "REMOTE_RESPONSE"
    <3>1. ifc[1].cmd.obj \in Mailbox
      BY DEF TypesInv, TypeOK, Command
    <3>2. Raising => /\ Writing /\ ~Setting /\ ~Restoring /\ ifc[1].cmd.fields # {"DATA"}
      BY DEF Raising, Setting, Restoring
    <3> QED BY <2>1, <3>1, <3>2 DEF CallInv, WritingInv, Senders
  <2>5. fg.op \in {"send", "request"} => ram[fg.obj].role # "REMOTE_RESPONSE"
    BY <1>0 DEF CallInv, StepsInv, ObjectInv, RoleInv
  <2> QED BY <1>0, <2>1, <2>2, <2>3, <2>4, <2>5 DEF RaiseInv
<1>7. ASSUME NEW o \in Mailbox, Enters(o) PROVE RaiseInv'
  <2>1. UNCHANGED <<ram, ifc, can, fg>>
    BY <1>7 DEF Enters, IsrFrame
  <2> QED BY <2>1, RaiseStands
<1>8. CASE IsrMoves
  <2>1. UNCHANGED <<ram, can, fg>> /\ ifc'[1] = ifc[1]
    BY <1>8 DEF IsrMoves, IsrIssues, IsrEnds, IsrFrame, Issued
  <2> QED BY <2>1, RaiseStands
<1> QED BY <1>1, <1>2, <1>3, <1>4, <1>5, <1>6, <1>7, <1>8 DEF EventMoves

LEMMA RaisesHold == EventsSpec => []RaiseInv
<1>1. EventsInit => RaiseInv
  <2> SUFFICES ASSUME EventsInit PROVE RaiseInv
    OBVIOUS
  <2>1. ~can.initialized /\ ~ifc[1].busy /\ \A o \in Mailbox : ram[o] = Blank
    BY DEF EventsInit, Init, CleanHandle
  <2> QED BY <2>1 DEF RaiseInv, Blank, Writing
<1>2. /\ TypesInv /\ TypesInv' /\ CallInv /\ CallInv' /\ RaiseInv /\ [EventsNext]_all
      => RaiseInv'
  BY EventsMove, RaiseStep
<1> QED BY <1>1, <1>2, TypesHold, CallHolds, PTL DEF EventsSpec

\* PendingFrameStable: the frame of a sender that waits for the bus is not exchanged, by no call
\* and by no command that a call left behind, with the ISR at work.
THEOREM PendingFramesStay == EventsSpec => PendingFrameStable
<1> DEFINE Stable ==
      \A o \in Mailbox :
        /\ ram[o].role = "TX_DATA" /\ ram[o].txrqst /\ ram'[o].txrqst
        => ram'[o].dlc = ram[o].dlc /\ ram'[o].data = ram[o].data
<1>1. TypesInv /\ CallInv /\ RaiseInv /\ [EventsNext]_all => Stable
  <2> SUFFICES ASSUME TypesInv, CallInv, RaiseInv, EventMoves, NEW o \in Mailbox,
                      ram[o].role = "TX_DATA", ram[o].txrqst, ram'[o].txrqst
               PROVE  ram'[o].dlc = ram[o].dlc /\ ram'[o].data = ram[o].data
    BY EventsMove
  <2>1. can.initialized
    BY DEF RaiseInv
  <2>2. ASSUME NEW i \in 1..2, Executes(i)
        PROVE  ram'[o].dlc = ram[o].dlc /\ ram'[o].data = ram[o].data
    BY <2>1, <2>2, RequestWritten
  <2>3. CASE Resets
    BY <2>3 DEF Resets, Blank
  <2>4. ASSUME NEW m \in Mailbox, Arrives(m) \/ Sends(m)
        PROVE  ram'[o] = ram[o]
    BY <2>4 DEF Arrives, Sends
  <2>5. CASE UNCHANGED ram
    BY <2>5
  <2> QED BY <2>2, <2>3, <2>4, <2>5, RamKept
<1> QED BY <1>1, TypesHold, CallHolds, RaisesHold, PTL DEF EventsSpec, PendingFrameStable

\* NothingUnsolicited: neither configuring a responder nor exchanging its data puts a frame on
\* the bus, not even by a command that is executed late: only a remote frame does.
THEOREM ResponsesStaySolicited == EventsSpec => NothingUnsolicited
<1> DEFINE Solicited ==
      \A o \in Mailbox :
        ~Asked(ram[o]) /\ Asked(ram'[o]) =>
          UNCHANGED ifc /\ ram'[o] = [ram[o] EXCEPT !.txrqst = TRUE]
<1>1. TypesInv /\ CallInv /\ RaiseInv /\ [EventsNext]_all => Solicited
  <2> SUFFICES ASSUME TypesInv, CallInv, RaiseInv, EventMoves, NEW o \in Mailbox,
                      ~Asked(ram[o]), Asked(ram'[o])
               PROVE  UNCHANGED ifc /\ ram'[o] = [ram[o] EXCEPT !.txrqst = TRUE]
    BY EventsMove
  <2>1. ASSUME NEW i \in 1..2, Executes(i) PROVE FALSE
    BY <2>1, RequestWritten DEF Asked, Senders
  <2>2. ASSUME Resets PROVE FALSE
    BY <2>2 DEF Resets, Blank, Asked
  <2>3. ASSUME NEW m \in Mailbox, Arrives(m) PROVE FALSE
    BY <2>3 DEF Arrives, Asked
  <2>4. ASSUME NEW m \in Mailbox, Sends(m)
        PROVE  UNCHANGED ifc /\ ram'[o] = [ram[o] EXCEPT !.txrqst = TRUE]
    <3>1. CASE m = o
      <4>1. \/ ram'[m] = [ram[m] EXCEPT !.txrqst = TRUE]
            \/ ~ram'[m].txrqst
        BY <2>4 DEF Sends
      <4>2. UNCHANGED ifc
        BY <2>4 DEF Sends
      <4> QED BY <3>1, <4>1, <4>2 DEF Asked
    <3>2. CASE m # o
      <4>1. ram'[o] = ram[o]
        BY <2>4, <3>2, Zenon DEF Sends
      <4> QED BY <4>1
    <3> QED BY <3>1, <3>2
  <2>5. ram' # ram
    OBVIOUS
  <2>6. ~Executes(1) /\ ~Executes(2)
    BY <2>1
  <2>7. \E m \in Mailbox : Sends(m)
    BY <2>2, <2>3, <2>5, <2>6, RamKept, Zenon
  <2> QED BY <2>4, <2>7, Zenon
<1> QED BY <1>1, TypesHold, CallHolds, RaisesHold, PTL DEF EventsSpec, NothingUnsolicited
==============================================================================
