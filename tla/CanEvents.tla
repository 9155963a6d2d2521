------------------------------ MODULE CanEvents ------------------------------
(***************************************************************************)
(* Interrupt-mode CAN (hal_can.c, hal_can_hw.c): the message objects of    *)
(* CanMailbox, the validated configuration of CanConfig, the two event     *)
(* queues and the interrupt service routine that fills them, from          *)
(* HAL_CAN_init to the events the foreground takes.                        *)
(*                                                                         *)
(* The target has one core: the ISR preempts the foreground between any    *)
(* two steps and runs to its end, while the peripheral keeps working.      *)
(* Line 0 and line 1 do not nest (docs/can.md:18).  A queue operation is   *)
(* one step, which HalQueue justifies.  The ISR is host code and modelled  *)
(* from the contract of hal_can_hw.h and the counters of hal_can.h.        *)
(***************************************************************************)
EXTENDS CanMailbox, CanConfig, Sequences

CONSTANTS
  Configs,           \* controller configurations the application may pass
  InterruptConfigs,  \* interrupt configurations it may pass
  MaxExpiries        \* bound: waits that expire on each interface

ASSUME EventsAssumption ==
  /\ \A config \in Configs : IsConfig(config)
  /\ InterruptConfigs \subseteq
       [rxEventStorage : BOOLEAN, rxEventCapacity : Nat, txCompleteEventStorage : BOOLEAN,
        txCompleteEventCapacity : Nat, diagnostics : BOOLEAN]
  /\ MaxExpiries \in Nat

VARIABLES
  can,          \* what decisions read of HAL_CAN_Obj, and the interrupt mux
  timing,       \* bit timing register, and the configuration init accepted last
  rxEventQueue, txCompleteEventQueue,
  isr,          \* the interrupt service routine in progress
  sampled,      \* the timeout count the foreground is about to increment
  origin,       \* history: the object each received frame was stored in
  settled,      \* history: frames delivered, refused or given up by the caller
  unreported,   \* history: objects with a completion the ISR has not accounted for
  disturbed,    \* history: objects a cancel wrote back to, or that a configuration
                \* given up may leave receiving on the line of completions
  completions,  \* history: transmissions of interrupt-enabled objects
  expiries      \* history: expired waits per interface

events == <<can, timing, rxEventQueue, txCompleteEventQueue, isr, sampled, origin,
            settled, unreported, disturbed, completions, expiries>>
all == <<vars, events>>
queues == <<rxEventQueue, txCompleteEventQueue>>
ghosts == <<origin, settled, unreported, disturbed, completions>>

\* configured, enabled: flagInterruptsConfigured, flagInterruptsEnabled; diagnostic:
\* an ERROR or STATUS interrupt is configured; a queue of capacity 0 is not READY;
\* line1: objects the interrupt mux routes to line 1.
CleanHandle ==
  [initialized |-> FALSE, configured |-> FALSE, enabled |-> FALSE, diagnostic |-> FALSE,
   rxCapacity |-> 0, txCapacity |-> 0, line1 |-> {}]

IdleIsr == [pc |-> "idle", obj |-> 1, arg |-> Blank]

EventsInit ==
  /\ Init
  /\ can = CleanHandle
  /\ timing = [register |-> [brp |-> 0, brpe |-> 0, tseg1 |-> 1, tseg2 |-> 0, sjw |-> 0],
               accepted |-> CHOOSE config \in Configs : TRUE]
  /\ rxEventQueue = <<>> /\ txCompleteEventQueue = <<>>
  /\ isr = IdleIsr /\ sampled = 0
  /\ origin = <<>> /\ settled = {} /\ unreported = {} /\ disturbed = {}
  /\ completions = 0 /\ expiries = [i \in 1..2 |-> 0]

-----------------------------------------------------------------------------
(* Frames and where they are *)

Frames == DOMAIN origin
Queued == {rxEventQueue[n].data : n \in DOMAIN rxEventQueue}
Reading == isr.pc = "fetched" \/ (fg.op = "receive" /\ At("fetched"))
InHand ==
  UNION {IF Reading /\ Ready(2) /\ ifc[2].regs.newdat THEN {ifc[2].regs.data} ELSE {},
         IF isr.pc = "taken" THEN {isr.arg.data} ELSE {},
         IF fg.op = "receive" /\ At("taken") THEN {fg.arg.data} ELSE {}}

\* Frames of an object that no software holds.
Left(o) == {k \in Frames : origin[k] = o} \ (Queued \union InHand)

-----------------------------------------------------------------------------
(* The peripheral *)

\* Setting an object up anew gives up what it held.
TransferStep(i) ==
  LET setup == ifc[i].cmd.write /\ "ARB" \in ifc[i].cmd.fields
      o == ifc[i].cmd.obj
  IN /\ Transfer(i)
     /\ settled' = settled \union (IF setup THEN Left(o) ELSE {})
     /\ unreported' = unreported \ (IF setup THEN {o} ELSE {})
     /\ UNCHANGED <<can, timing, queues, isr, sampled, origin, disturbed, completions, expiries>>

ArriveStep(o, dlc) ==
  /\ Arrive(o, dlc)
  /\ origin' = Append(origin, o)
  /\ UNCHANGED <<can, timing, queues, isr, sampled, settled, unreported, disturbed,
                 completions, expiries>>

\* A frame was sent, or a remote frame asks for one.
FrameOutStep(o) ==
  /\ FrameOut(o)
  /\ IF ram[o].txrqst /\ ram[o].ie
     THEN unreported' = unreported \union {o} /\ completions' = completions + 1
     ELSE UNCHANGED <<unreported, completions>>
  /\ UNCHANGED <<can, timing, queues, isr, sampled, origin, settled, disturbed, expiries>>

PeripheralStep ==
  \/ \E i \in 1..2 : TransferStep(i)
  \/ \E o \in Mailbox : (\E dlc \in Lengths : ArriveStep(o, dlc)) \/ FrameOutStep(o)

-----------------------------------------------------------------------------
(* Controller and interrupt configuration *)

\* HAL_CAN_init: message RAM, interfaces and mux are reset.  If the bounded wait for
\* the message RAM expires, the reset of the registers is not reached.
InitController(config, timeout) ==
  /\ Idle
  /\ AcceptsConfig(config)
  /\ ~running /\ ~can.enabled
  /\ canDiagnostics' = [c \in Counter |-> 0]
  /\ rxEventQueue' = <<>> /\ txCompleteEventQueue' = <<>>
  /\ purpose' = [o \in Mailbox |-> "NONE"] /\ cancelled' = {} /\ unrequested' = {}
  /\ settled' = Frames /\ unreported' = {} /\ disturbed' = {}
  /\ completions' = 0 /\ expiries' = [i \in 1..2 |-> 0]
  /\ ram' = [o \in Mailbox |-> Blank]
  /\ IF timeout
     THEN /\ can' = [CleanHandle EXCEPT !.line1 = can.line1]
          /\ UNCHANGED <<timing, ifc, calls>>
     ELSE /\ calls < MaxCalls /\ calls' = calls + 1
          /\ can' = [CleanHandle EXCEPT !.initialized = TRUE]
          /\ ifc' = [i \in 1..2 |-> [busy |-> FALSE, regs |-> Blank, cmd |-> NoCommand]]
          /\ timing' = [register |-> TimingRegister(config.bitTiming), accepted |-> config]
  /\ UNCHANGED <<running, fg, frame, bus, isr, sampled, origin>>

\* HAL_CAN_start, HAL_CAN_stop.
StartStopController ==
  /\ can.initialized
  /\ StartStop
  /\ UNCHANGED events

\* HAL_CAN_configureInterrupts: the events of the previous configuration are
\* abandoned, message objects that raise interrupts are left as they are.
ConfigureInterrupts(config) ==
  /\ Idle
  /\ can.initialized /\ ~running /\ ~can.enabled
  /\ AcceptsInterruptConfig(config)
  /\ can' = [can EXCEPT !.configured = TRUE, !.diagnostic = config.diagnostics,
                        !.rxCapacity = config.rxEventCapacity,
                        !.txCapacity = config.txCompleteEventCapacity]
  /\ rxEventQueue' = <<>> /\ txCompleteEventQueue' = <<>>
  /\ settled' = settled \union Queued
  /\ UNCHANGED <<vars, timing, isr, sampled, origin, unreported, disturbed,
                 completions, expiries>>

\* HAL_CAN_enableInterrupts.
EnableInterrupts ==
  /\ Idle
  /\ can.initialized /\ ~running /\ can.configured /\ ~can.enabled
  /\ can' = [can EXCEPT !.enabled = TRUE]
  /\ UNCHANGED <<vars, timing, queues, isr, sampled, ghosts, expiries>>

\* HAL_CAN_disableInterrupts; queued events stay.
DisableInterrupts ==
  /\ Idle
  /\ can.configured
  /\ can' = [can EXCEPT !.enabled = FALSE]
  /\ UNCHANGED <<vars, timing, queues, isr, sampled, ghosts, expiries>>

-----------------------------------------------------------------------------
(* Message-object calls *)

\* An object may ask for interrupts only if its events have a queue.
ConfigureObject(o, ie) ==
  /\ can.initialized /\ ~can.enabled
  /\ \/ (ie => can.rxCapacity > 0) /\ ConfigureRx(o, ie)
     \/ (ie => can.txCapacity > 0) /\ ConfigureSender(o, ie)
  /\ UNCHANGED events

\* HAL_CAN_setMailboxInterruptLine, once the object is loaded.
Routed ==
  IF ~fg.arg.ie THEN can
  ELSE [can EXCEPT !.line1 = IF fg.arg.role = "RX_DATA" THEN @ \ {fg.obj}
                             ELSE @ \union {fg.obj}]

FinishObject ==
  /\ PreloadObject \/ ConfigureReturns
  /\ can' = Routed
  /\ UNCHANGED <<timing, queues, isr, sampled, ghosts, expiries>>

\* Mutant: polling stays possible while the ISR owns interface 2.
MayPollAlways == TRUE

MayPoll == ~can.enabled

Receive(o) ==
  /\ MayPoll
  /\ ReceiveCall(o)
  /\ UNCHANGED events

CancelCalls ==
  /\ can.initialized
  /\ CancelAll \/ \E o \in Mailbox : AbortTx(o)
  /\ UNCHANGED events

WriteBack ==
  /\ WriteControl
  /\ disturbed' = disturbed \union {fg.obj}
  /\ UNCHANGED <<can, timing, queues, isr, sampled, origin, settled, unreported,
                 completions, expiries>>

\* receive() hands a frame to the caller, or refuses it.
EndReceive ==
  /\ Deliver \/ LengthRefused
  /\ settled' = settled \union {fg.arg.data}
  /\ UNCHANGED <<can, timing, queues, isr, sampled, origin, unreported, disturbed,
                 completions, expiries>>

\* The remaining steps of the calls in progress.
MailboxStep ==
  /\ \/ SetupObject \/ ReadObject \/ NothingNew \/ TakeObject
     \/ Transmitting
     \/ ReadControl \/ CancelNext \/ CancelReturns
  /\ UNCHANGED events

-----------------------------------------------------------------------------
(* A wait of the foreground expires: the counter is read, incremented, stored *)

\* The object was routed for sending, and will receive once the command is executed.
Misrouted ==
  {o \in can.line1 \intersect {fg.obj} :
     At("loaded") /\ fg.arg.role = "RX_DATA" /\ fg.arg.ie}

WaitGivesUp ==
  /\ ~Idle /\ ~At("expired") /\ ifc[Interface].busy
  /\ expiries[Interface] < MaxExpiries
  /\ fg' = [fg EXCEPT !.pc = "expired"]
  /\ sampled' = canDiagnostics.transactionTimeoutCount
  /\ expiries' = [expiries EXCEPT ![Interface] = @ + 1]
  /\ disturbed' = disturbed \union Misrouted
  /\ UNCHANGED <<callerView, ram, ifc, canDiagnostics, bus, can, timing, queues, isr,
                 origin, settled, unreported, completions>>

\* Mutant: the sampled count is stored unchanged.
StoredUnchanged(n) == n

Incremented(n) == n + 1

CountTimeout ==
  /\ At("expired")
  /\ canDiagnostics' = [canDiagnostics EXCEPT !.transactionTimeoutCount = Incremented(sampled)]
  /\ fg' = IdleCall
  /\ sampled' = 0
  /\ UNCHANGED <<callerView, ram, ifc, bus, can, timing, queues, isr, ghosts, expiries>>

-----------------------------------------------------------------------------
(* Events taken by the foreground *)

\* HAL_CAN_getRxEvent.
GetRxEvent ==
  /\ Idle /\ can.configured
  /\ rxEventQueue # <<>>
  /\ LET event == Head(rxEventQueue)
     IN /\ frame' = [frame EXCEPT ![event.mailboxObjIndex] = event.data]
        /\ settled' = settled \union {event.data}
  /\ rxEventQueue' = Tail(rxEventQueue)
  /\ UNCHANGED <<running, ram, ifc, fg, canDiagnostics, purpose, cancelled, unrequested,
                 bus, calls, can, timing, txCompleteEventQueue, isr, sampled, origin,
                 unreported, disturbed, completions, expiries>>

\* HAL_CAN_getTxCompleteEvent.
GetTxCompleteEvent ==
  /\ Idle /\ can.configured
  /\ txCompleteEventQueue # <<>>
  /\ txCompleteEventQueue' = Tail(txCompleteEventQueue)
  /\ UNCHANGED <<vars, can, timing, rxEventQueue, isr, sampled, ghosts, expiries>>

ForegroundStep ==
  /\ isr.pc = "idle"
  /\ \/ \E config \in Configs, timeout \in BOOLEAN : InitController(config, timeout)
     \/ StartStopController
     \/ \E config \in InterruptConfigs : ConfigureInterrupts(config)
     \/ EnableInterrupts \/ DisableInterrupts
     \/ \E o \in Mailbox : Receive(o) \/ \E ie \in BOOLEAN : ConfigureObject(o, ie)
     \/ FinishObject \/ CancelCalls \/ WriteBack \/ EndReceive \/ MailboxStep
     \/ WaitGivesUp \/ CountTimeout
     \/ GetRxEvent \/ GetTxCompleteEvent

-----------------------------------------------------------------------------
(* The interrupt service routine (external) *)

LineOpen(line) ==
  /\ can.enabled
  /\ IF line = 1 THEN can.txCapacity > 0 ELSE can.rxCapacity > 0 \/ can.diagnostic

LineOf(o) == IF o \in can.line1 THEN 1 ELSE 0

Asserted(o) == ram[o].intpnd /\ LineOpen(LineOf(o))

\* Line 0 carries received frames, line 1 completed transmissions.
IsrEnter(o) ==
  /\ isr.pc = "idle" /\ Asserted(o)
  /\ isr' = [isr EXCEPT !.pc = IF LineOf(o) = 0 THEN "snapshot" ELSE "clear", !.obj = o]
  /\ UNCHANGED <<vars, can, timing, queues, sampled, ghosts, expiries>>

IsrIssue(from, fields, to) ==
  /\ isr.pc = from /\ Ready(2)
  /\ Issue(2, isr.obj, ifc[2].regs, FALSE, fields)
  /\ isr' = [isr EXCEPT !.pc = to]
  /\ UNCHANGED <<callerView, ram, fg, canDiagnostics, bus,
                 can, timing, queues, sampled, ghosts, expiries>>

\* HAL_CAN_hwReadMessageObject.
IsrSnapshot == IsrIssue("snapshot", SnapshotFields, "fetched")

\* EMPTY.
IsrNothingNew ==
  /\ isr.pc = "fetched" /\ Ready(2)
  /\ ~ifc[2].regs.newdat
  /\ isr' = IdleIsr
  /\ UNCHANGED <<vars, can, timing, queues, sampled, ghosts, expiries>>

IsrTake ==
  /\ isr.pc = "fetched" /\ Ready(2)
  /\ ifc[2].regs.newdat
  /\ Issue(2, isr.obj, ifc[2].regs, FALSE, AcknowledgeFields)
  /\ isr' = [isr EXCEPT !.pc = "taken", !.arg = ifc[2].regs]
  /\ UNCHANGED <<callerView, ram, fg, canDiagnostics, bus,
                 can, timing, queues, sampled, ghosts, expiries>>

\* HARDWARE_ERROR.
IsrLengthRefused ==
  /\ isr.pc = "taken" /\ Ready(2)
  /\ isr.arg.dlc > 8
  /\ isr' = IdleIsr
  /\ settled' = settled \union {isr.arg.data}
  /\ UNCHANGED <<vars, can, timing, queues, sampled, origin, unreported, disturbed,
                 completions, expiries>>

\* The counter of an event for a queue of this capacity and length: queued events
\* count as done, a full queue drops the newest, without a queue it is unexpected.
CountEvent(d, capacity, length, done, dropped) ==
  IF capacity = 0 THEN [d EXCEPT !.unexpectedInterruptCount = @ + 1]
  ELSE IF length < capacity THEN [d EXCEPT ![done] = @ + 1]
  ELSE [d EXCEPT ![done] = @ + 1, ![dropped] = @ + 1]

\* Mutant: the queue is not asked whether it is full.
PushedAlways(queue, capacity, event) == Append(queue, event)

Pushed(queue, capacity, event) ==
  IF Len(queue) < capacity THEN Append(queue, event) ELSE queue

IsrQueueFrame ==
  /\ isr.pc = "taken" /\ Ready(2)
  /\ isr.arg.dlc <= 8
  /\ rxEventQueue' = Pushed(rxEventQueue, can.rxCapacity,
                            [mailboxObjIndex |-> isr.obj, data |-> isr.arg.data])
  /\ canDiagnostics' =
       CountEvent([canDiagnostics EXCEPT !.rxOverflowCount = IF isr.arg.msglst THEN @ + 1 ELSE @],
                  can.rxCapacity, Len(rxEventQueue), "rxFrameCount", "rxQueueOverflowCount")
  /\ isr' = IdleIsr
  /\ UNCHANGED <<callerView, ram, ifc, fg, bus, can, timing, txCompleteEventQueue,
                 sampled, ghosts, expiries>>

\* HAL_CAN_hwClearMessageInterrupt.
IsrClear == IsrIssue("clear", {"CLRINTPND"}, "cleared")

\* A completion that came after the flag was cleared has set it again.
IsrReportCompletion ==
  /\ isr.pc = "cleared" /\ Ready(2)
  /\ txCompleteEventQueue' = Pushed(txCompleteEventQueue, can.txCapacity, isr.obj)
  /\ canDiagnostics' =
       CountEvent(canDiagnostics, can.txCapacity, Len(txCompleteEventQueue),
                  "txCompleteCount", "txEventOverflowCount")
  /\ unreported' = unreported \ (IF ram[isr.obj].intpnd THEN {} ELSE {isr.obj})
  /\ isr' = IdleIsr
  /\ UNCHANGED <<callerView, ram, ifc, fg, bus, can, timing, rxEventQueue, sampled,
                 origin, settled, disturbed, completions, expiries>>

\* TIMEOUT, from any wait of the two transactions.
IsrExpires ==
  /\ isr.pc # "idle" /\ ifc[2].busy
  /\ expiries[2] < MaxExpiries
  /\ canDiagnostics' = TimedOut(canDiagnostics)
  /\ expiries' = [expiries EXCEPT ![2] = @ + 1]
  /\ isr' = IdleIsr
  /\ UNCHANGED <<callerView, ram, ifc, fg, bus, can, timing, queues, sampled, ghosts>>

IsrStep ==
  \/ IsrSnapshot \/ IsrNothingNew \/ IsrTake \/ IsrLengthRefused \/ IsrQueueFrame
  \/ IsrClear \/ IsrReportCompletion

EventsNext ==
  \/ ForegroundStep \/ PeripheralStep
  \/ \E o \in Mailbox : IsrEnter(o)
  \/ IsrStep \/ IsrExpires

EventsSpec == EventsInit /\ [][EventsNext]_all

\* The processor delivers interrupts and executes the ISR, the peripheral the commands.
FairEventsSpec ==
  /\ EventsSpec
  /\ WF_all(\E o \in Mailbox : IsrEnter(o)) /\ WF_all(IsrStep)
  /\ WF_all(TransferStep(2))

-----------------------------------------------------------------------------
(* Properties *)

\* Types; the ISR works only while interrupts are enabled.
EventsTypeOK ==
  /\ TypeOK
  /\ can \in [initialized : BOOLEAN, configured : BOOLEAN, enabled : BOOLEAN,
              diagnostic : BOOLEAN, rxCapacity : Nat, txCapacity : Nat,
              line1 : SUBSET Mailbox]
  /\ can.initialized => timing.accepted \in Configs
  /\ rxEventQueue \in Seq([mailboxObjIndex : Mailbox, data : Data])
  /\ txCompleteEventQueue \in Seq(Mailbox)
  /\ Len(rxEventQueue) <= can.rxCapacity /\ Len(txCompleteEventQueue) <= can.txCapacity
  /\ isr.pc \in {"idle", "snapshot", "fetched", "taken", "clear", "cleared"}
  /\ isr.pc # "idle" => can.enabled
  /\ isr.obj \in Mailbox /\ isr.arg \in Content

\* An initialised controller runs the bit timing of the configuration init()
\* accepted, and its bit rate is neither zero nor one hertz above the limit.
TimingRepresentsConfig ==
  can.initialized =>
    LET t == timing.accepted.bitTiming
    IN /\ Represents(timing.register, t)
       /\ BitRateDivisor(t) <= timing.accepted.sourceClockHz
       /\ timing.accepted.sourceClockHz < 1000001 * BitRateDivisor(t)

\* No event is forgotten: outside the ISR, an unread frame of an interrupt-enabled
\* object and a completion nobody reported still have their interrupt pending.
\* Excepted are an expired wait on interface 2, a receive() under way, objects whose
\* configuration did not return OK, and those in disturbed.
NothingForgotten ==
  (isr.pc = "idle" /\ expiries[2] = 0 /\ can.initialized /\ fg.op # "receive") =>
    \A o \in {m \in Mailbox : purpose[m] # "NONE"} \ disturbed :
      /\ (ram[o].role = "RX_DATA" /\ ram[o].ie /\ ram[o].newdat) => ram[o].intpnd
      /\ o \in unreported => ram[o].intpnd

\* hal_can.h:111: an event stands for a transmit request that completed.  While no
\* object is disturbed, there are no more events than completions, although late
\* commands and expired waits of the ISR repeat its work.
NoInventedCompletion ==
  disturbed = {} => canDiagnostics.txCompleteCount <= completions

\* A received frame the software does not hold was settled with the caller, or
\* something shows that frames were lost: a counter, or MSGLST in an object.
LossIsVisible ==
  LET d == canDiagnostics
      seen == \/ \E o \in Mailbox : ram[o].msglst
              \/ d.rxOverflowCount + d.rxQueueOverflowCount + d.unexpectedInterruptCount > 0
              \/ d.transactionTimeoutCount > 0 \/ At("expired")
  IN \A k \in Frames \ (settled \union Queued \union InHand) :
       seen \/ (ram[origin[k]].newdat /\ ram[origin[k]].data = k)

\* A frame reaches the caller once, by an event or by polling: a queued one was
\* neither polled nor given up.
EventsOnce == Queued \intersect settled = {}

\* transactionTimeoutCount is incremented by foreground and ISR without a lock and may
\* lose increments, but it says whether a wait ever expired, and never too many.
TimeoutsVisible ==
  LET n == canDiagnostics.transactionTimeoutCount
      expired == expiries[1] + expiries[2]
  IN ~At("expired") => (n = 0 <=> expired = 0) /\ n <= expired

\* An interrupt that an open line asserts is taken back by the ISR, unless the
\* line closes.
InterruptsAreServed ==
  \A o \in Mailbox : Asserted(o) ~> ~Asserted(o)
==============================================================================
