# A verification development for Haawking_DSC_HAL

TLA+ models of the firmware library in `src/`, checked with TLC and, where a
result should hold for every size, proved with TLAPS. Every definition was
written from the C source; the headers, tests and documents are quoted only
where they claim something the code can be compared with.

## 1. The system

The library runs on one core. Its callers are one foreground context and the
interrupt service routines of the host application, which preempt the foreground
between any two of its instructions and run to completion. There is no heap, no
lock and no operating system, so almost everything that can go wrong is an
ordering: what an ISR sees in the middle of a foreground call, and what the
foreground still believes after an ISR ran.

| component | source | state | operations | who calls it |
|---|---|---|---|---|
| software queue | `common/hal_queue.c` | read and write index, read and write sequence, storage | init, clear, push, pop, peek, count, free, isEmpty, isFull | one producer and one consumer, one of them usually an ISR |
| CAN lifecycle, interrupts, diagnostics | `hal_can.c` | controller state, ready queues, configured and armed diagnostic sources, event latch, diagnostics structure; the control, status and interrupt registers | init, start, stop, process, configure/enable/disable interrupts, capture, rearm and mask diagnostics, take an event, take a snapshot | foreground; capture, mask and event publication also from the line 0 ISR |
| CAN mailboxes | `hal_can_hw.c`, `hal_can.c` | 32 message objects behind the interface register sets IF1 (foreground) and IF2 (ISR or polling) | configure (receive, transmit, remote request, remote response), send, request, update, receive, abort, cancel | both |
| CAN configuration | `hal_can.c` (validate functions) | none | checks and encodings | foreground |
| CPU timer | `hal_cputimer.c` | handle state; down-counter, prescaler, overflow flag, interrupt enable | init, start, resume, stop, reload, interrupt gate, count, overflow flag | platform |
| reference platform | `platform.c` | two timer handles, one interrupt vector | init, timestamp, acknowledge | application start-up, timebase ISR |

Interactions. The CAN ISRs push into software queues, the foreground pops from
them. The foreground arms the diagnostic sources; the line 0 ISR captures the
status, and on a fault disarms the sources and latches one event; the foreground
takes the event and rearms. `getDiagnostics()` closes the interrupt lines while
it copies. The platform owns two timer handles; the application's ISR calls back
into the platform to acknowledge.

What makes each of them correct, in a sentence:

- queue: it is a bounded FIFO whatever the interleaving, although neither side locks;
- diagnostics: every cause is served, no event is lost or invented, no gate is
  left open or shut, a snapshot is one value, a failed init leaves nothing behind;
- mailboxes: a submitted frame is sent once, a received frame is delivered once
  or counted as lost, and a timeout leaves the object in a state the caller can name;
- configuration: what is accepted fits the registers that encode it;
- timer: a period is exact, and the tracked state is the counter's;
- platform: services start together or not at all, one tick is counted per period,
  timestamps can be subtracted.

## 2. Modules

| module | role |
|---|---|
| `BoundedFifo` | what a queue promises: a sequence and the status of each context's call |
| `HalQueue` | the queue, one action per step the other context can observe |
| `CanController` | lifecycle, interrupt configuration and diagnostic hand-over |
| `CanConfig` | what the validate functions accept and how it is encoded: operators, no state |
| `CanMailbox` | message objects and the bounded transactions on them, polled operation |
| `CanEvents` | the calls of `CanMailbox` and the checks of `CanConfig`, composed with the two event queues and the ISR |
| `CpuTimer` | one timer handle and its counter |
| `PlatformTime` | the platform; two instances of `CpuTimer`, one clock, the timebase ISR |
| `MCHalQueue`, `MCCanController`, `MCCanMailbox`, `MCCanEvents`, `MCCpuTimer`, `MCPlatformTime` | TLC instances |
| `HalQueueRefinement` | theorem: `HalQueue` implements `BoundedFifo` |
| `HalQueueProofs`, `CanControllerProofs`, `CanConfigProofs`, `CanMailboxProofs`, `CanEventsProofs`, `CpuTimerProofs`, `PlatformTimeProofs` | theorems about the module of the same name |

### HalQueue

`state`, `capacity`, the two indices and the two sequences are the object,
`storage` the caller's array, an element being a function from its storage units
(whatever the copy moves at once) to contents. `pPc`, `pOp`, `pElem`, `pDone` and
`pStatus` are the producer's call in progress, `cPc` ... `cStatus` the consumer's;
`pRoom` and `cReady` remember what the last query promised. `push` is: validate
(indices, then counts), compare the occupancy with the capacity, copy unit by unit,
advance the index, publish the sequence. `pop` and `peek` mirror it. Sequences are
modulo `SeqMod`, the width of `size_t`. `init` and `clear` only run when both
contexts are idle, the contract of `hal_queue.h`.

The abstract queue is `BoundedFifo`; the mapping (`Fifo` in `HalQueue`) takes the
elements between the read and the write sequence, in order, and the status a call
has already settled. `ImplementsFifo` is that refinement.

### CanController

`can` is the handle's control part: `armed` are the sources whose
`flag...InterruptEnabled` is set, `diagnostics` those configured. `hw` holds what
decisions read of the peripheral: initialisation mode, error confinement, last
error code, pending causes, enabled sources and lines. `fg` is the call in
progress. Calls whose order the ISR can observe (`start`, `process`, `stop`,
rearm, mask, take event, snapshot) are split at every register access and every
assignment to a field the ISR shares; calls the contract allows only with the
CAN interrupts closed are one step with `~pie` as a guard (`init`,
`configureInterrupts`, `disableInterrupts`), and so are those during which the
stopped controller raises no cause (`enableInterrupts`, `setAutoRetransmission`).

Outside the repository, and modelled from how the code uses it: the peripheral
(reading the status register acknowledges causes and resets the error code; every
confinement change raises ERROR; every frame end raises STATUS; bus-off returns to
initialisation mode), the gate of the platform (`pie`), and the ISR, which
captures and on a fault masks and publishes, as `hal_can.h` asks of it. One
DriverLib call is one register update. The three entry counters are updated in
one step: the ISR sees them before or after all three, and no property separates them.
The other stores of a capture are steps of their own.

Left out because no modelled decision reads them: REC and TEC, the test mode, frame
and timeout counters, the message RAM. Bit timing is in `CanConfig` and `CanEvents`.

`awaiting` and `crossings` are history variables: a fault was published and not
yet handled; how often the controller entered the warning range.

### CanMailbox

`ram` are the message objects, `ifc` the two interface register sets with the
command each executes, `fg` the foreground's call. Every call is the chain of
`hal_can_hw.c`: wait, fill the registers, write the command, wait. One action is one
wait that succeeded with the register writes up to the next command. `Transfer`
is the peripheral executing a command, at any later moment; `WaitExpires` is a wait
that gives up, the call then counts the timeout and returns with its command still
under way. The BUSY test (`TxRequests`) reads the message objects, not the
registers. `receive()` uses interface 2, everything else interface 1.

External, as the code uses it: in the write direction TXRQST raises the request, or,
together with CONTROL, takes it from the control word (the cancel relies on this);
in the read direction it clears NEWDAT (`hal_can_hw.c:317`); a frame that arrives on
unread data sets MSGLST, which stays until the control word is written.

The caller keeps its contract: it uses an object for the role it configured
successfully (`purpose`; the HAL does not record it), and `Allocation` says which
roles a platform gives to which object. Refused calls change nothing and are not
actions. Identifiers, filters and the order in which objects match are left out: an
arrival names its object. The one data operation modelled is the length: 0 moves no
data, and a received length above 8 is refused.

A remote-request object has the receive direction too. `hal_can.c:518-521` therefore asks
for a receive object of the same identifier with a lower number, which then takes the
response; `Arrive` stores in receive objects only and takes that for granted. Without one
the response would be stored in the request object, which no call reads; it raises no
interrupt there (TXIE only, `hal_can_hw.c:182-202`).

An object carries its interrupt enable (`ie`) and its pending flag (`intpnd`). `Spec`
is polled operation, where no object may ask for interrupts, so these stay inert
there; `CanEvents` uses the same calls with them.

`submitted`, `overruns`, `cancelled`, `unrequested` are history: requests the
peripheral took over, frames it overwrote, and objects a cancel declared free of
requests since their last call.

### CanConfig

One operator per validate function (`AcceptsConfig`, `AcceptsTiming`, `AcceptsRate`,
`AcceptsRx`, `AcceptsTx`, `AcceptsRemoteRequest`, `AcceptsRemoteResponse`,
`AcceptsInterruptConfig`) and one per encoding (`TimingRegister`, `IdentifierField`,
`DataWord`) or decoding (`ReceivedIdentifier`, `ReceivedByte`). `BitTiming`, `IsConfig`
and `UInt16` give the inputs the widths of their C types. `Represents` is the reference
definition: what the peripheral makes of a bit timing register is what the
configuration asked for.

### CanEvents

Interrupt-mode operation, from `HAL_CAN_init` to the events the foreground takes.
`can` is what the decisions read of the handle and the routing of objects to the two
lines, `timing` the bit timing register with the configuration it came from,
`rxEventQueue` and `txCompleteEventQueue` the event queues, `isr` the interrupt service
routine in progress. The foreground steps are those of `CanMailbox`, guarded as the HAL
guards them while interrupts are enabled (no configuration, no polled `receive`).

One core: while `isr` is not idle no foreground step is taken, but the peripheral goes on
executing commands, receiving and sending. The two lines do not nest
(`docs/can.md:18`). A queue operation is one step; that this is justified is what the
refinement of `BoundedFifo` says. The increment of `transactionTimeoutCount` in the
foreground is split into its read and its write (`WaitGivesUp`, `CountTimeout`), since an
ISR in between increments it too. The ISR is the host's and external: it follows the
contract in `hal_can_hw.h`, reads the object and clears NEWDAT in line 0, clears INTPND
in line 1, pushes the event, and counts as `hal_can.h` names the counters.

`origin`, `settled`, `unreported`, `disturbed`, `completions` and `expiries` are history:
the object each received frame was stored in; the frames handed to the caller, refused
or given up by a new setup; completions the ISR has not accounted for; objects whose
control word a cancel wrote back, or that a configuration turned from sending to receiving
and gave up before it routed them; transmissions of interrupt-enabled objects; expired
waits.

`NothingForgotten` excepts four situations the code allows: an expired wait on interface
2 (the snapshot may be executed late, clearing INTPND with nobody to take the frame), a
polled `receive()` under way, an object whose configuration did not return OK (it is
live but not routed), and an object in `disturbed`: a cancel writes a stale INTPND back,
and a receive object left on line 1 has its interrupt cleared as a completion. The last
is also why `NoInventedCompletion` is stated for `disturbed = {}`. Both ways into
`disturbed` are the code's (`HAL_CAN_hwCancelTransmitRequests`; the configure calls change
the line only after `HAL_CAN_hwSetupMessageObject` returned OK). The second needs an object
that is used for both directions, and only there can `disturbed` hold an object that
receives (`EventsComeOnce` rests on that).

### CpuTimer and PlatformTime

`reg` is the timer: a prescaler divides the clock, the counter goes from the
period register to zero and reloads on the next decrement, setting the overflow
flag. `timer.next` is the state assignment that ends `start`, `resume` and
`stop`, after the counter was switched. `past` remembers the accepted
configuration and the clocks since the last reload. The boot state is any: counting
or not, overflow latched or not.

`PlatformTime` splits `PLATFORM_init()` at each HAL call, keeps its failure and
rollback branches (the latter as one step, since they are unreachable), leaves out its
`CPUTimer_selectClockSource`, which writes the same constants at every init, and lets the application change the configurations between two
calls of it (they are global variables). The ISR follows the handler in the
comment at the end of `platform.c`. The interrupt request is a level: overflow flag,
timer interrupt and vector enabled; the group stays blocked from the entry of the
ISR to the acknowledgement.

## 3. Runs

| run | cfg | result |
|---|---|---|
| `queue` | `MCHalQueue` | capacity 1 to 3 in storage for 4, two units per element, 3-bit sequences: refinement, ring, slots, validation and queries hold (3.8 million states) |
| `queue_returns` | `MCHalQueueReturns` | each context finishes alone |
| `can_diagnostics` | `MCCanController` | the eight invariants of the diagnostic hand-over (8.1 million states) |
| `can_cause_served` | `MCCanControllerServed` | a served cause, under fairness |
| `can_start_entries`, `can_rearm_event` | `MCCanControllerEntries`, `...Empty` | refuted: see the findings |
| `can_mailbox` | `MCCanMailbox` | two objects, four calls: accounting of requests, stability of a pending frame, undisturbed interfaces, delivery at most once, no unsolicited response, cancelled requests stay cancelled (6.6 million states) |
| `can_abort_ok`, `can_overflow_count` | `MCCanMailboxAbort`, `...Overflow` | refuted: see the findings |
| `can_events` | `MCCanEvents` | one receiving and one transmitting object, both event queues, ISR: bit timing, pending interrupts, completions, visible losses, single delivery, visible timeouts, every interrupt served (1.2 million states) |
| `cputimer` | `MCCpuTimer` | every configuration of a 4-value counter and a 3-value prescaler (970 states) |
| `platform_time` | `MCPlatformTime` | repeated init, ISR and clock; every request is served (98 thousand states) |

Bounds. The queue's behaviour depends on the sequences modulo their width and on
the indices modulo the capacity: with 3-bit sequences and capacities 1, 2 and 3
both wrap, capacity 3 does not divide the width, 4 is refused because its size in
units does not fit, and each combination of indices and sequences is reached; no
counter is bounded. Two units suffice for a torn element. Element values are
symmetric: the code never inspects them. In the CAN model only the peripheral's
status changes are bounded (`MaxChanges`): three are enough for a fault, its recovery and a
second fault inside one foreground call, and calls are unbounded. One protocol error
suffices because the code only compares with "none". In the liveness run one change
is enough to assert a cause, and the foreground can take snapshots for ever. The
mailboxes' counters make calls and arrivals bounded: four calls configure an object,
leave a command behind in a second call, and let two more meet it; responders get
pending without a call, so that a cancel with two pending objects is reached in
three; two arrivals overwrite one frame, and the second violation run uses three. In
`can_events` a successful init counts as a call (`MaxCalls` 4), two frames arrive, one
wait expires on each interface, the lengths are 0 and 9 (refused), the queues hold one
event each; the interrupt configurations are both queues, diagnostics only, and two that
are refused; the controller configurations are the longest bit with the first prescaler
that needs the extension (65), a segment one quantum too long, a rate one hertz above the
limit, and a rate of zero. Its objects only receive and transmit data: a responder
completes without any call, which would leave the completions unbounded. The
timers are finite as they stand; a measurement lasts up to twice the counter
(`MaxSample`), past the point where its difference repeats.

Fairness. A context that is inside a call continues (`WF` on its steps), because
nothing in the code waits for the other one; starting a call is never fair.
`PushReturns` and `PopReturns` assume it of their own context only, the other may be
suspended for ever. An ISR is strongly fair: `getDiagnostics()`, the platform gate or the
firmware can close its gate again and again, but it preempts as soon as a gate
opens. In `can_events` weak fairness of entering the ISR, of its steps and of the
peripheral's work on interface 2 is enough, as the foreground closes a line only
together with the property's premise. That is the processor delivering interrupts and
the peripheral finishing commands; nothing is assumed of the foreground. `CHECK_DEADLOCK` is on in every run.

## 4. Proofs

`HalQueueProofs`, from `QueueAssumption` only (any storage, any finite
element size, any sequence width of at least one bit): the inductive invariant is
`TypeOK /\ RingConsistent`. `RingConsistent` says that the occupancy, as the
difference of the sequences, is at most the capacity, that it equals the distance
of the indices, and that a context past its full or empty check still has the room
or the element it saw. It is needed because `ValidationPasses` and
`SlotExclusion` alone do not say why a sequence published later cannot overtake.
The lemmas `CountIs`, `SeqNextIs`, `PublishCounts` and `ReleaseCounts` turn the
wrapping arithmetic into plain inequalities; there is one lemma per group of
actions. Proved: `TypeCorrect`, `RingCorrect`, `AlwaysValid`, `SlotsAreExclusive`,
`QueriesHold`.

`HalQueueRefinement`, from the same assumption: `RingImplementsFifo`, that the
lock-free ring implements `BoundedFifo`. Its invariant `FifoInv` adds to the one above
that a call has no result while it runs (`CallInv`), that the units a push has copied
are those of its element and reach the free slot (`PushInv`), and that those a pop has
copied are the first slot's (`PopInv`); neither is disturbed by the other context, since
the two never own one slot (`SlotsDiffer`). `PublishAppends` and `ReleaseRemoves` are the
two steps that take effect, at the publication of a sequence; `PeekedIsOldest` is the
third, at the last unit of a peek. Every other step is a stutter or a returned status.

`CpuTimerProofs`, from `CpuTimerAssumption`: the invariant adds to the types that
a call in progress has already switched the counter (`StateInv`) and that the
registers represent the configuration in force, the counter being below the
period (`PeriodInv`). `FullPeriod` and `OneRound` are the two facts of
multiplication it rests on: a reload leaves `P * D` clocks, and one count takes
one round of the prescaler. Proved: `TimerTypeCorrect`, `StateIsCounter`,
`PeriodExact`.

`CanConfigProofs`, for every input of the C types: `AcceptedTimingFits` (an accepted bit
timing fits the register and means the same there), `RepresentableIsAccepted` (no
timing that some register represents and that keeps CAN's segment rules is refused), `AcceptedRate`
(of the configurations with an accepted timing and mode, exactly those pass whose rate is
at least one hertz and exceeds the limit by less than one hertz), `AcceptedIdentifiersSurvive` (encode and decode), `PayloadRoundTrip`.

`CanMailboxProofs`, from `MailboxAssumption` and `AllocationAssumption` (any number of objects, calls and
arrivals). `TypeCorrect` and `InterfaceOwned` need only the types. The rest follows from
`MailboxInv`: which four commands can be under way on interface 1 (`CommandInv`), that
an object has the role it was configured for (`RoleInv`), what each call may assume at each
of its waits (`ConfigureInv`, `SendInv`, `UpdateInv`, `CancelInv`, `OtherInv`), and the
counters with the request that is on its way (`CountInv`). The heart is `SendInv`: the
BUSY test is made after the previous command reached the RAM, so from the test to the
command that raises the request nothing else can raise one; and `CancelInv`, that an
object a cancel dealt with stays clean unless a new call raises it. Proved: `MailboxCorrect`
(the invariant), `RequestsAreAccounted`, `CancelledStaysGone`, `PendingFramesStable`,
`ResponsesSolicited`.

`FramesDeliveredOnce` needs a second invariant, `DeliveryInv`, on top of it: a frame an
object offers is later than the one the caller has (`FreshInv`); a setup offers nothing and
a cancel, which writes NEWDAT back as it read it, never has a receive object to work on
(`SetupInv`, `RxCancelInv`), so nothing but an arrival makes a receive object offer a
frame; and the frame a call copied out is later than the caller's and, once its
acknowledgement was executed, earlier than any the object offers (`ReceiveInv`). A call
that gives up between the acknowledgement and `Deliver` loses its frame, never repeats it.

`CanEventsProofs`, from the assumptions of `CanMailbox` and `EventsAssumption`: any number
of objects, any allocation of roles, any configurations, queue capacities and bounds. All
eight properties of `can_events` that are not liveness are theorems. `TimingCorrect`
carries the conversion of `CanConfigProofs` into the state machine. The rest does not
reuse `MailboxInv`, whose premise is that interrupts stay off and that a timeout is
counted in the step that meets it. Instead:

- `EventMoves` says what a step may do to the state the invariants speak of, per object and
  with the calls sorted by what they do (open, submit a command on interface 1, go on,
  return); `EventsMove` shows that every step of `EventsNext` is one of these. Each
  invariant below is then proved from `EventMoves` and the invariants before it.
- `TypesInv`, and `TimeoutInv`: while the foreground is between its read of the counter and
  its write, both the counter and the value read are below the number of expired waits,
  so that what it writes is not too large. `EventsTyped`, `TimeoutsAreVisible`.
- `CallInv`: nothing runs without a successful init (`LifeInv`), the steps of each call
  (`StepsInv`), the commands that can be under way, those of calls that timed out
  included (`CommandsInv`, `WritingInv`), a receive object requests nothing and NEWDAT
  always stands for a frame the object received (`ObjectInv`), what a configuration or
  a cancel has loaded or read so far (`StageInv`). `WritingInv` is needed because a
  command left behind may be executed at any later point, when its object has another
  role: what it can still do is raise a request of a sender, preload a responder, set
  an unconfigured object up, or write back to a disturbed one.
- `IsrInv`: who reads through interface 2, and that a command under way there is the reader's.
- `HandInv` and `QueueInv`: the frame a reader has read or copied is not yet settled or
  queued, and once acknowledged the object offers another. Every way a frame leaves
  the object (the ISR's queue, `receive`, refusal, a new setup) is then one of a kind.
  `UndisturbedComeOnce`. Without the exception it is false where an object is used for both
  directions: an abort samples the pending request of a sender whose new setup as a receiver
  timed out and is executed only then; it reads NEWDAT of a frame just received, the ISR
  takes that frame, and the write-back offers it again. TLC reaches that with one object
  that sends and receives. `EventsComeOnce` therefore has the hypothesis
  `SeparateDirections` on `Allocation`, which the instance of `can_events` meets; under it
  `DirectionInv` shows that no object that receives is ever disturbed.
- `LineInv` and `ServedInv`: line 1 carries the configured sending objects that raise
  interrupts, and no receiving one outside a configuration, so that the ISR reads what
  receives and clears what sends; and what has lost its INTPND without being
  reported is in the hands of a reader or of the ISR. `InterruptsAreKept`.
- `OwedInv`: completions counted as events, completions under report and objects with
  INTPND set on line 1 (`Owed`, a set whose cardinality is counted) are together at most
  the completions. A late `CLRINTPND` only lowers the sum. `NoCompletionIsInvented`.
- `LossInv`: until something expires, is dropped or MSGLST is set, a frame nobody holds and
  nobody settled is the one its object offers. `LossesAreVisible`.
- `RaiseInv`: a sender found free stays free until the command that raises its request, and
  after an init that gave up at most one command is left, on objects that are all blank.
  With it three promises that the runs of `CanMailbox` check for polling stand with
  interrupts, timeouts of the ISR and reconfiguration as well: `InterfacesStayOwned`,
  `PendingFramesStay`, `ResponsesStaySolicited`; and `OneReaderAtATime` shows that a polled
  `receive()` and the ISR never share interface 2. No run of `CanEvents` spends a
  property on them.

Each of these was checked by TLC before it was proved, on the instance of `can_events` and on
allocations in which one object sends and receives; `StageInv` was strengthened later.

`CanControllerProofs`, from `ControllerAssumption`. `ControllerInv` says which call a step
belongs to (`CallInv`), what the gates are (`GateInv`), how the armed flags relate to the
open sources at each step of a rearm and of a mask (`ArmInv`), that a latched fault
keeps its sources masked (`LatchInv`), what the bus state is before `start()` stored and
after `stop()` reset it (`BusInv`), and that what a snapshot copied is still current
(`CopyInv`). Two facts carry the argument: the ISR runs only with a source open and
line 0 open, hence never inside a snapshot nor inside `process()`; and between the two
flag assignments of a rearm the open sources are the armed ones and the configured
STATUS. `FlagsFollowSources` says the same without the steps in between: flags and enable
bits agree source by source, except for the flags a rearm or a mask has still to assign,
and there a mask leaves sources closed that are flagged, a rearm sources open that are not
flagged yet. Proved: all eight invariants of `can_diagnostics` (`ControllerTypeCorrect`, `FlagsFollowSources`,
`ProcessIsAlone`, `BusStateCorrect`, `FailedInitIsClean`, `GatesCorrect`,
`SnapshotCoherent`, `LatchedFaultMasks`).

`PlatformTimeProofs`, from `PlatformAssumption` (any counter and prescaler width, any
configurations). `PlatformInv` gives both timers and both gates at each step of
`PLATFORM_init()` (`ServiceInv`), keeps the overflow flag set until the ISR clears it
(`TickInv`), and ties a running measurement to the counter (`CounterInv`, `Measuring`).
Proved: `PlatformTypeCorrect`, `ServicesTogether`, `TicksExact`, `TimestampsExact`, and
`RollbackUnreachable`: the start calls, made right after successful inits, are never
refused, so the rollback branches of `PLATFORM_init()` cannot be reached. The last is
proved only; no run spends a property on it.

Only model-checked: the liveness properties `PushReturns`, `PopReturns`, `CauseIsServed`,
`TicksAreServed` and `InterruptsAreServed`. They need fairness and `ENABLED`, which the
prover does not handle. Every other property of a passing run is a theorem.

## 5. What the code does differently from its documents

1. `hal_can.h:237`: the warning counter counts transitions. The capture in
   `start()` can be preempted by the ISR's and one transition is counted twice
   (`can_start_entries`).
2. `hal_can.h:606-607`: `EMPTY` means no fault awaits handling. A rearm erases an
   event published while it runs (`can_rearm_event`).
3. `hal_can.h:359`: an abort returns OK when no request remains. It samples the
   requests before it waits for IF1; after a send that timed out it finds none, and the
   frame goes out later (`can_abort_ok`). `cancelAllTransmitRequests()` samples in the
   same way. What does hold is `FoundRequestIsGone`.
4. `hal_can.h:243`: `rxOverflowCount` counts loss events. MSGLST is never cleared, so
   each later frame counts again (`can_overflow_count`).

Four sentences are stricter than the code and no run is spent on them.
`hal_can.c:1470-1472` lets the ISR own status reads while a source is armed, yet
`start()` captures in the foreground while they are armed: the cause of finding 1.
`hal_queue.h:41-43` allows validation only while the queue is stopped, yet every call
validates: `AlwaysValid` shows that this is harmless. `hal_can.h:584-585` enables the sources together, yet an ISR in the middle of a rearm leaves
one of them flagged and armed while the other is masked, until the rearm ends, and one that comes
before the first flag is assigned cannot mask at all (below). The platform's `README.md:53`
allows unsigned subtraction for a measurement across at most one wrap; the condition
is a measurement shorter than the counter (`TimestampMeasuresTime`), since
a reading taken just below the maximum wraps once and meets its own value again.

Seen and not covered by a document's claim: a rearm opens the sources (`hal_can.c:1220`)
before it flags them (lines 1221 and 1223). A fault in between does interrupt, and the ISR
captures it, but `disableDiagnosticInterrupts()` refuses while no source is flagged: an ISR
that publishes only what it masked leaves this fault to the next status change. A cause still pending when `stop()`
changes the state cannot be acknowledged by `captureDiagnostics()`, so a host that
stops without disabling interrupts first can find the line asserted for good. A frame
that arrives after `receive()`, or the ISR, copied its predecessor and before NEWDAT is
cleared is lost; it sets MSGLST, but the caller learns of it only with the next frame,
whose copy carries the flag. A frame whose snapshot by the ISR timed out and was executed late has lost its INTPND and
waits, unread, for the next arrival. An abort writes back the control word it read: an INTPND
raised or cleared in between is undone, so that a completion is reported twice or never
(`hal_can.h:111`). `transactionTimeoutCount` may lose increments, or step back by those
an ISR made while the foreground stores its own; it still says whether a wait
ever expired (`TimeoutsVisible`). A responder whose configuration timed out while its data
was being preloaded answers with the data it held before; the object is
already routed to its interrupt line (`hal_can.c:728-735`).

## 6. Not modelled, and the plan

Left of the plan:

1. Remote roles in the `CanEvents` instance, with a bound on the responder's completions.
2. The diagnostic hand-over of `CanController` and the events of `CanEvents` in one model:
   both use line 0, and so far each is checked with the other's interrupt as a configured
   but silent source.

Not planned: DriverLib and the device's start-up code (not in the repository; modelled
only as the code in `src/` uses it), the emulation modes (only a debugger observes them),
the status strings and declarations of the public headers beyond the types above, tests
and the repository linter.
