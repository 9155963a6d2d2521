----------------------------- MODULE CanMailbox -----------------------------
(***************************************************************************)
(* Message objects of one CAN controller and the bounded transactions that *)
(* reach them (hal_can.c, hal_can_hw.c).  Spec is polled operation: CAN    *)
(* interrupts stay disabled, and without an event queue no object may ask  *)
(* for one.  CanEvents composes the same calls with the interrupt path.    *)
(*                                                                         *)
(* The foreground fills an interface register set, writes its command      *)
(* register and waits until BUSY clears.  The peripheral executes the      *)
(* command at some later moment; the wait is bounded, so a call may return *)
(* TIMEOUT and leave a command behind that is executed after all.  What a  *)
(* command does is modelled from how hal_can_hw.c uses it.                 *)
(***************************************************************************)
EXTENDS Naturals, FiniteSets, FiniteSetsExt

CONSTANTS
  Mailboxes,    \* number of message objects (32 on the target)
  Lengths,      \* data length codes that occur; a received one may exceed 8
  CallerData,   \* payloads callers send; a received frame carries its number
  Allocation,   \* the roles the platform uses each object for
  MaxCalls,     \* bound: HAL calls in a behaviour
  MaxArrivals   \* bound: received frames in a behaviour

ASSUME MailboxAssumption ==
  /\ Mailboxes \in Nat \ {0} /\ MaxCalls \in Nat /\ MaxArrivals \in Nat
  /\ Lengths \subseteq 0..15 /\ 0 \in Lengths
  /\ CallerData \subseteq Nat \ {0}

Mailbox == 1..Mailboxes
SendLength == Lengths \intersect 0..8

Data == {0} \union CallerData \union 1..MaxArrivals

\* HAL_CAN_HwMessageRole_t; NONE: MSGVAL is not set.
Role == {"NONE", "RX_DATA", "TX_DATA", "TX_REMOTE_REQUEST", "REMOTE_RESPONSE"}

ASSUME AllocationAssumption == Allocation \in [Mailbox -> SUBSET (Role \ {"NONE"})]

\* What a message object and an interface register set hold; ie: RXIE or TXIE.
Content ==
  [role : Role, dlc : Lengths, data : Data,
   txrqst : BOOLEAN, newdat : BOOLEAN, msglst : BOOLEAN,
   ie : BOOLEAN, intpnd : BOOLEAN]
Blank ==
  [role |-> "NONE", dlc |-> 0, data |-> 0,
   txrqst |-> FALSE, newdat |-> FALSE, msglst |-> FALSE,
   ie |-> FALSE, intpnd |-> FALSE]

\* Command register: transfer direction and the parts it moves.
Field == {"ARB", "CONTROL", "DATA", "TXRQST", "CLRINTPND"}
Command == [obj : Mailbox, write : BOOLEAN, fields : SUBSET Field]
NoCommand == [obj |-> 1, write |-> FALSE, fields |-> {}]

\* The HAL_CAN_Diagnostics_t counters that transactions and events move.
Counter ==
  {"txRequestCount", "txCompleteCount", "txEventOverflowCount",
   "rxFrameCount", "rxOverflowCount", "rxQueueOverflowCount",
   "transactionTimeoutCount", "unexpectedInterruptCount"}

VARIABLES
  running,      \* HAL_CAN_STATE_RUNNING rather than STOPPED
  ram,          \* the message objects
  ifc,          \* interface register sets 1 and 2
  fg,           \* the foreground's call in progress
  frame,        \* data of the last frame receive() delivered, per object
  canDiagnostics,
  purpose,      \* history: the role of each object's last successful configuration
  cancelled,    \* history: objects whose pending request a cancel removed ...
  unrequested,  \* ... or reported as absent, with no later call on them
  submitted,    \* history: requests the peripheral took over from an interface
  arrivals,     \* frames received from the bus so far, up to MaxArrivals
  overruns,     \* history: frames that overwrote one the code had not read
  calls         \* calls so far, up to MaxCalls

vars == <<running, ram, ifc, fg, frame, canDiagnostics, purpose, cancelled,
          unrequested, submitted, arrivals, overruns, calls>>
callerView == <<running, frame, purpose, cancelled, unrequested, calls>>
bus == <<submitted, arrivals, overruns>>

IdleCall ==
  [pc |-> "idle", op |-> "none", obj |-> 1, arg |-> Blank, todo |-> {}, found |-> {}]

Init ==
  /\ running = FALSE
  /\ ram = [o \in Mailbox |-> Blank]
  /\ ifc = [i \in 1..2 |-> [busy |-> FALSE, regs |-> Blank, cmd |-> NoCommand]]
  /\ fg = IdleCall /\ frame = [o \in Mailbox |-> 0]
  /\ canDiagnostics = [c \in Counter |-> 0]
  /\ purpose = [o \in Mailbox |-> "NONE"]
  /\ cancelled = {} /\ unrequested = {}
  /\ submitted = 0 /\ arrivals = 0 /\ overruns = 0 /\ calls = 0

-----------------------------------------------------------------------------
(* The peripheral (outside the repository) *)

\* A command towards the message RAM.  TXRQST alone raises the request; with
\* CONTROL the request comes from the control register, as a cancel expects.
Written(content, regs, fields) ==
  LET arb == IF "ARB" \in fields
             THEN [content EXCEPT !.role = regs.role] ELSE content
      ctl == IF "CONTROL" \in fields
             THEN [arb EXCEPT !.dlc = regs.dlc, !.txrqst = regs.txrqst,
                              !.newdat = regs.newdat, !.msglst = regs.msglst,
                              !.ie = regs.ie, !.intpnd = regs.intpnd]
             ELSE [arb EXCEPT !.txrqst = @ \/ "TXRQST" \in fields]
  IN IF "DATA" \in fields THEN [ctl EXCEPT !.data = regs.data] ELSE ctl

\* A command from the message RAM.
Fetched(regs, content, fields) ==
  LET arb == IF "ARB" \in fields
             THEN [regs EXCEPT !.role = content.role] ELSE regs
      ctl == IF "CONTROL" \in fields
             THEN [arb EXCEPT !.dlc = content.dlc, !.txrqst = content.txrqst,
                              !.newdat = content.newdat, !.msglst = content.msglst,
                              !.ie = content.ie, !.intpnd = content.intpnd]
             ELSE arb
  IN IF "DATA" \in fields THEN [ctl EXCEPT !.data = content.data] ELSE ctl

\* In that direction TXRQST clears NEWDAT and CLRINTPND the pending interrupt.
Released(content, fields) ==
  [content EXCEPT !.newdat = @ /\ "TXRQST" \notin fields,
                  !.intpnd = @ /\ "CLRINTPND" \notin fields]

Transfer(i) ==
  LET c == ifc[i].cmd
      old == ram[c.obj]
      new == IF c.write THEN Written(old, ifc[i].regs, c.fields)
             ELSE Released(old, c.fields)
  IN /\ ifc[i].busy
     /\ ram' = [ram EXCEPT ![c.obj] = new]
     /\ ifc' = [ifc EXCEPT ![i] = [busy |-> FALSE, cmd |-> NoCommand,
                  regs |-> IF c.write THEN ifc[i].regs ELSE Fetched(ifc[i].regs, old, c.fields)]]
     /\ submitted' = IF new.txrqst /\ ~old.txrqst THEN submitted + 1 ELSE submitted
     /\ UNCHANGED <<callerView, fg, canDiagnostics, arrivals, overruns>>

\* A data frame that matches a receive object is stored over what it holds.  A
\* remote-request object receives too (hal_can.c); which object a frame matches is
\* left out, and the platform gives the receive object the lower number there, so
\* that the response is stored in it.
Arrive(o, dlc) ==
  /\ running /\ ram[o].role = "RX_DATA" /\ arrivals < MaxArrivals
  /\ ram' = [ram EXCEPT ![o] = [ram[o] EXCEPT !.data = arrivals + 1, !.dlc = dlc,
                                              !.newdat = TRUE,
                                              !.msglst = @ \/ ram[o].newdat,
                                              !.intpnd = @ \/ ram[o].ie]]
  /\ arrivals' = arrivals + 1
  /\ overruns' = IF ram[o].newdat THEN overruns + 1 ELSE overruns
  /\ UNCHANGED <<callerView, ifc, fg, canDiagnostics, submitted>>

\* The pending frame of an object was sent.
Transmit(o) ==
  /\ running /\ ram[o].txrqst
  /\ ram' = [ram EXCEPT ![o] = [ram[o] EXCEPT !.txrqst = FALSE, !.intpnd = @ \/ ram[o].ie]]
  /\ UNCHANGED <<callerView, ifc, fg, canDiagnostics, bus>>

\* A remote frame asks an automatic responder for its data.
RemoteFrame(o) ==
  /\ running /\ ram[o].role = "REMOTE_RESPONSE" /\ ~ram[o].txrqst
  /\ ram' = [ram EXCEPT ![o].txrqst = TRUE]
  /\ UNCHANGED <<callerView, ifc, fg, canDiagnostics, bus>>

-----------------------------------------------------------------------------
(* Bounded waits and commands *)

Idle == fg.pc = "idle"
At(step) == fg.pc = step

\* Mutant: the wait does not look at BUSY.
ReadyAlways(i) == TRUE

Ready(i) == ~ifc[i].busy

Interface == IF fg.op = "receive" THEN 2 ELSE 1

\* Mutant: a timeout is reported but not counted.
NotCounted(d) == d

TimedOut(d) == [d EXCEPT !.transactionTimeoutCount = @ + 1]

\* Every call waits at each of its steps; the interface may stay busy too long.
WaitExpires ==
  /\ ~Idle /\ ifc[Interface].busy
  /\ fg' = IdleCall
  /\ canDiagnostics' = TimedOut(canDiagnostics)
  /\ UNCHANGED <<callerView, ram, ifc, bus>>

\* Fill the registers and write the command.
Issue(i, o, regs, write, fields) ==
  ifc' = [ifc EXCEPT ![i] = [busy |-> TRUE, regs |-> regs,
            cmd |-> [obj |-> o, write |-> write, fields |-> fields]]]

\* The foreground does, and goes to the step that awaits it.
Submit(i, regs, write, fields, step) ==
  /\ Issue(i, fg.obj, regs, write, fields)
  /\ fg' = [fg EXCEPT !.pc = step]

\* A call on the objects of scope begins; earlier promises about them end.
Begin(call, scope) ==
  /\ Idle /\ calls < MaxCalls
  /\ calls' = calls + 1
  /\ fg' = [IdleCall EXCEPT !.pc = call.pc, !.op = call.op, !.obj = call.obj, !.arg = call.arg]
  /\ cancelled' = cancelled \ scope /\ unrequested' = unrequested \ scope
  /\ UNCHANGED <<running, ram, ifc, frame, canDiagnostics, bus>>

Call(pc, op, o, arg) == [pc |-> pc, op |-> op, obj |-> o, arg |-> arg]

\* HAL_CAN_start and HAL_CAN_stop, as far as message objects see them.
StartStop ==
  /\ Idle
  /\ running' = ~running
  /\ UNCHANGED <<ram, ifc, fg, frame, canDiagnostics, purpose, cancelled,
                 unrequested, bus, calls>>

-----------------------------------------------------------------------------
(* Configuration: HAL_CAN_configureRx, Tx, RemoteRequest, RemoteResponse *)

ConfigureCall(o, role, ie, dlc, data) ==
  /\ ~running
  /\ role \in Allocation[o]
  /\ Begin(Call("setup", "configure", o,
                [Blank EXCEPT !.role = role, !.ie = ie, !.dlc = dlc, !.data = data]), {o})
  /\ purpose' = [purpose EXCEPT ![o] = "NONE"]

ConfigureRx(o, ie) == ConfigureCall(o, "RX_DATA", ie, 0, 0)
ConfigureTx(o, ie) == \E dlc \in SendLength : ConfigureCall(o, "TX_DATA", ie, dlc, 0)
ConfigureRemoteRequest(o, ie) ==
  \E dlc \in SendLength : ConfigureCall(o, "TX_REMOTE_REQUEST", ie, dlc, 0)
ConfigureRemoteResponse(o, ie) ==
  \E dlc \in SendLength, data \in CallerData :
    ConfigureCall(o, "REMOTE_RESPONSE", ie, dlc, data)

\* The roles whose interrupt reports a transmission.
ConfigureSender(o, ie) ==
  ConfigureTx(o, ie) \/ ConfigureRemoteRequest(o, ie) \/ ConfigureRemoteResponse(o, ie)

\* HAL_CAN_hwSetupMessageObject: mask, arbitration and control, but no data.
SetupObject ==
  /\ At("setup") /\ Ready(1)
  /\ Submit(1, [fg.arg EXCEPT !.data = ifc[1].regs.data], TRUE, {"ARB", "CONTROL"}, "loaded")
  /\ UNCHANGED <<callerView, ram, canDiagnostics, bus>>

\* Mutant: the response is preloaded by the ordinary send path.
SendFields == {"DATA", "TXRQST"}

PreloadFields == {"DATA"}

\* HAL_CAN_hwWriteMessageData, which has nothing to write if the length is 0.
WriteData ==
  Submit(1, [ifc[1].regs EXCEPT !.data = fg.arg.data], TRUE, PreloadFields, "stored")

\* Only an automatic responder has data to preload.
PreloadObject ==
  /\ At("loaded") /\ Ready(1)
  /\ fg.arg.role = "REMOTE_RESPONSE" /\ fg.arg.dlc > 0
  /\ WriteData
  /\ UNCHANGED <<callerView, ram, canDiagnostics, bus>>

ObjectLoaded ==
  \/ At("loaded") /\ (fg.arg.role = "REMOTE_RESPONSE" => fg.arg.dlc = 0)
  \/ At("stored")

\* The call returns OK: the caller may now use the object for its role.
ConfigureReturns ==
  /\ fg.op = "configure" /\ ObjectLoaded /\ Ready(1)
  /\ purpose' = [purpose EXCEPT ![fg.obj] = fg.arg.role]
  /\ fg' = IdleCall
  /\ UNCHANGED <<running, ram, ifc, frame, canDiagnostics, cancelled,
                 unrequested, bus, calls>>

-----------------------------------------------------------------------------
(* Transmission: HAL_CAN_send, requestRemote, updateRemoteResponse *)

SendCall(o, dlc, data) ==
  /\ running /\ purpose[o] = "TX_DATA"
  /\ Begin(Call("commit", "send", o, [Blank EXCEPT !.dlc = dlc, !.data = data]), {o})
  /\ UNCHANGED purpose

RequestCall(o) ==
  /\ running /\ purpose[o] = "TX_REMOTE_REQUEST"
  /\ Begin(Call("commit", "request", o, Blank), {o})
  /\ UNCHANGED purpose

UpdateCall(o, data) ==
  /\ purpose[o] = "REMOTE_RESPONSE"
  /\ Begin(Call("commit", "update", o, [Blank EXCEPT !.data = data]), {o})
  /\ UNCHANGED purpose

\* Mutant: the request state is sampled while a command is still under way.
SampledEarly == TRUE

\* A preceding command has reached the message RAM.
Committed == Ready(1)

\* CAN_getTxRequests.
TxRequests == {o \in Mailbox : ram[o].txrqst}

\* The object still owns a pending request: BUSY.
Busy ==
  /\ At("commit") /\ Committed
  /\ fg.obj \in TxRequests
  /\ fg' = IdleCall
  /\ UNCHANGED <<callerView, ram, ifc, canDiagnostics, bus>>

NotBusy ==
  /\ At("commit") /\ Committed
  /\ fg.obj \notin TxRequests
  /\ fg' = [fg EXCEPT !.pc = "free"]
  /\ UNCHANGED <<callerView, ram, ifc, canDiagnostics, bus>>

\* HAL_CAN_hwSendData reads the configured length first.
ReadLength ==
  /\ At("free") /\ fg.op = "send" /\ Ready(1)
  /\ Submit(1, ifc[1].regs, FALSE, {"CONTROL"}, "length")
  /\ UNCHANGED <<callerView, ram, canDiagnostics, bus>>

\* CONFIG_MISMATCH.
LengthMismatch ==
  /\ At("length") /\ Ready(1)
  /\ ifc[1].regs.dlc # fg.arg.dlc
  /\ fg' = IdleCall
  /\ UNCHANGED <<callerView, ram, ifc, canDiagnostics, bus>>

SubmitData ==
  /\ At("length") /\ Ready(1)
  /\ ifc[1].regs.dlc = fg.arg.dlc
  /\ IF fg.arg.dlc > 0
     THEN Submit(1, [ifc[1].regs EXCEPT !.data = fg.arg.data], TRUE,
                 {"DATA", "TXRQST"}, "submitted")
     ELSE Submit(1, ifc[1].regs, TRUE, {"TXRQST"}, "submitted")
  /\ UNCHANGED <<callerView, ram, canDiagnostics, bus>>

SubmitRemoteRequest ==
  /\ At("free") /\ fg.op = "request" /\ Ready(1)
  /\ Submit(1, ifc[1].regs, TRUE, {"TXRQST"}, "submitted")
  /\ UNCHANGED <<callerView, ram, canDiagnostics, bus>>

\* The hardware took the request over: OK.
RequestAccepted ==
  /\ At("submitted") /\ Ready(1)
  /\ canDiagnostics' = [canDiagnostics EXCEPT !.txRequestCount = @ + 1]
  /\ fg' = IdleCall
  /\ UNCHANGED <<callerView, ram, ifc, bus>>

\* All eight bytes, whatever the configured length.
UpdateData ==
  /\ At("free") /\ fg.op = "update" /\ Ready(1)
  /\ WriteData
  /\ UNCHANGED <<callerView, ram, canDiagnostics, bus>>

UpdateReturns ==
  /\ At("stored") /\ fg.op = "update" /\ Ready(1)
  /\ fg' = IdleCall
  /\ UNCHANGED <<callerView, ram, ifc, canDiagnostics, bus>>

-----------------------------------------------------------------------------
(* Cancellation: HAL_CAN_abortTx, HAL_CAN_cancelAllTransmitRequests *)

\* Mutant: the one-based object number is taken for an offset.
NextOffset(pending) == Min(pending) + 1

NextObject(pending) == Min(pending)

\* The pending requests among scope are sampled when the call begins, before
\* any wait; without one the call returns OK at once.
CancelCall(op, scope) ==
  LET pending == TxRequests \intersect scope
  IN /\ Idle /\ calls < MaxCalls
     /\ calls' = calls + 1
     /\ IF pending = {}
        THEN unrequested' = unrequested \union scope /\ UNCHANGED fg
        ELSE /\ fg' = [IdleCall EXCEPT !.pc = "cancel", !.op = op,
                         !.obj = NextObject(pending), !.todo = pending, !.found = pending]
             /\ UNCHANGED unrequested
     /\ UNCHANGED <<running, ram, ifc, frame, canDiagnostics, purpose, cancelled, bus>>

AbortTx(o) == CancelCall("abort", {o})
CancelAll == ~running /\ CancelCall("cancelAll", Mailbox)

\* Read the control word of the object ...
ReadControl ==
  /\ At("cancel") /\ Ready(1)
  /\ Submit(1, ifc[1].regs, FALSE, {"CONTROL", "TXRQST"}, "control")
  /\ UNCHANGED <<callerView, ram, canDiagnostics, bus>>

\* Mutant: the request bit is not cleared before the word is written back.
NotCleared(regs) == regs

Cleared(regs) == [regs EXCEPT !.txrqst = FALSE]

\* ... and write it back without the request.
WriteControl ==
  /\ At("control") /\ Ready(1)
  /\ Submit(1, Cleared(ifc[1].regs), TRUE, {"CONTROL", "TXRQST"}, "next")
  /\ UNCHANGED <<callerView, ram, canDiagnostics, bus>>

CancelNext ==
  LET rest == fg.todo \ {fg.obj}
  IN /\ At("next") /\ Ready(1)
     /\ rest # {}
     /\ fg' = [fg EXCEPT !.pc = "cancel", !.todo = rest, !.obj = NextObject(rest)]
     /\ UNCHANGED <<callerView, ram, ifc, canDiagnostics, bus>>

\* OK: no request remains.
CancelReturns ==
  /\ At("next") /\ Ready(1)
  /\ fg.todo = {fg.obj}
  /\ fg' = IdleCall
  /\ unrequested' = unrequested \union IF fg.op = "abort" THEN fg.found ELSE Mailbox
  /\ cancelled' = cancelled \union fg.found
  /\ UNCHANGED <<running, ram, ifc, frame, canDiagnostics, purpose, bus, calls>>

-----------------------------------------------------------------------------
(* Reception: HAL_CAN_receive *)

ReceiveCall(o) ==
  /\ running /\ purpose[o] = "RX_DATA"
  /\ Begin(Call("poll", "receive", o, Blank), {o})
  /\ UNCHANGED purpose

\* Mutants: the snapshot also takes NEWDAT; it leaves the interrupt pending.
ReleasingSnapshot == {"ARB", "CONTROL", "DATA", "CLRINTPND", "TXRQST"}
SilentSnapshot == {"ARB", "CONTROL", "DATA"}

SnapshotFields == {"ARB", "CONTROL", "DATA", "CLRINTPND"}

ReadObject ==
  /\ At("poll") /\ Ready(2)
  /\ Submit(2, ifc[2].regs, FALSE, SnapshotFields, "fetched")
  /\ UNCHANGED <<callerView, ram, canDiagnostics, bus>>

\* EMPTY.
NothingNew ==
  /\ At("fetched") /\ Ready(2)
  /\ ~ifc[2].regs.newdat
  /\ fg' = IdleCall
  /\ UNCHANGED <<callerView, ram, ifc, canDiagnostics, bus>>

\* Mutants: reading the control word is taken to acknowledge the frame; the
\* acknowledgement clears the pending interrupt instead.
AcknowledgeControl == {"CONTROL"}
AcknowledgeInterrupt == {"CLRINTPND"}

AcknowledgeFields == {"TXRQST"}

\* The frame is copied out of the registers, then NEWDAT is cleared.
TakeObject ==
  /\ At("fetched") /\ Ready(2)
  /\ ifc[2].regs.newdat
  /\ Issue(2, fg.obj, ifc[2].regs, FALSE, AcknowledgeFields)
  /\ fg' = [fg EXCEPT !.pc = "taken", !.arg = ifc[2].regs]
  /\ UNCHANGED <<callerView, ram, canDiagnostics, bus>>

\* HARDWARE_ERROR: the frame is dropped.
LengthRefused ==
  /\ At("taken") /\ Ready(2)
  /\ fg.arg.dlc > 8
  /\ fg' = IdleCall
  /\ UNCHANGED <<callerView, ram, ifc, canDiagnostics, bus>>

Counted(d, content) ==
  [d EXCEPT !.rxFrameCount = @ + 1,
            !.rxOverflowCount = IF content.msglst THEN @ + 1 ELSE @]

\* OK: the caller's frame is written at last.
Deliver ==
  /\ At("taken") /\ Ready(2)
  /\ fg.arg.dlc <= 8
  /\ frame' = [frame EXCEPT ![fg.obj] = fg.arg.data]
  /\ canDiagnostics' = Counted(canDiagnostics, fg.arg)
  /\ fg' = IdleCall
  /\ UNCHANGED <<running, ram, ifc, purpose, cancelled, unrequested, bus, calls>>

-----------------------------------------------------------------------------
\* NO_RESOURCE, without an event queue, when an object asks for interrupts.
Configuring ==
  \/ \E o \in Mailbox : ConfigureRx(o, FALSE) \/ ConfigureSender(o, FALSE)
  \/ SetupObject \/ PreloadObject \/ ConfigureReturns

Transmitting ==
  \/ \E o \in Mailbox : \/ \E dlc \in SendLength, data \in CallerData : SendCall(o, dlc, data)
                        \/ RequestCall(o)
                        \/ \E data \in CallerData : UpdateCall(o, data)
  \/ Busy \/ NotBusy \/ ReadLength \/ LengthMismatch \/ SubmitData
  \/ SubmitRemoteRequest \/ RequestAccepted \/ UpdateData \/ UpdateReturns

Cancelling ==
  \/ \E o \in Mailbox : AbortTx(o)
  \/ CancelAll \/ ReadControl \/ WriteControl \/ CancelNext \/ CancelReturns

Receiving ==
  \/ \E o \in Mailbox : ReceiveCall(o)
  \/ ReadObject \/ NothingNew \/ TakeObject \/ LengthRefused \/ Deliver

FrameOut(o) == Transmit(o) \/ RemoteFrame(o)

Peripheral ==
  \/ \E i \in 1..2 : Transfer(i)
  \/ \E o \in Mailbox : (\E dlc \in Lengths : Arrive(o, dlc)) \/ FrameOut(o)

Next ==
  \/ StartStop \/ WaitExpires
  \/ Configuring \/ Transmitting \/ Cancelling \/ Receiving \/ Peripheral

Spec == Init /\ [][Next]_vars

-----------------------------------------------------------------------------
(* Properties *)

Step == {"idle", "expired", "setup", "loaded", "stored", "commit", "free", "length", "submitted",
         "cancel", "control", "next", "poll", "fetched", "taken"}

Operation == {"none", "configure", "send", "request", "update", "receive", "abort", "cancelAll"}

\* Types; a cancel works on a pending object, any other call has none to do.
TypeOK ==
  /\ running \in BOOLEAN
  /\ ram \in [Mailbox -> Content]
  /\ ifc \in [1..2 -> [busy : BOOLEAN, regs : Content, cmd : Command]]
  /\ fg \in [pc : Step, op : Operation, obj : Mailbox, arg : Content,
             todo : SUBSET Mailbox, found : SUBSET Mailbox]
  /\ IF fg.op \in {"abort", "cancelAll"} THEN fg.obj \in fg.todo ELSE fg.todo = {}
  /\ frame \in [Mailbox -> Data]
  /\ canDiagnostics \in [Counter -> Nat]
  /\ purpose \in [Mailbox -> Role]
  /\ cancelled \subseteq Mailbox /\ unrequested \subseteq Mailbox
  /\ submitted \in Nat /\ arrivals \in Nat /\ overruns \in Nat /\ calls \in Nat

\* No call touches an interface that still executes a command, not even the one
\* a timed-out call left behind (docs/can.md: one owner per interface).
InterfaceUndisturbed ==
  [][\A i \in 1..2 : ifc[i].busy /\ ifc'[i] # ifc[i] => ~ifc'[i].busy]_vars

\* BUSY is the mailbox's authority (hal_can.c:757): while a frame is pending, no
\* later send, update or cancel exchanges its length or its data.
PendingFrameStable ==
  [][\A o \in Mailbox :
       /\ ram[o].role = "TX_DATA" /\ ram[o].txrqst /\ ram'[o].txrqst
       => ram'[o].dlc = ram[o].dlc /\ ram'[o].data = ram[o].data]_vars

\* What the peripheral was asked to send is what the counters admit: every
\* counted request reached it, and one that reached it without being counted
\* was reported as a timeout or is about to be reported.
RequestsAccounted ==
  LET d == canDiagnostics
  IN /\ d.txRequestCount <= submitted
     /\ submitted <= d.txRequestCount + d.transactionTimeoutCount
                       + (IF At("submitted") THEN 1 ELSE 0)

\* receive() delivers frames of an object in the order they arrived and none
\* twice, whatever timed out in between; a call that fails leaves frame alone.
DeliveredOnce ==
  [][IF canDiagnostics'.rxFrameCount = canDiagnostics.rxFrameCount
     THEN frame' = frame
     ELSE frame'[fg.obj] > frame[fg.obj]]_vars

Asked(object) == object.role = "REMOTE_RESPONSE" /\ object.txrqst

\* Neither configuring a responder nor exchanging its data puts a frame on the
\* bus (hal_can.c:666-668): its request only rises when a remote frame arrives.
NothingUnsolicited ==
  [][\A o \in Mailbox :
       ~Asked(ram[o]) /\ Asked(ram'[o]) =>
         UNCHANGED ifc /\ ram'[o] = [ram[o] EXCEPT !.txrqst = TRUE]]_vars

\* A request an abort found and cancelled with OK does not come back until the
\* caller submits again.
FoundRequestIsGone ==
  \A o \in cancelled : ram[o].role # "REMOTE_RESPONSE" => ~ram[o].txrqst

\* hal_can.h:359: an abort returns OK when no request remains.
OkMeansNoRequest ==
  \A o \in unrequested : ram[o].role # "REMOTE_RESPONSE" => ~ram[o].txrqst

\* hal_can.h:243: rxOverflowCount counts hardware receive-message loss events.
OverflowsAreLosses == canDiagnostics.rxOverflowCount <= overruns
=============================================================================
