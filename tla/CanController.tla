---------------------------- MODULE CanController ----------------------------
(***************************************************************************)
(* Lifecycle, interrupt configuration and diagnostic hand-over of one CAN  *)
(* controller (source/hxs320f28002x/hal_can.c).                            *)
(*                                                                         *)
(* One foreground context calls the HAL; a call whose effects the CAN      *)
(* line 0 interrupt can observe is split into steps.  The interrupt        *)
(* service routine runs to completion between two steps: the target has    *)
(* one core and its CAN ISRs do not nest (docs/can.md).  The DCAN          *)
(* peripheral and the ISR's host code are outside the repository and are   *)
(* modelled from how hal_can.c and hal_can.h use them.                     *)
(***************************************************************************)
EXTENDS Naturals, FiniteSets

CONSTANTS
  ProtocolError,   \* protocol errors the LEC field can report
  MaxChanges       \* bound: status changes of the peripheral in a behaviour

ASSUME ControllerAssumption ==
  /\ "NONE" \notin ProtocolError
  /\ MaxChanges \in Nat

\* HAL_CAN_BusState_t; the code compares these values.
STOPPED       == 0
ERROR_ACTIVE  == 1
WARNING       == 2
ERROR_PASSIVE == 3
BUS_OFF       == 4

Diagnostic == {"ERROR", "STATUS"}           \* CAN_INT_ERROR, CAN_INT_STATUS
Source == Diagnostic \union {"IE0", "IE1"}  \* interrupt enables in CAN_O_CTL
Line == {0, 1}                              \* CAN_GLOBAL_INT_CANINT0 / 1

\* Combinations of CAN_STATUS_EWARN, EPASS and BUS_OFF the peripheral shows.
Confinement ==
  {{}, {"EWARN"}, {"EWARN", "EPASS"}, {"EWARN", "EPASS", "BUS_OFF"}}

VARIABLES
  can,             \* HAL_CAN_Obj without its diagnostics
  canDiagnostics,  \* HAL_CAN_Obj.canDiagnostics
  hw,              \* DCAN registers
  pie,             \* the platform lets CAN interrupts reach the processor
  fg,              \* the foreground's call in progress
  awaiting,        \* history: a published fault event is not handled yet
  crossings,       \* history: times the peripheral entered the warning range
  changes          \* status changes so far, up to MaxChanges

vars == <<can, canDiagnostics, hw, pie, fg, awaiting, crossings, changes>>

Registers ==
  [init : BOOLEAN, retry : BOOLEAN, confinement : Confinement,
   lec : ProtocolError \union {"NONE"}, causes : SUBSET Diagnostic,
   sources : SUBSET Source, lines : SUBSET Line]

NoDiagnostics ==
  [busState |-> STOPPED, lastProtocolError |-> "NONE",
   warningEntryCount |-> 0, passiveEntryCount |-> 0, busOffEntryCount |-> 0]

\* The object after zero-initialisation, and after the reset part of init().
\* diagnostics holds the sources whose flag...InterruptConfigured is set, armed
\* those whose flag...InterruptEnabled is set.
CleanObject ==
  [controllerState |-> "UNINITIALIZED", lastObservedBusState |-> STOPPED,
   rxReady |-> FALSE, txReady |-> FALSE, configured |-> FALSE, enabled |-> FALSE,
   diagnostics |-> {}, armed |-> {},
   currentProtocolError |-> FALSE, faultPending |-> FALSE]

Status == [confinement : Confinement, lec : ProtocolError \union {"NONE"}]
NoStatus == [confinement |-> {}, lec |-> "NONE"]

IdleCall ==
  [pc |-> "idle", op |-> "none", status |-> NoStatus, previous |-> STOPPED,
   mask |-> {}, gated |-> {}, copy |-> NoDiagnostics, result |-> "none"]

Init ==
  /\ can = CleanObject /\ canDiagnostics = NoDiagnostics
  /\ hw = [init |-> TRUE, retry |-> FALSE, confinement |-> {}, lec |-> "NONE",
           causes |-> {}, sources |-> {}, lines |-> {}]
  /\ pie = FALSE /\ fg = IdleCall
  /\ awaiting = FALSE /\ crossings = 0 /\ changes = 0

Idle == fg.pc = "idle"
Goto(step) == fg' = [fg EXCEPT !.pc = step]
Return(result) == fg' = [IdleCall EXCEPT !.result = result]
history == <<awaiting, crossings, changes>>

-----------------------------------------------------------------------------
(* Capture: the parts of HAL_CAN_captureDiagnostics *)

\* The most severe indication decides.
CurrentBusState(confinement) ==
  IF "BUS_OFF" \in confinement THEN BUS_OFF
  ELSE IF "EPASS" \in confinement THEN ERROR_PASSIVE
  ELSE IF "EWARN" \in confinement THEN WARNING
  ELSE ERROR_ACTIVE

\* CAN_getStatus: reading ES acknowledges the causes and resets LEC.
ReadStatus(h) == [h EXCEPT !.causes = {}, !.lec = "NONE"]
StatusOf(h) == [confinement |-> h.confinement, lec |-> h.lec]

\* Entry counters move when the observed state crosses their threshold.
CountEntries(d, previous, current) ==
  LET Crossed(n, threshold) ==
        IF previous < threshold /\ current >= threshold THEN n + 1 ELSE n
  IN [d EXCEPT !.warningEntryCount = Crossed(@, WARNING),
               !.passiveEntryCount = Crossed(@, ERROR_PASSIVE),
               !.busOffEntryCount  = Crossed(@, BUS_OFF)]

\* Mutant: the states are numbered from one.
StoreNextBusState(d, current) == [d EXCEPT !.busState = current + 1]

StoreBusState(d, current) == [d EXCEPT !.busState = current]

RecordError(d, lec) ==
  IF lec = "NONE" THEN d ELSE [d EXCEPT !.lastProtocolError = lec]

\* A whole capture, from the registers of h.
Captured(d, previous, h) ==
  LET current == CurrentBusState(h.confinement)
  IN RecordError(StoreBusState(CountEntries(d, previous, current), current), h.lec)

-----------------------------------------------------------------------------
(* The peripheral and the platform's gate (outside the repository) *)

BusStatusChange(c) ==
  /\ ~hw.init /\ changes < MaxChanges
  /\ c # hw.confinement
  /\ "BUS_OFF" \in hw.confinement => c = {}
  /\ hw' = [hw EXCEPT !.confinement = c,
                      !.causes = @ \union {"ERROR"},
                      !.init = "BUS_OFF" \in c]
  /\ changes' = changes + 1
  /\ crossings' = IF "EWARN" \in c \ hw.confinement THEN crossings + 1 ELSE crossings
  /\ UNCHANGED <<can, canDiagnostics, pie, fg, awaiting>>

\* A frame ended: with a protocol error, or correctly ("NONE").
FrameStatus(lec) ==
  /\ ~hw.init /\ changes < MaxChanges
  /\ hw' = [hw EXCEPT !.lec = lec, !.causes = @ \union {"STATUS"}]
  /\ changes' = changes + 1
  /\ UNCHANGED <<can, canDiagnostics, pie, fg, awaiting, crossings>>

\* The platform opens or closes its interrupt-controller and processor gates.
SetPie ==
  /\ Idle
  /\ pie' = ~pie
  /\ UNCHANGED <<can, canDiagnostics, hw, fg, history>>
-----------------------------------------------------------------------------
(* Calls made while the platform keeps the CAN ISRs closed *)

\* Mutant: a failed initialisation keeps what the object held.
StaleObject == [can EXCEPT !.controllerState = "UNINITIALIZED"]

ObjectOnTimeout == CleanObject

\* HAL_CAN_init, from the first change to the object.  The bounded wait for the
\* message RAM may time out before the software reset clears the registers.
InitController(retry, timeout) ==
  /\ Idle /\ ~pie
  /\ can.controllerState \in {"UNINITIALIZED", "STOPPED"} /\ ~can.enabled
  /\ canDiagnostics' = NoDiagnostics
  /\ awaiting' = FALSE
  /\ IF timeout
     THEN /\ can' = ObjectOnTimeout
          /\ hw' = [hw EXCEPT !.init = TRUE]
          /\ UNCHANGED crossings
     ELSE /\ can' = [CleanObject EXCEPT !.controllerState = "STOPPED"]
          /\ hw' = [init |-> TRUE, retry |-> retry, confinement |-> {}, lec |-> "NONE",
                    causes |-> {}, sources |-> {}, lines |-> {}]
          /\ crossings' = 0
  /\ Return(IF timeout THEN "TIMEOUT" ELSE "OK")
  /\ UNCHANGED <<pie, changes>>

\* HAL_CAN_configureInterrupts with an accepted configuration (at least one
\* queue or diagnostic source): events of the previous one are abandoned.
ConfigureInterrupts(rx, tx, diagnostics) ==
  /\ Idle /\ ~pie
  /\ can.controllerState = "STOPPED" /\ ~can.enabled
  /\ rx \/ tx \/ diagnostics # {}
  /\ can' = [can EXCEPT !.configured = TRUE, !.rxReady = rx, !.txReady = tx,
                        !.diagnostics = diagnostics, !.armed = {},
                        !.currentProtocolError = FALSE, !.faultPending = FALSE]
  /\ awaiting' = FALSE
  /\ Return("OK")
  /\ UNCHANGED <<canDiagnostics, hw, pie, crossings, changes>>

\* The lines the configuration needs.
ConfiguredLines ==
  (IF can.rxReady \/ can.diagnostics # {} THEN {0} ELSE {})
    \union (IF can.txReady THEN {1} ELSE {})
ConfiguredSources ==
  can.diagnostics \union {<<"IE0", "IE1">>[l + 1] : l \in ConfiguredLines}

\* HAL_CAN_enableInterrupts: the controller is stopped, so no cause can appear
\* between the status read and the opening of the gates.
EnableInterrupts ==
  /\ Idle
  /\ can.controllerState = "STOPPED" /\ can.configured /\ ~can.enabled
  /\ hw' = [(IF can.diagnostics = {} THEN hw ELSE ReadStatus(hw)) EXCEPT
              !.sources = @ \union ConfiguredSources,
              !.lines = @ \union ConfiguredLines]
  /\ can' = [can EXCEPT !.enabled = TRUE, !.armed = can.diagnostics]
  /\ Return("OK")
  /\ UNCHANGED <<canDiagnostics, pie, history>>

\* HAL_CAN_disableInterrupts.
DisableInterrupts ==
  /\ Idle /\ ~pie
  /\ can.configured
  /\ hw' = [hw EXCEPT !.sources = {}, !.lines = {}]
  /\ can' = [can EXCEPT !.enabled = FALSE, !.armed = {}, !.faultPending = FALSE]
  /\ awaiting' = FALSE
  /\ Return("OK")
  /\ UNCHANGED <<canDiagnostics, pie, crossings, changes>>

\* HAL_CAN_setAutoRetransmission.
SetAutoRetransmission(retry) ==
  /\ Idle
  /\ can.controllerState # "UNINITIALIZED"
  /\ hw' = [hw EXCEPT !.retry = retry]
  /\ Return("OK")
  /\ UNCHANGED <<can, canDiagnostics, pie, history>>

-----------------------------------------------------------------------------
(* HAL_CAN_start, HAL_CAN_process and the capture they run in the foreground *)

StartCall ==
  /\ Idle
  /\ can.controllerState = "STOPPED"
  /\ can' = [can EXCEPT !.controllerState = "RUNNING"]
  /\ fg' = [IdleCall EXCEPT !.pc = "startModule", !.op = "start"]
  /\ UNCHANGED <<canDiagnostics, hw, pie, history>>

StartModule ==
  /\ fg.pc = "startModule"
  /\ hw' = [hw EXCEPT !.init = FALSE]
  /\ Goto("readStatus")
  /\ UNCHANGED <<can, canDiagnostics, pie, history>>

\* Mutant: only the ERROR source is consulted.
MaySampleStatus == "ERROR" \notin can.armed

MaySample == can.armed = {}

ProcessCall ==
  /\ Idle
  /\ can.controllerState = "RUNNING" /\ MaySample
  /\ fg' = [IdleCall EXCEPT !.pc = "readStatus", !.op = "process"]
  /\ UNCHANGED <<can, canDiagnostics, hw, pie, history>>

CaptureStatus ==
  /\ fg.pc = "readStatus"
  /\ hw' = ReadStatus(hw)
  /\ fg' = [fg EXCEPT !.pc = "readPrevious", !.status = StatusOf(hw)]
  /\ UNCHANGED <<can, canDiagnostics, pie, history>>

CapturePrevious ==
  /\ fg.pc = "readPrevious"
  /\ fg' = [fg EXCEPT !.pc = "countEntries", !.previous = can.lastObservedBusState]
  /\ UNCHANGED <<can, canDiagnostics, hw, pie, history>>

CaptureEntries ==
  /\ fg.pc = "countEntries"
  /\ canDiagnostics' = CountEntries(canDiagnostics, fg.previous,
                                    CurrentBusState(fg.status.confinement))
  /\ Goto("storeState")
  /\ UNCHANGED <<can, hw, pie, history>>

\* The stores of the capture, in their order: an ISR between two of them captures
\* a later status, which the remaining stores overwrite in part.
CaptureState ==
  /\ fg.pc = "storeState"
  /\ canDiagnostics' = StoreBusState(canDiagnostics, CurrentBusState(fg.status.confinement))
  /\ Goto("storeObserved")
  /\ UNCHANGED <<can, hw, pie, history>>

CaptureObserved ==
  /\ fg.pc = "storeObserved"
  /\ can' = [can EXCEPT !.lastObservedBusState = CurrentBusState(fg.status.confinement)]
  /\ Goto("clearError")
  /\ UNCHANGED <<canDiagnostics, hw, pie, history>>

CaptureClearError ==
  /\ fg.pc = "clearError"
  /\ can' = [can EXCEPT !.currentProtocolError = FALSE]
  /\ IF fg.status.lec = "NONE" THEN Return("OK") ELSE Goto("recordError")
  /\ UNCHANGED <<canDiagnostics, hw, pie, history>>

CaptureError ==
  /\ fg.pc = "recordError"
  /\ canDiagnostics' = RecordError(canDiagnostics, fg.status.lec)
  /\ Goto("flagError")
  /\ UNCHANGED <<can, hw, pie, history>>

CaptureErrorFlag ==
  /\ fg.pc = "flagError"
  /\ can' = [can EXCEPT !.currentProtocolError = TRUE]
  /\ Return("OK")
  /\ UNCHANGED <<canDiagnostics, hw, pie, history>>

-----------------------------------------------------------------------------
(* HAL_CAN_stop *)

StopCall ==
  /\ Idle
  /\ can.controllerState = "RUNNING"
  /\ hw' = [hw EXCEPT !.init = TRUE]
  /\ fg' = [IdleCall EXCEPT !.pc = "stopState", !.op = "stop"]
  /\ UNCHANGED <<can, canDiagnostics, pie, history>>

StopState ==
  /\ fg.pc = "stopState"
  /\ can' = [can EXCEPT !.controllerState = "STOPPED"]
  /\ Goto("stopBusState")
  /\ UNCHANGED <<canDiagnostics, hw, pie, history>>

\* Mutant: the bus state of the last capture survives stop().
StopKeepsBusState ==
  /\ fg.pc = "stopBusState"
  /\ Return("OK")
  /\ UNCHANGED <<can, canDiagnostics, hw, pie, history>>

StopBusState ==
  /\ fg.pc = "stopBusState"
  /\ canDiagnostics' = StoreBusState(canDiagnostics, STOPPED)
  /\ Return("OK")
  /\ UNCHANGED <<can, hw, pie, history>>

-----------------------------------------------------------------------------
(* HAL_CAN_enableDiagnosticInterrupts: an event still latched at the call is   *)
(* given up by its caller, one published during the call is not               *)

RearmCall ==
  /\ Idle
  /\ can.controllerState = "RUNNING" /\ can.enabled
  /\ can.diagnostics # {} /\ can.armed = {}
  /\ hw' = ReadStatus(hw)
  /\ awaiting' = FALSE
  /\ fg' = [IdleCall EXCEPT !.pc = "rearmSources", !.op = "rearm"]
  /\ UNCHANGED <<can, canDiagnostics, pie, crossings, changes>>

RearmSources ==
  /\ fg.pc = "rearmSources"
  /\ hw' = [hw EXCEPT !.sources = @ \union can.diagnostics]
  /\ Goto("rearmError")
  /\ UNCHANGED <<can, canDiagnostics, pie, history>>

\* Mutant: a source is flagged as armed that was not configured.
ArmAnyFlag(source) == can' = [can EXCEPT !.armed = @ \union {source}]

\* One flag...InterruptEnabled takes the value of its flag...Configured.
ArmFlag(source) ==
  can' = [can EXCEPT !.armed = (@ \ {source}) \union (can.diagnostics \intersect {source})]

RearmErrorFlag ==
  /\ fg.pc = "rearmError"
  /\ ArmFlag("ERROR")
  /\ Goto("rearmStatus")
  /\ UNCHANGED <<canDiagnostics, hw, pie, history>>

RearmStatusFlag ==
  /\ fg.pc = "rearmStatus"
  /\ ArmFlag("STATUS")
  /\ Goto("rearmClearError")
  /\ UNCHANGED <<canDiagnostics, hw, pie, history>>

RearmClearError ==
  /\ fg.pc = "rearmClearError"
  /\ can' = [can EXCEPT !.currentProtocolError = FALSE]
  /\ Goto("rearmClearEvent")
  /\ UNCHANGED <<canDiagnostics, hw, pie, history>>

\* Mutant: an event latched before the rearm stays latched.
RearmKeepsEvent ==
  /\ fg.pc = "rearmClearEvent"
  /\ Return("OK")
  /\ UNCHANGED <<can, canDiagnostics, hw, pie, history>>

RearmClearEvent ==
  /\ fg.pc = "rearmClearEvent"
  /\ can' = [can EXCEPT !.faultPending = FALSE]
  /\ Return("OK")
  /\ UNCHANGED <<canDiagnostics, hw, pie, history>>

-----------------------------------------------------------------------------
(* HAL_CAN_disableDiagnosticInterrupts *)

MayMask ==
  /\ can.controllerState = "RUNNING"
  /\ can.enabled /\ can.armed # {}

MaskCall ==
  /\ Idle
  /\ MayMask
  /\ fg' = [IdleCall EXCEPT !.pc = "maskSources", !.op = "mask", !.mask = can.armed]
  /\ UNCHANGED <<can, canDiagnostics, hw, pie, history>>

MaskSources ==
  /\ fg.pc = "maskSources"
  /\ hw' = [hw EXCEPT !.sources = @ \ fg.mask]
  /\ Goto("maskError")
  /\ UNCHANGED <<can, canDiagnostics, pie, history>>

MaskErrorFlag ==
  /\ fg.pc = "maskError"
  /\ can' = [can EXCEPT !.armed = @ \ {"ERROR"}]
  /\ Goto("maskStatus")
  /\ UNCHANGED <<canDiagnostics, hw, pie, history>>

MaskStatusFlag ==
  /\ fg.pc = "maskStatus"
  /\ can' = [can EXCEPT !.armed = @ \ {"STATUS"}]
  /\ Return("OK")
  /\ UNCHANGED <<canDiagnostics, hw, pie, history>>

-----------------------------------------------------------------------------
(* HAL_CAN_getDiagnosticFaultEvent *)

EventCheck ==
  /\ Idle
  /\ can.configured /\ can.diagnostics # {}
  /\ IF can.faultPending
     THEN fg' = [IdleCall EXCEPT !.pc = "takeEvent", !.op = "event"]
     ELSE Return("EMPTY")
  /\ UNCHANGED <<can, canDiagnostics, hw, pie, history>>

TakeEvent ==
  /\ fg.pc = "takeEvent"
  /\ can' = [can EXCEPT !.faultPending = FALSE]
  /\ awaiting' = FALSE
  /\ Return("OK")
  /\ UNCHANGED <<canDiagnostics, hw, pie, crossings, changes>>

-----------------------------------------------------------------------------
(* HAL_CAN_getDiagnostics *)

\* Mutant: line 0 is closed only on behalf of the receive queue.
QueueLinesToGate == IF can.enabled /\ can.rxReady THEN ConfiguredLines ELSE {}

LinesToGate == IF can.enabled THEN ConfiguredLines ELSE {}

GateLines ==
  /\ Idle
  /\ can.controllerState # "UNINITIALIZED"
  /\ hw' = [hw EXCEPT !.lines = @ \ LinesToGate]
  /\ fg' = [IdleCall EXCEPT !.pc = "copyState", !.op = "snapshot", !.gated = LinesToGate]
  /\ UNCHANGED <<can, canDiagnostics, pie, history>>

\* The structure copy, in two parts.
CopyState ==
  /\ fg.pc = "copyState"
  /\ fg' = [fg EXCEPT !.pc = "copyCounts",
                      !.copy.busState = canDiagnostics.busState,
                      !.copy.lastProtocolError = canDiagnostics.lastProtocolError]
  /\ UNCHANGED <<can, canDiagnostics, hw, pie, history>>

CopyCounts ==
  /\ fg.pc = "copyCounts"
  /\ fg' = [fg EXCEPT !.pc = "reopen",
                      !.copy.warningEntryCount = canDiagnostics.warningEntryCount,
                      !.copy.passiveEntryCount = canDiagnostics.passiveEntryCount,
                      !.copy.busOffEntryCount = canDiagnostics.busOffEntryCount]
  /\ UNCHANGED <<can, canDiagnostics, hw, pie, history>>

\* Mutants: every line is opened, or none is.
AllLines == Line
NoLines == hw.lines

ReopenedLines == IF can.enabled THEN hw.lines \union fg.gated ELSE hw.lines

ReopenLines ==
  /\ fg.pc = "reopen"
  /\ hw' = [hw EXCEPT !.lines = ReopenedLines]
  /\ Return("OK")
  /\ UNCHANGED <<can, canDiagnostics, pie, history>>

-----------------------------------------------------------------------------
(* The line 0 ISR of the host application (outside the repository): it         *)
(* captures, and on a fault masks both sources and publishes the event         *)

LineAsserted == hw.causes \intersect hw.sources # {}

IsrMayRun == pie /\ 0 \in hw.lines /\ "IE0" \in hw.sources /\ LineAsserted

IsFault(h) == h.lec # "NONE" \/ CurrentBusState(h.confinement) >= WARNING

\* captureDiagnostics() refuses, and acknowledges nothing, unless RUNNING.
DiagnosticIsr ==
  /\ IsrMayRun
  /\ can.controllerState = "RUNNING"
  /\ canDiagnostics' = Captured(canDiagnostics, can.lastObservedBusState, hw)
  /\ LET masks == IsFault(hw) /\ MayMask
     IN /\ hw' = [ReadStatus(hw) EXCEPT !.sources = IF masks THEN @ \ can.armed ELSE @]
        /\ can' = [can EXCEPT
             !.lastObservedBusState = CurrentBusState(hw.confinement),
             !.currentProtocolError = (hw.lec # "NONE"),
             !.armed = IF masks THEN {} ELSE @,
             !.faultPending = IF masks THEN TRUE ELSE @]
        /\ awaiting' = (awaiting \/ masks)
  /\ UNCHANGED <<pie, fg, crossings, changes>>

-----------------------------------------------------------------------------
ForegroundStep ==
  \/ StartModule
  \/ CaptureStatus \/ CapturePrevious \/ CaptureEntries \/ CaptureState \/ CaptureObserved
  \/ CaptureClearError \/ CaptureError \/ CaptureErrorFlag
  \/ StopState \/ StopBusState
  \/ RearmSources \/ RearmErrorFlag \/ RearmStatusFlag
  \/ RearmClearError \/ RearmClearEvent
  \/ MaskSources \/ MaskErrorFlag \/ MaskStatusFlag
  \/ TakeEvent
  \/ CopyState \/ CopyCounts \/ ReopenLines

Next ==
  \/ \E c \in Confinement : BusStatusChange(c)
  \/ \E lec \in ProtocolError \union {"NONE"} : FrameStatus(lec)
  \/ SetPie
  \/ \E retry, timeout \in BOOLEAN : InitController(retry, timeout)
  \/ \E rx, tx \in BOOLEAN, diagnostics \in SUBSET Diagnostic :
       ConfigureInterrupts(rx, tx, diagnostics)
  \/ EnableInterrupts \/ DisableInterrupts
  \/ \E retry \in BOOLEAN : SetAutoRetransmission(retry)
  \/ StartCall \/ ProcessCall \/ StopCall \/ RearmCall \/ MaskCall
  \/ EventCheck \/ GateLines
  \/ ForegroundStep
  \/ DiagnosticIsr

Spec == Init /\ [][Next]_vars

\* A call that was entered runs on; the interrupt preempts it as soon as its
\* gates are open, so it cannot be passed over again and again.
FairSpec == Spec /\ WF_vars(ForegroundStep) /\ SF_vars(DiagnosticIsr)
-----------------------------------------------------------------------------
(* Properties *)

Steps ==
  {"idle", "startModule", "readStatus", "readPrevious", "countEntries", "storeState",
   "storeObserved", "clearError", "recordError", "flagError", "stopState",
   "stopBusState", "rearmSources", "rearmError", "rearmStatus", "rearmClearError",
   "rearmClearEvent", "maskSources", "maskError", "maskStatus", "takeEvent",
   "copyState", "copyCounts", "reopen"}

Diagnostics ==
  [busState : STOPPED..BUS_OFF, lastProtocolError : ProtocolError \union {"NONE"},
   warningEntryCount : Nat, passiveEntryCount : Nat, busOffEntryCount : Nat]

\* Every field of the object, of the registers and of a call keeps its type.
TypeOK ==
  /\ can \in
       [controllerState : {"UNINITIALIZED", "STOPPED", "RUNNING"},
        lastObservedBusState : STOPPED..BUS_OFF,
        rxReady : BOOLEAN, txReady : BOOLEAN, configured : BOOLEAN, enabled : BOOLEAN,
        diagnostics : SUBSET Diagnostic, armed : SUBSET Diagnostic,
        currentProtocolError : BOOLEAN, faultPending : BOOLEAN]
  /\ canDiagnostics \in Diagnostics
  /\ hw \in Registers
  /\ pie \in BOOLEAN /\ awaiting \in BOOLEAN
  /\ fg \in
       [pc : Steps,
        op : {"none", "start", "process", "stop", "rearm", "mask", "event", "snapshot"},
        status : Status, previous : STOPPED..BUS_OFF, mask : SUBSET Diagnostic,
        gated : SUBSET Line, copy : Diagnostics, result : {"none", "OK", "EMPTY", "TIMEOUT"}]
  /\ crossings \in Nat /\ changes \in 0..MaxChanges

\* The flags a rearm or a mask has not assigned yet, its enable bits being changed.
Unassigned ==
  CASE fg.pc \in {"rearmError", "maskError"}   -> {"ERROR", "STATUS"}
    [] fg.pc \in {"rearmStatus", "maskStatus"} -> {"STATUS"}
    [] OTHER -> {}

\* The flags that say which diagnostic sources are armed agree with the enable
\* bits of the peripheral, whatever the ISR masked in the middle of a rearm or a
\* mask, but for the flags that call has still to assign.  A mask closes the
\* sources first, so a source its flag calls masked stays closed.  A rearm opens
\* them first: until its flags are assigned, a source they call masked does
\* interrupt, but none they call armed is closed.
FlagsMatchSources ==
  LET open == hw.sources \intersect Diagnostic
  IN /\ \A source \in Diagnostic \ Unassigned : source \in can.armed <=> source \in open
     /\ fg.op = "mask" => open \subseteq can.armed
     /\ fg.op = "rearm" => can.armed \subseteq open

\* The capture process() makes in the foreground is never overtaken by a
\* capture of the ISR, so neither works with a status the other consumed.
ProcessOwnsStatus == fg.op = "process" => ~IsrMayRun

\* busState tells whether the controller takes part in bus traffic, although
\* stop() and the ISR both write it.
BusStateFollowsLifecycle ==
  Idle => (canDiagnostics.busState = STOPPED <=> can.controllerState # "RUNNING")

\* A failed initialisation leaves no queue, no armed source, no open gate and no
\* event of the previous configuration behind.
SafeUninitialized ==
  can.controllerState = "UNINITIALIZED" =>
    can = CleanObject /\ hw.init /\ hw.sources = {} /\ hw.lines = {}

\* The gates are those of the configuration while interrupts are enabled, and
\* all closed otherwise; getDiagnostics() always restores what it closed.
GatesMatchConfiguration ==
  /\ ~can.enabled => hw.sources = {} /\ hw.lines = {}
  /\ can.enabled => /\ hw.lines = ConfiguredLines \ fg.gated
                    /\ hw.sources \ Diagnostic = ConfiguredSources \ Diagnostic
                    /\ hw.sources \subseteq ConfiguredSources

\* getDiagnostics() hands out one value that the diagnostics had as a whole.
SnapshotIsCoherent == fg.pc = "reopen" => fg.copy = canDiagnostics

\* The event latch is a single bit: outside a rearm it is only set while both
\* sources are masked, so a second fault cannot be merged into a pending one.
LatchedMeansMasked ==
  can.faultPending /\ fg.op # "rearm" =>
    can.armed = {} /\ hw.sources \intersect Diagnostic = {}

\* A cause the ISR may serve is served: getDiagnostics() only delays it.
CauseIsServed ==
  LineAsserted /\ pie /\ can.controllerState = "RUNNING" /\ can.enabled
    ~> ~LineAsserted \/ ~pie \/ can.controllerState # "RUNNING" \/ ~can.enabled

-----------------------------------------------------------------------------
(* What the comments say and the code does not do *)

\* hal_can.h: the entry counter counts "Transitions into the warning threshold
\* or above", each at most once.
WarningsAreTransitions == canDiagnostics.warningEntryCount <= crossings

\* hal_can.h: "HAL_STATUS_EMPTY is normal when no new fault awaits foreground
\* policy handling."
EmptyMeansNoFault == fg.result = "EMPTY" /\ ~can.faultPending => ~awaiting
=============================================================================
