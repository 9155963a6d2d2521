-------------------------- MODULE CanControllerProofs --------------------------
(***************************************************************************)
(* Theorems about CanController, for every set of protocol errors and      *)
(* every number of status changes.                                         *)
(***************************************************************************)
EXTENDS CanController, TLAPS

-----------------------------------------------------------------------------
(* The inductive invariant *)

Open == hw.sources \intersect Diagnostic

BeforeStore == {"readStatus", "readPrevious", "countEntries", "storeState"}
AfterStore == {"storeObserved", "clearError", "recordError", "flagError"}
CaptureSteps == BeforeStore \union AfterStore
RearmSteps ==
  {"rearmSources", "rearmError", "rearmStatus", "rearmClearError", "rearmClearEvent"}
MaskSteps == {"maskSources", "maskError", "maskStatus"}
SnapshotSteps == {"copyState", "copyCounts", "reopen"}

\* Which call a step belongs to, and the controller state during it.
CallInv ==
  /\ fg.pc = "idle" => fg.op = "none"
  /\ fg.pc = "startModule" => fg.op = "start"
  /\ fg.pc \in CaptureSteps => fg.op \in {"start", "process"}
  /\ fg.pc \in {"stopState", "stopBusState"} => fg.op = "stop"
  /\ fg.pc \in RearmSteps <=> fg.op = "rearm"
  /\ fg.pc \in MaskSteps <=> fg.op = "mask"
  /\ fg.pc = "takeEvent" => fg.op = "event"
  /\ fg.pc \in SnapshotSteps <=> fg.op = "snapshot"
  /\ fg.pc # "idle" => can.controllerState # "UNINITIALIZED"
  /\ fg.op \in {"start", "process", "rearm", "mask"} => can.controllerState = "RUNNING"
  /\ fg.pc = "stopState" => can.controllerState = "RUNNING"
  /\ fg.pc = "stopBusState" => can.controllerState = "STOPPED"
  /\ fg.op = "rearm" => can.enabled

\* The gates, and what a failed init() left.
GateInv ==
  /\ GatesMatchConfiguration
  /\ SafeUninitialized
  /\ fg.op = "snapshot" => fg.gated = LinesToGate
  /\ fg.op # "snapshot" => fg.gated = {}

\* The armed flags and the open sources, step by step through a rearm and a mask.
ArmInv ==
  /\ fg.op \notin {"rearm", "mask"} => can.armed = Open
  /\ fg.op = "process" => can.armed = {}
  /\ fg.pc = "rearmSources" => can.armed = {} /\ Open = {}
  /\ fg.pc = "rearmError" => can.armed = {} /\ Open = can.diagnostics
  /\ fg.pc = "rearmStatus" =>
       /\ can.armed \subseteq {"ERROR"}
       /\ Open = can.armed \union (can.diagnostics \intersect {"STATUS"})
  /\ fg.pc \in {"rearmClearError", "rearmClearEvent"} => can.armed = Open
  /\ fg.pc = "maskSources" => can.armed = Open /\ Open \subseteq fg.mask
  /\ fg.pc = "maskError" => Open = {}
  /\ fg.pc = "maskStatus" => Open = {} /\ "ERROR" \notin can.armed

\* A latched fault keeps its sources masked.
LatchInv ==
  /\ LatchedMeansMasked
  /\ ~can.enabled => ~can.faultPending

\* The bus state start() has not stored yet, and the one stop() has not overwritten.
Starting == fg.op = "start" /\ fg.pc \in {"startModule"} \union BeforeStore
BusInv ==
  /\ can.controllerState # "RUNNING" /\ fg.pc # "stopBusState" =>
       canDiagnostics.busState = STOPPED
  /\ can.controllerState = "RUNNING" /\ ~Starting => canDiagnostics.busState # STOPPED

\* What a snapshot copied is still current.
CopyInv ==
  /\ fg.pc \in {"copyCounts", "reopen"} =>
       /\ fg.copy.busState = canDiagnostics.busState
       /\ fg.copy.lastProtocolError = canDiagnostics.lastProtocolError
  /\ fg.pc = "reopen" =>
       /\ fg.copy.warningEntryCount = canDiagnostics.warningEntryCount
       /\ fg.copy.passiveEntryCount = canDiagnostics.passiveEntryCount
       /\ fg.copy.busOffEntryCount = canDiagnostics.busOffEntryCount

HandOverInv == CallInv /\ GateInv /\ ArmInv /\ LatchInv /\ BusInv /\ CopyInv
ControllerInv == TypeOK /\ HandOverInv
-----------------------------------------------------------------------------
(* Types *)

Object ==
  [controllerState : {"UNINITIALIZED", "STOPPED", "RUNNING"},
   lastObservedBusState : STOPPED..BUS_OFF,
   rxReady : BOOLEAN, txReady : BOOLEAN, configured : BOOLEAN, enabled : BOOLEAN,
   diagnostics : SUBSET Diagnostic, armed : SUBSET Diagnostic,
   currentProtocolError : BOOLEAN, faultPending : BOOLEAN]
Operation == {"none", "start", "process", "stop", "rearm", "mask", "event", "snapshot"}
Result == {"none", "OK", "EMPTY", "TIMEOUT"}
Call ==
  [pc : Steps, op : Operation, status : Status, previous : STOPPED..BUS_OFF,
   mask : SUBSET Diagnostic, gated : SUBSET Line, copy : Diagnostics, result : Result]

LEMMA TypeParts ==
  TypeOK <=>
    /\ can \in Object /\ canDiagnostics \in Diagnostics /\ hw \in Registers
    /\ pie \in BOOLEAN /\ awaiting \in BOOLEAN /\ fg \in Call
    /\ crossings \in Nat /\ changes \in 0..MaxChanges
  BY Zenon DEF TypeOK, Object, Call, Operation, Result

LEMMA TypePartsNext ==
  TypeOK' <=>
    /\ can' \in Object /\ canDiagnostics' \in Diagnostics /\ hw' \in Registers
    /\ pie' \in BOOLEAN /\ awaiting' \in BOOLEAN /\ fg' \in Call
    /\ crossings' \in Nat /\ changes' \in 0..MaxChanges
  BY Zenon DEF TypeOK, Object, Call, Operation, Result

LEMMA BusStates == STOPPED..BUS_OFF = {0, 1, 2, 3, 4}
  BY DEF STOPPED, BUS_OFF

LEMMA CurrentTyped ==
  ASSUME NEW c
  PROVE  CurrentBusState(c) \in STOPPED..BUS_OFF /\ CurrentBusState(c) # STOPPED
  BY BusStates
     DEF CurrentBusState, STOPPED, ERROR_ACTIVE, WARNING, ERROR_PASSIVE, BUS_OFF

\* What the foreground does to its record of the call.
LEMMA CallTyped ==
  ASSUME fg \in Call
  PROVE  /\ \A p \in Steps : Goto(p) => fg' \in Call
         /\ \A r \in Result : Return(r) => fg' \in Call
         /\ \A p \in Steps, o \in Operation : [IdleCall EXCEPT !.pc = p, !.op = o] \in Call
         /\ IdleCall \in Call
<1>1. "idle" \in Steps
  BY DEF Steps
<1>2. NoStatus \in Status /\ NoDiagnostics \in Diagnostics /\ STOPPED \in STOPPED..BUS_OFF
  BY BusStates DEF NoStatus, Status, Confinement, NoDiagnostics, Diagnostics, STOPPED
<1>3. IdleCall \in Call
  BY <1>1, <1>2 DEF IdleCall, Call, Operation, Result
<1>4. ASSUME NEW p \in Steps, Goto(p) PROVE fg' \in Call
  BY <1>4 DEF Goto, Call
<1>5. ASSUME NEW r \in Result, Return(r) PROVE fg' \in Call
  BY <1>3, <1>5 DEF Return, Call
<1>6. ASSUME NEW p \in Steps, NEW o \in Operation
      PROVE  [IdleCall EXCEPT !.pc = p, !.op = o] \in Call
  BY <1>3 DEF Call
<1> QED BY <1>3, <1>4, <1>5, <1>6, Zenon

LEMMA StatusTyped ==
  ASSUME hw \in Registers
  PROVE  /\ StatusOf(hw) \in Status
         /\ ReadStatus(hw) \in Registers
         /\ \A s \in SUBSET Source :
              /\ [hw EXCEPT !.sources = s] \in Registers
              /\ [ReadStatus(hw) EXCEPT !.sources = s] \in Registers
         /\ \A l \in SUBSET Line : [hw EXCEPT !.lines = l] \in Registers
         /\ \A b \in BOOLEAN :
              [hw EXCEPT !.init = b] \in Registers /\ [hw EXCEPT !.retry = b] \in Registers
<1>1. StatusOf(hw) \in Status
  BY DEF StatusOf, Status, Registers
<1>2. ReadStatus(hw) \in Registers
  BY DEF ReadStatus, Registers
<1>3. ASSUME NEW r \in Registers, NEW s \in SUBSET Source PROVE [r EXCEPT !.sources = s] \in Registers
  BY DEF Registers
<1>4. ASSUME NEW l \in SUBSET Line PROVE [hw EXCEPT !.lines = l] \in Registers
  BY DEF Registers
<1>5. ASSUME NEW b \in BOOLEAN
      PROVE  [hw EXCEPT !.init = b] \in Registers /\ [hw EXCEPT !.retry = b] \in Registers
  BY DEF Registers
<1> QED BY <1>1, <1>2, <1>3, <1>4, <1>5, Zenon

LEMMA CountTyped ==
  ASSUME NEW d \in Diagnostics, NEW previous, NEW current
  PROVE  CountEntries(d, previous, current) \in Diagnostics
<1> DEFINE Crossed(n, threshold) ==
             IF previous < threshold /\ current >= threshold THEN n + 1 ELSE n
           w == Crossed(d.warningEntryCount, WARNING)
           p == Crossed(d.passiveEntryCount, ERROR_PASSIVE)
           b == Crossed(d.busOffEntryCount, BUS_OFF)
<1>1. w \in Nat /\ p \in Nat /\ b \in Nat
  BY DEF Diagnostics
<1>2. CountEntries(d, previous, current) =
        [d EXCEPT !.warningEntryCount = w, !.passiveEntryCount = p, !.busOffEntryCount = b]
  BY DEF CountEntries
<1> HIDE DEF w, p, b
<1> QED BY <1>1, <1>2 DEF Diagnostics

LEMMA DiagnosticsTyped ==
  ASSUME NEW d \in Diagnostics
  PROVE  /\ \A s \in STOPPED..BUS_OFF : StoreBusState(d, s) \in Diagnostics
         /\ \A e \in ProtocolError \union {"NONE"} : RecordError(d, e) \in Diagnostics
  BY DEF StoreBusState, RecordError, Diagnostics

LEMMA LinesTyped ==
  ASSUME can \in Object
  PROVE  ConfiguredLines \subseteq Line /\ ConfiguredSources \subseteq Source
         /\ can.diagnostics \subseteq Source /\ can.armed \subseteq Source
  BY DEF ConfiguredLines, ConfiguredSources, Line, Source, Object

LEMMA StepNames ==
  /\ "startModule" \in Steps /\ "readStatus" \in Steps /\ "readPrevious" \in Steps
  /\ "countEntries" \in Steps /\ "storeState" \in Steps
  /\ "storeObserved" \in Steps /\ "clearError" \in Steps
  /\ "recordError" \in Steps /\ "flagError" \in Steps
  /\ "stopState" \in Steps /\ "stopBusState" \in Steps /\ "rearmSources" \in Steps
  /\ "rearmError" \in Steps /\ "rearmStatus" \in Steps /\ "rearmClearError" \in Steps
  /\ "rearmClearEvent" \in Steps /\ "maskSources" \in Steps /\ "maskError" \in Steps
  /\ "maskStatus" \in Steps /\ "takeEvent" \in Steps /\ "copyState" \in Steps
  /\ "copyCounts" \in Steps /\ "reopen" \in Steps
  /\ "OK" \in Result /\ "EMPTY" \in Result /\ "TIMEOUT" \in Result
  BY DEF Steps, Result

LEMMA OperationNames ==
  /\ "start" \in Operation /\ "process" \in Operation /\ "stop" \in Operation
  /\ "rearm" \in Operation /\ "mask" \in Operation /\ "event" \in Operation
  /\ "snapshot" \in Operation
  BY DEF Operation

LEMMA InitTyped == Init => TypeOK
<1> SUFFICES ASSUME Init PROVE TypeOK
  OBVIOUS
<1>1. can \in Object /\ canDiagnostics \in Diagnostics /\ hw \in Registers
  <2>1. can \in Object
    BY BusStates DEF Init, CleanObject, Object, STOPPED
  <2>2. canDiagnostics \in Diagnostics
    BY BusStates DEF Init, NoDiagnostics, Diagnostics, STOPPED
  <2>3. hw \in Registers
    BY DEF Init, Registers, Confinement
  <2> QED BY <2>1, <2>2, <2>3
<1>2. fg \in Call
  <2>1. "idle" \in Steps
    BY DEF Steps
  <2>2. NoStatus \in Status /\ NoDiagnostics \in Diagnostics /\ STOPPED \in STOPPED..BUS_OFF
    BY BusStates DEF NoStatus, Status, Confinement, NoDiagnostics, Diagnostics, STOPPED
  <2> QED BY <2>1, <2>2 DEF Init, IdleCall, Call, Operation, Result
<1>3. pie = FALSE /\ awaiting = FALSE /\ crossings = 0 /\ changes = 0
  BY Zenon DEF Init
<1>4. 0 \in Nat /\ 0 \in 0..MaxChanges
  BY ControllerAssumption
<1> QED BY <1>1, <1>2, <1>3, <1>4, TypeParts

\* The peripheral, the platform's gate and the ISR.
LEMMA BusStatusTyped ==
  ASSUME TypeOK, NEW c \in Confinement, BusStatusChange(c)
  PROVE  TypeOK'
<1>a. /\ can \in Object /\ canDiagnostics \in Diagnostics /\ hw \in Registers
      /\ pie \in BOOLEAN /\ awaiting \in BOOLEAN /\ fg \in Call
      /\ crossings \in Nat /\ changes \in 0..MaxChanges
  BY TypeParts
<1>1. hw' \in Registers
  <2>1. hw' = [hw EXCEPT !.confinement = c, !.causes = hw.causes \union {"ERROR"},
                         !.init = "BUS_OFF" \in c]
    BY Zenon DEF BusStatusChange
  <2>2. ("BUS_OFF" \in c) \in BOOLEAN
    OBVIOUS
  <2> QED BY <1>a, <2>1, <2>2 DEF Registers, Diagnostic
<1>2. changes' \in 0..MaxChanges
  BY <1>a, ControllerAssumption DEF BusStatusChange
<1>3. crossings' \in Nat
  BY <1>a DEF BusStatusChange
<1> QED BY <1>a, <1>1, <1>2, <1>3, TypePartsNext DEF BusStatusChange

LEMMA FrameTyped ==
  ASSUME TypeOK, NEW lec \in ProtocolError \union {"NONE"}, FrameStatus(lec)
  PROVE  TypeOK'
<1>a. /\ can \in Object /\ canDiagnostics \in Diagnostics /\ hw \in Registers
      /\ pie \in BOOLEAN /\ awaiting \in BOOLEAN /\ fg \in Call
      /\ crossings \in Nat /\ changes \in 0..MaxChanges
  BY TypeParts
<1>1. hw' \in Registers
  BY <1>a DEF FrameStatus, Registers, Diagnostic
<1>2. changes' \in 0..MaxChanges
  BY <1>a, ControllerAssumption DEF FrameStatus
<1> QED BY <1>a, <1>1, <1>2, TypePartsNext DEF FrameStatus

LEMMA PieTyped == ASSUME TypeOK, SetPie PROVE TypeOK'
<1>a. /\ can \in Object /\ canDiagnostics \in Diagnostics /\ hw \in Registers
      /\ pie \in BOOLEAN /\ awaiting \in BOOLEAN /\ fg \in Call
      /\ crossings \in Nat /\ changes \in 0..MaxChanges
  BY TypeParts
<1> QED BY <1>a, TypePartsNext DEF SetPie, history

LEMMA IsrTyped == ASSUME TypeOK, DiagnosticIsr PROVE TypeOK'
<1>a. /\ can \in Object /\ canDiagnostics \in Diagnostics /\ hw \in Registers
      /\ pie \in BOOLEAN /\ awaiting \in BOOLEAN /\ fg \in Call
      /\ crossings \in Nat /\ changes \in 0..MaxChanges
  BY TypeParts
<1> DEFINE masks == IsFault(hw) /\ MayMask
<1>1. /\ canDiagnostics' = Captured(canDiagnostics, can.lastObservedBusState, hw)
      /\ hw' = [ReadStatus(hw) EXCEPT !.sources =
                  IF masks THEN ReadStatus(hw).sources \ can.armed ELSE ReadStatus(hw).sources]
      /\ can' = [can EXCEPT
           !.lastObservedBusState = CurrentBusState(hw.confinement),
           !.currentProtocolError = (hw.lec # "NONE"),
           !.armed = IF masks THEN {} ELSE can.armed,
           !.faultPending = IF masks THEN TRUE ELSE can.faultPending]
      /\ awaiting' = (awaiting \/ masks)
      /\ UNCHANGED <<pie, fg, crossings, changes>>
  BY Zenon DEF DiagnosticIsr
<1>2. canDiagnostics' \in Diagnostics
  <2>1. CountEntries(canDiagnostics, can.lastObservedBusState, CurrentBusState(hw.confinement))
          \in Diagnostics
    BY <1>a, CountTyped
  <2>2. StoreBusState(CountEntries(canDiagnostics, can.lastObservedBusState,
            CurrentBusState(hw.confinement)), CurrentBusState(hw.confinement)) \in Diagnostics
    BY <2>1, DiagnosticsTyped, CurrentTyped
  <2>3. hw.lec \in ProtocolError \union {"NONE"}
    BY <1>a DEF Registers
  <2> QED BY <1>1, <2>2, <2>3, DiagnosticsTyped, Zenon DEF Captured
<1>3. hw' \in Registers
  <2>1. ReadStatus(hw) \in Registers
    BY <1>a, StatusTyped, Zenon
  <2>2. ReadStatus(hw).sources \in SUBSET Source
    BY <2>1 DEF Registers
  <2> QED BY <1>a, <1>1, <2>2, StatusTyped
<1>4. can' \in Object
  <2>1. CurrentBusState(hw.confinement) \in STOPPED..BUS_OFF
    BY CurrentTyped
  <2>2. /\ (hw.lec # "NONE") \in BOOLEAN
        /\ (IF masks THEN {} ELSE can.armed) \in SUBSET Diagnostic
        /\ (IF masks THEN TRUE ELSE can.faultPending) \in BOOLEAN
    BY <1>a DEF Object
  <2> HIDE DEF masks
  <2> QED BY <1>a, <1>1, <2>1, <2>2 DEF Object
<1>5. awaiting' \in BOOLEAN
  BY <1>1
<1> HIDE DEF masks
<1> QED BY <1>a, <1>1, <1>2, <1>3, <1>4, <1>5, TypePartsNext

\* The calls that are one step.
LEMMA CleanTyped ==
  /\ CleanObject \in Object /\ [CleanObject EXCEPT !.controllerState = "STOPPED"] \in Object
  /\ NoDiagnostics \in Diagnostics
<1>1. CleanObject \in Object
  BY BusStates DEF CleanObject, Object, STOPPED
<1>2. NoDiagnostics \in Diagnostics
  BY BusStates DEF NoDiagnostics, Diagnostics, STOPPED
<1> QED BY <1>1, <1>2 DEF Object

LEMMA InitControllerTyped ==
  ASSUME TypeOK, NEW retry \in BOOLEAN, NEW timeout \in BOOLEAN,
         InitController(retry, timeout)
  PROVE  TypeOK'
<1>a. /\ can \in Object /\ canDiagnostics \in Diagnostics /\ hw \in Registers
      /\ pie \in BOOLEAN /\ awaiting \in BOOLEAN /\ fg \in Call
      /\ crossings \in Nat /\ changes \in 0..MaxChanges
  BY TypeParts
<1>b. \A r \in Result : Return(r) => fg' \in Call
  BY <1>a, CallTyped, Zenon
<1>1. /\ canDiagnostics' = NoDiagnostics /\ awaiting' = FALSE /\ UNCHANGED <<pie, changes>>
      /\ timeout => /\ can' = CleanObject /\ hw' = [hw EXCEPT !.init = TRUE]
                    /\ crossings' = crossings /\ Return("TIMEOUT")
      /\ ~timeout => /\ can' = [CleanObject EXCEPT !.controllerState = "STOPPED"]
                     /\ hw' = [init |-> TRUE, retry |-> retry, confinement |-> {}, lec |-> "NONE",
                               causes |-> {}, sources |-> {}, lines |-> {}]
                     /\ crossings' = 0 /\ Return("OK")
  BY Zenon DEF InitController, ObjectOnTimeout
<1>2. can' \in Object /\ canDiagnostics' \in Diagnostics
  BY <1>1, CleanTyped, Zenon
<1>3. hw' \in Registers
  <2>1. [init |-> TRUE, retry |-> retry, confinement |-> {}, lec |-> "NONE",
         causes |-> {}, sources |-> {}, lines |-> {}] \in Registers
    BY DEF Registers, Confinement
  <2> QED BY <1>a, <1>1, <2>1, StatusTyped, Zenon
<1>4. fg' \in Call
  BY <1>b, <1>1, StepNames, Zenon
<1>5. crossings' \in Nat
  BY <1>a, <1>1
<1>6. pie' \in BOOLEAN /\ awaiting' \in BOOLEAN /\ changes' \in 0..MaxChanges
  BY <1>a, <1>1, Zenon
<1> QED BY <1>2, <1>3, <1>4, <1>5, <1>6, TypePartsNext

LEMMA ConfigureTyped ==
  ASSUME TypeOK, NEW rx \in BOOLEAN, NEW tx \in BOOLEAN, NEW diagnostics \in SUBSET Diagnostic,
         ConfigureInterrupts(rx, tx, diagnostics)
  PROVE  TypeOK'
<1>a. /\ can \in Object /\ canDiagnostics \in Diagnostics /\ hw \in Registers
      /\ pie \in BOOLEAN /\ awaiting \in BOOLEAN /\ fg \in Call
      /\ crossings \in Nat /\ changes \in 0..MaxChanges
  BY TypeParts
<1>b. \A r \in Result : Return(r) => fg' \in Call
  BY <1>a, CallTyped, Zenon
<1>1. can' \in Object
  BY <1>a DEF ConfigureInterrupts, Object
<1>2. fg' \in Call
  BY <1>b, StepNames, Zenon DEF ConfigureInterrupts
<1> QED BY <1>a, <1>1, <1>2, TypePartsNext DEF ConfigureInterrupts

LEMMA EnableTyped == ASSUME TypeOK, EnableInterrupts PROVE TypeOK'
<1>a. /\ can \in Object /\ canDiagnostics \in Diagnostics /\ hw \in Registers
      /\ pie \in BOOLEAN /\ awaiting \in BOOLEAN /\ fg \in Call
      /\ crossings \in Nat /\ changes \in 0..MaxChanges
  BY TypeParts
<1>b. \A r \in Result : Return(r) => fg' \in Call
  BY <1>a, CallTyped, Zenon
<1>1. can' \in Object
  BY <1>a DEF EnableInterrupts, Object
<1>2. fg' \in Call
  BY <1>b, StepNames, Zenon DEF EnableInterrupts
<1>3. hw' \in Registers
  <2> DEFINE h == IF can.diagnostics = {} THEN hw ELSE ReadStatus(hw)
  <2>1. h \in Registers
    BY <1>a, StatusTyped, Zenon
  <2>2. hw' = [h EXCEPT !.sources = h.sources \union ConfiguredSources,
                        !.lines = h.lines \union ConfiguredLines]
    BY Zenon DEF EnableInterrupts
  <2>3. ConfiguredLines \subseteq Line /\ ConfiguredSources \subseteq Source
    BY <1>a, LinesTyped
  <2> HIDE DEF h
  <2> QED BY <2>1, <2>2, <2>3 DEF Registers
<1> QED BY <1>a, <1>1, <1>2, <1>3, TypePartsNext DEF EnableInterrupts, history

LEMMA DisableTyped == ASSUME TypeOK, DisableInterrupts PROVE TypeOK'
<1>a. /\ can \in Object /\ canDiagnostics \in Diagnostics /\ hw \in Registers
      /\ pie \in BOOLEAN /\ awaiting \in BOOLEAN /\ fg \in Call
      /\ crossings \in Nat /\ changes \in 0..MaxChanges
  BY TypeParts
<1>b. \A r \in Result : Return(r) => fg' \in Call
  BY <1>a, CallTyped, Zenon
<1>1. can' \in Object
  BY <1>a DEF DisableInterrupts, Object
<1>2. fg' \in Call
  BY <1>b, StepNames, Zenon DEF DisableInterrupts
<1>3. hw' \in Registers
  BY <1>a DEF DisableInterrupts, Registers
<1> QED BY <1>a, <1>1, <1>2, <1>3, TypePartsNext DEF DisableInterrupts

LEMMA RetransmissionTyped ==
  ASSUME TypeOK, NEW retry \in BOOLEAN, SetAutoRetransmission(retry)
  PROVE  TypeOK'
<1>a. /\ can \in Object /\ canDiagnostics \in Diagnostics /\ hw \in Registers
      /\ pie \in BOOLEAN /\ awaiting \in BOOLEAN /\ fg \in Call
      /\ crossings \in Nat /\ changes \in 0..MaxChanges
  BY TypeParts
<1>b. \A r \in Result : Return(r) => fg' \in Call
  BY <1>a, CallTyped, Zenon
<1>1. fg' \in Call
  BY <1>b, StepNames, Zenon DEF SetAutoRetransmission
<1>2. hw' \in Registers
  BY <1>a, StatusTyped DEF SetAutoRetransmission
<1> QED BY <1>a, <1>1, <1>2, TypePartsNext DEF SetAutoRetransmission, history

\* start(), process() and stop().
LEMMA LifecycleTyped ==
  ASSUME TypeOK,
         \/ StartCall \/ ProcessCall \/ StopCall
         \/ StartModule \/ StopState \/ StopBusState
         \/ CaptureStatus \/ CapturePrevious \/ CaptureEntries \/ CaptureState
         \/ CaptureObserved \/ CaptureClearError \/ CaptureError \/ CaptureErrorFlag
  PROVE  TypeOK'
<1>a. /\ can \in Object /\ canDiagnostics \in Diagnostics /\ hw \in Registers
      /\ pie \in BOOLEAN /\ awaiting \in BOOLEAN /\ fg \in Call
      /\ crossings \in Nat /\ changes \in 0..MaxChanges
  BY TypeParts
<1>b. /\ \A p \in Steps : Goto(p) => fg' \in Call
      /\ \A r \in Result : Return(r) => fg' \in Call
      /\ \A p \in Steps, o \in Operation : [IdleCall EXCEPT !.pc = p, !.op = o] \in Call
  BY <1>a, CallTyped, Zenon
<1>1. CASE StartCall
  <2>1. can' \in Object
    BY <1>a, <1>1 DEF StartCall, Object
  <2>2. fg' \in Call
    BY <1>b, <1>1, StepNames, OperationNames, Zenon DEF StartCall
  <2> QED BY <1>1, <1>a, <2>1, <2>2, TypePartsNext DEF StartCall, history
<1>2. CASE ProcessCall
  <2>1. fg' \in Call
    BY <1>b, <1>2, StepNames, OperationNames, Zenon DEF ProcessCall
  <2> QED BY <1>2, <1>a, <2>1, TypePartsNext DEF ProcessCall, history
<1>3. CASE StopCall
  <2>1. fg' \in Call
    BY <1>b, <1>3, StepNames, OperationNames, Zenon DEF StopCall
  <2>2. hw' \in Registers
    BY <1>a, <1>3, StatusTyped DEF StopCall
  <2> QED BY <1>3, <1>a, <2>1, <2>2, TypePartsNext DEF StopCall, history
<1>4. CASE StartModule
  <2>1. fg' \in Call
    BY <1>b, <1>4, StepNames, Zenon DEF StartModule
  <2>2. hw' \in Registers
    BY <1>a, <1>4, StatusTyped DEF StartModule
  <2> QED BY <1>4, <1>a, <2>1, <2>2, TypePartsNext DEF StartModule, history
<1>5. CASE StopState
  <2>1. fg' \in Call
    BY <1>b, <1>5, StepNames, Zenon DEF StopState
  <2>2. can' \in Object
    BY <1>a, <1>5 DEF StopState, Object
  <2> QED BY <1>5, <1>a, <2>1, <2>2, TypePartsNext DEF StopState, history
<1>6. CASE StopBusState
  <2>1. fg' \in Call
    BY <1>b, <1>6, StepNames, Zenon DEF StopBusState
  <2>2. canDiagnostics' \in Diagnostics
    BY <1>a, <1>6, DiagnosticsTyped, BusStates DEF StopBusState, STOPPED
  <2> QED BY <1>6, <1>a, <2>1, <2>2, TypePartsNext DEF StopBusState, history
<1>7. CASE CaptureStatus
  <2>1. hw' \in Registers /\ StatusOf(hw) \in Status
    BY <1>a, <1>7, StatusTyped, Zenon DEF CaptureStatus
  <2>2. fg' \in Call
    BY <1>a, <1>7, <2>1, StepNames DEF CaptureStatus, Call
  <2> QED BY <1>7, <1>a, <2>1, <2>2, TypePartsNext DEF CaptureStatus, history
<1>8. CASE CapturePrevious
  <2>1. can.lastObservedBusState \in STOPPED..BUS_OFF
    BY <1>a DEF Object
  <2>2. fg' \in Call
    BY <1>a, <1>8, <2>1, StepNames DEF CapturePrevious, Call
  <2> QED BY <1>8, <1>a, <2>2, TypePartsNext DEF CapturePrevious, history
<1>9. CASE CaptureEntries
  <2>1. fg' \in Call
    BY <1>b, <1>9, StepNames, Zenon DEF CaptureEntries
  <2>2. canDiagnostics' \in Diagnostics
    BY <1>a, <1>9, CountTyped, Zenon DEF CaptureEntries
  <2> QED BY <1>9, <1>a, <2>1, <2>2, TypePartsNext DEF CaptureEntries, history
<1>10. CASE CaptureState
  <2>1. canDiagnostics' \in Diagnostics
    BY <1>a, <1>10, CurrentTyped, DiagnosticsTyped, Zenon DEF CaptureState
  <2>2. fg' \in Call
    BY <1>b, <1>10, StepNames, Zenon DEF CaptureState
  <2> QED BY <1>10, <1>a, <2>1, <2>2, TypePartsNext DEF CaptureState, history
<1>11. CASE CaptureObserved
  <2>1. can' \in Object
    <3> DEFINE current == CurrentBusState(fg.status.confinement)
    <3>1. can' = [can EXCEPT !.lastObservedBusState = current]
      BY <1>11, Zenon DEF CaptureObserved
    <3>2. current \in STOPPED..BUS_OFF
      BY CurrentTyped, Zenon
    <3> HIDE DEF current
    <3> QED BY <1>a, <3>1, <3>2 DEF Object
  <2>2. fg' \in Call
    BY <1>b, <1>11, StepNames, Zenon DEF CaptureObserved
  <2> QED BY <1>11, <1>a, <2>1, <2>2, TypePartsNext DEF CaptureObserved, history
<1>12. CASE CaptureClearError
  <2>1. can' \in Object
    BY <1>a, <1>12 DEF CaptureClearError, Object
  <2>2. fg' \in Call
    BY <1>b, <1>12, StepNames, Zenon DEF CaptureClearError
  <2> QED BY <1>12, <1>a, <2>1, <2>2, TypePartsNext DEF CaptureClearError, history
<1>13. CASE CaptureError
  <2>1. fg.status.lec \in ProtocolError \union {"NONE"}
    BY <1>a DEF Call, Status
  <2>2. canDiagnostics' \in Diagnostics
    BY <1>a, <1>13, <2>1, DiagnosticsTyped, Zenon DEF CaptureError
  <2>3. fg' \in Call
    BY <1>b, <1>13, StepNames, Zenon DEF CaptureError
  <2> QED BY <1>13, <1>a, <2>2, <2>3, TypePartsNext DEF CaptureError, history
<1>14. CASE CaptureErrorFlag
  <2>1. can' \in Object
    BY <1>a, <1>14 DEF CaptureErrorFlag, Object
  <2>2. fg' \in Call
    BY <1>b, <1>14, StepNames, Zenon DEF CaptureErrorFlag
  <2> QED BY <1>14, <1>a, <2>1, <2>2, TypePartsNext DEF CaptureErrorFlag, history
<1> QED
  BY <1>1, <1>2, <1>3, <1>4, <1>5, <1>6, <1>7, <1>8, <1>9, <1>10, <1>11, <1>12, <1>13,
     <1>14, Zenon

\* Rearm, mask, take an event, take a snapshot.
LEMMA DiagnosticCallsTyped ==
  ASSUME TypeOK,
         \/ RearmCall \/ RearmSources \/ RearmErrorFlag \/ RearmStatusFlag
         \/ RearmClearError \/ RearmClearEvent
         \/ MaskCall \/ MaskSources \/ MaskErrorFlag \/ MaskStatusFlag
         \/ EventCheck \/ TakeEvent
         \/ GateLines \/ CopyState \/ CopyCounts \/ ReopenLines
  PROVE  TypeOK'
<1>a. /\ can \in Object /\ canDiagnostics \in Diagnostics /\ hw \in Registers
      /\ pie \in BOOLEAN /\ awaiting \in BOOLEAN /\ fg \in Call
      /\ crossings \in Nat /\ changes \in 0..MaxChanges
  BY TypeParts
<1>b. /\ \A p \in Steps : Goto(p) => fg' \in Call
      /\ \A r \in Result : Return(r) => fg' \in Call
      /\ \A p \in Steps, o \in Operation : [IdleCall EXCEPT !.pc = p, !.op = o] \in Call
  BY <1>a, CallTyped, Zenon
<1>c. /\ hw.sources \in SUBSET Source /\ hw.lines \in SUBSET Line
      /\ can.diagnostics \in SUBSET Diagnostic /\ can.armed \in SUBSET Diagnostic
      /\ Diagnostic \subseteq Source
  BY <1>a DEF Registers, Object, Source
<1>d. \A s \in SUBSET Diagnostic : [can EXCEPT !.armed = s] \in Object
  BY <1>a DEF Object
<1>e. [can EXCEPT !.faultPending = FALSE] \in Object
  BY <1>a DEF Object
<1>1. CASE RearmCall
  <2>1. hw' \in Registers
    BY <1>a, <1>1, StatusTyped, Zenon DEF RearmCall
  <2>2. fg' \in Call
    BY <1>b, <1>1, StepNames, OperationNames, Zenon DEF RearmCall
  <2> QED BY <1>1, <1>a, <2>1, <2>2, TypePartsNext DEF RearmCall
<1>2. CASE RearmSources
  <2>1. hw' \in Registers
    BY <1>a, <1>2, <1>c, StatusTyped DEF RearmSources
  <2>2. fg' \in Call
    BY <1>b, <1>2, StepNames, Zenon DEF RearmSources
  <2> QED BY <1>2, <1>a, <2>1, <2>2, TypePartsNext DEF RearmSources, history
<1>3. CASE RearmErrorFlag \/ RearmStatusFlag
  <2>1. can' \in Object
    <3>1. \E source : can' = [can EXCEPT !.armed =
                        (can.armed \ {source}) \union (can.diagnostics \intersect {source})]
      BY <1>3, Zenon DEF RearmErrorFlag, RearmStatusFlag, ArmFlag
    <3> QED BY <1>c, <1>d, <3>1
  <2>2. fg' \in Call
    BY <1>b, <1>3, StepNames, Zenon DEF RearmErrorFlag, RearmStatusFlag
  <2>3. UNCHANGED <<canDiagnostics, hw, pie, history>>
    BY <1>3, Zenon DEF RearmErrorFlag, RearmStatusFlag
  <2> QED BY <1>a, <2>1, <2>2, <2>3, TypePartsNext DEF history
<1>4. CASE RearmClearError
  <2>1. can' \in Object
    BY <1>a, <1>4 DEF RearmClearError, Object
  <2>2. fg' \in Call
    BY <1>b, <1>4, StepNames, Zenon DEF RearmClearError
  <2> QED BY <1>4, <1>a, <2>1, <2>2, TypePartsNext DEF RearmClearError, history
<1>5. CASE RearmClearEvent
  <2>1. can' \in Object
    BY <1>e, <1>5, Zenon DEF RearmClearEvent
  <2>2. fg' \in Call
    BY <1>b, <1>5, StepNames, Zenon DEF RearmClearEvent
  <2> QED BY <1>5, <1>a, <2>1, <2>2, TypePartsNext DEF RearmClearEvent, history
<1>6. CASE MaskCall
  <2>1. fg' = [[IdleCall EXCEPT !.pc = "maskSources", !.op = "mask"] EXCEPT !.mask = can.armed]
    BY <1>6, Zenon DEF MaskCall
  <2>2. [IdleCall EXCEPT !.pc = "maskSources", !.op = "mask"] \in Call
    BY <1>b, StepNames, OperationNames, Zenon
  <2>3. fg' \in Call
    BY <1>c, <2>1, <2>2 DEF Call
  <2> QED BY <1>6, <1>a, <2>3, TypePartsNext DEF MaskCall, history
<1>7. CASE MaskSources
  <2>1. hw' \in Registers
    BY <1>a, <1>7, <1>c, StatusTyped DEF MaskSources
  <2>2. fg' \in Call
    BY <1>b, <1>7, StepNames, Zenon DEF MaskSources
  <2> QED BY <1>7, <1>a, <2>1, <2>2, TypePartsNext DEF MaskSources, history
<1>8. CASE MaskErrorFlag \/ MaskStatusFlag
  <2>1. can' \in Object
    <3>1. \E source : can' = [can EXCEPT !.armed = can.armed \ {source}]
      BY <1>8, Zenon DEF MaskErrorFlag, MaskStatusFlag
    <3> QED BY <1>c, <1>d, <3>1
  <2>2. fg' \in Call
    BY <1>b, <1>8, StepNames, Zenon DEF MaskErrorFlag, MaskStatusFlag
  <2>3. UNCHANGED <<canDiagnostics, hw, pie, history>>
    BY <1>8, Zenon DEF MaskErrorFlag, MaskStatusFlag
  <2> QED BY <1>a, <2>1, <2>2, <2>3, TypePartsNext DEF history
<1>9. CASE EventCheck
  <2>1. fg' \in Call
    BY <1>b, <1>9, StepNames, OperationNames, Zenon DEF EventCheck
  <2> QED BY <1>9, <1>a, <2>1, TypePartsNext DEF EventCheck, history
<1>10. CASE TakeEvent
  <2>1. can' \in Object
    BY <1>e, <1>10, Zenon DEF TakeEvent
  <2>2. fg' \in Call
    BY <1>b, <1>10, StepNames, Zenon DEF TakeEvent
  <2> QED BY <1>10, <1>a, <2>1, <2>2, TypePartsNext DEF TakeEvent
<1>11. CASE GateLines
  <2>1. LinesToGate \in SUBSET Line
    BY <1>a, LinesTyped DEF LinesToGate
  <2>2. hw' \in Registers
    BY <1>a, <1>c, <1>11, StatusTyped DEF GateLines
  <2>3. fg' = [[IdleCall EXCEPT !.pc = "copyState", !.op = "snapshot"] EXCEPT !.gated = LinesToGate]
    BY <1>11, Zenon DEF GateLines
  <2>4. [IdleCall EXCEPT !.pc = "copyState", !.op = "snapshot"] \in Call
    BY <1>b, StepNames, OperationNames, Zenon
  <2>5. fg' \in Call
    BY <2>1, <2>3, <2>4 DEF Call
  <2> QED BY <1>11, <1>a, <2>2, <2>5, TypePartsNext DEF GateLines, history
<1>12. CASE CopyState \/ CopyCounts
  <2>1. UNCHANGED <<can, canDiagnostics, hw, pie, history>>
    BY <1>12, Zenon DEF CopyState, CopyCounts
  <2>2. CASE CopyState
    BY <1>a, <2>1, <2>2, StepNames, TypePartsNext DEF CopyState, Call, Diagnostics, history
  <2>3. CASE CopyCounts
    BY <1>a, <2>1, <2>3, StepNames, TypePartsNext DEF CopyCounts, Call, Diagnostics, history
  <2> QED BY <1>12, <2>2, <2>3
<1>13. CASE ReopenLines
  <2>1. fg.gated \in SUBSET Line
    BY <1>a DEF Call
  <2>2. ReopenedLines \in SUBSET Line
    BY <1>c, <2>1 DEF ReopenedLines
  <2>3. hw' \in Registers
    BY <1>a, <1>13, <2>2, StatusTyped DEF ReopenLines
  <2>4. fg' \in Call
    BY <1>b, <1>13, StepNames, Zenon DEF ReopenLines
  <2> QED BY <1>13, <1>a, <2>3, <2>4, TypePartsNext DEF ReopenLines, history
<1> QED
  BY <1>1, <1>2, <1>3, <1>4, <1>5, <1>6, <1>7, <1>8, <1>9, <1>10, <1>11, <1>12, <1>13, Zenon

LEMMA TypeStep == TypeOK /\ [Next]_vars => TypeOK'
<1> SUFFICES ASSUME TypeOK, [Next]_vars PROVE TypeOK'
  OBVIOUS
<1>1. CASE UNCHANGED vars
  BY <1>1, TypeParts, TypePartsNext DEF vars
<1>2. CASE Next
  BY <1>2, BusStatusTyped, FrameTyped, PieTyped, IsrTyped, InitControllerTyped, ConfigureTyped,
     EnableTyped, DisableTyped, RetransmissionTyped, LifecycleTyped, DiagnosticCallsTyped, Zenon
     DEF Next, ForegroundStep
<1> QED BY <1>1, <1>2

-----------------------------------------------------------------------------
(* What an assignment leaves alone *)

ConfigKept ==
  /\ can'.enabled = can.enabled /\ can'.configured = can.configured
  /\ can'.rxReady = can.rxReady /\ can'.txReady = can.txReady
  /\ can'.diagnostics = can.diagnostics
StateKept == can'.controllerState = can.controllerState
ArmKept == can'.armed = can.armed /\ can'.faultPending = can.faultPending
GatesKept == hw'.sources = hw.sources /\ hw'.lines = hw.lines

LEMMA ObjectUpdates ==
  ASSUME can \in Object, NEW x
  PROVE  /\ can' = can => ConfigKept /\ StateKept /\ ArmKept
         /\ can' = [can EXCEPT !.controllerState = x] =>
              ConfigKept /\ ArmKept /\ can'.controllerState = x
         /\ can' = [can EXCEPT !.lastObservedBusState = x] => ConfigKept /\ StateKept /\ ArmKept
         /\ can' = [can EXCEPT !.currentProtocolError = x] => ConfigKept /\ StateKept /\ ArmKept
         /\ can' = [can EXCEPT !.armed = x] =>
              ConfigKept /\ StateKept /\ can'.armed = x /\ can'.faultPending = can.faultPending
         /\ can' = [can EXCEPT !.faultPending = x] =>
              ConfigKept /\ StateKept /\ can'.armed = can.armed /\ can'.faultPending = x
  BY DEF Object, ConfigKept, StateKept, ArmKept

LEMMA RegisterUpdates ==
  ASSUME hw \in Registers, NEW x
  PROVE  /\ hw' = hw => GatesKept /\ hw'.init = hw.init
         /\ hw' = ReadStatus(hw) => GatesKept /\ hw'.init = hw.init
         /\ hw' = [hw EXCEPT !.retry = x] => GatesKept /\ hw'.init = hw.init
         /\ hw' = [hw EXCEPT !.init = x] => GatesKept /\ hw'.init = x
         /\ hw' = [hw EXCEPT !.sources = x] =>
              hw'.sources = x /\ hw'.lines = hw.lines /\ hw'.init = hw.init
         /\ hw' = [hw EXCEPT !.lines = x] =>
              hw'.lines = x /\ hw'.sources = hw.sources /\ hw'.init = hw.init
  BY DEF Registers, ReadStatus, GatesKept

LEMMA GotoFields ==
  ASSUME fg \in Call, NEW p, Goto(p)
  PROVE  /\ fg'.pc = p /\ fg'.op = fg.op /\ fg'.gated = fg.gated /\ fg'.mask = fg.mask
         /\ fg'.copy = fg.copy
  BY DEF Goto, Call

LEMMA IdleFields ==
  /\ IdleCall.pc = "idle" /\ IdleCall.op = "none" /\ IdleCall.gated = {} /\ IdleCall.mask = {}
  /\ \A r : LET f == [IdleCall EXCEPT !.result = r]
            IN  f.pc = "idle" /\ f.op = "none" /\ f.gated = {}
  /\ \A p, o : LET f == [IdleCall EXCEPT !.pc = p, !.op = o]
               IN  f.pc = p /\ f.op = o /\ f.gated = {}
  /\ \A p, o, m : LET f == [IdleCall EXCEPT !.pc = p, !.op = o, !.mask = m]
                  IN  f.pc = p /\ f.op = o /\ f.gated = {} /\ f.mask = m
  /\ \A p, o, g : LET f == [IdleCall EXCEPT !.pc = p, !.op = o, !.gated = g]
                  IN  f.pc = p /\ f.op = o /\ f.gated = g
  BY DEF IdleCall

LEMMA ReturnFields ==
  ASSUME NEW r, Return(r)
  PROVE  fg'.pc = "idle" /\ fg'.op = "none" /\ fg'.gated = {}
  BY IdleFields DEF Return

LEMMA DiagnosticUpdates ==
  ASSUME canDiagnostics \in Diagnostics
  PROVE  /\ \A p, c : CountEntries(canDiagnostics, p, c).busState = canDiagnostics.busState
         /\ \A e : RecordError(canDiagnostics, e).busState = canDiagnostics.busState
         /\ \A s : StoreBusState(canDiagnostics, s).busState = s
  BY DEF Diagnostics, CountEntries, RecordError, StoreBusState

-----------------------------------------------------------------------------
(* What keeps each part of the invariant *)

LEMMA ConfiguredKept ==
  ASSUME ConfigKept
  PROVE  /\ ConfiguredLines' = ConfiguredLines /\ ConfiguredSources' = ConfiguredSources
         /\ LinesToGate' = LinesToGate
  BY DEF ConfigKept, ConfiguredLines, ConfiguredSources, LinesToGate

LEMMA GateKept ==
  ASSUME GateInv, ConfigKept, GatesKept, can'.controllerState # "UNINITIALIZED",
         \/ fg'.op = fg.op /\ fg'.gated = fg.gated
         \/ fg.op # "snapshot" /\ fg'.op # "snapshot" /\ fg'.gated = {}
  PROVE  GateInv'
<1>1. SafeUninitialized'
  BY DEF SafeUninitialized
<1>2. fg'.gated = fg.gated
  BY DEF GateInv
<1>3. GatesMatchConfiguration'
  BY <1>2, ConfiguredKept DEF GateInv, GatesMatchConfiguration, ConfigKept, GatesKept
<1> QED BY <1>1, <1>2, <1>3, ConfiguredKept DEF GateInv

LEMMA LatchKept ==
  ASSUME LatchInv, ConfigKept, ArmKept, GatesKept, fg'.op = "rearm" \/ fg.op # "rearm"
  PROVE  LatchInv'
  BY DEF LatchInv, LatchedMeansMasked, ConfigKept, ArmKept, GatesKept

\* Between calls, and in a call that does not touch them, flags and sources agree.
LEMMA ArmAgrees ==
  ASSUME CallInv', fg'.op \notin {"process", "rearm", "mask"}, can'.armed = Open'
  PROVE  ArmInv'
  BY DEF ArmInv, CallInv, RearmSteps, MaskSteps

LEMMA ArmSame ==
  ASSUME CallInv, ArmInv, ArmKept, GatesKept, CallInv', 
         fg.op \notin {"rearm", "mask"}, fg'.op \notin {"process", "rearm", "mask"}
  PROVE  ArmInv'
  BY ArmAgrees DEF ArmInv, ArmKept, GatesKept, Open

LEMMA BusKept ==
  ASSUME BusInv, StateKept, canDiagnostics'.busState = canDiagnostics.busState,
         fg.pc # "stopBusState", Starting => Starting'
  PROVE  BusInv'
  BY DEF BusInv, StateKept

LEMMA CopyElsewhere ==
  ASSUME fg'.pc \notin {"copyCounts", "reopen"}
  PROVE  CopyInv'
  BY DEF CopyInv

LEMMA InitHandOver == Init => HandOverInv
<1> SUFFICES ASSUME Init PROVE HandOverInv
  OBVIOUS
<1>1. /\ can = CleanObject /\ canDiagnostics = NoDiagnostics /\ fg = IdleCall
      /\ hw = [init |-> TRUE, retry |-> FALSE, confinement |-> {}, lec |-> "NONE",
               causes |-> {}, sources |-> {}, lines |-> {}]
  BY Zenon DEF Init
<1>2. fg.pc = "idle" /\ fg.op = "none" /\ fg.gated = {}
  BY <1>1, IdleFields
<1>3. /\ can.controllerState = "UNINITIALIZED" /\ can.enabled = FALSE /\ can.armed = {}
      /\ can.faultPending = FALSE
  BY <1>1 DEF CleanObject
<1>4. hw.sources = {} /\ hw.lines = {} /\ hw.init = TRUE /\ canDiagnostics.busState = STOPPED
  BY <1>1 DEF NoDiagnostics
<1>5. CallInv
  BY <1>2
     DEF CallInv, CaptureSteps, BeforeStore, AfterStore, RearmSteps, MaskSteps,
         SnapshotSteps
<1>6. GateInv
  BY <1>1, <1>2, <1>3, <1>4 DEF GateInv, GatesMatchConfiguration, SafeUninitialized
<1>7. ArmInv
  BY <1>2, <1>3, <1>4 DEF ArmInv, Open
<1>8. LatchInv /\ BusInv /\ CopyInv
  BY <1>2, <1>3, <1>4 DEF LatchInv, LatchedMeansMasked, BusInv, CopyInv
<1> QED BY <1>5, <1>6, <1>7, <1>8 DEF HandOverInv

-----------------------------------------------------------------------------
(* The steps *)

\* What each step lemma starts from.
LEMMA Parts ==
  ASSUME ControllerInv
  PROVE  /\ TypeOK /\ CallInv /\ GateInv /\ ArmInv /\ LatchInv /\ BusInv /\ CopyInv
         /\ can \in Object /\ canDiagnostics \in Diagnostics /\ hw \in Registers /\ fg \in Call
  BY TypeParts DEF ControllerInv, HandOverInv

LEMMA OutsideKeeps ==
  ASSUME ControllerInv, UNCHANGED <<can, canDiagnostics, fg>>, GatesKept,
         hw'.init = hw.init \/ can.controllerState # "UNINITIALIZED"
  PROVE  HandOverInv'
<1>a. CallInv /\ GateInv /\ ArmInv /\ LatchInv /\ BusInv /\ CopyInv
  BY Parts
<1>1. CallInv' /\ BusInv' /\ CopyInv'
  BY <1>a DEF CallInv, BusInv, Starting, CopyInv
<1>2. GateInv'
  BY <1>a DEF GateInv, GatesMatchConfiguration, SafeUninitialized, GatesKept, LinesToGate,
     ConfiguredLines, ConfiguredSources
<1>3. ArmInv' /\ LatchInv'
  BY <1>a DEF ArmInv, LatchInv, LatchedMeansMasked, GatesKept, Open
<1> QED BY <1>1, <1>2, <1>3 DEF HandOverInv

LEMMA BusStatusKeeps ==
  ASSUME ControllerInv, NEW c \in Confinement, BusStatusChange(c)
  PROVE  HandOverInv'
<1>1. /\ hw' = [hw EXCEPT !.confinement = c, !.causes = hw.causes \union {"ERROR"},
                          !.init = "BUS_OFF" \in c]
      /\ UNCHANGED <<can, canDiagnostics, fg>> /\ ~hw.init
  BY Zenon DEF BusStatusChange
<1>2. GatesKept
  BY <1>1, Parts DEF GatesKept, Registers
<1>3. can.controllerState # "UNINITIALIZED"
  BY <1>1, Parts DEF GateInv, SafeUninitialized
<1> QED BY <1>1, <1>2, <1>3, OutsideKeeps

LEMMA FrameKeeps ==
  ASSUME ControllerInv, NEW lec, FrameStatus(lec)
  PROVE  HandOverInv'
<1>1. /\ hw' = [hw EXCEPT !.lec = lec, !.causes = hw.causes \union {"STATUS"}]
      /\ UNCHANGED <<can, canDiagnostics, fg>>
  BY Zenon DEF FrameStatus
<1>2. GatesKept /\ hw'.init = hw.init
  BY <1>1, Parts DEF GatesKept, Registers
<1> QED BY <1>1, <1>2, OutsideKeeps

LEMMA PieKeeps == ASSUME ControllerInv, SetPie PROVE HandOverInv'
<1>1. UNCHANGED <<can, canDiagnostics, hw, fg>>
  BY Zenon DEF SetPie
<1> QED BY <1>1, OutsideKeeps DEF GatesKept

\* A call of one step returns at once: nothing of the foreground's record is left.
LEMMA OneStepCall ==
  ASSUME CallInv, Idle, NEW r, Return(r)
  PROVE  /\ fg.op = "none" /\ fg'.pc = "idle" /\ fg'.op = "none" /\ fg'.gated = {}
         /\ CallInv' /\ CopyInv'
<1>1. fg.op = "none" /\ fg'.pc = "idle" /\ fg'.op = "none" /\ fg'.gated = {}
  BY ReturnFields DEF CallInv, Idle
<1>2. CallInv' /\ CopyInv'
  BY <1>1
     DEF CallInv, CopyInv, CaptureSteps, BeforeStore, AfterStore, RearmSteps, MaskSteps,
         SnapshotSteps
<1> QED BY <1>1, <1>2

LEMMA InitKeeps ==
  ASSUME ControllerInv, NEW retry \in BOOLEAN, NEW timeout \in BOOLEAN,
         InitController(retry, timeout)
  PROVE  HandOverInv'
<1>a. CallInv /\ GateInv /\ hw \in Registers
  BY Parts
<1>1. /\ Idle /\ ~can.enabled /\ canDiagnostics' = NoDiagnostics
      /\ timeout => can' = CleanObject /\ hw' = [hw EXCEPT !.init = TRUE]
      /\ ~timeout => /\ can' = [CleanObject EXCEPT !.controllerState = "STOPPED"]
                     /\ hw' = [init |-> TRUE, retry |-> retry, confinement |-> {}, lec |-> "NONE",
                               causes |-> {}, sources |-> {}, lines |-> {}]
      /\ \E r : Return(r)
  BY Zenon DEF InitController, ObjectOnTimeout
<1>2. /\ fg'.pc = "idle" /\ fg'.op = "none" /\ fg'.gated = {} /\ CallInv' /\ CopyInv'
  BY <1>1, <1>a, OneStepCall
<1>3. hw'.init /\ hw'.sources = {} /\ hw'.lines = {}
  <2>1. hw.sources = {} /\ hw.lines = {}
    BY <1>1, <1>a DEF GateInv, GatesMatchConfiguration
  <2> QED BY <1>1, <1>a, <2>1, RegisterUpdates DEF GatesKept
<1>4. /\ can' = CleanObject \/ can'.controllerState = "STOPPED"
      /\ can'.enabled = FALSE /\ can'.armed = {} /\ can'.faultPending = FALSE
      /\ can'.controllerState # "RUNNING"
  BY <1>1 DEF CleanObject
<1>5. canDiagnostics'.busState = STOPPED
  BY <1>1 DEF NoDiagnostics
<1>6. GateInv'
  BY <1>2, <1>3, <1>4 DEF GateInv, GatesMatchConfiguration, SafeUninitialized
<1>7. ArmInv'
  BY <1>2, <1>3, <1>4, ArmAgrees DEF Open
<1>8. LatchInv' /\ BusInv'
  BY <1>2, <1>4, <1>5 DEF LatchInv, LatchedMeansMasked, BusInv
<1> QED BY <1>2, <1>6, <1>7, <1>8 DEF HandOverInv

LEMMA ConfigureKeeps ==
  ASSUME ControllerInv, NEW rx \in BOOLEAN, NEW tx \in BOOLEAN, NEW diagnostics \in SUBSET Diagnostic,
         ConfigureInterrupts(rx, tx, diagnostics)
  PROVE  HandOverInv'
<1>a. CallInv /\ GateInv /\ BusInv /\ can \in Object
  BY Parts
<1>1. /\ Idle /\ can.controllerState = "STOPPED" /\ ~can.enabled
      /\ can' = [can EXCEPT !.configured = TRUE, !.rxReady = rx, !.txReady = tx,
                            !.diagnostics = diagnostics, !.armed = {},
                            !.currentProtocolError = FALSE, !.faultPending = FALSE]
      /\ Return("OK") /\ canDiagnostics' = canDiagnostics /\ hw' = hw
  BY Zenon DEF ConfigureInterrupts
<1>2. /\ fg'.pc = "idle" /\ fg'.op = "none" /\ fg'.gated = {} /\ CallInv' /\ CopyInv'
  BY <1>1, <1>a, OneStepCall
<1>3. /\ can'.enabled = can.enabled /\ can'.armed = {} /\ can'.faultPending = FALSE
      /\ can'.controllerState = "STOPPED"
  BY <1>1, <1>a DEF Object
<1>4. hw'.sources = {} /\ hw'.lines = {}
  BY <1>1, <1>a DEF GateInv, GatesMatchConfiguration
<1>5. GateInv'
  BY <1>1, <1>2, <1>3, <1>4 DEF GateInv, GatesMatchConfiguration, SafeUninitialized
<1>6. ArmInv'
  BY <1>2, <1>3, <1>4, ArmAgrees DEF Open
<1>7. LatchInv' /\ BusInv'
  BY <1>1, <1>2, <1>3, <1>a DEF LatchInv, LatchedMeansMasked, BusInv, Idle
<1> QED BY <1>2, <1>5, <1>6, <1>7 DEF HandOverInv

LEMMA EnableKeeps == ASSUME ControllerInv, EnableInterrupts PROVE HandOverInv'
<1>a. CallInv /\ GateInv /\ LatchInv /\ BusInv /\ can \in Object /\ hw \in Registers
  BY Parts
<1> DEFINE h == IF can.diagnostics = {} THEN hw ELSE ReadStatus(hw)
<1>1. /\ Idle /\ can.controllerState = "STOPPED" /\ ~can.enabled
      /\ hw' = [h EXCEPT !.sources = h.sources \union ConfiguredSources,
                         !.lines = h.lines \union ConfiguredLines]
      /\ can' = [can EXCEPT !.enabled = TRUE, !.armed = can.diagnostics]
      /\ Return("OK") /\ canDiagnostics' = canDiagnostics
  BY Zenon DEF EnableInterrupts
<1>2. /\ fg'.pc = "idle" /\ fg'.op = "none" /\ fg'.gated = {} /\ CallInv' /\ CopyInv'
  BY <1>1, <1>a, OneStepCall
<1>3. h \in Registers /\ h.sources = {} /\ h.lines = {}
  BY <1>1, <1>a DEF GateInv, GatesMatchConfiguration, ReadStatus, Registers
<1>4. hw'.sources = ConfiguredSources /\ hw'.lines = ConfiguredLines
  <2> HIDE DEF h
  <2> QED BY <1>1, <1>3 DEF Registers
<1>5. /\ can'.enabled = TRUE /\ can'.armed = can.diagnostics /\ can'.diagnostics = can.diagnostics
      /\ can'.rxReady = can.rxReady /\ can'.txReady = can.txReady
      /\ can'.faultPending = can.faultPending /\ can'.controllerState = "STOPPED"
      /\ can.diagnostics \in SUBSET Diagnostic
  BY <1>1, <1>a DEF Object
<1>6. ConfiguredLines' = ConfiguredLines /\ ConfiguredSources' = ConfiguredSources
  BY <1>5 DEF ConfiguredLines, ConfiguredSources
<1>7. GateInv'
  BY <1>2, <1>4, <1>5, <1>6 DEF GateInv, GatesMatchConfiguration, SafeUninitialized
<1>8. ArmInv'
  <2>1. Open' = can.diagnostics
    BY <1>4, <1>5 DEF Open, ConfiguredSources, ConfiguredLines, Diagnostic
  <2> QED BY <1>2, <1>5, <2>1, ArmAgrees
<1>9. LatchInv' /\ BusInv'
  BY <1>1, <1>2, <1>5, <1>a DEF LatchInv, LatchedMeansMasked, BusInv, Idle
<1> QED BY <1>2, <1>7, <1>8, <1>9 DEF HandOverInv

LEMMA DisableKeeps == ASSUME ControllerInv, DisableInterrupts PROVE HandOverInv'
<1>a. CallInv /\ GateInv /\ BusInv /\ can \in Object /\ hw \in Registers
  BY Parts
<1>1. /\ Idle /\ can.configured /\ hw' = [hw EXCEPT !.sources = {}, !.lines = {}]
      /\ can' = [can EXCEPT !.enabled = FALSE, !.armed = {}, !.faultPending = FALSE]
      /\ Return("OK") /\ canDiagnostics' = canDiagnostics
  BY Zenon DEF DisableInterrupts
<1>2. /\ fg.op = "none" /\ fg'.pc = "idle" /\ fg'.op = "none" /\ fg'.gated = {}
      /\ CallInv' /\ CopyInv'
  BY <1>1, <1>a, OneStepCall
<1>3. /\ can'.enabled = FALSE /\ can'.armed = {} /\ can'.faultPending = FALSE
      /\ can'.controllerState = can.controllerState
  BY <1>1, <1>a DEF Object
<1>4. hw'.sources = {} /\ hw'.lines = {}
  BY <1>1, <1>a DEF Registers
<1>5. GateInv'
  <2>1. can.controllerState # "UNINITIALIZED"
    BY <1>1, <1>a DEF GateInv, SafeUninitialized, CleanObject
  <2> QED BY <1>2, <1>3, <1>4, <2>1 DEF GateInv, GatesMatchConfiguration, SafeUninitialized
<1>6. ArmInv'
  BY <1>2, <1>3, <1>4, ArmAgrees DEF Open
<1>7. LatchInv' /\ BusInv'
  BY <1>1, <1>2, <1>3, <1>a DEF LatchInv, LatchedMeansMasked, BusInv, Idle, Starting
<1> QED BY <1>2, <1>5, <1>6, <1>7 DEF HandOverInv

LEMMA RetransmissionKeeps ==
  ASSUME ControllerInv, NEW retry \in BOOLEAN, SetAutoRetransmission(retry)
  PROVE  HandOverInv'
<1>a. CallInv /\ GateInv /\ ArmInv /\ LatchInv /\ BusInv /\ can \in Object /\ hw \in Registers
  BY Parts
<1>1. /\ Idle /\ can.controllerState # "UNINITIALIZED" /\ hw' = [hw EXCEPT !.retry = retry]
      /\ Return("OK") /\ UNCHANGED <<can, canDiagnostics>>
  BY Zenon DEF SetAutoRetransmission
<1>2. /\ fg.op = "none" /\ fg'.pc = "idle" /\ fg'.op = "none" /\ fg'.gated = {}
      /\ CallInv' /\ CopyInv'
  BY <1>1, <1>a, OneStepCall
<1>3. ConfigKept /\ StateKept /\ ArmKept /\ GatesKept
  BY <1>1, <1>a, ObjectUpdates, RegisterUpdates
<1>4. GateInv'
  BY <1>1, <1>2, <1>3, <1>a, GateKept DEF StateKept
<1>5. ArmInv' /\ LatchInv'
  BY <1>2, <1>3, <1>a, ArmSame, LatchKept
<1>6. BusInv'
  BY <1>1, <1>2, <1>3, <1>a, BusKept DEF Idle, Starting
<1> QED BY <1>2, <1>4, <1>5, <1>6 DEF HandOverInv

LEMMA StartCallKeeps == ASSUME ControllerInv, StartCall PROVE HandOverInv'
<1>a. CallInv /\ GateInv /\ ArmInv /\ LatchInv /\ BusInv /\ can \in Object /\ hw \in Registers
  BY Parts
<1>1. /\ Idle /\ can.controllerState = "STOPPED"
      /\ can' = [can EXCEPT !.controllerState = "RUNNING"]
      /\ fg' = [IdleCall EXCEPT !.pc = "startModule", !.op = "start"]
      /\ UNCHANGED <<canDiagnostics, hw>>
  BY Zenon DEF StartCall
<1>2. fg.op = "none" /\ fg'.pc = "startModule" /\ fg'.op = "start" /\ fg'.gated = {}
  BY <1>1, <1>a, IdleFields DEF CallInv, Idle
<1>3. ConfigKept /\ ArmKept /\ GatesKept /\ can'.controllerState = "RUNNING"
  BY <1>1, <1>a, ObjectUpdates, RegisterUpdates
<1>4. CallInv'
  BY <1>2, <1>3
     DEF CallInv, CaptureSteps, BeforeStore, AfterStore, RearmSteps, MaskSteps,
         SnapshotSteps
<1>5. GateInv'
  BY <1>2, <1>3, <1>a, GateKept
<1>6. ArmInv' /\ LatchInv'
  BY <1>2, <1>3, <1>4, <1>a, ArmSame, LatchKept
<1>7. BusInv' /\ CopyInv'
  BY <1>2, <1>3 DEF BusInv, Starting, CopyInv
<1> QED BY <1>4, <1>5, <1>6, <1>7 DEF HandOverInv

LEMMA ProcessCallKeeps == ASSUME ControllerInv, ProcessCall PROVE HandOverInv'
<1>a. CallInv /\ GateInv /\ ArmInv /\ LatchInv /\ BusInv /\ can \in Object /\ hw \in Registers
  BY Parts
<1>1. /\ Idle /\ can.controllerState = "RUNNING" /\ can.armed = {}
      /\ fg' = [IdleCall EXCEPT !.pc = "readStatus", !.op = "process"]
      /\ UNCHANGED <<can, canDiagnostics, hw>>
  BY Zenon DEF ProcessCall, MaySample
<1>2. /\ fg.pc = "idle" /\ fg.op = "none"
      /\ fg'.pc = "readStatus" /\ fg'.op = "process" /\ fg'.gated = {}
  BY <1>1, <1>a, IdleFields DEF CallInv, Idle
<1>3. ConfigKept /\ StateKept /\ ArmKept /\ GatesKept
  BY <1>1, <1>a, ObjectUpdates, RegisterUpdates
<1>4. CallInv'
  BY <1>1, <1>2, <1>3
     DEF CallInv, CaptureSteps, BeforeStore, AfterStore, RearmSteps, MaskSteps,
         SnapshotSteps, StateKept
<1>5. GateInv'
  BY <1>1, <1>2, <1>3, <1>a, GateKept DEF StateKept
<1>6. ArmInv'
  BY <1>1, <1>2, <1>a DEF ArmInv, Open
<1>7. LatchInv'
  BY <1>2, <1>3, <1>a, LatchKept
<1>8. BusInv' /\ CopyInv'
  BY <1>1, <1>2, <1>3, <1>a, BusKept DEF Starting, CopyInv
<1> QED BY <1>4, <1>5, <1>6, <1>7, <1>8 DEF HandOverInv

LEMMA StopCallKeeps == ASSUME ControllerInv, StopCall PROVE HandOverInv'
<1>a. CallInv /\ GateInv /\ ArmInv /\ LatchInv /\ BusInv /\ can \in Object /\ hw \in Registers
  BY Parts
<1>1. /\ Idle /\ can.controllerState = "RUNNING" /\ hw' = [hw EXCEPT !.init = TRUE]
      /\ fg' = [IdleCall EXCEPT !.pc = "stopState", !.op = "stop"]
      /\ UNCHANGED <<can, canDiagnostics>>
  BY Zenon DEF StopCall
<1>2. /\ fg.pc = "idle" /\ fg.op = "none"
      /\ fg'.pc = "stopState" /\ fg'.op = "stop" /\ fg'.gated = {}
  BY <1>1, <1>a, IdleFields DEF CallInv, Idle
<1>3. ConfigKept /\ StateKept /\ ArmKept /\ GatesKept
  BY <1>1, <1>a, ObjectUpdates, RegisterUpdates
<1>4. CallInv'
  BY <1>1, <1>2, <1>3
     DEF CallInv, CaptureSteps, BeforeStore, AfterStore, RearmSteps, MaskSteps,
         SnapshotSteps, StateKept
<1>5. GateInv'
  BY <1>1, <1>2, <1>3, <1>a, GateKept DEF StateKept
<1>6. ArmInv' /\ LatchInv'
  BY <1>2, <1>3, <1>4, <1>a, ArmSame, LatchKept
<1>7. BusInv' /\ CopyInv'
  BY <1>1, <1>2, <1>3, <1>a, BusKept DEF Starting, CopyInv
<1> QED BY <1>4, <1>5, <1>6, <1>7 DEF HandOverInv

\* A step of start(), process() or stop() that leaves the object's configuration,
\* the gates and the flags alone.
LEMMA QuietStep ==
  ASSUME ControllerInv, CallInv', ConfigKept, StateKept, ArmKept, GatesKept,
         fg.op \notin {"rearm", "mask", "snapshot"}, fg.pc # "idle",
         \/ fg'.op = fg.op /\ fg'.gated = fg.gated
         \/ fg'.op = "none" /\ fg'.gated = {}
  PROVE  GateInv' /\ ArmInv' /\ LatchInv'
<1>a. CallInv /\ GateInv /\ ArmInv /\ LatchInv
  BY Parts
<1>1. GateInv'
  BY <1>a, GateKept DEF StateKept, CallInv
<1>2. LatchInv'
  BY <1>a, LatchKept
<1>3. ArmInv'
  <2>1. CASE fg'.op = "process"
    <3>1. fg.op = "process"
      BY <2>1
    <3>2. can'.armed = {} /\ Open' = {}
      BY <1>a, <3>1 DEF ArmInv, ArmKept, GatesKept, Open
    <3> QED BY <2>1, <3>2 DEF ArmInv, CallInv, RearmSteps, MaskSteps
  <2>2. CASE fg'.op # "process"
    BY <1>a, <2>2, ArmSame
  <2> QED BY <2>1, <2>2
<1> QED BY <1>1, <1>2, <1>3

LEMMA StartModuleKeeps == ASSUME ControllerInv, StartModule PROVE HandOverInv'
<1>a. CallInv /\ BusInv /\ can \in Object /\ hw \in Registers /\ fg \in Call
  BY Parts
<1>1. /\ fg.pc = "startModule" /\ hw' = [hw EXCEPT !.init = FALSE] /\ Goto("readStatus")
      /\ UNCHANGED <<can, canDiagnostics>>
  BY Zenon DEF StartModule
<1>2. fg.op = "start" /\ fg'.pc = "readStatus" /\ fg'.op = "start" /\ fg'.gated = fg.gated
  BY <1>1, <1>a, GotoFields DEF CallInv
<1>3. ConfigKept /\ StateKept /\ ArmKept /\ GatesKept
  BY <1>1, <1>a, ObjectUpdates, RegisterUpdates
<1>4. CallInv'
  BY <1>1, <1>2, <1>3, <1>a
     DEF CallInv, CaptureSteps, BeforeStore, AfterStore, RearmSteps, MaskSteps,
         SnapshotSteps, StateKept
<1>5. GateInv' /\ ArmInv' /\ LatchInv'
  BY <1>1, <1>2, <1>3, <1>4, QuietStep
<1>6. BusInv' /\ CopyInv'
  BY <1>1, <1>2, <1>3, <1>a, BusKept DEF Starting, BeforeStore, CopyInv
<1> QED BY <1>4, <1>5, <1>6 DEF HandOverInv

\* The capture, up to the store of the bus state: start() is still starting.
LEMMA CaptureKeeps ==
  ASSUME ControllerInv, CaptureStatus \/ CapturePrevious \/ CaptureEntries
  PROVE  HandOverInv'
<1>a. CallInv /\ BusInv /\ can \in Object /\ hw \in Registers /\ fg \in Call
      /\ canDiagnostics \in Diagnostics
  BY Parts
<1>1. /\ fg.pc \in {"readStatus", "readPrevious", "countEntries"}
      /\ fg'.pc \in {"readPrevious", "countEntries", "storeState"}
      /\ fg'.op = fg.op /\ fg'.gated = fg.gated
  <2>1. CASE CaptureStatus
    <3>1. fg.pc = "readStatus" /\ fg' = [fg EXCEPT !.pc = "readPrevious", !.status = StatusOf(hw)]
      BY <2>1, Zenon DEF CaptureStatus
    <3> QED BY <1>a, <3>1 DEF Call
  <2>2. CASE CapturePrevious
    <3>1. /\ fg.pc = "readPrevious"
          /\ fg' = [fg EXCEPT !.pc = "countEntries", !.previous = can.lastObservedBusState]
      BY <2>2, Zenon DEF CapturePrevious
    <3> QED BY <1>a, <3>1 DEF Call
  <2>3. CASE CaptureEntries
    <3>1. fg.pc = "countEntries" /\ Goto("storeState")
      BY <2>3, Zenon DEF CaptureEntries
    <3> QED BY <1>a, <3>1, GotoFields
  <2> QED BY <2>1, <2>2, <2>3
<1>2. can' = can /\ (hw' = hw \/ hw' = ReadStatus(hw))
  BY Zenon DEF CaptureStatus, CapturePrevious, CaptureEntries
<1>3. canDiagnostics'.busState = canDiagnostics.busState
  <2>1. \/ canDiagnostics' = canDiagnostics
        \/ canDiagnostics' = CountEntries(canDiagnostics, fg.previous,
                                          CurrentBusState(fg.status.confinement))
    BY Zenon DEF CaptureStatus, CapturePrevious, CaptureEntries
  <2> QED BY <1>a, <2>1, DiagnosticUpdates, Zenon
<1>4. ConfigKept /\ StateKept /\ ArmKept /\ GatesKept
  BY <1>2, <1>a, ObjectUpdates, RegisterUpdates
<1>5. CallInv'
  BY <1>1, <1>4, <1>a
     DEF CallInv, CaptureSteps, BeforeStore, AfterStore, RearmSteps, MaskSteps,
         SnapshotSteps, StateKept
<1>6. GateInv' /\ ArmInv' /\ LatchInv'
  <2>1. fg.op \in {"start", "process"}
    BY <1>1, <1>a DEF CallInv, CaptureSteps, BeforeStore, AfterStore
  <2> QED BY <1>1, <1>4, <1>5, <2>1, QuietStep
<1>7. BusInv'
  BY <1>1, <1>3, <1>4, <1>a, BusKept DEF Starting, BeforeStore
<1>8. CopyInv'
  BY <1>1 DEF CopyInv
<1> QED BY <1>5, <1>6, <1>7, <1>8 DEF HandOverInv

LEMMA CaptureStateKeeps == ASSUME ControllerInv, CaptureState PROVE HandOverInv'
<1>a. CallInv /\ can \in Object /\ hw \in Registers /\ fg \in Call
      /\ canDiagnostics \in Diagnostics
  BY Parts
<1>1. /\ fg.pc = "storeState" /\ Goto("storeObserved") /\ can' = can /\ hw' = hw
      /\ canDiagnostics' = StoreBusState(canDiagnostics, CurrentBusState(fg.status.confinement))
  BY Zenon DEF CaptureState
<1>2. /\ fg.op \in {"start", "process"}
      /\ fg'.pc = "storeObserved" /\ fg'.op = fg.op /\ fg'.gated = fg.gated
  BY <1>1, <1>a, GotoFields DEF CallInv, CaptureSteps, BeforeStore, AfterStore
<1>3. canDiagnostics'.busState # STOPPED
  BY <1>1, <1>a, DiagnosticUpdates, CurrentTyped, Zenon
<1>4. ConfigKept /\ StateKept /\ ArmKept /\ GatesKept
  BY <1>1, <1>a, ObjectUpdates, RegisterUpdates
<1>5. CallInv'
  BY <1>1, <1>2, <1>4, <1>a
     DEF CallInv, CaptureSteps, BeforeStore, AfterStore, RearmSteps, MaskSteps, SnapshotSteps,
         StateKept
<1>6. GateInv' /\ ArmInv' /\ LatchInv'
  BY <1>1, <1>2, <1>4, <1>5, QuietStep
<1>7. BusInv' /\ CopyInv'
  BY <1>2, <1>3, <1>4, <1>5, <1>a
     DEF BusInv, CallInv, CopyInv, StateKept
<1> QED BY <1>5, <1>6, <1>7 DEF HandOverInv

\* The capture, once it stored the bus state: start() no longer needs to.
LEMMA CaptureTailKeeps ==
  ASSUME ControllerInv,
         CaptureObserved \/ CaptureClearError \/ CaptureError \/ CaptureErrorFlag
  PROVE  HandOverInv'
<1>a. CallInv /\ BusInv /\ can \in Object /\ hw \in Registers /\ fg \in Call
      /\ canDiagnostics \in Diagnostics
  BY Parts
<1>1. /\ fg.pc \in AfterStore /\ hw' = hw
      /\ \/ Goto("clearError") \/ Goto("recordError") \/ Goto("flagError") \/ Return("OK")
  BY Zenon
     DEF AfterStore, CaptureObserved, CaptureClearError, CaptureError, CaptureErrorFlag
<1>2. fg.op \in {"start", "process"} /\ fg.gated = {}
  <2>1. fg.op \in {"start", "process"} /\ GateInv
    BY <1>1, <1>a, Parts DEF CallInv, CaptureSteps
  <2> QED BY <2>1 DEF GateInv
<1>3. \/ fg'.pc \in AfterStore /\ fg'.op = fg.op /\ fg'.gated = fg.gated
      \/ fg'.pc = "idle" /\ fg'.op = "none" /\ fg'.gated = {}
  BY <1>1, <1>a, GotoFields, ReturnFields DEF AfterStore
<1>4. canDiagnostics'.busState = canDiagnostics.busState
  <2>1. \/ canDiagnostics' = canDiagnostics
        \/ canDiagnostics' = RecordError(canDiagnostics, fg.status.lec)
    BY Zenon DEF CaptureObserved, CaptureClearError, CaptureError, CaptureErrorFlag
  <2> QED BY <1>a, <2>1, DiagnosticUpdates, Zenon
<1>5. ConfigKept /\ StateKept /\ ArmKept /\ GatesKept
  <2>1. \/ can' = can
        \/ \E x : can' = [can EXCEPT !.lastObservedBusState = x]
        \/ \E x : can' = [can EXCEPT !.currentProtocolError = x]
    BY Zenon DEF CaptureObserved, CaptureClearError, CaptureError, CaptureErrorFlag
  <2> QED BY <1>1, <2>1, <1>a, ObjectUpdates, RegisterUpdates
<1>6. CallInv'
  BY <1>1, <1>2, <1>3, <1>5, <1>a
     DEF CallInv, CaptureSteps, BeforeStore, AfterStore, RearmSteps, MaskSteps, SnapshotSteps,
         StateKept
<1>7. GateInv' /\ ArmInv' /\ LatchInv'
  <2>1. fg.pc # "idle"
    BY <1>1 DEF AfterStore
  <2> QED BY <1>1, <1>2, <1>3, <1>5, <1>6, <2>1, QuietStep
<1>8. BusInv' /\ CopyInv'
  BY <1>1, <1>2, <1>3, <1>4, <1>5, <1>a, BusKept DEF Starting, BeforeStore, AfterStore, CopyInv
<1> QED BY <1>6, <1>7, <1>8 DEF HandOverInv

LEMMA StopStateKeeps == ASSUME ControllerInv, StopState PROVE HandOverInv'
<1>a. CallInv /\ GateInv /\ ArmInv /\ LatchInv /\ can \in Object /\ hw \in Registers /\ fg \in Call
  BY Parts
<1>1. /\ fg.pc = "stopState" /\ can' = [can EXCEPT !.controllerState = "STOPPED"]
      /\ Goto("stopBusState") /\ UNCHANGED <<canDiagnostics, hw>>
  BY Zenon DEF StopState
<1>2. fg.op = "stop" /\ fg'.pc = "stopBusState" /\ fg'.op = "stop" /\ fg'.gated = fg.gated
  BY <1>1, <1>a, GotoFields DEF CallInv
<1>3. ConfigKept /\ ArmKept /\ GatesKept /\ can'.controllerState = "STOPPED"
  BY <1>1, <1>a, ObjectUpdates, RegisterUpdates
<1>4. CallInv'
  BY <1>2, <1>3
     DEF CallInv, CaptureSteps, BeforeStore, AfterStore, RearmSteps, MaskSteps,
         SnapshotSteps
<1>5. GateInv'
  BY <1>2, <1>3, <1>a, GateKept
<1>6. ArmInv' /\ LatchInv'
  BY <1>2, <1>3, <1>4, <1>a, ArmSame, LatchKept
<1>7. BusInv' /\ CopyInv'
  BY <1>2, <1>3 DEF BusInv, CopyInv
<1> QED BY <1>4, <1>5, <1>6, <1>7 DEF HandOverInv

LEMMA StopBusStateKeeps == ASSUME ControllerInv, StopBusState PROVE HandOverInv'
<1>a. CallInv /\ can \in Object /\ hw \in Registers /\ canDiagnostics \in Diagnostics
  BY Parts
<1>1. /\ fg.pc = "stopBusState" /\ canDiagnostics' = StoreBusState(canDiagnostics, STOPPED)
      /\ Return("OK") /\ UNCHANGED <<can, hw>>
  BY Zenon DEF StopBusState
<1>2. fg.op = "stop" /\ fg'.pc = "idle" /\ fg'.op = "none" /\ fg'.gated = {}
  BY <1>1, <1>a, ReturnFields DEF CallInv
<1>3. ConfigKept /\ StateKept /\ ArmKept /\ GatesKept
  BY <1>1, <1>a, ObjectUpdates, RegisterUpdates
<1>4. CallInv' /\ can'.controllerState = "STOPPED"
  BY <1>1, <1>2, <1>3, <1>a
     DEF CallInv, CaptureSteps, BeforeStore, AfterStore, RearmSteps, MaskSteps,
         SnapshotSteps, StateKept
<1>5. GateInv' /\ ArmInv' /\ LatchInv'
  BY <1>1, <1>2, <1>3, <1>4, QuietStep
<1>6. canDiagnostics'.busState = STOPPED
  BY <1>1, <1>a, DiagnosticUpdates
<1>7. BusInv' /\ CopyInv'
  BY <1>2, <1>4, <1>6 DEF BusInv, CopyInv
<1> QED BY <1>4, <1>5, <1>7 DEF HandOverInv

LEMMA RearmCallKeeps == ASSUME ControllerInv, RearmCall PROVE HandOverInv'
<1>a. CallInv /\ GateInv /\ ArmInv /\ LatchInv /\ BusInv /\ can \in Object /\ hw \in Registers
  BY Parts
<1>1. /\ Idle /\ can.controllerState = "RUNNING" /\ can.enabled /\ can.armed = {}
      /\ hw' = ReadStatus(hw) /\ fg' = [IdleCall EXCEPT !.pc = "rearmSources", !.op = "rearm"]
      /\ UNCHANGED <<can, canDiagnostics>>
  BY Zenon DEF RearmCall
<1>2. /\ fg.pc = "idle" /\ fg.op = "none"
      /\ fg'.pc = "rearmSources" /\ fg'.op = "rearm" /\ fg'.gated = {}
  BY <1>1, <1>a, IdleFields DEF CallInv, Idle
<1>3. ConfigKept /\ StateKept /\ ArmKept /\ GatesKept
  BY <1>1, <1>a, ObjectUpdates, RegisterUpdates
<1>4. CallInv'
  BY <1>1, <1>2, <1>3
     DEF CallInv, CaptureSteps, BeforeStore, AfterStore, RearmSteps, MaskSteps,
         SnapshotSteps, StateKept, ConfigKept
<1>5. GateInv'
  BY <1>1, <1>2, <1>3, <1>a, GateKept DEF StateKept
<1>6. ArmInv'
  <2>1. can'.armed = {} /\ Open' = {}
    BY <1>1, <1>2, <1>3, <1>a DEF ArmInv, Open, GatesKept
  <2> QED BY <1>2, <2>1 DEF ArmInv
<1>7. LatchInv'
  BY <1>2, <1>3, <1>a, LatchKept
<1>8. BusInv' /\ CopyInv'
  BY <1>1, <1>2, <1>3, <1>a, BusKept DEF Starting, CopyInv
<1> QED BY <1>4, <1>5, <1>6, <1>7, <1>8 DEF HandOverInv

LEMMA RearmSourcesKeeps == ASSUME ControllerInv, RearmSources PROVE HandOverInv'
<1>a. CallInv /\ GateInv /\ ArmInv /\ LatchInv /\ BusInv /\ can \in Object /\ hw \in Registers
      /\ fg \in Call
  BY Parts
<1>1. /\ fg.pc = "rearmSources" /\ hw' = [hw EXCEPT !.sources = hw.sources \union can.diagnostics]
      /\ Goto("rearmError") /\ UNCHANGED <<can, canDiagnostics>>
  BY Zenon DEF RearmSources
<1>2. fg.op = "rearm" /\ fg'.pc = "rearmError" /\ fg'.op = "rearm" /\ fg'.gated = fg.gated
  BY <1>1, <1>a, GotoFields DEF CallInv, RearmSteps
<1>3. /\ ConfigKept /\ StateKept /\ ArmKept
      /\ hw'.sources = hw.sources \union can.diagnostics /\ hw'.lines = hw.lines
      /\ can.diagnostics \in SUBSET Diagnostic
  BY <1>1, <1>a, ObjectUpdates, RegisterUpdates DEF Object
<1>4. CallInv'
  BY <1>2, <1>3, <1>a
     DEF CallInv, CaptureSteps, BeforeStore, AfterStore, RearmSteps, MaskSteps,
         SnapshotSteps, StateKept, ConfigKept
<1>5. GateInv'
  <2>1. can.enabled /\ can.controllerState = "RUNNING" /\ fg.gated = {}
    BY <1>2, <1>a DEF CallInv, GateInv
  <2>2. GatesMatchConfiguration'
    <3>1. ConfiguredSources' = ConfiguredSources /\ ConfiguredLines' = ConfiguredLines
      BY <1>3, ConfiguredKept
    <3>2. can.diagnostics \subseteq ConfiguredSources
      BY DEF ConfiguredSources
    <3> QED BY <1>2, <1>3, <2>1, <1>a, <3>1, <3>2 DEF GateInv, GatesMatchConfiguration, ConfigKept
  <2> QED BY <1>2, <1>3, <2>1, <2>2 DEF GateInv, SafeUninitialized, StateKept
<1>6. ArmInv'
  <2>1. can.armed = {} /\ Open = {}
    BY <1>1, <1>a DEF ArmInv
  <2>2. can'.armed = {} /\ Open' = can'.diagnostics
    BY <1>3, <2>1 DEF Open, ArmKept, ConfigKept
  <2> QED BY <1>2, <2>2 DEF ArmInv
<1>7. LatchInv'
  BY <1>2, <1>3, <1>4, <1>a DEF LatchInv, LatchedMeansMasked, ConfigKept, CallInv
<1>8. BusInv' /\ CopyInv'
  BY <1>1, <1>2, <1>3, <1>a, BusKept DEF Starting, CopyInv
<1> QED BY <1>4, <1>5, <1>6, <1>7, <1>8 DEF HandOverInv

LEMMA RearmErrorKeeps == ASSUME ControllerInv, RearmErrorFlag PROVE HandOverInv'
<1>a. CallInv /\ GateInv /\ ArmInv /\ LatchInv /\ BusInv /\ can \in Object /\ hw \in Registers
      /\ fg \in Call
  BY Parts
<1>1. /\ fg.pc = "rearmError" /\ Goto("rearmStatus") /\ UNCHANGED <<canDiagnostics, hw>>
      /\ can' = [can EXCEPT !.armed =
                   (can.armed \ {"ERROR"}) \union (can.diagnostics \intersect {"ERROR"})]
  BY Zenon DEF RearmErrorFlag, ArmFlag
<1>2. fg.op = "rearm" /\ fg'.pc = "rearmStatus" /\ fg'.op = "rearm" /\ fg'.gated = fg.gated
  BY <1>1, <1>a, GotoFields DEF CallInv, RearmSteps
<1>3. /\ ConfigKept /\ StateKept /\ GatesKept
      /\ can'.armed = (can.armed \ {"ERROR"}) \union (can.diagnostics \intersect {"ERROR"})
      /\ can.diagnostics \in SUBSET Diagnostic
  BY <1>1, <1>a, ObjectUpdates, RegisterUpdates DEF Object
<1>4. CallInv'
  BY <1>2, <1>3, <1>a
     DEF CallInv, CaptureSteps, BeforeStore, AfterStore, RearmSteps, MaskSteps,
         SnapshotSteps, StateKept, ConfigKept
<1>5. GateInv'
  BY <1>2, <1>3, <1>a, GateKept DEF StateKept, CallInv
<1>6. ArmInv'
  <2>1. can.armed = {} /\ Open = can.diagnostics
    BY <1>1, <1>a DEF ArmInv
  <2>2. /\ can'.armed \subseteq {"ERROR"}
        /\ Open' = can'.armed \union (can'.diagnostics \intersect {"STATUS"})
    BY <1>3, <2>1 DEF Open, GatesKept, ConfigKept, Diagnostic
  <2> QED BY <1>2, <2>2 DEF ArmInv
<1>7. LatchInv'
  BY <1>2, <1>4 DEF LatchInv, LatchedMeansMasked, CallInv
<1>8. BusInv' /\ CopyInv'
  BY <1>1, <1>2, <1>3, <1>a, BusKept DEF Starting, CopyInv
<1> QED BY <1>4, <1>5, <1>6, <1>7, <1>8 DEF HandOverInv

LEMMA RearmStatusKeeps == ASSUME ControllerInv, RearmStatusFlag PROVE HandOverInv'
<1>a. CallInv /\ GateInv /\ ArmInv /\ LatchInv /\ BusInv /\ can \in Object /\ hw \in Registers
      /\ fg \in Call
  BY Parts
<1>1. /\ fg.pc = "rearmStatus" /\ Goto("rearmClearError") /\ UNCHANGED <<canDiagnostics, hw>>
      /\ can' = [can EXCEPT !.armed =
                   (can.armed \ {"STATUS"}) \union (can.diagnostics \intersect {"STATUS"})]
  BY Zenon DEF RearmStatusFlag, ArmFlag
<1>2. fg.op = "rearm" /\ fg'.pc = "rearmClearError" /\ fg'.op = "rearm" /\ fg'.gated = fg.gated
  BY <1>1, <1>a, GotoFields DEF CallInv, RearmSteps
<1>3. /\ ConfigKept /\ StateKept /\ GatesKept
      /\ can'.armed = (can.armed \ {"STATUS"}) \union (can.diagnostics \intersect {"STATUS"})
  BY <1>1, <1>a, ObjectUpdates, RegisterUpdates
<1>4. CallInv'
  BY <1>2, <1>3, <1>a
     DEF CallInv, CaptureSteps, BeforeStore, AfterStore, RearmSteps, MaskSteps,
         SnapshotSteps, StateKept, ConfigKept
<1>5. GateInv'
  BY <1>2, <1>3, <1>a, GateKept DEF StateKept, CallInv
<1>6. ArmInv'
  <2>1. /\ can.armed \subseteq {"ERROR"}
        /\ Open = can.armed \union (can.diagnostics \intersect {"STATUS"})
    BY <1>1, <1>a DEF ArmInv
  <2>2. can'.armed = Open'
    BY <1>3, <2>1 DEF Open, GatesKept
  <2> QED BY <1>2, <2>2 DEF ArmInv
<1>7. LatchInv'
  BY <1>2, <1>4 DEF LatchInv, LatchedMeansMasked, CallInv
<1>8. BusInv' /\ CopyInv'
  BY <1>1, <1>2, <1>3, <1>a, BusKept DEF Starting, CopyInv
<1> QED BY <1>4, <1>5, <1>6, <1>7, <1>8 DEF HandOverInv

LEMMA RearmClearErrorKeeps == ASSUME ControllerInv, RearmClearError PROVE HandOverInv'
<1>a. CallInv /\ GateInv /\ ArmInv /\ LatchInv /\ BusInv /\ can \in Object /\ hw \in Registers
      /\ fg \in Call
  BY Parts
<1>1. /\ fg.pc = "rearmClearError" /\ Goto("rearmClearEvent") /\ UNCHANGED <<canDiagnostics, hw>>
      /\ can' = [can EXCEPT !.currentProtocolError = FALSE]
  BY Zenon DEF RearmClearError
<1>2. fg.op = "rearm" /\ fg'.pc = "rearmClearEvent" /\ fg'.op = "rearm" /\ fg'.gated = fg.gated
  BY <1>1, <1>a, GotoFields DEF CallInv, RearmSteps
<1>3. ConfigKept /\ StateKept /\ ArmKept /\ GatesKept
  BY <1>1, <1>a, ObjectUpdates, RegisterUpdates
<1>4. CallInv'
  BY <1>2, <1>3, <1>a
     DEF CallInv, CaptureSteps, BeforeStore, AfterStore, RearmSteps, MaskSteps,
         SnapshotSteps, StateKept, ConfigKept
<1>5. GateInv'
  BY <1>2, <1>3, <1>a, GateKept DEF StateKept, CallInv
<1>6. ArmInv'
  <2>1. can'.armed = Open'
    BY <1>1, <1>3, <1>a DEF ArmInv, Open, GatesKept, ArmKept
  <2> QED BY <1>2, <2>1 DEF ArmInv
<1>7. LatchInv'
  BY <1>2, <1>4 DEF LatchInv, LatchedMeansMasked, CallInv
<1>8. BusInv' /\ CopyInv'
  BY <1>1, <1>2, <1>3, <1>a, BusKept DEF Starting, CopyInv
<1> QED BY <1>4, <1>5, <1>6, <1>7, <1>8 DEF HandOverInv

LEMMA RearmClearEventKeeps == ASSUME ControllerInv, RearmClearEvent PROVE HandOverInv'
<1>a. CallInv /\ GateInv /\ ArmInv /\ BusInv /\ can \in Object /\ hw \in Registers
  BY Parts
<1>1. /\ fg.pc = "rearmClearEvent" /\ Return("OK") /\ UNCHANGED <<canDiagnostics, hw>>
      /\ can' = [can EXCEPT !.faultPending = FALSE]
  BY Zenon DEF RearmClearEvent
<1>2. fg.op = "rearm" /\ fg'.pc = "idle" /\ fg'.op = "none" /\ fg'.gated = {}
  BY <1>1, <1>a, ReturnFields DEF CallInv, RearmSteps
<1>3. /\ ConfigKept /\ StateKept /\ GatesKept
      /\ can'.armed = can.armed /\ can'.faultPending = FALSE
  BY <1>1, <1>a, ObjectUpdates, RegisterUpdates
<1>4. CallInv'
  BY <1>2
     DEF CallInv, CaptureSteps, BeforeStore, AfterStore, RearmSteps, MaskSteps,
         SnapshotSteps
<1>5. GateInv'
  BY <1>2, <1>3, <1>a, GateKept DEF StateKept, CallInv
<1>6. ArmInv'
  <2>1. can'.armed = Open'
    BY <1>1, <1>3, <1>a DEF ArmInv, Open, GatesKept
  <2> QED BY <1>2, <2>1 DEF ArmInv
<1>7. LatchInv'
  BY <1>3 DEF LatchInv, LatchedMeansMasked
<1>8. BusInv' /\ CopyInv'
  BY <1>1, <1>2, <1>3, <1>a, BusKept DEF Starting, CopyInv
<1> QED BY <1>4, <1>5, <1>6, <1>7, <1>8 DEF HandOverInv

LEMMA MaskCallKeeps == ASSUME ControllerInv, MaskCall PROVE HandOverInv'
<1>a. CallInv /\ GateInv /\ ArmInv /\ LatchInv /\ BusInv /\ can \in Object /\ hw \in Registers
  BY Parts
<1>1. /\ Idle /\ can.controllerState = "RUNNING"
      /\ fg' = [IdleCall EXCEPT !.pc = "maskSources", !.op = "mask", !.mask = can.armed]
      /\ UNCHANGED <<can, canDiagnostics, hw>>
  BY Zenon DEF MaskCall, MayMask
<1>2. /\ fg.pc = "idle" /\ fg.op = "none" /\ fg'.pc = "maskSources" /\ fg'.op = "mask"
      /\ fg'.gated = {} /\ fg'.mask = can.armed
  BY <1>1, <1>a, IdleFields DEF CallInv, Idle
<1>3. ConfigKept /\ StateKept /\ ArmKept /\ GatesKept
  BY <1>1, <1>a, ObjectUpdates, RegisterUpdates
<1>4. CallInv'
  BY <1>1, <1>2, <1>3
     DEF CallInv, CaptureSteps, BeforeStore, AfterStore, RearmSteps, MaskSteps,
         SnapshotSteps, StateKept
<1>5. GateInv'
  BY <1>1, <1>2, <1>3, <1>a, GateKept DEF StateKept
<1>6. ArmInv'
  <2>1. can'.armed = Open' /\ Open' \subseteq fg'.mask
    BY <1>1, <1>2, <1>a DEF ArmInv, Open
  <2> QED BY <1>2, <2>1 DEF ArmInv
<1>7. LatchInv'
  BY <1>2, <1>3, <1>a, LatchKept
<1>8. BusInv' /\ CopyInv'
  BY <1>1, <1>2, <1>3, <1>a, BusKept DEF Starting, CopyInv
<1> QED BY <1>4, <1>5, <1>6, <1>7, <1>8 DEF HandOverInv

LEMMA MaskSourcesKeeps == ASSUME ControllerInv, MaskSources PROVE HandOverInv'
<1>a. CallInv /\ GateInv /\ ArmInv /\ LatchInv /\ BusInv /\ can \in Object /\ hw \in Registers
      /\ fg \in Call
  BY Parts
<1>1. /\ fg.pc = "maskSources" /\ hw' = [hw EXCEPT !.sources = hw.sources \ fg.mask]
      /\ Goto("maskError") /\ UNCHANGED <<can, canDiagnostics>>
  BY Zenon DEF MaskSources
<1>2. /\ fg.op = "mask" /\ fg'.pc = "maskError" /\ fg'.op = "mask" /\ fg'.gated = fg.gated
      /\ can.controllerState = "RUNNING"
  BY <1>1, <1>a, GotoFields DEF CallInv, MaskSteps
<1>3. /\ ConfigKept /\ StateKept /\ ArmKept
      /\ hw'.sources = hw.sources \ fg.mask /\ hw'.lines = hw.lines
      /\ fg.mask \in SUBSET Diagnostic
  BY <1>1, <1>a, ObjectUpdates, RegisterUpdates DEF Call
<1>4. CallInv'
  BY <1>2, <1>3, <1>a
     DEF CallInv, CaptureSteps, BeforeStore, AfterStore, RearmSteps, MaskSteps,
         SnapshotSteps, StateKept
<1>5. GateInv'
  <2>1. ConfiguredSources' = ConfiguredSources /\ ConfiguredLines' = ConfiguredLines
    BY <1>3, ConfiguredKept
  <2>2. GatesMatchConfiguration'
    BY <1>2, <1>3, <1>a, <2>1 DEF GateInv, GatesMatchConfiguration, ConfigKept
  <2> QED BY <1>2, <1>3, <2>2, <1>a DEF GateInv, SafeUninitialized, StateKept
<1>6. Open' = {}
  BY <1>1, <1>3, <1>a DEF ArmInv, Open
<1>7. ArmInv'
  BY <1>2, <1>6 DEF ArmInv
<1>8. LatchInv'
  BY <1>2, <1>3, <1>6, <1>a DEF LatchInv, LatchedMeansMasked, ConfigKept, ArmKept, Open
<1>9. BusInv' /\ CopyInv'
  BY <1>1, <1>2, <1>3, <1>a, BusKept DEF Starting, CopyInv
<1> QED BY <1>4, <1>5, <1>7, <1>8, <1>9 DEF HandOverInv

LEMMA MaskErrorKeeps == ASSUME ControllerInv, MaskErrorFlag PROVE HandOverInv'
<1>a. CallInv /\ GateInv /\ ArmInv /\ LatchInv /\ BusInv /\ can \in Object /\ hw \in Registers
      /\ fg \in Call
  BY Parts
<1>1. /\ fg.pc = "maskError" /\ can' = [can EXCEPT !.armed = can.armed \ {"ERROR"}]
      /\ Goto("maskStatus") /\ UNCHANGED <<canDiagnostics, hw>>
  BY Zenon DEF MaskErrorFlag
<1>2. /\ fg.op = "mask" /\ fg'.pc = "maskStatus" /\ fg'.op = "mask" /\ fg'.gated = fg.gated
      /\ can.controllerState = "RUNNING"
  BY <1>1, <1>a, GotoFields DEF CallInv, MaskSteps
<1>3. /\ ConfigKept /\ StateKept /\ GatesKept /\ can'.armed = can.armed \ {"ERROR"}
      /\ can'.faultPending = can.faultPending
  BY <1>1, <1>a, ObjectUpdates, RegisterUpdates
<1>4. CallInv'
  BY <1>2, <1>3, <1>a
     DEF CallInv, CaptureSteps, BeforeStore, AfterStore, RearmSteps, MaskSteps,
         SnapshotSteps, StateKept
<1>5. GateInv'
  BY <1>2, <1>3, <1>a, GateKept DEF StateKept
<1>6. Open' = {}
  BY <1>1, <1>3, <1>a DEF ArmInv, Open, GatesKept
<1>7. ArmInv'
  BY <1>2, <1>3, <1>6 DEF ArmInv
<1>8. LatchInv'
  BY <1>2, <1>3, <1>6, <1>a DEF LatchInv, LatchedMeansMasked, ConfigKept, Open
<1>9. BusInv' /\ CopyInv'
  BY <1>1, <1>2, <1>3, <1>a, BusKept DEF Starting, CopyInv
<1> QED BY <1>4, <1>5, <1>7, <1>8, <1>9 DEF HandOverInv

LEMMA MaskStatusKeeps == ASSUME ControllerInv, MaskStatusFlag PROVE HandOverInv'
<1>a. CallInv /\ GateInv /\ ArmInv /\ LatchInv /\ BusInv /\ can \in Object /\ hw \in Registers
  BY Parts
<1>1. /\ fg.pc = "maskStatus" /\ can' = [can EXCEPT !.armed = can.armed \ {"STATUS"}]
      /\ Return("OK") /\ UNCHANGED <<canDiagnostics, hw>>
  BY Zenon DEF MaskStatusFlag
<1>2. /\ fg.op = "mask" /\ fg'.pc = "idle" /\ fg'.op = "none" /\ fg'.gated = {}
      /\ can.controllerState = "RUNNING"
  BY <1>1, <1>a, ReturnFields DEF CallInv, MaskSteps
<1>3. /\ ConfigKept /\ StateKept /\ GatesKept /\ can'.armed = can.armed \ {"STATUS"}
      /\ can'.faultPending = can.faultPending /\ can.armed \in SUBSET Diagnostic
  BY <1>1, <1>a, ObjectUpdates, RegisterUpdates DEF Object
<1>4. CallInv'
  BY <1>2
     DEF CallInv, CaptureSteps, BeforeStore, AfterStore, RearmSteps, MaskSteps,
         SnapshotSteps
<1>5. GateInv'
  BY <1>2, <1>3, <1>a, GateKept DEF StateKept
<1>6. Open' = {} /\ can'.armed = {}
  BY <1>1, <1>3, <1>a DEF ArmInv, Open, GatesKept, Diagnostic
<1>7. ArmInv'
  BY <1>2, <1>6 DEF ArmInv
<1>8. LatchInv'
  BY <1>2, <1>3, <1>6, <1>a DEF LatchInv, LatchedMeansMasked, ConfigKept, Open
<1>9. BusInv' /\ CopyInv'
  BY <1>1, <1>2, <1>3, <1>a, BusKept DEF Starting, CopyInv
<1> QED BY <1>4, <1>5, <1>7, <1>8, <1>9 DEF HandOverInv

LEMMA EventCheckKeeps == ASSUME ControllerInv, EventCheck PROVE HandOverInv'
<1>a. CallInv /\ GateInv /\ ArmInv /\ LatchInv /\ BusInv /\ can \in Object /\ hw \in Registers
  BY Parts
<1>1. /\ Idle /\ can.configured /\ UNCHANGED <<can, canDiagnostics, hw>>
      /\ \/ fg' = [IdleCall EXCEPT !.pc = "takeEvent", !.op = "event"]
         \/ Return("EMPTY")
  BY Zenon DEF EventCheck
<1>2. /\ fg.pc = "idle" /\ fg.op = "none" /\ fg'.gated = {}
      /\ \/ fg'.pc = "takeEvent" /\ fg'.op = "event"
         \/ fg'.pc = "idle" /\ fg'.op = "none"
  <2>1. fg.pc = "idle" /\ fg.op = "none"
    BY <1>1, <1>a DEF CallInv, Idle
  <2>2. CASE fg' = [IdleCall EXCEPT !.pc = "takeEvent", !.op = "event"]
    BY <2>1, <2>2, IdleFields
  <2>3. CASE Return("EMPTY")
    BY <2>1, <2>3, ReturnFields
  <2> QED BY <1>1, <2>2, <2>3
<1>3. ConfigKept /\ StateKept /\ ArmKept /\ GatesKept
  BY <1>1, <1>a, ObjectUpdates, RegisterUpdates
<1>4. can.controllerState # "UNINITIALIZED"
  BY <1>1, <1>a DEF GateInv, SafeUninitialized, CleanObject
<1>5. CallInv'
  BY <1>2, <1>3, <1>4
     DEF CallInv, CaptureSteps, BeforeStore, AfterStore, RearmSteps, MaskSteps,
         SnapshotSteps, StateKept
<1>6. GateInv'
  BY <1>2, <1>3, <1>4, <1>a, GateKept DEF StateKept
<1>7. ArmInv' /\ LatchInv'
  BY <1>2, <1>3, <1>5, <1>a, ArmSame, LatchKept
<1>8. BusInv' /\ CopyInv'
  BY <1>1, <1>2, <1>3, <1>a, BusKept DEF Starting, CopyInv
<1> QED BY <1>5, <1>6, <1>7, <1>8 DEF HandOverInv

LEMMA TakeEventKeeps == ASSUME ControllerInv, TakeEvent PROVE HandOverInv'
<1>a. CallInv /\ GateInv /\ ArmInv /\ BusInv /\ can \in Object /\ hw \in Registers
  BY Parts
<1>1. /\ fg.pc = "takeEvent" /\ can' = [can EXCEPT !.faultPending = FALSE] /\ Return("OK")
      /\ UNCHANGED <<canDiagnostics, hw>>
  BY Zenon DEF TakeEvent
<1>2. /\ fg.op = "event" /\ fg'.pc = "idle" /\ fg'.op = "none" /\ fg'.gated = {}
      /\ can.controllerState # "UNINITIALIZED"
  BY <1>1, <1>a, ReturnFields DEF CallInv
<1>3. /\ ConfigKept /\ StateKept /\ GatesKept
      /\ can'.armed = can.armed /\ can'.faultPending = FALSE
  BY <1>1, <1>a, ObjectUpdates, RegisterUpdates
<1>4. CallInv'
  BY <1>2
     DEF CallInv, CaptureSteps, BeforeStore, AfterStore, RearmSteps, MaskSteps,
         SnapshotSteps
<1>5. GateInv'
  BY <1>2, <1>3, <1>a, GateKept DEF StateKept
<1>6. ArmInv'
  <2>1. can'.armed = Open'
    BY <1>2, <1>3, <1>a DEF ArmInv, Open, GatesKept
  <2> QED BY <1>2, <1>4, <2>1, ArmAgrees
<1>7. LatchInv'
  BY <1>3 DEF LatchInv, LatchedMeansMasked
<1>8. BusInv' /\ CopyInv'
  BY <1>1, <1>2, <1>3, <1>a, BusKept DEF Starting, CopyInv
<1> QED BY <1>4, <1>5, <1>6, <1>7, <1>8 DEF HandOverInv

LEMMA GateLinesKeeps == ASSUME ControllerInv, GateLines PROVE HandOverInv'
<1>a. CallInv /\ GateInv /\ ArmInv /\ LatchInv /\ BusInv /\ can \in Object /\ hw \in Registers
  BY Parts
<1>1. /\ Idle /\ can.controllerState # "UNINITIALIZED"
      /\ hw' = [hw EXCEPT !.lines = hw.lines \ LinesToGate]
      /\ fg' = [IdleCall EXCEPT !.pc = "copyState", !.op = "snapshot", !.gated = LinesToGate]
      /\ UNCHANGED <<can, canDiagnostics>>
  BY Zenon DEF GateLines
<1>2. /\ fg.pc = "idle" /\ fg.op = "none" /\ fg.gated = {}
      /\ fg'.pc = "copyState" /\ fg'.op = "snapshot" /\ fg'.gated = LinesToGate
  BY <1>1, <1>a, IdleFields DEF CallInv, GateInv, Idle
<1>3. /\ ConfigKept /\ StateKept /\ ArmKept
      /\ hw'.sources = hw.sources /\ hw'.lines = hw.lines \ LinesToGate
  BY <1>1, <1>a, ObjectUpdates, RegisterUpdates
<1>4. CallInv'
  BY <1>1, <1>2, <1>3
     DEF CallInv, CaptureSteps, BeforeStore, AfterStore, RearmSteps, MaskSteps,
         SnapshotSteps, StateKept
<1>5. GateInv'
  <2>1. /\ ConfiguredSources' = ConfiguredSources /\ ConfiguredLines' = ConfiguredLines
        /\ LinesToGate' = LinesToGate
    BY <1>3, ConfiguredKept
  <2>2. GatesMatchConfiguration'
    BY <1>2, <1>3, <1>a, <2>1 DEF GateInv, GatesMatchConfiguration, ConfigKept
  <2> QED BY <1>1, <1>2, <1>3, <2>1, <2>2 DEF GateInv, SafeUninitialized, StateKept
<1>6. ArmInv'
  <2>1. can'.armed = Open'
    BY <1>2, <1>3, <1>a DEF ArmInv, Open, ArmKept
  <2> QED BY <1>2, <1>4, <2>1, ArmAgrees
<1>7. LatchInv'
  BY <1>2, <1>3, <1>a DEF LatchInv, LatchedMeansMasked, ConfigKept, ArmKept
<1>8. BusInv' /\ CopyInv'
  BY <1>1, <1>2, <1>3, <1>a, BusKept DEF Starting, CopyInv
<1> QED BY <1>4, <1>5, <1>6, <1>7, <1>8 DEF HandOverInv

LEMMA CopyKeeps == ASSUME ControllerInv, CopyState \/ CopyCounts PROVE HandOverInv'
<1>a. CallInv /\ GateInv /\ ArmInv /\ LatchInv /\ BusInv /\ CopyInv /\ can \in Object
      /\ hw \in Registers /\ fg \in Call
  BY Parts
<1>1. UNCHANGED <<can, canDiagnostics, hw>>
  BY Zenon DEF CopyState, CopyCounts
<1>2. /\ \/ fg.pc = "copyState" /\ fg'.pc = "copyCounts"
         \/ fg.pc = "copyCounts" /\ fg'.pc = "reopen"
      /\ fg'.op = fg.op /\ fg'.gated = fg.gated
      /\ CopyInv'
  <2>1. CASE CopyState
    <3>1. /\ fg.pc = "copyState" /\ canDiagnostics' = canDiagnostics
          /\ fg' = [fg EXCEPT !.pc = "copyCounts",
                              !.copy.busState = canDiagnostics.busState,
                              !.copy.lastProtocolError = canDiagnostics.lastProtocolError]
      BY <2>1, Zenon DEF CopyState
    <3>2. fg'.pc = "copyCounts" /\ fg'.op = fg.op /\ fg'.gated = fg.gated
      BY <1>a, <3>1 DEF Call
    <3>3. /\ fg'.copy.busState = canDiagnostics.busState
          /\ fg'.copy.lastProtocolError = canDiagnostics.lastProtocolError
      BY <1>a, <3>1 DEF Call, Diagnostics
    <3> QED BY <3>1, <3>2, <3>3 DEF CopyInv
  <2>2. CASE CopyCounts
    <3>1. /\ fg.pc = "copyCounts" /\ canDiagnostics' = canDiagnostics
          /\ fg' = [fg EXCEPT !.pc = "reopen",
                      !.copy.warningEntryCount = canDiagnostics.warningEntryCount,
                      !.copy.passiveEntryCount = canDiagnostics.passiveEntryCount,
                      !.copy.busOffEntryCount = canDiagnostics.busOffEntryCount]
      BY <2>2, Zenon DEF CopyCounts
    <3> QED BY <1>a, <3>1 DEF Call, Diagnostics, CopyInv
  <2> QED BY <2>1, <2>2
<1>3. fg.op = "snapshot"
  BY <1>2, <1>a DEF CallInv, SnapshotSteps
<1>4. ConfigKept /\ StateKept /\ ArmKept /\ GatesKept
  BY <1>1, <1>a, ObjectUpdates, RegisterUpdates
<1>5. CallInv'
  BY <1>2, <1>3, <1>4, <1>a
     DEF CallInv, CaptureSteps, BeforeStore, AfterStore, RearmSteps, MaskSteps,
         SnapshotSteps, StateKept
<1>6. GateInv'
  BY <1>2, <1>4, <1>a, GateKept DEF StateKept, CallInv
<1>7. ArmInv' /\ LatchInv'
  BY <1>2, <1>3, <1>4, <1>5, <1>a, ArmSame, LatchKept
<1>8. BusInv'
  BY <1>1, <1>2, <1>3, <1>4, <1>a, BusKept DEF Starting
<1> QED BY <1>2, <1>5, <1>6, <1>7, <1>8 DEF HandOverInv

LEMMA ReopenKeeps == ASSUME ControllerInv, ReopenLines PROVE HandOverInv'
<1>a. CallInv /\ GateInv /\ ArmInv /\ LatchInv /\ BusInv /\ can \in Object /\ hw \in Registers
  BY Parts
<1>1. /\ fg.pc = "reopen" /\ hw' = [hw EXCEPT !.lines = ReopenedLines] /\ Return("OK")
      /\ UNCHANGED <<can, canDiagnostics>>
  BY Zenon DEF ReopenLines
<1>2. /\ fg.op = "snapshot" /\ fg'.pc = "idle" /\ fg'.op = "none" /\ fg'.gated = {}
      /\ can.controllerState # "UNINITIALIZED"
  BY <1>1, <1>a, ReturnFields DEF CallInv, SnapshotSteps
<1>3. /\ ConfigKept /\ StateKept /\ ArmKept
      /\ hw'.sources = hw.sources /\ hw'.lines = ReopenedLines
  BY <1>1, <1>a, ObjectUpdates, RegisterUpdates
<1>4. CallInv'
  BY <1>2
     DEF CallInv, CaptureSteps, BeforeStore, AfterStore, RearmSteps, MaskSteps,
         SnapshotSteps
<1>5. GateInv'
  <2>1. ConfiguredSources' = ConfiguredSources /\ ConfiguredLines' = ConfiguredLines
    BY <1>3, ConfiguredKept
  <2>2. /\ ~can.enabled => ReopenedLines = {}
        /\ can.enabled => ReopenedLines = ConfiguredLines
    BY <1>2, <1>a DEF GateInv, GatesMatchConfiguration, ReopenedLines, LinesToGate
  <2>3. GatesMatchConfiguration'
    BY <1>2, <1>3, <1>a, <2>1, <2>2 DEF GateInv, GatesMatchConfiguration, ConfigKept
  <2> QED BY <1>2, <1>3, <2>3 DEF GateInv, SafeUninitialized, StateKept
<1>6. ArmInv'
  <2>1. can'.armed = Open'
    BY <1>2, <1>3, <1>a DEF ArmInv, Open, ArmKept
  <2> QED BY <1>2, <1>4, <2>1, ArmAgrees
<1>7. LatchInv'
  BY <1>2, <1>3, <1>a DEF LatchInv, LatchedMeansMasked, ConfigKept, ArmKept
<1>8. BusInv' /\ CopyInv'
  BY <1>1, <1>2, <1>3, <1>a, BusKept DEF Starting, CopyInv
<1> QED BY <1>4, <1>5, <1>6, <1>7, <1>8 DEF HandOverInv

\* The ISR needs an open source and an open line 0: it cannot run inside a
\* snapshot, nor inside process().
LEMMA IsrRuns ==
  ASSUME ControllerInv, IsrMayRun
  PROVE  can.enabled /\ Open # {} /\ fg.op # "snapshot" /\ fg.op # "process"
<1>a. GateInv /\ ArmInv /\ hw \in Registers
  BY Parts
<1>1. 0 \in hw.lines /\ Open # {}
  BY <1>a DEF IsrMayRun, LineAsserted, Registers, Open
<1>2. can.enabled
  BY <1>1, <1>a DEF GateInv, GatesMatchConfiguration
<1>3. fg.op # "snapshot"
  BY <1>1, <1>2, <1>a DEF GateInv, GatesMatchConfiguration, LinesToGate
<1>4. fg.op # "process"
  BY <1>1, <1>a DEF ArmInv
<1> QED BY <1>1, <1>2, <1>3, <1>4

LEMMA IsrKeeps == ASSUME ControllerInv, DiagnosticIsr PROVE HandOverInv'
<1>a. CallInv /\ GateInv /\ ArmInv /\ LatchInv /\ BusInv /\ CopyInv /\ can \in Object
      /\ hw \in Registers /\ canDiagnostics \in Diagnostics
  BY Parts
<1> DEFINE masks == IsFault(hw) /\ MayMask
<1>1. /\ IsrMayRun /\ can.controllerState = "RUNNING" /\ fg' = fg
      /\ canDiagnostics' = Captured(canDiagnostics, can.lastObservedBusState, hw)
      /\ hw' = [ReadStatus(hw) EXCEPT !.sources =
                  IF masks THEN ReadStatus(hw).sources \ can.armed ELSE ReadStatus(hw).sources]
      /\ can' = [can EXCEPT
           !.lastObservedBusState = CurrentBusState(hw.confinement),
           !.currentProtocolError = (hw.lec # "NONE"),
           !.armed = IF masks THEN {} ELSE can.armed,
           !.faultPending = IF masks THEN TRUE ELSE can.faultPending]
  BY Zenon DEF DiagnosticIsr
<1>2. can.enabled /\ Open # {} /\ fg.op # "snapshot" /\ fg.op # "process"
  BY <1>1, IsrRuns
<1>3. masks => can.armed # {}
  BY DEF MayMask
<1> HIDE DEF masks
<1>4. /\ ConfigKept /\ StateKept
      /\ masks => can'.armed = {} /\ can'.faultPending = TRUE
      /\ ~masks => ArmKept
  BY <1>1, <1>a DEF Object, ConfigKept, StateKept, ArmKept
<1>5. /\ hw'.lines = hw.lines
      /\ masks => hw'.sources = hw.sources \ can.armed
      /\ ~masks => hw'.sources = hw.sources
  BY <1>1, <1>a DEF Registers, ReadStatus
<1>6. CallInv'
  BY <1>1, <1>4, <1>a DEF CallInv, StateKept, ConfigKept
<1>7. GateInv'
  <2>1. /\ ConfiguredSources' = ConfiguredSources /\ ConfiguredLines' = ConfiguredLines
    BY <1>4, ConfiguredKept
  <2>2. can.armed \subseteq Diagnostic
    BY <1>a DEF Object
  <2>3. /\ hw'.sources \ Diagnostic = hw.sources \ Diagnostic
        /\ hw'.sources \subseteq hw.sources
    BY <1>5, <2>2
  <2>4. GatesMatchConfiguration'
    BY <1>1, <1>2, <1>4, <1>5, <1>a, <2>1, <2>3 DEF GateInv, GatesMatchConfiguration, ConfigKept
  <2> QED BY <1>1, <1>2, <1>4, <1>a, <2>4 DEF GateInv, SafeUninitialized, StateKept
<1>8. ArmInv' /\ LatchInv'
  <2>1. CASE ~masks
    <3>1. ArmKept /\ GatesKept
      BY <1>4, <1>5, <2>1 DEF GatesKept
    <3>2. ArmInv'
      BY <1>1, <1>4, <3>1, <1>a DEF ArmInv, ArmKept, GatesKept, Open, ConfigKept
    <3>3. LatchInv'
      BY <1>1, <1>4, <3>1, <1>a, LatchKept
    <3> QED BY <3>2, <3>3
  <2>2. CASE masks
    <3>1. can'.armed = {} /\ Open' = Open \ can.armed /\ can.armed # {}
      BY <1>3, <1>4, <1>5, <2>2 DEF Open
    <3>2. fg.pc \notin {"rearmSources", "rearmError", "maskError", "maskStatus"}
      BY <1>2, <3>1, <1>a DEF ArmInv
    <3>3. fg.op # "rearm" => Open' = {}
      <4>1. fg.op = "mask" => fg.pc = "maskSources"
        BY <3>2, <1>a DEF CallInv, MaskSteps
      <4>2. fg.op # "rearm" => can.armed = Open
        BY <4>1, <1>a DEF ArmInv
      <4> QED BY <3>1, <4>2
    <3>4. ArmInv'
      <4>1. fg.pc \in {"rearmClearError", "rearmClearEvent"} => Open' = {}
        BY <3>1, <1>a DEF ArmInv
      <4>2. fg.pc = "rearmStatus" => Open' = can.diagnostics \intersect {"STATUS"}
        BY <3>1, <1>a DEF ArmInv
      <4> QED
        BY <1>1, <1>2, <1>4, <3>1, <3>2, <3>3, <4>1, <4>2, <1>a
           DEF ArmInv, ConfigKept, CallInv, RearmSteps
    <3>5. LatchInv'
      BY <1>1, <1>2, <1>4, <3>1, <3>3 DEF LatchInv, LatchedMeansMasked, ConfigKept, Open
    <3> QED BY <3>4, <3>5
  <2> QED BY <2>1, <2>2
<1>9. BusInv'
  <2>1. canDiagnostics'.busState = CurrentBusState(hw.confinement)
    <3> DEFINE d == CountEntries(canDiagnostics, can.lastObservedBusState,
                                 CurrentBusState(hw.confinement))
               e == StoreBusState(d, CurrentBusState(hw.confinement))
    <3>1. d \in Diagnostics
      BY <1>a, CountTyped
    <3>2. e.busState = CurrentBusState(hw.confinement)
      BY <3>1 DEF StoreBusState, Diagnostics
    <3>3. canDiagnostics' = RecordError(e, hw.lec)
      BY <1>1, Zenon DEF Captured
    <3>4. RecordError(e, hw.lec).busState = e.busState
      <4>1. e \in Diagnostics
        BY <3>1, CurrentTyped, DiagnosticsTyped, Zenon
      <4> HIDE DEF e
      <4> QED BY <4>1 DEF RecordError, Diagnostics
    <3> QED BY <3>2, <3>3, <3>4, Zenon
  <2>2. canDiagnostics'.busState # STOPPED
    BY <2>1, CurrentTyped, Zenon
  <2> QED BY <1>1, <1>4, <2>2 DEF BusInv, StateKept
<1>10. CopyInv'
  BY <1>1, <1>2, <1>a DEF CopyInv, CallInv, SnapshotSteps
<1> QED BY <1>6, <1>7, <1>8, <1>9, <1>10 DEF HandOverInv

LEMMA HandOverStep == ControllerInv /\ [Next]_vars => HandOverInv'
<1> SUFFICES ASSUME ControllerInv, [Next]_vars PROVE HandOverInv'
  OBVIOUS
<1>1. CASE UNCHANGED vars
  BY <1>1, OutsideKeeps DEF vars, GatesKept
<1>2. CASE ForegroundStep
  BY <1>2, StartModuleKeeps, CaptureKeeps, CaptureStateKeeps, CaptureTailKeeps,
     StopStateKeeps, StopBusStateKeeps, RearmSourcesKeeps, RearmErrorKeeps, RearmStatusKeeps,
     RearmClearErrorKeeps, RearmClearEventKeeps, MaskSourcesKeeps, MaskErrorKeeps,
     MaskStatusKeeps, TakeEventKeeps, CopyKeeps, ReopenKeeps, Zenon DEF ForegroundStep
<1>3. CASE Next
  BY <1>2, <1>3, BusStatusKeeps, FrameKeeps, PieKeeps, InitKeeps, ConfigureKeeps, EnableKeeps,
     DisableKeeps, RetransmissionKeeps, StartCallKeeps, ProcessCallKeeps, StopCallKeeps,
     RearmCallKeeps, MaskCallKeeps, EventCheckKeeps, GateLinesKeeps, IsrKeeps, Zenon DEF Next
<1> QED BY <1>1, <1>3

-----------------------------------------------------------------------------
(* The theorems *)

LEMMA ControllerInvariance == Spec => []ControllerInv
<1>1. Init => ControllerInv
  BY InitTyped, InitHandOver DEF ControllerInv
<1>2. ControllerInv /\ [Next]_vars => ControllerInv'
  BY TypeStep, HandOverStep DEF ControllerInv
<1> QED BY <1>1, <1>2, PTL DEF Spec

\* Type correctness, for every set of protocol errors: registers, object and the
\* call in progress (HAL_CAN_Obj, the local variables of hal_can.c).
THEOREM ControllerTypeCorrect == Spec => []TypeOK
<1>1. ControllerInv => TypeOK
  BY DEF ControllerInv
<1> QED BY <1>1, ControllerInvariance, PTL

\* Outside the window in which a rearm opened the sources and did not yet assign
\* their flags, and the one in which a mask closed them, flags and enable bits
\* agree source by source; a mask errs only towards closed sources, a rearm only
\* towards open ones (hal_can.c, the flags flag...InterruptEnabled against the
\* enables in CAN_O_CTL), whatever the ISR masked in between.
THEOREM FlagsFollowSources == Spec => []FlagsMatchSources
<1>1. ControllerInv => FlagsMatchSources
  <2> SUFFICES ASSUME ControllerInv PROVE FlagsMatchSources
    OBVIOUS
  <2>a. CallInv /\ ArmInv
    BY Parts
  <2>1. fg.op = "mask" => Open \subseteq can.armed
    BY <2>a DEF ArmInv, CallInv, MaskSteps
  <2>2. fg.op = "rearm" => can.armed \subseteq Open
    BY <2>a DEF ArmInv, CallInv, RearmSteps
  <2>3. ASSUME NEW source \in Diagnostic \ Unassigned
        PROVE  source \in can.armed <=> source \in Open
    <3>1. CASE fg.pc \in {"rearmError", "maskError"}
      BY <3>1, <2>3 DEF Unassigned, Diagnostic
    <3>2. CASE fg.pc \in {"rearmStatus", "maskStatus"}
      <4>1. source = "ERROR"
        BY <3>2, <2>3 DEF Unassigned, Diagnostic
      <4> QED BY <2>a, <3>2, <4>1 DEF ArmInv, Open
    <3>3. CASE fg.pc \notin {"rearmError", "maskError", "rearmStatus", "maskStatus"}
      <4>1. can.armed = Open
        BY <2>a, <3>3 DEF ArmInv, CallInv, RearmSteps, MaskSteps
      <4> QED BY <4>1
    <3> QED BY <3>1, <3>2, <3>3
  <2> QED BY <2>1, <2>2, <2>3 DEF FlagsMatchSources, Open
<1> QED BY <1>1, ControllerInvariance, PTL

\* HAL_CAN_process() and the ISR never consume the same status.
THEOREM ProcessIsAlone == Spec => []ProcessOwnsStatus
<1>1. ControllerInv => ProcessOwnsStatus
  BY IsrRuns DEF ProcessOwnsStatus
<1> QED BY <1>1, ControllerInvariance, PTL

\* Between calls the reported bus state is STOPPED exactly while the controller
\* does not run (HAL_CAN_start, HAL_CAN_stop and the capture of the ISR).
THEOREM BusStateCorrect == Spec => []BusStateFollowsLifecycle
<1>1. ControllerInv => BusStateFollowsLifecycle
  <2> SUFFICES ASSUME ControllerInv, fg.pc = "idle"
               PROVE  canDiagnostics.busState = STOPPED <=> can.controllerState # "RUNNING"
    BY DEF BusStateFollowsLifecycle, Idle
  <2> QED BY Parts DEF BusInv, CallInv, Starting
<1> QED BY <1>1, ControllerInvariance, PTL

\* A failed HAL_CAN_init() leaves nothing of the previous configuration behind.
THEOREM FailedInitIsClean == Spec => []SafeUninitialized
<1>1. ControllerInv => SafeUninitialized
  BY Parts DEF GateInv
<1> QED BY <1>1, ControllerInvariance, PTL

\* The interrupt gates are those of the configuration; HAL_CAN_getDiagnostics()
\* restores what it closed.
THEOREM GatesCorrect == Spec => []GatesMatchConfiguration
<1>1. ControllerInv => GatesMatchConfiguration
  BY Parts DEF GateInv
<1> QED BY <1>1, ControllerInvariance, PTL

\* HAL_CAN_getDiagnostics() hands out one value, although it copies in parts.
THEOREM SnapshotCoherent == Spec => []SnapshotIsCoherent
<1>1. ControllerInv => SnapshotIsCoherent
  <2> SUFFICES ASSUME ControllerInv, fg.pc = "reopen" PROVE fg.copy = canDiagnostics
    BY DEF SnapshotIsCoherent
  <2>1. fg.copy \in Diagnostics /\ canDiagnostics \in Diagnostics /\ CopyInv
    BY Parts DEF Call
  <2> QED BY <2>1 DEF CopyInv, Diagnostics
<1> QED BY <1>1, ControllerInvariance, PTL

\* Outside a rearm a latched fault event keeps both sources masked: a second
\* fault cannot be merged into it (flagDiagnosticFaultEventPending in hal_can.c).
THEOREM LatchedFaultMasks == Spec => []LatchedMeansMasked
<1>1. ControllerInv => LatchedMeansMasked
  BY Parts DEF LatchInv
<1> QED BY <1>1, ControllerInvariance, PTL
=============================================================================
