--------------------------- MODULE CanMailboxProofs ---------------------------
(***************************************************************************)
(* Theorems about CanMailbox, for every number of message objects, every   *)
(* set of lengths and payloads, every allocation of roles and every bound. *)
(***************************************************************************)
EXTENDS CanMailbox, WellFoundedInduction, TLAPS

-----------------------------------------------------------------------------
(* Types *)

\* What a cancel works on next is one of the objects that are left.
LEMMA LeastExists ==
  ASSUME NEW S \in SUBSET Nat, S # {}
  PROVE  \E x \in S : \A y \in S : ~(<<y, x>> \in OpToRel(<, Nat))
<1>1. IsWellFoundedOn(OpToRel(<, Nat), Nat)
  BY NatLessThanWellFounded, Zenon
<1>2. ASSUME NEW R, IsWellFoundedOn(R, Nat)
      PROVE  \E x \in S : \A y \in S : ~(<<y, x>> \in R)
  BY <1>2, WFMin, Zenon
<1> QED BY <1>1, <1>2, Zenon

LEMMA MinIsMember ==
  ASSUME NEW S \in SUBSET Nat, S # {}
  PROVE  Min(S) \in S
<1>1. \E x \in S : \A y \in S : ~(y < x)
  <2>1. ASSUME NEW x \in S, \A y \in S : ~(<<y, x>> \in OpToRel(<, Nat))
        PROVE  \A y \in S : ~(y < x)
    BY <2>1, Zenon DEF OpToRel
  <2> QED BY <2>1, LeastExists, Zenon
<1>2. \E x \in S : \A y \in S : x <= y
  BY <1>1
<1> QED BY <1>2 DEF Min

LEMMA NextIsMember ==
  ASSUME NEW S \in SUBSET Mailbox, S # {}
  PROVE  NextObject(S) \in S
<1>1. S \in SUBSET Nat
  BY MailboxAssumption DEF Mailbox
<1> QED BY <1>1, MinIsMember DEF NextObject

LEMMA BlankIsContent == Blank \in Content
  BY MailboxAssumption DEF Blank, Content, Role, Data

\* A command moves fields between two contents.
LEMMA TransferTypes ==
  ASSUME NEW c \in Content, NEW r \in Content, NEW fields
  PROVE  /\ Written(c, r, fields) \in Content
         /\ Fetched(r, c, fields) \in Content
         /\ Released(c, fields) \in Content
<1>1. Written(c, r, fields) \in Content
  <2> DEFINE arb == IF "ARB" \in fields THEN [c EXCEPT !.role = r.role] ELSE c
             ctl == IF "CONTROL" \in fields
                    THEN [arb EXCEPT !.dlc = r.dlc, !.txrqst = r.txrqst,
                                     !.newdat = r.newdat, !.msglst = r.msglst,
                                     !.ie = r.ie, !.intpnd = r.intpnd]
                    ELSE [arb EXCEPT !.txrqst = @ \/ "TXRQST" \in fields]
  <2>1. arb \in Content
    BY DEF Content
  <2> HIDE DEF arb
  <2>2. ctl \in Content
    <3>1. CASE "CONTROL" \in fields
      BY <2>1, <3>1 DEF Content
    <3>2. CASE "CONTROL" \notin fields
      BY <2>1, <3>2 DEF Content
    <3> QED BY <3>1, <3>2
  <2> HIDE DEF ctl
  <2>3. (IF "DATA" \in fields THEN [ctl EXCEPT !.data = r.data] ELSE ctl) \in Content
    BY <2>2 DEF Content
  <2> QED BY <2>3 DEF Written, arb, ctl
<1>2. Fetched(r, c, fields) \in Content
  <2> DEFINE arb == IF "ARB" \in fields THEN [r EXCEPT !.role = c.role] ELSE r
             ctl == IF "CONTROL" \in fields
                    THEN [arb EXCEPT !.dlc = c.dlc, !.txrqst = c.txrqst,
                                     !.newdat = c.newdat, !.msglst = c.msglst,
                                     !.ie = c.ie, !.intpnd = c.intpnd]
                    ELSE arb
  <2>1. arb \in Content
    BY DEF Content
  <2> HIDE DEF arb
  <2>2. ctl \in Content
    BY <2>1 DEF Content
  <2> HIDE DEF ctl
  <2>3. (IF "DATA" \in fields THEN [ctl EXCEPT !.data = c.data] ELSE ctl) \in Content
    BY <2>2 DEF Content
  <2> QED BY <2>3 DEF Fetched, arb, ctl
<1>3. Released(c, fields) \in Content
  BY DEF Released, Content
<1> QED BY <1>1, <1>2, <1>3

\* What a step must keep: types, and interfaces that still execute a command.
Kept ==
  /\ TypeOK'
  /\ \A i \in 1..2 : ifc[i].busy /\ ifc'[i] # ifc[i] => ~ifc'[i].busy

CallFields ==
  [pc : Step, op : Operation, obj : Mailbox, arg : Content,
   todo : SUBSET Mailbox, found : SUBSET Mailbox]

LEMMA IdleCallIsCall == IdleCall \in CallFields
  BY MailboxAssumption, BlankIsContent DEF IdleCall, CallFields, Step, Operation, Mailbox

\* A step that issues a command on a free interface.
LEMMA IssueKeeps ==
  ASSUME TypeOK, NEW i \in 1..2, Ready(i), NEW o \in Mailbox, NEW regs \in Content,
         NEW write \in BOOLEAN, NEW fields \in SUBSET Field, Issue(i, o, regs, write, fields),
         UNCHANGED <<callerView, ram, canDiagnostics, bus>>,
         fg' \in CallFields,
         IF fg'.op \in {"abort", "cancelAll"} THEN fg'.obj \in fg'.todo ELSE fg'.todo = {}
  PROVE  Kept
<1>1. /\ UNCHANGED <<running, ram, frame, canDiagnostics, purpose, cancelled, unrequested>>
      /\ UNCHANGED <<submitted, arrivals, overruns, calls>>
  BY DEF callerView, bus
<1>2. ifc' \in [1..2 -> [busy : BOOLEAN, regs : Content, cmd : Command]]
  BY DEF TypeOK, Issue, Command
<1>3. \A j \in 1..2 : ifc[j].busy => ifc'[j] = ifc[j]
  BY DEF TypeOK, Issue, Ready
<1> QED BY <1>1, <1>2, <1>3 DEF TypeOK, Kept, CallFields

LEMMA SubmitKeeps ==
  ASSUME TypeOK, NEW i \in 1..2, Ready(i), NEW regs \in Content, NEW write \in BOOLEAN,
         NEW fields \in SUBSET Field, NEW step \in Step, Submit(i, regs, write, fields, step),
         UNCHANGED <<callerView, ram, canDiagnostics, bus>>
  PROVE  Kept
<1>1. /\ fg' \in CallFields /\ fg.obj \in Mailbox
      /\ IF fg'.op \in {"abort", "cancelAll"} THEN fg'.obj \in fg'.todo ELSE fg'.todo = {}
  BY DEF Submit, TypeOK, CallFields
<1>2. Issue(i, fg.obj, regs, write, fields)
  BY DEF Submit
<1> QED BY <1>1, <1>2, IssueKeeps

\* The commands the code issues.
LEMMA FieldSets ==
  /\ {"ARB", "CONTROL"} \in SUBSET Field /\ {"DATA"} \in SUBSET Field
  /\ {"CONTROL"} \in SUBSET Field /\ {"TXRQST"} \in SUBSET Field
  /\ {"DATA", "TXRQST"} \in SUBSET Field /\ {"CONTROL", "TXRQST"} \in SUBSET Field
  /\ PreloadFields \in SUBSET Field /\ SnapshotFields \in SUBSET Field
  /\ AcknowledgeFields \in SUBSET Field
  /\ 1 \in 1..2 /\ 2 \in 1..2 /\ TRUE \in BOOLEAN /\ FALSE \in BOOLEAN
  BY DEF Field, PreloadFields, SnapshotFields, AcknowledgeFields

LEMMA StepNames ==
  /\ "setup" \in Step /\ "loaded" \in Step /\ "stored" \in Step /\ "commit" \in Step
  /\ "free" \in Step /\ "length" \in Step /\ "submitted" \in Step /\ "cancel" \in Step
  /\ "control" \in Step /\ "next" \in Step /\ "poll" \in Step /\ "fetched" \in Step
  /\ "taken" \in Step
  BY DEF Step

\* A step that leaves the peripheral alone.
LEMMA LocalKeeps ==
  ASSUME TypeOK, UNCHANGED <<ram, ifc, submitted, arrivals, overruns>>,
         running' \in BOOLEAN, fg' \in CallFields,
         IF fg'.op \in {"abort", "cancelAll"} THEN fg'.obj \in fg'.todo ELSE fg'.todo = {},
         frame' \in [Mailbox -> Data], canDiagnostics' \in [Counter -> Nat],
         purpose' \in [Mailbox -> Role],
         cancelled' \subseteq Mailbox, unrequested' \subseteq Mailbox, calls' \in Nat
  PROVE  Kept
  BY DEF TypeOK, Kept, CallFields

\* A call returns, and reports nothing but its result.
LEMMA ReturnKeeps ==
  ASSUME TypeOK, fg' = IdleCall, UNCHANGED <<callerView, ram, ifc, bus>>,
         canDiagnostics' \in [Counter -> Nat]
  PROVE  Kept
<1>1. /\ fg' \in CallFields
      /\ IF fg'.op \in {"abort", "cancelAll"} THEN fg'.obj \in fg'.todo ELSE fg'.todo = {}
  BY IdleCallIsCall DEF IdleCall
<1> QED BY <1>1, LocalKeeps DEF TypeOK, callerView, bus

\* A call on one object begins.
LEMMA BeginKeeps ==
  ASSUME TypeOK, NEW pc \in Step, NEW op \in Operation \ {"abort", "cancelAll"},
         NEW o \in Mailbox, NEW arg \in Content, Begin(Call(pc, op, o, arg), {o}),
         purpose' \in [Mailbox -> Role]
  PROVE  Kept
<1>1. fg' = [IdleCall EXCEPT !.pc = pc, !.op = op, !.obj = o, !.arg = arg]
  BY DEF Begin, Call
<1>2. /\ fg' \in CallFields
      /\ IF fg'.op \in {"abort", "cancelAll"} THEN fg'.obj \in fg'.todo ELSE fg'.todo = {}
  BY <1>1 DEF IdleCall, CallFields
<1> QED BY <1>2, LocalKeeps DEF TypeOK, Begin, bus

LEMMA ConfigureCallKeeps ==
  ASSUME TypeOK, NEW o \in Mailbox, NEW role \in Role, NEW ie \in BOOLEAN,
         NEW dlc \in Lengths, NEW data \in Data, ConfigureCall(o, role, ie, dlc, data)
  PROVE  Kept
<1> DEFINE arg == [Blank EXCEPT !.role = role, !.ie = ie, !.dlc = dlc, !.data = data]
<1>1. arg \in Content
  BY BlankIsContent DEF Content
<1>2. Begin(Call("setup", "configure", o, arg), {o})
  BY DEF ConfigureCall
<1>3. purpose' \in [Mailbox -> Role]
  BY DEF ConfigureCall, TypeOK, Role
<1> HIDE DEF arg
<1> QED BY <1>1, <1>2, <1>3, BeginKeeps DEF Step, Operation

LEMMA ConfiguringKeeps ==
  ASSUME TypeOK, NEW ie \in BOOLEAN,
         \/ \E o \in Mailbox : ConfigureRx(o, ie) \/ ConfigureSender(o, ie)
         \/ SetupObject \/ PreloadObject \/ ConfigureReturns
  PROVE  Kept
<1>1. ASSUME NEW o \in Mailbox, ConfigureRx(o, ie) \/ ConfigureSender(o, ie)
      PROVE  Kept
  <2>1. PICK role \in Role, dlc \in Lengths, data \in Data : ConfigureCall(o, role, ie, dlc, data)
    BY <1>1, MailboxAssumption
       DEF ConfigureRx, ConfigureSender, ConfigureTx, ConfigureRemoteRequest,
           ConfigureRemoteResponse, SendLength, Data, Role
  <2> QED BY <2>1, ConfigureCallKeeps
<1>2. ASSUME SetupObject PROVE Kept
  <2> DEFINE regs == [fg.arg EXCEPT !.data = ifc[1].regs.data]
  <2>1. regs \in Content
    BY DEF TypeOK, Content
  <2>2. Submit(1, regs, TRUE, {"ARB", "CONTROL"}, "loaded")
    BY <1>2 DEF SetupObject
  <2> HIDE DEF regs
  <2> QED BY <1>2, <2>1, <2>2, SubmitKeeps, FieldSets, StepNames DEF SetupObject
<1>3. ASSUME PreloadObject PROVE Kept
  <2> DEFINE regs == [ifc[1].regs EXCEPT !.data = fg.arg.data]
  <2>1. regs \in Content
    BY DEF TypeOK, Content
  <2>2. Submit(1, regs, TRUE, PreloadFields, "stored")
    BY <1>3 DEF PreloadObject, WriteData
  <2> HIDE DEF regs
  <2> QED BY <1>3, <2>1, <2>2, SubmitKeeps, FieldSets, StepNames DEF PreloadObject
<1>4. ASSUME ConfigureReturns PROVE Kept
  <2>1. fg' \in CallFields /\ fg'.op = "none" /\ fg'.todo = {}
    BY <1>4, IdleCallIsCall DEF ConfigureReturns, IdleCall
  <2>2. purpose' \in [Mailbox -> Role]
    BY <1>4 DEF ConfigureReturns, TypeOK, Content
  <2> QED BY <1>4, <2>1, <2>2, LocalKeeps DEF ConfigureReturns, TypeOK, bus
<1> QED BY <1>1, <1>2, <1>3, <1>4

LEMMA WriteDataKeeps ==
  ASSUME TypeOK, Ready(1), WriteData, UNCHANGED <<callerView, ram, canDiagnostics, bus>>
  PROVE  Kept
<1> DEFINE regs == [ifc[1].regs EXCEPT !.data = fg.arg.data]
<1>1. regs \in Content
  BY DEF TypeOK, Content
<1>2. Submit(1, regs, TRUE, PreloadFields, "stored")
  BY DEF WriteData
<1> HIDE DEF regs
<1> QED BY <1>1, <1>2, SubmitKeeps, FieldSets, StepNames

LEMMA TransmitCallsKeep ==
  ASSUME TypeOK, NEW o \in Mailbox,
         \/ \E dlc \in SendLength, data \in CallerData : SendCall(o, dlc, data)
         \/ RequestCall(o)
         \/ \E data \in CallerData : UpdateCall(o, data)
  PROVE  Kept
<1>1. ASSUME NEW dlc \in SendLength, NEW data \in CallerData, SendCall(o, dlc, data) PROVE Kept
  <2> DEFINE arg == [Blank EXCEPT !.dlc = dlc, !.data = data]
  <2>1. arg \in Content
    <3>1. dlc \in Lengths /\ data \in Data
      BY DEF SendLength, Data
    <3> QED BY <3>1, BlankIsContent DEF Content
  <2>2. Begin(Call("commit", "send", o, arg), {o})
    BY <1>1, Zenon DEF SendCall
  <2>3. purpose' \in [Mailbox -> Role]
    BY <1>1, Zenon DEF SendCall, TypeOK
  <2> HIDE DEF arg
  <2> QED BY <2>1, <2>2, <2>3, BeginKeeps DEF Step, Operation
<1>2. ASSUME RequestCall(o) PROVE Kept
  BY <1>2, BeginKeeps, BlankIsContent DEF RequestCall, TypeOK, Step, Operation
<1>3. ASSUME NEW data \in CallerData, UpdateCall(o, data) PROVE Kept
  <2> DEFINE arg == [Blank EXCEPT !.data = data]
  <2>1. arg \in Content
    BY BlankIsContent DEF Content, Data
  <2>2. Begin(Call("commit", "update", o, arg), {o})
    BY <1>3, Zenon DEF UpdateCall
  <2>3. purpose' \in [Mailbox -> Role]
    BY <1>3, Zenon DEF UpdateCall, TypeOK
  <2> HIDE DEF arg
  <2> QED BY <2>1, <2>2, <2>3, BeginKeeps DEF Step, Operation
<1> QED BY <1>1, <1>2, <1>3

LEMMA TransmittingKeeps ==
  ASSUME TypeOK, Transmitting
  PROVE  Kept
<1>1. CASE Busy \/ LengthMismatch \/ UpdateReturns
  BY <1>1, ReturnKeeps DEF Busy, LengthMismatch, UpdateReturns, TypeOK
<1>2. CASE RequestAccepted
  <2>1. canDiagnostics' \in [Counter -> Nat]
    BY <1>2 DEF RequestAccepted, TypeOK
  <2> QED BY <1>2, <2>1, ReturnKeeps DEF RequestAccepted
<1>3. CASE NotBusy
  <2>1. /\ fg' \in CallFields
        /\ IF fg'.op \in {"abort", "cancelAll"} THEN fg'.obj \in fg'.todo ELSE fg'.todo = {}
    BY <1>3 DEF NotBusy, TypeOK, CallFields, Step
  <2> QED BY <1>3, <2>1, LocalKeeps DEF NotBusy, TypeOK, callerView, bus
<1>4. CASE ReadLength
  <2>1. ifc[1].regs \in Content
    BY DEF TypeOK
  <2> QED BY <1>4, <2>1, SubmitKeeps, FieldSets, StepNames DEF ReadLength
<1>5. CASE SubmitData
  <2> DEFINE regs == [ifc[1].regs EXCEPT !.data = fg.arg.data]
  <2>1. regs \in Content /\ ifc[1].regs \in Content
    BY DEF TypeOK, Content
  <2>2. \/ Submit(1, regs, TRUE, {"DATA", "TXRQST"}, "submitted")
        \/ Submit(1, ifc[1].regs, TRUE, {"TXRQST"}, "submitted")
    BY <1>5 DEF SubmitData
  <2> HIDE DEF regs
  <2> QED BY <1>5, <2>1, <2>2, SubmitKeeps, FieldSets, StepNames DEF SubmitData
<1>6. CASE SubmitRemoteRequest
  <2>1. ifc[1].regs \in Content
    BY DEF TypeOK
  <2> QED BY <1>6, <2>1, SubmitKeeps, FieldSets, StepNames DEF SubmitRemoteRequest
<1>7. CASE UpdateData
  BY <1>7, WriteDataKeeps DEF UpdateData
<1> QED
  BY <1>1, <1>2, <1>3, <1>4, <1>5, <1>6, <1>7, TransmitCallsKeep DEF Transmitting

LEMMA CancelCallKeeps ==
  ASSUME TypeOK, NEW op \in {"abort", "cancelAll"}, NEW scope \in SUBSET Mailbox,
         CancelCall(op, scope)
  PROVE  Kept
<1> DEFINE pending == TxRequests \intersect scope
<1>1. pending \in SUBSET Mailbox
  OBVIOUS
<1>2. UNCHANGED <<running, ram, ifc, frame, canDiagnostics, purpose, cancelled>>
      /\ UNCHANGED <<submitted, arrivals, overruns>> /\ calls' \in Nat
  BY DEF CancelCall, bus, TypeOK
<1>3. CASE pending = {}
  <2>1. unrequested' = unrequested \union scope /\ UNCHANGED fg
    BY <1>3 DEF CancelCall
  <2> QED BY <1>2, <2>1, LocalKeeps DEF TypeOK, CallFields
<1>4. CASE pending # {}
  <2>1. NextObject(pending) \in pending
    BY <1>1, <1>4, NextIsMember
  <2>2. /\ fg' = [IdleCall EXCEPT !.pc = "cancel", !.op = op, !.obj = NextObject(pending),
                                 !.todo = pending, !.found = pending]
        /\ UNCHANGED unrequested
    BY <1>4 DEF CancelCall
  <2> HIDE DEF pending
  <2>3. /\ fg' \in CallFields
        /\ IF fg'.op \in {"abort", "cancelAll"} THEN fg'.obj \in fg'.todo ELSE fg'.todo = {}
    BY <1>1, <2>1, <2>2, IdleCallIsCall, StepNames DEF CallFields, Operation
  <2> QED BY <1>2, <2>2, <2>3, LocalKeeps DEF TypeOK
<1> QED BY <1>3, <1>4

LEMMA CancellingKeeps ==
  ASSUME TypeOK, Cancelling
  PROVE  Kept
<1>1. ASSUME NEW o \in Mailbox, AbortTx(o) PROVE Kept
  BY <1>1, CancelCallKeeps DEF AbortTx
<1>2. CASE CancelAll
  BY <1>2, CancelCallKeeps DEF CancelAll
<1>3. CASE ReadControl
  <2>1. ifc[1].regs \in Content
    BY DEF TypeOK
  <2> QED BY <1>3, <2>1, SubmitKeeps, FieldSets, StepNames DEF ReadControl
<1>4. CASE WriteControl
  <2>1. Cleared(ifc[1].regs) \in Content
    <3>1. ifc[1].regs \in Content
      BY DEF TypeOK
    <3> QED BY <3>1 DEF Content, Cleared
  <2> QED BY <1>4, <2>1, SubmitKeeps, FieldSets, StepNames DEF WriteControl
<1>5. CASE CancelNext
  <2> DEFINE rest == fg.todo \ {fg.obj}
  <2>1. rest \in SUBSET Mailbox /\ rest # {}
    BY <1>5 DEF TypeOK, CancelNext
  <2>2. NextObject(rest) \in rest
    BY <2>1, NextIsMember
  <2>3. fg' = [fg EXCEPT !.pc = "cancel", !.todo = rest, !.obj = NextObject(rest)]
    BY <1>5 DEF CancelNext
  <2>4. fg.op \in {"abort", "cancelAll"}
    BY <2>1 DEF TypeOK
  <2> HIDE DEF rest
  <2>5. /\ fg' \in CallFields
        /\ IF fg'.op \in {"abort", "cancelAll"} THEN fg'.obj \in fg'.todo ELSE fg'.todo = {}
    BY <2>1, <2>2, <2>3, <2>4, StepNames DEF CallFields, TypeOK
  <2> QED BY <1>5, <2>5, LocalKeeps DEF CancelNext, TypeOK, callerView, bus
<1>6. CASE CancelReturns
  <2>1. fg' \in CallFields /\ fg'.op = "none" /\ fg'.todo = {}
    BY <1>6, IdleCallIsCall DEF CancelReturns, IdleCall
  <2>2. cancelled' \subseteq Mailbox /\ unrequested' \subseteq Mailbox
    BY <1>6 DEF CancelReturns, TypeOK
  <2> QED BY <1>6, <2>1, <2>2, LocalKeeps DEF CancelReturns, TypeOK, bus
<1> QED BY <1>1, <1>2, <1>3, <1>4, <1>5, <1>6 DEF Cancelling

LEMMA CountedTyped ==
  ASSUME NEW d \in [Counter -> Nat], NEW content
  PROVE  Counted(d, content) \in [Counter -> Nat]
<1>1. d.rxFrameCount \in Nat /\ d.rxOverflowCount \in Nat
  BY DEF Counter
<1>2. ASSUME NEW a \in Nat, NEW b \in Nat
      PROVE  [d EXCEPT !.rxFrameCount = a, !.rxOverflowCount = b] \in [Counter -> Nat]
  OBVIOUS
<1> DEFINE lost == IF content.msglst THEN d.rxOverflowCount + 1 ELSE d.rxOverflowCount
<1>3. Counted(d, content) = [d EXCEPT !.rxFrameCount = d.rxFrameCount + 1, !.rxOverflowCount = lost]
  BY Zenon DEF Counted
<1>4. lost \in Nat /\ d.rxFrameCount + 1 \in Nat
  BY <1>1
<1> HIDE DEF lost
<1> QED BY <1>2, <1>3, <1>4, Zenon

LEMMA ReceivingKeeps ==
  ASSUME TypeOK, Receiving
  PROVE  Kept
<1>1. ASSUME NEW o \in Mailbox, ReceiveCall(o) PROVE Kept
  <2>1. Begin(Call("poll", "receive", o, Blank), {o}) /\ purpose' \in [Mailbox -> Role]
    BY <1>1, Zenon DEF ReceiveCall, TypeOK
  <2> QED BY <2>1, BeginKeeps, BlankIsContent, StepNames DEF Operation
<1>2. CASE ReadObject
  <2>1. ifc[2].regs \in Content
    BY DEF TypeOK
  <2> QED BY <1>2, <2>1, SubmitKeeps, FieldSets, StepNames DEF ReadObject
<1>3. CASE NothingNew \/ LengthRefused
  BY <1>3, ReturnKeeps DEF NothingNew, LengthRefused, TypeOK
<1>4. CASE TakeObject
  <2>1. ifc[2].regs \in Content /\ fg.obj \in Mailbox
    BY DEF TypeOK
  <2>2. /\ fg' \in CallFields
        /\ IF fg'.op \in {"abort", "cancelAll"} THEN fg'.obj \in fg'.todo ELSE fg'.todo = {}
    BY <1>4, <2>1, StepNames DEF TakeObject, TypeOK, CallFields
  <2> QED BY <1>4, <2>1, <2>2, IssueKeeps, FieldSets DEF TakeObject
<1>5. CASE Deliver
  <2>1. fg' \in CallFields /\ fg'.op = "none" /\ fg'.todo = {}
    BY <1>5, IdleCallIsCall DEF Deliver, IdleCall
  <2>2. frame' \in [Mailbox -> Data]
    BY <1>5 DEF Deliver, TypeOK, Content
  <2>3. canDiagnostics' \in [Counter -> Nat]
    <3>1. canDiagnostics' = Counted(canDiagnostics, fg.arg)
      BY <1>5, Zenon DEF Deliver
    <3>2. canDiagnostics \in [Counter -> Nat]
      BY DEF TypeOK
    <3> QED BY <3>1, <3>2, CountedTyped
  <2> QED BY <1>5, <2>1, <2>2, <2>3, LocalKeeps DEF Deliver, TypeOK, bus
<1> QED BY <1>1, <1>2, <1>3, <1>4, <1>5 DEF Receiving

LEMMA TransferKeeps ==
  ASSUME TypeOK, NEW i \in 1..2, Transfer(i)
  PROVE  Kept
<1> DEFINE c == ifc[i].cmd
           old == ram[c.obj]
           regs == ifc[i].regs
           new == IF c.write THEN Written(old, regs, c.fields) ELSE Released(old, c.fields)
           filled == IF c.write THEN regs ELSE Fetched(regs, old, c.fields)
<1>1. c.obj \in Mailbox /\ regs \in Content /\ old \in Content
  BY DEF TypeOK, Command
<1>2. new \in Content /\ filled \in Content
  BY <1>1, TransferTypes
<1>3. /\ ram' = [ram EXCEPT ![c.obj] = new]
      /\ ifc' = [ifc EXCEPT ![i] = [busy |-> FALSE, cmd |-> NoCommand, regs |-> filled]]
      /\ submitted' = submitted + 1 \/ submitted' = submitted
  BY Zenon DEF Transfer
<1>4. UNCHANGED <<running, frame, purpose, cancelled, unrequested, calls, fg>>
      /\ UNCHANGED <<canDiagnostics, arrivals, overruns>>
  BY DEF Transfer, callerView
<1>5. NoCommand \in Command
  BY MailboxAssumption DEF NoCommand, Command, Mailbox
<1> HIDE DEF new, filled, old, c, regs
<1>6. ram' \in [Mailbox -> Content]
  BY <1>1, <1>2, <1>3 DEF TypeOK
<1>7. ifc' \in [1..2 -> [busy : BOOLEAN, regs : Content, cmd : Command]]
  BY <1>2, <1>3, <1>5 DEF TypeOK
<1>8. \A j \in 1..2 : ifc'[j] # ifc[j] => ~ifc'[j].busy
  BY <1>3 DEF TypeOK
<1> QED BY <1>3, <1>4, <1>6, <1>7, <1>8 DEF TypeOK, Kept

LEMMA ArriveKeeps ==
  ASSUME TypeOK, NEW o \in Mailbox, NEW dlc \in Lengths, Arrive(o, dlc)
  PROVE  Kept
<1> DEFINE new == [ram[o] EXCEPT !.data = arrivals + 1, !.dlc = dlc, !.newdat = TRUE,
                                 !.msglst = @ \/ ram[o].newdat,
                                 !.intpnd = @ \/ ram[o].ie]
<1>1. ram[o] \in Content /\ arrivals \in Nat /\ overruns \in Nat
  BY DEF TypeOK
<1>2. /\ ram' = [ram EXCEPT ![o] = new] /\ arrivals < MaxArrivals /\ arrivals' = arrivals + 1
      /\ overruns' = overruns + 1 \/ overruns' = overruns
      /\ UNCHANGED <<callerView, ifc, fg, canDiagnostics, submitted>>
  BY Zenon DEF Arrive
<1>3. arrivals + 1 \in Data
  BY <1>1, <1>2, MailboxAssumption DEF Data
<1>4. new \in Content
  BY <1>1, <1>3 DEF Content
<1> HIDE DEF new
<1> QED BY <1>1, <1>2, <1>4 DEF TypeOK, Kept, callerView

LEMMA FrameOutKeeps ==
  ASSUME TypeOK, NEW o \in Mailbox, FrameOut(o)
  PROVE  Kept
<1>1. ram[o] \in Content
  BY DEF TypeOK
<1>2. PICK new \in Content : ram' = [ram EXCEPT ![o] = new]
  <2>1. CASE Transmit(o)
    <3>1. [ram[o] EXCEPT !.txrqst = FALSE, !.intpnd = @ \/ ram[o].ie] \in Content
      BY <1>1 DEF Content
    <3> QED BY <2>1, <3>1, Zenon DEF Transmit
  <2>2. CASE RemoteFrame(o)
    <3>1. [ram[o] EXCEPT !.txrqst = TRUE] \in Content
      BY <1>1 DEF Content
    <3> QED BY <2>2, <3>1 DEF RemoteFrame
  <2> QED BY <2>1, <2>2 DEF FrameOut
<1>3. UNCHANGED <<callerView, ifc, fg, canDiagnostics, bus>>
  BY Zenon DEF FrameOut, Transmit, RemoteFrame
<1> QED BY <1>2, <1>3 DEF TypeOK, Kept, callerView, bus

LEMMA StepKeeps ==
  ASSUME TypeOK, [Next]_vars
  PROVE  Kept
<1>1. CASE StartStop
  BY <1>1, LocalKeeps DEF StartStop, TypeOK, CallFields, bus
<1>2. CASE WaitExpires
  <2>1. canDiagnostics' \in [Counter -> Nat]
    BY <1>2 DEF WaitExpires, TimedOut, TypeOK
  <2> QED BY <1>2, <2>1, ReturnKeeps DEF WaitExpires
<1>3. CASE Configuring
  BY <1>3, ConfiguringKeeps DEF Configuring
<1>4. CASE Transmitting \/ Cancelling \/ Receiving
  BY <1>4, TransmittingKeeps, CancellingKeeps, ReceivingKeeps
<1>5. CASE Peripheral
  BY <1>5, TransferKeeps, ArriveKeeps, FrameOutKeeps DEF Peripheral
<1>6. CASE UNCHANGED vars
  BY <1>6 DEF vars, Kept, TypeOK
<1> QED BY <1>1, <1>2, <1>3, <1>4, <1>5, <1>6 DEF Next

LEMMA InitTyped == Init => TypeOK
<1> SUFFICES ASSUME Init PROVE TypeOK
  OBVIOUS
<1>1. NoCommand \in Command
  BY MailboxAssumption DEF NoCommand, Command, Mailbox
<1>2. ifc \in [1..2 -> [busy : BOOLEAN, regs : Content, cmd : Command]]
  BY <1>1, BlankIsContent DEF Init
<1>3. ram \in [Mailbox -> Content]
  BY BlankIsContent DEF Init
<1> QED BY <1>2, <1>3, IdleCallIsCall DEF Init, TypeOK, IdleCall, CallFields, Data, Role

\* TypeOK: every register, command and count keeps its type, and a cancel always works
\* on an object it found pending (hal_can_hw.c, bit masks of message objects).
THEOREM TypeCorrect == Spec => []TypeOK
<1>1. TypeOK /\ [Next]_vars => TypeOK'
  BY StepKeeps DEF Kept
<1> QED BY <1>1, InitTyped, PTL DEF Spec

\* InterfaceUndisturbed: no sequence of calls, timeouts and late executions makes the
\* code write an interface whose command is still under way.
THEOREM InterfaceOwned == Spec => InterfaceUndisturbed
<1> DEFINE Undisturbed == \A i \in 1..2 : ifc[i].busy /\ ifc'[i] # ifc[i] => ~ifc'[i].busy
<1>1. TypeOK /\ [Next]_vars => Undisturbed
  BY StepKeeps DEF Kept
<1> QED BY <1>1, TypeCorrect, PTL DEF Spec, InterfaceUndisturbed

-----------------------------------------------------------------------------
(* The inductive invariant *)

Senders == {"TX_DATA", "TX_REMOTE_REQUEST"}
Cancels == {"abort", "cancelAll"}

\* The command under way on interface 1 writes, and asks for a transmission.
Writing == ifc[1].busy /\ ifc[1].cmd.write
Raising == Writing /\ ifc[1].cmd.fields \in {{"DATA", "TXRQST"}, {"TXRQST"}}

\* An object that a cancel has dealt with.
Clean(o) == ram[o].role # "REMOTE_RESPONSE" => ~ram[o].txrqst
Handled == cancelled \union (fg.found \ fg.todo)

\* Interface 2 only reads, interface 1 writes one of four commands: the setup of an
\* object that is not configured yet, new data for a responder, a request for an
\* idle sender, the control word of a cancel.
CommandInv ==
  /\ ifc[2].busy => ~ifc[2].cmd.write
  /\ Writing =>
       LET c == ifc[1].cmd
           object == ram[c.obj]
       IN \/ /\ c.fields = {"ARB", "CONTROL"} /\ ~ifc[1].regs.txrqst
             /\ purpose[c.obj] = "NONE"
          \/ c.fields = {"DATA"} /\ object.role = "REMOTE_RESPONSE"
          \/ /\ Raising /\ object.role \in Senders /\ ~object.txrqst
             /\ c.obj \notin Handled
          \/ c.fields = {"CONTROL", "TXRQST"} /\ ~ifc[1].regs.txrqst

\* An object has the role it was configured for.
RoleInv == \A o \in Mailbox : purpose[o] # "NONE" => ram[o].role = purpose[o]

ConfigureInv ==
  fg.op = "configure" =>
    /\ fg.pc \in {"setup", "loaded", "stored"}
    /\ purpose[fg.obj] = "NONE" /\ ~fg.arg.txrqst
    /\ fg.pc # "setup" =>
         IF Writing /\ ifc[1].cmd.fields = {"ARB", "CONTROL"}
         THEN ifc[1].cmd.obj = fg.obj /\ ifc[1].regs.role = fg.arg.role
         ELSE ram[fg.obj].role = fg.arg.role

\* From the sampling of the requests to the command that raises one, nothing else
\* can: the BUSY check is still good when it is used.
SendInv ==
  fg.op \in {"send", "request"} =>
    /\ fg.pc \in {"commit", "free", "length", "submitted"}
    /\ purpose[fg.obj] \in Senders /\ fg.obj \notin cancelled
    /\ fg.pc \in {"free", "length"} => ~ram[fg.obj].txrqst /\ ~Writing
    /\ fg.pc = "submitted" /\ ifc[1].busy => Raising

UpdateInv ==
  fg.op = "update" =>
    fg.pc \in {"commit", "free", "stored"} /\ purpose[fg.obj] = "REMOTE_RESPONSE"

CancelInv ==
  /\ \A o \in Handled : Clean(o)
  /\ IF fg.op \in Cancels
     THEN /\ fg.pc \in {"cancel", "control", "next"}
          /\ fg.pc = "next" =>
               IF ifc[1].busy
               THEN Writing /\ ifc[1].cmd.obj = fg.obj /\ ifc[1].cmd.fields = {"CONTROL", "TXRQST"}
               ELSE Clean(fg.obj)
     ELSE fg.found = {}

OtherInv ==
  /\ fg.op = "none" => fg.pc = "idle"
  /\ fg.op = "receive" => fg.pc \in {"poll", "fetched", "taken"}

\* The counters, with the request that is on its way.
CountInv ==
  LET d == canDiagnostics
  IN /\ submitted + (IF Raising THEN 1 ELSE 0) <=
          d.txRequestCount + d.transactionTimeoutCount + (IF At("submitted") THEN 1 ELSE 0)
     /\ d.txRequestCount + (IF At("submitted") /\ ~ifc[1].busy THEN 1 ELSE 0) <= submitted

MailboxInv ==
  /\ TypeOK /\ CommandInv /\ RoleInv
  /\ ConfigureInv /\ SendInv /\ UpdateInv /\ CancelInv /\ OtherInv
  /\ CountInv

\* All of it but the types and the counts.
ControlInv ==
  CommandInv /\ RoleInv /\ ConfigureInv /\ SendInv /\ UpdateInv /\ CancelInv /\ OtherInv

\* What a command moves tells the commands apart.
LEMMA FieldsDiffer ==
  /\ "ARB" \in {"ARB", "CONTROL"} /\ "CONTROL" \in {"ARB", "CONTROL"}
  /\ "TXRQST" \notin {"ARB", "CONTROL"} /\ "DATA" \notin {"ARB", "CONTROL"}
  /\ "DATA" \in {"DATA"} /\ "ARB" \notin {"DATA"} /\ "CONTROL" \notin {"DATA"}
  /\ "TXRQST" \notin {"DATA"}
  /\ "CONTROL" \in {"CONTROL", "TXRQST"} /\ "TXRQST" \in {"CONTROL", "TXRQST"}
  /\ "ARB" \notin {"CONTROL", "TXRQST"} /\ "DATA" \notin {"CONTROL", "TXRQST"}
  /\ \A f \in {{"DATA", "TXRQST"}, {"TXRQST"}} :
       "TXRQST" \in f /\ "ARB" \notin f /\ "CONTROL" \notin f
  OBVIOUS

\* A call ends without a lasting effect.
LEMMA ReturnsInv ==
  ASSUME MailboxInv, UNCHANGED <<ram, ifc, purpose, cancelled>>, fg' = IdleCall
  PROVE  ControlInv'
<1>1. fg'.pc = "idle" /\ fg'.op = "none" /\ fg'.found = {} /\ fg'.todo = {}
  BY DEF IdleCall
<1>2. CommandInv' /\ RoleInv'
  BY <1>1 DEF MailboxInv, CommandInv, RoleInv, Writing, Raising, Handled
<1>3. ConfigureInv' /\ SendInv' /\ UpdateInv' /\ OtherInv'
  BY <1>1 DEF ConfigureInv, SendInv, UpdateInv, OtherInv
<1>4. CancelInv'
  BY <1>1 DEF MailboxInv, CancelInv, Handled, Clean, Cancels
<1> QED BY <1>2, <1>3, <1>4 DEF ControlInv

\* A call on one object begins: its object is no longer one that a cancel dealt with.
LEMMA BeginInv ==
  ASSUME MailboxInv, NEW pc \in {"setup", "commit", "poll"}, NEW op \in Operation \ Cancels, NEW o \in Mailbox, NEW arg,
         Begin(Call(pc, op, o, arg), {o}),
         purpose' = purpose \/ purpose' = [purpose EXCEPT ![o] = "NONE"]
  PROVE  /\ CommandInv' /\ RoleInv' /\ CancelInv' /\ CountInv'
         /\ fg'.pc = pc /\ fg'.op = op /\ fg'.obj = o /\ fg'.arg = arg
         /\ cancelled' = cancelled \ {o} /\ UNCHANGED <<ram, ifc>>
<1>1. fg' = [IdleCall EXCEPT !.pc = pc, !.op = op, !.obj = o, !.arg = arg]
  BY DEF Begin, Call
<1>2. /\ fg'.pc = pc /\ fg'.op = op /\ fg'.obj = o /\ fg'.arg = arg
      /\ fg'.found = {} /\ fg'.todo = {}
  BY <1>1 DEF IdleCall
<1>3. fg.pc = "idle" /\ cancelled' = cancelled \ {o} /\ UNCHANGED <<ram, ifc>>
  BY DEF Begin, Idle
<1>4. Handled' \subseteq Handled
  BY <1>2, <1>3 DEF Handled
<1>5. \A m \in Mailbox : purpose'[m] = purpose[m] \/ purpose'[m] = "NONE"
  BY DEF MailboxInv, TypeOK
<1>6. CommandInv'
  <2>1. Writing => ifc[1].cmd.obj \in Mailbox
    BY DEF MailboxInv, TypeOK, Command
  <2> QED BY <2>1, <1>3, <1>4, <1>5 DEF MailboxInv, CommandInv, Writing, Raising
<1>7. RoleInv'
  BY <1>3, <1>5 DEF MailboxInv, RoleInv
<1>8. CancelInv'
  BY <1>2, <1>3, <1>4 DEF MailboxInv, CancelInv, Clean
<1>9. CountInv'
  <2>1. UNCHANGED <<canDiagnostics, submitted>> /\ ~At("submitted") /\ ~At("submitted")'
    BY <1>2, <1>3 DEF Begin, bus, At
  <2>2. Raising' = Raising
    BY <1>3 DEF Raising, Writing
  <2> QED BY <2>1, <2>2 DEF MailboxInv, CountInv
<1> QED BY <1>2, <1>3, <1>6, <1>7, <1>8, <1>9

LEMMA ConfigureCallInv ==
  ASSUME MailboxInv, NEW o \in Mailbox, NEW role, NEW ie, NEW dlc, NEW data,
         ConfigureCall(o, role, ie, dlc, data)
  PROVE  ControlInv' /\ CountInv'
<1> DEFINE arg == [Blank EXCEPT !.role = role, !.ie = ie, !.dlc = dlc, !.data = data]
<1>1. Begin(Call("setup", "configure", o, arg), {o})
  BY DEF ConfigureCall
<1>2. purpose' = [purpose EXCEPT ![o] = "NONE"]
  BY DEF ConfigureCall
<1>3. ~arg.txrqst
  BY DEF Blank
<1>4. purpose'[o] = "NONE"
  BY <1>2 DEF MailboxInv, TypeOK
<1> HIDE DEF arg
<1>5. "configure" \in Operation \ Cancels /\ "setup" \in {"setup", "commit", "poll"}
  BY DEF Operation, Cancels
<1>6. /\ CommandInv' /\ RoleInv' /\ CancelInv' /\ CountInv'
      /\ fg'.pc = "setup" /\ fg'.op = "configure" /\ fg'.obj = o /\ fg'.arg = arg
  <2>1. PICK x : x = arg
    OBVIOUS
  <2>2. Begin(Call("setup", "configure", o, x), {o})
    BY <1>1, <2>1
  <2>3. purpose' = purpose \/ purpose' = [purpose EXCEPT ![o] = "NONE"]
    BY <1>2
  <2> QED BY <1>5, <2>1, <2>2, <2>3, BeginInv
<1>7. ConfigureInv'
  BY <1>3, <1>4, <1>6 DEF ConfigureInv
<1>8. SendInv' /\ UpdateInv' /\ OtherInv'
  BY <1>6 DEF SendInv, UpdateInv, OtherInv
<1> QED BY <1>6, <1>7, <1>8 DEF ControlInv

LEMMA CallsInv ==
  ASSUME MailboxInv, NEW o \in Mailbox,
         \/ \E role \in Role, dlc \in Lengths, data \in Data :
              ConfigureCall(o, role, FALSE, dlc, data)
         \/ \E dlc \in SendLength, data \in CallerData : SendCall(o, dlc, data)
         \/ RequestCall(o)
         \/ \E data \in CallerData : UpdateCall(o, data)
         \/ ReceiveCall(o)
  PROVE  ControlInv' /\ CountInv'
<1>1. ASSUME NEW role \in Role, NEW dlc \in Lengths, NEW data \in Data,
             ConfigureCall(o, role, FALSE, dlc, data)
      PROVE  ControlInv' /\ CountInv'
  BY <1>1, ConfigureCallInv
<1>2. ASSUME NEW op \in {"send", "request"}, NEW arg, Begin(Call("commit", op, o, arg), {o}),
             purpose[o] \in Senders, UNCHANGED purpose
      PROVE  ControlInv' /\ CountInv'
  <2>1. /\ CommandInv' /\ RoleInv' /\ CancelInv' /\ CountInv'
        /\ fg'.pc = "commit" /\ fg'.op = op /\ fg'.obj = o /\ cancelled' = cancelled \ {o}
    BY <1>2, BeginInv DEF Cancels, Operation
  <2> QED BY <1>2, <2>1 DEF ControlInv, ConfigureInv, SendInv, UpdateInv, OtherInv
<1>3. ASSUME NEW arg, Begin(Call("commit", "update", o, arg), {o}),
             purpose[o] = "REMOTE_RESPONSE", UNCHANGED purpose
      PROVE  ControlInv' /\ CountInv'
  <2>1. /\ CommandInv' /\ RoleInv' /\ CancelInv' /\ CountInv'
        /\ fg'.pc = "commit" /\ fg'.op = "update" /\ fg'.obj = o
    BY <1>3, BeginInv DEF Cancels, Operation
  <2> QED BY <1>3, <2>1 DEF ControlInv, ConfigureInv, SendInv, UpdateInv, OtherInv
<1>4. CASE ReceiveCall(o)
  <2>1. Begin(Call("poll", "receive", o, Blank), {o}) /\ UNCHANGED purpose
    BY <1>4 DEF ReceiveCall
  <2>2. /\ CommandInv' /\ RoleInv' /\ CancelInv' /\ CountInv'
        /\ fg'.pc = "poll" /\ fg'.op = "receive"
    BY <2>1, BeginInv DEF Cancels, Operation
  <2> QED BY <2>2 DEF ControlInv, ConfigureInv, SendInv, UpdateInv, OtherInv
<1> QED
  BY <1>1, <1>2, <1>3, <1>4, Zenon DEF SendCall, RequestCall, UpdateCall, Senders

LEMMA CancelCallInv ==
  ASSUME MailboxInv, NEW op \in Cancels, NEW scope, CancelCall(op, scope)
  PROVE  ControlInv' /\ CountInv'
<1> DEFINE pending == TxRequests \intersect scope
<1>1. /\ fg.pc = "idle"
      /\ UNCHANGED <<ram, ifc, canDiagnostics, purpose, cancelled, submitted>>
  BY DEF CancelCall, Idle, bus
<1>2. CASE pending = {}
  <2>1. UNCHANGED fg
    BY <1>2 DEF CancelCall
  <2>2. CommandInv' /\ RoleInv'
    BY <1>1, <2>1 DEF MailboxInv, CommandInv, RoleInv, Writing, Raising, Handled
  <2>3. ConfigureInv' /\ SendInv' /\ UpdateInv' /\ OtherInv'
    BY <1>1, <2>1
       DEF MailboxInv, ConfigureInv, SendInv, UpdateInv, OtherInv, Writing, Raising
  <2>4. CancelInv' /\ CountInv'
    BY <1>1, <2>1 DEF MailboxInv, CancelInv, CountInv, Handled, Clean, Writing, Raising, At
  <2> QED BY <2>2, <2>3, <2>4 DEF ControlInv
<1>3. CASE pending # {}
  <2>1. /\ fg'.pc = "cancel" /\ fg'.op = op
        /\ fg'.found = pending /\ fg'.todo = pending
    BY <1>3 DEF CancelCall, IdleCall
  <2> HIDE DEF pending
  <2>2. Handled' \subseteq Handled
    BY <1>1, <2>1 DEF Handled
  <2>3. CommandInv' /\ RoleInv'
    BY <1>1, <2>2 DEF MailboxInv, CommandInv, RoleInv, Writing, Raising
  <2>4. ConfigureInv' /\ SendInv' /\ UpdateInv' /\ OtherInv'
    BY <2>1 DEF ConfigureInv, SendInv, UpdateInv, OtherInv, Cancels
  <2>5. CancelInv'
    BY <1>1, <2>1, <2>2 DEF MailboxInv, CancelInv, Clean
  <2>6. CountInv'
    BY <1>1, <2>1 DEF MailboxInv, CountInv, Writing, Raising, At
  <2> QED BY <2>3, <2>4, <2>5, <2>6 DEF ControlInv
<1> QED BY <1>2, <1>3

\* Steps of a call that move no command.
LEMMA NotBusyInv ==
  ASSUME MailboxInv, NotBusy
  PROVE  ControlInv' /\ CountInv'
<1>1. /\ fg.pc = "commit" /\ ~ifc[1].busy /\ ~ram[fg.obj].txrqst
      /\ UNCHANGED <<ram, ifc, purpose, cancelled, canDiagnostics, submitted>>
  BY DEF NotBusy, At, Committed, Ready, TxRequests, callerView, bus, MailboxInv, TypeOK
<1>2. /\ fg'.pc = "free" /\ fg'.op = fg.op /\ fg'.obj = fg.obj /\ fg'.arg = fg.arg
      /\ fg'.found = fg.found /\ fg'.todo = fg.todo
  BY DEF NotBusy, MailboxInv, TypeOK
<1>3. CommandInv' /\ RoleInv' /\ CountInv'
  BY <1>1, <1>2
     DEF MailboxInv, CommandInv, RoleInv, CountInv, Writing, Raising, Handled, At
<1>4. ConfigureInv' /\ SendInv' /\ UpdateInv' /\ OtherInv'
  BY <1>1, <1>2 DEF MailboxInv, ConfigureInv, SendInv, UpdateInv, OtherInv, Writing, Raising
<1>5. CancelInv'
  BY <1>1, <1>2 DEF MailboxInv, CancelInv, Handled, Clean
<1> QED BY <1>3, <1>4, <1>5 DEF ControlInv

LEMMA ConfigureReturnsInv ==
  ASSUME MailboxInv, ConfigureReturns
  PROVE  ControlInv' /\ CountInv'
<1>1. /\ fg.op = "configure" /\ fg.pc \in {"loaded", "stored"} /\ ~ifc[1].busy
      /\ purpose' = [purpose EXCEPT ![fg.obj] = fg.arg.role]
      /\ UNCHANGED <<ram, ifc, cancelled, canDiagnostics, submitted>>
  BY DEF ConfigureReturns, ObjectLoaded, At, Ready, bus
<1>2. fg'.pc = "idle" /\ fg'.op = "none" /\ fg'.found = {} /\ fg'.todo = {}
  BY DEF ConfigureReturns, IdleCall
<1>3. ram[fg.obj].role = fg.arg.role
  BY <1>1 DEF MailboxInv, ConfigureInv, Writing
<1>4. RoleInv'
  BY <1>1, <1>3 DEF MailboxInv, RoleInv, TypeOK
<1>5. CommandInv' /\ CountInv'
  BY <1>1, <1>2 DEF MailboxInv, CommandInv, CountInv, Writing, Raising, At
<1>6. ConfigureInv' /\ SendInv' /\ UpdateInv' /\ OtherInv'
  BY <1>2 DEF ConfigureInv, SendInv, UpdateInv, OtherInv
<1>7. CancelInv'
  BY <1>1, <1>2 DEF MailboxInv, CancelInv, Handled, Clean, Cancels
<1> QED BY <1>4, <1>5, <1>6, <1>7 DEF ControlInv

LEMMA CancelNextInv ==
  ASSUME MailboxInv, CancelNext
  PROVE  ControlInv' /\ CountInv'
<1>1. /\ fg.pc = "next" /\ ~ifc[1].busy
      /\ UNCHANGED <<ram, ifc, purpose, cancelled, canDiagnostics, submitted>>
  BY DEF CancelNext, At, Ready, callerView, bus
<1>2. fg.op \in Cancels
  BY <1>1 DEF MailboxInv, TypeOK, Operation, Cancels, ConfigureInv, SendInv, UpdateInv, OtherInv
<1>3. /\ fg'.pc = "cancel" /\ fg'.op = fg.op
      /\ fg'.found = fg.found /\ fg'.todo = fg.todo \ {fg.obj}
  BY DEF CancelNext, MailboxInv, TypeOK
<1>4. Clean(fg.obj) /\ \A o \in Handled' : o \in Handled \/ o = fg.obj
  BY <1>1, <1>2, <1>3 DEF MailboxInv, CancelInv, Handled
<1>5. CommandInv' /\ RoleInv' /\ CountInv'
  BY <1>1, <1>3 DEF MailboxInv, CommandInv, RoleInv, CountInv, Writing, Raising, At
<1>6. ConfigureInv' /\ SendInv' /\ UpdateInv' /\ OtherInv'
  BY <1>2, <1>3 DEF ConfigureInv, SendInv, UpdateInv, OtherInv, Cancels
<1>7. CancelInv'
  BY <1>1, <1>2, <1>3, <1>4 DEF MailboxInv, CancelInv, Clean
<1> QED BY <1>5, <1>6, <1>7 DEF ControlInv

LEMMA CancelReturnsInv ==
  ASSUME MailboxInv, CancelReturns
  PROVE  ControlInv' /\ CountInv'
<1>1. /\ fg.pc = "next" /\ ~ifc[1].busy /\ fg.todo = {fg.obj}
      /\ cancelled' = cancelled \union fg.found
      /\ UNCHANGED <<ram, ifc, purpose, canDiagnostics, submitted>>
  BY DEF CancelReturns, At, Ready, bus
<1>2. fg.op \in Cancels
  BY <1>1 DEF MailboxInv, TypeOK, Operation, Cancels, ConfigureInv, SendInv, UpdateInv, OtherInv
<1>3. fg'.pc = "idle" /\ fg'.op = "none" /\ fg'.found = {} /\ fg'.todo = {}
  BY DEF CancelReturns, IdleCall
<1>4. Clean(fg.obj) /\ \A o \in Handled' : o \in Handled \/ o = fg.obj
  BY <1>1, <1>2, <1>3 DEF MailboxInv, CancelInv, Handled
<1>5. CommandInv' /\ RoleInv' /\ CountInv'
  BY <1>1, <1>3 DEF MailboxInv, CommandInv, RoleInv, CountInv, Writing, Raising, At
<1>6. ConfigureInv' /\ SendInv' /\ UpdateInv' /\ OtherInv'
  BY <1>3 DEF ConfigureInv, SendInv, UpdateInv, OtherInv
<1>7. CancelInv'
  BY <1>1, <1>3, <1>4 DEF MailboxInv, CancelInv, Clean, Cancels
<1> QED BY <1>5, <1>6, <1>7 DEF ControlInv

LEMMA CountTypes ==
  ASSUME TypeOK
  PROVE  /\ canDiagnostics.txRequestCount \in Nat /\ submitted \in Nat
         /\ canDiagnostics.transactionTimeoutCount \in Nat
  BY DEF TypeOK, Counter

\* What a command changes.
LEMMA IssueFacts ==
  ASSUME TypeOK, NEW i \in 1..2, NEW o, NEW regs, NEW write, NEW fields,
         Issue(i, o, regs, write, fields)
  PROVE  /\ ifc'[i].busy /\ ifc'[i].regs = regs /\ ifc'[i].cmd.obj = o
         /\ ifc'[i].cmd.write = write /\ ifc'[i].cmd.fields = fields
         /\ \A j \in 1..2 : j # i => ifc'[j] = ifc[j]
<1>1. ifc' = [ifc EXCEPT ![i] = [busy |-> TRUE, regs |-> regs,
                                cmd |-> [obj |-> o, write |-> write, fields |-> fields]]]
  BY DEF Issue
<1>2. ifc'[i] = [busy |-> TRUE, regs |-> regs,
                 cmd |-> [obj |-> o, write |-> write, fields |-> fields]]
  BY <1>1 DEF TypeOK
<1> QED BY <1>1, <1>2 DEF TypeOK

\* A command that reads, on either interface, as the step of a call.
LEMMA ReadInv ==
  ASSUME MailboxInv, NEW i \in 1..2, NEW regs, NEW fields, Ready(i),
         Issue(i, fg.obj, regs, FALSE, fields),
         fg'.op = fg.op, fg'.obj = fg.obj, fg'.found = fg.found, fg'.todo = fg.todo,
         \/ fg.op = "send" /\ i = 1 /\ fg.pc = "free" /\ fg'.pc = "length"
         \/ fg.op \in Cancels /\ i = 1 /\ fg.pc = "cancel" /\ fg'.pc = "control"
         \/ fg.op = "receive" /\ i = 2 /\ fg'.pc \in {"fetched", "taken"},
         UNCHANGED <<callerView, ram, canDiagnostics, bus>>
  PROVE  ControlInv' /\ CountInv'
<1>1. /\ ifc'[i].busy /\ ~ifc'[i].cmd.write
      /\ \A j \in 1..2 : j # i => ifc'[j] = ifc[j]
  BY IssueFacts DEF MailboxInv
<1>2. UNCHANGED <<ram, purpose, cancelled, canDiagnostics, submitted>> /\ Handled' = Handled
  BY DEF callerView, bus, Handled
<1>3. /\ Writing' = (Writing /\ i = 2) /\ Raising' = (Raising /\ i = 2)
      /\ i = 2 => ifc'[1] = ifc[1] /\ ~ifc'[2].cmd.write
      /\ i = 1 => ifc'[2] = ifc[2] /\ ~Writing /\ ~Raising
  BY <1>1 DEF Writing, Raising, Ready
<1>4. CommandInv'
  BY <1>2, <1>3 DEF MailboxInv, CommandInv
<1>5. RoleInv'
  BY <1>2 DEF MailboxInv, RoleInv
<1>6. SendInv'
  BY <1>2, <1>3 DEF MailboxInv, SendInv, Cancels
<1>7. ConfigureInv' /\ UpdateInv' /\ OtherInv'
  BY DEF ConfigureInv, UpdateInv, OtherInv, Cancels
<1>8. CancelInv'
  BY <1>2 DEF MailboxInv, CancelInv, Clean, Cancels
<1>9. CountInv'
  <2>1. fg.pc # "submitted" /\ fg'.pc # "submitted"
    BY DEF MailboxInv, OtherInv
  <2> QED BY <2>1, <1>2, <1>3 DEF MailboxInv, CountInv, At
<1> QED BY <1>4, <1>5, <1>6, <1>7, <1>8, <1>9 DEF ControlInv

\* A command that writes: what it moves must fit the object and the call.
LEMMA WriteInv ==
  ASSUME MailboxInv, NEW regs, NEW fields, NEW step, Ready(1),
         Submit(1, regs, TRUE, fields, step),
         UNCHANGED <<callerView, ram, canDiagnostics, bus>>,
         \/ /\ fg.op = "configure" /\ step = "loaded" /\ fields = {"ARB", "CONTROL"}
            /\ ~regs.txrqst /\ regs.role = fg.arg.role
         \/ /\ fg.op = "configure" /\ fg.pc = "loaded" /\ step = "stored"
            /\ fields = {"DATA"} /\ fg.arg.role = "REMOTE_RESPONSE"
         \/ /\ fg.op = "update" /\ step = "stored" /\ fields = {"DATA"}
         \/ /\ fg.op \in {"send", "request"} /\ fg.pc \in {"free", "length"}
            /\ step = "submitted" /\ fields \in {{"DATA", "TXRQST"}, {"TXRQST"}}
         \/ /\ fg.op \in Cancels /\ fg.pc = "control" /\ step = "next"
            /\ fields = {"CONTROL", "TXRQST"} /\ ~regs.txrqst
  PROVE  ControlInv' /\ CountInv'
<1>1. /\ ifc'[1].busy /\ ifc'[1].regs = regs /\ ifc'[1].cmd.obj = fg.obj
      /\ ifc'[1].cmd.write /\ ifc'[1].cmd.fields = fields /\ ifc'[2] = ifc[2]
  <2>1. Issue(1, fg.obj, regs, TRUE, fields) /\ TypeOK
    BY Zenon DEF Submit, MailboxInv
  <2>2. 1 \in 1..2 /\ 2 \in 1..2 /\ 2 # 1
    OBVIOUS
  <2>3. /\ ifc'[1].busy /\ ifc'[1].regs = regs /\ ifc'[1].cmd.obj = fg.obj
        /\ ifc'[1].cmd.write = TRUE /\ ifc'[1].cmd.fields = fields
        /\ \A j \in 1..2 : j # 1 => ifc'[j] = ifc[j]
    BY <2>1, <2>2, IssueFacts, Zenon
  <2> QED BY <2>2, <2>3
<1>2. /\ fg'.pc = step /\ fg'.op = fg.op /\ fg'.obj = fg.obj /\ fg'.arg = fg.arg
      /\ fg'.found = fg.found /\ fg'.todo = fg.todo
  BY DEF Submit, MailboxInv, TypeOK
<1>3. UNCHANGED <<ram, purpose, cancelled, canDiagnostics, submitted>> /\ Handled' = Handled
  BY <1>2 DEF callerView, bus, Handled
<1>4. ~Writing /\ ~Raising /\ Writing' /\ fg.obj \in Mailbox
      /\ Raising' = (fields \in {{"DATA", "TXRQST"}, {"TXRQST"}})
  BY <1>1 DEF Writing, Raising, Ready, MailboxInv, TypeOK
<1>5. fg.op \in {"send", "request"} => fg.found = {}
  BY DEF MailboxInv, CancelInv, Cancels
<1>6. CommandInv'
  <2>1. ifc'[2].busy => ~ifc'[2].cmd.write
    BY <1>1 DEF MailboxInv, CommandInv
  <2> DEFINE object == ram[fg.obj]
  <2> SUFFICES \/ fields = {"ARB", "CONTROL"} /\ ~regs.txrqst /\ purpose[fg.obj] = "NONE"
               \/ fields = {"DATA"} /\ object.role = "REMOTE_RESPONSE"
               \/ /\ Raising' /\ object.role \in Senders /\ ~object.txrqst
                  /\ fg.obj \notin Handled
               \/ fields = {"CONTROL", "TXRQST"} /\ ~regs.txrqst
    BY <2>1, <1>1, <1>3, <1>4, Zenon DEF CommandInv
  <2>2. CASE fg.op = "configure"
    BY <2>2, <1>4 DEF MailboxInv, ConfigureInv, Cancels
  <2>3. CASE fg.op = "update"
    BY <2>3, <1>4 DEF MailboxInv, UpdateInv, RoleInv, Cancels
  <2>4. CASE fg.op \in {"send", "request"}
    BY <2>4, <1>4, <1>5 DEF MailboxInv, SendInv, RoleInv, Senders, Handled, Cancels
  <2> QED BY <2>2, <2>3, <2>4
<1>7. RoleInv'
  BY <1>3 DEF MailboxInv, RoleInv
<1>8. SendInv'
  BY <1>1, <1>2, <1>3, <1>4 DEF MailboxInv, SendInv, Cancels
<1>9. ConfigureInv'
  BY <1>1, <1>2, <1>3, <1>4, FieldsDiffer DEF MailboxInv, ConfigureInv, Cancels
<1>10. UpdateInv' /\ OtherInv'
  BY <1>2, <1>3 DEF MailboxInv, UpdateInv, OtherInv, Cancels
<1>11. CancelInv'
  BY <1>1, <1>2, <1>3, <1>4 DEF MailboxInv, CancelInv, Clean, Cancels
<1>12. CountInv'
  <2>1. fg.pc # "submitted"
    BY DEF MailboxInv, ConfigureInv, UpdateInv
  <2>2. Raising' => step = "submitted"
    BY <1>4, FieldsDiffer
  <2>3. At("submitted")' = (step = "submitted") /\ ~At("submitted")
    BY <2>1, <1>2 DEF At
  <2> QED BY <2>2, <2>3, <1>1, <1>3, <1>4, CountTypes DEF MailboxInv, CountInv
<1> QED BY <1>6, <1>7, <1>8, <1>9, <1>10, <1>11, <1>12 DEF ControlInv

LEMMA ConfiguringInv ==
  ASSUME MailboxInv, Configuring
  PROVE  ControlInv' /\ CountInv'
<1>1. ASSUME NEW o \in Mailbox, ConfigureRx(o, FALSE) \/ ConfigureSender(o, FALSE)
      PROVE  ControlInv' /\ CountInv'
  BY <1>1, ConfigureCallInv
     DEF ConfigureRx, ConfigureSender, ConfigureTx, ConfigureRemoteRequest,
         ConfigureRemoteResponse
<1>2. CASE SetupObject
  <2> DEFINE regs == [fg.arg EXCEPT !.data = ifc[1].regs.data]
  <2>1. fg.op = "configure"
    BY <1>2 DEF SetupObject, At, MailboxInv, TypeOK, Operation, SendInv, UpdateInv, CancelInv,
                OtherInv, Cancels
  <2>2. ~regs.txrqst /\ regs.role = fg.arg.role
    BY <2>1 DEF MailboxInv, ConfigureInv, TypeOK, Content
  <2> HIDE DEF regs
  <2>3. /\ Ready(1) /\ Submit(1, regs, TRUE, {"ARB", "CONTROL"}, "loaded")
        /\ UNCHANGED <<callerView, ram, canDiagnostics, bus>>
    BY <1>2, Zenon DEF SetupObject, regs
  <2> QED BY <2>1, <2>2, <2>3, WriteInv
<1>3. CASE PreloadObject
  <2> DEFINE regs == [ifc[1].regs EXCEPT !.data = fg.arg.data]
  <2>1. fg.op = "configure" /\ fg.pc = "loaded" /\ fg.arg.role = "REMOTE_RESPONSE"
    BY <1>3 DEF PreloadObject, At, MailboxInv, TypeOK, Operation, SendInv, UpdateInv, CancelInv,
                OtherInv, Cancels
  <2> HIDE DEF regs
  <2>2. /\ Ready(1) /\ Submit(1, regs, TRUE, {"DATA"}, "stored")
        /\ UNCHANGED <<callerView, ram, canDiagnostics, bus>>
    BY <1>3, Zenon DEF PreloadObject, WriteData, PreloadFields, regs
  <2> QED BY <2>1, <2>2, WriteInv
<1> QED BY <1>1, <1>2, <1>3, ConfigureReturnsInv DEF Configuring

LEMMA EndInv ==
  ASSUME MailboxInv, fg' = IdleCall, UNCHANGED <<ram, ifc, purpose, cancelled, submitted>>,
         canDiagnostics'.txRequestCount = canDiagnostics.txRequestCount,
         canDiagnostics'.transactionTimeoutCount = canDiagnostics.transactionTimeoutCount,
         fg.pc # "submitted"
  PROVE  ControlInv' /\ CountInv'
<1>1. CountInv'
  BY DEF MailboxInv, CountInv, IdleCall, At, Raising, Writing
<1> QED BY <1>1, ReturnsInv

LEMMA SenderStep ==
  ASSUME MailboxInv, At("length") \/ At("submitted")
  PROVE  fg.op \in {"send", "request"}
  BY DEF At, MailboxInv, TypeOK, Operation, ConfigureInv, UpdateInv, CancelInv, OtherInv, Cancels

LEMMA TransmittingInv ==
  ASSUME MailboxInv, Transmitting
  PROVE  ControlInv' /\ CountInv'
<1>1. CASE Busy \/ LengthMismatch \/ UpdateReturns
  <2>1. /\ fg' = IdleCall /\ UNCHANGED <<ram, ifc, purpose, cancelled, submitted>>
        /\ UNCHANGED canDiagnostics /\ fg.pc # "submitted"
    BY <1>1 DEF Busy, LengthMismatch, UpdateReturns, At, callerView, bus
  <2> QED BY <2>1, EndInv
<1>2. CASE RequestAccepted
  <2>1. /\ fg' = IdleCall /\ UNCHANGED <<ram, ifc, purpose, cancelled, submitted>>
        /\ canDiagnostics' = [canDiagnostics EXCEPT !.txRequestCount = @ + 1]
        /\ At("submitted") /\ ~ifc[1].busy
    BY <1>2 DEF RequestAccepted, Ready, callerView, bus
  <2>2. CountInv'
    <3>1. ~At("submitted")' /\ ~Raising /\ ~Raising' /\ UNCHANGED submitted
      BY <2>1 DEF At, IdleCall, Raising, Writing
    <3>2. /\ canDiagnostics'.txRequestCount = canDiagnostics.txRequestCount + 1
          /\ canDiagnostics'.transactionTimeoutCount = canDiagnostics.transactionTimeoutCount
      BY <2>1 DEF MailboxInv, TypeOK, Counter
    <3> QED BY <2>1, <3>1, <3>2, CountTypes DEF MailboxInv, CountInv
  <2> QED BY <2>1, <2>2, ReturnsInv
<1>3. CASE ReadLength
  <2>1. /\ Ready(1) /\ fg.op = "send" /\ fg.pc = "free"
        /\ Issue(1, fg.obj, ifc[1].regs, FALSE, {"CONTROL"})
        /\ UNCHANGED <<callerView, ram, canDiagnostics, bus>>
    BY <1>3, Zenon DEF ReadLength, Submit, At
  <2>2. /\ fg'.op = fg.op /\ fg'.obj = fg.obj /\ fg'.found = fg.found /\ fg'.todo = fg.todo
        /\ fg'.pc = "length"
    BY <1>3 DEF ReadLength, Submit, MailboxInv, TypeOK
  <2> QED BY <2>1, <2>2, ReadInv, FieldSets
<1>4. CASE SubmitData
  <2>1. PICK r : \/ Submit(1, r, TRUE, {"DATA", "TXRQST"}, "submitted")
                 \/ Submit(1, r, TRUE, {"TXRQST"}, "submitted")
    BY <1>4, Zenon DEF SubmitData
  <2>2. /\ Ready(1) /\ UNCHANGED <<callerView, ram, canDiagnostics, bus>>
        /\ fg.pc = "length" /\ fg.op \in {"send", "request"}
    BY <1>4, SenderStep DEF SubmitData, At
  <2> QED BY <2>1, <2>2, WriteInv
<1>5. CASE SubmitRemoteRequest
  <2>1. PICK r : Submit(1, r, TRUE, {"TXRQST"}, "submitted")
    BY <1>5, Zenon DEF SubmitRemoteRequest
  <2>2. /\ Ready(1) /\ UNCHANGED <<callerView, ram, canDiagnostics, bus>>
        /\ fg.pc = "free" /\ fg.op = "request"
    BY <1>5 DEF SubmitRemoteRequest, At
  <2> QED BY <2>1, <2>2, WriteInv
<1>6. CASE UpdateData
  <2>1. PICK r : Submit(1, r, TRUE, {"DATA"}, "stored")
    BY <1>6, Zenon DEF UpdateData, WriteData, PreloadFields
  <2>2. Ready(1) /\ UNCHANGED <<callerView, ram, canDiagnostics, bus>> /\ fg.op = "update"
    BY <1>6 DEF UpdateData
  <2> QED BY <2>1, <2>2, WriteInv
<1>7. ASSUME NEW o \in Mailbox,
             \/ \E dlc \in SendLength, data \in CallerData : SendCall(o, dlc, data)
             \/ RequestCall(o)
             \/ \E data \in CallerData : UpdateCall(o, data)
      PROVE  ControlInv' /\ CountInv'
  BY <1>7, CallsInv
<1> QED BY <1>1, <1>2, <1>3, <1>4, <1>5, <1>6, <1>7, NotBusyInv DEF Transmitting

LEMMA CancellingInv ==
  ASSUME MailboxInv, Cancelling
  PROVE  ControlInv' /\ CountInv'
<1>1. CASE CancelAll \/ \E o \in Mailbox : AbortTx(o)
  BY <1>1, CancelCallInv DEF CancelAll, AbortTx, Cancels
<1>2. ASSUME At("cancel") \/ At("control") PROVE fg.op \in Cancels
  BY <1>2 DEF At, MailboxInv, TypeOK, Operation, ConfigureInv, SendInv, UpdateInv, OtherInv, Cancels
<1>3. CASE ReadControl
  <2>1. /\ Ready(1) /\ fg.op \in Cancels /\ fg.pc = "cancel"
        /\ Issue(1, fg.obj, ifc[1].regs, FALSE, {"CONTROL", "TXRQST"})
        /\ UNCHANGED <<callerView, ram, canDiagnostics, bus>>
    BY <1>2, <1>3, Zenon DEF ReadControl, Submit, At
  <2>2. /\ fg'.op = fg.op /\ fg'.obj = fg.obj /\ fg'.found = fg.found /\ fg'.todo = fg.todo
        /\ fg'.pc = "control"
    BY <1>3 DEF ReadControl, Submit, MailboxInv, TypeOK
  <2> QED BY <2>1, <2>2, ReadInv, FieldSets
<1>4. CASE WriteControl
  <2>1. PICK r : r = Cleared(ifc[1].regs)
    OBVIOUS
  <2>2. ~r.txrqst
    BY <2>1 DEF Cleared, MailboxInv, TypeOK, Content
  <2>3. /\ Submit(1, r, TRUE, {"CONTROL", "TXRQST"}, "next")
        /\ Ready(1) /\ UNCHANGED <<callerView, ram, canDiagnostics, bus>>
        /\ fg.pc = "control" /\ fg.op \in Cancels
    BY <1>2, <1>4, <2>1 DEF WriteControl, At
  <2> QED BY <2>2, <2>3, WriteInv
<1> QED BY <1>1, <1>3, <1>4, CancelNextInv, CancelReturnsInv DEF Cancelling

LEMMA ReceivingInv ==
  ASSUME MailboxInv, Receiving
  PROVE  ControlInv' /\ CountInv'
<1>1. ASSUME NEW o \in Mailbox, ReceiveCall(o) PROVE ControlInv' /\ CountInv'
  BY <1>1, CallsInv
<1>2. ASSUME At("poll") \/ At("fetched") \/ At("taken") PROVE fg.op = "receive"
  BY <1>2 DEF At, MailboxInv, TypeOK, Operation, ConfigureInv, SendInv, UpdateInv, CancelInv,
              OtherInv, Cancels
<1>3. CASE ReadObject
  <2>1. /\ Ready(2) /\ fg.op = "receive" /\ Issue(2, fg.obj, ifc[2].regs, FALSE, SnapshotFields)
        /\ UNCHANGED <<callerView, ram, canDiagnostics, bus>>
    BY <1>2, <1>3, Zenon DEF ReadObject, Submit
  <2>2. /\ fg'.op = fg.op /\ fg'.obj = fg.obj /\ fg'.found = fg.found /\ fg'.todo = fg.todo
        /\ fg'.pc = "fetched"
    BY <1>3 DEF ReadObject, Submit, MailboxInv, TypeOK
  <2> QED BY <2>1, <2>2, ReadInv, FieldSets
<1>4. CASE TakeObject
  <2>1. /\ Ready(2) /\ fg.op = "receive"
        /\ Issue(2, fg.obj, ifc[2].regs, FALSE, AcknowledgeFields)
        /\ UNCHANGED <<callerView, ram, canDiagnostics, bus>>
    BY <1>2, <1>4, Zenon DEF TakeObject
  <2>2. /\ fg'.op = fg.op /\ fg'.obj = fg.obj /\ fg'.found = fg.found /\ fg'.todo = fg.todo
        /\ fg'.pc = "taken"
    BY <1>4 DEF TakeObject, MailboxInv, TypeOK
  <2> QED BY <2>1, <2>2, ReadInv, FieldSets
<1>5. CASE NothingNew \/ LengthRefused
  <2>1. /\ fg' = IdleCall /\ UNCHANGED <<ram, ifc, purpose, cancelled, submitted>>
        /\ UNCHANGED canDiagnostics /\ fg.pc # "submitted"
    BY <1>5 DEF NothingNew, LengthRefused, At, callerView, bus
  <2> QED BY <2>1, EndInv
<1>6. CASE Deliver
  <2>1. /\ fg' = IdleCall /\ UNCHANGED <<ram, ifc, purpose, cancelled, submitted>>
        /\ fg.pc # "submitted" /\ canDiagnostics' = Counted(canDiagnostics, fg.arg)
    BY <1>6, Zenon DEF Deliver, At, callerView, bus
  <2>2. /\ canDiagnostics'.txRequestCount = canDiagnostics.txRequestCount
        /\ canDiagnostics'.transactionTimeoutCount = canDiagnostics.transactionTimeoutCount
    BY <2>1 DEF Counted, MailboxInv, TypeOK, Counter
  <2> QED BY <2>1, <2>2, EndInv
<1> QED BY <1>1, <1>3, <1>4, <1>5, <1>6 DEF Receiving

\* What the peripheral does to an object: its role changes when it is set up, its request
\* rises when a raising command ends or a remote frame asks.
LEMMA TransferFacts ==
  ASSUME MailboxInv, NEW i \in 1..2, Transfer(i)
  PROVE  LET c == ifc[i].cmd
             new == ram'[c.obj]
             old == ram[c.obj]
             write == i = 1 /\ Writing
         IN /\ ~ifc'[i].busy /\ \A j \in 1..2 : j # i => ifc'[j] = ifc[j]
            /\ c.obj \in Mailbox /\ \A o \in Mailbox : o # c.obj => ram'[o] = ram[o]
            /\ new.role = IF write /\ c.fields = {"ARB", "CONTROL"} THEN ifc[1].regs.role ELSE old.role
            /\ IF i = 1 /\ Raising
               THEN new.txrqst /\ ~old.txrqst /\ submitted' = submitted + 1
               ELSE /\ submitted' = submitted
                    /\ IF write /\ c.fields # {"DATA"} THEN ~new.txrqst ELSE new.txrqst = old.txrqst
<1> DEFINE c == ifc[i].cmd
           regs == ifc[i].regs
           old == ram[c.obj]
           new == IF c.write THEN Written(old, regs, c.fields) ELSE Released(old, c.fields)
           filled == IF c.write THEN regs ELSE Fetched(regs, old, c.fields)
<1>1. /\ ifc[i].busy /\ ram' = [ram EXCEPT ![c.obj] = new]
      /\ ifc' = [ifc EXCEPT ![i] = [busy |-> FALSE, cmd |-> NoCommand, regs |-> filled]]
      /\ submitted' = IF new.txrqst /\ ~old.txrqst THEN submitted + 1 ELSE submitted
  BY Zenon DEF Transfer
<1>2. c.obj \in Mailbox /\ old \in Content /\ regs \in Content
  BY DEF MailboxInv, TypeOK, Command
<1>3. i = 2 => ~c.write
  BY <1>1 DEF MailboxInv, CommandInv
<1>4. c.write => i = 1 /\ Writing
  BY <1>1, <1>3 DEF Writing
<1>5. Released(old, c.fields).role = old.role /\ Released(old, c.fields).txrqst = old.txrqst
  BY <1>2 DEF Released, Content
<1>6. CASE ~c.write
  BY <1>1, <1>2, <1>5, <1>6 DEF MailboxInv, TypeOK, Writing, Raising
<1>7. CASE c.write
  BY <1>1, <1>2, <1>4, <1>7, FieldsDiffer DEF MailboxInv, CommandInv, TypeOK, Raising, Written, Content
<1> QED BY <1>6, <1>7

LEMMA TransferInv ==
  ASSUME MailboxInv, NEW i \in 1..2, Transfer(i)
  PROVE  ControlInv' /\ CountInv'
<1> DEFINE c == ifc[i].cmd
           write == i = 1 /\ Writing
<1>1. UNCHANGED <<fg, purpose, cancelled, canDiagnostics>> /\ Handled' = Handled
  BY DEF Transfer, callerView, Handled
<1>2. /\ ~ifc'[i].busy /\ \A j \in 1..2 : j # i => ifc'[j] = ifc[j]
      /\ c.obj \in Mailbox /\ \A o \in Mailbox : o # c.obj => ram'[o] = ram[o]
      /\ ram'[c.obj].role =
           IF write /\ c.fields = {"ARB", "CONTROL"} THEN ifc[1].regs.role ELSE ram[c.obj].role
      /\ IF i = 1 /\ Raising
         THEN ram'[c.obj].txrqst /\ ~ram[c.obj].txrqst /\ submitted' = submitted + 1
         ELSE /\ submitted' = submitted
              /\ IF write /\ c.fields # {"DATA"} THEN ~ram'[c.obj].txrqst
                 ELSE ram'[c.obj].txrqst = ram[c.obj].txrqst
  BY TransferFacts
<1>3. ifc[i].busy
  BY DEF Transfer
<1>4. fg.obj \in Mailbox /\ Handled \subseteq Mailbox
  BY DEF MailboxInv, TypeOK, Handled
<1>5. CASE i = 1
  <2>1. ~ifc'[1].busy /\ ifc'[2] = ifc[2] /\ ~Writing' /\ ~Raising'
    BY <1>2, <1>5 DEF Writing, Raising
  <2>2. CommandInv'
    BY <2>1 DEF MailboxInv, CommandInv
  <2>3. RoleInv'
    BY <1>1, <1>2, <1>5, FieldsDiffer DEF MailboxInv, CommandInv, RoleInv, Raising
  <2>4. ConfigureInv'
    BY <1>1, <1>2, <1>4, <1>5, <2>1 DEF MailboxInv, ConfigureInv
  <2>5. SendInv'
    BY <1>1, <1>2, <1>4, <1>5, <2>1 DEF MailboxInv, SendInv, Raising
  <2>6. UpdateInv' /\ OtherInv'
    BY <1>1 DEF MailboxInv, UpdateInv, OtherInv
  <2>7. \A o \in Handled : Clean(o)'
    BY <1>1, <1>2, <1>4, <1>5, FieldsDiffer
       DEF MailboxInv, CommandInv, CancelInv, Clean, Raising, Senders
  <2>8. CancelInv'
    <3>1. ASSUME fg.op \in Cancels, fg.pc = "next" PROVE Clean(fg.obj)'
      <4>1. Writing /\ c.obj = fg.obj /\ c.fields = {"CONTROL", "TXRQST"}
        BY <3>1, <1>5, <1>3 DEF MailboxInv, CancelInv
      <4>2. ~Raising /\ c.fields # {"DATA"}
        BY <4>1, <1>5, FieldsDiffer DEF Raising
      <4> QED BY <4>1, <4>2, <1>1, <1>2, <1>5 DEF Clean
    <3> QED BY <1>1, <2>1, <2>7, <3>1 DEF MailboxInv, CancelInv
  <2>9. CountInv'
    <3>1. At("submitted") => Raising
      BY <1>5, <1>3, SenderStep DEF MailboxInv, SendInv, At
    <3>2. At("submitted")' = At("submitted") /\ UNCHANGED canDiagnostics
      BY <1>1 DEF At
    <3>3. submitted' = IF Raising THEN submitted + 1 ELSE submitted
      BY <1>2, <1>5
    <3> QED BY <1>5, <1>3, <2>1, <3>1, <3>2, <3>3, CountTypes DEF MailboxInv, CountInv
  <2> QED BY <2>2, <2>3, <2>4, <2>5, <2>6, <2>8, <2>9 DEF ControlInv
<1>6. CASE i = 2
  <2>1. ifc'[1] = ifc[1] /\ ~ifc'[2].busy /\ Writing' = Writing /\ Raising' = Raising
    BY <1>2, <1>6 DEF Writing, Raising
  <2>2. UNCHANGED submitted /\ \A o \in Mailbox : ram'[o].role = ram[o].role /\ ram'[o].txrqst = ram[o].txrqst
    BY <1>2, <1>6
  <2>3. CommandInv'
    <3>1. Writing => ifc[1].cmd.obj \in Mailbox
      BY DEF MailboxInv, TypeOK, Command
    <3> QED BY <1>1, <2>1, <2>2, <3>1 DEF MailboxInv, CommandInv
  <2>4. RoleInv' /\ ConfigureInv' /\ SendInv' /\ UpdateInv' /\ OtherInv'
    BY <1>1, <1>4, <2>1, <2>2
       DEF MailboxInv, RoleInv, ConfigureInv, SendInv, UpdateInv, OtherInv
  <2>5. CancelInv' /\ CountInv'
    BY <1>1, <1>4, <2>1, <2>2 DEF MailboxInv, CancelInv, CountInv, Clean, At
  <2> QED BY <2>3, <2>4, <2>5 DEF ControlInv
<1> QED BY <1>5, <1>6

\* A frame on the bus: only a responder's request can rise.
LEMMA BusFacts ==
  ASSUME MailboxInv, NEW o \in Mailbox, (\E dlc \in Lengths : Arrive(o, dlc)) \/ FrameOut(o)
  PROVE  /\ UNCHANGED <<ifc, fg, purpose, cancelled, canDiagnostics, submitted>>
         /\ \A m \in Mailbox :
              /\ ram'[m].role = ram[m].role
              /\ \/ ram'[m].txrqst = ram[m].txrqst \/ ~ram'[m].txrqst
                 \/ ram[m].role = "REMOTE_RESPONSE" /\ ram'[m] = [ram[m] EXCEPT !.txrqst = TRUE]
              /\ ram[m].role = "TX_DATA" => ram'[m].dlc = ram[m].dlc /\ ram'[m].data = ram[m].data
<1>1. ram \in [Mailbox -> Content] /\ ram[o] \in Content
  BY DEF MailboxInv, TypeOK
<1>2. ASSUME NEW dlc \in Lengths, Arrive(o, dlc)
      PROVE  /\ UNCHANGED <<ifc, fg, purpose, cancelled, canDiagnostics, submitted>>
             /\ ram[o].role = "RX_DATA" /\ \E new \in Content :
                  /\ ram' = [ram EXCEPT ![o] = new]
                  /\ new.role = ram[o].role /\ new.txrqst = ram[o].txrqst
  <2> DEFINE new == [ram[o] EXCEPT !.data = arrivals + 1, !.dlc = dlc, !.newdat = TRUE,
                                   !.msglst = @ \/ ram[o].newdat,
                                   !.intpnd = @ \/ ram[o].ie]
  <2>1. /\ ram' = [ram EXCEPT ![o] = new] /\ ram[o].role = "RX_DATA" /\ arrivals < MaxArrivals
        /\ UNCHANGED <<callerView, ifc, fg, canDiagnostics, submitted>>
    BY <1>2, Zenon DEF Arrive
  <2>2. arrivals + 1 \in Data
    BY <2>1, MailboxAssumption DEF Data, MailboxInv, TypeOK
  <2>3. new \in Content /\ new.role = ram[o].role /\ new.txrqst = ram[o].txrqst
    BY <1>1, <2>2 DEF Content
  <2> HIDE DEF new
  <2> QED BY <2>1, <2>3 DEF callerView
<1>3. CASE Transmit(o)
  <2> DEFINE new == [ram[o] EXCEPT !.txrqst = FALSE, !.intpnd = @ \/ ram[o].ie]
  <2>1. /\ ram' = [ram EXCEPT ![o] = new]
        /\ UNCHANGED <<callerView, ifc, fg, canDiagnostics, bus>>
    BY <1>3, Zenon DEF Transmit
  <2>2. /\ new.role = ram[o].role /\ ~new.txrqst /\ new.dlc = ram[o].dlc
        /\ new.data = ram[o].data
    BY <1>1 DEF Content
  <2> HIDE DEF new
  <2> QED BY <1>1, <2>1, <2>2 DEF callerView, bus
<1>4. CASE RemoteFrame(o)
  <2>1. /\ ram' = [ram EXCEPT ![o].txrqst = TRUE] /\ ram[o].role = "REMOTE_RESPONSE"
        /\ UNCHANGED <<callerView, ifc, fg, canDiagnostics, bus>>
    BY <1>4, Zenon DEF RemoteFrame
  <2>2. ram'[o] = [ram[o] EXCEPT !.txrqst = TRUE] /\ ram'[o].role = ram[o].role
    BY <1>1, <2>1 DEF Content
  <2> QED BY <1>1, <2>1, <2>2 DEF callerView, bus
<1>5. ASSUME NEW dlc \in Lengths, Arrive(o, dlc)
      PROVE  \A m \in Mailbox :
               /\ ram'[m].role = ram[m].role /\ ram'[m].txrqst = ram[m].txrqst
               /\ ram[m].role = "TX_DATA" => ram'[m] = ram[m]
  BY <1>1, <1>2, <1>5
<1> QED BY <1>2, <1>3, <1>4, <1>5, Zenon DEF FrameOut

LEMMA BusInv ==
  ASSUME MailboxInv, NEW o \in Mailbox, (\E dlc \in Lengths : Arrive(o, dlc)) \/ FrameOut(o)
  PROVE  ControlInv' /\ CountInv'
<1>1. UNCHANGED <<ifc, fg, purpose, cancelled, canDiagnostics, submitted>> /\ Handled' = Handled
  BY BusFacts DEF Handled
<1>2. \A m \in Mailbox :
        /\ ram'[m].role = ram[m].role
        /\ ram[m].role # "REMOTE_RESPONSE" => (ram'[m].txrqst = ram[m].txrqst \/ ~ram'[m].txrqst)
  BY BusFacts
<1>3. fg.obj \in Mailbox /\ Handled \subseteq Mailbox /\ (Writing => ifc[1].cmd.obj \in Mailbox)
  BY DEF MailboxInv, TypeOK, Handled, Command
<1>4. Writing' = Writing /\ Raising' = Raising
  BY <1>1 DEF Writing, Raising
<1>5. CommandInv' /\ RoleInv'
  BY <1>1, <1>2, <1>3, <1>4 DEF MailboxInv, CommandInv, RoleInv, Senders
<1>6. ConfigureInv' /\ UpdateInv' /\ OtherInv'
  BY <1>1, <1>2, <1>3, <1>4 DEF MailboxInv, ConfigureInv, UpdateInv, OtherInv
<1>7. SendInv'
  BY <1>1, <1>2, <1>3, <1>4 DEF MailboxInv, SendInv, RoleInv, Senders
<1>8. CancelInv' /\ CountInv'
  BY <1>1, <1>2, <1>3, <1>4 DEF MailboxInv, CancelInv, CountInv, Clean, At
<1> QED BY <1>5, <1>6, <1>7, <1>8 DEF ControlInv

LEMMA MailboxInvStep ==
  ASSUME MailboxInv, [Next]_vars
  PROVE  MailboxInv'
<1>1. TypeOK'
  BY StepKeeps DEF Kept, MailboxInv
<1>2. CASE StartStop
  <2>1. UNCHANGED <<ram, ifc, fg, purpose, cancelled, canDiagnostics, submitted>>
    BY <1>2 DEF StartStop, bus
  <2>2. Writing' = Writing /\ Raising' = Raising /\ Handled' = Handled
    BY <2>1 DEF Writing, Raising, Handled
  <2> QED
    BY <1>1, <2>1, <2>2
       DEF MailboxInv, CommandInv, RoleInv, ConfigureInv, SendInv, UpdateInv, CancelInv,
           OtherInv, CountInv, Clean, At
<1>3. CASE WaitExpires
  <2>1. /\ fg' = IdleCall /\ UNCHANGED <<ram, ifc, purpose, cancelled, submitted>>
        /\ canDiagnostics' = TimedOut(canDiagnostics)
    BY <1>3 DEF WaitExpires, callerView, bus
  <2>2. CountInv'
    <3>1. /\ canDiagnostics'.txRequestCount = canDiagnostics.txRequestCount
          /\ canDiagnostics'.transactionTimeoutCount = canDiagnostics.transactionTimeoutCount + 1
      BY <2>1 DEF TimedOut, MailboxInv, TypeOK, Counter
    <3>2. ~At("submitted")' /\ Raising' = Raising /\ UNCHANGED <<ifc, submitted>>
      BY <2>1 DEF At, IdleCall, Raising, Writing
    <3> QED BY <3>1, <3>2, CountTypes DEF MailboxInv, CountInv
  <2>3. ControlInv'
    BY <2>1, ReturnsInv
  <2> QED BY <1>1, <2>2, <2>3 DEF MailboxInv, ControlInv
<1>4. CASE Configuring \/ Transmitting \/ Cancelling \/ Receiving
  BY <1>1, <1>4, ConfiguringInv, TransmittingInv, CancellingInv, ReceivingInv DEF MailboxInv, ControlInv
<1>5. CASE Peripheral
  BY <1>1, <1>5, TransferInv, BusInv DEF MailboxInv, ControlInv, Peripheral
<1>6. CASE UNCHANGED vars
  <2>1. UNCHANGED <<ram, ifc, fg, purpose, cancelled, canDiagnostics, submitted>>
    BY <1>6 DEF vars
  <2>2. Writing' = Writing /\ Raising' = Raising /\ Handled' = Handled
    BY <2>1 DEF Writing, Raising, Handled
  <2> QED
    BY <1>1, <2>1, <2>2
       DEF MailboxInv, CommandInv, RoleInv, ConfigureInv, SendInv, UpdateInv, CancelInv,
           OtherInv, CountInv, Clean, At
<1> QED BY <1>2, <1>3, <1>4, <1>5, <1>6 DEF Next

LEMMA InitInv == Init => MailboxInv
<1> SUFFICES ASSUME Init PROVE MailboxInv
  OBVIOUS
<1>1. TypeOK
  BY InitTyped
<1>2. ~ifc[1].busy /\ ~ifc[2].busy /\ fg = IdleCall /\ cancelled = {}
      /\ \A o \in Mailbox : purpose[o] = "NONE"
  BY DEF Init
<1>3. fg.pc = "idle" /\ fg.op = "none" /\ fg.found = {} /\ fg.todo = {}
  BY <1>2 DEF IdleCall
<1>4. CountInv
  BY <1>2, <1>3 DEF Init, CountInv, Raising, Writing, At, Counter
<1>5. CommandInv /\ RoleInv /\ CancelInv
  BY <1>2, <1>3 DEF CommandInv, RoleInv, CancelInv, Writing, Handled, Cancels
<1> QED
  BY <1>1, <1>3, <1>4, <1>5 DEF MailboxInv, ConfigureInv, SendInv, UpdateInv, OtherInv

\* Only the peripheral changes message objects.
LEMMA RamChanges ==
  ASSUME [Next]_vars
  PROVE  \/ UNCHANGED ram
         \/ \E i \in 1..2 : Transfer(i)
         \/ \E o \in Mailbox : (\E dlc \in Lengths : Arrive(o, dlc)) \/ FrameOut(o)
<1>1. CASE StartStop \/ WaitExpires \/ UNCHANGED vars
  BY <1>1 DEF StartStop, WaitExpires, vars
<1>2. CASE Configuring
  BY <1>2, Zenon DEF Configuring, ConfigureRx, ConfigureSender, ConfigureTx, ConfigureRemoteRequest,
       ConfigureRemoteResponse, ConfigureCall, Begin, SetupObject, PreloadObject, ConfigureReturns
<1>3. CASE Transmitting
  BY <1>3, Zenon DEF Transmitting, SendCall, RequestCall, UpdateCall, Begin, Busy, NotBusy, ReadLength,
       LengthMismatch, SubmitData, SubmitRemoteRequest, RequestAccepted, UpdateData, UpdateReturns
<1>4. CASE Cancelling
  BY <1>4, Zenon DEF Cancelling, AbortTx, CancelAll, CancelCall, ReadControl, WriteControl, CancelNext,
       CancelReturns
<1>5. CASE Receiving
  BY <1>5, Zenon DEF Receiving, ReceiveCall, Begin, ReadObject, NothingNew, TakeObject, LengthRefused,
       Deliver
<1> QED BY <1>1, <1>2, <1>3, <1>4, <1>5 DEF Next, Peripheral

\* The invariant behind the theorems below: what may be under way while a call waits.
THEOREM MailboxCorrect == Spec => []MailboxInv
<1>1. MailboxInv /\ [Next]_vars => MailboxInv'
  BY MailboxInvStep
<1> QED BY <1>1, InitInv, PTL DEF Spec

\* RequestsAccounted: every counted request reached the message RAM, and one that did
\* without being counted was or will be reported as a timeout.
THEOREM RequestsAreAccounted == Spec => []RequestsAccounted
<1>1. MailboxInv => RequestsAccounted
  BY CountTypes DEF MailboxInv, CountInv, RequestsAccounted
<1> QED BY <1>1, MailboxCorrect, PTL

\* FoundRequestIsGone: what a cancel removed stays removed.
THEOREM CancelledStaysGone == Spec => []FoundRequestIsGone
<1>1. MailboxInv => FoundRequestIsGone
  BY DEF MailboxInv, CancelInv, Handled, Clean, FoundRequestIsGone
<1> QED BY <1>1, MailboxCorrect, PTL

\* PendingFrameStable: nothing exchanges the frame of a sender that waits for the bus,
\* not even a command that a timed-out call left behind.
THEOREM PendingFramesStable == Spec => PendingFrameStable
<1> DEFINE Stable ==
      \A o \in Mailbox :
        /\ ram[o].role = "TX_DATA" /\ ram[o].txrqst /\ ram'[o].txrqst
        => ram'[o].dlc = ram[o].dlc /\ ram'[o].data = ram[o].data
<1>1. MailboxInv /\ [Next]_vars => Stable
  <2> SUFFICES ASSUME MailboxInv, [Next]_vars, NEW o \in Mailbox, ram[o].role = "TX_DATA",
                      ram[o].txrqst, ram'[o].txrqst
               PROVE  ram'[o].dlc = ram[o].dlc /\ ram'[o].data = ram[o].data
    OBVIOUS
  <2>1. ASSUME NEW i \in 1..2, Transfer(i)
        PROVE  ram'[o].dlc = ram[o].dlc /\ ram'[o].data = ram[o].data
    <3>1. CASE ifc[i].cmd.write /\ ifc[i].cmd.obj = o
      <4>1. i = 1 /\ Writing
        BY <2>1, <3>1 DEF Transfer, MailboxInv, CommandInv, Writing
      <4>2. /\ IF Raising THEN ~ram[o].txrqst
               ELSE ifc[1].cmd.fields # {"DATA"} => ~ram'[o].txrqst
        BY <2>1, <3>1, <4>1, TransferFacts
      <4>3. FALSE
        BY <3>1, <4>1, <4>2, FieldsDiffer DEF MailboxInv, CommandInv
      <4> QED BY <4>3
    <3>2. CASE ~ifc[i].cmd.write
      <4>1. ram' = [ram EXCEPT ![ifc[i].cmd.obj] = Released(ram[ifc[i].cmd.obj], ifc[i].cmd.fields)]
        BY <2>1, <3>2 DEF Transfer
      <4>2. \A content \in Content : \A fields :
              LET r == Released(content, fields)
              IN r.dlc = content.dlc /\ r.data = content.data
        BY DEF Released, Content
      <4> QED BY <4>1, <4>2 DEF MailboxInv, TypeOK
    <3>3. CASE ifc[i].cmd.obj # o
      BY <2>1, <3>3, TransferFacts
    <3> QED BY <3>1, <3>2, <3>3
  <2>2. CASE UNCHANGED ram
    BY <2>2
  <2> QED BY <2>1, <2>2, BusFacts, RamChanges
<1> QED BY <1>1, MailboxCorrect, PTL DEF Spec, PendingFrameStable

\* NothingUnsolicited: only a remote frame makes a responder answer.
THEOREM ResponsesSolicited == Spec => NothingUnsolicited
<1> DEFINE Solicited ==
      \A o \in Mailbox :
        ~Asked(ram[o]) /\ Asked(ram'[o]) =>
          UNCHANGED ifc /\ ram'[o] = [ram[o] EXCEPT !.txrqst = TRUE]
<1>1. MailboxInv /\ [Next]_vars => Solicited
  <2> SUFFICES ASSUME MailboxInv, [Next]_vars, NEW o \in Mailbox,
                      ~Asked(ram[o]), Asked(ram'[o])
               PROVE  UNCHANGED ifc /\ ram'[o] = [ram[o] EXCEPT !.txrqst = TRUE]
    OBVIOUS
  <2>1. ASSUME NEW i \in 1..2, Transfer(i) PROVE FALSE
    BY <2>1, TransferFacts, FieldsDiffer
       DEF MailboxInv, CommandInv, Writing, Raising, Asked, Senders
  <2>2. ~UNCHANGED ram
    OBVIOUS
  <2> QED BY <2>1, <2>2, BusFacts, RamChanges DEF Asked
<1> QED BY <1>1, MailboxCorrect, PTL DEF Spec, NothingUnsolicited

-----------------------------------------------------------------------------
(* Reception *)

\* The command under way sets an object up.
Setting == Writing /\ ifc[1].cmd.fields = {"ARB", "CONTROL"}

\* What this content offers the caller is later than what the caller has.
Fresh(o, content) == content.newdat => frame[o] < content.data /\ content.data <= arrivals

FreshInv ==
  \A o \in Mailbox :
    /\ frame[o] <= arrivals
    /\ purpose[o] = "RX_DATA" => ~ram[o].txrqst /\ Fresh(o, ram[o])

\* A setup offers nothing; until it returns only the peripheral adds a frame.
SetupInv ==
  /\ Setting => ~ifc[1].regs.newdat
  /\ fg.op = "configure" =>
       /\ ~fg.arg.newdat
       /\ fg.pc # "setup" /\ Writing => ifc[1].cmd.fields \in {{"ARB", "CONTROL"}, {"DATA"}}
       /\ fg.pc # "setup" /\ fg.arg.role = "RX_DATA" /\ ~Setting =>
            ~ram[fg.obj].txrqst /\ Fresh(fg.obj, ram[fg.obj])

\* A cancel, which writes NEWDAT back as it read it, spares the receive objects.
RxCancelInv ==
  /\ Writing /\ ifc[1].cmd.fields = {"CONTROL", "TXRQST"} => purpose[ifc[1].cmd.obj] # "RX_DATA"
  /\ fg.op \in Cancels => \A o \in fg.todo : purpose[o] # "RX_DATA"

\* A frame copied out is later than the caller's and, once it is acknowledged,
\* earlier than any the object offers.
ReceiveInv ==
  fg.op = "receive" =>
    /\ purpose[fg.obj] = "RX_DATA"
    /\ fg.pc = "fetched" =>
         IF ifc[2].busy
         THEN ifc[2].cmd = [obj |-> fg.obj, write |-> FALSE, fields |-> SnapshotFields]
         ELSE Fresh(fg.obj, ifc[2].regs)
    /\ fg.pc = "taken" =>
         /\ frame[fg.obj] < fg.arg.data /\ fg.arg.data <= arrivals
         /\ IF ifc[2].busy
            THEN ifc[2].cmd = [obj |-> fg.obj, write |-> FALSE, fields |-> AcknowledgeFields]
            ELSE ram[fg.obj].newdat => fg.arg.data < ram[fg.obj].data

DeliveryInv == FreshInv /\ SetupInv /\ RxCancelInv /\ ReceiveInv

LEMMA NumberTypes ==
  ASSUME TypeOK
  PROVE  /\ arrivals \in Nat /\ fg.arg.data \in Nat /\ fg.obj \in Mailbox
         /\ \A o \in Mailbox : frame[o] \in Nat /\ ram[o].data \in Nat
         /\ \A i \in 1..2 : ifc[i].regs.data \in Nat /\ ifc[i].cmd.obj \in Mailbox
<1>1. Data \subseteq Nat
  BY MailboxAssumption DEF Data
<1> QED BY <1>1 DEF TypeOK, Content, Command

\* A step of a call that neither configures, cancels nor receives, or the end of any.
LEMMA PassiveDelivery ==
  ASSUME DeliveryInv, UNCHANGED <<ram, frame, arrivals, purpose>>,
         fg'.op \notin {"configure", "receive"} \union Cancels,
         Writing' => \/ ifc'[1] = ifc[1]
                     \/ ifc'[1].cmd.fields \notin {{"ARB", "CONTROL"}, {"CONTROL", "TXRQST"}}
  PROVE  DeliveryInv'
<1>1. FreshInv'
  BY DEF DeliveryInv, FreshInv, Fresh
<1>2. SetupInv'
  BY DEF DeliveryInv, SetupInv, Setting, Writing
<1>3. RxCancelInv'
  BY DEF DeliveryInv, RxCancelInv, Writing
<1>4. ReceiveInv'
  BY DEF ReceiveInv
<1> QED BY <1>1, <1>2, <1>3, <1>4 DEF DeliveryInv

\* A step of a cancel, which works on objects that are none to receive with.
LEMMA CancelStepDelivery ==
  ASSUME DeliveryInv, UNCHANGED <<ram, frame, arrivals, purpose>>, fg'.op \in Cancels,
         \A o \in fg'.todo : purpose[o] # "RX_DATA",
         Writing' => \/ ifc'[1] = ifc[1]
                     \/ ~Setting' /\ ifc'[1].cmd.obj \in fg'.todo
  PROVE  DeliveryInv'
<1>1. FreshInv'
  BY DEF DeliveryInv, FreshInv, Fresh
<1>2. SetupInv'
  BY DEF DeliveryInv, SetupInv, Setting, Writing, Cancels
<1>3. RxCancelInv'
  BY DEF DeliveryInv, RxCancelInv, Writing
<1>4. ReceiveInv'
  BY DEF ReceiveInv, Cancels
<1> QED BY <1>1, <1>2, <1>3, <1>4 DEF DeliveryInv

LEMMA SameDelivery ==
  ASSUME DeliveryInv, UNCHANGED <<ram, ifc, fg, frame, arrivals, purpose>>
  PROVE  DeliveryInv'
<1>1. FreshInv' /\ SetupInv'
  BY DEF DeliveryInv, FreshInv, SetupInv, Setting, Writing, Fresh
<1>2. RxCancelInv' /\ ReceiveInv'
  BY DEF DeliveryInv, RxCancelInv, ReceiveInv, Writing, Fresh
<1> QED BY <1>1, <1>2 DEF DeliveryInv

\* A call returns.
LEMMA EndDelivery ==
  ASSUME DeliveryInv, fg' = IdleCall, UNCHANGED <<callerView, ram, ifc, bus>>
  PROVE  DeliveryInv'
<1>1. fg'.op \notin {"configure", "receive"} \union Cancels
  BY DEF IdleCall, Cancels
<1>2. UNCHANGED <<ram, ifc, frame, arrivals, purpose>>
  BY DEF callerView, bus
<1> QED BY <1>1, <1>2, PassiveDelivery

LEMMA CallDelivery ==
  ASSUME MailboxInv, DeliveryInv, NEW o \in Mailbox,
         \/ \E dlc \in SendLength, data \in CallerData : SendCall(o, dlc, data)
         \/ RequestCall(o)
         \/ \E data \in CallerData : UpdateCall(o, data)
  PROVE  DeliveryInv'
<1>1. ASSUME NEW op \in {"send", "request", "update"}, NEW arg,
             Begin(Call("commit", op, o, arg), {o}), UNCHANGED purpose
      PROVE  DeliveryInv'
  <2>1. fg'.op = op /\ UNCHANGED <<ram, ifc, frame, arrivals>>
    BY <1>1 DEF Begin, Call, IdleCall, bus
  <2> QED BY <1>1, <2>1, PassiveDelivery DEF Cancels
<1> QED BY <1>1, Zenon DEF SendCall, RequestCall, UpdateCall

LEMMA TransmittingDelivery ==
  ASSUME MailboxInv, DeliveryInv, Transmitting
  PROVE  DeliveryInv'
<1>1. CASE Busy \/ LengthMismatch \/ UpdateReturns \/ RequestAccepted
  BY <1>1, EndDelivery DEF Busy, LengthMismatch, UpdateReturns, RequestAccepted
<1>2. ASSUME At("commit") \/ At("free") \/ At("length")
      PROVE  fg.op \in {"send", "request", "update"}
  BY <1>2 DEF At, MailboxInv, TypeOK, Operation, ConfigureInv, CancelInv, OtherInv, Cancels
<1>3. CASE NotBusy
  <2>1. fg'.op = fg.op /\ UNCHANGED <<ram, ifc, frame, arrivals, purpose>> /\ At("commit")
    BY <1>3 DEF NotBusy, MailboxInv, TypeOK, callerView, bus
  <2> QED BY <1>2, <2>1, PassiveDelivery DEF Cancels
<1>4. ASSUME NEW regs, NEW write, NEW fields \in {{"CONTROL"}, {"DATA"}, {"DATA", "TXRQST"}, {"TXRQST"}},
             NEW step, Submit(1, regs, write, fields, step), At("free") \/ At("length"),
             UNCHANGED <<callerView, ram, canDiagnostics, bus>>
      PROVE  DeliveryInv'
  <2>1. fg'.op = fg.op /\ ifc'[1].cmd.fields = fields
    BY <1>4, IssueFacts DEF Submit, MailboxInv, TypeOK
  <2>2. fields \notin {{"ARB", "CONTROL"}, {"CONTROL", "TXRQST"}}
    BY <1>4
  <2> QED BY <1>2, <1>4, <2>1, <2>2, PassiveDelivery DEF Cancels, callerView, bus
<1>5. CASE ReadLength
  BY <1>4, <1>5 DEF ReadLength
<1>6. CASE SubmitData
  <2>1. PICK r : \/ Submit(1, r, TRUE, {"DATA", "TXRQST"}, "submitted")
                 \/ Submit(1, r, TRUE, {"TXRQST"}, "submitted")
    BY <1>6, Zenon DEF SubmitData
  <2> QED BY <1>4, <1>6, <2>1 DEF SubmitData
<1>7. CASE SubmitRemoteRequest
  BY <1>4, <1>7 DEF SubmitRemoteRequest
<1>8. CASE UpdateData
  <2>1. PICK r : Submit(1, r, TRUE, {"DATA"}, "stored")
    BY <1>8, Zenon DEF UpdateData, WriteData, PreloadFields
  <2> QED BY <1>4, <1>8, <2>1 DEF UpdateData
<1> QED
  BY <1>1, <1>3, <1>5, <1>6, <1>7, <1>8, CallDelivery DEF Transmitting

LEMMA CancellingDelivery ==
  ASSUME MailboxInv, DeliveryInv, Cancelling
  PROVE  DeliveryInv'
<1>1. ASSUME NEW op \in Cancels, NEW scope \in SUBSET Mailbox, CancelCall(op, scope)
      PROVE  DeliveryInv'
  <2> DEFINE pending == TxRequests \intersect scope
  <2>1. UNCHANGED <<ram, ifc, frame, arrivals, purpose>>
    BY <1>1 DEF CancelCall, bus
  <2>2. CASE pending = {}
    <3>1. UNCHANGED fg
      BY <1>1, <2>2 DEF CancelCall
    <3> QED BY <2>1, <3>1, SameDelivery
  <2>3. CASE pending # {}
    <3>1. fg'.op = op /\ fg'.todo = pending
      BY <1>1, <2>3 DEF CancelCall, IdleCall
    <3>2. \A o \in pending : purpose[o] # "RX_DATA"
      BY DEF TxRequests, DeliveryInv, FreshInv
    <3> QED BY <2>1, <3>1, <3>2, CancelStepDelivery
  <2> QED BY <2>2, <2>3
<1>2. ASSUME At("cancel") \/ At("control") \/ At("next") PROVE fg.op \in Cancels
  BY <1>2 DEF At, MailboxInv, TypeOK, Operation, ConfigureInv, SendInv, UpdateInv, OtherInv, Cancels
<1>3. fg.op \in Cancels => \A o \in fg.todo : purpose[o] # "RX_DATA"
  BY DEF DeliveryInv, RxCancelInv
<1>4. ASSUME NEW regs, NEW write, NEW step, Submit(1, regs, write, {"CONTROL", "TXRQST"}, step),
             fg.op \in Cancels, UNCHANGED <<callerView, ram, canDiagnostics, bus>>
      PROVE  DeliveryInv'
  <2>1. /\ fg'.op = fg.op /\ fg'.todo = fg.todo /\ fg.obj \in fg.todo
        /\ ifc'[1].cmd.fields = {"CONTROL", "TXRQST"} /\ ifc'[1].cmd.obj = fg.obj
    BY <1>4, IssueFacts DEF Submit, MailboxInv, TypeOK, Cancels
  <2>2. ~Setting'
    BY <2>1, FieldsDiffer DEF Setting
  <2> QED BY <1>3, <1>4, <2>1, <2>2, CancelStepDelivery DEF callerView, bus
<1>5. CASE ReadControl
  BY <1>2, <1>4, <1>5 DEF ReadControl
<1>6. CASE WriteControl
  BY <1>2, <1>4, <1>6 DEF WriteControl
<1>7. CASE CancelNext
  <2>1. /\ fg'.op = fg.op /\ fg'.todo \subseteq fg.todo /\ At("next")
        /\ UNCHANGED <<ram, ifc, frame, arrivals, purpose>>
    BY <1>7 DEF CancelNext, MailboxInv, TypeOK, callerView, bus
  <2> QED BY <1>2, <1>3, <2>1, CancelStepDelivery
<1>8. CASE CancelReturns
  <2>1. /\ fg'.op \notin {"configure", "receive"} \union Cancels
        /\ UNCHANGED <<ram, ifc, frame, arrivals, purpose>>
    BY <1>8 DEF CancelReturns, IdleCall, Cancels, bus
  <2> QED BY <2>1, PassiveDelivery
<1> QED BY <1>1, <1>5, <1>6, <1>7, <1>8 DEF Cancelling, AbortTx, CancelAll, Cancels

LEMMA ConfiguringDelivery ==
  ASSUME MailboxInv, DeliveryInv, Configuring
  PROVE  DeliveryInv'
<1>1. ASSUME NEW o \in Mailbox, NEW role, NEW dlc, NEW data, ConfigureCall(o, role, FALSE, dlc, data)
      PROVE  DeliveryInv'
  <2> DEFINE arg == [Blank EXCEPT !.role = role, !.ie = FALSE, !.dlc = dlc, !.data = data]
  <2>1. /\ UNCHANGED <<ram, ifc, frame, arrivals>> /\ purpose' = [purpose EXCEPT ![o] = "NONE"]
        /\ fg' = [IdleCall EXCEPT !.pc = "setup", !.op = "configure", !.obj = o, !.arg = arg]
    BY <1>1 DEF ConfigureCall, Begin, Call, bus
  <2>2. ~arg.newdat
    BY DEF Blank
  <2> HIDE DEF arg
  <2>3. fg'.pc = "setup" /\ fg'.op = "configure" /\ fg'.arg = arg
    BY <2>1 DEF IdleCall
  <2>4. \A m \in Mailbox : purpose'[m] = "RX_DATA" => purpose[m] = "RX_DATA"
    BY <2>1 DEF MailboxInv, TypeOK
  <2>5. FreshInv'
    BY <2>1, <2>4 DEF DeliveryInv, FreshInv, Fresh
  <2>6. SetupInv' /\ ReceiveInv'
    BY <2>1, <2>2, <2>3 DEF DeliveryInv, SetupInv, ReceiveInv, Setting, Writing
  <2>7. RxCancelInv'
    BY <2>1, <2>3, <2>4, NumberTypes DEF DeliveryInv, RxCancelInv, Writing, Cancels, MailboxInv
  <2> QED BY <2>5, <2>6, <2>7 DEF DeliveryInv
<1>2. ASSUME At("setup") \/ At("loaded") PROVE fg.op = "configure"
  BY <1>2 DEF At, MailboxInv, TypeOK, Operation, SendInv, UpdateInv, CancelInv, OtherInv, Cancels
<1>3. ASSUME NEW regs, NEW fields \in {{"ARB", "CONTROL"}, {"DATA"}}, NEW step,
             Submit(1, regs, TRUE, fields, step), fg.op = "configure",
             fields = {"ARB", "CONTROL"} => ~regs.newdat,
             fields = {"DATA"} => fg.arg.role # "RX_DATA",
             UNCHANGED <<callerView, ram, canDiagnostics, bus>>
      PROVE  DeliveryInv'
  <2>1. /\ fg'.op = "configure" /\ fg'.arg = fg.arg /\ fg'.obj = fg.obj
        /\ ifc'[1].busy /\ ifc'[1].cmd.write /\ ifc'[1].cmd.fields = fields /\ ifc'[1].regs = regs
    <3>1. Issue(1, fg.obj, regs, TRUE, fields) /\ TypeOK /\ fg' = [fg EXCEPT !.pc = step]
      BY <1>3, Zenon DEF Submit, MailboxInv
    <3>3. 1 \in 1..2
      OBVIOUS
    <3>4. fg'.op = fg.op /\ fg'.arg = fg.arg /\ fg'.obj = fg.obj
      BY <3>1 DEF TypeOK
    <3>2. /\ ifc'[1].busy /\ ifc'[1].regs = regs /\ ifc'[1].cmd.obj = fg.obj
          /\ ifc'[1].cmd.write = TRUE /\ ifc'[1].cmd.fields = fields
          /\ \A j \in 1..2 : j # 1 => ifc'[j] = ifc[j]
      BY <3>1, <3>3, IssueFacts, Zenon
    <3> QED BY <1>3, <3>2, <3>4, Zenon
  <2>2. UNCHANGED <<ram, frame, arrivals, purpose>>
    BY <1>3 DEF callerView, bus
  <2>3. Writing' /\ Setting' = (fields = {"ARB", "CONTROL"}) /\ fields # {"CONTROL", "TXRQST"}
    BY <1>3, <2>1, FieldsDiffer DEF Writing, Setting
  <2>4. FreshInv' /\ ReceiveInv' /\ RxCancelInv'
    BY <2>1, <2>2, <2>3 DEF DeliveryInv, FreshInv, Fresh, ReceiveInv, RxCancelInv, Cancels
  <2>5. SetupInv'
    BY <1>3, <2>1, <2>3 DEF DeliveryInv, SetupInv
  <2> QED BY <2>4, <2>5 DEF DeliveryInv
<1>4. CASE SetupObject
  <2> DEFINE regs == [fg.arg EXCEPT !.data = ifc[1].regs.data]
  <2>1. fg.op = "configure" /\ Submit(1, regs, TRUE, {"ARB", "CONTROL"}, "loaded")
        /\ UNCHANGED <<callerView, ram, canDiagnostics, bus>>
    BY <1>2, <1>4, Zenon DEF SetupObject
  <2>2. ~regs.newdat
    BY <2>1 DEF DeliveryInv, SetupInv, MailboxInv, TypeOK, Content
  <2> HIDE DEF regs
  <2> QED BY <1>3, <2>1, <2>2, FieldsDiffer
<1>5. CASE PreloadObject
  <2> DEFINE regs == [ifc[1].regs EXCEPT !.data = fg.arg.data]
  <2>1. fg.op = "configure" /\ Submit(1, regs, TRUE, {"DATA"}, "stored")
        /\ UNCHANGED <<callerView, ram, canDiagnostics, bus>>
    BY <1>2, <1>5, Zenon DEF PreloadObject, WriteData, PreloadFields
  <2>2. fg.arg.role # "RX_DATA"
    BY <1>5 DEF PreloadObject
  <2> HIDE DEF regs
  <2> QED BY <1>3, <2>1, <2>2, FieldsDiffer
<1>6. CASE ConfigureReturns
  <2>1. /\ fg.op = "configure" /\ fg.pc # "setup" /\ ~ifc[1].busy /\ fg' = IdleCall
        /\ UNCHANGED <<ram, ifc, frame, arrivals>>
        /\ purpose' = [purpose EXCEPT ![fg.obj] = fg.arg.role]
    BY <1>6 DEF ConfigureReturns, ObjectLoaded, At, Ready, bus
  <2>2. ~Writing' /\ ~Writing /\ ~Setting /\ ~Setting' /\ fg'.op = "none"
    BY <2>1 DEF Writing, Setting, IdleCall
  <2>3. FreshInv'
    BY <2>1, <2>2 DEF DeliveryInv, FreshInv, SetupInv, Fresh, MailboxInv, TypeOK
  <2> QED BY <2>2, <2>3 DEF DeliveryInv, SetupInv, RxCancelInv, ReceiveInv, Cancels
<1> QED
  BY <1>1, <1>4, <1>5, <1>6
     DEF Configuring, ConfigureRx, ConfigureSender, ConfigureTx, ConfigureRemoteRequest,
         ConfigureRemoteResponse

LEMMA ReceivingDelivery ==
  ASSUME MailboxInv, DeliveryInv, Receiving
  PROVE  DeliveryInv'
<1>1. ASSUME NEW o \in Mailbox, ReceiveCall(o) PROVE DeliveryInv'
  <2>1. /\ UNCHANGED <<ram, ifc, frame, arrivals, purpose>> /\ purpose[o] = "RX_DATA"
        /\ fg'.pc = "poll" /\ fg'.op = "receive" /\ fg'.obj = o
    BY <1>1 DEF ReceiveCall, Begin, Call, IdleCall, bus
  <2>2. FreshInv' /\ SetupInv' /\ RxCancelInv'
    BY <2>1 DEF DeliveryInv, FreshInv, Fresh, SetupInv, RxCancelInv, Setting, Writing, Cancels
  <2> QED BY <2>1, <2>2 DEF DeliveryInv, ReceiveInv
<1>2. ASSUME At("poll") \/ At("fetched") \/ At("taken") PROVE fg.op = "receive"
  BY <1>2 DEF At, MailboxInv, TypeOK, Operation, ConfigureInv, SendInv, UpdateInv, CancelInv,
              OtherInv, Cancels
<1>3. ASSUME fg.op = "receive", UNCHANGED <<callerView, ram, bus>>, ifc'[1] = ifc[1],
             fg'.op = "receive"
      PROVE  FreshInv' /\ SetupInv' /\ RxCancelInv' /\ UNCHANGED <<ram, frame, arrivals, purpose>>
  BY <1>3 DEF DeliveryInv, FreshInv, Fresh, SetupInv, RxCancelInv, Setting, Writing, Cancels,
              callerView, bus
<1>4. ASSUME NEW regs, NEW fields, Issue(2, fg.obj, regs, FALSE, fields)
      PROVE  /\ ifc'[1] = ifc[1] /\ ifc'[2].busy
             /\ ifc'[2].cmd = [obj |-> fg.obj, write |-> FALSE, fields |-> fields]
  BY <1>4 DEF Issue, MailboxInv, TypeOK
<1>5. CASE ReadObject
  <2>1. /\ UNCHANGED <<callerView, ram, canDiagnostics, bus>> /\ At("poll")
        /\ Issue(2, fg.obj, ifc[2].regs, FALSE, SnapshotFields)
        /\ fg' = [fg EXCEPT !.pc = "fetched"]
    BY <1>5, Zenon DEF ReadObject, Submit
  <2>2. fg'.op = fg.op /\ fg'.obj = fg.obj /\ fg'.pc = "fetched"
    BY <2>1 DEF MailboxInv, TypeOK
  <2>3. FreshInv' /\ SetupInv' /\ RxCancelInv' /\ UNCHANGED <<ram, frame, arrivals, purpose>>
    BY <1>2, <1>3, <1>4, <2>1, <2>2
  <2>4. /\ ifc'[2].busy
        /\ ifc'[2].cmd = [obj |-> fg'.obj, write |-> FALSE, fields |-> SnapshotFields]
    BY <1>4, <2>1, <2>2
  <2>5. purpose'[fg'.obj] = "RX_DATA"
    BY <1>2, <2>1, <2>2, <2>3 DEF DeliveryInv, ReceiveInv
  <2>6. ReceiveInv'
    BY <2>2, <2>4, <2>5 DEF ReceiveInv
  <2> QED BY <2>3, <2>6 DEF DeliveryInv
<1>6. CASE TakeObject
  <2>1. /\ UNCHANGED <<callerView, ram, canDiagnostics, bus>> /\ At("fetched")
        /\ ~ifc[2].busy /\ ifc[2].regs.newdat
        /\ Issue(2, fg.obj, ifc[2].regs, FALSE, AcknowledgeFields)
        /\ fg' = [fg EXCEPT !.pc = "taken", !.arg = ifc[2].regs]
    BY <1>6, Zenon DEF TakeObject, Ready
  <2>2. fg'.op = fg.op /\ fg'.obj = fg.obj /\ fg'.pc = "taken" /\ fg'.arg = ifc[2].regs
    BY <2>1 DEF MailboxInv, TypeOK
  <2>3. FreshInv' /\ SetupInv' /\ RxCancelInv' /\ UNCHANGED <<ram, frame, arrivals, purpose>>
    BY <1>2, <1>3, <1>4, <2>1, <2>2
  <2>4. frame[fg.obj] < ifc[2].regs.data /\ ifc[2].regs.data <= arrivals /\ purpose[fg.obj] = "RX_DATA"
    BY <1>2, <2>1 DEF DeliveryInv, ReceiveInv, Fresh, At
  <2>5. /\ ifc'[2].busy
        /\ ifc'[2].cmd = [obj |-> fg'.obj, write |-> FALSE, fields |-> AcknowledgeFields]
    BY <1>4, <2>1, <2>2
  <2>6. ReceiveInv'
    BY <2>2, <2>3, <2>4, <2>5 DEF ReceiveInv
  <2> QED BY <2>3, <2>6 DEF DeliveryInv
<1>7. CASE NothingNew \/ LengthRefused
  BY <1>7, EndDelivery DEF NothingNew, LengthRefused
<1>8. CASE Deliver
  <2>1. /\ At("taken") /\ ~ifc[2].busy /\ frame' = [frame EXCEPT ![fg.obj] = fg.arg.data]
        /\ fg' = IdleCall /\ UNCHANGED <<ram, ifc, purpose, arrivals>>
    BY <1>8 DEF Deliver, Ready, bus
  <2>2. /\ frame[fg.obj] < fg.arg.data /\ fg.arg.data <= arrivals
        /\ ram[fg.obj].newdat => fg.arg.data < ram[fg.obj].data
    BY <1>2, <2>1 DEF DeliveryInv, ReceiveInv, At
  <2>3. FreshInv'
    BY <2>1, <2>2 DEF DeliveryInv, FreshInv, Fresh, MailboxInv, TypeOK
  <2>4. fg'.op = "none" /\ Writing' = Writing /\ Setting' = Setting
    BY <2>1 DEF IdleCall, Writing, Setting
  <2>5. SetupInv' /\ RxCancelInv' /\ ReceiveInv'
    BY <2>1, <2>4 DEF DeliveryInv, SetupInv, RxCancelInv, ReceiveInv, Cancels
  <2> QED BY <2>3, <2>5 DEF DeliveryInv
<1> QED BY <1>1, <1>5, <1>6, <1>7, <1>8 DEF Receiving

\* Only a setup writes to an object that is to receive: any other command moves data out
\* of it, and at most clears NEWDAT.
LEMMA ReceiverTransfer ==
  ASSUME MailboxInv, DeliveryInv, NEW i \in 1..2, Transfer(i), NEW o \in Mailbox,
         \/ purpose[o] = "RX_DATA"
         \/ fg.op = "configure" /\ fg.pc # "setup" /\ fg.arg.role = "RX_DATA" /\ ~Setting /\ o = fg.obj
  PROVE  ram'[o].txrqst = ram[o].txrqst /\ ram'[o].data = ram[o].data
         /\ (ram'[o].newdat => ram[o].newdat)
<1> DEFINE c == ifc[i].cmd
<1>1. ~(c.write /\ c.obj = o)
  <2> SUFFICES ASSUME c.write, c.obj = o PROVE FALSE
    OBVIOUS
  <2>1. i = 1 /\ Writing
    BY DEF Transfer, MailboxInv, CommandInv, Writing
  <2>2. ram[o].role = "RX_DATA"
    BY DEF MailboxInv, RoleInv, ConfigureInv, Setting
  <2>3. ~Raising /\ c.fields # {"DATA"}
    BY <2>1, <2>2, FieldsDiffer DEF MailboxInv, CommandInv, Senders, Raising
  <2>4. c.fields = {"ARB", "CONTROL"} \/ c.fields = {"CONTROL", "TXRQST"}
    BY <2>1, <2>3 DEF MailboxInv, CommandInv
  <2>5. CASE purpose[o] = "RX_DATA"
    BY <2>1, <2>3, <2>5 DEF MailboxInv, CommandInv, DeliveryInv, RxCancelInv
  <2>6. CASE fg.op = "configure" /\ fg.pc # "setup" /\ ~Setting
    BY <2>1, <2>3, <2>4, <2>6, FieldsDiffer DEF DeliveryInv, SetupInv, Setting
  <2> QED BY <2>5, <2>6
<1>2. CASE c.obj # o
  BY <1>2, TransferFacts
<1>3. CASE ~c.write /\ c.obj = o
  <2>1. ram' = [ram EXCEPT ![o] = Released(ram[o], c.fields)]
    BY <1>3 DEF Transfer
  <2>2. \A content \in Content : \A fields :
          LET r == Released(content, fields)
          IN /\ r.txrqst = content.txrqst /\ r.data = content.data
             /\ r.newdat = (content.newdat /\ "TXRQST" \notin fields)
    BY DEF Released, Content
  <2> QED BY <2>1, <2>2 DEF MailboxInv, TypeOK
<1> QED BY <1>1, <1>2, <1>3

LEMMA TransferDelivery ==
  ASSUME MailboxInv, DeliveryInv, NEW i \in 1..2, Transfer(i)
  PROVE  DeliveryInv'
<1> DEFINE c == ifc[i].cmd
<1>1. UNCHANGED <<fg, frame, purpose, arrivals>>
  BY DEF Transfer, callerView
<1>2. ifc[i].busy /\ ~ifc'[i].busy /\ \A j \in 1..2 : j # i => ifc'[j] = ifc[j]
  BY TransferFacts DEF Transfer
<1>3. FreshInv'
  BY <1>1, ReceiverTransfer DEF DeliveryInv, FreshInv, Fresh
<1>4. SetupInv'
  <2>1. Setting' => Setting /\ ifc'[1] = ifc[1]
    BY <1>2 DEF Setting, Writing
  <2>2. Writing' => Writing /\ ifc'[1] = ifc[1]
    BY <1>2 DEF Writing
  <2>3. ASSUME fg.op = "configure", fg.pc # "setup", fg.arg.role = "RX_DATA", ~Setting'
        PROVE  ~ram'[fg.obj].txrqst /\ Fresh(fg.obj, ram[fg.obj])'
    <3>1. fg.obj \in Mailbox
      BY NumberTypes DEF MailboxInv
    <3>2. CASE ~Setting
      BY <1>1, <2>3, <3>1, <3>2, ReceiverTransfer DEF DeliveryInv, SetupInv, Fresh
    <3>3. CASE Setting
      <4>1. i = 1 /\ c.obj = fg.obj /\ c.write /\ c.fields = {"ARB", "CONTROL"}
        BY <1>2, <2>3, <3>3 DEF Setting, Writing, MailboxInv, ConfigureInv
      <4>2. ~ifc[1].regs.newdat /\ ~ifc[1].regs.txrqst
        BY <3>3, FieldsDiffer
           DEF DeliveryInv, SetupInv, Setting, MailboxInv, CommandInv, Raising
      <4>3. ram' = [ram EXCEPT ![fg.obj] = Written(ram[fg.obj], ifc[1].regs, {"ARB", "CONTROL"})]
        BY <4>1 DEF Transfer
      <4>4. \A content \in Content : \A regs \in Content :
              LET w == Written(content, regs, {"ARB", "CONTROL"})
              IN w.newdat = regs.newdat /\ w.txrqst = regs.txrqst
        BY FieldsDiffer DEF Written, Content
      <4>5. ram'[fg.obj] = Written(ram[fg.obj], ifc[1].regs, {"ARB", "CONTROL"})
            /\ ram[fg.obj] \in Content /\ ifc[1].regs \in Content
        BY <3>1, <4>3 DEF MailboxInv, TypeOK
      <4>6. ~ram'[fg.obj].newdat /\ ~ram'[fg.obj].txrqst
        BY <4>2, <4>4, <4>5
      <4> QED BY <1>1, <4>6 DEF Fresh
    <3> QED BY <3>2, <3>3
  <2> QED BY <1>1, <2>1, <2>2, <2>3 DEF DeliveryInv, SetupInv
<1>5. RxCancelInv'
  <2>1. Writing' => Writing /\ ifc'[1] = ifc[1]
    BY <1>2 DEF Writing
  <2> QED BY <1>1, <2>1 DEF DeliveryInv, RxCancelInv
<1>6. ReceiveInv'
  <2> SUFFICES ASSUME fg.op = "receive" PROVE ReceiveInv'
    BY <1>1 DEF ReceiveInv
  <2>1. /\ purpose[fg.obj] = "RX_DATA" /\ fg.obj \in Mailbox
        /\ ram'[fg.obj].data = ram[fg.obj].data /\ (ram'[fg.obj].newdat => ram[fg.obj].newdat)
    BY NumberTypes, ReceiverTransfer DEF DeliveryInv, ReceiveInv, MailboxInv
  <2>2. CASE i = 1
    <3>1. ifc'[2] = ifc[2]
      BY <1>2, <2>2
    <3> QED BY <1>1, <2>1, <3>1 DEF DeliveryInv, ReceiveInv, Fresh
  <2>3. CASE i = 2
    <3> DEFINE old == ram[c.obj]
    <3>1. ~c.write /\ ~ifc'[2].busy
      BY <1>2, <2>3 DEF MailboxInv, CommandInv
    <3>2. /\ ifc'[2].regs = Fetched(ifc[2].regs, old, c.fields)
          /\ ram' = [ram EXCEPT ![c.obj] = Released(old, c.fields)]
      BY <2>3, <3>1 DEF Transfer, MailboxInv, TypeOK
    <3>3. ASSUME fg.pc = "fetched" PROVE Fresh(fg.obj, ifc[2].regs)'
      <4>1. c.obj = fg.obj /\ c.fields = SnapshotFields
        BY <1>2, <2>3, <3>3 DEF DeliveryInv, ReceiveInv
      <4>2. \A content \in Content : \A regs \in Content :
              LET f == Fetched(regs, content, SnapshotFields)
              IN f.newdat = content.newdat /\ f.data = content.data
        BY DEF Fetched, Content, SnapshotFields
      <4>3. Fresh(fg.obj, ram[fg.obj])
        BY <2>1 DEF DeliveryInv, FreshInv
      <4> QED BY <1>1, <2>1, <3>2, <4>1, <4>2, <4>3 DEF Fresh, MailboxInv, TypeOK
    <3>4. ASSUME fg.pc = "taken" PROVE ~ram'[fg.obj].newdat
      <4>1. c.obj = fg.obj /\ c.fields = {"TXRQST"}
        BY <1>2, <2>3, <3>4 DEF DeliveryInv, ReceiveInv, AcknowledgeFields
      <4>2. \A content \in Content : ~Released(content, {"TXRQST"}).newdat
        BY DEF Released, Content
      <4> QED BY <2>1, <3>2, <4>1, <4>2 DEF MailboxInv, TypeOK
    <3> QED BY <1>1, <2>1, <3>1, <3>3, <3>4 DEF DeliveryInv, ReceiveInv
  <2> QED BY <2>2, <2>3
<1> QED BY <1>3, <1>4, <1>5, <1>6 DEF DeliveryInv

\* A frame from the bus is later than all before it; one to the bus leaves a receiver alone.
LEMMA BusDelivery ==
  ASSUME MailboxInv, DeliveryInv, NEW o \in Mailbox,
         (\E dlc \in Lengths : Arrive(o, dlc)) \/ FrameOut(o)
  PROVE  DeliveryInv'
<1>1. UNCHANGED <<ifc, fg, frame, purpose>>
  BY Zenon DEF Arrive, FrameOut, Transmit, RemoteFrame, callerView
<1>2. /\ arrivals \in Nat /\ arrivals' \in Nat /\ arrivals <= arrivals'
      /\ \A m \in Mailbox :
           \/ ram'[m].newdat = ram[m].newdat /\ ram'[m].data = ram[m].data
           \/ ram'[m].data = arrivals' /\ arrivals' = arrivals + 1
  <2>1. ram \in [Mailbox -> Content] /\ arrivals \in Nat
    BY DEF MailboxInv, TypeOK
  <2>2. ASSUME NEW dlc \in Lengths, Arrive(o, dlc)
        PROVE  arrivals' = arrivals + 1 /\ ram'[o].data = arrivals + 1
               /\ \A m \in Mailbox : m # o => ram'[m] = ram[m]
    <3> DEFINE new == [ram[o] EXCEPT !.data = arrivals + 1, !.dlc = dlc, !.newdat = TRUE,
                                     !.msglst = @ \/ ram[o].newdat,
                                     !.intpnd = @ \/ ram[o].ie]
    <3>1. ram' = [ram EXCEPT ![o] = new] /\ arrivals' = arrivals + 1
      BY <2>2, Zenon DEF Arrive
    <3>2. ram[o] \in Content
      BY <2>1
    <3>3. new.data = arrivals + 1
      BY <3>2 DEF Content
    <3> HIDE DEF new
    <3> QED BY <2>1, <3>1, <3>3
  <2>3. CASE Transmit(o)
    BY <2>1, <2>3 DEF Transmit, Content, bus
  <2>4. CASE RemoteFrame(o)
    BY <2>1, <2>4 DEF RemoteFrame, Content, bus
  <2> QED BY <2>1, <2>2, <2>3, <2>4 DEF FrameOut
<1>3. \A m \in Mailbox : ram[m].role = "RX_DATA" /\ ~ram[m].txrqst => ~ram'[m].txrqst
  BY BusFacts
<1>4. ASSUME NEW m \in Mailbox, frame[m] <= arrivals, Fresh(m, ram[m])
      PROVE  Fresh(m, ram[m])'
  BY <1>1, <1>2, <1>4, NumberTypes DEF Fresh, MailboxInv
<1>5. FreshInv'
  <2>1. \A m \in Mailbox : frame'[m] <= arrivals'
    BY <1>1, <1>2, NumberTypes DEF DeliveryInv, FreshInv, MailboxInv
  <2> QED BY <1>1, <1>3, <1>4, <2>1 DEF DeliveryInv, FreshInv, MailboxInv, RoleInv
<1>6. Writing' = Writing /\ Setting' = Setting
  BY <1>1 DEF Writing, Setting
<1>7. SetupInv'
  <2>1. ASSUME fg.op = "configure", fg.pc # "setup", fg.arg.role = "RX_DATA", ~Setting
        PROVE  ~ram'[fg.obj].txrqst /\ Fresh(fg.obj, ram[fg.obj])'
    <3>1. /\ fg.obj \in Mailbox /\ ram[fg.obj].role = "RX_DATA" /\ frame[fg.obj] <= arrivals
          /\ ~ram[fg.obj].txrqst /\ Fresh(fg.obj, ram[fg.obj])
      BY <2>1, NumberTypes
         DEF MailboxInv, ConfigureInv, DeliveryInv, SetupInv, FreshInv, Setting
    <3>2. Fresh(fg.obj, ram[fg.obj])'
      BY <1>1, <1>4, <3>1
    <3> QED BY <1>3, <3>1, <3>2
  <2> QED BY <1>1, <1>6, <2>1 DEF DeliveryInv, SetupInv
<1>8. RxCancelInv'
  BY <1>1, <1>6 DEF DeliveryInv, RxCancelInv
<1>9. ReceiveInv'
  BY <1>1, <1>2, NumberTypes DEF DeliveryInv, ReceiveInv, Fresh, MailboxInv
<1> QED BY <1>5, <1>7, <1>8, <1>9 DEF DeliveryInv

\* Only Deliver changes the caller's frames, and it alone counts one.
LEMMA FrameChanges ==
  ASSUME MailboxInv, [Next]_vars
  PROVE  \/ UNCHANGED frame /\ canDiagnostics'.rxFrameCount = canDiagnostics.rxFrameCount
         \/ Deliver
<1> DEFINE Same == UNCHANGED <<frame, canDiagnostics>>
<1>1. CASE StartStop \/ UNCHANGED vars
  BY <1>1 DEF StartStop, vars
<1>2. CASE WaitExpires \/ RequestAccepted
  <2>1. canDiagnostics'.rxFrameCount = canDiagnostics.rxFrameCount
    BY <1>2 DEF WaitExpires, RequestAccepted, TimedOut, MailboxInv, TypeOK, Counter
  <2>2. UNCHANGED frame
    BY <1>2, Zenon DEF WaitExpires, RequestAccepted, callerView
  <2> QED BY <2>1, <2>2
<1>3. CASE Configuring
  <2>1. Same
    BY <1>3, Zenon DEF Configuring, ConfigureRx, ConfigureSender, ConfigureTx, ConfigureRemoteRequest,
         ConfigureRemoteResponse, ConfigureCall, Begin, SetupObject, PreloadObject,
         ConfigureReturns, callerView
  <2> QED BY <2>1
<1>4. CASE Transmitting
  <2>1. RequestAccepted \/ Same
    BY <1>4, Zenon DEF Transmitting, SendCall, RequestCall, UpdateCall, Begin, Busy, NotBusy,
         ReadLength, LengthMismatch, SubmitData, SubmitRemoteRequest, UpdateData, UpdateReturns,
         callerView
  <2> QED BY <1>2, <2>1
<1>5. CASE Cancelling
  <2>1. Same
    BY <1>5, Zenon DEF Cancelling, AbortTx, CancelAll, CancelCall, ReadControl, WriteControl,
         CancelNext, CancelReturns, callerView
  <2> QED BY <2>1
<1>6. CASE Receiving
  <2>1. Deliver \/ Same
    BY <1>6, Zenon DEF Receiving, ReceiveCall, Begin, ReadObject, NothingNew, TakeObject,
         LengthRefused, callerView
  <2> QED BY <2>1
<1>7. CASE Peripheral
  <2>1. Same
    BY <1>7, Zenon DEF Peripheral, Transfer, Arrive, FrameOut, Transmit, RemoteFrame, callerView
  <2> QED BY <2>1
<1> QED BY <1>1, <1>2, <1>3, <1>4, <1>5, <1>6, <1>7 DEF Next

LEMMA DeliveryStep ==
  ASSUME MailboxInv, DeliveryInv, [Next]_vars
  PROVE  DeliveryInv'
<1>1. CASE StartStop \/ UNCHANGED vars
  <2>1. UNCHANGED <<ram, ifc, fg, frame, arrivals, purpose>>
    BY <1>1 DEF StartStop, vars, bus
  <2> QED BY <2>1, SameDelivery
<1>2. CASE WaitExpires
  BY <1>2, EndDelivery DEF WaitExpires
<1>3. CASE Configuring \/ Transmitting \/ Cancelling \/ Receiving
  BY <1>3, ConfiguringDelivery, TransmittingDelivery, CancellingDelivery, ReceivingDelivery
<1>4. CASE Peripheral
  BY <1>4, TransferDelivery, BusDelivery DEF Peripheral
<1> QED BY <1>1, <1>2, <1>3, <1>4 DEF Next

LEMMA InitDelivery == Init => DeliveryInv
<1> SUFFICES ASSUME Init PROVE DeliveryInv
  OBVIOUS
<1>1. /\ \A o \in Mailbox : frame[o] = 0 /\ purpose[o] = "NONE"
      /\ arrivals = 0 /\ ~ifc[1].busy /\ fg.op = "none"
  BY DEF Init, IdleCall
<1> QED
  BY <1>1 DEF DeliveryInv, FreshInv, SetupInv, RxCancelInv, ReceiveInv, Setting, Writing, Cancels

\* DeliveredOnce: whatever timed out before, receive() hands out each frame of an object
\* at most once and in the order the frames arrived, and a failed call hands out none.
THEOREM FramesDeliveredOnce == Spec => DeliveredOnce
<1> DEFINE Once ==
      IF canDiagnostics'.rxFrameCount = canDiagnostics.rxFrameCount
      THEN frame' = frame
      ELSE frame'[fg.obj] > frame[fg.obj]
<1>1. MailboxInv /\ DeliveryInv /\ [Next]_vars => DeliveryInv'
  BY DeliveryStep
<1>2. MailboxInv /\ DeliveryInv /\ [Next]_vars => Once
  <2> SUFFICES ASSUME MailboxInv, DeliveryInv, [Next]_vars PROVE Once
    OBVIOUS
  <2>1. CASE UNCHANGED frame /\ canDiagnostics'.rxFrameCount = canDiagnostics.rxFrameCount
    BY <2>1
  <2>2. CASE Deliver
    <3>1. fg.op = "receive" /\ fg.pc = "taken"
      BY <2>2 DEF Deliver, At, MailboxInv, TypeOK, Operation, ConfigureInv, SendInv, UpdateInv,
                  CancelInv, OtherInv, Cancels
    <3>2. frame[fg.obj] < fg.arg.data
      BY <3>1 DEF DeliveryInv, ReceiveInv
    <3>3. frame'[fg.obj] = fg.arg.data
      BY <2>2, NumberTypes DEF Deliver, MailboxInv, TypeOK
    <3>4. canDiagnostics'.rxFrameCount = canDiagnostics.rxFrameCount + 1
          /\ canDiagnostics.rxFrameCount \in Nat
      BY <2>2 DEF Deliver, Counted, MailboxInv, TypeOK, Counter
    <3>5. frame'[fg.obj] > frame[fg.obj]
      BY <3>2, <3>3, NumberTypes DEF MailboxInv
    <3> QED BY <3>4, <3>5
  <2> QED BY <2>1, <2>2, FrameChanges
<1> QED
  BY <1>1, <1>2, InitDelivery, MailboxCorrect, PTL DEF Spec, DeliveredOnce
==============================================================================
