------------------------------ MODULE CanConfig ------------------------------
(***************************************************************************)
(* What the CAN HAL accepts as configuration and how it encodes it         *)
(* (hal_can.c: the validate functions and the conversions of HAL_CAN_init; *)
(* hal_can_hw.c: the words of a message object).  Every numeric field is   *)
(* the value of a C integer of the width named here.                       *)
(***************************************************************************)
EXTENDS Integers

UInt8  == 0..255
UInt16 == 0..65535
IsUInt32(n) == n \in Nat /\ n \div 65536 < 65536

-----------------------------------------------------------------------------
(* Controller configuration *)

\* HAL_CAN_BitTiming_t and HAL_CAN_Config_t; a mode above 4 is no HAL_CAN_Mode_t.
BitTiming ==
  [prescaler : UInt16, propagationSegmentTq : UInt16, phaseSegment1Tq : UInt16,
   phaseSegment2Tq : UInt16, syncJumpWidthTq : UInt16]
IsConfig(config) ==
  /\ IsUInt32(config.sourceClockHz)
  /\ config.bitTiming \in BitTiming
  /\ IsUInt32(config.mode)

TimeSegment1(t) == t.propagationSegmentTq + t.phaseSegment1Tq
TotalBitTime(t) == 1 + TimeSegment1(t) + t.phaseSegment2Tq

\* The ranges of the single fields.
SegmentsInRange(t) ==
  /\ t.prescaler \in 1..1024
  /\ t.propagationSegmentTq >= 1
  /\ t.phaseSegment1Tq >= 1
  /\ t.phaseSegment2Tq \in 1..8
  /\ t.syncJumpWidthTq \in 1..4

\* Mutant: the sum of the two segments in front of the sample point is unchecked.
AcceptsLongSegment(t) ==
  /\ SegmentsInRange(t)
  /\ TotalBitTime(t) >= 8
  /\ t.syncJumpWidthTq <= t.phaseSegment1Tq
  /\ t.syncJumpWidthTq <= t.phaseSegment2Tq

AcceptsTiming(t) ==
  /\ SegmentsInRange(t)
  /\ TimeSegment1(t) \in 2..16
  /\ TotalBitTime(t) \in 8..25
  /\ t.syncJumpWidthTq <= t.phaseSegment1Tq
  /\ t.syncJumpWidthTq <= t.phaseSegment2Tq

BitRateDivisor(t) == t.prescaler * TotalBitTime(t)

\* The quotient is truncated before it is compared with the limit.
AcceptsRate(clock, t) ==
  LET bitRate == clock \div BitRateDivisor(t)
  IN bitRate # 0 /\ bitRate <= 1000000

\* HAL_CAN_validateConfig.
AcceptsConfig(config) ==
  /\ config.sourceClockHz # 0
  /\ config.mode <= 4
  /\ AcceptsTiming(config.bitTiming)
  /\ AcceptsRate(config.sourceClockHz, config.bitTiming)

\* Mutant: the prescaler is cut to its six-bit field.
RegisterWithoutExtension(t) ==
  [brp |-> (t.prescaler - 1) % 64, brpe |-> 0,
   tseg1 |-> TimeSegment1(t) - 1, tseg2 |-> t.phaseSegment2Tq - 1,
   sjw |-> t.syncJumpWidthTq - 1]

\* The encodings HAL_CAN_init hands to CAN_setBitTiming.
TimingRegister(t) ==
  [brp |-> (t.prescaler - 1) % 64, brpe |-> (t.prescaler - 1) \div 64,
   tseg1 |-> TimeSegment1(t) - 1, tseg2 |-> t.phaseSegment2Tq - 1,
   sjw |-> t.syncJumpWidthTq - 1]

\* The fields of the bit timing register and what the peripheral makes of them.
TimingFields ==
  [brp : 0..63, brpe : 0..15, tseg1 : 1..15, tseg2 : 0..7, sjw : 0..3]
ClocksPerQuantum(r) == 64 * r.brpe + r.brp + 1
QuantaPerBit(r) == 3 + r.tseg1 + r.tseg2
SamplePoint(r) == 2 + r.tseg1

\* The register makes the peripheral do what the configuration says.
Represents(r, t) ==
  /\ r \in TimingFields
  /\ ClocksPerQuantum(r) = t.prescaler
  /\ QuantaPerBit(r) = TotalBitTime(t)
  /\ SamplePoint(r) = 1 + TimeSegment1(t)
  /\ r.sjw + 1 = t.syncJumpWidthTq

-----------------------------------------------------------------------------
(* Message objects *)

\* HAL_CAN_RxConfig_t, TxConfig_t, RemoteRequestConfig_t, RemoteResponseConfig_t:
\* a format other than these two is refused by the switch.
IdType == {"STANDARD", "EXTENDED"}
IdLimit(idType) == IF idType = "STANDARD" THEN 2047 ELSE 536870911

AcceptsObject(o, idType, identifier) ==
  /\ o \in 1..32
  /\ idType \in IdType
  /\ identifier <= IdLimit(idType)

AcceptsRx(config) ==
  /\ AcceptsObject(config.mailboxObjIndex, config.idType, config.identifier)
  /\ config.filterMask <= IdLimit(config.idType)

AcceptsTx(config) ==
  /\ AcceptsObject(config.mailboxObjIndex, config.idType, config.identifier)
  /\ config.dlc <= 8

AcceptsRemoteRequest(config) ==
  /\ AcceptsObject(config.mailboxObjIndex, config.idType, config.identifier)
  /\ config.dlc <= 8

AcceptsRemoteResponse(config) ==
  /\ AcceptsObject(config.mailboxObjIndex, config.idType, config.identifier)
  /\ config.filterMask <= IdLimit(config.idType)
  /\ config.dlc <= 8

\* The identifier field of the arbitration word (and of the mask word).
IdentifierField(idType, identifier) ==
  IF idType = "STANDARD" THEN (identifier * 262144) % 536870912
  ELSE identifier % 536870912

\* What HAL_CAN_hwReadMessageObject makes of such a word.
ReceivedIdentifier(idType, word) ==
  IF idType = "STANDARD" THEN (word % 536870912) \div 262144
  ELSE word % 536870912

\* Payload byte i travels in byte i % 4 of word i \div 4; bytes past the length
\* are sent as zero and received as zero.
BytePlace == <<1, 256, 65536, 16777216>>
SentByte(data, dlc, i) == IF i < dlc THEN data[i] ELSE 0
DataWord(data, dlc, first) ==
  SentByte(data, dlc, first) * BytePlace[1] + SentByte(data, dlc, first + 1) * BytePlace[2]
    + SentByte(data, dlc, first + 2) * BytePlace[3]
    + SentByte(data, dlc, first + 3) * BytePlace[4]
ReceivedByte(wordA, wordB, dlc, i) ==
  IF i >= dlc THEN 0
  ELSE IF i < 4 THEN (wordA \div BytePlace[i + 1]) % 256
  ELSE (wordB \div BytePlace[i - 3]) % 256

-----------------------------------------------------------------------------
(* Interrupt configuration *)

\* HAL_CAN_validateInterruptConfig: storage and capacity come in pairs, and
\* something must be requested.  (A capacity too large for its storage's size
\* in bytes is refused too; capacities here are small.)
AcceptsInterruptConfig(config) ==
  /\ config.rxEventStorage <=> config.rxEventCapacity # 0
  /\ config.txCompleteEventStorage <=> config.txCompleteEventCapacity # 0
  /\ \/ config.rxEventCapacity # 0 \/ config.txCompleteEventCapacity # 0
     \/ config.diagnostics
==============================================================================
