--------------------------- MODULE CanConfigProofs ---------------------------
(***************************************************************************)
(* What the checks of CanConfig guarantee, for every input.                *)
(***************************************************************************)
EXTENDS CanConfig, TLAPS

\* A number below 1024 is split into the prescaler field and its extension without loss.
LEMMA PrescalerSplit ==
  ASSUME NEW n \in 0..1023
  PROVE  /\ n % 64 \in 0..63
         /\ n \div 64 \in 0..15
         /\ (64 * (n \div 64)) + (n % 64) = n
  OBVIOUS

LEMMA UInt16Nat == UInt16 \subseteq Nat
  BY DEF UInt16

LEMMA TimingTypes ==
  ASSUME NEW t \in BitTiming
  PROVE  /\ t.prescaler \in Nat /\ t.propagationSegmentTq \in Nat /\ t.phaseSegment1Tq \in Nat
         /\ t.phaseSegment2Tq \in Nat /\ t.syncJumpWidthTq \in Nat
         /\ TimeSegment1(t) \in Nat /\ TotalBitTime(t) \in Nat \ {0}
         /\ BitRateDivisor(t) \in Nat
<1>1. /\ t.prescaler \in UInt16 /\ t.propagationSegmentTq \in UInt16
      /\ t.phaseSegment1Tq \in UInt16 /\ t.phaseSegment2Tq \in UInt16
      /\ t.syncJumpWidthTq \in UInt16
  BY DEF BitTiming
<1>2. /\ t.prescaler \in Nat /\ t.propagationSegmentTq \in Nat /\ t.phaseSegment1Tq \in Nat
      /\ t.phaseSegment2Tq \in Nat /\ t.syncJumpWidthTq \in Nat
  BY <1>1, UInt16Nat
<1>3. TimeSegment1(t) \in Nat
  BY <1>2 DEF TimeSegment1
<1>4. TotalBitTime(t) \in Nat \ {0}
  BY <1>2, <1>3 DEF TotalBitTime
<1>5. BitRateDivisor(t) \in Nat
  BY <1>2, <1>4 DEF BitRateDivisor
<1> QED BY <1>2, <1>3, <1>4, <1>5

\* Every timing HAL_CAN_validateConfig accepts fits the bit timing register, and the
\* register HAL_CAN_init computes makes the peripheral run exactly that timing.
THEOREM AcceptedTimingFits ==
  ASSUME NEW t \in BitTiming, AcceptsTiming(t)
  PROVE  Represents(TimingRegister(t), t)
<1>1. /\ t.prescaler - 1 \in 0..1023
      /\ TimeSegment1(t) \in 2..16 /\ t.phaseSegment2Tq \in 1..8 /\ t.syncJumpWidthTq \in 1..4
  <2>1. /\ SegmentsInRange(t) /\ TimeSegment1(t) \in 2..16
    BY DEF AcceptsTiming
  <2>2. t.prescaler \in 1..1024 /\ t.phaseSegment2Tq \in 1..8 /\ t.syncJumpWidthTq \in 1..4
    BY <2>1 DEF SegmentsInRange
  <2> QED BY <2>1, <2>2
<1>2. TimingRegister(t) \in TimingFields
  BY <1>1, PrescalerSplit DEF TimingRegister, TimingFields
<1>3. ClocksPerQuantum(TimingRegister(t)) = t.prescaler
  <2>1. (64 * TimingRegister(t).brpe) + TimingRegister(t).brp = t.prescaler - 1
    BY <1>1, PrescalerSplit DEF TimingRegister
  <2>2. TimingRegister(t).brp \in Nat /\ TimingRegister(t).brpe \in Nat
    BY <1>2 DEF TimingFields
  <2> QED BY <2>1, <2>2, TimingTypes DEF ClocksPerQuantum
<1>4. /\ QuantaPerBit(TimingRegister(t)) = TotalBitTime(t)
      /\ SamplePoint(TimingRegister(t)) = 1 + TimeSegment1(t)
      /\ TimingRegister(t).sjw + 1 = t.syncJumpWidthTq
  BY <1>1, TimingTypes DEF QuantaPerBit, SamplePoint, TimingRegister, TotalBitTime
<1> QED
  BY <1>2, <1>3, <1>4 DEF Represents

\* The checks refuse nothing the peripheral could run: a timing that some register
\* represents, and that keeps CAN's rules for segments, is accepted.
THEOREM RepresentableIsAccepted ==
  ASSUME NEW t \in BitTiming, NEW r \in TimingFields, Represents(r, t),
         t.propagationSegmentTq >= 1, t.phaseSegment1Tq >= 1, TotalBitTime(t) \in 8..25,
         t.syncJumpWidthTq <= t.phaseSegment1Tq, t.syncJumpWidthTq <= t.phaseSegment2Tq
  PROVE  AcceptsTiming(t)
<1>1. /\ r.brp \in 0..63 /\ r.brpe \in 0..15 /\ r.tseg1 \in 1..15
      /\ r.tseg2 \in 0..7 /\ r.sjw \in 0..3
  BY DEF TimingFields
<1>2. /\ t.prescaler = (64 * r.brpe) + r.brp + 1
      /\ 3 + r.tseg1 + r.tseg2 = 1 + TimeSegment1(t) + t.phaseSegment2Tq
      /\ 2 + r.tseg1 = 1 + TimeSegment1(t)
      /\ r.sjw + 1 = t.syncJumpWidthTq
  BY <1>1, TimingTypes
     DEF Represents, ClocksPerQuantum, QuantaPerBit, SamplePoint, TotalBitTime
<1>3. t.prescaler \in 1..1024 /\ t.syncJumpWidthTq \in 1..4
  BY <1>1, <1>2
<1>4. TimeSegment1(t) \in 2..16 /\ t.phaseSegment2Tq \in 1..8
  BY <1>1, <1>2, TimingTypes
<1> QED
  BY <1>3, <1>4 DEF AcceptsTiming, SegmentsInRange

\* A truncated quotient lies in 1..limit exactly when the dividend lies between one
\* divisor and less than limit + 1 of them.
LEMMA QuotientBounds ==
  ASSUME NEW a \in Nat, NEW d \in Nat \ {0}, NEW limit \in Nat
  PROVE  a \div d # 0 /\ a \div d <= limit <=> d <= a /\ a < (limit + 1) * d
<1> DEFINE q == a \div d
           r == a % d
<1>1. q \in Int /\ r \in Int /\ a = (d * q) + r /\ 0 <= r /\ r < d
  OBVIOUS
<1>2. q \in Nat /\ (q = 0 => a < d)
  BY <1>1
<1> HIDE DEF q, r
<1>3. (limit + 1) * d = (d * limit) + d /\ d * limit \in Nat /\ d * q \in Nat
  BY <1>2
<1>4. ASSUME q # 0, q <= limit PROVE d <= a /\ a < (limit + 1) * d
  <2>1. d * 1 <= d * q /\ d * q <= d * limit
    BY <1>2, <1>4
  <2> QED BY <1>1, <1>3, <2>1
<1>5. ASSUME d <= a, a < (limit + 1) * d PROVE q # 0 /\ q <= limit
  <2>1. q # 0
    BY <1>2, <1>5
  <2>2. ASSUME limit + 1 <= q PROVE FALSE
    <3>1. d * (limit + 1) <= d * q /\ d * (limit + 1) = (limit + 1) * d
      BY <1>2, <2>2
    <3> QED BY <1>1, <1>3, <1>5, <3>1
  <2> QED BY <1>2, <2>1, <2>2
<1> QED BY <1>4, <1>5 DEF q

LEMMA ProductBounds ==
  ASSUME NEW p \in Nat, NEW n \in Nat, NEW pMax \in Nat, NEW nMax \in Nat,
         1 <= p, p <= pMax, 1 <= n, n <= nMax
  PROVE  p * n \in Nat /\ 1 <= p * n /\ p * n <= pMax * nMax
<1>1. p * 1 <= p * n /\ p * n <= p * nMax
  OBVIOUS
<1>2. p * nMax <= pMax * nMax
  OBVIOUS
<1>3. p * n \in Nat /\ p * nMax \in Nat /\ pMax * nMax \in Nat
  OBVIOUS
<1> QED BY <1>1, <1>2, <1>3

\* HAL_CAN_validateConfig accepts, of the configurations whose timing and mode it
\* accepts, exactly those whose bit rate is at least one hertz and less than one hertz
\* above 1 MHz (the quotient is truncated); the divisor fits its 32 bits and is not zero.
THEOREM AcceptedRate ==
  ASSUME NEW config, IsConfig(config), AcceptsTiming(config.bitTiming), config.mode <= 4
  PROVE  LET divisor == BitRateDivisor(config.bitTiming)
         IN /\ 1 <= divisor /\ divisor <= 25600
            /\ AcceptsConfig(config) <=> ( /\ divisor <= config.sourceClockHz
                                           /\ config.sourceClockHz < 1000001 * divisor )
<1> DEFINE t == config.bitTiming
           clock == config.sourceClockHz
           divisor == BitRateDivisor(t)
<1>1. t \in BitTiming /\ AcceptsTiming(t) /\ clock \in Nat
  BY DEF IsConfig, IsUInt32
<1>2. AcceptsConfig(config) <=>
        (clock # 0 /\ clock \div divisor # 0 /\ clock \div divisor <= 1000000)
  BY DEF AcceptsConfig, AcceptsRate
<1>3. /\ t.prescaler \in Nat /\ 1 <= t.prescaler /\ t.prescaler <= 1024
      /\ TotalBitTime(t) \in Nat /\ 1 <= TotalBitTime(t) /\ TotalBitTime(t) <= 25
  <2>1. SegmentsInRange(t) /\ TotalBitTime(t) \in 8..25
    BY <1>1 DEF AcceptsTiming
  <2>2. t.prescaler \in 1..1024
    BY <2>1 DEF SegmentsInRange
  <2> HIDE DEF t
  <2>3. t.prescaler \in Nat /\ 1 <= t.prescaler /\ t.prescaler <= 1024
    BY <2>2
  <2>4. TotalBitTime(t) \in Nat /\ 1 <= TotalBitTime(t) /\ TotalBitTime(t) <= 25
    BY <2>1
  <2> QED BY <2>3, <2>4
<1>4. divisor \in Nat /\ 1 <= divisor /\ divisor <= 25600
  <2>1. t.prescaler * TotalBitTime(t) \in Nat /\ 1 <= t.prescaler * TotalBitTime(t)
        /\ t.prescaler * TotalBitTime(t) <= 1024 * 25
    BY <1>3, ProductBounds, SMT
  <2>2. 1024 * 25 = 25600
    BY SMT
  <2>3. BitRateDivisor(t) = t.prescaler * TotalBitTime(t)
    BY DEF BitRateDivisor
  <2> QED BY <2>1, <2>2, <2>3
<1> HIDE DEF t, clock, divisor
<1>5. (clock \div divisor # 0 /\ clock \div divisor <= 1000000)
        <=> (divisor <= clock /\ clock < (1000000 + 1) * divisor)
  BY <1>1, <1>4, QuotientBounds, SMT
<1>6. (1000000 + 1) * divisor = 1000001 * divisor /\ 1000001 * divisor \in Nat
  BY <1>4, SMT
<1>7. AcceptsConfig(config) <=> divisor <= clock /\ clock < 1000001 * divisor
  BY <1>1, <1>2, <1>4, <1>5, <1>6, SMT
<1> QED BY <1>4, <1>7 DEF t, clock, divisor

-----------------------------------------------------------------------------
(* Words of a message object *)

\* An identifier in the range of its format comes back from a received word as it was
\* written into one, whatever the three flag bits above it hold.
LEMMA IdentifierRoundTrip ==
  ASSUME NEW idType \in IdType, NEW identifier \in Nat, identifier <= IdLimit(idType),
         NEW flags \in 0..7
  PROVE  ReceivedIdentifier(idType, (flags * 536870912) + IdentifierField(idType, identifier))
           = identifier
<1> DEFINE word == (flags * 536870912) + IdentifierField(idType, identifier)
<1>1. CASE idType = "STANDARD"
  <2>1. identifier \in 0..2047
    BY <1>1, SMT DEF IdLimit
  <2>2. IdentifierField(idType, identifier) = identifier * 262144
    BY <1>1, <2>1, SMT DEF IdentifierField
  <2>3. word % 536870912 = identifier * 262144
    BY <2>1, <2>2, SMT
  <2>4. (identifier * 262144) \div 262144 = identifier
    BY <2>1, SMT
  <2> QED BY <1>1, <2>3, <2>4, SMT DEF ReceivedIdentifier
<1>2. CASE idType # "STANDARD"
  <2>1. identifier <= 536870911
    BY <1>2, SMT DEF IdLimit
  <2>2. IdentifierField(idType, identifier) = identifier
    BY <1>2, <2>1, SMT DEF IdentifierField
  <2>3. word % 536870912 = identifier
    BY <2>1, <2>2, SMT
  <2> QED BY <1>2, <2>3, SMT DEF ReceivedIdentifier
<1> QED BY <1>1, <1>2, SMT

\* Whatever the four validate functions accept for an object survives the conversion:
\* no identifier or filter mask is cut off by the shift and the field masks.
THEOREM AcceptedIdentifiersSurvive ==
  ASSUME NEW config, config.identifier \in Nat, config.filterMask \in Nat,
         NEW flags \in 0..7
  PROVE  LET Kept(n) == ReceivedIdentifier(config.idType,
                          (flags * 536870912) + IdentifierField(config.idType, n)) = n
         IN /\ AcceptsTx(config) \/ AcceptsRemoteRequest(config) => Kept(config.identifier)
            /\ AcceptsRx(config) \/ AcceptsRemoteResponse(config) =>
                 Kept(config.identifier) /\ Kept(config.filterMask)
<1>1. ASSUME AcceptsObject(config.mailboxObjIndex, config.idType, config.identifier)
      PROVE  config.idType \in IdType /\ config.identifier <= IdLimit(config.idType)
  BY <1>1, SMT DEF AcceptsObject
<1> QED
  BY <1>1, IdentifierRoundTrip, SMT
     DEF AcceptsTx, AcceptsRemoteRequest, AcceptsRx, AcceptsRemoteResponse

\* A word of four bytes, and a byte of a word.
Word(a, b, c, d) == (a * 1) + (b * 256) + (c * 65536) + (d * 16777216)
ByteOf(word, place) == (word \div place) % 256

LEMMA ByteOfWord ==
  ASSUME NEW a \in UInt8, NEW b \in UInt8, NEW c \in UInt8, NEW d \in UInt8
  PROVE  /\ ByteOf(Word(a, b, c, d), 1) = a
         /\ ByteOf(Word(a, b, c, d), 256) = b
         /\ ByteOf(Word(a, b, c, d), 65536) = c
         /\ ByteOf(Word(a, b, c, d), 16777216) = d
<1> DEFINE word == Word(a, b, c, d)
<1>1. word \div 1 = word /\ word % 256 = a
  BY SMT DEF Word, UInt8
<1>5. /\ (b + (c * 256) + (d * 65536)) % 256 = b
      /\ (c + (d * 256)) % 256 = c
      /\ d % 256 = d
  BY SMT DEF UInt8
<1>2. word \div 256 = b + (c * 256) + (d * 65536)
  BY SMT DEF Word, UInt8
<1>3. word \div 65536 = c + (d * 256)
  BY SMT DEF Word, UInt8
<1>4. word \div 16777216 = d
  BY SMT DEF Word, UInt8
<1> HIDE DEF word
<1>6. ByteOf(word, 1) = a /\ ByteOf(word, 256) = b
  BY <1>1, <1>2, <1>5 DEF ByteOf
<1>7. ByteOf(word, 65536) = c /\ ByteOf(word, 16777216) = d
  BY <1>3, <1>4, <1>5, SMT DEF ByteOf
<1> QED BY <1>6, <1>7, SMT DEF word

\* The payload of a frame comes back byte by byte, zeros past its length, from the two
\* data words it is sent in.
THEOREM PayloadRoundTrip ==
  ASSUME NEW dlc \in 0..8, NEW data \in [0..7 -> UInt8], NEW i \in 0..7
  PROVE  ReceivedByte(DataWord(data, dlc, 0), DataWord(data, dlc, 4), dlc, i)
           = SentByte(data, dlc, i)
<1>1. \A n \in 0..7 : SentByte(data, dlc, n) \in UInt8
  BY SMT DEF SentByte, UInt8
<1>2. BytePlace[1] = 1 /\ BytePlace[2] = 256 /\ BytePlace[3] = 65536 /\ BytePlace[4] = 16777216
  BY SMT DEF BytePlace
<1>3. ASSUME NEW first \in {0, 4}, NEW k \in 0..3
      PROVE  ByteOf(DataWord(data, dlc, first), BytePlace[k + 1])
               = SentByte(data, dlc, first + k)
  <2> DEFINE word == DataWord(data, dlc, first)
             S(n) == SentByte(data, dlc, first + n)
  <2>1. S(0) \in UInt8 /\ S(1) \in UInt8 /\ S(2) \in UInt8 /\ S(3) \in UInt8
    BY <1>1, <1>3, SMT
  <2>2. word = Word(S(0), S(1), S(2), S(3))
    BY <1>2, <1>3, SMT DEF DataWord, Word
  <2> HIDE DEF word, S
  <2>3. /\ ByteOf(word, 1) = S(0) /\ ByteOf(word, 256) = S(1)
        /\ ByteOf(word, 65536) = S(2) /\ ByteOf(word, 16777216) = S(3)
    BY <2>1, <2>2, ByteOfWord, SMT
  <2>4. ByteOf(word, BytePlace[k + 1]) = S(k)
    <3>1. CASE k = 0
      BY <1>2, <2>3, <3>1, SMT
    <3>2. CASE k = 1
      BY <1>2, <2>3, <3>2, SMT
    <3>3. CASE k = 2
      BY <1>2, <2>3, <3>3, SMT
    <3>4. CASE k = 3
      BY <1>2, <2>3, <3>4, SMT
    <3> QED BY <1>3, <3>1, <3>2, <3>3, <3>4, SMT
  <2> QED BY <2>4, SMT DEF word, S
<1>4. CASE i >= dlc
  BY <1>4, SMT DEF ReceivedByte, SentByte
<1>5. CASE i < dlc /\ i < 4
  BY <1>3, <1>5, SMT DEF ReceivedByte, ByteOf
<1>6. CASE i < dlc /\ i >= 4
  <2>1. ByteOf(DataWord(data, dlc, 4), BytePlace[(i - 4) + 1])
          = SentByte(data, dlc, 4 + (i - 4))
    BY <1>3, <1>6, SMT
  <2>2. (i - 4) + 1 = i - 3 /\ 4 + (i - 4) = i
    BY SMT
  <2> QED BY <1>6, <2>1, <2>2, SMT DEF ReceivedByte, ByteOf
<1> QED BY <1>4, <1>5, <1>6, SMT
==============================================================================
