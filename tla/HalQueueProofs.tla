--------------------------- MODULE HalQueueProofs ---------------------------
(* Machine-checked theorems about HalQueue, for every value of its constants. *)
EXTENDS HalQueue, FiniteSetTheorems, TLAPS

\* SIZE_MAX + 1, as the arithmetic below needs it.
LEMMA SeqModType == SeqMod \in Nat /\ SeqMod > 1
  BY QueueAssumption

-----------------------------------------------------------------------------
(* Arithmetic of the wrapping sequences and of the ring indices *)

\* The unsigned difference of two size_t sequences, without the modulus.
LEMMA CountIs ==
  ASSUME NEW w \in 0..(SeqMod - 1), NEW r \in 0..(SeqMod - 1)
  PROVE  CountOf(w, r) = IF w >= r THEN w - r ELSE w - r + SeqMod
  BY SeqModType DEF CountOf

\* The unsigned successor of a size_t sequence, without the modulus.
LEMMA SeqNextIs ==
  ASSUME NEW s \in 0..(SeqMod - 1)
  PROVE  SeqNext(s) = IF s + 1 = SeqMod THEN 0 ELSE s + 1
  BY SeqModType DEF SeqNext

\* A count that the wrapping subtraction yields fits in a size_t.
LEMMA CountRange ==
  ASSUME NEW w \in 0..(SeqMod - 1), NEW r \in 0..(SeqMod - 1)
  PROVE  CountOf(w, r) \in 0..(SeqMod - 1)
  BY CountIs, SeqModType

\* writeSequence++ adds one element, unless the count is already SIZE_MAX.
LEMMA PublishCounts ==
  ASSUME NEW w \in 0..(SeqMod - 1), NEW r \in 0..(SeqMod - 1),
         CountOf(w, r) + 1 < SeqMod
  PROVE  /\ SeqNext(w) \in 0..(SeqMod - 1)
         /\ CountOf(SeqNext(w), r) = CountOf(w, r) + 1
<1>1. SeqNext(w) \in 0..(SeqMod - 1)
  BY SeqNextIs, SeqModType
<1> QED
  BY <1>1, SeqNextIs, CountIs, SeqModType

\* readSequence++ removes one element, unless there is none.
LEMMA ReleaseCounts ==
  ASSUME NEW w \in 0..(SeqMod - 1), NEW r \in 0..(SeqMod - 1),
         CountOf(w, r) > 0
  PROVE  /\ SeqNext(r) \in 0..(SeqMod - 1)
         /\ CountOf(w, SeqNext(r)) = CountOf(w, r) - 1
<1>1. SeqNext(r) \in 0..(SeqMod - 1)
  BY SeqNextIs, SeqModType
<1>2. CountOf(w, SeqNext(r)) = IF w >= SeqNext(r) THEN w - SeqNext(r)
                                ELSE w - SeqNext(r) + SeqMod
  BY <1>1, CountIs
<1>3. CountOf(w, r) = IF w >= r THEN w - r ELSE w - r + SeqMod
  BY CountIs
<1>4. SeqNext(r) = IF r + 1 = SeqMod THEN 0 ELSE r + 1
  BY SeqNextIs
<1> QED
  BY <1>1, <1>2, <1>3, <1>4, SeqModType

\* HAL_QUEUE_init accepts no capacity that a size_t count cannot represent.
LEMMA AcceptedFits ==
  ASSUME NEW cap \in Nat, AcceptsCapacity(cap)
  PROVE  cap > 0 /\ cap < SeqMod
<1>1. ElementSize \in Nat \ {0}
  BY QueueAssumption, FS_CardinalityType, FS_EmptySet DEF ElementSize
<1>2. (SeqMod - 1) \div ElementSize <= SeqMod - 1
  BY <1>1, SeqModType
<1> QED
  BY <1>1, <1>2, SeqModType DEF AcceptsCapacity

-----------------------------------------------------------------------------
(* The inductive invariant *)

IInv == TypeOK /\ RingConsistent

LEMMA InitInv == Init => IInv
<1> SUFFICES ASSUME Init PROVE IInv
  OBVIOUS
<1> USE QueueAssumption, SeqModType DEF Init
<1>1. TypeOK
  BY DEF TypeOK, ProducerPc, ConsumerPc, Status
<1>2. RingConsistent
  BY DEF RingConsistent, ProducerOwnsSlot, ConsumerOwnsSlot
<1> QED
  BY <1>1, <1>2 DEF IInv

\* Setup runs while both contexts are outside the queue.
LEMMA SetupInv ==
  ASSUME IInv, (\E cap \in 0..MaxCapacity : InitQueue(cap)) \/ ClearQueue
  PROVE  IInv'
<1> USE QueueAssumption, SeqModType DEF IInv
<1>1. ASSUME NEW cap \in 0..MaxCapacity, InitQueue(cap) PROVE IInv'
  <2>1. CASE AcceptsCapacity(cap)
    <3>1. cap \in 1..MaxCapacity /\ cap < SeqMod
      BY <2>1, AcceptedFits
    <3>2. TypeOK'
      BY <1>1, <2>1, <3>1 DEF InitQueue, EmptyRing, TypeOK, ProducerPc, ConsumerPc, Status
    <3>3. Count' = 0
      BY <1>1, <2>1, CountIs DEF InitQueue, EmptyRing, Count
    <3>4. RingConsistent'
      BY <1>1, <2>1, <3>1, <3>3 DEF InitQueue, Stopped, EmptyRing, RingConsistent,
         FirstSlot, FreeSlot, ProducerOwnsSlot, ConsumerOwnsSlot
    <3> QED
      BY <3>2, <3>4
  <2>2. CASE ~AcceptsCapacity(cap)
    BY <1>1, <2>2 DEF InitQueue, queueVars, consumerVars, TypeOK, Status, RingConsistent,
       Count, FirstSlot, FreeSlot, Prev, ProducerOwnsSlot, ConsumerOwnsSlot
  <2> QED
    BY <2>1, <2>2
<1>2. ASSUME ClearQueue PROVE IInv'
  <2>1. CASE ValidIndices /\ Count <= capacity
    <3>1. TypeOK'
      BY <1>2, <2>1 DEF ClearQueue, EmptyRing, TypeOK, Status
    <3>2. Count' = 0
      BY <1>2, <2>1, CountIs DEF ClearQueue, EmptyRing, Count
    <3>3. RingConsistent'
      BY <1>2, <2>1, <3>2 DEF ClearQueue, Stopped, EmptyRing, TypeOK, RingConsistent,
         FirstSlot, FreeSlot, ProducerOwnsSlot, ConsumerOwnsSlot
    <3> QED
      BY <3>1, <3>3
  <2>2. CASE ~(ValidIndices /\ Count <= capacity)
    BY <1>2, <2>2 DEF ClearQueue, queueVars, consumerVars, TypeOK, Status, RingConsistent,
       Count, FirstSlot, FreeSlot, Prev, ProducerOwnsSlot, ConsumerOwnsSlot
  <2> QED
    BY <2>1, <2>2
<1> QED
  BY <1>1, <1>2

\* Before it owns a slot, and while it fills one, the producer changes no
\* index and no sequence.
LEMMA ProducerReadsInv ==
  ASSUME IInv,
         \/ PushNull \/ (\E e \in Payload : PushCall(e)) \/ ProducerQuery
         \/ ProducerIndices \/ ProducerCount \/ ProducerAnswer \/ PushFull
         \/ (\E u \in Unit : PushCopy(u))
  PROVE  IInv'
<1> USE QueueAssumption, SeqModType DEF IInv
<1>1. UNCHANGED <<queueVars, cPc, cOp, cElem, cDone, cStatus, cReady, delivered>>
  BY DEF PushNull, PushCall, ProducerQuery, ProducerIndices, ProducerCount,
     ProducerAnswer, PushFull, IsFull, PushCopy, consumerVars
<1>2. Count' = Count
  BY <1>1 DEF queueVars, Count
<1>3. Count \in 0..(SeqMod - 1)
  BY CountRange DEF TypeOK, Count
<1>4. TypeOK'
  <2>1. ASSUME NEW e \in Payload, PushCall(e) PROVE TypeOK'
    BY <1>1, <2>1 DEF PushCall, queueVars, TypeOK, ProducerPc, Status
  <2>2. ASSUME NEW u \in Unit, PushCopy(u) PROVE TypeOK'
    <3>1. pElem[u] \in UnitValue
      BY <2>2 DEF TypeOK, Element
    <3>2. storage' \in [0..(MaxCapacity - 1) -> Element]
      BY <2>2, <3>1 DEF PushCopy, TypeOK, Element
    <3> QED
      BY <1>1, <2>2, <3>2 DEF PushCopy, queueVars, TypeOK, ProducerPc, Status
  <2>3. CASE ProducerAnswer
    <3>1. capacity - Count \in Nat
      BY <2>3, <1>3 DEF ProducerAnswer, RingConsistent, TypeOK
    <3> QED
      BY <1>1, <2>3, <3>1 DEF ProducerAnswer, ProducerReturns, queueVars, TypeOK,
         ProducerPc, Status
  <2>4. CASE PushNull \/ ProducerQuery \/ ProducerIndices \/ ProducerCount \/ PushFull
    BY <1>1, <2>4 DEF PushNull, ProducerQuery, ProducerIndices, ProducerCount, PushFull,
       ProducerReturns, queueVars, TypeOK, ProducerPc, Status
  <2> QED
    BY <2>1, <2>2, <2>3, <2>4
<1>5. RingConsistent'
  <2>1. FirstSlot' = FirstSlot
    BY <1>1 DEF queueVars, FirstSlot, Prev
  <2>2. pPc # "publish" /\ pPc' # "publish"
    BY DEF PushNull, PushCall, ProducerQuery, ProducerIndices, ProducerCount,
       ProducerAnswer, PushFull, IsFull, PushCopy, ProducerReturns
  <2>3. FreeSlot' = FreeSlot
    BY <1>1, <2>2 DEF queueVars, FreeSlot
  <2>4. ProducerOwnsSlot' => state = "READY" /\ Count < capacity
    BY <1>3 DEF PushNull, PushCall, ProducerQuery, ProducerIndices, ProducerCount,
       ProducerAnswer, PushFull, IsFull, PushCopy, ProducerReturns, ProducerOwnsSlot,
       RingConsistent, TypeOK
  <2>5. pPc' \in {"count", "snapshot"} => state = "READY"
    BY DEF PushNull, PushCall, ProducerQuery, ProducerIndices, ProducerCount,
       ProducerAnswer, PushFull, IsFull, PushCopy, ProducerReturns, RingConsistent,
       ValidIndices
  <2> QED
    BY <1>1, <1>2, <2>1, <2>3, <2>4, <2>5 DEF queueVars, RingConsistent, ConsumerOwnsSlot
<1> QED
  BY <1>4, <1>5

\* The producer's index moves first, then its sequence.
LEMMA ProducerMovesInv ==
  ASSUME IInv, PushAdvance \/ PushPublish
  PROVE  IInv'
<1> USE QueueAssumption, SeqModType DEF IInv
<1>1. Count \in 0..(SeqMod - 1)
  BY CountRange DEF TypeOK, Count
<1>2. CASE PushAdvance
  <2>1. Count' = Count
    BY <1>2 DEF PushAdvance, Count
  <2>2. /\ writeIndex' \in Nat /\ writeIndex' < capacity
        /\ FreeSlot' = writeIndex /\ FreeSlot = writeIndex
    BY <1>2, <1>1 DEF PushAdvance, AdvanceIndex, FreeSlot, Prev, TypeOK, RingConsistent,
       ProducerOwnsSlot
  <2>3. TypeOK'
    BY <1>2, <2>2 DEF PushAdvance, consumerVars, TypeOK, ProducerPc
  <2>4. FirstSlot' = FirstSlot
    BY <1>2 DEF PushAdvance, consumerVars, FirstSlot, Prev
  <2>5. RingConsistent'
    BY <1>2, <2>1, <2>2, <2>4 DEF PushAdvance, consumerVars, RingConsistent,
       ProducerOwnsSlot, ConsumerOwnsSlot
  <2> QED
    BY <2>3, <2>5
<1>3. CASE PushPublish
  <2>1. /\ state = "READY" /\ Count < capacity /\ capacity < SeqMod
        /\ capacity \in Nat
    BY <1>3 DEF PushPublish, RingConsistent, ProducerOwnsSlot, TypeOK
  <2>2. writeSequence' \in 0..(SeqMod - 1) /\ Count' = Count + 1
    BY <1>3, <2>1, <1>1, PublishCounts DEF PushPublish, Count, TypeOK
  <2>3. TypeOK'
    BY <1>3, <2>2 DEF PushPublish, ProducerReturns, consumerVars, TypeOK, ProducerPc, Status
  <2>4. FirstSlot' = FirstSlot
    BY <1>3 DEF PushPublish, consumerVars, FirstSlot, Prev
  <2>5. FreeSlot' - FirstSlot' \in {Count', Count' - capacity'}
    <3>1. FreeSlot = Prev(writeIndex) /\ FreeSlot' = writeIndex /\ capacity' = capacity
      BY <1>3 DEF PushPublish, ProducerReturns, FreeSlot
    <3>2. FirstSlot \in 0..(capacity - 1)
      BY <2>1 DEF FirstSlot, Prev, RingConsistent, TypeOK
    <3> QED
      BY <1>1, <2>1, <2>2, <2>4, <3>1, <3>2 DEF Prev, RingConsistent, TypeOK
  <2>6. RingConsistent'
    BY <1>3, <1>1, <2>1, <2>2, <2>5 DEF PushPublish, ProducerReturns, consumerVars,
       RingConsistent, ProducerOwnsSlot, ConsumerOwnsSlot
  <2> QED
    BY <2>3, <2>6
<1> QED
  BY <1>2, <1>3

\* Before it owns a slot, and while it copies one, the consumer changes no
\* index and no sequence.
LEMMA ConsumerReadsInv ==
  ASSUME IInv,
         \/ PopNull \/ (\E op \in {"pop", "peek", "query"} : PopCall(op))
         \/ ConsumerIndices \/ ConsumerCount \/ ConsumerAnswer \/ PopEmpty
         \/ (\E u \in Unit : PopCopy(u))
  PROVE  IInv'
<1> USE QueueAssumption, SeqModType DEF IInv
<1>1. UNCHANGED <<queueVars, storage, pPc, pOp, pElem, pDone, pStatus, pRoom>>
  BY DEF PopNull, PopCall, ConsumerIndices, ConsumerCount, ConsumerAnswer, PopEmpty,
     IsEmpty, PopCopy, producerVars
<1>2. Count' = Count
  BY <1>1 DEF queueVars, Count
<1>3. Count \in 0..(SeqMod - 1)
  BY CountRange DEF TypeOK, Count
<1>4. TypeOK'
  <2>1. ASSUME NEW u \in Unit, PopCopy(u) PROVE TypeOK'
    <3>1. readIndex \in 0..(MaxCapacity - 1)
      BY <2>1 DEF PopCopy, TypeOK, RingConsistent, ConsumerOwnsSlot
    <3>2. storage[readIndex][u] \in UnitValue
      BY <3>1 DEF TypeOK, Element
    <3>3. cElem' \in Element
      BY <2>1, <3>2 DEF PopCopy, TypeOK, Element
    <3>4. delivered' \in Element /\ cDone' \subseteq Unit
      BY <2>1, <3>3 DEF PopCopy, TypeOK
    <3>5. cPc' \in ConsumerPc /\ cStatus' \in Status
      BY <2>1 DEF PopCopy, ConsumerReturns, TypeOK, ConsumerPc, Status
    <3> QED
      BY <1>1, <2>1, <3>3, <3>4, <3>5 DEF PopCopy, queueVars, TypeOK
  <2>2. CASE \/ PopNull \/ (\E op \in {"pop", "peek", "query"} : PopCall(op))
             \/ ConsumerIndices \/ ConsumerCount \/ ConsumerAnswer \/ PopEmpty
    BY <1>1, <1>3, <2>2 DEF PopNull, PopCall, ConsumerIndices, ConsumerCount,
       ConsumerAnswer, PopEmpty, IsEmpty, ConsumerReturns, queueVars, TypeOK, ConsumerPc, Status
  <2> QED
    BY <2>1, <2>2
<1>5. RingConsistent'
  <2>1. FreeSlot' = FreeSlot
    BY <1>1 DEF queueVars, FreeSlot, Prev
  <2>2. cPc # "release" /\ cPc' # "release"
    BY DEF PopNull, PopCall, ConsumerIndices, ConsumerCount, ConsumerAnswer, PopEmpty,
       IsEmpty, PopCopy, ConsumerReturns
  <2>3. FirstSlot' = FirstSlot
    BY <1>1, <2>2 DEF queueVars, FirstSlot
  <2>4. ConsumerOwnsSlot' => state = "READY" /\ Count > 0
    <3>1. CASE PopEmpty
      BY <1>3, <3>1 DEF PopEmpty, IsEmpty, ConsumerReturns, ConsumerOwnsSlot, RingConsistent
    <3>2. CASE ~PopEmpty
      BY <3>2 DEF PopNull, PopCall, ConsumerIndices, ConsumerCount, ConsumerAnswer,
         PopCopy, ConsumerReturns, ConsumerOwnsSlot, RingConsistent
    <3> QED
      BY <3>1, <3>2
  <2>5. cPc' \in {"count", "snapshot"} => state = "READY"
    BY DEF PopNull, PopCall, ConsumerIndices, ConsumerCount, ConsumerAnswer, PopEmpty,
       IsEmpty, PopCopy, ConsumerReturns, RingConsistent, ValidIndices
  <2> QED
    BY <1>1, <1>2, <2>1, <2>3, <2>4, <2>5 DEF queueVars, RingConsistent, ProducerOwnsSlot
<1> QED
  BY <1>4, <1>5

\* The consumer's index moves first, then its sequence.
LEMMA ConsumerMovesInv ==
  ASSUME IInv, PopAdvance \/ PopRelease
  PROVE  IInv'
<1> USE QueueAssumption, SeqModType DEF IInv
<1>1. Count \in 0..(SeqMod - 1)
  BY CountRange DEF TypeOK, Count
<1>2. CASE PopAdvance
  <2>1. Count' = Count
    BY <1>2 DEF PopAdvance, Count
  <2>2. /\ readIndex' \in Nat /\ readIndex' < capacity
        /\ FirstSlot' = readIndex /\ FirstSlot = readIndex
    BY <1>2, <1>1 DEF PopAdvance, AdvanceIndex, FirstSlot, Prev, TypeOK, RingConsistent,
       ConsumerOwnsSlot
  <2>3. TypeOK'
    BY <1>2, <2>2 DEF PopAdvance, producerVars, TypeOK, ConsumerPc
  <2>4. FreeSlot' = FreeSlot
    BY <1>2 DEF PopAdvance, producerVars, FreeSlot, Prev
  <2>5. RingConsistent'
    BY <1>2, <2>1, <2>2, <2>4 DEF PopAdvance, producerVars, RingConsistent,
       ProducerOwnsSlot, ConsumerOwnsSlot
  <2> QED
    BY <2>3, <2>5
<1>3. CASE PopRelease
  <2>1. /\ state = "READY" /\ Count > 0 /\ Count <= capacity
        /\ capacity \in Nat
    BY <1>3 DEF PopRelease, RingConsistent, ConsumerOwnsSlot, TypeOK
  <2>2. readSequence' \in 0..(SeqMod - 1) /\ Count' = Count - 1
    BY <1>3, <2>1, <1>1, ReleaseCounts DEF PopRelease, Count, TypeOK
  <2>3. TypeOK'
    BY <1>3, <2>2 DEF PopRelease, ConsumerReturns, producerVars, TypeOK, ConsumerPc, Status
  <2>4. FreeSlot' = FreeSlot
    BY <1>3 DEF PopRelease, producerVars, FreeSlot, Prev
  <2>5. FreeSlot' - FirstSlot' \in {Count', Count' - capacity'}
    <3>1. FirstSlot = Prev(readIndex) /\ FirstSlot' = readIndex /\ capacity' = capacity
      BY <1>3 DEF PopRelease, ConsumerReturns, FirstSlot
    <3>2. FreeSlot \in 0..(capacity - 1)
      BY <2>1 DEF FreeSlot, Prev, RingConsistent, TypeOK
    <3> QED
      BY <1>1, <2>1, <2>2, <2>4, <3>1, <3>2 DEF Prev, RingConsistent, TypeOK
  <2>6. RingConsistent'
    BY <1>3, <1>1, <2>1, <2>2, <2>5 DEF PopRelease, ConsumerReturns, producerVars,
       RingConsistent, ProducerOwnsSlot, ConsumerOwnsSlot
  <2> QED
    BY <2>3, <2>6
<1> QED
  BY <1>2, <1>3

LEMMA NextInv == IInv /\ [Next]_vars => IInv'
<1> SUFFICES ASSUME IInv, [Next]_vars PROVE IInv'
  OBVIOUS
<1>1. CASE UNCHANGED vars
  BY <1>1 DEF vars, queueVars, producerVars, consumerVars, IInv, TypeOK, RingConsistent,
     Count, FirstSlot, FreeSlot, Prev, ProducerOwnsSlot, ConsumerOwnsSlot
<1>2. CASE Next
  BY <1>2, SetupInv, ProducerReadsInv, ProducerMovesInv, ConsumerReadsInv,
     ConsumerMovesInv DEF Next, ProducerStep, ConsumerStep
<1> QED
  BY <1>1, <1>2

LEMMA Invariance == Spec => []IInv
  BY InitInv, NextInv, PTL DEF Spec

-----------------------------------------------------------------------------
(* The theorems *)

\* Every field of the queue object and every local of a call in progress keeps
\* its type; in particular no push writes, and no pop reads, outside storage.
THEOREM TypeCorrect == Spec => []TypeOK
  BY Invariance, PTL DEF IInv

\* The ring indices agree with the wrapping sequences at every step of every
\* push and pop, for every accepted capacity and every width of size_t.
THEOREM RingCorrect == Spec => []RingConsistent
  BY Invariance, PTL DEF IInv

\* No call on an initialised queue is refused because the other context is in
\* the middle of an update.
THEOREM AlwaysValid == Spec => []ValidationPasses
<1>1. IInv => ValidationPasses
  BY DEF IInv, TypeOK, RingConsistent, ValidationPasses, ValidIndices
<1> QED
  BY <1>1, Invariance, PTL

\* push() never fills the slot that pop() or peek() is copying from.
THEOREM SlotsAreExclusive == Spec => []SlotExclusion
<1>1. IInv => SlotExclusion
  <2> SUFFICES ASSUME IInv, pPc \in {"copy", "advance"}, cPc \in {"copy", "advance"}
               PROVE  writeIndex # readIndex
    BY DEF SlotExclusion
  <2>1. Count \in 0..(SeqMod - 1)
    BY CountRange DEF IInv, TypeOK, Count
  <2>2. Count > 0 /\ Count < capacity /\ capacity \in Nat /\ state = "READY"
    BY DEF IInv, TypeOK, RingConsistent, ProducerOwnsSlot, ConsumerOwnsSlot
  <2>3. writeIndex - readIndex \in {Count, Count - capacity}
    BY <2>2 DEF IInv, RingConsistent, FirstSlot, FreeSlot
  <2> QED
    BY <2>1, <2>2, <2>3 DEF IInv, TypeOK
<1> QED
  BY <1>1, Invariance, PTL

\* What an occupancy query reported to one context still holds, whatever the
\* other context did since.
THEOREM QueriesHold == Spec => []QueriesAreConservative
<1>1. Init => QueriesAreConservative
  BY CountIs, SeqModType DEF Init, QueriesAreConservative, Count
<1>2. IInv /\ QueriesAreConservative /\ [Next]_vars => QueriesAreConservative'
  <2> SUFFICES ASSUME IInv, QueriesAreConservative, [Next]_vars
               PROVE  QueriesAreConservative'
    OBVIOUS
  <2>1. Count \in 0..(SeqMod - 1) /\ capacity \in Nat /\ pRoom \in Nat /\ cReady \in Nat
    BY CountRange DEF IInv, TypeOK, Count
  <2>2. CASE \/ UNCHANGED <<queueVars, pRoom, cReady>>
             \/ PushAdvance \/ PopAdvance
    BY <2>1, <2>2 DEF queueVars, consumerVars, producerVars, PushAdvance, PopAdvance,
       QueriesAreConservative, Count
  <2>3. CASE EmptyRing /\ capacity' \in Nat
    <3>1. Count' = 0
      BY <2>3, CountIs, SeqModType DEF EmptyRing, Count
    <3>2. pRoom' = 0 /\ cReady' = 0 /\ capacity' \in Nat
      BY <2>3 DEF EmptyRing
    <3>3. \A n \in Nat : 0 <= n - 0
      OBVIOUS
    <3>4. pRoom' <= capacity' - Count'
      BY <3>1, <3>2, <3>3
    <3>5. cReady' <= Count'
      BY <3>1, <3>2
    <3> QED
      BY <3>4, <3>5 DEF QueriesAreConservative
  <2>4. CASE ProducerAnswer \/ ConsumerAnswer
    BY <2>1, <2>4 DEF ProducerAnswer, ConsumerAnswer, queueVars, consumerVars,
       producerVars, QueriesAreConservative, Count
  <2>5. CASE PushPublish
    <3>1. Count < capacity /\ capacity < SeqMod
      BY <2>5 DEF PushPublish, IInv, RingConsistent, ProducerOwnsSlot
    <3>2. Count' = Count + 1
      BY <2>1, <2>5, <3>1, PublishCounts, SeqModType
      DEF PushPublish, Count, IInv, TypeOK
    <3> QED
      BY <2>1, <2>5, <3>1, <3>2 DEF PushPublish, consumerVars, QueriesAreConservative
  <2>6. CASE PopRelease
    <3>1. Count > 0
      BY <2>6 DEF PopRelease, IInv, RingConsistent, ConsumerOwnsSlot
    <3>2. Count' = Count - 1
      BY <2>6, <3>1, ReleaseCounts DEF PopRelease, Count, IInv, TypeOK
    <3> QED
      BY <2>1, <2>6, <3>1, <3>2 DEF PopRelease, producerVars, QueriesAreConservative
  <2>7. \/ UNCHANGED <<queueVars, pRoom, cReady>> \/ PushAdvance \/ PopAdvance
        \/ EmptyRing /\ capacity' \in Nat
        \/ ProducerAnswer \/ ConsumerAnswer \/ PushPublish \/ PopRelease
    <3>1. ASSUME NEW cap \in 0..MaxCapacity, InitQueue(cap)
          PROVE  \/ EmptyRing /\ capacity' \in Nat
                 \/ UNCHANGED <<queueVars, pRoom, cReady>>
      BY <3>1, QueueAssumption DEF InitQueue, consumerVars, queueVars
    <3>2. CASE ClearQueue
      BY <2>1, <3>2 DEF ClearQueue, queueVars, consumerVars
    <3>3. CASE ProducerStep \/ ConsumerStep \/ UNCHANGED vars
      BY <3>3 DEF ProducerStep, ConsumerStep, vars, producerVars, consumerVars,
         ProducerIndices, ProducerCount, PushFull, IsFull, PushCopy,
         ConsumerIndices, ConsumerCount, PopEmpty, IsEmpty, PopCopy
    <3> QED
      BY <3>1, <3>2, <3>3 DEF Next, PushNull, PushCall, ProducerQuery, PopNull, PopCall,
         producerVars, consumerVars
  <2> QED
    BY <2>2, <2>3, <2>4, <2>5, <2>6, <2>7
<1> QED
  BY <1>1, <1>2, Invariance, PTL DEF Spec

====
