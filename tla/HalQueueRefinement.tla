-------------------------- MODULE HalQueueRefinement --------------------------
(***************************************************************************)
(* HalQueue implements BoundedFifo, for every value of its constants.      *)
(***************************************************************************)
EXTENDS HalQueueProofs, SequenceTheorems

-----------------------------------------------------------------------------
(* The invariant that the refinement needs besides IInv *)

\* A call has no result while it runs, and owns a slot only for the operation that
\* moves an element; before the first initialisation there is no capacity.
CallInv ==
  /\ pPc # "idle" <=> pStatus = "PENDING"
  /\ cPc # "idle" <=> cStatus = "PENDING"
  /\ ProducerOwnsSlot => pOp = "push"
  /\ ConsumerOwnsSlot => cOp \in {"pop", "peek"}
  /\ cPc \in {"advance", "release"} => cOp = "pop"
  /\ state = "UNINITIALIZED" => capacity = 0 /\ readSequence = 0 /\ writeSequence = 0

\* The units copied so far are those of the element, and a copy that is complete
\* stays so until its sequence is published.
PushInv ==
  /\ ~ProducerOwnsSlot => pDone = {}
  /\ pPc = "copy" => \A u \in pDone : storage[writeIndex][u] = pElem[u]
  /\ pPc \in {"advance", "publish"} => storage[FreeSlot] = pElem
PopInv ==
  /\ cPc # "copy" => cDone = {}
  /\ cPc = "copy" => \A u \in cDone : cElem[u] = storage[readIndex][u]
  /\ cPc \in {"advance", "release"} => cElem = storage[FirstSlot]

FifoInv == IInv /\ CallInv /\ PushInv /\ PopInv

-----------------------------------------------------------------------------
(* The slots of the ring *)

\* Adding at most one round to an index, without the modulus.
LEMMA RingIndex ==
  ASSUME NEW c \in Nat, NEW a \in 0..(c - 1), NEW k \in 0..c
  PROVE  (a + k) % c = IF a + k < c THEN a + k ELSE a + k - c
  OBVIOUS

\* The slot of the k-th element.
Slot(k) == (FirstSlot + k - 1) % capacity

LEMMA SlotRange ==
  ASSUME IInv, state = "READY"
  PROVE  /\ capacity \in Nat /\ capacity > 0 /\ capacity < SeqMod /\ capacity <= MaxCapacity
         /\ FirstSlot \in 0..(capacity - 1) /\ FreeSlot \in 0..(capacity - 1)
         /\ Count \in 0..capacity
         /\ FreeSlot - FirstSlot \in {Count, Count - capacity}
<1>1. Count \in 0..(SeqMod - 1)
  BY CountRange DEF IInv, TypeOK, Count
<1>2. /\ capacity \in 1..MaxCapacity /\ capacity < SeqMod /\ Count <= capacity
      /\ readIndex < capacity /\ writeIndex < capacity
      /\ readIndex \in Nat /\ writeIndex \in Nat
      /\ FreeSlot - FirstSlot \in {Count, Count - capacity}
  BY DEF IInv, TypeOK, RingConsistent
<1>3. MaxCapacity \in Nat
  BY QueueAssumption
<1>4. Prev(readIndex) \in 0..(capacity - 1) /\ Prev(writeIndex) \in 0..(capacity - 1)
  BY <1>2, <1>3 DEF Prev
<1>5. FirstSlot \in 0..(capacity - 1) /\ FreeSlot \in 0..(capacity - 1)
  BY <1>2, <1>3, <1>4 DEF FirstSlot, FreeSlot
<1> QED
  BY <1>1, <1>2, <1>3, <1>5

\* The elements lie one after the other from the first slot, and the free slot is
\* not among them unless the ring is full.
LEMMA SlotIs ==
  ASSUME IInv, state = "READY", NEW k \in 1..Count
  PROVE  /\ Slot(k) = IF FirstSlot + k - 1 < capacity THEN FirstSlot + k - 1
                      ELSE FirstSlot + k - 1 - capacity
         /\ Slot(k) \in 0..(capacity - 1)
         /\ Count < capacity => Slot(k) # FreeSlot
<1>1. k \in Nat /\ k - 1 \in 0..capacity /\ FirstSlot + k - 1 = FirstSlot + (k - 1)
  BY SlotRange
<1>2. Slot(k) = IF FirstSlot + k - 1 < capacity THEN FirstSlot + k - 1
                ELSE FirstSlot + k - 1 - capacity
  BY <1>1, SlotRange, RingIndex DEF Slot
<1> QED
  BY <1>1, <1>2, SlotRange

LEMMA CountEmpty ==
  ASSUME IInv, CallInv, state # "READY"
  PROVE  Count = 0 /\ capacity = 0
  BY CountIs, SeqModType DEF IInv, TypeOK, CallInv, Count

LEMMA CountNat ==
  ASSUME IInv
  PROVE  Count \in Nat /\ capacity \in Nat
  BY CountRange, SeqModType, QueueAssumption DEF IInv, TypeOK, Count

\* The mapped queue is a sequence of elements.
LEMMA ContentsIsSeq ==
  ASSUME IInv, CallInv
  PROVE  /\ Contents \in Seq(Element) /\ Len(Contents) = Count
         /\ \A k \in 1..Count : Contents[k] = storage[Slot(k)]
         /\ Contents = <<>> <=> Count = 0
<1>1. Count \in Nat
  BY CountNat
<1>2. \A k \in 1..Count : storage[Slot(k)] \in Element
  <2>1. CASE state = "READY"
    <3>1. \A k \in 1..Count : Slot(k) \in 0..(MaxCapacity - 1)
      BY <2>1, SlotIs, SlotRange, QueueAssumption
    <3> QED BY <3>1 DEF IInv, TypeOK
  <2>2. CASE state # "READY"
    BY <2>2, CountEmpty
  <2> QED BY <2>1, <2>2
<1>3. Contents = [k \in 1..Count |-> storage[Slot(k)]]
  BY DEF Contents, Slot
<1>4. Contents \in Seq(Element) /\ Len(Contents) = Count
  BY <1>1, <1>2, <1>3
<1> QED
  BY <1>1, <1>3, <1>4

\* An empty ring is the empty sequence.
LEMMA Emptied ==
  ASSUME Count' = 0
  PROVE  Contents' = <<>>
  BY DEF Contents

-----------------------------------------------------------------------------
(* The invariant is inductive *)

LEMMA InitCalls == Init => CallInv /\ PushInv /\ PopInv
  BY DEF Init, CallInv, PushInv, PopInv, ProducerOwnsSlot, ConsumerOwnsSlot

LEMMA CallStep == IInv /\ CallInv /\ [Next]_vars => CallInv'
<1> SUFFICES ASSUME IInv, CallInv, [Next]_vars PROVE CallInv'
  OBVIOUS
<1> USE DEF CallInv, ProducerOwnsSlot, ConsumerOwnsSlot
<1>1. CASE (\E cap \in 0..MaxCapacity : InitQueue(cap)) \/ ClearQueue
  BY <1>1 DEF InitQueue, ClearQueue, EmptyRing, Stopped, ValidIndices, queueVars, consumerVars
<1>2. CASE PushNull \/ (\E e \in Payload : PushCall(e)) \/ ProducerQuery
  BY <1>2 DEF PushNull, PushCall, ProducerQuery, ProducerReturns, queueVars, consumerVars
<1>3. CASE ProducerIndices \/ ProducerCount \/ ProducerAnswer \/ PushFull
  BY <1>3 DEF ProducerIndices, ProducerCount, ProducerAnswer, PushFull, IsFull,
     ProducerReturns, queueVars, consumerVars
<1>4. CASE (\E u \in Unit : PushCopy(u)) \/ PushAdvance
  BY <1>4 DEF PushCopy, PushAdvance, queueVars, consumerVars
<1>5. CASE PushPublish
  BY <1>5 DEF PushPublish, ProducerReturns, consumerVars, IInv, RingConsistent
<1>6. CASE PopNull \/ (\E op \in {"pop", "peek", "query"} : PopCall(op))
  BY <1>6 DEF PopNull, PopCall, ConsumerReturns, queueVars, producerVars
<1>7. CASE ConsumerIndices \/ ConsumerCount \/ ConsumerAnswer \/ PopEmpty
  BY <1>7 DEF ConsumerIndices, ConsumerCount, ConsumerAnswer, PopEmpty, IsEmpty,
     ConsumerReturns, queueVars, producerVars, IInv, TypeOK
<1>8. CASE (\E u \in Unit : PopCopy(u)) \/ PopAdvance
  BY <1>8 DEF PopCopy, PopAdvance, ConsumerReturns, queueVars, producerVars
<1>9. CASE PopRelease
  BY <1>9 DEF PopRelease, ConsumerReturns, producerVars, IInv, RingConsistent
<1>10. CASE UNCHANGED vars
  BY <1>10 DEF vars, queueVars, producerVars, consumerVars
<1> QED
  BY <1>1, <1>2, <1>3, <1>4, <1>5, <1>6, <1>7, <1>8, <1>9, <1>10
     DEF Next, ProducerStep, ConsumerStep

LEMMA PushKept ==
  ASSUME PushInv, UNCHANGED <<capacity, writeIndex, storage, pPc, pElem, pDone>>
  PROVE  PushInv'
  BY DEF PushInv, ProducerOwnsSlot, FreeSlot, Prev

LEMMA PopKept ==
  ASSUME PopInv, UNCHANGED <<capacity, readIndex, storage, cPc, cElem, cDone>>
  PROVE  PopInv'
  BY DEF PopInv, FirstSlot, Prev

LEMMA IdleKept ==
  ASSUME PushInv, PopInv, Stopped, UNCHANGED <<pPc, pDone, cPc, cDone>>
  PROVE  PushInv' /\ PopInv'
  BY DEF PushInv, PopInv, Stopped, ProducerOwnsSlot

\* The two contexts never own the same slot.
LEMMA SlotsDiffer ==
  ASSUME IInv, ProducerOwnsSlot, ConsumerOwnsSlot
  PROVE  FreeSlot # FirstSlot
<1>1. state = "READY" /\ Count < capacity /\ Count > 0
  BY DEF IInv, RingConsistent
<1> QED
  BY <1>1, SlotRange

\* An advance leaves the slot it ends.
LEMMA AdvanceKeepsSlot ==
  ASSUME IInv
  PROVE  /\ PushAdvance => FreeSlot' = writeIndex /\ FreeSlot = writeIndex
         /\ PopAdvance => FirstSlot' = readIndex /\ FirstSlot = readIndex
<1>1. Count \in Nat
  BY CountNat
<1>2. ASSUME PushAdvance PROVE FreeSlot' = writeIndex /\ FreeSlot = writeIndex
  BY <1>1, <1>2, QueueAssumption DEF IInv, PushAdvance, AdvanceIndex, FreeSlot, Prev, TypeOK,
     RingConsistent, ProducerOwnsSlot
<1>3. ASSUME PopAdvance PROVE FirstSlot' = readIndex /\ FirstSlot = readIndex
  BY <1>1, <1>3, QueueAssumption DEF IInv, PopAdvance, AdvanceIndex, FirstSlot, Prev, TypeOK,
     RingConsistent, ConsumerOwnsSlot
<1> QED
  BY <1>2, <1>3

\* One unit of the element reaches the free slot, and no other slot.
LEMMA PushCopyStores ==
  ASSUME IInv, NEW u \in Unit, PushCopy(u)
  PROVE  /\ writeIndex = FreeSlot /\ FreeSlot \in 0..(MaxCapacity - 1)
         /\ \A v \in Unit : storage'[writeIndex][v] = IF v = u THEN pElem[u]
                                                      ELSE storage[writeIndex][v]
         /\ \A i \in 0..(MaxCapacity - 1) : i # FreeSlot => storage'[i] = storage[i]
<1>1. writeIndex = FreeSlot
  BY DEF PushCopy, FreeSlot
<1>2. state = "READY"
  BY DEF IInv, RingConsistent, PushCopy, ProducerOwnsSlot
<1>3. FreeSlot \in 0..(MaxCapacity - 1)
  BY <1>2, SlotRange, QueueAssumption
<1>4. storage' = [storage EXCEPT ![writeIndex][u] = pElem[u]]
  BY DEF PushCopy
<1> QED
  BY <1>1, <1>3, <1>4 DEF IInv, TypeOK, Element

LEMMA PushStep ==
  ASSUME IInv, PushInv, ProducerStep
  PROVE  PushInv'
<1>1. CASE ProducerIndices \/ ProducerCount \/ ProducerAnswer \/ PushFull
  BY <1>1 DEF PushInv, ProducerOwnsSlot, ProducerIndices, ProducerCount, ProducerAnswer,
     PushFull, IsFull, ProducerReturns
<1>2. ASSUME NEW u \in Unit, PushCopy(u) PROVE PushInv'
  <2>1. \A v \in pDone' : storage'[writeIndex][v] = pElem[v]
    <3>1. pDone' = pDone \union {u} /\ pDone \subseteq Unit /\ pPc = "copy"
      BY <1>2 DEF PushCopy, IInv, TypeOK
    <3>2. \A v \in Unit : storage'[writeIndex][v] = IF v = u THEN pElem[u]
                                                    ELSE storage[writeIndex][v]
      BY <1>2, PushCopyStores
    <3>3. \A v \in pDone : storage[writeIndex][v] = pElem[v]
      BY <3>1 DEF PushInv
    <3> QED BY <3>1, <3>2, <3>3
  <2>2. CASE Copied(pDone')
    <3>1. pPc' = "advance" /\ FreeSlot' = writeIndex /\ pElem' = pElem
      BY <1>2, <2>2 DEF PushCopy, FreeSlot, queueVars
    <3>2. \A v \in Unit : storage'[writeIndex][v] = pElem[v]
      BY <2>1, <2>2 DEF Copied
    <3>3. pElem \in [Unit -> UnitValue]
      BY QueueAssumption DEF IInv, TypeOK, Element
    <3>4. storage'[writeIndex] \in [Unit -> UnitValue]
      <4>1. writeIndex \in 0..(MaxCapacity - 1)
        BY <1>2, PushCopyStores
      <4>2. storage' = [storage EXCEPT ![writeIndex] = [@ EXCEPT ![u] = pElem[u]]]
        BY <1>2 DEF PushCopy
      <4>3. storage[writeIndex] \in [Unit -> UnitValue]
        BY <4>1 DEF IInv, TypeOK, Element
      <4> QED BY <3>3, <4>1, <4>2, <4>3 DEF IInv, TypeOK
    <3>5. storage'[writeIndex] = pElem
      BY <3>2, <3>3, <3>4
    <3> QED BY <3>1, <3>5 DEF PushInv, ProducerOwnsSlot
  <2>3. CASE ~Copied(pDone')
    BY <1>2, <2>1, <2>3 DEF PushInv, PushCopy, ProducerOwnsSlot, queueVars
  <2> QED BY <2>2, <2>3
<1>3. CASE PushAdvance
  BY <1>3, AdvanceKeepsSlot DEF PushInv, PushAdvance, ProducerOwnsSlot
<1>4. CASE PushPublish
  BY <1>4 DEF PushInv, PushPublish, ProducerReturns, ProducerOwnsSlot
<1> QED
  BY <1>1, <1>2, <1>3, <1>4 DEF ProducerStep

LEMMA PopStep ==
  ASSUME IInv, PopInv, ConsumerStep
  PROVE  PopInv'
<1>1. CASE ConsumerIndices \/ ConsumerCount \/ ConsumerAnswer \/ PopEmpty
  BY <1>1 DEF PopInv, ConsumerIndices, ConsumerCount, ConsumerAnswer, PopEmpty, IsEmpty,
     ConsumerReturns
<1>2. ASSUME NEW u \in Unit, PopCopy(u) PROVE PopInv'
  <2> DEFINE done == cDone \union {u}
  <2>1. /\ cPc = "copy" /\ cDone \subseteq Unit /\ cElem \in [Unit -> UnitValue]
        /\ cElem' = [cElem EXCEPT ![u] = storage[readIndex][u]]
        /\ UNCHANGED <<storage, readIndex, capacity>>
    BY <1>2 DEF PopCopy, IInv, TypeOK, Element, queueVars
  <2>2. \A v \in done : cElem'[v] = storage[readIndex][v]
    <3>1. \A v \in cDone : cElem[v] = storage[readIndex][v]
      BY <2>1 DEF PopInv
    <3> QED BY <2>1, <3>1
  <2>3. CASE Copied(done)
    <3>1. cDone' = {} /\ cPc' \in {"idle", "advance"}
      BY <1>2, <2>3 DEF PopCopy, ConsumerReturns
    <3>2. cPc' = "advance" => FirstSlot' = readIndex
      BY <2>1 DEF FirstSlot
    <3>3. readIndex \in 0..(MaxCapacity - 1)
      <4>1. state = "READY"
        BY <2>1 DEF IInv, RingConsistent, ConsumerOwnsSlot
      <4>2. FirstSlot = readIndex
        BY <2>1 DEF FirstSlot
      <4> QED BY <4>1, <4>2, SlotRange, QueueAssumption
    <3>4. storage[readIndex] \in [Unit -> UnitValue] /\ cElem' \in [Unit -> UnitValue]
      BY <2>1, <3>3 DEF IInv, TypeOK, Element
    <3>5. cElem' = storage[readIndex]
      BY <2>2, <2>3, <3>4 DEF Copied
    <3> QED BY <2>1, <3>1, <3>2, <3>5 DEF PopInv
  <2>4. CASE ~Copied(done)
    <3>1. cDone' = done /\ cPc' = "copy"
      BY <1>2, <2>1, <2>4 DEF PopCopy
    <3> QED BY <2>1, <2>2, <3>1 DEF PopInv
  <2> QED BY <2>3, <2>4
<1>3. CASE PopAdvance
  BY <1>3, AdvanceKeepsSlot DEF PopInv, PopAdvance
<1>4. CASE PopRelease
  BY <1>4 DEF PopInv, PopRelease, ConsumerReturns
<1> QED
  BY <1>1, <1>2, <1>3, <1>4 DEF ConsumerStep

\* What the producer writes is no slot the consumer reads.
LEMMA PopUndisturbed ==
  ASSUME IInv, PopInv, ProducerStep
  PROVE  PopInv'
<1>1. UNCHANGED <<capacity, readIndex, cPc, cElem, cDone>>
  BY DEF ProducerStep, ProducerIndices, ProducerCount, ProducerAnswer, PushFull, PushCopy,
     PushAdvance, PushPublish, queueVars, consumerVars
<1>2. ASSUME NEW u \in Unit, PushCopy(u), ConsumerOwnsSlot
      PROVE  storage'[FirstSlot] = storage[FirstSlot]
  <2>1. FreeSlot # FirstSlot
    BY <1>2, SlotsDiffer DEF PushCopy, ProducerOwnsSlot
  <2>2. state = "READY"
    BY <1>2 DEF IInv, RingConsistent
  <2>3. FirstSlot \in 0..(MaxCapacity - 1)
    BY <2>2, SlotRange, QueueAssumption
  <2> QED BY <1>2, <2>1, <2>3, PushCopyStores
<1>3. ASSUME NEW u \in Unit, PushCopy(u) PROVE PopInv'
  <2>1. FirstSlot' = FirstSlot /\ (cPc = "copy" => FirstSlot = readIndex)
    BY <1>1 DEF FirstSlot, Prev
  <2>2. ConsumerOwnsSlot => storage'[FirstSlot] = storage[FirstSlot]
    BY <1>2, <1>3
  <2> QED BY <1>1, <2>1, <2>2 DEF PopInv, ConsumerOwnsSlot
<1>4. CASE \/ ProducerIndices \/ ProducerCount \/ ProducerAnswer \/ PushFull
           \/ PushAdvance \/ PushPublish
  <2>1. storage' = storage
    BY <1>4 DEF ProducerIndices, ProducerCount, ProducerAnswer, PushFull, PushAdvance, PushPublish
  <2> QED BY <1>1, <2>1, PopKept
<1> QED
  BY <1>3, <1>4 DEF ProducerStep

LEMMA PushUndisturbed ==
  ASSUME PushInv, ConsumerStep
  PROVE  PushInv'
<1>1. UNCHANGED <<capacity, writeIndex, storage, pPc, pElem, pDone>>
  BY DEF ConsumerStep, ConsumerIndices, ConsumerCount, ConsumerAnswer, PopEmpty, PopCopy,
     PopAdvance, PopRelease, queueVars, producerVars
<1> QED BY <1>1, PushKept

LEMMA CopyStep ==
  ASSUME IInv, PushInv, PopInv, [Next]_vars
  PROVE  PushInv' /\ PopInv'
<1>1. CASE (\E cap \in 0..MaxCapacity : InitQueue(cap)) \/ ClearQueue
  <2>1. Stopped /\ UNCHANGED <<pPc, pDone, cPc, cDone>>
    BY <1>1 DEF InitQueue, ClearQueue, EmptyRing, queueVars, consumerVars
  <2> QED BY <2>1, IdleKept
<1>2. CASE PushNull \/ (\E e \in Payload : PushCall(e)) \/ ProducerQuery
  <2>1. /\ UNCHANGED <<capacity, readIndex, storage, cPc, cElem, cDone, pDone>>
        /\ pPc = "idle" /\ pPc' \in {"idle", "indices"}
    BY <1>2 DEF PushNull, PushCall, ProducerQuery, ProducerReturns, queueVars, consumerVars
  <2>2. PushInv'
    BY <2>1 DEF PushInv, ProducerOwnsSlot
  <2> QED BY <2>1, <2>2, PopKept
<1>3. CASE ProducerStep
  BY <1>3, PushStep, PopUndisturbed
<1>4. CASE PopNull \/ (\E op \in {"pop", "peek", "query"} : PopCall(op))
  <2>1. /\ UNCHANGED <<capacity, writeIndex, storage, pPc, pElem, pDone, cDone>>
        /\ cPc = "idle" /\ cPc' \in {"idle", "indices"}
    BY <1>4 DEF PopNull, PopCall, ConsumerReturns, queueVars, producerVars
  <2>2. PopInv'
    BY <2>1 DEF PopInv
  <2> QED BY <2>1, <2>2, PushKept
<1>5. CASE ConsumerStep
  BY <1>5, PopStep, PushUndisturbed
<1>6. CASE UNCHANGED vars
  BY <1>6, PushKept, PopKept DEF vars, queueVars, producerVars, consumerVars
<1> QED
  BY <1>1, <1>2, <1>3, <1>4, <1>5, <1>6 DEF Next

LEMMA FifoInvariance == Spec => []FifoInv
<1>1. Init => FifoInv
  BY InitInv, InitCalls DEF FifoInv
<1>2. FifoInv /\ [Next]_vars => FifoInv'
  BY NextInv, CallStep, CopyStep DEF FifoInv
<1> QED
  BY <1>1, <1>2, PTL DEF Spec

-----------------------------------------------------------------------------
(* The mapping *)

LEMMA ContentsKept ==
  ASSUME UNCHANGED <<capacity, storage, readSequence, writeSequence>>, FirstSlot' = FirstSlot
  PROVE  Contents' = Contents
  BY DEF Contents, Count

\* While it copies, the producer changes no element that the queue holds.
LEMMA CopyKeepsContents ==
  ASSUME IInv, NEW u \in Unit, PushCopy(u)
  PROVE  Contents' = Contents
<1>1. state = "READY" /\ Count < capacity
  BY DEF IInv, RingConsistent, PushCopy, ProducerOwnsSlot
<1>2. UNCHANGED <<capacity, readSequence, writeSequence, readIndex, cPc>>
  BY DEF PushCopy, queueVars, consumerVars
<1>3. FirstSlot' = FirstSlot /\ Count' = Count
  BY <1>2 DEF FirstSlot, Prev, Count
<1>4. \A k \in 1..Count : storage'[Slot(k)] = storage[Slot(k)]
  <2> SUFFICES ASSUME NEW k \in 1..Count PROVE storage'[Slot(k)] = storage[Slot(k)]
    OBVIOUS
  <2>1. Slot(k) \in 0..(MaxCapacity - 1) /\ Slot(k) # FreeSlot
    BY <1>1, SlotIs, SlotRange, QueueAssumption
  <2> QED BY <2>1, PushCopyStores
<1>5. Contents' = [k \in 1..Count |-> storage'[Slot(k)]]
  BY <1>2, <1>3 DEF Contents, Slot
<1> QED
  BY <1>4, <1>5 DEF Contents, Slot

\* Publishing the sequence appends the pushed element.
LEMMA PublishAppends ==
  ASSUME FifoInv, PushPublish
  PROVE  Contents' = Append(Contents, pElem) /\ Len(Contents) < capacity
<1> USE DEF FifoInv
<1>1. state = "READY" /\ Count < capacity /\ capacity < SeqMod
  BY SlotRange DEF IInv, RingConsistent, PushPublish, ProducerOwnsSlot
<1>2. /\ UNCHANGED <<capacity, storage, readSequence, readIndex, cPc>>
      /\ writeSequence' = SeqNext(writeSequence)
  BY DEF PushPublish, consumerVars
<1>3. Count' = Count + 1 /\ Count \in Nat
  <2>1. Count \in Nat /\ CountOf(writeSequence, readSequence) + 1 < SeqMod
    BY <1>1, CountNat, SlotRange, SeqModType DEF Count
  <2>2. writeSequence \in 0..(SeqMod - 1) /\ readSequence \in 0..(SeqMod - 1)
    BY DEF IInv, TypeOK
  <2> QED BY <1>2, <2>1, <2>2, PublishCounts DEF Count
<1>4. FirstSlot' = FirstSlot
  BY <1>2 DEF FirstSlot, Prev
<1>5. Slot(Count + 1) = FreeSlot
  <2>1. Slot(Count + 1) = (FirstSlot + Count) % capacity
    BY <1>3, <1>1, SlotRange DEF Slot
  <2>2. Slot(Count + 1) = IF FirstSlot + Count < capacity THEN FirstSlot + Count
                          ELSE FirstSlot + Count - capacity
    BY <2>1, <1>1, SlotRange, RingIndex
  <2> QED BY <2>2, <1>1, SlotRange
<1>6. Contents' = [k \in 1..(Count + 1) |-> storage[Slot(k)]]
  BY <1>2, <1>3, <1>4 DEF Contents, Slot
<1>7. storage[FreeSlot] = pElem
  BY DEF PushInv, PushPublish
<1>8. /\ Contents \in Seq(Element) /\ Len(Contents) = Count
      /\ Contents = [k \in 1..Count |-> storage[Slot(k)]]
  BY ContentsIsSeq DEF Contents, Slot
<1>9. Append(Contents, pElem)
        = [k \in 1..(Count + 1) |-> IF k = Count + 1 THEN pElem ELSE Contents[k]]
  BY <1>3, <1>8
<1>10. \A k \in 1..(Count + 1) :
         storage[Slot(k)] = IF k = Count + 1 THEN pElem ELSE Contents[k]
  BY <1>3, <1>5, <1>7, <1>8
<1> QED
  BY <1>1, <1>6, <1>8, <1>9, <1>10

\* Releasing the sequence removes the oldest element, the one popped.
LEMMA ReleaseRemoves ==
  ASSUME FifoInv, PopRelease
  PROVE  Contents' = Tail(Contents) /\ cElem = Head(Contents) /\ Contents # <<>>
<1> USE DEF FifoInv
<1>1. state = "READY" /\ Count > 0
  BY DEF IInv, RingConsistent, PopRelease, ConsumerOwnsSlot
<1>2. /\ UNCHANGED <<capacity, storage, writeSequence, readIndex>>
      /\ readSequence' = SeqNext(readSequence)
      /\ cPc = "release" /\ cPc' = "idle"
  BY DEF PopRelease, ConsumerReturns
<1>3. Count' = Count - 1 /\ Count \in Nat
  BY <1>1, <1>2, ReleaseCounts, CountNat DEF Count, IInv, TypeOK
<1>4. FirstSlot = Prev(readIndex) /\ FirstSlot' = readIndex
  BY <1>2 DEF FirstSlot
<1>5. readIndex \in Nat /\ readIndex < capacity
  BY <1>1 DEF IInv, TypeOK, RingConsistent
<1>6. FirstSlot' = IF FirstSlot + 1 = capacity THEN 0 ELSE FirstSlot + 1
  BY <1>1, <1>4, <1>5, SlotRange DEF Prev
<1>7. \A k \in 1..(Count - 1) : (FirstSlot' + k - 1) % capacity = Slot(k + 1)
  <2> SUFFICES ASSUME NEW k \in 1..(Count - 1)
               PROVE  (FirstSlot' + k - 1) % capacity = Slot(k + 1)
    OBVIOUS
  <2>1. k \in Nat /\ k + 1 \in 1..Count /\ k - 1 \in 0..capacity
    BY <1>1, <1>3, SlotRange
  <2>2. FirstSlot' \in 0..(capacity - 1) /\ FirstSlot' + k - 1 = FirstSlot' + (k - 1)
    BY <2>1, <1>4, <1>5, <1>1, SlotRange
  <2>3. (FirstSlot' + k - 1) % capacity = IF FirstSlot' + k - 1 < capacity
                                          THEN FirstSlot' + k - 1
                                          ELSE FirstSlot' + k - 1 - capacity
    BY <2>1, <2>2, <1>1, SlotRange, RingIndex
  <2>4. Slot(k + 1) = IF FirstSlot + k < capacity THEN FirstSlot + k
                      ELSE FirstSlot + k - capacity
    <3>1. FirstSlot + (k + 1) - 1 = FirstSlot + k
      BY <2>1, <1>1, SlotRange
    <3> QED BY <3>1, <2>1, <1>1, SlotIs
  <2> QED BY <2>1, <2>3, <2>4, <1>6, <1>1, <1>3, SlotRange
<1>8. Contents' = [k \in 1..(Count - 1) |-> storage[Slot(k + 1)]]
  <2>1. Contents' = [k \in 1..(Count - 1) |-> storage[(FirstSlot' + k - 1) % capacity]]
    BY <1>2, <1>3 DEF Contents
  <2> QED BY <2>1, <1>7
<1>9. /\ Contents \in Seq(Element) /\ Len(Contents) = Count
      /\ \A k \in 1..Count : Contents[k] = storage[Slot(k)]
      /\ Contents # <<>>
  BY <1>1, ContentsIsSeq
<1>10. Tail(Contents) = [k \in 1..(Count - 1) |-> Contents[k + 1]]
  <2> DEFINE rest == [k \in 1..(Count - 1) |-> Contents[k + 1]]
  <2>1. \A k \in 1..(Count - 1) : Contents[k + 1] \in Element
    BY <1>3, <1>9
  <2>2. rest \in Seq(Element) /\ Len(rest) = Count - 1
    BY <2>1, <1>1, <1>3
  <2>3. /\ Tail(Contents) \in Seq(Element) /\ Len(Tail(Contents)) = Count - 1
        /\ \A k \in 1..(Count - 1) : Tail(Contents)[k] = Contents[k + 1]
    BY <1>9, HeadTailProperties
  <2> QED BY <2>2, <2>3, SeqEqual
<1>11. \A k \in 1..(Count - 1) : Contents[k + 1] = storage[Slot(k + 1)]
  BY <1>3, <1>9
<1>12. Head(Contents) = storage[FirstSlot]
  <2>1. Slot(1) = FirstSlot
    BY <1>1, SlotRange, SlotIs
  <2> QED BY <2>1, <1>1, <1>3, <1>9
<1>13. cElem = storage[FirstSlot]
  BY <1>2 DEF PopInv
<1> QED
  BY <1>8, <1>9, <1>10, <1>11, <1>12, <1>13

-----------------------------------------------------------------------------
(* Every step maps to a step of the bounded FIFO or to a stutter *)

LEMMA FifoInit == Init => Fifo!Init
<1> SUFFICES ASSUME Init PROVE Fifo!Init
  OBVIOUS
<1>1. IInv /\ CallInv /\ Count = 0
  BY InitInv, InitCalls, CountIs, SeqModType DEF Init, Count
<1>2. Contents = <<>>
  BY <1>1, ContentsIsSeq
<1>3. pElem \in Payload /\ delivered \in Element
  BY QueueAssumption DEF Init
<1> QED BY <1>2, <1>3 DEF Init, Fifo!Init

\* A stutter: nothing a caller can observe changes.
LEMMA Stutter ==
  ASSUME Contents' = Contents,
         UNCHANGED <<capacity, pElem, pOp, pStatus, delivered, cOp, cStatus>>
  PROVE  UNCHANGED Fifo!vars
  BY DEF Fifo!vars, Fifo!producer, Fifo!consumer

\* A setup call is refused only before the first initialisation.
LEMMA ValidWhenReady ==
  ASSUME IInv
  PROVE  state = "READY" => ValidIndices /\ Count <= capacity
  BY CountNat, SlotRange DEF IInv, TypeOK, RingConsistent, ValidIndices

LEMMA SetupMaps ==
  ASSUME FifoInv, (\E cap \in 0..MaxCapacity : InitQueue(cap)) \/ ClearQueue
  PROVE  Fifo!Next
<1> USE DEF FifoInv
<1>1. pStatus # "PENDING" /\ cStatus # "PENDING"
  BY DEF InitQueue, ClearQueue, Stopped, CallInv
<1>2. ASSUME EmptyRing, capacity' \in Nat, capacity' # 0, pStatus' = "OK"
      PROVE  Fifo!Next
  <2>1. Count' = 0
    BY <1>2, CountIs, SeqModType DEF EmptyRing, Count
  <2>2. Contents' = <<>>
    BY <2>1, Emptied
  <2> QED BY <1>1, <1>2, <2>2 DEF EmptyRing, Fifo!Next, Fifo!Reset, Fifo!Idle, Fifo!consumer
<1>3. ASSUME UNCHANGED <<queueVars, storage, pPc, pOp, pElem, pDone, pRoom, consumerVars>>,
             \/ pStatus' = "INVALID_ARGUMENT"
             \/ pStatus' = "INVALID_STATE" /\ capacity = 0
      PROVE  Fifo!Next
  <2>1. Contents' = Contents
    BY <1>3, ContentsKept DEF queueVars, consumerVars, FirstSlot, Prev
  <2> QED
    BY <1>1, <1>3, <2>1 DEF queueVars, consumerVars, Fifo!Next, Fifo!RefuseSetup, Fifo!Idle,
       Fifo!consumer
<1>4. ASSUME NEW cap \in 0..MaxCapacity, InitQueue(cap) PROVE Fifo!Next
  BY <1>2, <1>3, <1>4, QueueAssumption DEF InitQueue, AcceptsCapacity
<1>5. CASE ClearQueue
  <2>1. CASE ValidIndices /\ Count <= capacity
    BY <1>2, <1>5, <2>1, CountNat DEF ClearQueue, ValidIndices
  <2>2. CASE ~(ValidIndices /\ Count <= capacity)
    <3>1. capacity = 0
      BY <2>2, ValidWhenReady, CountEmpty
    <3> QED BY <1>3, <1>5, <2>2, <3>1 DEF ClearQueue, queueVars
  <2> QED BY <2>1, <2>2
<1> QED BY <1>4, <1>5

LEMMA ProducerMaps ==
  ASSUME FifoInv,
         PushNull \/ (\E e \in Payload : PushCall(e)) \/ ProducerQuery \/ ProducerStep
  PROVE  Fifo!Next \/ UNCHANGED Fifo!vars
<1> USE DEF FifoInv
<1>1. UNCHANGED <<capacity, delivered, cOp, cStatus, readIndex, readSequence, cPc>>
  BY DEF PushNull, PushCall, ProducerQuery, ProducerStep, ProducerIndices, ProducerCount,
     ProducerAnswer, PushFull, PushCopy, PushAdvance, PushPublish, queueVars, consumerVars
<1>2. Fifo!consumer' = Fifo!consumer
  BY <1>1 DEF Fifo!consumer
<1>3. FirstSlot' = FirstSlot
  BY <1>1 DEF FirstSlot, Prev
<1>4. ASSUME UNCHANGED <<storage, writeSequence>> PROVE Contents' = Contents
  BY <1>1, <1>3, <1>4, ContentsKept
<1>5. CASE PushNull \/ (\E e \in Payload : PushCall(e)) \/ ProducerQuery
  <2>1. pStatus # "PENDING" /\ Contents' = Contents
    BY <1>4, <1>5 DEF PushNull, PushCall, ProducerQuery, queueVars, CallInv
  <2>2. CASE PushNull
    BY <1>1, <1>2, <2>1, <2>2 DEF PushNull, ProducerReturns, Fifo!Next, Fifo!ProducerOther
  <2>3. CASE (\E e \in Payload : PushCall(e)) \/ ProducerQuery
    <3>1. pStatus' = "PENDING" /\ pOp' \in {"push", "query"} /\ pElem' \in Payload
      BY <2>3 DEF PushCall, ProducerQuery, IInv, TypeOK
    <3> QED BY <1>1, <1>2, <2>1, <3>1 DEF Fifo!Next, Fifo!Produce
  <2> QED BY <1>5, <2>2, <2>3
<1>6. CASE ProducerIndices \/ ProducerCount
  <2>1. Contents' = Contents /\ UNCHANGED <<pOp, pElem>> /\ pStatus = "PENDING"
    BY <1>4, <1>6 DEF ProducerIndices, ProducerCount, queueVars, CallInv
  <2>2. pStatus' = pStatus \/ (pStatus' = "INVALID_STATE" /\ capacity = 0)
    BY <1>6, ValidWhenReady, CountEmpty
       DEF ProducerIndices, ProducerCount, ProducerReturns, IInv, RingConsistent
  <2>3. CASE pStatus' = pStatus
    BY <1>1, <2>1, <2>3, Stutter
  <2>4. CASE pStatus' = "INVALID_STATE" /\ capacity = 0
    BY <1>1, <1>2, <2>1, <2>4 DEF Fifo!Next, Fifo!ProducerOther
  <2> QED BY <2>2, <2>3, <2>4
<1>7. CASE ProducerAnswer
  <2>1. /\ Contents' = Contents /\ UNCHANGED <<pOp, pElem>>
        /\ pOp = "query" /\ pStatus = "PENDING" /\ pStatus' = "OK"
    BY <1>4, <1>7 DEF ProducerAnswer, ProducerReturns, queueVars, CallInv
  <2> QED BY <1>1, <1>2, <2>1 DEF Fifo!Next, Fifo!ProducerOther
<1>8. CASE PushFull
  <2>1. /\ Contents' = Contents /\ UNCHANGED <<pOp, pElem>>
        /\ pOp = "push" /\ pStatus = "PENDING"
    BY <1>4, <1>8 DEF PushFull, queueVars, CallInv
  <2>2. pStatus' = pStatus \/ (pStatus' = "FULL" /\ Len(Contents) = capacity)
    BY <1>8, ContentsIsSeq DEF PushFull, IsFull, ProducerReturns
  <2>3. CASE pStatus' = pStatus
    BY <1>1, <2>1, <2>3, Stutter
  <2>4. CASE pStatus' = "FULL" /\ Len(Contents) = capacity
    BY <1>1, <1>2, <2>1, <2>4 DEF Fifo!Next, Fifo!ProducerOther
  <2> QED BY <2>2, <2>3, <2>4
<1>9. CASE (\E u \in Unit : PushCopy(u)) \/ PushAdvance
  <2>1. Contents' = Contents
    BY <1>4, <1>9, CopyKeepsContents DEF PushAdvance
  <2> QED BY <1>1, <1>9, <2>1, Stutter DEF PushCopy, PushAdvance
<1>10. CASE PushPublish
  <2>1. Contents' = Append(Contents, pElem) /\ Len(Contents) < capacity
    BY <1>10, PublishAppends
  <2>2. pStatus = "PENDING" /\ pOp = "push" /\ pStatus' = "OK" /\ UNCHANGED <<pOp, pElem>>
    BY <1>10 DEF PushPublish, ProducerReturns, CallInv, ProducerOwnsSlot
  <2> QED BY <1>1, <1>2, <2>1, <2>2 DEF Fifo!Next, Fifo!Enqueue
<1> QED
  BY <1>5, <1>6, <1>7, <1>8, <1>9, <1>10 DEF ProducerStep

\* A copy that is complete is the oldest element.
LEMMA PeekedIsOldest ==
  ASSUME FifoInv, NEW u \in Unit, PopCopy(u), Copied(cDone \union {u})
  PROVE  cElem' = Head(Contents) /\ Contents # <<>>
<1> USE DEF FifoInv
<1>1. state = "READY" /\ Count > 0 /\ cPc = "copy"
  BY DEF IInv, RingConsistent, PopCopy, ConsumerOwnsSlot
<1>2. FirstSlot = readIndex /\ readIndex \in 0..(MaxCapacity - 1)
  BY <1>1, SlotRange, QueueAssumption DEF FirstSlot
<1>3. Slot(1) = readIndex
  BY <1>1, <1>2, SlotRange, SlotIs
<1>4. Head(Contents) = storage[readIndex] /\ Contents # <<>>
  BY <1>1, <1>3, ContentsIsSeq, CountNat
<1>5. /\ storage[readIndex] \in [Unit -> UnitValue] /\ cElem \in [Unit -> UnitValue]
      /\ cElem' = [cElem EXCEPT ![u] = storage[readIndex][u]]
  BY <1>2 DEF IInv, TypeOK, Element, PopCopy
<1>6. \A v \in Unit : v = u \/ cElem[v] = storage[readIndex][v]
  BY <1>1 DEF Copied, PopInv
<1>7. cElem' = storage[readIndex]
  BY <1>5, <1>6
<1> QED BY <1>4, <1>7

LEMMA ConsumerMaps ==
  ASSUME FifoInv,
         PopNull \/ (\E op \in {"pop", "peek", "query"} : PopCall(op)) \/ ConsumerStep
  PROVE  Fifo!Next \/ UNCHANGED Fifo!vars
<1> USE DEF FifoInv
<1>1. UNCHANGED <<capacity, storage, pElem, pOp, pStatus, writeSequence>>
  BY DEF PopNull, PopCall, ConsumerStep, ConsumerIndices, ConsumerCount, ConsumerAnswer,
     PopEmpty, PopCopy, PopAdvance, PopRelease, queueVars, producerVars
<1>2. Fifo!producer' = Fifo!producer
  BY <1>1 DEF Fifo!producer
<1>3. ASSUME readSequence' = readSequence, FirstSlot' = FirstSlot PROVE Contents' = Contents
  BY <1>1, <1>3, ContentsKept
<1>4. ASSUME UNCHANGED readIndex, cPc # "release", cPc' # "release" PROVE FirstSlot' = FirstSlot
  BY <1>4 DEF FirstSlot
<1>5. CASE PopNull \/ (\E op \in {"pop", "peek", "query"} : PopCall(op))
  <2>1. cStatus # "PENDING" /\ Contents' = Contents /\ UNCHANGED delivered
    BY <1>3, <1>4, <1>5 DEF PopNull, PopCall, ConsumerReturns, queueVars, CallInv
  <2>2. CASE PopNull
    BY <1>1, <1>2, <2>1, <2>2 DEF PopNull, ConsumerReturns, Fifo!Next, Fifo!ConsumerOther
  <2>3. CASE \E op \in {"pop", "peek", "query"} : PopCall(op)
    <3>1. cStatus' = "PENDING" /\ cOp' \in {"pop", "peek", "query"}
      BY <2>3 DEF PopCall
    <3> QED BY <1>1, <1>2, <2>1, <3>1 DEF Fifo!Next, Fifo!Consume
  <2> QED BY <1>5, <2>2, <2>3
<1>6. CASE ConsumerIndices \/ ConsumerCount
  <2>1. Contents' = Contents /\ UNCHANGED <<cOp, delivered>> /\ cStatus = "PENDING"
    BY <1>3, <1>4, <1>6 DEF ConsumerIndices, ConsumerCount, ConsumerReturns, queueVars, CallInv
  <2>2. cStatus' = cStatus \/ (cStatus' = "INVALID_STATE" /\ capacity = 0)
    BY <1>6, ValidWhenReady, CountEmpty
       DEF ConsumerIndices, ConsumerCount, ConsumerReturns, IInv, RingConsistent
  <2>3. CASE cStatus' = cStatus
    BY <1>1, <2>1, <2>3, Stutter
  <2>4. CASE cStatus' = "INVALID_STATE" /\ capacity = 0
    BY <1>1, <1>2, <2>1, <2>4 DEF Fifo!Next, Fifo!ConsumerOther
  <2> QED BY <2>2, <2>3, <2>4
<1>7. CASE ConsumerAnswer
  <2>1. /\ Contents' = Contents /\ UNCHANGED <<cOp, delivered>>
        /\ cOp = "query" /\ cStatus = "PENDING" /\ cStatus' = "OK"
    BY <1>3, <1>4, <1>7 DEF ConsumerAnswer, ConsumerReturns, queueVars, CallInv
  <2> QED BY <1>1, <1>2, <2>1 DEF Fifo!Next, Fifo!ConsumerOther
<1>8. CASE PopEmpty
  <2>1. /\ Contents' = Contents /\ UNCHANGED <<cOp, delivered>>
        /\ cOp \in {"pop", "peek"} /\ cStatus = "PENDING"
    BY <1>3, <1>4, <1>8 DEF PopEmpty, ConsumerReturns, queueVars, CallInv, IInv, TypeOK
  <2>2. cStatus' = cStatus \/ (cStatus' = "EMPTY" /\ Contents = <<>>)
    BY <1>8, ContentsIsSeq DEF PopEmpty, IsEmpty, ConsumerReturns
  <2>3. CASE cStatus' = cStatus
    BY <1>1, <2>1, <2>3, Stutter
  <2>4. CASE cStatus' = "EMPTY" /\ Contents = <<>>
    BY <1>1, <1>2, <2>1, <2>4 DEF Fifo!Next, Fifo!ConsumerOther
  <2> QED BY <2>2, <2>3, <2>4
<1>9. ASSUME NEW u \in Unit, PopCopy(u) PROVE Fifo!Next \/ UNCHANGED Fifo!vars
  <2>1. /\ Contents' = Contents /\ UNCHANGED cOp
        /\ cOp \in {"pop", "peek"} /\ cStatus = "PENDING"
    BY <1>3, <1>4, <1>9
       DEF PopCopy, ConsumerReturns, queueVars, CallInv, ConsumerOwnsSlot
  <2>2. CASE Copied(cDone \union {u}) /\ cOp = "peek"
    <3>1. cStatus' = "OK" /\ delivered' = Head(Contents) /\ Contents # <<>>
      BY <1>9, <2>2, PeekedIsOldest DEF PopCopy, ConsumerReturns
    <3> QED BY <1>1, <1>2, <2>1, <2>2, <3>1 DEF Fifo!Next, Fifo!Take
  <2>3. CASE ~(Copied(cDone \union {u}) /\ cOp = "peek")
    <3>1. UNCHANGED <<cStatus, delivered>>
      BY <1>9, <2>3 DEF PopCopy
    <3> QED BY <1>1, <2>1, <3>1, Stutter
  <2> QED BY <2>2, <2>3
<1>10. CASE PopAdvance
  <2>1. FirstSlot' = FirstSlot
    BY <1>10, AdvanceKeepsSlot
  <2> QED BY <1>1, <1>3, <1>10, <2>1, Stutter DEF PopAdvance
<1>11. CASE PopRelease
  <2>1. Contents' = Tail(Contents) /\ delivered' = Head(Contents) /\ Contents # <<>>
    BY <1>11, ReleaseRemoves DEF PopRelease
  <2>2. cStatus = "PENDING" /\ cOp = "pop" /\ cStatus' = "OK" /\ UNCHANGED cOp
    BY <1>11 DEF PopRelease, ConsumerReturns, CallInv
  <2> QED BY <1>1, <1>2, <2>1, <2>2 DEF Fifo!Next, Fifo!Take
<1> QED
  BY <1>5, <1>6, <1>7, <1>8, <1>9, <1>10, <1>11 DEF ConsumerStep

LEMMA FifoStep == FifoInv /\ [Next]_vars => [Fifo!Next]_Fifo!vars
<1> SUFFICES ASSUME FifoInv, [Next]_vars PROVE Fifo!Next \/ UNCHANGED Fifo!vars
  OBVIOUS
<1>1. CASE UNCHANGED vars
  <2>1. Contents' = Contents
    BY <1>1, ContentsKept DEF vars, queueVars, consumerVars, FirstSlot, Prev
  <2> QED BY <1>1, <2>1, Stutter DEF vars, queueVars, producerVars, consumerVars
<1>2. CASE Next
  BY <1>2, SetupMaps, ProducerMaps, ConsumerMaps DEF Next
<1> QED BY <1>1, <1>2

\* ImplementsFifo: the lock-free ring is a bounded FIFO for every capacity, element size
\* and width of size_t: no accepted element is lost, duplicated, reordered or torn, and
\* every status push(), pop() and peek() return was true at one instant of the call.
THEOREM RingImplementsFifo == Spec => ImplementsFifo
<1>1. Init => Fifo!Init
  BY FifoInit
<1>2. FifoInv /\ [Next]_vars => [Fifo!Next]_Fifo!vars
  BY FifoStep
<1> QED
  BY <1>1, <1>2, FifoInvariance, PTL DEF Spec, ImplementsFifo, Fifo!Spec
===============================================================================
