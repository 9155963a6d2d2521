------------------------------ MODULE HalQueue ------------------------------
(***************************************************************************)
(* The generic software queue of source/common/hal_queue.c: a fixed        *)
(* capacity ring shared, without a lock, by one producer and one consumer  *)
(* context.  Each C function is split at the points where the other        *)
(* context can run: between the reads of validateHandle(), the snapshot    *)
(* of the occupancy, each storage unit of memcpy(), the index update and   *)
(* the sequence publication.                                               *)
(***************************************************************************)
EXTENDS Integers, Sequences, FiniteSets

CONSTANTS
  MaxCapacity,  \* elements that fit in the caller's storage area
  SeqMod,       \* SIZE_MAX + 1: size_t sequences and counts wrap here
  Unit,         \* the C storage units of one element
  UnitValue,    \* contents of one storage unit
  Payload       \* elements the producer pushes

Element == [Unit -> UnitValue]

ElementSize == Cardinality(Unit)

ASSUME QueueAssumption ==
  /\ MaxCapacity \in Nat
  /\ SeqMod \in Nat \ {0, 1}
  /\ IsFiniteSet(Unit) /\ Unit # {}
  /\ Payload \subseteq Element /\ Payload # {}

VARIABLES
  state, capacity, readIndex, writeIndex,   \* HAL_QUEUE_Obj
  readSequence, writeSequence,              \* HAL_QUEUE_Obj, volatile
  storage,                                  \* the caller's backing array
  pPc, pOp, pElem, pDone, pStatus,          \* the producer's call in progress
  cPc, cOp, cElem, cDone, cStatus,          \* the consumer's call in progress
  pRoom, cReady,                            \* what the last query promised
  delivered                                 \* the consumer's buffer at its last OK

queueVars == <<state, capacity, readIndex, writeIndex, readSequence, writeSequence>>
producerVars == <<pPc, pOp, pElem, pDone, pStatus, pRoom>>
consumerVars == <<cPc, cOp, cElem, cDone, cStatus, cReady, delivered>>
vars == <<queueVars, storage, producerVars, consumerVars>>

\* "PENDING" stands for a call that has not returned.
Status == {"PENDING", "OK", "INVALID_ARGUMENT", "INVALID_STATE", "EMPTY", "FULL"}

-----------------------------------------------------------------------------
(* Helpers *)

\* Mutant: the difference is taken as if the sequences never wrapped.
CountWithoutWrap(w, r) == IF w >= r THEN w - r ELSE 0

\* Unsigned subtraction of the two sequences (getCountSnapshot).  Reading the
\* two volatile fields one after the other is a single step: of the two, the
\* calling context changes one and the other context only the other.
CountOf(w, r) == (w - r) % SeqMod
Count == CountOf(writeSequence, readSequence)

\* Mutant: the sequence outgrows a size_t.
SeqNextUnbounded(s) == s + 1

\* Unsigned increment of a sequence: writeSequence++, readSequence++.
SeqNext(s) == (s + 1) % SeqMod

\* Mutant: the index wraps one element too late.
AdvanceIndexLate(i, cap) == IF i = cap THEN 0 ELSE i + 1

AdvanceIndex(i, cap) == IF i + 1 = cap THEN 0 ELSE i + 1

\* Mutant: the last free slot is overshot.
IsFullLate(n) == n > capacity

IsFull(n) == n = capacity

\* Mutant: an empty queue is not noticed.
IsEmptyNever(n) == n > capacity

IsEmpty(n) == n = 0

\* Mutant: memcpy() copies a part of the element.
CopiedPart(done) == done # {}

Copied(done) == done = Unit

\* The part of validateHandle() that reads the state and the indices.
ValidIndices ==
  /\ state = "READY"
  /\ capacity # 0
  /\ readIndex < capacity
  /\ writeIndex < capacity

Stopped == pPc = "idle" /\ cPc = "idle"

Init ==
  /\ state = "UNINITIALIZED" /\ capacity = 0
  /\ readIndex = 0 /\ writeIndex = 0
  /\ readSequence = 0 /\ writeSequence = 0
  /\ \E e \in Payload :
       /\ storage = [i \in 0..(MaxCapacity - 1) |-> e]
       /\ pElem = e /\ cElem = e /\ delivered = e
  /\ pPc = "idle" /\ pOp = "push" /\ pDone = {} /\ pStatus = "OK"
  /\ cPc = "idle" /\ cOp = "pop" /\ cDone = {} /\ cStatus = "OK"
  /\ pRoom = 0 /\ cReady = 0

-----------------------------------------------------------------------------
(* Setup, by contract only while producer and consumer are stopped. *)

EmptyRing ==
  /\ readIndex' = 0 /\ writeIndex' = 0
  /\ readSequence' = 0 /\ writeSequence' = 0
  /\ pRoom' = 0 /\ cReady' = 0
  /\ UNCHANGED <<storage, pPc, pOp, pElem, pDone, cPc, cOp, cElem, cDone, cStatus,
                 delivered>>

AcceptsCapacity(cap) == cap # 0 /\ cap <= (SeqMod - 1) \div ElementSize

\* HAL_QUEUE_init: an invalid capacity leaves the object unchanged.
InitQueue(cap) ==
  /\ Stopped
  /\ IF AcceptsCapacity(cap)
     THEN /\ capacity' = cap
          /\ state' = "READY"
          /\ pStatus' = "OK"
          /\ EmptyRing
     ELSE /\ pStatus' = "INVALID_ARGUMENT"
          /\ UNCHANGED <<queueVars, storage, pPc, pOp, pElem, pDone, pRoom, consumerVars>>

\* HAL_QUEUE_clear.
ClearQueue ==
  /\ Stopped
  /\ UNCHANGED <<state, capacity>>
  /\ IF ValidIndices /\ Count <= capacity
     THEN pStatus' = "OK" /\ EmptyRing
     ELSE /\ pStatus' = "INVALID_STATE"
          /\ UNCHANGED <<readIndex, writeIndex, readSequence, writeSequence, storage,
                         pPc, pOp, pElem, pDone, pRoom, consumerVars>>

-----------------------------------------------------------------------------
(* The producer: HAL_QUEUE_push and the occupancy queries it may make. *)

ProducerReturns(status) == pPc' = "idle" /\ pStatus' = status

\* element == NULL (or a NULL output of a query)
PushNull ==
  /\ pPc = "idle"
  /\ ProducerReturns("INVALID_ARGUMENT")
  /\ UNCHANGED <<queueVars, storage, pOp, pElem, pDone, pRoom, consumerVars>>

PushCall(e) ==
  /\ pPc = "idle"
  /\ pPc' = "indices" /\ pOp' = "push" /\ pElem' = e
  /\ pStatus' = "PENDING"
  /\ UNCHANGED <<queueVars, storage, pDone, pRoom, consumerVars>>

\* HAL_QUEUE_getCount / getFreeCount / isEmpty / isFull in the producer's context.
ProducerQuery ==
  /\ pPc = "idle"
  /\ pPc' = "indices" /\ pOp' = "query"
  /\ pStatus' = "PENDING"
  /\ UNCHANGED <<queueVars, storage, pElem, pDone, pRoom, consumerVars>>

ProducerIndices ==
  /\ pPc = "indices"
  /\ IF ValidIndices
     THEN pPc' = "count" /\ UNCHANGED pStatus
     ELSE ProducerReturns("INVALID_STATE")
  /\ UNCHANGED <<queueVars, storage, pOp, pElem, pDone, pRoom, consumerVars>>

ProducerCount ==
  /\ pPc = "count"
  /\ IF Count <= capacity
     THEN pPc' = "snapshot" /\ UNCHANGED pStatus
     ELSE ProducerReturns("INVALID_STATE")
  /\ UNCHANGED <<queueVars, storage, pOp, pElem, pDone, pRoom, consumerVars>>

ProducerAnswer ==
  /\ pPc = "snapshot" /\ pOp = "query"
  /\ pRoom' = capacity - Count
  /\ ProducerReturns("OK")
  /\ UNCHANGED <<queueVars, storage, pOp, pElem, pDone, consumerVars>>

\* Mutant: push() waits for room instead of returning HAL_STATUS_FULL.
PushWaits ==
  /\ pPc = "snapshot" /\ pOp = "push"
  /\ pPc' = IF IsFull(Count) THEN "snapshot" ELSE "copy"
  /\ UNCHANGED <<queueVars, storage, pOp, pElem, pDone, pStatus, pRoom, consumerVars>>

PushFull ==
  /\ pPc = "snapshot" /\ pOp = "push"
  /\ IF IsFull(Count)
     THEN ProducerReturns("FULL")
     ELSE pPc' = "copy" /\ UNCHANGED pStatus
  /\ UNCHANGED <<queueVars, storage, pOp, pElem, pDone, pRoom, consumerVars>>

\* memcpy, one storage unit at a time, in any order
PushCopy(u) ==
  /\ pPc = "copy" /\ u \notin pDone
  /\ storage' = [storage EXCEPT ![writeIndex][u] = pElem[u]]
  /\ pDone' = pDone \union {u}
  /\ pPc' = IF Copied(pDone') THEN "advance" ELSE "copy"
  /\ UNCHANGED <<queueVars, pOp, pElem, pStatus, pRoom, consumerVars>>

PushAdvance ==
  /\ pPc = "advance"
  /\ writeIndex' = AdvanceIndex(writeIndex, capacity)
  /\ pPc' = "publish"
  /\ UNCHANGED <<state, capacity, readIndex, readSequence, writeSequence, storage,
                 pOp, pElem, pDone, pStatus, pRoom, consumerVars>>

PushPublish ==
  /\ pPc = "publish"
  /\ writeSequence' = SeqNext(writeSequence)
  /\ pDone' = {}
  /\ pRoom' = IF pRoom = 0 THEN 0 ELSE pRoom - 1
  /\ ProducerReturns("OK")
  /\ UNCHANGED <<state, capacity, readIndex, writeIndex, readSequence, storage,
                 pOp, pElem, consumerVars>>

ProducerStep ==
  \/ ProducerIndices \/ ProducerCount \/ ProducerAnswer
  \/ PushFull \/ (\E u \in Unit : PushCopy(u)) \/ PushAdvance \/ PushPublish

-----------------------------------------------------------------------------
(* The consumer: HAL_QUEUE_pop, HAL_QUEUE_peek and its queries. *)

ConsumerReturns(status) == cPc' = "idle" /\ cStatus' = status

PopNull ==
  /\ cPc = "idle"
  /\ ConsumerReturns("INVALID_ARGUMENT")
  /\ UNCHANGED <<queueVars, storage, cOp, cElem, cDone, cReady, delivered, producerVars>>

PopCall(op) ==
  /\ cPc = "idle"
  /\ cPc' = "indices" /\ cOp' = op
  /\ cStatus' = "PENDING"
  /\ UNCHANGED <<queueVars, storage, cElem, cDone, cReady, delivered, producerVars>>

ConsumerIndices ==
  /\ cPc = "indices"
  /\ IF ValidIndices
     THEN cPc' = "count" /\ UNCHANGED cStatus
     ELSE ConsumerReturns("INVALID_STATE")
  /\ UNCHANGED <<queueVars, storage, cOp, cElem, cDone, cReady, delivered, producerVars>>

ConsumerCount ==
  /\ cPc = "count"
  /\ IF Count <= capacity
     THEN cPc' = "snapshot" /\ UNCHANGED cStatus
     ELSE ConsumerReturns("INVALID_STATE")
  /\ UNCHANGED <<queueVars, storage, cOp, cElem, cDone, cReady, delivered, producerVars>>

ConsumerAnswer ==
  /\ cPc = "snapshot" /\ cOp = "query"
  /\ cReady' = Count
  /\ ConsumerReturns("OK")
  /\ UNCHANGED <<queueVars, storage, cOp, cElem, cDone, delivered, producerVars>>

\* Mutant: pop() waits for an element instead of returning HAL_STATUS_EMPTY.
PopWaits ==
  /\ cPc = "snapshot" /\ cOp # "query"
  /\ cPc' = IF IsEmpty(Count) THEN "snapshot" ELSE "copy"
  /\ UNCHANGED <<queueVars, storage, cOp, cElem, cDone, cStatus, cReady, delivered,
                 producerVars>>

PopEmpty ==
  /\ cPc = "snapshot" /\ cOp # "query"
  /\ IF IsEmpty(Count)
     THEN ConsumerReturns("EMPTY")
     ELSE cPc' = "copy" /\ UNCHANGED cStatus
  /\ UNCHANGED <<queueVars, storage, cOp, cElem, cDone, cReady, delivered, producerVars>>

\* memcpy into the caller's element; a peek returns after its last unit
PopCopy(u) ==
  /\ cPc = "copy" /\ u \notin cDone
  /\ cElem' = [cElem EXCEPT ![u] = storage[readIndex][u]]
  /\ IF ~Copied(cDone \union {u})
     THEN cDone' = cDone \union {u} /\ UNCHANGED <<cPc, cStatus, delivered>>
     ELSE /\ cDone' = {}
          /\ IF cOp = "peek"
             THEN ConsumerReturns("OK") /\ delivered' = cElem'
             ELSE cPc' = "advance" /\ UNCHANGED <<cStatus, delivered>>
  /\ UNCHANGED <<queueVars, storage, cOp, cReady, producerVars>>

PopAdvance ==
  /\ cPc = "advance"
  /\ readIndex' = AdvanceIndex(readIndex, capacity)
  /\ cPc' = "release"
  /\ UNCHANGED <<state, capacity, writeIndex, readSequence, writeSequence, storage,
                 cOp, cElem, cDone, cStatus, cReady, delivered, producerVars>>

PopRelease ==
  /\ cPc = "release"
  /\ readSequence' = SeqNext(readSequence)
  /\ cReady' = IF cReady = 0 THEN 0 ELSE cReady - 1
  /\ delivered' = cElem
  /\ ConsumerReturns("OK")
  /\ UNCHANGED <<state, capacity, readIndex, writeIndex, writeSequence, storage,
                 cOp, cElem, cDone, producerVars>>

ConsumerStep ==
  \/ ConsumerIndices \/ ConsumerCount \/ ConsumerAnswer
  \/ PopEmpty \/ (\E u \in Unit : PopCopy(u)) \/ PopAdvance \/ PopRelease

Next ==
  \/ \E cap \in 0..MaxCapacity : InitQueue(cap)
  \/ ClearQueue
  \/ PushNull
  \/ \E e \in Payload : PushCall(e)
  \/ ProducerQuery
  \/ ProducerStep
  \/ PopNull
  \/ \E op \in {"pop", "peek", "query"} : PopCall(op)
  \/ ConsumerStep

Spec == Init /\ [][Next]_vars

-----------------------------------------------------------------------------
(* Properties *)

ProducerPc == {"idle", "indices", "count", "snapshot", "copy", "advance", "publish"}
ConsumerPc == {"idle", "indices", "count", "snapshot", "copy", "advance", "release"}

\* Every field of HAL_QUEUE_Obj and every local of a call keeps its type.
TypeOK ==
  /\ state \in {"UNINITIALIZED", "READY"}
  /\ capacity \in 0..MaxCapacity
  /\ readIndex \in Nat /\ writeIndex \in Nat
  /\ readSequence \in 0..(SeqMod - 1) /\ writeSequence \in 0..(SeqMod - 1)
  /\ storage \in [0..(MaxCapacity - 1) -> Element]
  /\ pPc \in ProducerPc /\ pOp \in {"push", "query"} /\ pStatus \in Status
  /\ cPc \in ConsumerPc /\ cOp \in {"pop", "peek", "query"} /\ cStatus \in Status
  /\ pElem \in Payload /\ cElem \in Element /\ delivered \in Element
  /\ pDone \subseteq Unit /\ cDone \subseteq Unit
  /\ pRoom \in Nat /\ cReady \in Nat

ProducerOwnsSlot == pPc \in {"copy", "advance", "publish"}
ConsumerOwnsSlot == cPc \in {"copy", "advance", "release"}

\* An initialised queue passes validateHandle() at every instant, in the middle
\* of the other context's push or pop too: no call made after HAL_QUEUE_init()
\* returns HAL_STATUS_INVALID_STATE because of an update in progress.
ValidationPasses == state = "READY" => ValidIndices /\ Count <= capacity

\* The slot push() is filling is never the slot pop() or peek() is copying from,
\* although neither context looks at the other's index.
SlotExclusion ==
  ~ (/\ pPc \in {"copy", "advance"}
     /\ cPc \in {"copy", "advance"}
     /\ writeIndex = readIndex)

\* Index of the slot before i.
Prev(i) == IF i = 0 THEN capacity - 1 ELSE i - 1

\* The indices as the sequences see them: each index moves one step before
\* its sequence does.
FirstSlot == IF cPc = "release" THEN Prev(readIndex) ELSE readIndex
FreeSlot  == IF pPc = "publish" THEN Prev(writeIndex) ELSE writeIndex

\* The distance between the two ring indices is the distance between the two
\* wrapping sequences, also when the sequences wrap and the capacity does not
\* divide their range; and a context that owns a slot was entitled to it.
RingConsistent ==
  /\ state = "READY" =>
       /\ capacity \in 1..MaxCapacity /\ capacity < SeqMod
       /\ readIndex < capacity /\ writeIndex < capacity
       /\ Count <= capacity
       /\ FreeSlot - FirstSlot \in {Count, Count - capacity}
  /\ ProducerOwnsSlot => state = "READY" /\ Count < capacity
  /\ ConsumerOwnsSlot => state = "READY" /\ Count > 0
  /\ pPc \in {"count", "snapshot"} \/ cPc \in {"count", "snapshot"} => state = "READY"

\* An occupancy query is a promise to the context that made it: what the other
\* context does can only leave it more room to push, or more elements to pop.
QueriesAreConservative ==
  /\ pRoom <= capacity - Count
  /\ cReady <= Count

\* The elements a consumer can still take, oldest first.
Contents == [k \in 1..Count |-> storage[(FirstSlot + k - 1) % capacity]]

Fifo == INSTANCE BoundedFifo
          WITH fifo <- Contents, limit <- capacity, offered <- pElem,
               delivered <- delivered,
               pOp <- pOp, pStatus <- pStatus, cOp <- cOp, cStatus <- cStatus

\* The lock-free ring implements the bounded FIFO: no accepted element is lost,
\* duplicated, reordered or torn, and every status a call returns was true at
\* one instant of the call, whatever the interleaving of the two contexts and
\* wherever the sequences wrap.
ImplementsFifo == Fifo!Spec

\* A producer that keeps executing returns from its call even if the consumer is
\* stalled in the middle of its own, as a foreground is that an interrupt preempts.
PushReturns == WF_vars(ProducerStep) => (pPc # "idle" ~> pPc = "idle")

\* The same of the consumer, whatever the producer does or stopped doing.
PopReturns == WF_vars(ConsumerStep) => (cPc # "idle" ~> cPc = "idle")
=============================================================================
