----------------------------- MODULE BoundedFifo -----------------------------
(***************************************************************************)
(* What the software queue promises to its two callers, with no ring, no   *)
(* index and no sequence number: a bounded FIFO between one producer and   *)
(* one consumer, each of whose calls takes effect at a single instant      *)
(* (docs/software_queue.md, include/hal/hal_queue.h).                      *)
(***************************************************************************)
EXTENDS Naturals, Sequences

CONSTANTS
  Element,      \* everything a caller's buffer can hold
  Payload       \* what the producer may offer

VARIABLES
  fifo,         \* accepted elements not yet removed, oldest first
  limit,        \* configured capacity; 0 before the first initialisation
  offered,      \* the producer's source element
  delivered,    \* the consumer's buffer as of its last successful call
  pOp, pStatus, \* the producer's call and its result, "PENDING" until it returns
  cOp, cStatus  \* the same for the consumer

producer == <<offered, pOp, pStatus>>
consumer == <<delivered, cOp, cStatus>>
vars == <<fifo, limit, producer, consumer>>

Init ==
  /\ fifo = <<>> /\ limit = 0
  /\ offered \in Payload /\ delivered \in Element
  /\ pOp = "push" /\ pStatus = "OK"
  /\ cOp = "pop" /\ cStatus = "OK"

-----------------------------------------------------------------------------
(* Setup, while no call is in progress *)

Idle == pStatus # "PENDING" /\ cStatus # "PENDING"

\* Initialise, reinitialise or clear: every element is dropped.
Reset ==
  /\ Idle
  /\ fifo' = <<>> /\ limit' \in Nat \ {0} /\ pStatus' = "OK"
  /\ UNCHANGED <<offered, pOp, consumer>>

\* An invalid capacity, or a clear before the first initialisation, is refused.
RefuseSetup ==
  /\ Idle
  /\ \/ pStatus' = "INVALID_ARGUMENT"
     \/ pStatus' = "INVALID_STATE" /\ limit = 0
  /\ UNCHANGED <<fifo, limit, offered, pOp, consumer>>

-----------------------------------------------------------------------------
(* The producer *)

Produce ==
  /\ pStatus # "PENDING"
  /\ pStatus' = "PENDING" /\ pOp' \in {"push", "query"} /\ offered' \in Payload
  /\ UNCHANGED <<fifo, limit, consumer>>

\* A push accepts exactly the offered element, and only when there is room.
Enqueue ==
  /\ pStatus = "PENDING" /\ pOp = "push"
  /\ Len(fifo) < limit
  /\ fifo' = Append(fifo, offered) /\ pStatus' = "OK"
  /\ UNCHANGED <<limit, offered, pOp, consumer>>

\* Nothing else returns: FULL needs a full queue, INVALID_STATE one that was
\* never initialised.
ProducerOther ==
  /\ \/ pStatus # "PENDING" /\ pStatus' = "INVALID_ARGUMENT"
     \/ /\ pStatus = "PENDING"
        /\ \/ pOp = "push" /\ Len(fifo) = limit /\ pStatus' = "FULL"
           \/ pOp = "query" /\ pStatus' = "OK"
           \/ limit = 0 /\ pStatus' = "INVALID_STATE"
  /\ UNCHANGED <<fifo, limit, offered, pOp, consumer>>

-----------------------------------------------------------------------------
(* The consumer *)

Consume ==
  /\ cStatus # "PENDING"
  /\ cStatus' = "PENDING" /\ cOp' \in {"pop", "peek", "query"}
  /\ UNCHANGED <<fifo, limit, delivered, producer>>

\* A pop hands out exactly the oldest element and removes it; a peek leaves it.
Take ==
  /\ cStatus = "PENDING" /\ cOp \in {"pop", "peek"}
  /\ fifo # <<>>
  /\ delivered' = Head(fifo) /\ cStatus' = "OK"
  /\ fifo' = IF cOp = "pop" THEN Tail(fifo) ELSE fifo
  /\ UNCHANGED <<limit, cOp, producer>>

ConsumerOther ==
  /\ \/ cStatus # "PENDING" /\ cStatus' = "INVALID_ARGUMENT"
     \/ /\ cStatus = "PENDING"
        /\ \/ cOp \in {"pop", "peek"} /\ fifo = <<>> /\ cStatus' = "EMPTY"
           \/ cOp = "query" /\ cStatus' = "OK"
           \/ limit = 0 /\ cStatus' = "INVALID_STATE"
  /\ UNCHANGED <<fifo, limit, delivered, cOp, producer>>

Next ==
  \/ Reset \/ RefuseSetup
  \/ Produce \/ Enqueue \/ ProducerOther
  \/ Consume \/ Take \/ ConsumerOther

Spec == Init /\ [][Next]_vars
==============================================================================
