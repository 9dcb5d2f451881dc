--------------------------- MODULE AdmissionQueue ---------------------------
(***************************************************************************)
(* The bounded admission queue (queue/admission_queue.py).  Its lock is    *)
(* never held across a suspension of the event loop, so each operation is  *)
(* one step: an operator from a queue to the queue it leaves behind.       *)
(***************************************************************************)
EXTENDS Integers, Sequences

CONSTANTS
  QueueMax,   \* scheduler.queue_max_size
  BatchSize   \* scheduler.dispatch_batch_size

ASSUME QueueAssumption == QueueMax \in Nat /\ BatchSize \in Nat

HasRoom(q) == Len(q) < QueueMax

Enqueue(q, r) == Append(q, r)

\* pop_batch: what it takes from the head, and what it leaves.
Taken(q) == IF Len(q) < BatchSize THEN Len(q) ELSE BatchSize

Popped(q) == SubSeq(q, 1, Taken(q))

Rest(q) == SubSeq(q, Taken(q) + 1, Len(q))

\* Mutant of RequeueFront: the items go to the back.
RequeueBack(q, items) == q \o items

\* Mutant of RequeueFront: the items are lost.
RequeueNothing(q, items) == q

RequeueFront(q, items) == items \o q

=============================================================================
