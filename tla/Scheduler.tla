----------------------------- MODULE Scheduler -----------------------------
(***************************************************************************)
(* Admission and scheduling: the handler of a request from its arrival to  *)
(* its proxy call (api/routes.py), the admission queue between handlers    *)
(* and scheduler, and the scheduler's tick (scheduler/dispatcher.py).      *)
(*                                                                         *)
(* A tick awaits only functions that do not suspend, so no handler runs    *)
(* between its first and its last step; the clock does.  A tick is several *)
(* steps here, and every step of a handler waits for LoopFree.             *)
(***************************************************************************)
EXTENDS Proxy, AdmissionQueue

VARIABLES
  queue,    \* the admission queue
  ticking,  \* a tick is dispatching its batch
  batch,    \* the part of the popped batch the tick has still to look at
  held      \* the part of the batch to put back in front

schedulerVars == <<queue, ticking, batch, held>>

vars == <<backend, pc, target, attempts, queue, ticking, batch, held>>

\* pc[r] while the handler of r awaits dispatch_future:
\*   waiting     the future is pending, r is younger than queue_max_age_ms
\*   overdue     the future is pending, r is older
\*   timedout    wait_for has cancelled the future, the handler has not run
\*   rejected    the future has an exception, the handler has not run
\*   dispatched  the future has a target, the handler has not run
Awaiting == {"waiting", "overdue", "timedout", "rejected", "dispatched"}

\* The future of r is not done.
Unresolved(r) == pc[r] \in {"waiting", "overdue"}

\* Mutant of LoopFree: handlers may run in the middle of a tick.
LoopPreempted == TRUE

LoopFree == ~ticking

Become(r, where) == pc' = [pc EXCEPT ![r] = where]

-----------------------------------------------------------------------------
(* The clock.  The tick reads it once, before its loop.                    *)

\* r has waited for queue_max_age_ms.
Age(r) ==
  /\ LoopFree
  /\ pc[r] = "waiting"
  /\ Become(r, "overdue")
  /\ UNCHANGED <<backend, target, attempts, schedulerVars>>

\* open_cooldown_ms have passed since the circuit of b opened.  Eligibility
\* tests read the clock each time, so this can happen within a tick.
Cooldown(b) ==
  /\ backend[b].timer = "running"
  /\ backend' = [backend EXCEPT ![b].timer = "elapsed"]
  /\ UNCHANGED <<pc, target, attempts, schedulerVars>>

-----------------------------------------------------------------------------
(* The handler.                                                            *)

\* There is no place for r: the fallback serves it, or it is turned away.
Divert(r, reply) ==
  IF FallbackEnabled
    THEN BeginProxy(r, Fallback)
    ELSE Answer(r, reply) /\ UNCHANGED backend

\* A valid request is enqueued, and its handler awaits the future; or the
\* queue is full.
Arrive(r) ==
  /\ LoopFree
  /\ pc[r] = "new"
  /\ IF HasRoom(queue)
       THEN /\ queue' = Enqueue(queue, r)
            /\ Become(r, "waiting")
            /\ UNCHANGED <<backend, target, attempts>>
       ELSE /\ Divert(r, "queue_full")
            /\ UNCHANGED queue
  /\ UNCHANGED <<ticking, batch, held>>

\* wait_for gives up: it cancels the future, and the handler will run.
TimerFires(r) ==
  /\ LoopFree
  /\ pc[r] = "overdue"
  /\ Become(r, "timedout")
  /\ UNCHANGED <<backend, target, attempts, schedulerVars>>

\* The handler runs again once its future is done.
Resume(r) ==
  /\ LoopFree
  /\ \/ pc[r] = "dispatched" /\ BeginProxy(r, target[r])
     \/ pc[r] = "timedout"   /\ Divert(r, "queue_age")
     \/ pc[r] = "rejected"   /\ Divert(r, "no_backend")
  /\ UNCHANGED schedulerVars

-----------------------------------------------------------------------------
(* The scheduler.                                                          *)

\* tick_circuits, then pop_batch.  With an empty batch that is all.
TickBegin ==
  /\ LoopFree
  /\ backend' = Refreshed(backend, NoTarget)
  /\ batch' = Popped(queue)
  /\ queue' = Rest(queue)
  /\ ticking' = (batch' # <<>>)
  /\ UNCHANGED <<pc, target, attempts, held>>

\* The loop over the batch looks at its next request, r.
LooksAt(r) == ticking /\ batch # <<>> /\ r = Head(batch) /\ batch' = Tail(batch)

\* Its future is done already: wait_for has cancelled it.
Skip(r) ==
  /\ LooksAt(r)
  /\ ~Unresolved(r)
  /\ UNCHANGED <<backend, pc, target, attempts, queue, ticking, held>>

\* It has waited too long.
RejectOverdue(r) ==
  /\ LooksAt(r)
  /\ pc[r] = "overdue"
  /\ Become(r, "rejected")
  /\ UNCHANGED <<backend, target, attempts, queue, ticking, held>>

\* Mutant of Hold: put back without a look at the backends.
HoldAnyway(r) ==
  /\ LooksAt(r)
  /\ pc[r] = "waiting"
  /\ held' = Append(held, r)
  /\ backend' = Refreshed(backend, NoTarget)
  /\ UNCHANGED <<pc, target, attempts, queue, ticking>>

\* No backend is eligible.
Hold(r) ==
  /\ LooksAt(r)
  /\ pc[r] = "waiting"
  /\ Eligible(backend, NoTarget) = {}
  /\ held' = Append(held, r)
  /\ backend' = Refreshed(backend, NoTarget)
  /\ UNCHANGED <<pc, target, attempts, queue, ticking>>

\* Mutant of Assign: the test on the future is dropped.
AssignDone(r) ==
  /\ LooksAt(r)
  /\ pc[r] # "overdue"
  /\ \E b \in Eligible(backend, NoTarget) :
       /\ backend' = Charged(backend, NoTarget, b, r)
       /\ target' = [target EXCEPT ![r] = b]
  /\ Become(r, "dispatched")
  /\ UNCHANGED <<attempts, queue, ticking, held>>

\* A backend is chosen, charged, and made the result of the future.
Assign(r) ==
  /\ LooksAt(r)
  /\ pc[r] = "waiting"
  /\ \E b \in Eligible(backend, NoTarget) :
       /\ backend' = Charged(backend, NoTarget, b, r)
       /\ target' = [target EXCEPT ![r] = b]
  /\ Become(r, "dispatched")
  /\ UNCHANGED <<attempts, queue, ticking, held>>

\* What no backend could take goes back in front of what arrived meanwhile.
TickEnd ==
  /\ ticking
  /\ batch = <<>>
  /\ queue' = RequeueFront(queue, held)
  /\ held' = <<>>
  /\ ticking' = FALSE
  /\ UNCHANGED <<backend, pc, target, attempts, batch>>

TickStep ==
  \/ TickBegin
  \/ TickEnd
  \/ \E r \in Requests : Skip(r) \/ RejectOverdue(r) \/ Hold(r) \/ Assign(r)

=============================================================================
