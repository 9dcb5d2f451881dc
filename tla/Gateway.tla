------------------------------ MODULE Gateway ------------------------------
(***************************************************************************)
(* The gateway: every handler, the scheduler and every backend's row.      *)
(***************************************************************************)
EXTENDS Scheduler

Init ==
  /\ backend = [b \in Backends |-> NewBackend]
  /\ pc = [r \in Requests |-> "new"]
  /\ target = [r \in Requests |-> NoTarget]
  /\ attempts = [r \in Requests |-> 0]
  /\ queue = <<>>
  /\ ticking = FALSE
  /\ batch = <<>>
  /\ held = <<>>

\* The handler of r runs with the result of its upstream attempt.
Proceed(r) ==
  /\ LoopFree
  /\ UpstreamResult(r)
  /\ UNCHANGED schedulerVars

Next ==
  \/ TickStep
  \/ \E b \in Backends : Cooldown(b)
  \/ \E r \in Requests :
       Arrive(r) \/ Age(r) \/ TimerFires(r) \/ Resume(r) \/ Proceed(r)

Spec == Init /\ [][Next]_vars

(***************************************************************************)
(* The event loop runs the scheduler when its tick is due and a handler    *)
(* when what it awaits is done; a timer fires when it is due; an upstream  *)
(* answers, or its silence ends in a timeout.  A tick disables handlers    *)
(* for a moment, hence strong fairness for them; where a request is tells  *)
(* which of its four steps can be next.                                    *)
(***************************************************************************)
Fairness ==
  /\ WF_vars(TickStep)
  /\ \A b \in Backends : WF_vars(Cooldown(b))
  /\ \A r \in Requests :
       SF_vars(Age(r) \/ TimerFires(r) \/ Resume(r) \/ Proceed(r))

-----------------------------------------------------------------------------
(* The state.                                                              *)

\* Rows are well-formed rows (a count never goes below zero although it can be
\* released twice), handlers are where they can be, and what is queued, popped
\* and held are sequences of requests.
TypeOK ==
  /\ backend \in [Backends -> BackendStates]
  /\ pc \in [Requests -> {"new"} \cup Awaiting \cup Outstanding \cup Replies]
  /\ target \in [Requests -> Backends \cup {Fallback, NoTarget}]
  /\ attempts \in [Requests -> 0..MaxAttempts]
  /\ queue \in Seq(Requests)
  /\ batch \in Seq(Requests)
  /\ held \in Seq(Requests)
  /\ ticking \in BOOLEAN

\* A request is at a backend or the fallback exactly while its handler says so.
TargetHeld ==
  \A r \in Requests :
    /\ pc[r] = "dispatched" => target[r] \in Backends
    /\ pc[r] \in Outstanding => target[r] # NoTarget
    /\ pc[r] \notin Outstanding \cup {"dispatched"} => target[r] = NoTarget

-----------------------------------------------------------------------------
(* The circuits and the load of the backends.                              *)

\* In every interleaving of results, retries and ticks the fields of each row
\* agree (health.py).
CircuitsConsistent == \A b \in Backends : FieldsAgree(backend[b])

\* No mix of the scheduler's dispatches and of retries takes the gateway's
\* count of a backend past its hard_limit (registry.py).
CountWithinLimit == \A b \in Backends : backend[b].inflight <= HardLimit[b]

\* The count of a backend holds no request that has left it: its capacity is
\* given back on every path out of the proxy (client.py).
NoPhantomLoad ==
  \A b \in Backends :
    /\ backend[b].inflight <= Cardinality(Serving(b))
    /\ backend[b].large <= Cardinality(Serving(b) \cap Large)

\* The handlers whose exception, or whose unread stream, left no release.
Leaked == {r \in Requests : pc[r] \in {"crashed", "abandoned"}}

\* The count of a backend is never above its requests by more than the handlers
\* that ended without a release: no interleaving loses capacity in another way.
PhantomsAreLeaks ==
  \A b \in Backends :
    /\ backend[b].inflight <= Cardinality(Serving(b)) + Cardinality(Leaked)
    /\ backend[b].large
         <= Cardinality(Serving(b) \cap Large) + Cardinality(Leaked \cap Large)

\* Every request at a backend is in its count, so it is given back only once.
EveryDispatchCounted ==
  \A b \in Backends :
    /\ Cardinality(Serving(b)) <= backend[b].inflight
    /\ Cardinality(Serving(b) \cap Large) <= backend[b].large

\* What hard_limit is for: so many requests at the backend and no more.
LoadWithinHardLimit ==
  \A b \in Backends : Cardinality(Serving(b)) <= HardLimit[b]

\* A drained backend gets no request, from the scheduler or from a retry.
DrainedUnused == \A b \in Drained : Serving(b) = {}

-----------------------------------------------------------------------------
(* The queue.                                                              *)

\* The requests between admission and dispatch, in the order in which the
\* scheduler is to look at them.
Line == held \o batch \o queue

\* The queue stays within queue_max_size although requeue_front does not test
\* for it: the places of a popped batch are not given away during the tick.
QueueBounded == Len(Line) <= QueueMax

\* A request whose future is pending is in exactly one place of the line: no
\* tick loses it or handles it twice.
ExactlyOnePlace ==
  \A r \in Requests :
    Unresolved(r) => Cardinality({i \in 1..Len(Line) : Line[i] = r}) = 1

\* r stands before s in the line.
Before(line, r, s) ==
  \E i, j \in 1..Len(line) : i < j /\ line[i] = r /\ line[j] = s

\* Requests that no backend can take keep their order of arrival, however
\* often they are popped and put back (requeue_front).
OrderKept ==
  [][\A r, s \in Requests : Before(Line, r, s) => ~Before(Line', s, r)]_vars

\* Within a tick a request passes an older one only onto a backend whose
\* cooldown ran out after the older one was looked at.
OvertakenOnlyByProbe ==
  [][\A r \in Requests :
       pc[r] = "waiting" /\ pc'[r] = "dispatched" /\ held # <<>> =>
         backend'[target'[r]].circuit = "half_open"]_vars

-----------------------------------------------------------------------------
(* Handlers.                                                               *)

\* The race between wait_for and the tick: a request that was timed out,
\* rejected or answered is never sent to a backend by a tick, and an answer
\* is final.
NoLateDispatch ==
  [][\A r \in Requests :
       /\ pc'[r] = "dispatched" => pc[r] \in {"waiting", "dispatched"}
       /\ pc[r] \in Replies => pc'[r] = pc[r] /\ target'[r] = target[r]]_vars

\* A retry leaves the backend it failed on and takes one that may be sent to.
RetryGoesElsewhere ==
  [][\A r \in Requests :
       pc[r] = "upstream" /\ pc'[r] = "upstream" /\ attempts'[r] # attempts[r] =>
         /\ target'[r] \in Backends \ {target[r]}
         /\ backend'[target'[r]].circuit # "open"]_vars

\* How many steps a handler at a place has still before it, at most, when it has
\* made so many attempts.
StepsFrom(place, made) ==
  CASE place = "new"      -> MaxAttempts + 5
    [] place = "waiting"  -> MaxAttempts + 4
    [] place = "overdue"  -> MaxAttempts + 3
    [] place \in {"timedout", "rejected", "dispatched"} -> MaxAttempts + 2
    [] place = "upstream" -> MaxAttempts - made + 2
    [] place = "headers"  -> 1
    [] place \in Replies  -> 0

StepsLeft(r) == StepsFrom(pc[r], attempts[r])

\* Whatever happens to a request brings it nearer to its answer: it never goes
\* back to the queue, and its retries run out (routes.py, client.py).
HandlersAdvance ==
  [][\A r \in Requests :
       <<pc[r], target[r], attempts[r]>>' # <<pc[r], target[r], attempts[r]>> =>
         StepsLeft(r) \in Nat /\ StepsLeft(r)' < StepsLeft(r)]_vars

\* Every request that was admitted is answered.
EveryRequestAnswered ==
  \A r \in Requests : pc[r] = "waiting" ~> pc[r] \in Replies

=============================================================================
