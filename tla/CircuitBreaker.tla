--------------------------- MODULE CircuitBreaker ---------------------------
(***************************************************************************)
(* One backend as the gateway sees it over an unbounded run: dispatches    *)
(* occupy its row, the results of those dispatches come back in any order  *)
(* and however late, the scheduler ticks, and cooldowns run out.           *)
(*                                                                         *)
(* The row and the functions that update it are those of BackendState.     *)
(* Demand is endless: a slot stands for a request this backend serves and  *)
(* is used again by the next one.                                          *)
(***************************************************************************)
EXTENDS BackendState, FiniteSets

CONSTANTS
  Slots,      \* requests that can be at the backend at the same time
  Limit,      \* hard_limit
  Outcomes    \* what may come of a dispatch, see AllOutcomes

AllOutcomes ==
  { "ok",             \* status below 400
    "client_error",   \* status from 400 to 499
    "server_error",   \* status from 500, or a timeout or failed connect
    "twice",          \* a retryable failure, and no other backend to retry on
    "crash",          \* an exception the proxy does not catch
    "stream",         \* headers below 400 of a streamed response
    "abandon" }       \* a streamed response whose body is never started

ASSUME BreakerAssumption ==
  /\ Limit \in Nat
  /\ Outcomes \subseteq AllOutcomes

VARIABLES
  row,    \* the backend's runtime row
  work    \* work[s]: what slot s is doing

vars == <<row, work>>

Idle == [s \in Slots |-> "idle"]

Init == row = NewBackend /\ work = Idle

Become(s, w) == work' = [work EXCEPT ![s] = w]

-----------------------------------------------------------------------------
(* The scheduler and the clock.                                            *)

\* tick_circuits, and the refresh in every eligibility test.
Tick ==
  /\ row' = MaybeTransitionFromOpen(row)
  /\ UNCHANGED work

\* open_cooldown_ms have passed since the circuit opened.
Cooldown ==
  /\ row.timer = "running"
  /\ row' = [row EXCEPT !.timer = "elapsed"]
  /\ UNCHANGED work

\* The scheduler, or a retry, sends a request here.
Dispatch(s) ==
  /\ work[s] = "idle"
  /\ IsHealthyForSchedule(row, Limit, FALSE)
  /\ row' = Occupy(MaybeTransitionFromOpen(row), FALSE)
  /\ Become(s, "sent")

-----------------------------------------------------------------------------
(* Results.                                                                *)

Succeed(s) ==
  /\ "ok" \in Outcomes
  /\ work[s] = "sent"
  /\ row' = Release(UpdateSuccess(OnSuccess(row)), FALSE)
  /\ Become(s, "idle")

\* After a failure the dispatch is given back, and given back again when it
\* was to be retried and no other backend takes it.
GiveBack(s, failed) ==
  /\ work[s] = "sent"
  /\ \/ row' = Release(failed, FALSE)
     \/ "twice" \in Outcomes /\ row' = Release(Release(failed, FALSE), FALSE)
  /\ Become(s, "idle")

ClientError(s) ==
  /\ "client_error" \in Outcomes
  /\ GiveBack(s, UpdateFailure(row))

ServerError(s) ==
  /\ "server_error" \in Outcomes
  /\ GiveBack(s, UpdateFailure(OnFailure(row)))

Crash(s) ==
  /\ "crash" \in Outcomes
  /\ work[s] = "sent"
  /\ Become(s, "idle")
  /\ UNCHANGED row

StreamHeaders(s) ==
  /\ "stream" \in Outcomes
  /\ work[s] = "sent"
  /\ row' = UpdateSuccess(OnSuccess(row))
  /\ Become(s, "streaming")

StreamFinish(s) ==
  /\ work[s] = "streaming"
  /\ row' = Release(UpdateSuccess(row), FALSE)
  /\ Become(s, "idle")

AbandonStream(s) ==
  /\ "abandon" \in Outcomes
  /\ work[s] = "streaming"
  /\ Become(s, "idle")
  /\ UNCHANGED row

Result(s) ==
  \/ Succeed(s)
  \/ ClientError(s)
  \/ ServerError(s)
  \/ Crash(s)
  \/ StreamHeaders(s)
  \/ StreamFinish(s)
  \/ AbandonStream(s)

Next ==
  \/ Tick
  \/ Cooldown
  \/ \E s \in Slots : Dispatch(s) \/ Result(s)

Spec == Init /\ [][Next]_vars

(***************************************************************************)
(* The scheduler ticks every tick_ms, time passes, and an upstream answers *)
(* or runs into request_timeout_ms.  With endless demand a backend that    *)
(* stays eligible gets a request.                                          *)
(***************************************************************************)
Fairness ==
  /\ WF_vars(Tick)
  /\ WF_vars(Cooldown)
  /\ WF_vars(\E s \in Slots : Dispatch(s))
  /\ \A s \in Slots : WF_vars(Result(s))

FairSpec == Spec /\ Fairness

-----------------------------------------------------------------------------
(* Safety.                                                                 *)

\* The row is a well-formed row and every slot is in one of its states.
TypeOK ==
  /\ row \in BackendStates
  /\ work \in [Slots -> {"idle", "sent", "streaming"}]

\* Whatever order results arrive in (also results of dispatches made before
\* the circuit last opened), the circuit, the failure streak, the probe count
\* and the opening time of the row tell the same story (health.py).
CircuitConsistent == FieldsAgree(row)

\* The gateway's own count never passes hard_limit, whatever mix of releases,
\* double releases and leaks precedes a dispatch (registry.py).
CountWithinLimit == row.inflight <= Limit

\* The circuit only moves along the diagram of docs/artichecture.md, and it
\* leaves the open state only after a whole cooldown (health.py).
CircuitFollowsDiagram ==
  [][row'.circuit # row.circuit =>
       \/ row.circuit = "closed"    /\ row'.circuit = "open"
                                    /\ row'.timer = "running"
       \/ row.circuit = "open"      /\ row'.circuit = "half_open"
                                    /\ row.timer = "elapsed"
       \/ row.circuit = "half_open" /\ row'.circuit = "closed"
       \/ row.circuit = "half_open" /\ row'.circuit = "open"
                                    /\ row'.timer = "running"]_vars

\* Nothing new is sent to a backend whose circuit opened less than a cooldown
\* ago, by the scheduler or by a retry (registry.py).
NothingSentDuringCooldown ==
  [][row.timer = "running" =>
       \A s \in Slots : work[s] = "idle" => work'[s] = "idle"]_vars

-----------------------------------------------------------------------------
(* Liveness, under FairSpec.                                               *)

\* A circuit that opened gets its recovery traffic: it does not stay open, nor
\* half-open without a probe (health.py).
RecoveryTraffic ==
  row.circuit = "open" ~> (row.circuit # "open" /\ row.probes > 0)
                           \/ row.circuit = "closed"

\* The probe phase comes to an end: the circuit closes or opens again.
ProbesAreDecided == row.circuit = "half_open" ~> row.circuit # "half_open"

=============================================================================
