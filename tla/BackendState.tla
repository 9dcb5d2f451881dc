---------------------------- MODULE BackendState ----------------------------
(***************************************************************************)
(* The runtime row the gateway keeps for one backend                       *)
(* (backends/state.py), the circuit breaker that lives in it               *)
(* (backends/health.py), the eligibility rule that reads it                *)
(* (backends/registry.py) and the release that ends a dispatch             *)
(* (proxy/client.py).  Every function there takes a row and updates it in  *)
(* place; here each is an operator from a row to the row it leaves behind. *)
(*                                                                         *)
(* Left out of the row: the latency averages, the dispatch timestamps and  *)
(* the soft limit.  Only the choice among eligible backends reads them, and *)
(* Scoring and Placement keep them.                                        *)
(***************************************************************************)
EXTENDS Integers

CONSTANTS
  OpenThreshold,  \* health.consecutive_failures_open
  HalfOpenMax,    \* health.half_open_max_inflight
  ErrorScale,     \* the integer that stands for a recent_error_rate of 1.0
  ErrorCap        \* health.max_error_rate_for_eligibility, in that scale

ASSUME HealthAssumption ==
  /\ OpenThreshold \in Nat \ {0}
  /\ HalfOpenMax \in Nat
  /\ ErrorScale \in Nat \ {0}
  /\ ErrorCap \in Nat

Circuits == {"closed", "open", "half_open"}

\* circuit_opened_at_monotonic against open_cooldown_ms: None, less than a
\* cooldown ago, or at least a cooldown ago.
Timers == {"none", "running", "elapsed"}

BackendStates ==
  [ inflight : Nat,           \* dispatched here and not yet released
    large    : Nat,           \* large_inflight
    circuit  : Circuits,
    failures : Nat,           \* consecutive_failures
    probes   : Nat,           \* half_open_probes
    timer    : Timers,
    errors   : 0..ErrorScale ]  \* recent_error_rate

NewBackend ==
  [ inflight |-> 0, large |-> 0, circuit |-> "closed", failures |-> 0,
    probes |-> 0, timer |-> "none", errors |-> 0 ]

-----------------------------------------------------------------------------
(* The error average, in integers: each update rounds down.                *)

UpdateSuccess(s) == [s EXCEPT !.errors = (85 * s.errors) \div 100]

UpdateFailure(s) ==
  [s EXCEPT !.errors = (25 * ErrorScale + 75 * s.errors) \div 100]

-----------------------------------------------------------------------------
(* The circuit breaker.                                                    *)

OnRequestStart(s) ==
  IF s.circuit = "half_open" THEN [s EXCEPT !.probes = s.probes + 1] ELSE s

\* Mutant of OnSuccess: the circuit closes but the probe count survives.
OnSuccessKeepsProbes(s) ==
  IF s.circuit = "half_open"
    THEN [s EXCEPT !.failures = 0, !.circuit = "closed", !.timer = "none"]
    ELSE [s EXCEPT !.failures = 0]

OnSuccess(s) ==
  IF s.circuit = "half_open"
    THEN [s EXCEPT !.failures = 0, !.circuit = "closed", !.probes = 0,
                   !.timer = "none"]
    ELSE [s EXCEPT !.failures = 0]

\* Mutant of OnFailure: a failed probe opens the circuit again without
\* restarting the cooldown.
OnFailureKeepsTimer(s) ==
  LET failed == [s EXCEPT !.failures = s.failures + 1]
  IN  CASE s.circuit = "half_open" ->
             [failed EXCEPT !.circuit = "open", !.probes = 0]
        [] s.circuit = "closed" /\ failed.failures >= OpenThreshold ->
             [failed EXCEPT !.circuit = "open", !.timer = "running"]
        [] OTHER -> failed

\* Mutant of OnFailure: a failed probe leaves the circuit half-open.
OnFailureIgnoresProbe(s) ==
  LET failed == [s EXCEPT !.failures = s.failures + 1]
  IN  IF s.circuit = "closed" /\ failed.failures >= OpenThreshold
        THEN [failed EXCEPT !.circuit = "open", !.timer = "running"]
        ELSE failed

OnFailure(s) ==
  LET failed == [s EXCEPT !.failures = s.failures + 1]
  IN  CASE s.circuit = "half_open" ->
             [failed EXCEPT !.circuit = "open", !.timer = "running",
                            !.probes = 0]
        [] s.circuit = "closed" /\ failed.failures >= OpenThreshold ->
             [failed EXCEPT !.circuit = "open", !.timer = "running"]
        [] OTHER -> failed

\* Mutant of MaybeTransitionFromOpen: the cooldown is not waited for.
TransitionWithoutCooldown(s) ==
  IF s.circuit = "open"
    THEN [s EXCEPT !.circuit = "half_open", !.probes = 0, !.failures = 0]
    ELSE s

\* Mutant of MaybeTransitionFromOpen: the failure streak survives.
TransitionKeepsFailures(s) ==
  IF s.circuit = "open" /\ s.timer = "elapsed"
    THEN [s EXCEPT !.circuit = "half_open", !.probes = 0]
    ELSE s

\* Mutant of MaybeTransitionFromOpen: the test for an open circuit is dropped.
TransitionAgain(s) ==
  IF s.timer = "elapsed"
    THEN [s EXCEPT !.circuit = "half_open", !.probes = 0, !.failures = 0]
    ELSE s

MaybeTransitionFromOpen(s) ==
  IF s.circuit = "open" /\ s.timer = "elapsed"
    THEN [s EXCEPT !.circuit = "half_open", !.probes = 0, !.failures = 0]
    ELSE s

\* Mutant of HalfOpenAllowDispatch: the last probe slot is never used.
HalfOpenAllowsOneLess(s) ==
  s.circuit = "half_open" => s.probes + 1 < HalfOpenMax

HalfOpenAllowDispatch(s) ==
  s.circuit = "half_open" => s.probes < HalfOpenMax

-----------------------------------------------------------------------------
(* Eligibility, occupation and release.                                    *)

\* Mutant of IsHealthyForSchedule: the hard limit is off by one.
HealthyOneOverLimit(s, limit, drained) ==
  LET t == MaybeTransitionFromOpen(s)
  IN  /\ ~drained
      /\ t.circuit # "open"
      /\ t.inflight <= limit
      /\ t.errors <= ErrorCap
      /\ HalfOpenAllowDispatch(t)

\* Mutant of IsHealthyForSchedule: the error average does not exclude.
HealthyDespiteErrors(s, limit, drained) ==
  LET t == MaybeTransitionFromOpen(s)
  IN  /\ ~drained
      /\ t.circuit # "open"
      /\ t.inflight < limit
      /\ HalfOpenAllowDispatch(t)

\* The code refreshes the circuit of the row before it looks at it; whoever
\* calls this also keeps the refreshed row.
IsHealthyForSchedule(s, limit, drained) ==
  LET t == MaybeTransitionFromOpen(s)
  IN  /\ ~drained
      /\ t.circuit # "open"
      /\ t.inflight < limit
      /\ t.errors <= ErrorCap
      /\ HalfOpenAllowDispatch(t)

\* One more dispatch on this backend; large says the request counts as a
\* large chat or a long stream.
Occupy(s, large) ==
  LET t == OnRequestStart(s)
  IN  [t EXCEPT !.inflight = t.inflight + 1,
                !.large = IF large THEN t.large + 1 ELSE t.large]

\* Mutant of Release: the counters are not kept at or above zero.
ReleaseUnclamped(s, large) ==
  [s EXCEPT !.inflight = s.inflight - 1,
            !.large = IF large THEN s.large - 1 ELSE s.large]

Release(s, large) ==
  [s EXCEPT
     !.inflight = IF s.inflight > 0 THEN s.inflight - 1 ELSE 0,
     !.large = IF large /\ s.large > 0 THEN s.large - 1 ELSE s.large]

-----------------------------------------------------------------------------
(***************************************************************************)
(* What the fields of a row say together.  The functions above test the    *)
(* circuit, the streak, the probe count and the opening time one by one    *)
(* and are called for results that arrive long after the circuit has moved *)
(* on, so nothing in a single function makes the fields agree.             *)
(***************************************************************************)
FieldsAgree(s) ==
  /\ s.circuit = "closed" =>
       s.failures < OpenThreshold /\ s.probes = 0 /\ s.timer = "none"
  /\ s.circuit = "open" =>
       s.probes = 0 /\ s.timer # "none"
  /\ s.circuit = "half_open" =>
       s.failures = 0 /\ s.probes <= HalfOpenMax /\ s.timer = "elapsed"

=============================================================================
