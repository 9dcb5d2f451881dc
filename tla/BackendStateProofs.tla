------------------------- MODULE BackendStateProofs -------------------------
(***************************************************************************)
(* What each function on a row preserves, for any thresholds.  The proofs  *)
(* about CircuitBreaker and Gateway rest on these lemmas and never look    *)
(* into the functions again.                                               *)
(***************************************************************************)
EXTENDS BackendState, TLAPS

\* A well-formed row whose fields agree.
RowOK(s) == s \in BackendStates /\ FieldsAgree(s)

\* A new row is well formed and its fields agree (registry.py, _from_entry).
LEMMA NewBackendOK == RowOK(NewBackend)
  BY HealthAssumption DEF RowOK, NewBackend, BackendStates, Circuits, Timers,
                          FieldsAgree

\* The two averages stay between 0 and 1 (state.py).
LEMMA ErrorsBounded ==
  ASSUME NEW e \in 0..ErrorScale
  PROVE  /\ (85 * e) \div 100 \in 0..ErrorScale
         /\ (25 * ErrorScale + 75 * e) \div 100 \in 0..ErrorScale
  BY HealthAssumption

\* Recording a result in the error average touches nothing else (state.py).
LEMMA UpdatePreserves ==
  ASSUME NEW s \in BackendStates
  PROVE  /\ UpdateSuccess(s) \in BackendStates
         /\ UpdateFailure(s) \in BackendStates
         /\ FieldsAgree(s) => /\ FieldsAgree(UpdateSuccess(s))
                              /\ FieldsAgree(UpdateFailure(s))
         /\ UpdateSuccess(s).inflight = s.inflight
         /\ UpdateFailure(s).inflight = s.inflight
         /\ UpdateSuccess(s).large = s.large
         /\ UpdateFailure(s).large = s.large
         /\ UpdateSuccess(s).circuit = s.circuit
         /\ UpdateFailure(s).circuit = s.circuit
         /\ UpdateSuccess(s).timer = s.timer
         /\ UpdateFailure(s).timer = s.timer
  <1>1. s.errors \in 0..ErrorScale
    BY DEF BackendStates
  <1>2. /\ (85 * s.errors) \div 100 \in 0..ErrorScale
        /\ (25 * ErrorScale + 75 * s.errors) \div 100 \in 0..ErrorScale
    BY <1>1, ErrorsBounded
  <1> QED
    BY <1>2 DEF BackendStates, UpdateSuccess, UpdateFailure, FieldsAgree

\* A success, however late, leaves a row whose fields agree, and moves the
\* circuit only from half-open to closed (health.py, on_success).
LEMMA OnSuccessPreserves ==
  ASSUME NEW s \in BackendStates
  PROVE  /\ OnSuccess(s) \in BackendStates
         /\ FieldsAgree(s) => FieldsAgree(OnSuccess(s))
         /\ OnSuccess(s).inflight = s.inflight
         /\ OnSuccess(s).large = s.large
         /\ OnSuccess(s).circuit =
              IF s.circuit = "half_open" THEN "closed" ELSE s.circuit
  <1> DEFINE t == OnSuccess(s)
  <1>1. CASE s.circuit = "half_open"
    <2>1. t \in BackendStates
      BY <1>1 DEF BackendStates, Circuits, Timers, OnSuccess
    <2>2. /\ t.inflight = s.inflight /\ t.large = s.large
          /\ t.circuit = "closed" /\ t.failures = 0
          /\ t.probes = 0 /\ t.timer = "none"
      BY <1>1 DEF BackendStates, OnSuccess
    <2> QED
      BY <1>1, <2>1, <2>2, HealthAssumption DEF FieldsAgree
  <1>2. CASE s.circuit # "half_open"
    <2>1. t \in BackendStates
      BY <1>2 DEF BackendStates, OnSuccess
    <2>2. /\ t.inflight = s.inflight /\ t.large = s.large
          /\ t.circuit = s.circuit /\ t.failures = 0
          /\ t.probes = s.probes /\ t.timer = s.timer
      BY <1>2 DEF BackendStates, OnSuccess
    <2> QED
      BY <1>2, <2>1, <2>2, HealthAssumption DEF FieldsAgree
  <1> QED
    BY <1>1, <1>2

\* A failure, however late, leaves a row whose fields agree, and moves the
\* circuit only to open, with the cooldown started (health.py, on_failure).
LEMMA OnFailurePreserves ==
  ASSUME NEW s \in BackendStates
  PROVE  /\ OnFailure(s) \in BackendStates
         /\ FieldsAgree(s) => FieldsAgree(OnFailure(s))
         /\ OnFailure(s).inflight = s.inflight
         /\ OnFailure(s).large = s.large
         /\ \/ OnFailure(s).circuit = s.circuit
            \/ /\ s.circuit # "open"
               /\ OnFailure(s).circuit = "open"
               /\ OnFailure(s).timer = "running"
         /\ OnFailure(s).circuit = s.circuit => OnFailure(s).timer = s.timer
  <1> DEFINE failed == [s EXCEPT !.failures = s.failures + 1]
             t == OnFailure(s)
  <1>1. /\ failed \in BackendStates
        /\ failed.failures = s.failures + 1
        /\ failed.inflight = s.inflight /\ failed.large = s.large
        /\ failed.circuit = s.circuit /\ failed.probes = s.probes
        /\ failed.timer = s.timer
    BY DEF BackendStates
  <1>2. s.failures \in Nat /\ s.circuit \in Circuits
    BY DEF BackendStates
  <1>3. CASE s.circuit = "half_open"
    <2>1. t = [failed EXCEPT !.circuit = "open", !.timer = "running",
                             !.probes = 0]
      BY <1>3 DEF OnFailure
    <2>2. /\ t \in BackendStates
          /\ t.inflight = s.inflight /\ t.large = s.large
          /\ t.circuit = "open" /\ t.probes = 0 /\ t.timer = "running"
      <3> HIDE DEF failed, t
      <3>1. t \in BackendStates
        BY <1>1, <2>1 DEF BackendStates, Circuits, Timers
      <3>2. /\ t.inflight = failed.inflight /\ t.large = failed.large
            /\ t.circuit = "open" /\ t.probes = 0 /\ t.timer = "running"
        BY <1>1, <2>1 DEF BackendStates
      <3> QED
        BY <1>1, <3>1, <3>2
    <2> QED
      BY <1>3, <2>2 DEF FieldsAgree
  <1>4. CASE s.circuit = "closed" /\ failed.failures >= OpenThreshold
    <2>1. t = [failed EXCEPT !.circuit = "open", !.timer = "running"]
      BY <1>4 DEF OnFailure
    <2>2. /\ t \in BackendStates
          /\ t.inflight = s.inflight /\ t.large = s.large
          /\ t.circuit = "open" /\ t.probes = s.probes /\ t.timer = "running"
      <3> HIDE DEF failed
      <3> QED
        BY <1>1, <2>1 DEF BackendStates, Circuits, Timers
    <2> QED
      BY <1>4, <2>2 DEF FieldsAgree
  <1>5. CASE /\ s.circuit # "half_open"
             /\ ~(s.circuit = "closed" /\ failed.failures >= OpenThreshold)
    <2>1. t = failed
      BY <1>5 DEF OnFailure
    <2>2. s.circuit = "closed" => failed.failures < OpenThreshold
      BY <1>1, <1>2, <1>5, HealthAssumption
    <2> HIDE DEF failed, t
    <2>3. FieldsAgree(s) => FieldsAgree(t)
      BY <1>1, <1>5, <2>1, <2>2 DEF FieldsAgree
    <2> QED
      BY <1>1, <2>1, <2>3 DEF t
  <1> QED
    BY <1>3, <1>4, <1>5

\* A refresh opens nothing and moves the circuit only from open, after a
\* whole cooldown, to half-open (health.py, maybe_transition_from_open).
LEMMA TransitionPreserves ==
  ASSUME NEW s \in BackendStates
  PROVE  /\ MaybeTransitionFromOpen(s) \in BackendStates
         /\ FieldsAgree(s) => FieldsAgree(MaybeTransitionFromOpen(s))
         /\ MaybeTransitionFromOpen(s).inflight = s.inflight
         /\ MaybeTransitionFromOpen(s).large = s.large
         /\ MaybeTransitionFromOpen(s).timer = s.timer
         /\ MaybeTransitionFromOpen(s).circuit =
              IF s.circuit = "open" /\ s.timer = "elapsed"
                THEN "half_open" ELSE s.circuit
  <1> DEFINE t == MaybeTransitionFromOpen(s)
  <1>1. CASE s.circuit = "open" /\ s.timer = "elapsed"
    <2>1. t \in BackendStates
      BY <1>1 DEF BackendStates, Circuits, MaybeTransitionFromOpen
    <2>2. /\ t.inflight = s.inflight /\ t.large = s.large
          /\ t.circuit = "half_open" /\ t.failures = 0
          /\ t.probes = 0 /\ t.timer = s.timer
      BY <1>1 DEF BackendStates, MaybeTransitionFromOpen
    <2> QED
      BY <1>1, <2>1, <2>2, HealthAssumption DEF FieldsAgree
  <1>2. CASE ~(s.circuit = "open" /\ s.timer = "elapsed")
    BY <1>2 DEF MaybeTransitionFromOpen
  <1> QED
    BY <1>1, <1>2

\* The end of a cooldown, which no function of the code makes, keeps the
\* fields in agreement.
LEMMA CooldownPreserves ==
  ASSUME NEW s \in BackendStates, s.timer = "running"
  PROVE  LET t == [s EXCEPT !.timer = "elapsed"]
         IN  /\ t \in BackendStates
             /\ FieldsAgree(s) => FieldsAgree(t)
             /\ t.inflight = s.inflight
             /\ t.large = s.large
             /\ t.circuit = s.circuit
  BY DEF BackendStates, Timers, FieldsAgree

\* A dispatch counts one more request, and one more probe when half-open
\* (dispatcher.py; health.py, on_request_start).
LEMMA OccupyCounts ==
  ASSUME NEW s \in BackendStates, NEW large \in BOOLEAN
  PROVE  /\ Occupy(s, large) \in BackendStates
         /\ Occupy(s, large).inflight = s.inflight + 1
         /\ Occupy(s, large).large = IF large THEN s.large + 1 ELSE s.large
         /\ Occupy(s, large).circuit = s.circuit
         /\ Occupy(s, large).timer = s.timer
         /\ Occupy(s, large).failures = s.failures
         /\ Occupy(s, large).probes =
              IF s.circuit = "half_open" THEN s.probes + 1 ELSE s.probes
  <1> DEFINE u == OnRequestStart(s)
             load == IF large THEN u.large + 1 ELSE u.large
  <1>1. /\ u \in BackendStates
        /\ u.inflight = s.inflight /\ u.large = s.large
        /\ u.circuit = s.circuit /\ u.timer = s.timer
        /\ u.failures = s.failures
        /\ u.probes = IF s.circuit = "half_open" THEN s.probes + 1 ELSE s.probes
    <2>1. CASE s.circuit = "half_open"
      BY <2>1 DEF BackendStates, OnRequestStart
    <2>2. CASE s.circuit # "half_open"
      BY <2>2 DEF OnRequestStart
    <2> QED
      BY <2>1, <2>2
  <1>2. load \in Nat /\ u.inflight + 1 \in Nat
    BY <1>1 DEF BackendStates
  <1>3. Occupy(s, large) = [u EXCEPT !.inflight = u.inflight + 1, !.large = load]
    BY DEF Occupy
  <1>4. load = IF large THEN s.large + 1 ELSE s.large
    BY <1>1
  <1> HIDE DEF u, load
  <1>5. Occupy(s, large) \in BackendStates
    BY <1>1, <1>2, <1>3 DEF BackendStates
  <1>6. /\ Occupy(s, large).inflight = u.inflight + 1
        /\ Occupy(s, large).large = load
        /\ Occupy(s, large).circuit = u.circuit
        /\ Occupy(s, large).timer = u.timer
        /\ Occupy(s, large).failures = u.failures
        /\ Occupy(s, large).probes = u.probes
    BY <1>1, <1>2, <1>3 DEF BackendStates
  <1> QED
    BY <1>1, <1>4, <1>5, <1>6

\* A backend that passes the eligibility test can take one more request: the
\* fields of its row still agree and its count is within the limit
\* (registry.py, is_healthy_for_schedule).
LEMMA HealthyCanBeOccupied ==
  ASSUME NEW s \in BackendStates, NEW limit \in Nat, NEW drained \in BOOLEAN,
         NEW large \in BOOLEAN,
         IsHealthyForSchedule(s, limit, drained)
  PROVE  LET t == Occupy(MaybeTransitionFromOpen(s), large)
         IN  /\ t \in BackendStates
             /\ FieldsAgree(s) => FieldsAgree(t)
             /\ t.inflight = s.inflight + 1
             /\ t.inflight <= limit
             /\ t.large = IF large THEN s.large + 1 ELSE s.large
             /\ t.circuit # "open"
             /\ t.timer = s.timer
             /\ FieldsAgree(s) => s.timer # "running"
             /\ t.circuit = IF s.circuit = "open" /\ s.timer = "elapsed"
                              THEN "half_open" ELSE s.circuit
  <1> DEFINE m == MaybeTransitionFromOpen(s)
             t == Occupy(m, large)
  <1>1. /\ m \in BackendStates
        /\ FieldsAgree(s) => FieldsAgree(m)
        /\ m.inflight = s.inflight
        /\ m.large = s.large
        /\ m.timer = s.timer
        /\ m.circuit = IF s.circuit = "open" /\ s.timer = "elapsed"
                         THEN "half_open" ELSE s.circuit
    BY TransitionPreserves
  <1>2. /\ m.circuit # "open"
        /\ m.inflight < limit
        /\ m.circuit = "half_open" => m.probes < HalfOpenMax
    BY DEF IsHealthyForSchedule, HalfOpenAllowDispatch
  <1>3. /\ t \in BackendStates
        /\ t.inflight = m.inflight + 1
        /\ t.large = IF large THEN m.large + 1 ELSE m.large
        /\ t.circuit = m.circuit
        /\ t.timer = m.timer
        /\ t.failures = m.failures
        /\ t.probes = IF m.circuit = "half_open" THEN m.probes + 1 ELSE m.probes
    BY <1>1, OccupyCounts
  <1>4. /\ s.inflight \in Nat /\ m.probes \in Nat /\ t.probes \in Nat
        /\ s.timer \in Timers /\ s.circuit \in Circuits
    BY <1>1, <1>3 DEF BackendStates
  <1>5. FieldsAgree(s) => FieldsAgree(t)
    BY <1>1, <1>2, <1>3, <1>4, HealthAssumption DEF FieldsAgree
  <1>6. t.inflight = s.inflight + 1 /\ t.inflight <= limit
    BY <1>1, <1>2, <1>3, <1>4
  <1>7. FieldsAgree(s) => s.timer # "running"
    BY <1>1, <1>2, <1>4 DEF FieldsAgree, Circuits
  <1> HIDE DEF m, t
  <1> QED
    BY <1>1, <1>2, <1>3, <1>5, <1>6, <1>7 DEF m, t

\* A release lowers the counts, not below zero, and touches nothing else
\* (client.py, _release_dispatch).
LEMMA ReleaseCounts ==
  ASSUME NEW s \in BackendStates, NEW large \in BOOLEAN
  PROVE  /\ Release(s, large) \in BackendStates
         /\ FieldsAgree(s) => FieldsAgree(Release(s, large))
         /\ Release(s, large).inflight =
              IF s.inflight > 0 THEN s.inflight - 1 ELSE 0
         /\ Release(s, large).large =
              IF large /\ s.large > 0 THEN s.large - 1 ELSE s.large
         /\ Release(s, large).circuit = s.circuit
         /\ Release(s, large).timer = s.timer
  <1> DEFINE count == IF s.inflight > 0 THEN s.inflight - 1 ELSE 0
             load  == IF large /\ s.large > 0 THEN s.large - 1 ELSE s.large
             t     == Release(s, large)
  <1>1. count \in Nat /\ load \in Nat
    BY DEF BackendStates
  <1>2. t = [s EXCEPT !.inflight = count, !.large = load]
    BY DEF Release
  <1> HIDE DEF count, load, t
  <1>3. t \in BackendStates
    BY <1>1, <1>2 DEF BackendStates
  <1>4. /\ t.inflight = count /\ t.large = load
        /\ t.circuit = s.circuit /\ t.timer = s.timer
        /\ t.failures = s.failures /\ t.probes = s.probes
    BY <1>1, <1>2 DEF BackendStates
  <1>5. FieldsAgree(s) => FieldsAgree(t)
    BY <1>4 DEF FieldsAgree
  <1> QED
    BY <1>3, <1>4, <1>5 DEF count, load, t

=============================================================================
