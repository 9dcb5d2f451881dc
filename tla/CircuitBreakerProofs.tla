------------------------ MODULE CircuitBreakerProofs ------------------------
(***************************************************************************)
(* Theorems about one backend, for any thresholds, limit and outcomes.     *)
(***************************************************************************)
EXTENDS ProbeHistory, BackendStateProofs, FiniteSetTheorems

\* The inductive invariant.  CountWithinLimit needs no strengthening of its
\* own: only Dispatch raises the count, and it has just been compared.
IInv == TypeOK /\ CircuitConsistent /\ CountWithinLimit

\* What a step may do to the circuit: the diagram, as a relation on rows.
AlongDiagram(s, t) ==
  t.circuit # s.circuit =>
    \/ s.circuit = "closed"    /\ t.circuit = "open" /\ t.timer = "running"
    \/ s.circuit = "open"      /\ t.circuit = "half_open" /\ s.timer = "elapsed"
    \/ s.circuit = "half_open" /\ t.circuit = "closed"
    \/ s.circuit = "half_open" /\ t.circuit = "open" /\ t.timer = "running"

\* A row that is as good as s: well formed, in agreement, with no higher count,
\* and reached along the diagram.
Follows(s, t) ==
  /\ t \in BackendStates
  /\ FieldsAgree(t)
  /\ t.inflight <= s.inflight
  /\ AlongDiagram(s, t)

\* Recording a success or a failure, or nothing, keeps a row good (state.py,
\* health.py).
LEMMA RecordFollows ==
  ASSUME NEW s \in BackendStates, FieldsAgree(s)
  PROVE  /\ Follows(s, UpdateSuccess(s))
         /\ Follows(s, UpdateFailure(s))
         /\ Follows(s, UpdateSuccess(OnSuccess(s)))
         /\ Follows(s, UpdateFailure(OnFailure(s)))
  <1>1. s.inflight \in Nat /\ s.circuit \in Circuits
    BY DEF BackendStates
  <1>2. Follows(s, UpdateSuccess(s)) /\ Follows(s, UpdateFailure(s))
    BY <1>1, UpdatePreserves DEF Follows, AlongDiagram
  <1>3. Follows(s, UpdateSuccess(OnSuccess(s)))
    <2> DEFINE u == OnSuccess(s)
    <2>1. /\ u \in BackendStates /\ FieldsAgree(u) /\ u.inflight = s.inflight
          /\ u.circuit = IF s.circuit = "half_open" THEN "closed" ELSE s.circuit
      BY OnSuccessPreserves
    <2> HIDE DEF u
    <2>2. Follows(s, UpdateSuccess(u))
      BY <1>1, <2>1, UpdatePreserves DEF Follows, AlongDiagram
    <2> QED
      BY <2>2 DEF u
  <1>4. Follows(s, UpdateFailure(OnFailure(s)))
    <2> DEFINE u == OnFailure(s)
    <2>1. /\ u \in BackendStates /\ FieldsAgree(u) /\ u.inflight = s.inflight
          /\ \/ u.circuit = s.circuit
             \/ s.circuit # "open" /\ u.circuit = "open" /\ u.timer = "running"
      BY OnFailurePreserves
    <2> HIDE DEF u
    <2>2. Follows(s, UpdateFailure(u))
      BY <1>1, <2>1, UpdatePreserves DEF Follows, AlongDiagram, Circuits
    <2> QED
      BY <2>2 DEF u
  <1> QED
    BY <1>2, <1>3, <1>4

\* So does a release after it, and a second one (client.py).
LEMMA ReleaseFollows ==
  ASSUME NEW s \in BackendStates, NEW t, Follows(s, t)
  PROVE  Follows(s, Release(t, FALSE))
  <1>1. t \in BackendStates /\ FieldsAgree(t)
    BY DEF Follows
  <1>2. t.inflight \in Nat /\ s.inflight \in Nat
    BY <1>1 DEF BackendStates
  <1> DEFINE u == Release(t, FALSE)
  <1>3. /\ u \in BackendStates /\ FieldsAgree(u)
        /\ u.inflight = IF t.inflight > 0 THEN t.inflight - 1 ELSE 0
        /\ u.circuit = t.circuit /\ u.timer = t.timer
    BY <1>1, ReleaseCounts
  <1> HIDE DEF u
  <1>4. u.inflight <= s.inflight /\ AlongDiagram(s, u)
    BY <1>2, <1>3 DEF Follows, AlongDiagram
  <1> QED
    BY <1>3, <1>4 DEF Follows, u

\* A result keeps the row good, whatever the outcome and however late it is.
LEMMA ResultStep ==
  ASSUME TypeOK, CircuitConsistent, NEW s \in Slots, Result(s)
  PROVE  Follows(row, row') /\ TypeOK'
  <1>1. row \in BackendStates /\ FieldsAgree(row) /\ row.inflight \in Nat
    BY DEF TypeOK, CircuitConsistent, BackendStates
  <1>2. Follows(row, row)
    BY <1>1 DEF Follows, AlongDiagram
  <1>3. /\ Follows(row, UpdateSuccess(row))
        /\ Follows(row, UpdateFailure(row))
        /\ Follows(row, UpdateSuccess(OnSuccess(row)))
        /\ Follows(row, UpdateFailure(OnFailure(row)))
    BY <1>1, RecordFollows
  <1>4. ASSUME NEW f, Follows(row, f), GiveBack(s, f)
        PROVE  Follows(row, row')
    <2>1. Follows(row, Release(f, FALSE))
      BY <1>1, <1>4, ReleaseFollows
    <2>2. Follows(row, Release(Release(f, FALSE), FALSE))
      BY <1>1, <2>1, ReleaseFollows
    <2> QED
      BY <1>4, <2>1, <2>2 DEF GiveBack
  <1>5. Follows(row, row')
    <2>1. CASE Succeed(s)
      BY <1>1, <1>3, <2>1, ReleaseFollows DEF Succeed
    <2>2. CASE ClientError(s)
      BY <1>3, <1>4, <2>2 DEF ClientError
    <2>3. CASE ServerError(s)
      BY <1>3, <1>4, <2>3 DEF ServerError
    <2>4. CASE Crash(s)
      BY <1>2, <2>4 DEF Crash
    <2>5. CASE StreamHeaders(s)
      BY <1>3, <2>5 DEF StreamHeaders
    <2>6. CASE StreamFinish(s)
      BY <1>1, <1>3, <2>6, ReleaseFollows DEF StreamFinish
    <2>7. CASE AbandonStream(s)
      BY <1>2, <2>7 DEF AbandonStream
    <2> QED
      BY <2>1, <2>2, <2>3, <2>4, <2>5, <2>6, <2>7 DEF Result
  <1>6. work' \in [Slots -> {"idle", "sent", "streaming"}]
    BY DEF TypeOK, Result, Succeed, ClientError, ServerError, GiveBack, Crash,
           StreamHeaders, StreamFinish, AbandonStream, Become
  <1> QED
    BY <1>5, <1>6 DEF Follows, TypeOK

\* The step of a dispatch.
LEMMA DispatchStep ==
  ASSUME IInv, NEW s \in Slots, Dispatch(s)
  PROVE  IInv' /\ AlongDiagram(row, row') /\ row.timer # "running"
  <1>1. /\ row \in BackendStates /\ FieldsAgree(row) /\ Limit \in Nat
        /\ work \in [Slots -> {"idle", "sent", "streaming"}]
    BY BreakerAssumption DEF IInv, TypeOK, CircuitConsistent
  <1>2. /\ IsHealthyForSchedule(row, Limit, FALSE)
        /\ row' = Occupy(MaybeTransitionFromOpen(row), FALSE)
    BY DEF Dispatch
  <1>3. /\ row' \in BackendStates /\ FieldsAgree(row')
        /\ row'.inflight <= Limit
        /\ row.timer # "running"
        /\ row'.circuit = IF row.circuit = "open" /\ row.timer = "elapsed"
                            THEN "half_open" ELSE row.circuit
    BY <1>1, <1>2, HealthyCanBeOccupied
  <1>4. AlongDiagram(row, row')
    BY <1>3 DEF AlongDiagram
  <1>5. work' \in [Slots -> {"idle", "sent", "streaming"}]
    BY <1>1 DEF Dispatch, Become
  <1> QED
    BY <1>3, <1>4, <1>5 DEF IInv, TypeOK, CircuitConsistent, CountWithinLimit

\* The steps of the scheduler and of the clock.
LEMMA TickStepOK ==
  ASSUME IInv, Tick \/ Cooldown
  PROVE  IInv' /\ AlongDiagram(row, row') /\ work' = work
  <1>1. row \in BackendStates /\ FieldsAgree(row) /\ work' = work
    BY DEF IInv, TypeOK, CircuitConsistent, Tick, Cooldown
  <1>2. CASE Tick
    BY <1>1, <1>2, TransitionPreserves
       DEF Tick, IInv, TypeOK, CircuitConsistent, CountWithinLimit, AlongDiagram
  <1>3. CASE Cooldown
    BY <1>1, <1>3, CooldownPreserves
       DEF Cooldown, IInv, TypeOK, CircuitConsistent, CountWithinLimit, AlongDiagram
  <1> QED
    BY <1>2, <1>3

LEMMA InitIInv == Init => IInv
  BY NewBackendOK, BreakerAssumption
     DEF Init, Idle, IInv, TypeOK, CircuitConsistent, CountWithinLimit, RowOK,
         NewBackend

\* Every step keeps the invariant, moves the circuit along the diagram, and
\* sends nothing during a cooldown.
LEMMA NextStep ==
  ASSUME IInv, [Next]_vars
  PROVE  /\ IInv'
         /\ AlongDiagram(row, row')
         /\ row.timer = "running" =>
              \A s \in Slots : work[s] = "idle" => work'[s] = "idle"
  <1>1. CASE Tick \/ Cooldown
    BY <1>1, TickStepOK
  <1>2. ASSUME NEW s \in Slots, Dispatch(s)
        PROVE  IInv' /\ AlongDiagram(row, row') /\ row.timer # "running"
    BY <1>2, DispatchStep
  <1>3. ASSUME NEW s \in Slots, Result(s)
        PROVE  /\ IInv' /\ AlongDiagram(row, row')
               /\ \A z \in Slots : work[z] = "idle" => work'[z] = "idle"
    <2>1. Follows(row, row') /\ TypeOK'
      BY <1>3, ResultStep DEF IInv
    <2>2. IInv' /\ AlongDiagram(row, row')
      <3>1. row.inflight \in Nat /\ row'.inflight \in Nat /\ Limit \in Nat
        BY <2>1, BreakerAssumption DEF IInv, TypeOK, BackendStates
      <3> QED
        BY <2>1, <3>1 DEF Follows, IInv, CircuitConsistent, CountWithinLimit
    <2>3. work \in [Slots -> {"idle", "sent", "streaming"}] /\ work[s] # "idle"
      BY <1>3 DEF IInv, TypeOK, Result, Succeed, ClientError, ServerError,
                  GiveBack, Crash, StreamHeaders, StreamFinish, AbandonStream
    <2>4. \E w : work' = [work EXCEPT ![s] = w]
      BY <1>3 DEF Result, Succeed, ClientError, ServerError, GiveBack, Crash,
                  StreamHeaders, StreamFinish, AbandonStream, Become
    <2> QED
      BY <2>2, <2>3, <2>4
  <1>4. CASE UNCHANGED vars
    BY <1>4 DEF vars, IInv, TypeOK, CircuitConsistent, CountWithinLimit,
                AlongDiagram
  <1> QED
    BY <1>1, <1>2, <1>3, <1>4 DEF Next

-----------------------------------------------------------------------------

\* The inductive invariant holds in every reachable state.
THEOREM Invariance == Spec => []IInv
  <1>1. Init => IInv
    BY InitIInv
  <1>2. IInv /\ [Next]_vars => IInv'
    BY NextStep
  <1> QED
    BY <1>1, <1>2, PTL DEF Spec

\* Rows stay well formed, for any number of requests and any outcomes.
THEOREM TypeCorrect == Spec => []TypeOK
  BY Invariance, PTL DEF IInv

\* The fields of the row always agree, however results are ordered.
THEOREM CircuitAlwaysConsistent == Spec => []CircuitConsistent
  BY Invariance, PTL DEF IInv

\* The count never passes the hard limit.
THEOREM CountAlwaysWithinLimit == Spec => []CountWithinLimit
  BY Invariance, PTL DEF IInv

\* The circuit only moves along the documented diagram and waits for its
\* cooldown before it leaves the open state.
THEOREM FollowsDiagram == Spec => CircuitFollowsDiagram
  <1>1. IInv /\ [Next]_vars =>
          [row'.circuit # row.circuit =>
             \/ row.circuit = "closed"    /\ row'.circuit = "open"
                                          /\ row'.timer = "running"
             \/ row.circuit = "open"      /\ row'.circuit = "half_open"
                                          /\ row.timer = "elapsed"
             \/ row.circuit = "half_open" /\ row'.circuit = "closed"
             \/ row.circuit = "half_open" /\ row'.circuit = "open"
                                          /\ row'.timer = "running"]_vars
    BY NextStep DEF AlongDiagram
  <1> QED
    BY <1>1, Invariance, PTL DEF Spec, CircuitFollowsDiagram

\* Nothing is sent to a backend during its cooldown.
THEOREM CooldownIsQuiet == Spec => NothingSentDuringCooldown
  <1>1. IInv /\ [Next]_vars =>
          [row.timer = "running" =>
             \A s \in Slots : work[s] = "idle" => work'[s] = "idle"]_vars
    BY NextStep
  <1> QED
    BY <1>1, Invariance, PTL DEF Spec, NothingSentDuringCooldown

-----------------------------------------------------------------------------
(***************************************************************************)
(* The probes of a half-open phase.  What has to be shown besides IInv is  *)
(* that the count is zero when a phase starts, goes up with every probe    *)
(* that is sent, and is not touched by a result that leaves the circuit    *)
(* half-open.                                                              *)
(***************************************************************************)
PhaseOK ==
  /\ phase \subseteq Slots /\ IsFiniteSet(phase)
  /\ row.circuit # "half_open" => phase = {}
  /\ row.circuit = "half_open" => Cardinality(phase) <= row.probes

\* t is in the half-open phase only if s was, and with as many probes.
SamePhase(s, t) ==
  t.circuit = "half_open" => s.circuit = "half_open" /\ t.probes = s.probes

\* Nothing recorded on a row, and no release, touches the count of a phase
\* that goes on (health.py, client.py).
LEMMA RecordsKeepPhase ==
  ASSUME NEW s \in BackendStates
  PROVE  /\ SamePhase(s, UpdateSuccess(s))
         /\ SamePhase(s, UpdateFailure(s))
         /\ SamePhase(s, OnSuccess(s))
         /\ SamePhase(s, OnFailure(s))
         /\ SamePhase(s, Release(s, FALSE))
  BY DEF SamePhase, UpdateSuccess, UpdateFailure, OnSuccess, OnFailure, Release,
         BackendStates, Circuits

LEMMA ResultKeepsPhase ==
  ASSUME TypeOK, NEW s \in Slots, Result(s)
  PROVE  SamePhase(row, row')
  <1>1. row \in BackendStates
    BY DEF TypeOK
  <1>2. ASSUME NEW t \in BackendStates, NEW u \in BackendStates,
               SamePhase(row, t), SamePhase(t, u)
        PROVE  SamePhase(row, u)
    BY <1>2 DEF SamePhase
  <1>3. ASSUME NEW t \in BackendStates, SamePhase(row, t)
        PROVE  /\ UpdateSuccess(t) \in BackendStates
               /\ UpdateFailure(t) \in BackendStates
               /\ Release(t, FALSE) \in BackendStates
               /\ SamePhase(row, UpdateSuccess(t))
               /\ SamePhase(row, UpdateFailure(t))
               /\ SamePhase(row, Release(t, FALSE))
    BY <1>2, <1>3, RecordsKeepPhase, UpdatePreserves, ReleaseCounts
  <1>4. /\ OnSuccess(row) \in BackendStates /\ SamePhase(row, OnSuccess(row))
        /\ OnFailure(row) \in BackendStates /\ SamePhase(row, OnFailure(row))
    BY <1>1, RecordsKeepPhase, OnSuccessPreserves, OnFailurePreserves
  <1>5. SamePhase(row, row)
    BY DEF SamePhase
  <1>6. ASSUME NEW f \in BackendStates, SamePhase(row, f), GiveBack(s, f)
        PROVE  SamePhase(row, row')
    <2>1. Release(f, FALSE) \in BackendStates /\ SamePhase(row, Release(f, FALSE))
      BY <1>3, <1>6
    <2>2. SamePhase(row, Release(Release(f, FALSE), FALSE))
      BY <1>3, <2>1
    <2> QED
      BY <1>6, <2>1, <2>2 DEF GiveBack
  <1>7. CASE Succeed(s) \/ StreamFinish(s) \/ StreamHeaders(s)
    BY <1>1, <1>3, <1>4, <1>5, <1>7 DEF Succeed, StreamFinish, StreamHeaders
  <1>8. CASE ClientError(s)
    BY <1>1, <1>3, <1>5, <1>6, <1>8 DEF ClientError
  <1>9. CASE ServerError(s)
    BY <1>3, <1>4, <1>6, <1>9 DEF ServerError
  <1>10. CASE Crash(s) \/ AbandonStream(s)
    BY <1>5, <1>10 DEF Crash, AbandonStream
  <1> QED
    BY <1>7, <1>8, <1>9, <1>10 DEF Result

\* Slots that leave a phase only lower the number of its probes.
LEMMA StillFits ==
  ASSUME PhaseOK
  PROVE  /\ Still(phase) \subseteq Slots /\ IsFiniteSet(Still(phase))
         /\ Cardinality(Still(phase)) <= Cardinality(phase)
         /\ Cardinality(Still(phase)) \in Nat /\ Cardinality(phase) \in Nat
  <1>1. Still(phase) \subseteq phase /\ phase \subseteq Slots /\ IsFiniteSet(phase)
    BY DEF PhaseOK, Still
  <1>2. IsFiniteSet(Still(phase)) /\ Cardinality(Still(phase)) <= Cardinality(phase)
    BY <1>1, FS_Subset
  <1> QED
    BY <1>1, <1>2, FS_CardinalityType

\* HNext is Next with its history.
LEMMA HistoryFollows ==
  ASSUME HNext
  PROVE  Next /\ Remember
  BY DEF HNext, Next, Result

LEMMA PhaseStep ==
  ASSUME IInv, PhaseOK, HNext
  PROVE  PhaseOK'
  <1>1. /\ row \in BackendStates /\ FieldsAgree(row) /\ row.probes \in Nat
        /\ work \in [Slots -> {"idle", "sent", "streaming"}]
    BY DEF IInv, TypeOK, CircuitConsistent, BackendStates
  <1>2. phase' = IF row'.circuit = "half_open" THEN Still(phase) \cup Sent ELSE {}
    BY HistoryFollows DEF Remember
  <1>3. CASE row'.circuit # "half_open"
    BY <1>2, <1>3, FS_EmptySet DEF PhaseOK
  <1>4. CASE row'.circuit = "half_open" /\ Sent = {} /\ SamePhase(row, row')
    <2>1. phase' = Still(phase) /\ row.circuit = "half_open" /\ row'.probes = row.probes
      BY <1>2, <1>4 DEF SamePhase
    <2>2. Cardinality(phase) <= row.probes
      BY <2>1 DEF PhaseOK
    <2>3. Cardinality(phase') <= row'.probes
      BY <1>1, <2>1, <2>2, StillFits
    <2> QED
      BY <1>4, <2>1, <2>3, StillFits DEF PhaseOK
  <1>5. ASSUME row'.circuit = "half_open", NEW s \in Slots, Dispatch(s)
        PROVE  PhaseOK'
    <2>1. /\ row' = Occupy(MaybeTransitionFromOpen(row), FALSE)
          /\ work[s] = "idle" /\ work' = [work EXCEPT ![s] = "sent"]
      BY <1>5 DEF Dispatch, Become
    <2> DEFINE t == MaybeTransitionFromOpen(row)
    <2>2. /\ t \in BackendStates
          /\ \/ t = row
             \/ row.circuit = "open" /\ t.circuit = "half_open" /\ t.probes = 0
      BY <1>1, TransitionPreserves DEF MaybeTransitionFromOpen, BackendStates
    <2> HIDE DEF t
    <2>3. /\ t.circuit = "half_open" /\ row'.probes = t.probes + 1
          /\ t.probes \in Nat
      BY <1>5, <2>1, <2>2 DEF Occupy, OnRequestStart, BackendStates, t
    <2>4. Cardinality(phase) <= t.probes
      <3>1. row.circuit = "open" => Cardinality(phase) = 0
        BY FS_EmptySet DEF PhaseOK
      <3> QED
        BY <2>2, <2>3, <3>1 DEF PhaseOK
    <2>5. Sent = {s}
      BY <1>1, <1>5, <2>1 DEF Sent
    <2>6. /\ IsFiniteSet(phase') /\ phase' \subseteq Slots
          /\ Cardinality(phase') <= Cardinality(Still(phase)) + 1
      <3>1. phase' = Still(phase) \cup {s}
        BY <1>2, <1>5, <2>5
      <3>2. /\ IsFiniteSet(Still(phase) \cup {s})
            /\ Cardinality(Still(phase) \cup {s}) =
                 IF s \in Still(phase) THEN Cardinality(Still(phase))
                 ELSE Cardinality(Still(phase)) + 1
        BY StillFits, FS_AddElement
      <3> QED
        BY <3>1, <3>2, StillFits
    <2>7. Cardinality(phase') \in Nat
      BY <2>6, FS_CardinalityType
    <2>8. Cardinality(phase') <= row'.probes
      BY <2>3, <2>4, <2>6, <2>7, StillFits
    <2> QED
      BY <1>5, <2>6, <2>8 DEF PhaseOK
  <1>6. CASE Tick /\ row'.circuit = "half_open"
    <2>1. Sent = {}
      BY <1>6 DEF Tick, Sent
    <2>2. CASE row.circuit = "half_open"
      <3>1. row' = row
        BY <1>6, <2>2 DEF Tick, MaybeTransitionFromOpen
      <3> QED
        BY <1>4, <1>6, <2>1, <2>2, <3>1 DEF SamePhase
    <2>3. CASE row.circuit # "half_open"
      <3>1. phase = {} /\ Still(phase) = {}
        BY <2>3 DEF PhaseOK, Still
      <3>2. phase' = {} /\ Cardinality(phase') = 0 /\ IsFiniteSet(phase')
        BY <1>2, <1>6, <2>1, <3>1, FS_EmptySet
      <3>3. row' \in BackendStates
        BY <1>1, <1>6, TransitionPreserves DEF Tick
      <3>4. row'.probes \in Nat
        BY <3>3 DEF BackendStates
      <3> QED
        BY <1>6, <3>2, <3>4 DEF PhaseOK
    <2> QED
      BY <2>2, <2>3
  <1>7. CASE Cooldown
    <2>1. row.timer = "running" /\ row' = [row EXCEPT !.timer = "elapsed"]
      BY <1>7 DEF Cooldown
    <2>2. row.circuit # "half_open"
      BY <1>1, <2>1 DEF FieldsAgree
    <2>3. row'.circuit # "half_open"
      BY <1>1, <2>1, <2>2 DEF BackendStates
    <2> QED
      BY <1>3, <2>3
  <1>8. ASSUME NEW s \in Slots, Result(s)
        PROVE  PhaseOK'
    <2>1. work[s] # "idle" /\ \E w : work' = [work EXCEPT ![s] = w]
      BY <1>1, <1>8 DEF Result, Succeed, ClientError, ServerError, GiveBack,
           Crash, StreamHeaders, StreamFinish, AbandonStream, Become
    <2>2. Sent = {}
      BY <1>1, <2>1 DEF Sent
    <2>3. SamePhase(row, row')
      BY <1>8, ResultKeepsPhase DEF IInv
    <2> QED
      BY <1>3, <1>4, <2>2, <2>3
  <1> QED
    BY <1>3, <1>5, <1>6, <1>7, <1>8, HistoryFollows DEF Next

\* In a half-open phase no more probes of that phase are at the backend than
\* half_open_max_inflight, in every order of earlier results.
THEOREM PhaseProbesAlwaysCounted == HSpec => []PhaseProbesCounted
  <1>1. HInit => IInv /\ PhaseOK
    <2> SUFFICES ASSUME HInit
                 PROVE  IInv /\ PhaseOK
      OBVIOUS
    <2>1. row.circuit = "closed" /\ phase = {}
      BY DEF HInit, Init, NewBackend
    <2> QED
      BY <2>1, InitIInv, FS_EmptySet DEF HInit, PhaseOK
  <1>2. IInv /\ PhaseOK /\ [HNext]_historyVars => (IInv /\ PhaseOK)'
    <2> SUFFICES ASSUME IInv, PhaseOK, [HNext]_historyVars
                 PROVE  IInv' /\ PhaseOK'
      OBVIOUS
    <2>1. CASE HNext
      <3>1. [Next]_vars
        BY <2>1, HistoryFollows
      <3> QED
        BY <2>1, <3>1, NextStep, PhaseStep
    <2>2. CASE UNCHANGED historyVars
      BY <2>2 DEF historyVars, IInv, PhaseOK, TypeOK, CircuitConsistent,
                  CountWithinLimit
    <2> QED
      BY <2>1, <2>2
  <1>3. IInv /\ PhaseOK => PhaseProbesCounted
    BY DEF IInv, CircuitConsistent, FieldsAgree, PhaseOK, PhaseProbesCounted
  <1> QED
    BY <1>1, <1>2, <1>3, PTL DEF HSpec

=============================================================================
