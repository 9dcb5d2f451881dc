---------------------------- MODULE ProbeHistory ----------------------------
(***************************************************************************)
(* CircuitBreaker with history variables: which of the outstanding         *)
(* requests were dispatched as half-open probes, and which of those in the *)
(* half-open phase that is under way.  The code keeps only a count,        *)
(* half_open_probes, and resets it when a phase ends; what its             *)
(* documentation promises is about the probes themselves.                  *)
(***************************************************************************)
EXTENDS CircuitBreaker

VARIABLES
  probing,   \* the slots whose request was sent as a probe
  phase      \* those whose request was sent in the current half-open phase

historyVars == <<row, work, probing, phase>>

HInit == Init /\ probing = {} /\ phase = {}

\* The slots of a set whose request is not over.
Still(slots) == {s \in slots : work'[s] # "idle"}

\* The slot whose request is sent by this step as a probe.
Sent == {s \in Slots : work[s] = "idle" /\ work'[s] # "idle"
                       /\ row'.circuit = "half_open"}

Remember ==
  /\ probing' = Still(probing) \cup Sent
  /\ phase' = IF row'.circuit = "half_open" THEN Still(phase) \cup Sent ELSE {}

\* Next with its history, one disjunct for each action.
HNext ==
  \/ Tick /\ Remember
  \/ Cooldown /\ Remember
  \/ \E s \in Slots :
       \/ Dispatch(s) /\ Remember
       \/ Succeed(s) /\ Remember
       \/ ClientError(s) /\ Remember
       \/ ServerError(s) /\ Remember
       \/ Crash(s) /\ Remember
       \/ StreamHeaders(s) /\ Remember
       \/ StreamFinish(s) /\ Remember
       \/ AbandonStream(s) /\ Remember

HSpec == HInit /\ [][HNext]_historyVars

\* The fairness of CircuitBreaker; the history follows what it makes happen.
HFairSpec == HSpec /\ Fairness

\* A half-open circuit closes only on the success of one of its probes
\* (docs/plan.md:372, docs/artichecture.md:217).
ClosedByProbe ==
  [][row.circuit = "half_open" /\ row'.circuit = "closed" =>
       \E s \in probing : work'[s] # work[s]]_historyVars

\* The count may miss probes of an earlier phase, for which it was reset, but
\* no probe of the phase under way: half_open_max_inflight bounds those that
\* are at the backend together (health.py, half_open_allow_dispatch).
PhaseProbesCounted ==
  row.circuit = "half_open" =>
    Cardinality(phase) <= row.probes /\ row.probes <= HalfOpenMax

=============================================================================
