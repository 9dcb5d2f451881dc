-------------------------- MODULE MCCircuitBreaker --------------------------
(***************************************************************************)
(* Values for checking CircuitBreaker with TLC.                            *)
(***************************************************************************)
EXTENDS CircuitBreaker

CONSTANTS s1, s2, s3
Slots2 == {s1, s2}
Slots3 == {s1, s2, s3}

\* Outcomes of a backend that answers, fails or times out, and whose error
\* statuses are all 5xx.
CleanOutcomes == {"ok", "server_error", "stream"}
FailingOutcomes == {"ok", "server_error"}
OutcomesWith4xx == CleanOutcomes \cup {"client_error"}

=============================================================================
