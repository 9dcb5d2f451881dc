------------------------------ MODULE MCGateway ------------------------------
(***************************************************************************)
(* Values for checking Gateway with TLC.                                   *)
(***************************************************************************)
EXTENDS GatewayRefinement

CONSTANTS r1, r2, r3, r4, b1, b2

Requests2 == {r1, r2}
Requests3 == {r1, r2, r3}
Requests4 == {r1, r2, r3, r4}
Backends1 == {b1}
Backends2 == {b1, b2}

OneEach == [b \in Backends |-> 1]
TwoAndOne == [b \in Backends |-> IF b = b1 THEN 2 ELSE 1]
TwoEach == [b \in Backends |-> 2]

NoRequests == {}
JustR1 == {r1}
NoBackends == {}
JustB2 == {b2}

\* What a backend does that answers every request or lets it time out.
SafeOutcomes == AllOutcomes \ Leaks
FailingOutcomes == {"ok", "transport"}
WithCrash == {"ok", "transport", "crash"}

=============================================================================
