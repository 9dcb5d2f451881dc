------------------------- MODULE BreakerRefinement -------------------------
(***************************************************************************)
(* Every backend of the gateway behaves as CircuitBreaker says: whatever   *)
(* handlers, retries and ticks do to its row is a step of that component.  *)
(***************************************************************************)
EXTENDS Gateway

\* What a handler at place p is doing at backend b with its request at t.
WorkSeen(b, p, t) ==
  IF t # b THEN "idle" ELSE IF p = "headers" THEN "streaming" ELSE "sent"

WorkAt(b) == [r \in Requests |-> WorkSeen(b, pc[r], target[r])]

\* CircuitBreaker does not tell large requests from others.
Plain(s) == [s EXCEPT !.large = 0]

RowOf(b) == Plain(backend[b])

BreakerOutcomes ==
  { "ok", "client_error", "server_error", "twice", "crash", "stream",
    "abandon" }

Breaker(b) ==
  INSTANCE CircuitBreaker
    WITH Slots <- Requests, Limit <- HardLimit[b],
         Outcomes <- BreakerOutcomes, row <- RowOf(b), work <- WorkAt(b)

\* Each backend, seen alone, is the component CircuitBreaker: what is shown of
\* one breaker over an unbounded run holds of the rows the whole gateway
\* updates (client.py, dispatcher.py).
EachBackendIsABreaker ==
  /\ \A b \in Backends : Breaker(b)!Init
  /\ [][\A b \in Backends :
           [Breaker(b)!Next]_<<RowOf(b), WorkAt(b)>>]_vars

=============================================================================
