-------------------------- MODULE GatewayRefinement --------------------------
(***************************************************************************)
(* The gateway implements RequestLifecycle: the mapping from the places of *)
(* handlers to the stages of requests.                                     *)
(***************************************************************************)
EXTENDS Gateway

\* The answers of a handler that never had an upstream attempt.
Refusals ==
  { "queue_full", "queue_age", "no_backend", "fallback_unavailable",
    "retry_exhausted" }

StageOf(p) ==
  CASE p = "new"                                          -> "new"
    [] p \in {"waiting", "overdue"}                       -> "waiting"
    [] p \in {"timedout", "rejected"}                     -> "expired"
    [] p \in {"dispatched"} \cup Outstanding              -> "placed"
    [] p \in Refusals                                     -> "refused"
    [] OTHER                                              -> "ended"

Life ==
  INSTANCE RequestLifecycle
    WITH stage <- [r \in Requests |-> StageOf(pc[r])],
         place <- target, tries <- attempts

\* The scheduler, the handlers and the proxy together keep the promise of
\* RequestLifecycle: whatever queue, tick, timer and retries do to a request
\* is a step of its lifecycle or invisible (routes.py, dispatcher.py,
\* client.py).
ImplementsLifecycle == Life!LifeSpec

=============================================================================
