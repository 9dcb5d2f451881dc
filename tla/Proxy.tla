------------------------------- MODULE Proxy -------------------------------
(***************************************************************************)
(* The proxy of the gateway (proxy/client.py): one upstream attempt after  *)
(* another for a request that has a target, the bookkeeping of every       *)
(* outcome on the target's row, and the retry on another backend.          *)
(*                                                                         *)
(* The event loop runs one coroutine at a time and switches only where the *)
(* code awaits something that is not ready, so what proxy_chat_completion  *)
(* does between the arrival of an upstream result and its next await is    *)
(* one action.  Gateway composes these actions with the scheduler.         *)
(***************************************************************************)
EXTENDS BackendState, FiniteSets

CONSTANTS
  Requests,         \* the requests clients make, one handler each
  Backends,         \* the backends of config.yaml
  HardLimit,        \* HardLimit[b]: hard_limit of b
  Drained,          \* the backends with drained: true
  Streaming,        \* the requests with "stream": true
  Large,            \* the requests of class large_chat or streaming_long
  MaxAttempts,      \* retry.max_attempts
  FallbackEnabled,  \* openai_fallback.enabled
  FallbackKey,      \* the environment has the fallback's API key
  Outcomes,         \* what may come of an attempt, see AllOutcomes
  Fallback,         \* the fallback target, which has no row
  NoTarget

AllOutcomes ==
  { "ok",               \* status below 400; for a stream, its headers
    "client_error",     \* status below 500, not in retry.retryable_statuses
    "retryable_error",  \* status below 500, in retry.retryable_statuses
    "server_error",     \* status from 500
    "transport",        \* httpx.TimeoutException or httpx.ConnectError
    "stall",            \* headers from 400 of a stream, then a timeout
    "crash",            \* any other exception
    "abandon" }         \* a streamed response whose body is never started

\* The outcomes that end a dispatch without _release_dispatch.
Leaks == {"crash", "abandon"}

ASSUME ProxyAssumption ==
  /\ IsFiniteSet(Requests)
  /\ HardLimit \in [Backends -> Nat]
  /\ Drained \subseteq Backends
  /\ Streaming \subseteq Requests
  /\ Large \subseteq Requests
  /\ MaxAttempts \in Nat
  /\ FallbackEnabled \in BOOLEAN
  /\ FallbackKey \in BOOLEAN
  /\ Outcomes \subseteq AllOutcomes
  /\ Fallback \notin Backends
  /\ NoTarget \notin Backends
  /\ Fallback # NoTarget

VARIABLES
  backend,   \* backend[b]: the runtime row of b
  pc,        \* pc[r]: how far the handler of r is
  target,    \* target[r]: where the request of r is, NoTarget if nowhere
  attempts   \* attempts[r]: upstream attempts made for r

proxyVars == <<backend, pc, target, attempts>>

\* A handler in one of these has answered its client.
Replies ==
  { "ok", "error_status",                         \* an upstream response
    "queue_full", "queue_age", "no_backend",      \* 503 of the admission
    "fallback_unavailable",                       \* 503 of the fallback
    "unreachable",                                \* 504
    "retry_exhausted",                            \* 502
    "crashed",                                    \* 500, by the framework
    "abandoned" }                                 \* the client is gone

Outstanding == {"upstream", "headers"}

\* The requests that are at b, whatever the row of b says.
Serving(b) == {r \in Requests : target[r] = b}

-----------------------------------------------------------------------------
(* Rows and eligibility.                                                   *)

\* The rows after the one of t became s; the fallback has no row.
Stored(t, s) == IF t \in Backends THEN [backend EXCEPT ![t] = s] ELSE backend

\* Mutant of Eligible: a retry may choose the backend it just failed on.
EligibleAnywhere(rows, avoid) ==
  {b \in Backends : IsHealthyForSchedule(rows[b], HardLimit[b], b \in Drained)}

\* Mutant of Eligible: drained backends are offered too.
EligibleDrained(rows, avoid) ==
  {b \in Backends \ {avoid} : IsHealthyForSchedule(rows[b], HardLimit[b], FALSE)}

\* The candidates among which pick_backend chooses.  Its score weighs load,
\* latency averages and recent dispatches; any candidate may score lowest.
Eligible(rows, avoid) ==
  {b \in Backends \ {avoid} :
     IsHealthyForSchedule(rows[b], HardLimit[b], b \in Drained)}

\* The eligibility tests refresh the circuit of every row they look at.
Refreshed(rows, avoid) ==
  [b \in Backends |->
     IF b = avoid THEN rows[b] ELSE MaybeTransitionFromOpen(rows[b])]

\* r is dispatched to b after the eligibility tests.
Charged(rows, avoid, b, r) ==
  [Refreshed(rows, avoid) EXCEPT ![b] = Occupy(@, r \in Large)]

-----------------------------------------------------------------------------
(* The start of a proxy call.                                              *)

\* Mutant of Answer: the request stays at its target.
AnswerKeepsTarget(r, reply) ==
  /\ pc' = [pc EXCEPT ![r] = reply]
  /\ UNCHANGED <<target, attempts>>

\* The handler of r answers its client.
Answer(r, reply) ==
  /\ pc' = [pc EXCEPT ![r] = reply]
  /\ target' = [target EXCEPT ![r] = NoTarget]
  /\ UNCHANGED attempts

\* Mutant of NoAttempt: a target that is never tried is not given back.
NoAttemptKeepsLoad(r, t) ==
  /\ MaxAttempts = 0
  /\ Answer(r, "retry_exhausted")
  /\ UNCHANGED backend

\* The attempt loop is not entered.
NoAttempt(r, t) ==
  /\ MaxAttempts = 0
  /\ backend' = Stored(t, Release(backend[t], r \in Large))
  /\ Answer(r, "retry_exhausted")

\* _prepare_target_request succeeds: only the fallback needs a key.
Prepared(t) == t = Fallback => FallbackKey

FallbackUnavailable(r, t) ==
  /\ MaxAttempts > 0
  /\ ~Prepared(t)
  /\ Answer(r, "fallback_unavailable")
  /\ UNCHANGED backend

\* The first attempt awaits its upstream.
StartAttempt(r, t) ==
  /\ MaxAttempts > 0
  /\ Prepared(t)
  /\ pc' = [pc EXCEPT ![r] = "upstream"]
  /\ target' = [target EXCEPT ![r] = t]
  /\ attempts' = [attempts EXCEPT ![r] = 1]
  /\ UNCHANGED backend

\* proxy_chat_completion with the target t, up to the first upstream await.
BeginProxy(r, t) ==
  \/ NoAttempt(r, t)
  \/ FallbackUnavailable(r, t)
  \/ StartAttempt(r, t)

-----------------------------------------------------------------------------
(* The end of an attempt.  s is the row of the target with the result of   *)
(* the attempt recorded on it.                                             *)

\* Mutant of Settle: the target is given back twice.
SettleTwice(r, s, reply) ==
  /\ backend' = Stored(target[r], Release(Release(s, r \in Large), r \in Large))
  /\ Answer(r, reply)

Settle(r, s, reply) ==
  /\ backend' = Stored(target[r], Release(s, r \in Large))
  /\ Answer(r, reply)

\* Mutant of Retry: the failed target is not given back before the retry.
RetryWithoutRelease(r, s, reply) ==
  LET t    == target[r]
      rows == Stored(t, s)
  IN  \/ \E b \in Eligible(rows, t) :
           /\ backend' = Charged(rows, t, b, r)
           /\ target' = [target EXCEPT ![r] = b]
           /\ attempts' = [attempts EXCEPT ![r] = @ + 1]
           /\ UNCHANGED pc
      \/ /\ Eligible(rows, t) = {}
         /\ backend' = [b \in Backends |->
                          IF b = t THEN Release(rows[b], r \in Large)
                                   ELSE Refreshed(rows, t)[b]]
         /\ Answer(r, reply)

\* Mutant of Retry: the attempt is not counted.
RetryUncounted(r, s, reply) ==
  LET t    == target[r]
      rows == Stored(t, Release(s, r \in Large))
  IN  \/ \E b \in Eligible(rows, t) :
           /\ backend' = Charged(rows, t, b, r)
           /\ target' = [target EXCEPT ![r] = b]
           /\ UNCHANGED <<pc, attempts>>
      \/ /\ Eligible(rows, t) = {}
         /\ backend' = [b \in Backends |->
                          IF b = t THEN Release(rows[b], r \in Large)
                                   ELSE Refreshed(rows, t)[b]]
         /\ Answer(r, reply)

\* A retryable failure with attempts left: the target is given back, and the
\* next attempt goes to another eligible backend.  When there is none the
\* code falls through to the final failure, which gives the target back a
\* second time.
Retry(r, s, reply) ==
  LET t    == target[r]
      rows == Stored(t, Release(s, r \in Large))
  IN  \/ \E b \in Eligible(rows, t) :
           /\ backend' = Charged(rows, t, b, r)
           /\ target' = [target EXCEPT ![r] = b]
           /\ attempts' = [attempts EXCEPT ![r] = @ + 1]
           /\ UNCHANGED pc
      \/ /\ Eligible(rows, t) = {}
         /\ backend' = [b \in Backends |->
                          IF b = t THEN Release(rows[b], r \in Large)
                                   ELSE Refreshed(rows, t)[b]]
         /\ Answer(r, reply)

RetryOrSettle(r, retryable, s, reply) ==
  IF retryable /\ attempts[r] < MaxAttempts
    THEN Retry(r, s, reply)
    ELSE Settle(r, s, reply)

-----------------------------------------------------------------------------
(* Upstream results.                                                       *)

Row(r) == backend[target[r]]

\* The row after a bad status: only a 5xx reaches the circuit breaker.
AfterStatus(s, outcome) ==
  UpdateFailure(IF outcome = "server_error" THEN OnFailure(s) ELSE s)

BadStatus == Outcomes \cap {"client_error", "retryable_error", "server_error"}

\* A buffered response below 400.
Succeed(r) ==
  /\ "ok" \in Outcomes
  /\ pc[r] = "upstream" /\ r \notin Streaming
  /\ Settle(r, UpdateSuccess(OnSuccess(Row(r))), "ok")

\* A buffered response from 400.
FailWith(r, outcome) ==
  /\ pc[r] = "upstream" /\ r \notin Streaming
  /\ RetryOrSettle(r, outcome # "client_error",
                   AfterStatus(Row(r), outcome), "error_status")

FailStatus(r) == \E outcome \in BadStatus : FailWith(r, outcome)

\* A timeout or a failed connect reaches the outer handler: that of a
\* buffered attempt, or of reading the body of a streamed error response.
TransportFailure(r) ==
  /\ (IF r \in Streaming THEN "stall" ELSE "transport") \in Outcomes
  /\ pc[r] = "upstream"
  /\ RetryOrSettle(r, TRUE, UpdateFailure(OnFailure(Row(r))), "unreachable")

\* The headers of a streamed response below 400: already a success.
StreamHeaders(r) ==
  /\ "ok" \in Outcomes
  /\ pc[r] = "upstream" /\ r \in Streaming
  /\ backend' = Stored(target[r], UpdateSuccess(OnSuccess(Row(r))))
  /\ pc' = [pc EXCEPT ![r] = "headers"]
  /\ UNCHANGED <<target, attempts>>

\* A streamed response from 400 is passed on without a retry.
StreamStatus(r) ==
  /\ pc[r] = "upstream" /\ r \in Streaming
  /\ \E outcome \in BadStatus :
       Settle(r, AfterStatus(Row(r), outcome), "error_status")

\* A timeout or a failed connect before the headers of a streamed response.
StreamUnreachable(r) ==
  /\ "transport" \in Outcomes
  /\ pc[r] = "upstream" /\ r \in Streaming
  /\ Settle(r, UpdateFailure(OnFailure(Row(r))), "unreachable")

\* The body of the stream was read to its end, failed on the way, or lost its
\* reader: the finally of wrapped().
StreamFinish(r) ==
  /\ pc[r] = "headers"
  /\ Settle(r, UpdateSuccess(Row(r)), "ok")

\* An exception other than a timeout or a failed connect leaves the proxy.
Crash(r) ==
  /\ "crash" \in Outcomes
  /\ pc[r] = "upstream"
  /\ Answer(r, "crashed")
  /\ UNCHANGED backend

\* The framework drops the response before it starts wrapped(), whose finally
\* then never runs.
AbandonStream(r) ==
  /\ "abandon" \in Outcomes
  /\ pc[r] = "headers"
  /\ Answer(r, "abandoned")
  /\ UNCHANGED backend

UpstreamResult(r) ==
  \/ Succeed(r)
  \/ FailStatus(r)
  \/ TransportFailure(r)
  \/ StreamHeaders(r)
  \/ StreamStatus(r)
  \/ StreamUnreachable(r)
  \/ StreamFinish(r)
  \/ Crash(r)
  \/ AbandonStream(r)

=============================================================================
