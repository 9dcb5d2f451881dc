------------------------------ MODULE Placement ------------------------------
(***************************************************************************)
(* Which backend gets which request, over an unbounded run: bodies are     *)
(* classified, pick_backend chooses by the rows as they are at the         *)
(* dispatch or the retry, and the results change the rows for the next     *)
(* choice.                                                                 *)
(*                                                                         *)
(* Gateway has the queue, the fallback and the counters, but leaves the    *)
(* choice open and makes each request once; here the choice is the code's. *)
(* A slot stands for a request in flight and is used again by the next.    *)
(***************************************************************************)
EXTENDS Scoring, Intake, FiniteSets

CONSTANTS
  Order,       \* the backends in the order of config.yaml, a sequence
  SoftLimit,   \* SoftLimit[b]: soft_limit of b
  HardLimit,   \* HardLimit[b]: hard_limit of b
  MaxAttempts, \* retry.max_attempts; zero is a matter of Proxy
  Slots,
  Bodies,      \* the bodies clients send
  Samples,     \* the latencies of responses
  TtftCap,     \* the cap on the first-token time of a buffered response
  Steady,      \* at least so many dispatches in every hot_window_sec
  WindowMax,   \* bound: at most so many; the code forgets those above 256
  LeakMax,     \* bound: no leak where large_inflight is above it
  NoJob,
  Nowhere      \* what a first dispatch avoids

Backends == {Order[i] : i \in DOMAIN Order}

\* A request in flight; headers says that those of its stream have come.
Jobs ==
  [ at : Backends, heavy : BOOLEAN, stream : BOOLEAN, headers : BOOLEAN,
    attempts : 1..MaxAttempts ]

ASSUME PlacementAssumption ==
  /\ Order \in Seq(Backends)
  /\ \A i, j \in DOMAIN Order : Order[i] = Order[j] => i = j
  /\ SoftLimit \in [Backends -> Nat]
  /\ HardLimit \in [Backends -> Nat]
  /\ MaxAttempts \in Nat \ {0}
  /\ Samples \subseteq Nat
  /\ TtftCap \in Nat
  /\ Steady \in Nat
  /\ WindowMax \in 1..256
  /\ LeakMax \in Nat
  /\ NoJob \notin Jobs
  /\ Nowhere \notin Backends

VARIABLES
  backend,   \* backend[b]: the runtime row of b
  latency,   \* latency[b]: its averages
  window,    \* the targets of the dispatches of the last hot_window_sec
  job        \* job[s]: the request in slot s, NoJob if none

vars == <<backend, latency, window, job>>

Init ==
  /\ backend = [b \in Backends |-> NewBackend]
  /\ latency = [b \in Backends |-> [ttft |-> 0, e2e |-> 0]]
  /\ window = <<>>
  /\ job = [s \in Slots |-> NoJob]

-----------------------------------------------------------------------------
(* The choice.                                                             *)

Recent(b) == Cardinality({k \in DOMAIN window : window[k] = b})

View(b) ==
  [ inflight |-> backend[b].inflight, large |-> backend[b].large,
    soft |-> SoftLimit[b], ttft |-> latency[b].ttft, e2e |-> latency[b].e2e,
    errors |-> backend[b].errors, recent |-> Recent(b) ]

\* The positions of the eligible backends other than avoid.
Candidates(avoid) ==
  {i \in DOMAIN Order :
     /\ Order[i] # avoid
     /\ IsHealthyForSchedule(backend[Order[i]], HardLimit[Order[i]], FALSE)}

RecentTotal(avoid) ==
  Cardinality({k \in DOMAIN window :
                 \E i \in Candidates(avoid) : window[k] = Order[i]})

Chosen(avoid, heavy) ==
  Order[Pick([i \in Candidates(avoid) |-> View(Order[i])], heavy,
             RecentTotal(avoid))]

\* What the eligibility tests leave of the rows, and the dispatch to b.
Charged(avoid, b, heavy) ==
  [c \in Backends |->
     CASE c = avoid -> backend[c]
       [] c = b     -> Occupy(MaybeTransitionFromOpen(backend[c]), heavy)
       [] OTHER     -> MaybeTransitionFromOpen(backend[c])]

\* record_dispatch.  With WindowMax dispatches in the window the next one
\* comes when the oldest is hot_window_sec ago.
Recorded(b) ==
  Append(IF Len(window) < WindowMax THEN window ELSE Tail(window), b)

\* A request is validated, classified and dispatched.
Dispatch(s, body) ==
  /\ job[s] = NoJob
  /\ Verdict(body) = "accepted"
  /\ Candidates(Nowhere) # {}
  /\ LET heavy == Classify(body) \in Heavy
         b     == Chosen(Nowhere, heavy)
     IN  /\ backend' = Charged(Nowhere, b, heavy)
         /\ window' = Recorded(b)
         /\ job' = [job EXCEPT ![s] =
                      [ at |-> b, heavy |-> heavy, stream |-> IsStream(body),
                        headers |-> FALSE, attempts |-> 1 ]]
  /\ UNCHANGED latency

-----------------------------------------------------------------------------
(* Results.  row is the row of the target with the result recorded on it.  *)

Waiting(s) == job[s] # NoJob /\ ~job[s].headers

Row(s) == backend[job[s].at]

\* The dispatch ends with its release.
Settle(s, row) ==
  /\ backend' = [backend EXCEPT ![job[s].at] = Release(row, job[s].heavy)]
  /\ job' = [job EXCEPT ![s] = NoJob]
  /\ UNCHANGED window

\* A retryable failure: the target is given back and another one chosen; when
\* there is none, the target is given back a second time.
Retry(s, row) ==
  LET a     == job[s].at
      heavy == job[s].heavy
      free  == Release(row, heavy)
      b     == Chosen(a, heavy)
  IN  /\ job[s].attempts < MaxAttempts
      /\ \/ /\ Candidates(a) # {}
            /\ backend' = [Charged(a, b, heavy) EXCEPT ![a] = free]
            /\ window' = Recorded(b)
            /\ job' = [job EXCEPT ![s].at = b, ![s].attempts = @ + 1]
         \/ /\ Candidates(a) = {}
            /\ backend' = [Charged(a, a, heavy) EXCEPT ![a] = Release(free, heavy)]
            /\ job' = [job EXCEPT ![s] = NoJob]
            /\ UNCHANGED window

RetryOrSettle(s, row) ==
  \/ Retry(s, row)
  \/ job[s].attempts = MaxAttempts /\ Settle(s, row)

Blend(b, ttft, e2e) ==
  latency' = [latency EXCEPT ![b] = [ttft |-> Ewma(@.ttft, ttft),
                                     e2e |-> Ewma(@.e2e, e2e)]]

\* A buffered response: its first token comes with its last.
Succeed(s) ==
  /\ Waiting(s) /\ ~job[s].stream
  /\ Settle(s, UpdateSuccess(OnSuccess(Row(s))))
  /\ \E e2e \in Samples : Blend(job[s].at, SmallerOf(e2e, TtftCap), e2e)

\* A status from 500, a timeout or a failed connect; for a stream, a timeout
\* while the body of its error response is read.
FailAgain(s) ==
  /\ Waiting(s)
  /\ RetryOrSettle(s, UpdateFailure(OnFailure(Row(s))))
  /\ UNCHANGED latency

\* A stream whose response has a status from 500, or does not come.
StreamFail(s) ==
  /\ Waiting(s) /\ job[s].stream
  /\ Settle(s, UpdateFailure(OnFailure(Row(s))))
  /\ UNCHANGED latency

\* A status from 400 to 499: the error average rises and the circuit breaker
\* learns nothing.  retry.retryable_statuses may have the status.
ClientError(s) ==
  /\ Waiting(s)
  /\ \/ Settle(s, UpdateFailure(Row(s)))
     \/ ~job[s].stream /\ RetryOrSettle(s, UpdateFailure(Row(s)))
  /\ UNCHANGED latency

StreamHeaders(s) ==
  /\ Waiting(s) /\ job[s].stream
  /\ backend' = [backend EXCEPT ![job[s].at] = UpdateSuccess(OnSuccess(@))]
  /\ \E ttft \in Samples : Blend(job[s].at, ttft, ttft)
  /\ job' = [job EXCEPT ![s].headers = TRUE]
  /\ UNCHANGED window

StreamFinish(s) ==
  /\ job[s] # NoJob /\ job[s].headers
  /\ Settle(s, UpdateSuccess(Row(s)))
  /\ \E e2e \in Samples :
       Blend(job[s].at, latency[job[s].at].ttft, e2e)

\* An exception nobody catches, or a stream that is never read: the dispatch
\* ends without its release.  Leaks of large requests and double releases of
\* others raise large_inflight without end, hence the bound.
Leak(s) ==
  /\ job[s] # NoJob
  /\ Row(s).large <= LeakMax
  /\ job' = [job EXCEPT ![s] = NoJob]
  /\ UNCHANGED <<backend, latency, window>>

Result(s) ==
  \/ Succeed(s)
  \/ FailAgain(s)
  \/ StreamFail(s)
  \/ ClientError(s)
  \/ StreamHeaders(s)
  \/ StreamFinish(s)
  \/ Leak(s)

-----------------------------------------------------------------------------

Cooldown(b) ==
  /\ backend[b].timer = "running"
  /\ backend' = [backend EXCEPT ![b].timer = "elapsed"]
  /\ UNCHANGED <<latency, window, job>>

\* tick_circuits, also when the tick finds no work.
Tick ==
  /\ backend' = [b \in Backends |-> MaybeTransitionFromOpen(backend[b])]
  /\ UNCHANGED <<latency, window, job>>

\* The oldest dispatch is hot_window_sec ago.
Forget ==
  /\ Len(window) > Steady
  /\ window' = Tail(window)
  /\ UNCHANGED <<backend, latency, job>>

Next ==
  \/ \E s \in Slots, body \in Bodies : Dispatch(s, body)
  \/ \E s \in Slots : Result(s)
  \/ \E b \in Backends : Cooldown(b)
  \/ Tick
  \/ Forget

Spec == Init /\ [][Next]_vars

-----------------------------------------------------------------------------

\* Every variable keeps its type, with no count or average below zero whatever
\* is released twice (client.py:91).
TypeOK ==
  /\ backend \in [Backends -> BackendStates]
  /\ latency \in [Backends -> [ttft : Nat, e2e : Nat]]
  /\ window \in Seq(Backends) /\ Len(window) <= WindowMax
  /\ job \in [Slots -> Jobs \cup {NoJob}]

\* The request in slot s is sent to a backend, for the first time or again.
Sent(s) ==
  job'[s] # NoJob /\ (job[s] = NoJob \/ job'[s].at # job[s].at)

Left(s) == IF job[s] = NoJob THEN Nowhere ELSE job[s].at

\* v is less loaded than w, and w is not ahead of v in anything else.
Better(v, w, heavy) ==
  /\ v.inflight < w.inflight
  /\ v.inflight - v.soft <= w.inflight - w.soft
  /\ v.ttft <= w.ttft
  /\ v.e2e <= w.e2e
  /\ v.errors <= w.errors
  /\ v.recent <= w.recent
  /\ heavy \/ v.large <= w.large

\* However averages, penalties and circuits have developed, neither a dispatch
\* nor a retry goes to a backend when an eligible one is better in every
\* respect that the score reads (scoring.py, pick_backend).
NeverToTheWorse ==
  [][\A s \in Slots :
       Sent(s) =>
         \A i \in Candidates(Left(s)) :
           ~Better(View(Order[i]), View(job'[s].at), job'[s].heavy)]_vars

\* Without a hot penalty of its own, b scores less than the hot penalty of a
\* backend that takes all.
Light(b) ==
  Score([View(b) EXCEPT !.recent = 0], FALSE, 0) < FullHotPenalty

\* A backend that took every recent dispatch gets no further request while an
\* eligible one has averages, load and errors that weigh less than the full
\* hot penalty (scoring.py, hot_penalty; docs/plan.md:212).
NoMonopoly ==
  [][\A s \in Slots :
       LET b == job'[s].at
       IN  Sent(s) /\ RecentTotal(Left(s)) > 0
                   /\ Recent(b) = RecentTotal(Left(s)) =>
             \A i \in Candidates(Left(s)) : Order[i] = b \/ ~Light(Order[i])]_vars

\* The average keeps b out, and none of its requests is left to lower it.
ShutOut(b) ==
  /\ backend[b].errors > ErrorCap
  /\ \A s \in Slots : job[s] # NoJob => job[s].at # b

\* The exclusion by max_error_rate_for_eligibility is for good, also of a
\* backend whose circuit is closed: no tick, cooldown or retry of another
\* request ends it (registry.py:59).
ExclusionIsForGood == [][\A b \in Backends : ShutOut(b) => ShutOut(b)']_vars

=============================================================================
