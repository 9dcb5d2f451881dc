# The inference gateway in TLA+

The gateway (`src/app`) admits chat completions into a bounded queue, lets a
scheduler assign each to one of a few vLLM backends, proxies it there with
retries, and keeps a runtime row for every backend: the requests dispatched to
it, latency and error averages and a circuit breaker. Everything runs on one
asyncio event loop. The modules in this directory model the row, the queue, the
scheduler's tick, the request handler and the proxy, and compose them; beside
them stand the classifier and the score with the traffic they see, and the
counters and gauges of `/metrics`. TLC checks them on small instances; the TLA+
proof system checks theorems about them for all values of the constants.

## 1. The system

| Part | Source | State | Operations | Must hold |
| --- | --- | --- | --- | --- |
| Backend row | `backends/state.py` | inflight, large_inflight, error and latency averages, recent dispatches, circuit fields | `update_success`, `update_failure`, `record_dispatch`, `dispatch_share` | counts match the requests at the backend |
| Circuit breaker | `backends/health.py` | lives in the row: circuit, streak, opening time, probe count | `on_request_start`, `on_success`, `on_failure`, `maybe_transition_from_open`, `half_open_allow_dispatch` | fields agree; no traffic in a cooldown; recovery |
| Registry | `backends/registry.py` | one row per configured backend | `tick_circuits`, `is_healthy_for_schedule` | hard_limit, drained backends |
| Admission queue | `queue/admission_queue.py` | a deque with a maximum | `enqueue`, `pop_batch`, `requeue_front` | bound and order |
| Scheduler | `scheduler/dispatcher.py` | local to a tick: the batch, the requests to put back | the loop, `_dispatch_tick`, `_reject` | nothing lost, nothing twice |
| Scoring | `scheduler/scoring.py` | none (reads the rows) | `score_backend`, `hot_penalty`, `pick_backend` | no worse backend chosen, no backend dominant |
| Classifier | `scheduler/classifier.py` | none | token estimate, stream flag, class | bad bodies turned away, class by size |
| Request handler | `api/routes.py` | one coroutine per request, waiting on `dispatch_future` | `chat_completions` | answered once |
| Proxy | `proxy/client.py` | local: target, attempts | `proxy_chat_completion`, `_proxy_streaming`, `_pick_retry_target`, `_release_dispatch` | one release per dispatch |
| Metrics | `metrics/` | Prometheus counters and gauges | increments everywhere, `sync_backend_gauges` | the sums agree with what happened, a scrape with the queue |
| Readiness | `backends/probe.py` | none | `probe_backends`, `ready_payload` | |
| Process | `main.py` | the objects above | start, shutdown | |

**Interaction.** A handler validates and classifies the body, enqueues a
`PendingRequest` and awaits its future, for `queue_max_age_ms` at most. The tick
pops a batch and, for each request, skips it (future done), rejects it (too
old), puts it back (no eligible backend) or charges the backend of lowest score
and resolves the future. The handler then proxies. Each result is recorded in
the row of the target, the dispatch is released, and a retryable failure charges
another backend directly, past queue and scheduler. Without a place in the queue
or a backend in time, a handler goes to the OpenAI fallback when that is
enabled, and answers 503 when it is not.

**What is hard here.**

- *Late results.* A result can arrive when the circuit has opened, half-opened
  or closed since the dispatch. Nothing in the row tells a probe from an older
  request.
- *Two writers.* The tick and the retries of all handlers charge the same rows.
- *Paths out of the proxy.* A dispatch ends in about a dozen ways, and each has
  to release it once and to be counted once.
- *The race on the future* between `wait_for`, the tick and its age test.
- *Requeueing* around the bound and the order of the queue.
- *Recovery.* Whether an excluded or badly scored backend comes back depends on
  traffic it only gets when it is not excluded.

**Atomicity.** A coroutine gives up control only where it awaits something that
is not ready. The queue's lock is never held across such a point, so acquiring
it never waits. `tick_circuits`, `pop_batch` and `requeue_front` do not suspend
either, so a whole tick runs between two turns of the event loop; the only
suspension of the scheduler is the wait at `dispatcher.py:46`. What the proxy
does between an upstream result and its next await is one step for the same
reason. The clock is not stopped by any of this: each eligibility test reads it.
A tick is therefore several steps in the model, with the end of a cooldown
possible between any two of them, and handlers excluded by `LoopFree`.

## 2. The modules

```
BackendState ─┬─ CircuitBreaker ── ProbeHistory ── CircuitBreakerProofs
              ├─ BackendStateProofs (cited by all other proofs)
              ├─ Proxy ─┬─ Scheduler ── Gateway ─┬─ Metrics, Gauges
AdmissionQueue ─────────┘                        ├─ GatewayRefinement (INSTANCE RequestLifecycle)
              │                                  └─ BreakerRefinement (INSTANCE CircuitBreaker)
              └─ Scoring ─┬─ Placement ── PolicyProofs
Intake ───────────────────┘

ProxyProofs ── GatewayProofs ─┬─ LoadProofs (with Metrics and Gauges)
                              └─ LineProofs ── RefinementProofs (with both refinements)
```

`MCCircuitBreaker`, `MCProbeHistory`, `MCGateway`, `MCMetrics`, `MCGauges` and
`MCPlacement` hold the values for TLC.

**BackendState** has no variables. Each function of the code that changes a row
in place is an operator from a row to a row, under the code's name in CamelCase.
`FieldsAgree` says which combinations of circuit, streak, probe count and timer
make sense; no single function establishes it.

**CircuitBreaker** is one backend over an endless run. `row` is its row, and
`work[s]` says what the request in slot `s` is doing. A slot is used again, so
demand never ends, which is what recovery is about. Actions: `Tick` (a refresh of
the circuit), `Cooldown`, `Dispatch`, and one action per result.

**ProbeHistory** adds two history variables: `probing`, the slots whose request
was sent as a probe, and `phase`, those sent in the half-open phase under way.
The code keeps only the count `half_open_probes`; what its documents promise is
about the probes.

**Proxy** models `client.py`. `pc[r]` is the place of the handler of `r`,
`target[r]` where its request is, `attempts[r]` how often it was tried.

| Action or operator | Code |
| --- | --- |
| `BeginProxy` = `NoAttempt`, `FallbackUnavailable`, `StartAttempt` | entry of `proxy_chat_completion` up to the first upstream await |
| `Succeed`, `FailStatus`, `TransportFailure` | the buffered attempt |
| `StreamHeaders`, `StreamStatus`, `StreamUnreachable`, `StreamFinish` | `_proxy_streaming`, and the `finally` of its generator |
| `Retry`, `Settle`, `RetryOrSettle` | release and choose again; the final release |
| `Crash`, `AbandonStream` | ways out that release nothing |
| `Eligible`, `Charged` | eligibility and the charge of the chosen row |

`StreamFinish` also stands for a stream that breaks off, since the `finally`
does the same for both. `Retry` keeps the fall-through of the code: with no other
backend it releases a second time.

**AdmissionQueue** has the queue operations as operators on sequences.

**Scheduler** adds `queue` and the locals of a tick, `batch` and `held` (the
list `requeue`). Handler: `Arrive`, `TimerFires`, `Resume`. Clock: `Age`,
`Cooldown`. Tick: `TickBegin`, then per request `Skip`, `RejectOverdue`, `Hold`
or `Assign`, then `TickEnd`. `Age` happens between ticks only, because the tick
reads the clock once for it.

`pc` before the proxy names the state of the future: `waiting` and `overdue`
(pending), `timedout` (cancelled by `wait_for`), `rejected`, `dispatched`. The
image runs Python 3.11 (`Dockerfile:1`). There `wait_for` looks at the future
once more before it cancels it, so a tick in between may still reject the
request; that is `RejectOverdue` followed by `Resume`. (From 3.12 on, a timer
that fires in the loop pass of such a tick makes it a timeout after all.) A tick
in between cannot dispatch it, because the timer was started after
`enqueued_at_monotonic` was read and the tick's age test uses the same bound.

**Gateway** closes the system and states its properties.

**RequestLifecycle** is the abstract specification: what becomes of a request,
with no queue, tick, row or future. A request waits in a room of `QueueMax`
places, is placed while it waits and at no drained backend, is tried
`MaxAttempts` times at most and each time somewhere else, is refused only
untried, and is answered once. **GatewayRefinement** maps places of handlers to
stages. **BreakerRefinement** maps the gateway to one `CircuitBreaker` per
backend: a request is in a slot of backend `b` while `target[r] = b`.

**Metrics** runs the gateway with the counters of `prometheus.py` beside it.
Each of its actions is the gateway's action with the increments the code makes
in it; a counter is never read by the gateway, which `CountersOnlyWatch` states.

**Gauges** does the same with the gauges and adds `Scrape`, the handler of
`GET /metrics`. The queue sets its depth gauge in each of its operations, in the
middle of a tick too; the gauges of the backends are a copy of the rows, made at
the end of a tick and after a scrape has been rendered.

**Intake** has validation (`Verdict`) and classification (`Classify`) as
functions of a request body. **Scoring** has the score, its terms, `Pick` and
the latency averages. **Placement** is a system of its own on top of both: bodies
arrive, are classified, and are dispatched to the backend `Pick` chooses by the
rows, averages and recent dispatches of that moment; results change them; the
window of recent dispatches slides. It runs for ever with a few slots. Gateway
leaves the choice among eligible backends open and Placement makes it; what
Gateway shows of any choice holds of that one.

| Action of `Placement` | Code |
| --- | --- |
| `Dispatch` | validation, classification, and the charge in a tick |
| `Succeed`, `StreamHeaders`, `StreamFinish` | the results that blend latencies in |
| `FailAgain`, `ClientError` | the failures that may be retried, with `Retry` and its fall-through to a second release |
| `StreamFail` | a failed stream, which is not retried |
| `Leak` | an exception nobody catches, and the stream that is never read |
| `Tick`, `Cooldown`, `Forget` | `tick_circuits`; the clock, for circuits and for the window |

### Abstractions

- In `Gateway` any eligible backend may be chosen; in `Placement` there is no
  queue, no drained backend and no fallback, so all demand passes the choice.
- `recent_error_rate` is an integer in `0..ErrorScale` and its average rounds
  down. Times are compared with their bound only (`Timers`; `waiting` against
  `overdue`).
- Scores are integers in half points, rounded down once per term where the code
  keeps floats. Latencies are in units of ten seconds, for which the weights of
  `config.yaml` are the integers 600 and 400 and the cap of 10 s on the first
  token of a buffered response is 1; the initial averages of 50 and 200 ms
  round to 0. The latency averages round towards the sample, so that
  they reach it. The `ewma_queue_ms` term is left out: nothing updates it.
- A request of `Gateway` is a member of `Requests` and is made once; `Large` and
  `Streaming` stand for the classifier's verdict. In `Intake` a message is the
  length of its text or `NoText`, and content in several parts is several
  messages. Of a JSON array or string only what `in` and `get` make of it is kept:
  it is turned away with 400 if it lacks a `"model"` or has a correlation id, and
  crashes otherwise, as numbers, booleans and null always do.
- In `Placement` the window forgets the oldest dispatch at once when it holds
  `WindowMax`, so a longer window is not looked at; and no request leaks where
  `large_inflight` is above `LeakMax`. Without that bound the count would grow
  for ever: a leak raises it for good, and the second release of another
  request takes that leak out of `inflight` again but not out of
  `large_inflight`.
- The fallback's `backend_name` is not the name of a backend
  (`Fallback \notin Backends`).
- The outcomes of an attempt are the constant `Outcomes`: a run says what its
  upstreams may do.

Mutated operators stand before the operator they mutate; each is a plausible
mistake in that code, and shows that a property can fail.

## 3. What TLC checks

| Run | Properties | Result |
| --- | --- | --- |
| `breaker_all` | `TypeOK`, `CircuitConsistent`, `CountWithinLimit`, `PhaseProbesCounted`, `CircuitFollowsDiagram`, `NothingSentDuringCooldown` | hold, 67,119 states |
| `breaker_recovery` | `RecoveryTraffic`, `ProbesAreDecided` | hold, 6,343 |
| `queue` | `QueueBounded`, `ExactlyOnePlace`, `EveryDispatchCounted`, `LoadWithinHardLimit`, `DrainedUnused`, `OrderKept`, `OvertakenOnlyByProbe`, `NoLateDispatch` | hold, 274,772 |
| `load` | `TypeOK`, `TargetHeld`, `CircuitsConsistent`, `CountWithinLimit`, `NoPhantomLoad`, `AttemptsAccounted`, `RejectionsAccounted`, `RetriesCounted`, `OverrunAccounted`, `RetryGoesElsewhere`, `EachBackendIsABreaker` | hold, 1,522,092 |
| `zero_attempts` | `NoPhantomLoad`, `AttemptsAccounted`, `RejectionsAccounted` | hold, 5,574 |
| `placement` | `TypeOK`, `NeverToTheWorse`, `NoMonopoly`, `ExclusionIsForGood` | hold, 1,227,746 |
| `answered` | `QueueShown`, `PhantomsAreLeaks`, `EveryRequestAnswered`, `HandlersAdvance`, `ImplementsLifecycle`, `GaugesCatchUp` | hold, 45,728 |
| `hard_limit` | `LoadWithinHardLimit` | violated: double release |
| `crash_leak` | `NoPhantomLoad` | violated: uncaught exception |
| `breaker_client_error` | `ProbesAreDecided` | violated: probe answered with a 4xx |
| `breaker_error_cap` | `RecoveryTraffic` | violated: error average frozen above the cap |
| `stale_success` | `ClosedByProbe` | violated: circuit closed by a stale success |

The violations are differences between what the code does and what a document
or docstring of the repository says; `PROJECT.json` quotes both. The one with the
widest effect is `breaker_error_cap`: with the values of `config.yaml` (five
failures in a row, cap 0.35) the error average is above 0.76 whenever a circuit
opens, so the backend gets no probe.

Met while modelling, without a run of their own: a streamed response whose
generator is never started is not released (the outcome `abandon`, the other of
the two `Leaks`); the failure of an old request resets `half_open_probes` while a
probe is outstanding, so the probes of two half-open phases can be at a backend
together, which is why `PhaseProbesCounted` speaks of one phase; a streamed
request whose connect fails is answered 504 without a retry
(`StreamUnreachable`); the hot penalty can outweigh the soft limit, so a busier
backend may be chosen over one within it, although `docs/plan.md:696` wants it moderate (so
`Better` compares both); and the error ratio of `docs/sla.md:97`
does not see what ends in `fallback_unavailable`, `retry_exhausted` or `crashed`,
which raise no error counter.

**The ledger.** `inflight` should equal the number of requests at the backend.
It does not, in either direction, so each direction is a property of its own.
`NoPhantomLoad` (the count is not too high) holds with any number of retries
unless an attempt can end in one of the two `Leaks`. `EveryDispatchCounted` (not
too low) holds with one attempt; with two, the double release breaks it. Because
`_release_dispatch` stops at zero, the double release shows only when another
request is counted at the same time. Two more properties say by how much the
count can be wrong, with every outcome and any number of attempts:
`PhantomsAreLeaks` (too high by one for each handler that ended in an exception
or with an unread stream, and for nothing else) and `OverrunAccounted` (too low
by one for each retry that was counted and found no backend). The second is
about the counter `gateway_request_retries_total`: what it shows above the
retries made is a bound on the requests a backend may have beyond `hard_limit`.

**The books.** `AttemptsAccounted` balances five counters with the handlers:
what was dispatched or sent to the fallback is under way, or is one latency or
one error. `RejectionsAccounted` says exactly how far the rejection counters can
be trusted: `queue_full` and `no_backend` count answers, `queue_age` counts each
rejection of a tick a second time. `RetriesCounted` bounds the retry counter from
both sides.

**Progress.** `HandlersAdvance` is what `EveryRequestAnswered` rests on besides
fairness: `StepsLeft`, at most `MaxAttempts + 5`, falls with every step for a
request. So no request comes back to the queue, no retry loop goes on for ever,
and a client without an answer has a handler that nobody wakes.

**The gauges.** `QueueShown`: the depth a scrape shows is exact, because no
handler runs while a batch is out of the queue and putting it back sets the gauge
again. The rows a scrape shows are those of the last copy, since `/metrics`
renders before it copies (`routes.py:83`; its docstring speaks of the latest
gauges). `GaugesCatchUp` says that this lag ends, which rests on the scheduler
copying the rows after a tick without work as well.

**The choice.** The averages of a backend change only with its own traffic, so
after a bad spell its score stays bad. What brings it traffic is the hot penalty of
the others: a backend with all recent dispatches pays 405 points with the
weights of `config.yaml`. `NoMonopoly` says that it then yields to any candidate
that weighs less, whatever led there. That is all the code promises, and it is no
promise that every backend is used:

- averages that weigh more than the hot penalty (a little over 8 s when both
  are equal, as for buffered responses) keep a backend out as long as others are
  eligible;
- with three backends or more, two that share the traffic are each below
  `hot_target_share` and pay nothing;
- an error average above the cap keeps a backend out altogether.
  `ExclusionIsForGood`: once its last request has ended, nothing brings it
  back. That is what `breaker_error_cap` shows of a half-open circuit, but the
  circuit need not open for it: two failures or two 4xx answers are enough
  (0.4375 against a cap of 0.35), where it takes five failures in a row to open it.

So there is no liveness property of `Placement`: eventual use of every backend is
false of the code.

**Bounds.** Three requests on a backend of limit two are the fewest for which a
result can arrive after the circuit was opened by one request and half-opened
for another, with a third counted. Two backends are enough for a retry to have,
or to lack, somewhere to go. In `load` one of them takes two requests, the fewest
at which a double release takes another request's place; its queue of one leaves
batches to `queue` and `zero_attempts`. Four requests, a queue of three and batches of two
make the batch smaller than the queue, fill the queue during a tick if that were
possible, and leave a request outside; in the same run one backend is drained,
and with `MaxAttempts` 1 the count of the other is exact. `OpenThreshold` is 1 or
2: 1 makes circuits open within the few requests of `Gateway`, 2 leaves a streak
to be reset. `ErrorCap` is 60 of 100, which three failures pass, where exclusion
by errors is wanted, the whole scale where it is not (`queue` and `answered`
drop the average altogether with a scale of 1), and the default 35
in `breaker_error_cap`. `HalfOpenMax` is 1, the default of `config.yaml`. In
`CircuitBreaker` the streak is bounded by the circuit opening; in `Gateway`
everything, the counters included, is bounded by each request being made once.
`placement` has two slots, so that results come late and retries find the other
backend full; limits of two and one; a window of at most two dispatches, so that
both backends can have a share or one all of it (`Steady`, `WindowMax`);
latencies of 0 and 10 s, on both sides of the hot penalty; the weights of
`config.yaml`; a small chat, a long stream and three bodies that are turned away.
Its error average has a scale of 5 and a cap of 1: one failure is below the cap,
two are above it. The order of slots does not matter (`SYMMETRY`). It may
deadlock, since every backend can be excluded or full of leaks for good.

**Fairness.** The scheduler loop comes round every `tick_ms`, a cooldown and a
timer run out, and an upstream answers or runs into `request_timeout_ms`: weak
fairness of the tick and of cooldowns. A tick disables the handlers for a moment,
so what moves a request on (`Age`, `TimerFires`, `Resume`, `Proceed`, of which
its place admits one at a time) gets strong fairness; the event loop runs every
ready callback before it polls again. `Arrive` is not fair: clients may stay away. In
`CircuitBreaker` an eligible backend gets a request (weak fairness of `Dispatch`
over all slots): that is the demand the recovery properties presuppose.
`GFairSpec` asks for the tick with its copy of the rows as well, work or no work.
`Placement` has no fairness: its properties are about single steps.

## 4. What is proved

All proofs are checked by tlapm, for any sets of requests and backends, any
limits, thresholds, weights, queue and batch sizes, numbers of attempts and
outcomes allowed by the named assumptions (`HealthAssumption`,
`BreakerAssumption`, `ProxyAssumption`, `QueueAssumption`, `RoutingAssumption`,
`PlacementAssumption`). Those say that numbers are naturals, `OpenThreshold` is
not zero, requests are finitely many, the fallback is not a backend, and
backends are configured once. Only `Placement` also has
bounds in its actions: what is proved of it holds for a window of up to 256
dispatches and leaks within any `LeakMax`.

| Theorem | Property |
| --- | --- |
| `CircuitBreakerProofs!TypeCorrect`, `CircuitAlwaysConsistent`, `CountAlwaysWithinLimit`, `PhaseProbesAlwaysCounted` | the invariants of `breaker_all` |
| `CircuitBreakerProofs!FollowsDiagram`, `CooldownIsQuiet` | its action properties |
| `GatewayProofs!Invariance`, `TypeCorrect` | `IInv`, `TypeOK` |
| `GatewayProofs!TargetAlwaysHeld`, `CircuitsAlwaysConsistent`, `CountAlwaysWithinLimit`, `QueueAlwaysBounded`, `DrainedNeverUsed` | the invariants of the same names |
| `GatewayProofs!NeverDispatchedLate`, `RetryAlwaysGoesElsewhere` | `NoLateDispatch`, `RetryGoesElsewhere` |
| `GatewayProofs!HandlersAlwaysAdvance` | `HandlersAdvance` |
| `LineProofs!AlwaysInExactlyOnePlace`, `OrderAlwaysKept`, `OvertakenOnlyByProbes` | `ExactlyOnePlace`, `OrderKept`, `OvertakenOnlyByProbe` |
| `LoadProofs!NeverPhantomLoad` | `NoPhantomLoad`, if `Outcomes` has no leak |
| `LoadProofs!AlwaysCounted`, `LoadAlwaysWithinHardLimit` | `EveryDispatchCounted`, `LoadWithinHardLimit`, if `MaxAttempts <= 1` |
| `LoadProofs!PhantomsAlwaysLeaks` | `PhantomsAreLeaks`, for any outcomes |
| `LoadProofs!OverrunAlwaysAccounted`, `OverrunAlwaysBounded` | `OverrunAccounted`, for any number of attempts; what it means for `hard_limit` |
| `LoadProofs!AttemptsAlwaysAccounted`, `RetriesAlwaysCounted` | `AttemptsAccounted`, `RetriesCounted` |
| `LoadProofs!CountersOnlyWatch`, `RejectionsAlwaysAccounted` | `MSpec => Spec`; `RejectionsAccounted` |
| `LoadProofs!GaugesOnlyWatch`, `QueueAlwaysShown` | `GSpec => Spec`; `QueueShown` |
| `RefinementProofs!GatewayImplementsLifecycle` | `ImplementsLifecycle` |
| `RefinementProofs!EveryBackendIsABreaker` | `EachBackendIsABreaker`, if `MaxAttempts > 0` |
| `PolicyProofs!ClassBySize`, `BetterScoresLower`, `PickIsLowest` | of the operators of `Intake` and `Scoring` |
| `PolicyProofs!PlacementTypeCorrect`, `NeverPlacedWorse` | `TypeOK` of `Placement`; `NeverToTheWorse`, if `InflightWeight > 0` |
| `PolicyProofs!MonopolyEnds`, `ExcludedForGood` | `NoMonopoly`, `ExclusionIsForGood` |

**Rows.** `BackendStateProofs` shows of each function of the row what it keeps (a
well-formed row, `FieldsAgree`) and what it does to the counts. `ProxyProofs`
lifts this to all rows, and reduces every way an attempt can start or end to one
of six effects on counts and target: `Keeps`, `Leaves`, `LeavesTwice`,
`LeavesUnreleased`, `Joins`, `Moves`.

**The gateway's invariant.** `IInv` has three parts. `GoodRows` is inductive
because `FieldsAgree` is kept by every function from any row in which it holds,
whatever result is recorded: no assumption ties a result to the circuit at the
time of its dispatch, and none is true. Its parts need each other: that a closed
row has no probes, for one, follows from what an open and a half-open row can
hold when they are left. `HandlersOK` ties target to place, which tells who
leaves a backend and who joins. `QueueOK` adds to the bound that nothing is
popped between ticks; `QueueBounded` alone is not inductive, because an enqueue
compares the queue alone with the bound. `StepOK` shows that each step keeps
`IInv` and changes at most one request, in one of the six ways.

**The line.** `LineProofs` looks at `held \o batch \o queue` as one sequence and
shows that every step leaves it, appends a new request, or drops one element
whose future is done (`LineStep`). `LineOK` (pending requests are in it, no
request is in it twice, none that has not arrived) follows, and with it
`OrderKept`: two elements of a sequence without repetition keep their order under
those three steps. `OvertakenOnlyByProbe` needs to know what it means to have
been held back: while `held` is not empty, every backend was refused during the
tick, and can take a request now only if its circuit has been open since and its
cooldown over (`HeldBack`). Inside a tick nothing is released, so the other
reasons for a refusal stay; the same invariant would be false between ticks.

**The way of a handler.** `HandlersAdvance` goes through the actions once
(`HandlersForward`): before the proxy the places are in order, and among the
results only a retry leaves a handler where it is, with `attempts` one higher and
still within `MaxAttempts`, which `HandlersOK` says.

**Counts.** `LoadProofs` shows that a step changes the cardinality of the
requests at a backend and its count together (`BookStep`). The two effects that
break the balance are `LeavesTwice`, possible only with an attempt left over, and
`LeavesUnreleased`, possible only for a handler that escapes. Counting the
escaped handlers as well (`PhantomsOwed`) gives `PhantomsAreLeaks` without a
condition on the outcomes. The other direction needs the counters: `CountedLoad`
shows that a step with a second release is a failed attempt whose retry was
counted and not made, and `RetriesInVain` never falls, so `OverrunOwed` is
inductive.

**Books.** A sum over backends is the number of its units (`Units`, `Total`): a
finite set, which grows by one element when a counter is raised
(`OneUnitMore`). So no induction over the backends is needed. `BookingStep` lists
what a step may book and where it takes its handler: into the places where a
dispatch is not yet settled, out of them, or neither. `Balanced` and
`RetriesBooked` follow by arithmetic in each case. The rejection counters get the
same treatment against the handlers in the places of refusal. For the gauges,
`DepthShown` (the gauge is the length of the queue, in the middle of a tick too)
is inductive with `IInv`, and `QueueOK` says that between ticks the line is the
queue alone.

**Refinements.** For the lifecycle, each step is a step of one request or
invisible; `LineOK` bounds the waiting room by the queue, and `Untried` (no
attempt before the wait is over) makes refusals those of untried requests. For
the breakers, a step is followed on the row of one backend: it gives the row back
(`GivesBack`), refreshes it (`Refreshes`), puts the request there (`Enters`) or
leaves it alone (`Same`), and each of these is a step of `CircuitBreaker`. So the
theorems of `CircuitBreakerProofs` hold of every backend of the gateway.
`MaxAttempts = 0` is left out because a dispatch is then released without any
result, which `CircuitBreaker` does not know.

**Probes.** That `half_open_probes` covers the probes of the current phase needs
more than itself: `phase` is empty outside a half-open circuit and consists of
occupied slots, so each dispatch adds one to both, and each result only takes
away from the set or ends the phase.

**The choice.** Every term of the score is monotone in what it reads; the hot
penalty is so because it is the square of a non-negative excess. `PickIsLowest`
uses well-founded choice on naturals, then on positions among equals, which gives
the first of the lowest. `SentToLowest` brings it into the system: in every step
that sends a request, a dispatch or a retry, no candidate scores less than the
target. `NeverPlacedWorse` is this and monotony. For `MonopolyEnds` the dispatches
of the monopolist are a subset of all that count, with the same cardinality, so
they are the same set and the others have none (`OthersHaveNone`); a share of
one makes the hot penalty `FullHotPenalty` (`QuotientCancel`), and no other term is
negative. `ExcludedForGood` looks at every step: candidates are below the cap, so
nothing is sent to an excluded backend, and only results of its own requests,
of which none is left, write its average. The invariant behind all four is
`TypeOK`, which is inductive as it stands.

**Model-checked only.** Liveness: `RecoveryTraffic`, `ProbesAreDecided`,
`EveryRequestAnswered` and `GaugesCatchUp` are out of the prover's
reach. Of the second and the third the safety behind them is proved
(`PhaseProbesCounted`, `HandlersAdvance`). Every invariant and
every action property of a passing run is stated by a theorem.

## 5. What is not modelled

- The gauges of the latency averages and of the oldest wait: the gateway model
  has no latencies, and of an age only whether it has reached its bound.
- The readiness probe: one GET to each upstream without state, and it touches
  none of the gateway's.
- Shutdown: uvicorn runs without a graceful timeout (`main.py:71`), so the
  lifespan's end comes when no request is open.
- Logging (synchronous output), configuration loading (its values are the
  constants), conversation ids, schemas, version data: they format or read, and
  keep no state the properties are about. `proxy/stream.py` is not called.
- The forgetting of dispatches beyond 256 of a backend (`state.py:45`);
  `WindowMax` stays below.
- An exception inside a tick (`dispatcher.py:41`), which would lose the popped
  batch: no statement of the tick was found that raises in a reachable state.
- Deployment files.

## 6. Plan

1. (done) `BackendState`, `CircuitBreaker`, `ProbeHistory`: the row and the
   breaker, where most of the disagreements with the documents are.
2. (done) `Proxy`, `AdmissionQueue`, `Scheduler`, `Gateway`: the composition.
3. (done) `RequestLifecycle` and `CircuitBreaker` as abstract views of the
   gateway, with both refinements proved.
4. (done) `Intake`, `Scoring`, `Placement`: classifier and score, and the traffic
   they shape.
5. (done) `Metrics`, `Gauges`: what `/metrics` shows.
6. (done) The proofs of section 4.
7. (done) How wrong the counts of a backend can become, with leaks and with
   retries in vain, and the sums of the counters, as theorems.
8. (done) `Placement` with every way an attempt can end, so that what it says
   of the choice holds after retries, second releases and leaks too.
9. (left) The composition of `Placement` with the queue.

## 7. Running it

```
tlc -config MCGateway_queue.cfg MCGateway
tlc -config MCProbeHistory_all.cfg MCProbeHistory
tlapm RefinementProofs.tla
```

A configuration file is named after the module it belongs to.
