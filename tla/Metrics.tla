------------------------------ MODULE Metrics ------------------------------
(***************************************************************************)
(* The counters of /metrics (metrics/prometheus.py) beside the gateway     *)
(* that increments them.  Each step of Gateway is the same step here, and  *)
(* what it adds to the counters comes with it.                             *)
(***************************************************************************)
EXTENDS Gateway

VARIABLE count

\* The reasons the code gives; RejectionReason.OVERLOAD is never one.
Reasons == {"queue_full", "queue_age", "no_backend"}

\* The counters, with their labels; latency is the count of the histogram.
Counters ==
  [ requests : Nat, retries : Nat, fallback : Nat, latency : Nat,
    dispatch : [Backends -> Nat], errors : [Backends \cup {Fallback} -> Nat],
    rejections : [Reasons -> Nat] ]

MInit ==
  /\ Init
  /\ count = [ requests |-> 0, retries |-> 0, fallback |-> 0, latency |-> 0,
               dispatch |-> [b \in Backends |-> 0],
               errors |-> [t \in Backends \cup {Fallback} |-> 0],
               rejections |-> [reason \in Reasons |-> 0] ]

\* Mutant of Rejected: there is one reason only.
RejectedAsAge(c, reason) == [c EXCEPT !.rejections["queue_age"] = @ + 1]

\* observe_rejection.
Rejected(c, reason) == [c EXCEPT !.rejections[reason] = @ + 1]

Erred(c, t) == [c EXCEPT !.errors[t] = @ + 1]

\* Mutant of Diverted: who is served by the fallback is counted as rejected too.
DivertedAndRejected(c, reason) ==
  Rejected(IF FallbackEnabled THEN [c EXCEPT !.fallback = @ + 1] ELSE c, reason)

\* Divert.
Diverted(c, reason) ==
  IF FallbackEnabled THEN [c EXCEPT !.fallback = @ + 1] ELSE Rejected(c, reason)

\* Mutant of Failed: retries are not counted.
FailedRetryUncounted(r, retryable) ==
  LET erred == Erred(count, target[r])
  IN  IF attempts'[r] = attempts[r]
        THEN erred
        ELSE [erred EXCEPT !.dispatch[target'[r]] = @ + 1]

\* A failed attempt of r that may be followed by another.  Whether there is a
\* backend for it turns out only after the retry has been counted.
Failed(r, retryable) ==
  LET erred   == Erred(count, target[r])
      retried == IF retryable /\ attempts[r] < MaxAttempts
                   THEN [erred EXCEPT !.retries = @ + 1]
                   ELSE erred
  IN  IF attempts'[r] = attempts[r]
        THEN retried
        ELSE [retried EXCEPT !.dispatch[target'[r]] = @ + 1]

-----------------------------------------------------------------------------

CountedArrive(r) ==
  /\ Arrive(r)
  /\ LET c == [count EXCEPT !.requests = @ + 1]
     IN  count' = IF HasRoom(queue) THEN c ELSE Diverted(c, "queue_full")

CountedResume(r) ==
  /\ Resume(r)
  /\ count' = CASE pc[r] = "dispatched" -> count
                [] pc[r] = "timedout"   -> Diverted(count, "queue_age")
                [] pc[r] = "rejected"   -> Diverted(count, "no_backend")

\* Mutant of CountedTick: of all dispatches only those of retries are counted.
TickUncounted ==
  /\ TickStep
  /\ count' = IF \E r \in Requests : RejectOverdue(r)
                THEN Rejected(count, "queue_age")
                ELSE count

CountedTick ==
  \/ TickBegin /\ UNCHANGED count
  \/ TickEnd /\ UNCHANGED count
  \/ \E r \in Requests :
       \/ (Skip(r) \/ Hold(r)) /\ UNCHANGED count
       \/ RejectOverdue(r) /\ count' = Rejected(count, "queue_age")
       \/ /\ Assign(r)
          /\ count' = [count EXCEPT !.dispatch[target'[r]] = @ + 1]

\* Results that are the end of an attempt in the books, and those that are not.
CountedResult(r) ==
  \/ /\ Succeed(r) \/ StreamFinish(r)
     /\ count' = [count EXCEPT !.latency = @ + 1]
  \/ /\ StreamStatus(r) \/ StreamUnreachable(r)
     /\ count' = Erred(count, target[r])
  \/ \E outcome \in BadStatus :
       FailWith(r, outcome) /\ count' = Failed(r, outcome # "client_error")
  \/ TransportFailure(r) /\ count' = Failed(r, TRUE)
  \/ (StreamHeaders(r) \/ Crash(r) \/ AbandonStream(r)) /\ UNCHANGED count

MNext ==
  \/ CountedTick
  \/ \E b \in Backends : Cooldown(b) /\ UNCHANGED count
  \/ \E r \in Requests :
       \/ CountedArrive(r)
       \/ (Age(r) \/ TimerFires(r)) /\ UNCHANGED count
       \/ CountedResume(r)
       \/ LoopFree /\ CountedResult(r) /\ UNCHANGED schedulerVars

MSpec == MInit /\ [][MNext]_<<vars, count>>

-----------------------------------------------------------------------------

\* The sum of a function from anything to Nat, as the number of its units.
Units(f) == UNION {{x} \X (1..f[x]) : x \in DOMAIN f}

Total(f) == Cardinality(Units(f))

HandlersIn(states) == Cardinality({r \in Requests : pc[r] \in states})

\* Every dispatch, by a tick, a retry or to the fallback, is under way or is in
\* the books as one latency or one error, unless it was never sent: over all
\* retries and streams none is counted twice or lost (prometheus.py; that some
\* exceptions lose one is Leaks).
AttemptsAccounted ==
  Outcomes \cap Leaks = {} =>
    Total(count.dispatch) + count.fallback
      - HandlersIn({"fallback_unavailable", "retry_exhausted"})
    = HandlersIn({"dispatched"} \cup Outstanding) + count.latency + Total(count.errors)

\* Every 503 of the admission is counted under its reason.  A request that a
\* tick rejects is counted twice, as queue_age by the tick and as no_backend by
\* its handler, or is counted although the fallback serves it
\* (dispatcher.py:72, routes.py:370).
RejectionsAccounted ==
  /\ count.rejections["queue_full"] = HandlersIn({"queue_full"})
  /\ count.rejections["no_backend"] = HandlersIn({"no_backend"})
  /\ LET aged == HandlersIn({"queue_age", "no_backend", "rejected"})
     IN  /\ count.rejections["queue_age"] >= aged
         /\ ~FallbackEnabled => count.rejections["queue_age"] = aged

\* The second and later attempts.
RetriesOf == [r \in Requests |-> IF attempts[r] = 0 THEN 0 ELSE attempts[r] - 1]

\* The retry counter misses no retry and counts none without a failed attempt,
\* but counts those for which there was no backend (client.py:329).
RetriesCounted ==
  Total(RetriesOf) <= count.retries /\ count.retries <= Total(count.errors)

\* The retries that were counted and not made: each of them has given the failed
\* target back a second time.
RetriesInVain == count.retries - Total(RetriesOf)

\* A backend has no more requests than its count says but for those retries, so
\* hard_limit is never passed by more than their number (client.py:329).
OverrunAccounted ==
  \A b \in Backends :
    /\ Cardinality(Serving(b)) <= backend[b].inflight + RetriesInVain
    /\ Cardinality(Serving(b) \cap Large) <= backend[b].large + RetriesInVain

=============================================================================
