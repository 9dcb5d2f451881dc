---------------------------- MODULE ProxyProofs ----------------------------
(***************************************************************************)
(* What the operations of the proxy and of the scheduler do to the rows of *)
(* all backends: they keep them good, and they change the counts in one of *)
(* six ways.  The proofs about Gateway use only these effects.             *)
(***************************************************************************)
EXTENDS Proxy, BackendStateProofs

\* The rows of all backends are well formed, their fields agree, and no count
\* is past its limit.
GoodRows(rows) ==
  /\ rows \in [Backends -> BackendStates]
  /\ \A b \in Backends :
       FieldsAgree(rows[b]) /\ rows[b].inflight <= HardLimit[b]

\* How the counts of one row change: not at all, by a release or by a dispatch
\* of a request (large or not).
SameLoad(s, t) == t.inflight = s.inflight /\ t.large = s.large

Lowered(s, t, large) ==
  /\ t.inflight = IF s.inflight > 0 THEN s.inflight - 1 ELSE 0
  /\ t.large = IF large /\ s.large > 0 THEN s.large - 1 ELSE s.large

Raised(s, t, large) ==
  /\ t.inflight = s.inflight + 1
  /\ t.large = IF large THEN s.large + 1 ELSE s.large

-----------------------------------------------------------------------------
(* One row.                                                                *)

\* t is s with a result recorded on it.
Recorded(s, t) ==
  /\ t \in BackendStates
  /\ FieldsAgree(s) => FieldsAgree(t)
  /\ SameLoad(s, t)

\* Whatever result the proxy records on a row leaves a good row with the same
\* counts (client.py).
LEMMA RecordOK ==
  ASSUME NEW s \in BackendStates, NEW outcome
  PROVE  /\ Recorded(s, UpdateSuccess(s))
         /\ Recorded(s, UpdateSuccess(OnSuccess(s)))
         /\ Recorded(s, UpdateFailure(OnFailure(s)))
         /\ Recorded(s, AfterStatus(s, outcome))
  <1>1. Recorded(s, UpdateSuccess(s)) /\ Recorded(s, UpdateFailure(s))
    BY UpdatePreserves DEF Recorded, SameLoad
  <1>2. Recorded(s, UpdateSuccess(OnSuccess(s)))
    <2> DEFINE u == OnSuccess(s)
    <2>1. Recorded(s, u)
      BY OnSuccessPreserves DEF Recorded, SameLoad
    <2> HIDE DEF u
    <2>2. Recorded(s, UpdateSuccess(u))
      BY <2>1, UpdatePreserves DEF Recorded, SameLoad
    <2> QED
      BY <2>2 DEF u
  <1>3. Recorded(s, UpdateFailure(OnFailure(s)))
    <2> DEFINE u == OnFailure(s)
    <2>1. Recorded(s, u)
      BY OnFailurePreserves DEF Recorded, SameLoad
    <2> HIDE DEF u
    <2>2. Recorded(s, UpdateFailure(u))
      BY <2>1, UpdatePreserves DEF Recorded, SameLoad
    <2> QED
      BY <2>2 DEF u
  <1>4. Recorded(s, AfterStatus(s, outcome))
    BY <1>1, <1>3 DEF AfterStatus
  <1> QED
    BY <1>1, <1>2, <1>3, <1>4

\* A release of a recorded row (client.py, _release_dispatch).
LEMMA ReleaseOK ==
  ASSUME NEW s \in BackendStates, NEW r
  PROVE  LET t == Release(s, r \in Large)
         IN  /\ t \in BackendStates
             /\ FieldsAgree(s) => FieldsAgree(t)
             /\ Lowered(s, t, r \in Large)
             /\ t.inflight <= s.inflight
  <1> DEFINE t == Release(s, r \in Large)
  <1>1. /\ t \in BackendStates
        /\ FieldsAgree(s) => FieldsAgree(t)
        /\ Lowered(s, t, r \in Large)
    <2>1. CASE r \in Large
      <3>1. t = Release(s, TRUE)
        BY <2>1 DEF Release
      <3> HIDE DEF t
      <3> QED
        BY <2>1, <3>1, ReleaseCounts DEF Lowered
    <2>2. CASE r \notin Large
      <3>1. t = Release(s, FALSE)
        BY <2>2 DEF Release
      <3> HIDE DEF t
      <3> QED
        BY <2>2, <3>1, ReleaseCounts DEF Lowered
    <2> QED
      BY <2>1, <2>2
  <1> HIDE DEF t
  <1>2. t.inflight <= s.inflight
    BY <1>1 DEF Lowered, BackendStates
  <1> QED
    BY <1>1, <1>2 DEF t

\* A dispatch to a backend that was found eligible (dispatcher.py).
LEMMA OccupyOK ==
  ASSUME NEW s \in BackendStates, NEW b \in Backends, NEW r,
         IsHealthyForSchedule(s, HardLimit[b], b \in Drained)
  PROVE  LET t == Occupy(MaybeTransitionFromOpen(s), r \in Large)
         IN  /\ t \in BackendStates
             /\ FieldsAgree(s) => FieldsAgree(t)
             /\ Raised(s, t, r \in Large)
             /\ t.inflight <= HardLimit[b]
             /\ t.circuit # "open"
  <1>1. HardLimit[b] \in Nat
    BY ProxyAssumption
  <1>2. IsHealthyForSchedule(s, HardLimit[b], FALSE)
    BY DEF IsHealthyForSchedule
  <1>3. CASE r \in Large
    <2>1. Occupy(MaybeTransitionFromOpen(s), r \in Large)
            = Occupy(MaybeTransitionFromOpen(s), TRUE)
      BY <1>3 DEF Occupy
    <2> QED
      BY <1>1, <1>2, <1>3, <2>1, HealthyCanBeOccupied DEF Raised
  <1>4. CASE r \notin Large
    <2>1. Occupy(MaybeTransitionFromOpen(s), r \in Large)
            = Occupy(MaybeTransitionFromOpen(s), FALSE)
      BY <1>4 DEF Occupy
    <2> QED
      BY <1>1, <1>2, <1>4, <2>1, HealthyCanBeOccupied DEF Raised
  <1> QED
    BY <1>3, <1>4

-----------------------------------------------------------------------------
(* All rows.                                                               *)

\* Storing a row that is as good as the one it replaces.
LEMMA StoredOK ==
  ASSUME GoodRows(backend), NEW t, NEW s,
         t \in Backends => /\ s \in BackendStates /\ FieldsAgree(s)
                           /\ s.inflight <= backend[t].inflight
  PROVE  /\ GoodRows(Stored(t, s))
         /\ \A b \in Backends :
              Stored(t, s)[b] = IF b = t THEN s ELSE backend[b]
  <1>1. CASE t \in Backends
    <2>1. /\ backend \in [Backends -> BackendStates]
          /\ Stored(t, s) = [backend EXCEPT ![t] = s]
      BY <1>1 DEF GoodRows, Stored
    <2>2. /\ Stored(t, s) \in [Backends -> BackendStates]
          /\ \A b \in Backends :
               Stored(t, s)[b] = IF b = t THEN s ELSE backend[b]
      BY <1>1, <2>1
    <2>3. s.inflight <= HardLimit[t]
      <3>1. /\ s.inflight \in Nat /\ backend[t].inflight \in Nat
            /\ HardLimit[t] \in Nat
        BY <1>1, <2>1, ProxyAssumption DEF BackendStates
      <3> QED
        BY <1>1, <3>1 DEF GoodRows
    <2> QED
      BY <1>1, <2>2, <2>3 DEF GoodRows
  <1>2. CASE t \notin Backends
    BY <1>2 DEF Stored
  <1> QED
    BY <1>1, <1>2

\* Refreshing the circuits leaves the counts alone.
LEMMA RefreshedOK ==
  ASSUME NEW rows, GoodRows(rows), NEW avoid
  PROVE  /\ GoodRows(Refreshed(rows, avoid))
         /\ \A b \in Backends : SameLoad(rows[b], Refreshed(rows, avoid)[b])
  <1>1. ASSUME NEW b \in Backends
        PROVE  /\ Refreshed(rows, avoid)[b] \in BackendStates
               /\ FieldsAgree(Refreshed(rows, avoid)[b])
               /\ Refreshed(rows, avoid)[b].inflight <= HardLimit[b]
               /\ SameLoad(rows[b], Refreshed(rows, avoid)[b])
    <2>1. rows[b] \in BackendStates /\ FieldsAgree(rows[b])
          /\ rows[b].inflight <= HardLimit[b]
      BY DEF GoodRows
    <2> QED
      BY <2>1, TransitionPreserves DEF Refreshed, SameLoad
  <1>2. Refreshed(rows, avoid) \in [Backends -> BackendStates]
    BY <1>1 DEF Refreshed
  <1> QED
    BY <1>1, <1>2 DEF GoodRows

\* Dispatching to an eligible backend raises its count, within its limit.
LEMMA ChargedOK ==
  ASSUME NEW rows, GoodRows(rows), NEW avoid, NEW r,
         NEW b \in Eligible(rows, avoid)
  PROVE  /\ GoodRows(Charged(rows, avoid, b, r))
         /\ b \in Backends \ Drained /\ b # avoid
         /\ Raised(rows[b], Charged(rows, avoid, b, r)[b], r \in Large)
         /\ Charged(rows, avoid, b, r)[b].circuit # "open"
         /\ \A x \in Backends \ {b} :
              SameLoad(rows[x], Charged(rows, avoid, b, r)[x])
  <1> DEFINE fresh == Refreshed(rows, avoid)
             new   == Charged(rows, avoid, b, r)
  <1>1. /\ b \in Backends \ Drained /\ b # avoid
        /\ IsHealthyForSchedule(rows[b], HardLimit[b], b \in Drained)
        /\ rows[b] \in BackendStates /\ FieldsAgree(rows[b])
    BY DEF Eligible, GoodRows, IsHealthyForSchedule
  <1>2. /\ GoodRows(fresh)
        /\ \A x \in Backends : SameLoad(rows[x], fresh[x])
        /\ fresh[b] = MaybeTransitionFromOpen(rows[b])
    BY <1>1, RefreshedOK DEF Refreshed
  <1>3. new = [fresh EXCEPT ![b] = Occupy(fresh[b], r \in Large)]
    BY DEF Charged
  <1>4. LET t == Occupy(fresh[b], r \in Large)
        IN  /\ t \in BackendStates /\ FieldsAgree(t)
            /\ Raised(rows[b], t, r \in Large)
            /\ t.inflight <= HardLimit[b]
            /\ t.circuit # "open"
    BY <1>1, <1>2, OccupyOK
  <1> HIDE DEF fresh, new
  <1>5. /\ new \in [Backends -> BackendStates]
        /\ new[b] = Occupy(fresh[b], r \in Large)
        /\ \A x \in Backends \ {b} : new[x] = fresh[x]
    BY <1>1, <1>2, <1>3, <1>4 DEF GoodRows
  <1>6. GoodRows(new)
    BY <1>2, <1>4, <1>5 DEF GoodRows
  <1>7. /\ Raised(rows[b], new[b], r \in Large)
        /\ new[b].circuit # "open"
        /\ \A x \in Backends \ {b} : SameLoad(rows[x], new[x])
    BY <1>2, <1>4, <1>5
  <1> QED
    BY <1>1, <1>6, <1>7 DEF new

-----------------------------------------------------------------------------
(***************************************************************************)
(* The effects of a step on rows and targets.  Where a request leaves or   *)
(* joins, the count of that row, and of no other, follows; the two effects *)
(* where it does not are the double release and the leak.                  *)
(***************************************************************************)

Targets == Backends \cup {Fallback, NoTarget}

\* Nobody moves.
Keeps ==
  /\ target' = target
  /\ \A b \in Backends : SameLoad(backend[b], backend'[b])

\* r leaves its target, and the target is given back.
Leaves(r) ==
  /\ target' = [target EXCEPT ![r] = NoTarget]
  /\ \A b \in Backends :
       IF b = target[r] THEN Lowered(backend[b], backend'[b], r \in Large)
                        ELSE SameLoad(backend[b], backend'[b])

\* r leaves its target, and the target is given back twice.
LeavesTwice(r) ==
  /\ target' = [target EXCEPT ![r] = NoTarget]
  /\ \A b \in Backends :
       IF b = target[r]
         THEN \E s \in BackendStates :
                /\ Lowered(backend[b], s, r \in Large)
                /\ Lowered(s, backend'[b], r \in Large)
         ELSE SameLoad(backend[b], backend'[b])

\* r leaves its target, and nothing is given back.
LeavesUnreleased(r) ==
  /\ target' = [target EXCEPT ![r] = NoTarget]
  /\ \A b \in Backends : SameLoad(backend[b], backend'[b])

\* r joins x.
Joins(r, x) ==
  /\ target' = [target EXCEPT ![r] = x]
  /\ \A b \in Backends :
       IF b = x THEN Raised(backend[b], backend'[b], r \in Large)
                ELSE SameLoad(backend[b], backend'[b])

\* r leaves its target for x.
Moves(r, x) ==
  /\ x # target[r]
  /\ target' = [target EXCEPT ![r] = x]
  /\ \A b \in Backends :
       /\ b = target[r] => Lowered(backend[b], backend'[b], r \in Large)
       /\ b = x => Raised(backend[b], backend'[b], r \in Large)
       /\ b \notin {x, target[r]} => SameLoad(backend[b], backend'[b])

\* The final release of an attempt (client.py).
LEMMA SettleEffect ==
  ASSUME GoodRows(backend), NEW r, NEW s, NEW reply, Settle(r, s, reply),
         target[r] \in Backends => Recorded(backend[target[r]], s)
  PROVE  GoodRows(backend') /\ Leaves(r)
  <1> DEFINE t == target[r]
             u == Release(s, r \in Large)
  <1>1. t \in Backends => /\ u \in BackendStates /\ FieldsAgree(u)
                          /\ u.inflight <= backend[t].inflight
                          /\ Lowered(backend[t], u, r \in Large)
    <2>1. SUFFICES ASSUME t \in Backends
                   PROVE  /\ u \in BackendStates /\ FieldsAgree(u)
                          /\ u.inflight <= backend[t].inflight
                          /\ Lowered(backend[t], u, r \in Large)
      OBVIOUS
    <2>2. /\ s \in BackendStates /\ FieldsAgree(s)
          /\ SameLoad(backend[t], s)
      BY <2>1 DEF Recorded, GoodRows
    <2>3. /\ u \in BackendStates /\ FieldsAgree(u)
          /\ Lowered(s, u, r \in Large) /\ u.inflight <= s.inflight
      BY <2>2, ReleaseOK
    <2> HIDE DEF u
    <2> QED
      BY <2>2, <2>3 DEF SameLoad, Lowered
  <1>2. backend' = Stored(t, u) /\ Answer(r, reply)
    BY DEF Settle
  <1> HIDE DEF u
  <1>3. /\ GoodRows(backend')
        /\ \A b \in Backends : backend'[b] = IF b = t THEN u ELSE backend[b]
    BY <1>1, <1>2, StoredOK
  <1>4. Leaves(r)
    BY <1>1, <1>2, <1>3 DEF Leaves, Answer, SameLoad
  <1> QED
    BY <1>3, <1>4

\* A retry moves the request to another backend, or gives its target back
\* twice (client.py).
LEMMA RetryEffect ==
  ASSUME GoodRows(backend), NEW r, NEW s, NEW reply, Retry(r, s, reply),
         target[r] \in Backends => Recorded(backend[target[r]], s)
  PROVE  /\ GoodRows(backend')
         /\ \/ /\ \E x \in Backends \ Drained :
                    Moves(r, x) /\ backend'[x].circuit # "open"
               /\ attempts' = [attempts EXCEPT ![r] = @ + 1]
               /\ UNCHANGED pc
            \/ LeavesTwice(r) /\ Answer(r, reply)
  <1> DEFINE t    == target[r]
             u    == Release(s, r \in Large)
             rows == Stored(t, u)
  <1>1. t \in Backends => /\ u \in BackendStates /\ FieldsAgree(u)
                          /\ u.inflight <= backend[t].inflight
                          /\ Lowered(backend[t], u, r \in Large)
    <2>1. SUFFICES ASSUME t \in Backends
                   PROVE  /\ u \in BackendStates /\ FieldsAgree(u)
                          /\ u.inflight <= backend[t].inflight
                          /\ Lowered(backend[t], u, r \in Large)
      OBVIOUS
    <2>2. /\ s \in BackendStates /\ FieldsAgree(s)
          /\ SameLoad(backend[t], s)
      BY <2>1 DEF Recorded, GoodRows
    <2>3. /\ u \in BackendStates /\ FieldsAgree(u)
          /\ Lowered(s, u, r \in Large) /\ u.inflight <= s.inflight
      BY <2>2, ReleaseOK
    <2> HIDE DEF u
    <2> QED
      BY <2>2, <2>3 DEF SameLoad, Lowered
  <1> HIDE DEF u
  <1>2. /\ GoodRows(rows)
        /\ \A b \in Backends : rows[b] = IF b = t THEN u ELSE backend[b]
    BY <1>1, StoredOK
  <1>3. \/ \E b \in Eligible(rows, t) :
             /\ backend' = Charged(rows, t, b, r)
             /\ target' = [target EXCEPT ![r] = b]
             /\ attempts' = [attempts EXCEPT ![r] = @ + 1]
             /\ UNCHANGED pc
        \/ /\ backend' = [b \in Backends |->
                            IF b = t THEN Release(rows[b], r \in Large)
                                     ELSE Refreshed(rows, t)[b]]
           /\ Answer(r, reply)
    BY DEF Retry, u
  <1> HIDE DEF rows
  <1>4. ASSUME NEW b \in Eligible(rows, t),
               backend' = Charged(rows, t, b, r),
               target' = [target EXCEPT ![r] = b]
        PROVE  /\ GoodRows(backend') /\ b \in Backends \ Drained
               /\ Moves(r, b) /\ backend'[b].circuit # "open"
    <2>1. /\ GoodRows(backend') /\ b \in Backends \ Drained /\ b # t
          /\ Raised(rows[b], backend'[b], r \in Large)
          /\ backend'[b].circuit # "open"
          /\ \A x \in Backends \ {b} : SameLoad(rows[x], backend'[x])
      BY <1>2, <1>4, ChargedOK
    <2>2. Moves(r, b)
      BY <1>1, <1>2, <1>4, <2>1 DEF Moves, SameLoad, Lowered
    <2> QED
      BY <2>1, <2>2
  <1>5. ASSUME backend' = [b \in Backends |->
                             IF b = t THEN Release(rows[b], r \in Large)
                                      ELSE Refreshed(rows, t)[b]],
               Answer(r, reply)
        PROVE  GoodRows(backend') /\ LeavesTwice(r)
    <2>1. ASSUME NEW b \in Backends
          PROVE  /\ backend'[b] \in BackendStates /\ FieldsAgree(backend'[b])
                 /\ backend'[b].inflight <= HardLimit[b]
                 /\ b = t => Lowered(u, backend'[b], r \in Large)
                 /\ b # t => SameLoad(backend[b], backend'[b])
      <3>1. /\ rows[b] \in BackendStates /\ FieldsAgree(rows[b])
            /\ rows[b].inflight <= HardLimit[b]
            /\ rows[b] = IF b = t THEN u ELSE backend[b]
            /\ HardLimit[b] \in Nat
        BY <1>2, ProxyAssumption DEF GoodRows
      <3>2. CASE b = t
        <4>1. backend'[b] = Release(rows[b], r \in Large)
          BY <1>5, <3>2
        <4>2. /\ backend'[b] \in BackendStates /\ FieldsAgree(backend'[b])
              /\ Lowered(rows[b], backend'[b], r \in Large)
              /\ backend'[b].inflight <= rows[b].inflight
          BY <3>1, <4>1, ReleaseOK
        <4>3. backend'[b].inflight \in Nat /\ rows[b].inflight \in Nat
          BY <3>1, <4>2 DEF BackendStates
        <4> QED
          BY <3>1, <3>2, <4>2, <4>3
      <3>3. CASE b # t
        <4>1. backend'[b] = Refreshed(rows, t)[b]
          BY <1>5, <3>3
        <4>2. /\ GoodRows(Refreshed(rows, t))
              /\ SameLoad(rows[b], Refreshed(rows, t)[b])
          BY <1>2, RefreshedOK
        <4> QED
          BY <3>1, <3>3, <4>1, <4>2 DEF GoodRows
      <3> QED
        BY <3>2, <3>3
    <2>2. backend' \in [Backends -> BackendStates]
      BY <1>5, <2>1
    <2>3. GoodRows(backend')
      BY <2>1, <2>2 DEF GoodRows
    <2>4. LeavesTwice(r)
      BY <1>1, <1>5, <2>1 DEF LeavesTwice, Answer
    <2> QED
      BY <2>3, <2>4
  <1> QED
    BY <1>3, <1>4, <1>5

\* What an upstream result does to r and to its handler.
Answered(r) == \E reply \in Replies : Answer(r, reply)

Retried(r) ==
  /\ attempts[r] < MaxAttempts
  /\ attempts' = [attempts EXCEPT ![r] = @ + 1]
  /\ UNCHANGED pc
  /\ \E x \in Backends \ Drained :
       Moves(r, x) /\ backend'[x].circuit # "open"

HeadersSeen(r) ==
  /\ pc' = [pc EXCEPT ![r] = "headers"]
  /\ UNCHANGED attempts
  /\ Keeps

\* An exception of another kind, or a body that nobody reads.
Escaped(r) == Answer(r, "crashed") \/ Answer(r, "abandoned")

\* The ways an attempt can end for the counts (client.py).
AttemptEnds(r) ==
  \/ HeadersSeen(r)
  \/ Answered(r) /\ Leaves(r)
  \/ Retried(r)
  \/ Answered(r) /\ LeavesTwice(r) /\ attempts[r] < MaxAttempts
  \/ /\ Answered(r) /\ Escaped(r)
     /\ LeavesUnreleased(r) /\ Outcomes \cap Leaks # {}

\* Those of a failed one: it is settled or retried, or was to be retried.
FailureEnds(r, retryable) ==
  \/ Answered(r) /\ Leaves(r)
  \/ Retried(r)
  \/ retryable /\ Answered(r) /\ LeavesTwice(r) /\ attempts[r] < MaxAttempts

\* A failed attempt is settled or retried.
LEMMA RetryOrSettleEffect ==
  ASSUME GoodRows(backend), NEW r, NEW s, NEW retryable, NEW reply \in Replies,
         RetryOrSettle(r, retryable, s, reply),
         target[r] \in Backends => Recorded(backend[target[r]], s)
  PROVE  GoodRows(backend') /\ FailureEnds(r, retryable)
  <1>1. CASE retryable /\ attempts[r] < MaxAttempts
    <2>1. Retry(r, s, reply)
      BY <1>1 DEF RetryOrSettle
    <2> QED
      BY <1>1, <2>1, RetryEffect DEF FailureEnds, Retried, Answered
  <1>2. CASE ~(retryable /\ attempts[r] < MaxAttempts)
    <2>1. Settle(r, s, reply)
      BY <1>2 DEF RetryOrSettle
    <2> QED
      BY <2>1, SettleEffect DEF FailureEnds, Answered, Settle
  <1> QED
    BY <1>1, <1>2

\* What the proxy records of the target of r before it gives it back.
LEMMA RowsRecorded ==
  ASSUME GoodRows(backend), NEW r, target[r] \in Backends, NEW outcome
  PROVE  /\ Recorded(backend[target[r]], UpdateSuccess(Row(r)))
         /\ Recorded(backend[target[r]], UpdateSuccess(OnSuccess(Row(r))))
         /\ Recorded(backend[target[r]], UpdateFailure(OnFailure(Row(r))))
         /\ Recorded(backend[target[r]], AfterStatus(Row(r), outcome))
  <1>1. backend[target[r]] \in BackendStates
    BY DEF GoodRows
  <1> QED
    BY <1>1, RecordOK DEF Row

\* The results that end the attempt whatever is left.
LEMMA SettledEffect ==
  ASSUME GoodRows(backend), NEW r,
         Succeed(r) \/ StreamStatus(r) \/ StreamUnreachable(r) \/ StreamFinish(r)
  PROVE  GoodRows(backend') /\ Answered(r) /\ Leaves(r)
  <1>1. {"ok", "error_status", "unreachable"} \subseteq Replies
    BY DEF Replies
  <1>2. ASSUME NEW f, NEW reply \in Replies, Settle(r, f, reply),
               target[r] \in Backends => Recorded(backend[target[r]], f)
        PROVE  GoodRows(backend') /\ Answered(r) /\ Leaves(r)
    BY <1>2, SettleEffect DEF Answered, Settle
  <1>3. CASE Succeed(r)
    BY <1>1, <1>2, <1>3, RowsRecorded DEF Succeed
  <1>4. CASE StreamStatus(r)
    <2>1. PICK outcome \in BadStatus :
            Settle(r, AfterStatus(Row(r), outcome), "error_status")
      BY <1>4 DEF StreamStatus
    <2> QED
      BY <1>1, <1>2, <2>1, RowsRecorded
  <1>5. CASE StreamUnreachable(r)
    BY <1>1, <1>2, <1>5, RowsRecorded DEF StreamUnreachable
  <1>6. CASE StreamFinish(r)
    BY <1>1, <1>2, <1>6, RowsRecorded DEF StreamFinish
  <1> QED
    BY <1>3, <1>4, <1>5, <1>6

\* The results that may be retried.
LEMMA FailedEffect ==
  ASSUME GoodRows(backend), NEW r
  PROVE  /\ \A outcome \in BadStatus :
              FailWith(r, outcome) =>
                GoodRows(backend') /\ FailureEnds(r, outcome # "client_error")
         /\ TransportFailure(r) => GoodRows(backend') /\ FailureEnds(r, TRUE)
  <1>1. {"error_status", "unreachable"} \subseteq Replies
    BY DEF Replies
  <1>2. ASSUME NEW outcome \in BadStatus, FailWith(r, outcome)
        PROVE  GoodRows(backend') /\ FailureEnds(r, outcome # "client_error")
    <2> DEFINE retryable == outcome # "client_error"
    <2>1. RetryOrSettle(r, retryable, AfterStatus(Row(r), outcome), "error_status")
      BY <1>2 DEF FailWith
    <2> HIDE DEF retryable
    <2>2. GoodRows(backend') /\ FailureEnds(r, retryable)
      BY <1>1, <2>1, RowsRecorded, RetryOrSettleEffect
    <2> QED
      BY <2>2 DEF retryable
  <1>3. ASSUME TransportFailure(r)
        PROVE  GoodRows(backend') /\ FailureEnds(r, TRUE)
    <2>1. RetryOrSettle(r, TRUE, UpdateFailure(OnFailure(Row(r))), "unreachable")
      BY <1>3 DEF TransportFailure
    <2> QED
      BY <1>1, <2>1, RowsRecorded, RetryOrSettleEffect
  <1> QED
    BY <1>2, <1>3

\* The headers of a stream are a result of which nobody is told to leave.
LEMMA HeadersEffect ==
  ASSUME GoodRows(backend), NEW r, StreamHeaders(r)
  PROVE  GoodRows(backend') /\ HeadersSeen(r)
  <1> DEFINE b == target[r]
             u == UpdateSuccess(OnSuccess(Row(r)))
  <1>1. /\ backend' = Stored(b, u)
        /\ pc' = [pc EXCEPT ![r] = "headers"]
        /\ UNCHANGED <<target, attempts>>
    BY DEF StreamHeaders
  <1>2. b \in Backends => /\ u \in BackendStates /\ FieldsAgree(u)
                          /\ u.inflight <= backend[b].inflight
                          /\ SameLoad(backend[b], u)
    <2>1. ASSUME b \in Backends
          PROVE  /\ Recorded(backend[b], u) /\ FieldsAgree(backend[b])
                 /\ backend[b].inflight \in Nat
      BY <2>1, RowsRecorded DEF GoodRows, BackendStates
    <2> HIDE DEF u
    <2> QED
      BY <2>1 DEF Recorded, SameLoad
  <1> HIDE DEF u
  <1>3. /\ GoodRows(backend')
        /\ \A x \in Backends : backend'[x] = IF x = b THEN u ELSE backend[x]
    BY <1>1, <1>2, StoredOK
  <1> QED
    BY <1>1, <1>2, <1>3 DEF HeadersSeen, Keeps, SameLoad

\* Every upstream result keeps the rows good and ends the attempt in one of
\* these ways.
LEMMA UpstreamEffect ==
  ASSUME GoodRows(backend), NEW r \in Requests, UpstreamResult(r)
  PROVE  GoodRows(backend') /\ AttemptEnds(r)
  <1>1. CASE Succeed(r) \/ StreamStatus(r) \/ StreamUnreachable(r) \/ StreamFinish(r)
    BY <1>1, SettledEffect DEF AttemptEnds
  <1>2. CASE FailStatus(r) \/ TransportFailure(r)
    <2>1. /\ GoodRows(backend')
          /\ \E retryable \in BOOLEAN : FailureEnds(r, retryable)
      BY <1>2, FailedEffect DEF FailStatus
    <2> QED
      BY <2>1 DEF FailureEnds, AttemptEnds
  <1>3. CASE StreamHeaders(r)
    BY <1>3, HeadersEffect DEF AttemptEnds
  <1>4. CASE Crash(r) \/ AbandonStream(r)
    <2>1. Outcomes \cap Leaks # {} /\ Escaped(r) /\ backend' = backend
      BY <1>4 DEF Crash, AbandonStream, Leaks, Escaped
    <2>2. {"crashed", "abandoned"} \subseteq Replies
      BY DEF Replies
    <2> QED
      BY <2>1, <2>2
         DEF AttemptEnds, Answered, Escaped, LeavesUnreleased, Answer, SameLoad
  <1> QED
    BY <1>1, <1>2, <1>3, <1>4 DEF UpstreamResult

\* The start of a proxy call: the attempt loop is not entered, the fallback is
\* not available, or the first attempt starts (client.py).
LEMMA BeginEffect ==
  ASSUME GoodRows(backend), target \in [Requests -> Targets], NEW r \in Requests,
         NEW t \in Backends \cup {Fallback}, BeginProxy(r, t),
         target[r] = t \/ (t = Fallback /\ target[r] = NoTarget)
  PROVE  /\ GoodRows(backend')
         /\ \/ Answered(r) /\ Leaves(r)
            \/ StartAttempt(r, t) /\ (Keeps \/ Joins(r, Fallback))
  <1>1. {"retry_exhausted", "fallback_unavailable"} \subseteq Replies
    BY DEF Replies
  <1>2. CASE NoAttempt(r, t)
    <2> DEFINE u == Release(backend[t], r \in Large)
    <2>1. t \in Backends =>
            /\ u \in BackendStates /\ FieldsAgree(u)
            /\ u.inflight <= backend[t].inflight
            /\ Lowered(backend[t], u, r \in Large)
      BY ReleaseOK DEF GoodRows
    <2>2. backend' = Stored(t, u) /\ Answer(r, "retry_exhausted")
      BY <1>2 DEF NoAttempt
    <2> HIDE DEF u
    <2>3. /\ GoodRows(backend')
          /\ \A b \in Backends : backend'[b] = IF b = t THEN u ELSE backend[b]
      BY <2>1, <2>2, StoredOK
    <2>4. t = target[r] \/ (t \notin Backends /\ target[r] \notin Backends)
      BY ProxyAssumption
    <2>5. Leaves(r)
      BY <2>1, <2>2, <2>3, <2>4 DEF Leaves, Answer, SameLoad
    <2> QED
      BY <1>1, <2>2, <2>3, <2>5 DEF Answered
  <1>3. CASE FallbackUnavailable(r, t)
    <2>1. target[r] \notin Backends
      BY <1>3, ProxyAssumption DEF FallbackUnavailable, Prepared
    <2> QED
      BY <1>1, <1>3, <2>1
         DEF FallbackUnavailable, Answered, Answer, Leaves, SameLoad
  <1>4. CASE StartAttempt(r, t)
    <2>1. CASE target[r] = t
      <3>1. target' = target
        BY <1>4, <2>1 DEF StartAttempt
      <3> QED
        BY <1>4, <3>1 DEF StartAttempt, Keeps, SameLoad
    <2>2. CASE t = Fallback
      BY <1>4, <2>2, ProxyAssumption DEF StartAttempt, Joins, SameLoad
    <2> QED
      BY <1>4, <2>1, <2>2
  <1> QED
    BY <1>2, <1>3, <1>4 DEF BeginProxy

=============================================================================
