--------------------------- MODULE GatewayProofs ---------------------------
(***************************************************************************)
(* Theorems about the gateway, for any requests, backends, limits, queue   *)
(* and batch sizes, numbers of attempts, and outcomes.                     *)
(***************************************************************************)
EXTENDS Gateway, ProxyProofs, SequenceTheorems, FiniteSetTheorems

-----------------------------------------------------------------------------
(***************************************************************************)
(* The inductive invariant has one part for each kind of state.  QueueOK   *)
(* says besides QueueBounded that between ticks nothing is popped or held: *)
(* an enqueue compares queue_max_size with the queue alone.  HandlersOK    *)
(* ties the target of a request to the place of its handler: who leaves a  *)
(* backend was there, and who joins one was nowhere.                       *)
(***************************************************************************)
Places == {"new"} \cup Awaiting \cup Outstanding \cup Replies

HandlersOK ==
  /\ pc \in [Requests -> Places]
  /\ target \in [Requests -> Targets]
  /\ attempts \in [Requests -> 0..MaxAttempts]
  /\ TargetHeld
  /\ \A r \in Requests : pc[r] \in Outstanding => attempts[r] >= 1

QueueOK ==
  /\ queue \in Seq(Requests)
  /\ batch \in Seq(Requests)
  /\ held \in Seq(Requests)
  /\ ticking \in BOOLEAN
  /\ ~ticking => batch = <<>> /\ held = <<>>
  /\ Len(held) + Len(batch) + Len(queue) <= QueueMax

IInv == GoodRows(backend) /\ HandlersOK /\ QueueOK

\* What a step of r's handler, or of the tick for r, does to the handlers.
HandlerStep(r) ==
  /\ pc[r] \notin Replies
  /\ \E p \in Places :
       pc' = [pc EXCEPT ![r] = p] /\ (p = "dispatched" => pc[r] = "waiting")
  /\ \E t \in Targets : target' = [target EXCEPT ![r] = t]

HandlersRest == UNCHANGED <<pc, target, attempts>>

\* Only an attempt that starts or is retried is counted.
AttemptsStep(r) ==
  \/ UNCHANGED attempts
  \/ pc[r] \notin Outstanding /\ \E n : attempts' = [attempts EXCEPT ![r] = n]
  \/ Retried(r)

\* What a step for r does to the counts of the backends: they follow the moves
\* of r, but for a request that escapes and for a retry that is not made.
SingleRelease(r) ==
  \/ Keeps
  \/ Leaves(r)
  \/ LeavesUnreleased(r) /\ Escaped(r) /\ Outcomes \cap Leaks # {}
  \/ /\ target[r] \notin Backends
     /\ \E x \in (Backends \ Drained) \cup {Fallback} : Joins(r, x)
  \/ \E x \in Backends \ Drained : Moves(r, x)

LoadStep(r) ==
  \/ SingleRelease(r)
  \/ /\ pc[r] \in Outstanding
     /\ LeavesTwice(r) /\ 1 <= attempts[r] /\ attempts[r] < MaxAttempts

RequestStep(r) == HandlerStep(r) /\ AttemptsStep(r) /\ LoadStep(r)

-----------------------------------------------------------------------------
(* Handlers.                                                               *)

LEMMA PlacesApart ==
  /\ Replies \cap ({"new"} \cup Awaiting \cup Outstanding) = {}
  /\ "dispatched" \notin Replies
  /\ "dispatched" \notin Outstanding
  BY DEF Replies, Awaiting, Outstanding

\* The places an upstream result can lead to.
LEMMA ResultPlaces ==
  ASSUME NEW r \in Requests, UpstreamResult(r)
  PROVE  \/ UNCHANGED pc
         \/ \E p \in {"ok", "error_status", "unreachable", "crashed",
                      "abandoned", "headers"} : pc' = [pc EXCEPT ![r] = p]
  BY DEF UpstreamResult, Succeed, FailStatus, FailWith, TransportFailure,
         StreamHeaders, StreamStatus, StreamUnreachable, StreamFinish, Crash,
         AbandonStream, RetryOrSettle, Retry, Settle, Answer

\* An answer keeps the handlers in order.
LEMMA AnsweredOK ==
  ASSUME HandlersOK, NEW r \in Requests, pc[r] \notin Replies, Answered(r)
  PROVE  HandlersOK' /\ HandlerStep(r)
  <1>1. PICK reply \in Replies : Answer(r, reply)
    BY DEF Answered
  <1>2. reply \in Places /\ reply # "dispatched" /\ reply \notin Outstanding
    BY PlacesApart DEF Places
  <1>3. NoTarget \in Targets
    BY DEF Targets
  <1> QED
    BY <1>1, <1>2, <1>3 DEF Answer, HandlersOK, TargetHeld, HandlerStep

\* So does the start of the first attempt.
LEMMA StartOK ==
  ASSUME HandlersOK, NEW r \in Requests, pc[r] \notin Replies,
         NEW t \in Backends \cup {Fallback}, StartAttempt(r, t)
  PROVE  HandlersOK' /\ HandlerStep(r)
  <1>1. /\ pc' = [pc EXCEPT ![r] = "upstream"]
        /\ target' = [target EXCEPT ![r] = t]
        /\ attempts' = [attempts EXCEPT ![r] = 1]
        /\ MaxAttempts > 0 /\ MaxAttempts \in Nat
    BY ProxyAssumption DEF StartAttempt
  <1>2. "upstream" \in Places /\ "upstream" \in Outstanding
    BY DEF Places, Outstanding
  <1>3. t \in Targets /\ t # NoTarget
    BY ProxyAssumption DEF Targets
  <1>4. HandlerStep(r)
    <2>1. "upstream" # "dispatched"
      OBVIOUS
    <2> QED
      BY <1>1, <1>2, <1>3, <2>1 DEF HandlerStep
  <1>5. /\ pc' \in [Requests -> Places]
        /\ target' \in [Requests -> Targets]
        /\ attempts' \in [Requests -> 0..MaxAttempts]
    BY <1>1, <1>2, <1>3 DEF HandlersOK
  <1>6. TargetHeld'
    BY <1>1, <1>2, <1>3 DEF HandlersOK, TargetHeld
  <1>7. \A x \in Requests : pc'[x] \in Outstanding => attempts'[x] >= 1
    BY <1>1 DEF HandlersOK
  <1> QED
    BY <1>4, <1>5, <1>6, <1>7 DEF HandlersOK

\* And every end of an attempt.
LEMMA AttemptEndsOK ==
  ASSUME HandlersOK, NEW r \in Requests, pc[r] \in Outstanding, AttemptEnds(r)
  PROVE  HandlersOK' /\ HandlerStep(r)
  <1>1. pc[r] \notin Replies /\ pc[r] \in Places
    BY PlacesApart DEF Places
  <1>2. CASE Answered(r)
    BY <1>1, <1>2, AnsweredOK
  <1>3. CASE HeadersSeen(r)
    <2>1. /\ pc' = [pc EXCEPT ![r] = "headers"]
          /\ UNCHANGED <<target, attempts>>
      BY <1>3 DEF HeadersSeen, Keeps
    <2>2. "headers" \in Places /\ "headers" \in Outstanding
      BY DEF Places, Outstanding
    <2> QED
      BY <1>1, <2>1, <2>2
         DEF HandlersOK, TargetHeld, HandlerStep, Outstanding
  <1>4. CASE Retried(r)
    <2>1. PICK x \in Backends : target' = [target EXCEPT ![r] = x]
      BY <1>4 DEF Retried, Moves
    <2>2. /\ attempts' = [attempts EXCEPT ![r] = @ + 1]
          /\ attempts[r] < MaxAttempts /\ MaxAttempts \in Nat
          /\ UNCHANGED pc
      BY <1>4, ProxyAssumption DEF Retried
    <2>3. x \in Targets /\ x # NoTarget
      BY ProxyAssumption DEF Targets
    <2>4. pc' = [pc EXCEPT ![r] = pc[r]] /\ pc[r] # "dispatched"
      BY <2>2, PlacesApart DEF HandlersOK
    <2>5. HandlersOK'
      BY <2>1, <2>2, <2>3, PlacesApart DEF HandlersOK, TargetHeld
    <2> QED
      BY <1>1, <2>1, <2>3, <2>4, <2>5 DEF HandlerStep
  <1> QED
    BY <1>2, <1>3, <1>4 DEF AttemptEnds

-----------------------------------------------------------------------------
(* The queue.                                                              *)

\* pop_batch splits the queue in two.
LEMMA PopSplits ==
  ASSUME NEW q \in Seq(Requests)
  PROVE  /\ Popped(q) \in Seq(Requests)
         /\ Rest(q) \in Seq(Requests)
         /\ Len(Popped(q)) + Len(Rest(q)) = Len(q)
  <1>1. /\ Len(q) \in Nat /\ Taken(q) \in Nat /\ Taken(q) <= Len(q)
        /\ \A i \in 1..Len(q) : q[i] \in Requests
    BY QueueAssumption, ElementOfSeq, LenProperties DEF Taken
  <1>2. Popped(q) \in Seq(Requests) /\ Len(Popped(q)) = Taken(q)
    <2>1. \A i \in 1..Taken(q) : q[i] \in Requests
      BY <1>1
    <2> QED
      BY <1>1, <2>1, SubSeqProperties, Z3 DEF Popped
  <1>3. Rest(q) \in Seq(Requests) /\ Len(Rest(q)) = Len(q) - Taken(q)
    <2>1. /\ \A i \in (Taken(q) + 1)..Len(q) : q[i] \in Requests
          /\ Taken(q) + 1 \in Int
      BY <1>1
    <2>2. /\ SubSeq(q, Taken(q) + 1, Len(q)) \in Seq(Requests)
          /\ Len(SubSeq(q, Taken(q) + 1, Len(q))) =
               IF Taken(q) + 1 <= Len(q)
                 THEN Len(q) - (Taken(q) + 1) + 1 ELSE 0
      BY <1>1, <2>1, SubSeqProperties
    <2> QED
      BY <1>1, <2>2 DEF Rest
  <1> QED
    BY <1>1, <1>2, <1>3

\* The first and the last step of a tick keep the queue in order.
LEMMA TickQueueOK ==
  ASSUME QueueOK, TickBegin \/ TickEnd
  PROVE  QueueOK'
  <1>1. CASE TickBegin
    <2>1. /\ batch' = Popped(queue) /\ queue' = Rest(queue)
          /\ ticking' = (batch' # <<>>) /\ held' = held /\ held = <<>>
          /\ batch = <<>>
      BY <1>1 DEF TickBegin, LoopFree, QueueOK
    <2>2. /\ batch' \in Seq(Requests) /\ queue' \in Seq(Requests)
          /\ Len(batch') + Len(queue') = Len(queue)
      BY <2>1, PopSplits DEF QueueOK
    <2>3. Len(held') + Len(batch') + Len(queue') <= QueueMax
      <3>1. /\ Len(held) \in Nat /\ Len(batch) \in Nat /\ Len(queue) \in Nat
            /\ Len(batch') \in Nat /\ Len(queue') \in Nat
            /\ QueueMax \in Nat /\ Len(batch) = 0
        BY <2>1, <2>2, LenProperties, EmptySeq, QueueAssumption DEF QueueOK
      <3> QED
        BY <2>1, <2>2, <3>1 DEF QueueOK
    <2>4. ~ticking' => batch' = <<>> /\ held' = <<>>
      BY <2>1
    <2>5. ticking' \in BOOLEAN /\ held' \in Seq(Requests)
      BY <2>1 DEF QueueOK
    <2> QED
      BY <2>2, <2>3, <2>4, <2>5 DEF QueueOK
  <1>2. CASE TickEnd
    <2>1. /\ queue' = held \o queue /\ held' = <<>> /\ batch = <<>>
          /\ batch' = batch /\ ticking' = FALSE
      BY <1>2 DEF TickEnd, RequeueFront
    <2>2. queue' \in Seq(Requests) /\ Len(queue') = Len(held) + Len(queue)
      BY <2>1, ConcatProperties DEF QueueOK
    <2>3. held' \in Seq(Requests) /\ Len(held') = 0 /\ Len(batch) = 0
      BY <2>1, EmptySeq
    <2>4. Len(held) \in Nat /\ Len(queue) \in Nat /\ QueueMax \in Nat
      BY LenProperties, QueueAssumption DEF QueueOK
    <2>5. Len(held') + Len(batch') + Len(queue') <= QueueMax
      <3>1. Len(held) + Len(batch) + Len(queue) <= QueueMax
        BY DEF QueueOK
      <3> QED
        BY <2>1, <2>2, <2>3, <2>4, <3>1
    <2>6. batch' \in Seq(Requests) /\ ticking' \in BOOLEAN
      BY <2>1 DEF QueueOK
    <2> QED
      BY <2>1, <2>2, <2>3, <2>5, <2>6 DEF QueueOK
  <1> QED
    BY <1>1, <1>2

\* A look at the next request of the batch keeps the queue in order.
LEMMA BatchQueueOK ==
  ASSUME QueueOK, NEW r \in Requests, LooksAt(r), UNCHANGED <<queue, ticking>>,
         held' = held \/ held' = Append(held, r)
  PROVE  QueueOK'
  <1>1. /\ batch # <<>> /\ batch' = Tail(batch) /\ ticking
        /\ batch \in Seq(Requests) /\ held \in Seq(Requests)
        /\ queue \in Seq(Requests)
    BY DEF LooksAt, QueueOK
  <1>2. batch' \in Seq(Requests) /\ Len(batch') = Len(batch) - 1
    BY <1>1, HeadTailProperties
  <1>3. held' \in Seq(Requests) /\ Len(held') <= Len(held) + 1
    <2>1. Len(held) \in Nat
      BY <1>1, LenProperties
    <2> QED
      BY <1>1, <2>1
  <1>4. /\ Len(held) \in Nat /\ Len(batch) \in Nat /\ Len(queue) \in Nat
        /\ Len(held') \in Nat /\ Len(batch') \in Nat /\ QueueMax \in Nat
    BY <1>1, <1>2, <1>3, LenProperties, QueueAssumption
  <1>5. Len(held') + Len(batch') + Len(queue) <= QueueMax
    BY <1>2, <1>3, <1>4 DEF QueueOK
  <1> QED
    BY <1>1, <1>2, <1>3, <1>5 DEF QueueOK

\* An arrival is enqueued between ticks and only when there is room.
LEMMA EnqueueOK ==
  ASSUME QueueOK, LoopFree, HasRoom(queue), NEW r \in Requests,
         queue' = Enqueue(queue, r), UNCHANGED <<ticking, batch, held>>
  PROVE  QueueOK'
  <1>1. /\ queue \in Seq(Requests) /\ Len(queue) < QueueMax
        /\ batch = <<>> /\ held = <<>> /\ queue' = Append(queue, r)
    BY DEF QueueOK, LoopFree, HasRoom, Enqueue
  <1>2. Len(batch) = 0 /\ Len(held) = 0 /\ Len(queue) \in Nat /\ QueueMax \in Nat
    BY <1>1, EmptySeq, LenProperties, QueueAssumption
  <1>3. queue' \in Seq(Requests) /\ Len(queue') = Len(queue) + 1
    BY <1>1
  <1> QED
    BY <1>1, <1>2, <1>3 DEF QueueOK

-----------------------------------------------------------------------------
(* The handlers' actions.                                                  *)

\* A proxy call that starts.
LEMMA BeginOK ==
  ASSUME GoodRows(backend), HandlersOK, NEW r \in Requests,
         NEW t \in Backends \cup {Fallback}, BeginProxy(r, t),
         pc[r] \notin Replies \cup Outstanding,
         target[r] = t \/ (t = Fallback /\ target[r] = NoTarget)
  PROVE  GoodRows(backend') /\ HandlersOK' /\ RequestStep(r)
  <1>1. /\ GoodRows(backend')
        /\ \/ Answered(r) /\ Leaves(r)
           \/ StartAttempt(r, t) /\ (Keeps \/ Joins(r, Fallback))
    BY BeginEffect DEF HandlersOK
  <1>2. CASE Answered(r) /\ Leaves(r)
    <2>1. HandlersOK' /\ HandlerStep(r)
      BY <1>2, AnsweredOK
    <2>2. UNCHANGED attempts
      BY <1>2 DEF Answered, Answer
    <2> QED
      BY <1>1, <1>2, <2>1, <2>2
         DEF RequestStep, AttemptsStep, LoadStep, SingleRelease
  <1>3. CASE StartAttempt(r, t) /\ (Keeps \/ Joins(r, Fallback))
    <2>1. HandlersOK' /\ HandlerStep(r)
      BY <1>3, StartOK
    <2>2. AttemptsStep(r)
      BY <1>3 DEF AttemptsStep, StartAttempt
    <2>3. LoadStep(r)
      <3>1. CASE target[r] \in Backends
        <4>1. t = target[r] /\ t # Fallback
          BY <3>1, ProxyAssumption
        <4>2. target' = [target EXCEPT ![r] = t] /\ target \in [Requests -> Targets]
          BY <1>3 DEF StartAttempt, HandlersOK
        <4>3. ~Joins(r, Fallback)
          BY <4>1, <4>2 DEF Joins
        <4> QED
          BY <1>3, <4>3 DEF LoadStep, SingleRelease
      <3>2. CASE target[r] \notin Backends
        BY <1>3, <3>2 DEF LoadStep, SingleRelease
      <3> QED
        BY <3>1, <3>2
    <2> QED
      BY <1>1, <2>1, <2>2, <2>3 DEF RequestStep
  <1> QED
    BY <1>1, <1>2, <1>3

\* A request for which there is no place.
LEMMA DivertOK ==
  ASSUME GoodRows(backend), HandlersOK, NEW r \in Requests,
         NEW reply \in Replies, Divert(r, reply),
         pc[r] \notin Replies \cup Outstanding \cup {"dispatched"}
  PROVE  GoodRows(backend') /\ HandlersOK' /\ RequestStep(r)
  <1>1. target[r] = NoTarget /\ target[r] \notin Backends
    BY ProxyAssumption DEF HandlersOK, TargetHeld
  <1>2. CASE FallbackEnabled
    <2>1. BeginProxy(r, Fallback)
      BY <1>2 DEF Divert
    <2> QED
      BY <1>1, <2>1, BeginOK
  <1>3. CASE ~FallbackEnabled
    <2>1. Answer(r, reply) /\ backend' = backend
      BY <1>3 DEF Divert
    <2>2. HandlersOK' /\ HandlerStep(r)
      BY <2>1, AnsweredOK DEF Answered
    <2>3. Leaves(r)
      BY <1>1, <2>1 DEF Leaves, Answer, SameLoad
    <2>4. UNCHANGED attempts
      BY <2>1 DEF Answer
    <2> QED
      BY <2>1, <2>2, <2>3, <2>4
         DEF RequestStep, AttemptsStep, LoadStep, SingleRelease
  <1> QED
    BY <1>2, <1>3

\* A handler that only moves from one place before its proxy call to another.
LEMMA BecomeOK ==
  ASSUME GoodRows(backend), HandlersOK, NEW r \in Requests,
         NEW p \in Awaiting \ {"dispatched"}, Become(r, p),
         pc[r] \notin Replies \cup Outstanding \cup {"dispatched"},
         UNCHANGED <<backend, target, attempts>>
  PROVE  GoodRows(backend') /\ HandlersOK' /\ RequestStep(r)
  <1>1. p \in Places /\ p \notin Outstanding
    BY PlacesApart DEF Places, Awaiting, Outstanding
  <1>2. HandlersOK'
    BY <1>1 DEF HandlersOK, TargetHeld, Become
  <1>3. Keeps
    BY DEF Keeps, SameLoad
  <1>4. HandlerStep(r)
    <2>1. /\ target' = [target EXCEPT ![r] = target[r]]
          /\ target[r] \in Targets
      BY DEF HandlersOK
    <2> QED
      BY <1>1, <2>1 DEF HandlerStep, Become
  <1> QED
    BY <1>2, <1>3, <1>4 DEF RequestStep, AttemptsStep, LoadStep, SingleRelease

\* A step of a handler keeps the invariant.
LEMMA HandlerAction ==
  ASSUME IInv, NEW r \in Requests,
         Arrive(r) \/ Age(r) \/ TimerFires(r) \/ Resume(r) \/ Proceed(r)
  PROVE  IInv' /\ RequestStep(r)
  <1>1. GoodRows(backend) /\ HandlersOK /\ QueueOK
    BY DEF IInv
  <1>2. UNCHANGED schedulerVars => QueueOK'
    BY <1>1 DEF QueueOK, schedulerVars
  <1>3. {"queue_full", "queue_age", "no_backend"} \subseteq Replies
    BY DEF Replies
  <1>4. ASSUME pc[r] \in {"new", "waiting", "overdue", "timedout", "rejected"}
        PROVE  pc[r] \notin Replies \cup Outstanding \cup {"dispatched"}
    BY <1>4 DEF Replies, Outstanding
  <1>5. CASE Arrive(r)
    <2>1. CASE HasRoom(queue)
      <3>1. /\ LoopFree /\ pc[r] = "new" /\ queue' = Enqueue(queue, r)
            /\ Become(r, "waiting")
            /\ UNCHANGED <<backend, target, attempts, ticking, batch, held>>
        BY <1>5, <2>1 DEF Arrive
      <3>2. QueueOK'
        BY <1>1, <2>1, <3>1, EnqueueOK
      <3>3. "waiting" \in Awaiting \ {"dispatched"}
        BY DEF Awaiting
      <3>4. GoodRows(backend') /\ HandlersOK' /\ RequestStep(r)
        BY <1>1, <1>4, <3>1, <3>3, BecomeOK
      <3> QED
        BY <3>2, <3>4 DEF IInv
    <2>2. CASE ~HasRoom(queue)
      <3>1. /\ pc[r] = "new" /\ Divert(r, "queue_full")
            /\ UNCHANGED schedulerVars
        BY <1>5, <2>2 DEF Arrive, schedulerVars
      <3>2. GoodRows(backend') /\ HandlersOK' /\ RequestStep(r)
        BY <1>1, <1>3, <1>4, <3>1, DivertOK
      <3> QED
        BY <1>2, <3>1, <3>2 DEF IInv
    <2> QED
      BY <2>1, <2>2
  <1>6. CASE Age(r) \/ TimerFires(r)
    <2>1. PICK p \in {"overdue", "timedout"} : Become(r, p)
      BY <1>6 DEF Age, TimerFires
    <2>2. /\ pc[r] \in {"waiting", "overdue"}
          /\ UNCHANGED <<backend, target, attempts, schedulerVars>>
      BY <1>6 DEF Age, TimerFires
    <2>3. p \in Awaiting \ {"dispatched"}
      BY DEF Awaiting
    <2>4. GoodRows(backend') /\ HandlersOK' /\ RequestStep(r)
      BY <1>1, <1>4, <2>1, <2>2, <2>3, BecomeOK
    <2> QED
      BY <1>2, <2>2, <2>4 DEF IInv
  <1>7. CASE Resume(r)
    <2>1. UNCHANGED schedulerVars
      BY <1>7 DEF Resume
    <2>2. CASE pc[r] = "dispatched" /\ BeginProxy(r, target[r])
      <3>1. target[r] \in Backends
        BY <1>1, <2>2 DEF HandlersOK, TargetHeld
      <3>2. pc[r] \notin Replies \cup Outstanding
        BY <2>2, PlacesApart
      <3> QED
        BY <1>1, <1>2, <2>1, <2>2, <3>1, <3>2, BeginOK DEF IInv
    <2>3. CASE pc[r] = "timedout" /\ Divert(r, "queue_age")
      BY <1>1, <1>2, <1>3, <1>4, <2>1, <2>3, DivertOK DEF IInv
    <2>4. CASE pc[r] = "rejected" /\ Divert(r, "no_backend")
      BY <1>1, <1>2, <1>3, <1>4, <2>1, <2>4, DivertOK DEF IInv
    <2> QED
      BY <1>7, <2>2, <2>3, <2>4 DEF Resume
  <1>8. CASE Proceed(r)
    <2>1. UpstreamResult(r) /\ UNCHANGED schedulerVars
      BY <1>8 DEF Proceed
    <2>2. GoodRows(backend') /\ AttemptEnds(r)
      BY <1>1, <2>1, UpstreamEffect
    <2>3. pc[r] \in Outstanding
      BY <2>1 DEF UpstreamResult, Succeed, FailStatus, FailWith, TransportFailure,
           StreamHeaders, StreamStatus, StreamUnreachable, StreamFinish,
           Crash, AbandonStream, Outstanding
    <2>4. HandlersOK' /\ HandlerStep(r)
      BY <1>1, <2>2, <2>3, AttemptEndsOK
    <2>5. AttemptsStep(r)
      BY <2>2
         DEF AttemptEnds, AttemptsStep, HeadersSeen, Answered, Answer
    <2>6. 1 <= attempts[r]
      <3>1. attempts[r] >= 1
        BY <1>1, <2>3 DEF HandlersOK
      <3> QED
        BY <1>1, <3>1, ProxyAssumption DEF HandlersOK
    <2>7. LoadStep(r)
      BY <2>2, <2>3, <2>6
         DEF AttemptEnds, LoadStep, SingleRelease, HeadersSeen, Retried
    <2> QED
      BY <1>2, <2>1, <2>2, <2>4, <2>5, <2>7 DEF IInv, RequestStep
  <1> QED
    BY <1>5, <1>6, <1>7, <1>8

-----------------------------------------------------------------------------
(* The scheduler's actions, and the clock.                                 *)

\* The handlers and the counts stay as they are.
Idle == HandlersRest /\ \A b \in Backends : SameLoad(backend[b], backend'[b])

LEMMA HandlersRestOK ==
  ASSUME HandlersOK, HandlersRest
  PROVE  HandlersOK'
  BY DEF HandlersOK, HandlersRest, TargetHeld

\* The end of a cooldown touches no count.
LEMMA CooldownOK ==
  ASSUME IInv, NEW b \in Backends, Cooldown(b)
  PROVE  IInv' /\ Idle
  <1>1. GoodRows(backend) /\ HandlersOK /\ QueueOK
    BY DEF IInv
  <1>2. /\ backend[b] \in BackendStates /\ FieldsAgree(backend[b])
        /\ backend[b].inflight <= HardLimit[b]
        /\ backend[b].timer = "running"
    BY <1>1 DEF GoodRows, Cooldown
  <1> DEFINE s == [backend[b] EXCEPT !.timer = "elapsed"]
  <1>3. /\ s \in BackendStates /\ FieldsAgree(s)
        /\ SameLoad(backend[b], s) /\ s.inflight <= HardLimit[b]
    BY <1>2, CooldownPreserves DEF SameLoad, BackendStates, Timers
  <1>4. backend' = [backend EXCEPT ![b] = s]
    BY DEF Cooldown
  <1> HIDE DEF s
  <1>5. /\ GoodRows(backend')
        /\ \A x \in Backends : SameLoad(backend[x], backend'[x])
    BY <1>1, <1>3, <1>4 DEF GoodRows, SameLoad
  <1>6. HandlersRest /\ UNCHANGED schedulerVars
    BY DEF Cooldown, HandlersRest
  <1>7. QueueOK'
    BY <1>1, <1>6 DEF QueueOK, schedulerVars
  <1> QED
    BY <1>1, <1>5, <1>6, <1>7, HandlersRestOK DEF IInv, Idle

\* The first and the last step of a tick, and its look at a request whose
\* future is done.
LEMMA TickFrameOK ==
  ASSUME IInv, TickBegin \/ TickEnd \/ \E r \in Requests : Skip(r)
  PROVE  IInv' /\ Idle
  <1>1. GoodRows(backend) /\ HandlersOK /\ QueueOK
    BY DEF IInv
  <1>2. HandlersRest /\ backend' \in {backend, Refreshed(backend, NoTarget)}
    BY DEF TickBegin, TickEnd, Skip, HandlersRest
  <1>3. /\ GoodRows(backend')
        /\ \A b \in Backends : SameLoad(backend[b], backend'[b])
    BY <1>1, <1>2, RefreshedOK DEF SameLoad
  <1>4. QueueOK'
    <2>1. CASE TickBegin \/ TickEnd
      BY <1>1, <2>1, TickQueueOK
    <2>2. CASE \E r \in Requests : Skip(r)
      <3>1. PICK r \in Requests : Skip(r)
        BY <2>2
      <3>2. LooksAt(r) /\ UNCHANGED <<queue, ticking>> /\ held' = held
        BY <3>1 DEF Skip
      <3> QED
        BY <1>1, <3>2, BatchQueueOK
    <2> QED
      BY <2>1, <2>2
  <1> QED
    BY <1>1, <1>2, <1>3, <1>4, HandlersRestOK DEF IInv, Idle

\* A tick looks at a request whose future is pending.
LEMMA TickRequestOK ==
  ASSUME IInv, NEW r \in Requests, RejectOverdue(r) \/ Hold(r) \/ Assign(r)
  PROVE  IInv' /\ (Idle \/ RequestStep(r))
  <1>1. GoodRows(backend) /\ HandlersOK /\ QueueOK
    BY DEF IInv
  <1>2. QueueOK'
    <2>1. /\ LooksAt(r) /\ UNCHANGED <<queue, ticking>>
          /\ held' = held \/ held' = Append(held, r)
      BY DEF RejectOverdue, Hold, Assign
    <2> QED
      BY <1>1, <2>1, BatchQueueOK
  <1>3. CASE RejectOverdue(r)
    <2>1. /\ pc[r] = "overdue" /\ Become(r, "rejected")
          /\ UNCHANGED <<backend, target, attempts>>
      BY <1>3 DEF RejectOverdue
    <2>2. /\ pc[r] \notin Replies \cup Outstanding \cup {"dispatched"}
          /\ "rejected" \in Awaiting \ {"dispatched"}
      BY <2>1 DEF Replies, Outstanding, Awaiting
    <2> QED
      BY <1>1, <1>2, <2>1, <2>2, BecomeOK DEF IInv
  <1>4. CASE Hold(r)
    <2>1. HandlersRest /\ backend' = Refreshed(backend, NoTarget)
      BY <1>4 DEF Hold, HandlersRest
    <2>2. /\ GoodRows(backend')
          /\ \A b \in Backends : SameLoad(backend[b], backend'[b])
      BY <1>1, <2>1, RefreshedOK
    <2> QED
      BY <1>1, <1>2, <2>1, <2>2, HandlersRestOK DEF IInv, Idle
  <1>5. CASE Assign(r)
    <2>1. PICK b \in Eligible(backend, NoTarget) :
            /\ backend' = Charged(backend, NoTarget, b, r)
            /\ target' = [target EXCEPT ![r] = b]
      BY <1>5 DEF Assign
    <2>2. /\ pc[r] = "waiting" /\ pc' = [pc EXCEPT ![r] = "dispatched"]
          /\ UNCHANGED attempts
      BY <1>5 DEF Assign, Become
    <2>3. /\ GoodRows(backend') /\ b \in Backends \ Drained
          /\ Raised(backend[b], backend'[b], r \in Large)
          /\ \A x \in Backends \ {b} : SameLoad(backend[x], backend'[x])
      BY <1>1, <2>1, ChargedOK
    <2>4. target[r] = NoTarget /\ target[r] \notin Backends
      <3>1. pc[r] \notin Outstanding \cup {"dispatched"}
        BY <2>2 DEF Outstanding
      <3> QED
        BY <1>1, <3>1, ProxyAssumption DEF HandlersOK, TargetHeld
    <2>5. Joins(r, b)
      BY <2>1, <2>3 DEF Joins
    <2>6. /\ "dispatched" \in Places /\ "dispatched" \notin Outstanding
          /\ b \in Targets /\ pc[r] \notin Replies
      BY <2>2, <2>3 DEF Places, Awaiting, Outstanding, Targets, Replies
    <2>7. HandlersOK'
      <3>1. /\ pc' \in [Requests -> Places]
            /\ target' \in [Requests -> Targets]
            /\ attempts' \in [Requests -> 0..MaxAttempts]
        BY <1>1, <2>1, <2>2, <2>6 DEF HandlersOK
      <3>2. TargetHeld'
        BY <1>1, <2>1, <2>2, <2>3, <2>6 DEF HandlersOK, TargetHeld
      <3>3. \A x \in Requests : pc'[x] \in Outstanding => attempts'[x] >= 1
        BY <1>1, <2>2, <2>6 DEF HandlersOK
      <3> QED
        BY <3>1, <3>2, <3>3 DEF HandlersOK
    <2>8. HandlerStep(r)
      BY <2>1, <2>2, <2>6 DEF HandlerStep
    <2> QED
      BY <1>2, <2>2, <2>3, <2>4, <2>5, <2>7, <2>8
         DEF IInv, RequestStep, AttemptsStep, LoadStep, SingleRelease
  <1> QED
    BY <1>3, <1>4, <1>5

-----------------------------------------------------------------------------
(* Every step keeps the invariant, and changes one request at most.        *)

LEMMA InitOK == Init => IInv
  <1> SUFFICES ASSUME Init
               PROVE  IInv
    OBVIOUS
  <1>1. GoodRows(backend)
    <2>1. NewBackend \in BackendStates /\ FieldsAgree(NewBackend)
      BY NewBackendOK DEF RowOK
    <2>2. NewBackend.inflight = 0
      BY DEF NewBackend
    <2> QED
      BY <2>1, <2>2, ProxyAssumption DEF Init, GoodRows
  <1>2. HandlersOK
    <2>1. /\ "new" \in Places /\ "new" \notin Outstanding \cup {"dispatched"}
          /\ NoTarget \in Targets /\ 0 \in 0..MaxAttempts
      BY ProxyAssumption DEF Places, Outstanding, Targets
    <2> QED
      BY <2>1 DEF Init, HandlersOK, TargetHeld
  <1>3. QueueOK
    <2>1. queue = <<>> /\ batch = <<>> /\ held = <<>> /\ ticking = FALSE
      BY DEF Init
    <2>2. /\ queue \in Seq(Requests) /\ Len(queue) = 0
          /\ batch \in Seq(Requests) /\ Len(batch) = 0
          /\ held \in Seq(Requests) /\ Len(held) = 0
      BY <2>1, EmptySeq
    <2>3. Len(held) + Len(batch) + Len(queue) <= QueueMax
      BY <2>2, QueueAssumption
    <2> QED
      BY <2>1, <2>2, <2>3 DEF QueueOK
  <1> QED
    BY <1>1, <1>2, <1>3 DEF IInv

LEMMA StutterOK ==
  ASSUME IInv, UNCHANGED vars
  PROVE  IInv' /\ Idle
  <1>1. HandlersRest /\ UNCHANGED <<backend, queue, ticking, batch, held>>
    BY DEF vars, HandlersRest
  <1> QED
    BY <1>1, HandlersRestOK DEF IInv, GoodRows, QueueOK, Idle, SameLoad

LEMMA StepOK ==
  ASSUME IInv, [Next]_vars
  PROVE  IInv' /\ (Idle \/ \E r \in Requests : RequestStep(r))
  <1>1. CASE TickStep
    BY <1>1, TickFrameOK, TickRequestOK DEF TickStep
  <1>2. CASE \E b \in Backends : Cooldown(b)
    BY <1>2, CooldownOK
  <1>3. CASE \E r \in Requests :
               Arrive(r) \/ Age(r) \/ TimerFires(r) \/ Resume(r) \/ Proceed(r)
    BY <1>3, HandlerAction
  <1>4. CASE UNCHANGED vars
    BY <1>4, StutterOK
  <1> QED
    BY <1>1, <1>2, <1>3, <1>4 DEF Next

THEOREM Invariance == Spec => []IInv
  <1>1. IInv /\ [Next]_vars => IInv'
    BY StepOK
  <1> QED
    BY InitOK, <1>1, PTL DEF Spec

-----------------------------------------------------------------------------
(* The theorems.                                                           *)

\* In every reachable state the rows, the handlers and the queue are well
\* formed; no release takes a count below zero.
THEOREM TypeCorrect == Spec => []TypeOK
  <1>1. IInv => TypeOK
    BY DEF IInv, GoodRows, HandlersOK, QueueOK, TypeOK, Places, Targets
  <1> QED
    BY Invariance, <1>1, PTL

\* A request is at a backend or the fallback exactly while its handler says so.
THEOREM TargetAlwaysHeld == Spec => []TargetHeld
  <1>1. IInv => TargetHeld
    BY DEF IInv, HandlersOK
  <1> QED
    BY Invariance, <1>1, PTL

\* The circuit, the streak, the probe count and the opening time of a row agree
\* in every interleaving of results, retries and ticks.
THEOREM CircuitsAlwaysConsistent == Spec => []CircuitsConsistent
  <1>1. IInv => CircuitsConsistent
    BY DEF IInv, GoodRows, CircuitsConsistent
  <1> QED
    BY Invariance, <1>1, PTL

\* No mix of dispatches and retries takes a count past hard_limit.
THEOREM CountAlwaysWithinLimit == Spec => []CountWithinLimit
  <1>1. IInv => CountWithinLimit
    BY DEF IInv, GoodRows, CountWithinLimit
  <1> QED
    BY Invariance, <1>1, PTL

\* The queue never holds more than queue_max_size, requeued requests included.
THEOREM QueueAlwaysBounded == Spec => []QueueBounded
  <1>1. IInv => QueueBounded
    <2> SUFFICES ASSUME IInv
                 PROVE  QueueBounded
      OBVIOUS
    <2>1. /\ held \in Seq(Requests) /\ batch \in Seq(Requests)
          /\ queue \in Seq(Requests)
          /\ Len(held) + Len(batch) + Len(queue) <= QueueMax
      BY DEF IInv, QueueOK
    <2>2. /\ held \o batch \in Seq(Requests)
          /\ Len(held \o batch) = Len(held) + Len(batch)
      BY <2>1, ConcatProperties
    <2>3. Len((held \o batch) \o queue) = Len(held \o batch) + Len(queue)
      BY <2>1, <2>2, ConcatProperties
    <2> QED
      BY <2>1, <2>2, <2>3 DEF QueueBounded, Line
  <1> QED
    BY Invariance, <1>1, PTL

\* No request is ever at a drained backend.
THEOREM DrainedNeverUsed == Spec => []DrainedUnused
  <1>1. Init => DrainedUnused
    BY ProxyAssumption DEF Init, DrainedUnused, Serving
  <1>2. IInv /\ DrainedUnused /\ [Next]_vars => DrainedUnused'
    <2> SUFFICES ASSUME IInv, DrainedUnused, [Next]_vars,
                        NEW b \in Drained, NEW r \in Requests, target'[r] = b
                 PROVE  FALSE
      BY DEF DrainedUnused, Serving
    <2>1. /\ target \in [Requests -> Targets] /\ target[r] # b
          /\ b # Fallback /\ b # NoTarget
      BY ProxyAssumption DEF IInv, HandlersOK, DrainedUnused, Serving
    <2>2. CASE Idle
      BY <2>1, <2>2 DEF Idle, HandlersRest
    <2>3. CASE \E x \in Requests : RequestStep(x)
      <3>1. PICK x \in Requests : LoadStep(x)
        BY <2>3 DEF RequestStep
      <3> QED
        BY <2>1, <3>1
           DEF LoadStep, SingleRelease, Keeps, Leaves, LeavesTwice,
               LeavesUnreleased, Joins, Moves
    <2> QED
      BY <2>2, <2>3, StepOK
  <1>3. IInv /\ [Next]_vars => IInv'
    BY StepOK
  <1> QED
    BY InitOK, <1>1, <1>2, <1>3, PTL DEF Spec

\* A tick sends only a request whose future is pending and which is not
\* overdue, and an answer is final.
THEOREM NeverDispatchedLate == Spec => NoLateDispatch
  <1> DEFINE Step ==
        \A r \in Requests :
          /\ pc'[r] = "dispatched" => pc[r] \in {"waiting", "dispatched"}
          /\ pc[r] \in Replies => pc'[r] = pc[r] /\ target'[r] = target[r]
  <1>1. IInv /\ [Next]_vars => [Step]_vars
    <2> SUFFICES ASSUME IInv, [Next]_vars
                 PROVE  Step
      OBVIOUS
    <2>1. TypeOK
      BY DEF IInv, GoodRows, HandlersOK, QueueOK, TypeOK, Places, Targets
    <2>2. CASE Idle
      BY <2>2 DEF Idle, HandlersRest
    <2>3. CASE \E x \in Requests : RequestStep(x)
      <3>1. PICK x \in Requests : HandlerStep(x)
        BY <2>3 DEF RequestStep
      <3>2. /\ pc[x] \notin Replies
            /\ pc'[x] = "dispatched" => pc[x] = "waiting"
            /\ \A r \in Requests \ {x} : pc'[r] = pc[r] /\ target'[r] = target[r]
        BY <2>1, <3>1 DEF HandlerStep, TypeOK
      <3> QED
        BY <3>2
    <2> QED
      BY <2>2, <2>3, StepOK
  <1> QED
    BY Invariance, <1>1, PTL DEF Spec, NoLateDispatch

\* A retry leaves the backend it failed on for one whose circuit is not open.
THEOREM RetryAlwaysGoesElsewhere == Spec => RetryGoesElsewhere
  <1> DEFINE Step ==
        \A r \in Requests :
          pc[r] = "upstream" /\ pc'[r] = "upstream"
              /\ attempts'[r] # attempts[r] =>
            /\ target'[r] \in Backends \ {target[r]}
            /\ backend'[target'[r]].circuit # "open"
  <1>1. IInv /\ [Next]_vars => [Step]_vars
    <2> SUFFICES ASSUME IInv, [Next]_vars,
                        NEW r \in Requests, pc[r] = "upstream",
                        attempts'[r] # attempts[r]
                 PROVE  /\ target'[r] \in Backends \ {target[r]}
                        /\ backend'[target'[r]].circuit # "open"
      OBVIOUS
    <2>1. /\ attempts \in [Requests -> 0..MaxAttempts]
          /\ target \in [Requests -> Targets]
          /\ pc[r] \in Outstanding
      BY DEF IInv, HandlersOK, Outstanding
    <2>2. PICK x \in Requests : AttemptsStep(x)
      BY StepOK DEF Idle, HandlersRest, RequestStep
    <2>3. x = r /\ Retried(r)
      BY <2>1, <2>2 DEF AttemptsStep, Retried
    <2>4. PICK b \in Backends : Moves(r, b) /\ backend'[b].circuit # "open"
      BY <2>3 DEF Retried
    <2>5. target'[r] = b /\ b # target[r]
      BY <2>1, <2>4 DEF Moves
    <2> QED
      BY <2>4, <2>5
  <1> QED
    BY Invariance, <1>1, PTL DEF Spec, RetryGoesElsewhere

-----------------------------------------------------------------------------
(* The way of a handler.                                                   *)

\* StepsFrom, place by place.
LEMMA StepsFromPlaces ==
  ASSUME NEW n \in Nat
  PROVE  /\ StepsFrom("new", n) = MaxAttempts + 5
         /\ StepsFrom("waiting", n) = MaxAttempts + 4
         /\ StepsFrom("overdue", n) = MaxAttempts + 3
         /\ StepsFrom("timedout", n) = MaxAttempts + 2
         /\ StepsFrom("rejected", n) = MaxAttempts + 2
         /\ StepsFrom("dispatched", n) = MaxAttempts + 2
         /\ StepsFrom("upstream", n) = MaxAttempts - n + 2
         /\ StepsFrom("headers", n) = 1
         /\ \A p \in Replies : StepsFrom(p, n) = 0
  BY DEF StepsFrom, Replies

\* A step for r is a step forward for r.
Forward(r) ==
  /\ StepsLeft(r) \in Nat /\ StepsLeft(r)' < StepsLeft(r)
  /\ \A x \in Requests \ {r} :
       <<pc[x], target[x], attempts[x]>>' = <<pc[x], target[x], attempts[x]>>

\* From a place before the proxy call, to a later one or to an answer.
LEMMA BeforeProxyForward ==
  ASSUME HandlersOK, NEW r \in Requests,
         pc[r] \in {"new", "waiting", "overdue", "timedout", "rejected",
                   "dispatched"},
         HandlersOK', NEW p, pc' = [pc EXCEPT ![r] = p],
         \/ p \in Replies
         \/ p = "upstream" /\ attempts'[r] = 1
         \/ p = "overdue" /\ pc[r] = "waiting"
         \/ p = "rejected" /\ pc[r] = "overdue"
         \/ p = "timedout" /\ pc[r] = "overdue"
         \/ p = "dispatched" /\ pc[r] = "waiting"
         \/ p = "waiting" /\ pc[r] = "new"
  PROVE  StepsLeft(r) \in Nat /\ StepsLeft(r)' < StepsLeft(r)
  <1>1. /\ attempts[r] \in Nat /\ attempts'[r] \in Nat /\ MaxAttempts \in Nat
        /\ pc'[r] = p
    BY ProxyAssumption DEF HandlersOK
  <1>2. StepsLeft(r)' = StepsFrom(p, attempts'[r])
    BY <1>1 DEF StepsLeft
  <1>3. p \in Replies => StepsFrom(p, attempts'[r]) = 0
    BY <1>1, StepsFromPlaces
  <1> QED
    BY <1>1, <1>2, <1>3, StepsFromPlaces DEF StepsLeft

\* Where a request goes whose proxy call starts, or that is turned away.
LEMMA BeginPlace ==
  ASSUME HandlersOK, NEW r \in Requests,
         \/ \E t \in Backends \cup {Fallback} : BeginProxy(r, t)
         \/ \E reply \in Replies : Divert(r, reply)
  PROVE  \E p : /\ pc' = [pc EXCEPT ![r] = p]
                /\ p \in Replies \/ (p = "upstream" /\ attempts'[r] = 1)
  <1>1. {"retry_exhausted", "fallback_unavailable"} \subseteq Replies
    BY DEF Replies
  <1>2. ASSUME NEW t, BeginProxy(r, t)
        PROVE  \E p : /\ pc' = [pc EXCEPT ![r] = p]
                      /\ p \in Replies \/ (p = "upstream" /\ attempts'[r] = 1)
    BY <1>1, <1>2
       DEF BeginProxy, NoAttempt, FallbackUnavailable, StartAttempt, Answer,
           HandlersOK
  <1> QED
    BY <1>2 DEF Divert, Answer

\* Whatever comes of an attempt.
LEMMA ResultForward ==
  ASSUME IInv, NEW r \in Requests, UpstreamResult(r)
  PROVE  StepsLeft(r) \in Nat /\ StepsLeft(r)' < StepsLeft(r)
  <1>1. /\ HandlersOK /\ attempts[r] \in 1..MaxAttempts /\ MaxAttempts \in Nat
        /\ pc[r] \in Outstanding
    <2>1. pc[r] \in Outstanding
      BY DEF UpstreamResult, Succeed, FailStatus, FailWith, TransportFailure,
           StreamHeaders, StreamStatus, StreamUnreachable, StreamFinish,
           Crash, AbandonStream, Outstanding
    <2> QED
      BY <2>1, ProxyAssumption DEF IInv, HandlersOK
  <1>2. StepsFrom("upstream", attempts[r]) = MaxAttempts - attempts[r] + 2
        /\ StepsFrom("headers", attempts[r]) = 1
    BY <1>1, StepsFromPlaces
  <1>3. StepsLeft(r) \in Nat /\ StepsLeft(r) > 0
    BY <1>1, <1>2 DEF StepsLeft, Outstanding
  <1>4. CASE Answered(r)
    <2>1. pc'[r] \in Replies /\ attempts'[r] = attempts[r]
      BY <1>1, <1>4 DEF Answered, Answer, HandlersOK
    <2>2. StepsLeft(r)' = 0
      BY <1>1, <2>1, StepsFromPlaces DEF StepsLeft
    <2> QED
      BY <1>3, <2>2
  <1>5. CASE StreamHeaders(r)
    <2>1. pc[r] = "upstream" /\ pc'[r] = "headers" /\ attempts'[r] = attempts[r]
      BY <1>1, <1>5 DEF StreamHeaders, HandlersOK
    <2> QED
      BY <1>1, <1>2, <2>1 DEF StepsLeft
  <1>6. CASE Retried(r) /\ pc[r] = "upstream"
    <2>1. pc'[r] = pc[r] /\ attempts'[r] = attempts[r] + 1
      BY <1>1, <1>6 DEF Retried, HandlersOK
    <2>2. StepsFrom("upstream", attempts[r] + 1) = MaxAttempts - (attempts[r] + 1) + 2
      BY <1>1, StepsFromPlaces
    <2> QED
      BY <1>1, <1>2, <1>6, <2>1, <2>2 DEF StepsLeft
  <1>7. CASE FailStatus(r) \/ TransportFailure(r)
    <2>1. pc[r] = "upstream"
      BY <1>7 DEF FailStatus, FailWith, TransportFailure
    <2>2. Answered(r) \/ Retried(r)
      BY <1>7, FailedEffect DEF FailStatus, FailureEnds, IInv
    <2> QED
      BY <1>4, <1>6, <2>1, <2>2
  <1>8. CASE Succeed(r) \/ StreamStatus(r) \/ StreamUnreachable(r) \/ StreamFinish(r)
    BY <1>4, <1>8, SettledEffect DEF IInv
  <1>9. CASE Crash(r) \/ AbandonStream(r)
    BY <1>4, <1>9 DEF Crash, AbandonStream, Answered, Replies
  <1> QED
    BY <1>5, <1>7, <1>8, <1>9 DEF UpstreamResult

\* Every step brings the handler it is for nearer to its answer.
LEMMA HandlersForward ==
  ASSUME IInv, [Next]_vars
  PROVE  HandlersRest \/ \E r \in Requests : Forward(r)
  <1>1. HandlersOK /\ IInv' /\ HandlersOK'
    BY StepOK DEF IInv
  <1>2. ASSUME NEW r \in Requests, RequestStep(r),
               StepsLeft(r) \in Nat, StepsLeft(r)' < StepsLeft(r)
        PROVE  Forward(r)
    BY <1>1, <1>2
       DEF Forward, RequestStep, HandlerStep, AttemptsStep, Retried, HandlersOK
  <1>3. {"queue_full", "queue_age", "no_backend"} \subseteq Replies
    BY DEF Replies
  <1>4. ASSUME NEW r \in Requests,
               Arrive(r) \/ Age(r) \/ TimerFires(r) \/ Resume(r)
        PROVE  StepsLeft(r) \in Nat /\ StepsLeft(r)' < StepsLeft(r)
    <2>1. CASE Arrive(r)
      BY <1>1, <1>3, <2>1, BeginPlace, BeforeProxyForward DEF Arrive, Become
    <2>2. CASE Age(r) \/ TimerFires(r)
      BY <1>1, <2>2, BeforeProxyForward DEF Age, TimerFires, Become
    <2>3. CASE Resume(r)
      <3>1. pc[r] = "dispatched" => target[r] \in Backends
        BY <1>1 DEF HandlersOK, TargetHeld
      <3> QED
        BY <1>1, <1>3, <2>3, <3>1, BeginPlace, BeforeProxyForward DEF Resume
    <2> QED
      BY <1>4, <2>1, <2>2, <2>3
  <1>5. ASSUME NEW r \in Requests, RejectOverdue(r) \/ Assign(r)
        PROVE  StepsLeft(r) \in Nat /\ StepsLeft(r)' < StepsLeft(r)
    BY <1>1, <1>5, BeforeProxyForward DEF RejectOverdue, Assign, Become
  <1>6. CASE \E r \in Requests :
               Arrive(r) \/ Age(r) \/ TimerFires(r) \/ Resume(r) \/ Proceed(r)
    BY <1>2, <1>4, <1>6, HandlerAction, ResultForward DEF Proceed
  <1>7. CASE \E r \in Requests : RejectOverdue(r) \/ Assign(r)
    <2>1. PICK r \in Requests : RejectOverdue(r) \/ Assign(r)
      BY <1>7
    <2>2. ~HandlersRest
      BY <1>1, <2>1 DEF RejectOverdue, Assign, Become, HandlersRest, HandlersOK
    <2> QED
      BY <1>2, <1>5, <2>1, <2>2, TickRequestOK DEF Idle
  <1>8. CASE \/ TickBegin \/ TickEnd \/ UNCHANGED vars
             \/ \E r \in Requests : Skip(r) \/ Hold(r)
             \/ \E b \in Backends : Cooldown(b)
    BY <1>8 DEF TickBegin, TickEnd, Skip, Hold, Cooldown, vars, HandlersRest
  <1> QED
    BY <1>6, <1>7, <1>8 DEF Next, TickStep

\* A request never goes back to an earlier place, and what may still happen to
\* it is bounded by max_attempts: without an answer it can only stand still.
THEOREM HandlersAlwaysAdvance == Spec => HandlersAdvance
  <1> DEFINE Step ==
        \A r \in Requests :
          <<pc[r], target[r], attempts[r]>>' # <<pc[r], target[r], attempts[r]>> =>
            StepsLeft(r) \in Nat /\ StepsLeft(r)' < StepsLeft(r)
  <1>1. IInv /\ [Next]_vars => [Step]_vars
    BY HandlersForward DEF HandlersRest, Forward
  <1> QED
    BY Invariance, <1>1, PTL DEF Spec, HandlersAdvance

=============================================================================
