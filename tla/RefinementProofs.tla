-------------------------- MODULE RefinementProofs --------------------------
(***************************************************************************)
(* The gateway implements RequestLifecycle, and each of its backends       *)
(* implements CircuitBreaker.                                              *)
(*                                                                         *)
(* Three invariants carry the first: IInv (a request that is being tried   *)
(* has been tried before), LineOK (who waits is in the line, so the bound  *)
(* of the queue bounds the waiting room) and Untried.  IInv carries the    *)
(* second, where each step is followed on the row of one backend: the end  *)
(* of an attempt gives the row back, a choice of backends refreshes it or  *)
(* puts the request there, and everything else leaves it alone.            *)
(***************************************************************************)
EXTENDS GatewayRefinement, BreakerRefinement, LineProofs

\* Attempts are made only for a request whose wait is over.
Untried ==
  \A r \in Requests : pc[r] \in {"new"} \cup Awaiting => attempts[r] = 0

LInv == IInv /\ LineOK /\ Untried

\* What a concrete step has to be for the refinement, and for Untried.
LifeStepOK == (Life!LifeNext \/ UNCHANGED Life!lifeVars) /\ Untried'

-----------------------------------------------------------------------------
(* The mapping.                                                            *)

stages == [r \in Requests |-> StageOf(pc[r])]

LEMMA StagesOfPlaces ==
  /\ StageOf("new") = "new"
  /\ \A p \in {"waiting", "overdue"} : StageOf(p) = "waiting"
  /\ \A p \in {"timedout", "rejected"} : StageOf(p) = "expired"
  /\ \A p \in {"dispatched"} \cup Outstanding : StageOf(p) = "placed"
  /\ \A p \in Refusals : StageOf(p) = "refused"
  /\ \A p \in Replies \ Refusals : StageOf(p) = "ended"
  BY DEF StageOf, Outstanding, Refusals, Replies

\* A handler moves, and its stage with it.
LEMMA StageMoves ==
  ASSUME pc \in [Requests -> Places], NEW r \in Requests, NEW p,
         pc' = [pc EXCEPT ![r] = p]
  PROVE  stages' = [stages EXCEPT ![r] = StageOf(p)]
  BY DEF stages

\* An untried request stays untried while it only waits, and the others are
\* not touched.
LEMMA UntriedKept ==
  ASSUME HandlersOK, Untried, NEW r \in Requests, NEW p, NEW n,
         pc' = [pc EXCEPT ![r] = p],
         attempts' = [attempts EXCEPT ![r] = n],
         p \in {"new"} \cup Awaiting => n = 0
  PROVE  Untried'
  BY DEF HandlersOK, Untried

\* Those who wait are in the line.
LEMMA WaitingFits ==
  ASSUME LInv
  PROVE  IsFiniteSet(Life!Waiting) /\ Cardinality(Life!Waiting) <= Len(Line)
  <1>1. Line \in Seq(Requests) /\ Len(Line) \in Nat
    BY LineTyped DEF LInv, IInv
  <1>2. ASSUME NEW r \in Life!Waiting
        PROVE  \E i \in 1..Len(Line) : Line[i] = r
    <2>1. r \in Requests /\ StageOf(pc[r]) = "waiting"
      BY DEF Life!Waiting
    <2>2. Unresolved(r)
      BY <2>1 DEF StageOf, Unresolved
    <2> QED
      BY <2>1, <2>2 DEF LInv, LineOK, Listed
  <1> DEFINE W == Life!Waiting
             I == {i \in 1..Len(Line) : Line[i] \in W}
             f == [i \in I |-> Line[i]]
  <1>3. IsFiniteSet(1..Len(Line)) /\ Cardinality(1..Len(Line)) = Len(Line)
    BY <1>1, FS_Interval
  <1>4. IsFiniteSet(I) /\ Cardinality(I) <= Len(Line)
    BY <1>3, FS_Subset
  <1>5. f \in Surjection(I, W)
    <2>1. \A w \in W : \E i \in I : f[i] = w
      BY <1>2
    <2>2. f \in [I -> W]
      OBVIOUS
    <2> HIDE DEF W, f, I
    <2> QED
      BY <2>1, <2>2 DEF Surjection, Range
  <1>6. IsFiniteSet(W) /\ Cardinality(W) <= Cardinality(I)
    BY <1>4, <1>5, FS_Surjection
  <1>7. Cardinality(W) \in Nat /\ Cardinality(I) \in Nat
    BY <1>4, <1>6, FS_CardinalityType
  <1> QED
    BY <1>1, <1>4, <1>6, <1>7

-----------------------------------------------------------------------------
(* The handlers' actions.                                                  *)

\* A handler that has not reached the proxy, or just does, with no attempt
\* made, turns its client away.
LEMMA RefuseStep ==
  ASSUME LInv, NEW r \in Requests, NEW reply \in Refusals, Answer(r, reply),
         \/ pc[r] \in {"new", "timedout", "rejected"}
         \/ pc[r] = "dispatched" /\ MaxAttempts = 0
  PROVE  LifeStepOK
  <1>1. HandlersOK /\ Untried /\ pc \in [Requests -> Places]
    BY DEF LInv, IInv, HandlersOK
  <1>2. /\ pc' = [pc EXCEPT ![r] = reply]
        /\ target' = [target EXCEPT ![r] = NoTarget]
        /\ attempts' = attempts
    BY DEF Answer
  <1>3. attempts[r] = 0 /\ attempts' = [attempts EXCEPT ![r] = 0]
    BY <1>1, <1>2 DEF Untried, Awaiting, HandlersOK
  <1>4. stages' = [stages EXCEPT ![r] = "refused"]
    <2>1. StageOf(reply) = "refused"
      BY StagesOfPlaces
    <2> QED
      BY <1>1, <1>2, <2>1, StageMoves
  <1>5. \/ stages[r] \in {"new", "expired"}
        \/ stages[r] = "placed" /\ MaxAttempts = 0
    BY StagesOfPlaces DEF stages
  <1>6. Life!Refuse(r)
    BY <1>2, <1>3, <1>4, <1>5 DEF Life!Refuse, Life!Enter, stages
  <1>7. Untried'
    BY <1>1, <1>2, <1>3, UntriedKept
  <1> QED
    BY <1>6, <1>7 DEF LifeStepOK, Life!LifeNext, Life!LifeStep

\* The first attempt.
LEMMA TryStep ==
  ASSUME LInv, NEW r \in Requests, NEW t, StartAttempt(r, t),
         \/ pc[r] \in {"new", "timedout", "rejected"} /\ t = Fallback
         \/ pc[r] = "dispatched" /\ t = target[r]
  PROVE  LifeStepOK
  <1>1. HandlersOK /\ Untried /\ pc \in [Requests -> Places]
    BY DEF LInv, IInv, HandlersOK
  <1>2. /\ pc' = [pc EXCEPT ![r] = "upstream"]
        /\ target' = [target EXCEPT ![r] = t]
        /\ attempts' = [attempts EXCEPT ![r] = 1]
        /\ MaxAttempts > 0
    BY DEF StartAttempt
  <1>3. attempts[r] = 0
    BY <1>1 DEF Untried, Awaiting
  <1>4. stages' = [stages EXCEPT ![r] = "placed"]
    <2>1. StageOf("upstream") = "placed"
      BY StagesOfPlaces DEF Outstanding
    <2> QED
      BY <1>1, <1>2, <2>1, StageMoves
  <1>5. Life!Try(r)
    <2>1. CASE pc[r] \in {"new", "timedout", "rejected"} /\ t = Fallback
      <3>1. stages[r] \in {"new", "expired"}
        BY <2>1, StagesOfPlaces DEF stages
      <3> QED
        BY <1>2, <1>3, <1>4, <2>1, <3>1 DEF Life!Try, Life!Enter, stages
    <2>2. CASE pc[r] = "dispatched" /\ t = target[r]
      <3>1. stages[r] = "placed" /\ stages' = stages
        BY <1>4, <2>2, StagesOfPlaces DEF stages
      <3>2. target' = target
        BY <1>1, <1>2, <2>2 DEF HandlersOK
      <3> QED
        BY <1>2, <1>3, <3>1, <3>2 DEF Life!Try, stages
    <2> QED
      BY <2>1, <2>2
  <1>6. Untried'
    BY <1>1, <1>2, UntriedKept DEF Awaiting
  <1> QED
    BY <1>5, <1>6 DEF LifeStepOK, Life!LifeNext, Life!LifeStep

LEMMA BeginStep ==
  ASSUME LInv, NEW r \in Requests, NEW t, BeginProxy(r, t),
         \/ pc[r] \in {"new", "timedout", "rejected"} /\ t = Fallback
         \/ pc[r] = "dispatched" /\ t = target[r]
  PROVE  LifeStepOK
  <1>1. {"retry_exhausted", "fallback_unavailable"} \subseteq Refusals
    BY DEF Refusals
  <1>2. CASE NoAttempt(r, t)
    BY <1>1, <1>2, RefuseStep DEF NoAttempt
  <1>3. CASE FallbackUnavailable(r, t)
    <2>1. t = Fallback /\ Answer(r, "fallback_unavailable")
      BY <1>3 DEF FallbackUnavailable, Prepared
    <2>2. pc[r] # "dispatched" \/ target[r] # Fallback
      BY ProxyAssumption DEF LInv, IInv, HandlersOK, TargetHeld
    <2> QED
      BY <1>1, <2>1, <2>2, RefuseStep
  <1>4. CASE StartAttempt(r, t)
    BY <1>4, TryStep
  <1> QED
    BY <1>2, <1>3, <1>4 DEF BeginProxy

LEMMA DivertStep ==
  ASSUME LInv, NEW r \in Requests, NEW reply \in Refusals, Divert(r, reply),
         pc[r] \in {"new", "timedout", "rejected"}
  PROVE  LifeStepOK
  BY BeginStep, RefuseStep DEF Divert

\* A step that changes neither stage nor place nor tries.
LEMMA InvisibleStep ==
  ASSUME LInv, UNCHANGED <<target, attempts>>, stages' = stages,
         \A r \in Requests : pc'[r] \in {"new"} \cup Awaiting =>
                               pc[r] \in {"new"} \cup Awaiting
  PROVE  LifeStepOK
  BY DEF LifeStepOK, Life!lifeVars, LInv, Untried, stages

\* A handler enters the waiting room or leaves it untried.
LEMMA ExpireStep ==
  ASSUME LInv, NEW r \in Requests, NEW p \in {"timedout", "rejected"},
         pc[r] \in {"waiting", "overdue"}, Become(r, p),
         UNCHANGED <<target, attempts>>
  PROVE  LifeStepOK
  <1>1. HandlersOK /\ Untried /\ pc \in [Requests -> Places]
        /\ pc' = [pc EXCEPT ![r] = p]
    BY DEF LInv, IInv, HandlersOK, Become
  <1>2. stages' = [stages EXCEPT ![r] = "expired"] /\ stages[r] = "waiting"
    BY <1>1, StageMoves, StagesOfPlaces DEF stages
  <1>3. attempts' = [attempts EXCEPT ![r] = 0]
    BY <1>1 DEF Untried, Awaiting, HandlersOK
  <1>4. Life!Expire(r)
    BY <1>2 DEF Life!Expire, Life!Enter, stages
  <1>5. Untried'
    BY <1>1, <1>3, UntriedKept
  <1> QED
    BY <1>4, <1>5 DEF LifeStepOK, Life!LifeNext, Life!LifeStep

\* FiniteSets comes into RequestLifecycle by name, with a copy of its operators.
LEMMA SameCardinality ==
  ASSUME NEW S
  PROVE  Life!Cardinality(S) = Cardinality(S)
  BY DEF Life!Cardinality, Cardinality

LEMMA ArriveStep ==
  ASSUME LInv, NEW r \in Requests, Arrive(r)
  PROVE  LifeStepOK
  <1>1. HandlersOK /\ Untried /\ pc \in [Requests -> Places] /\ pc[r] = "new"
        /\ QueueOK
    BY DEF LInv, IInv, HandlersOK, Arrive
  <1>2. CASE HasRoom(queue)
    <2>1. /\ pc' = [pc EXCEPT ![r] = "waiting"] /\ ~ticking
          /\ UNCHANGED <<target, attempts>>
      BY <1>2 DEF Arrive, Become, LoopFree
    <2>2. stages' = [stages EXCEPT ![r] = "waiting"] /\ stages[r] = "new"
      BY <1>1, <2>1, StageMoves, StagesOfPlaces DEF stages
    <2>3. Cardinality(Life!Waiting) < QueueMax
      <3>1. Line = queue /\ queue \in Seq(Requests)
        <4>1. batch = <<>> /\ held = <<>> /\ queue \in Seq(Requests)
          BY <1>1, <2>1 DEF QueueOK
        <4>2. <<>> \in Seq(Requests) /\ <<>> \o <<>> = <<>>
          BY EmptySeq, ConcatEmptySeq
        <4> QED
          BY <4>1, <4>2, ConcatEmptySeq DEF Line
      <3>2. /\ Cardinality(Life!Waiting) \in Nat
            /\ Cardinality(Life!Waiting) <= Len(queue)
        BY <3>1, WaitingFits, FS_CardinalityType
      <3>3. Len(queue) < QueueMax /\ Len(queue) \in Nat /\ QueueMax \in Nat
        BY <1>2, <3>1, LenProperties, QueueAssumption DEF HasRoom
      <3> QED
        BY <3>2, <3>3
    <2>4. attempts' = [attempts EXCEPT ![r] = 0]
      BY <1>1, <2>1 DEF Untried, HandlersOK
    <2>5. Life!Admit(r)
      <3>1. UNCHANGED <<target, attempts>> /\ Life!Enter(r, "waiting")
        BY <2>1, <2>2 DEF Life!Enter, stages
      <3>2. [x \in Requests |-> StageOf(pc[x])][r] = "new"
        BY <2>2 DEF stages
      <3> QED
        BY <2>3, <3>1, <3>2, SameCardinality DEF Life!Admit
    <2>6. Untried'
      BY <1>1, <2>1, <2>4, UntriedKept
    <2> QED
      BY <2>5, <2>6 DEF LifeStepOK, Life!LifeNext, Life!LifeStep
  <1>3. CASE ~HasRoom(queue)
    <2>1. Divert(r, "queue_full") /\ "queue_full" \in Refusals
      BY <1>3 DEF Arrive, Refusals
    <2> QED
      BY <1>1, <2>1, DivertStep
  <1> QED
    BY <1>2, <1>3

LEMMA ResumeStep ==
  ASSUME LInv, NEW r \in Requests, Resume(r)
  PROVE  LifeStepOK
  <1>1. {"queue_age", "no_backend"} \subseteq Refusals
    BY DEF Refusals
  <1> QED
    BY <1>1, BeginStep, DivertStep DEF Resume

LEMMA ProceedStep ==
  ASSUME LInv, NEW r \in Requests, UpstreamResult(r)
  PROVE  LifeStepOK
  <1>1. /\ HandlersOK /\ Untried /\ GoodRows(backend)
        /\ pc \in [Requests -> Places]
        /\ attempts \in [Requests -> 0..MaxAttempts] /\ MaxAttempts \in Nat
    BY ProxyAssumption DEF LInv, IInv, HandlersOK
  <1>2. pc[r] \in Outstanding
    BY DEF UpstreamResult, Succeed, FailStatus, FailWith, TransportFailure,
         StreamHeaders, StreamStatus, StreamUnreachable, StreamFinish,
         Crash, AbandonStream, Outstanding
  <1>3. attempts[r] \in Nat /\ attempts[r] >= 1 /\ stages[r] = "placed"
    <2>1. attempts[r] \in 0..MaxAttempts /\ attempts[r] >= 1
      BY <1>1, <1>2 DEF HandlersOK
    <2>2. MaxAttempts \in Nat
      BY ProxyAssumption
    <2>3. stages[r] = "placed"
      BY <1>1, <1>2, StagesOfPlaces DEF stages
    <2> QED
      BY <2>1, <2>2, <2>3
  <1>4. AttemptEnds(r)
    BY <1>1, UpstreamEffect
  <1>5. CASE Answered(r)
    <2>1. PICK reply \in Replies : Answer(r, reply)
      BY <1>5 DEF Answered
    <2>2. pc' = [pc EXCEPT ![r] = reply] /\ pc'[r] = reply
      BY <1>1, <2>1 DEF Answer
    <2>3. reply \in {"ok", "error_status", "unreachable", "crashed", "abandoned"}
      <3>1. reply \notin Outstanding
        BY PlacesApart
      <3> QED
        BY <1>1, <1>2, <2>2, <3>1, ResultPlaces DEF Outstanding
    <2>4. stages' = [stages EXCEPT ![r] = "ended"]
      <3>1. StageOf(reply) = "ended"
        BY <2>3 DEF StageOf, Outstanding, Refusals
      <3> QED
        BY <1>1, <2>2, <3>1, StageMoves
    <2>5. Life!End(r)
      BY <1>3, <2>1, <2>4 DEF Life!End, Life!Enter, Answer, stages
    <2>6. Untried'
      <3>1. attempts' = [attempts EXCEPT ![r] = attempts[r]]
        BY <1>1, <2>1 DEF Answer
      <3>2. reply \notin {"new"} \cup Awaiting
        BY <2>3 DEF Awaiting
      <3> QED
        BY <1>1, <2>2, <3>1, <3>2, UntriedKept
    <2> QED
      BY <2>5, <2>6 DEF LifeStepOK, Life!LifeNext, Life!LifeStep
  <1>6. CASE HeadersSeen(r)
    <2>1. /\ pc' = [pc EXCEPT ![r] = "headers"]
          /\ UNCHANGED <<target, attempts>>
      BY <1>6 DEF HeadersSeen, Keeps
    <2>2. stages' = stages
      <3>1. StageOf("headers") = "placed"
        BY StagesOfPlaces DEF Outstanding
      <3> QED
        BY <1>1, <1>3, <2>1, <3>1, StageMoves DEF stages
    <2>3. \A x \in Requests : pc'[x] \in {"new"} \cup Awaiting =>
                               pc[x] \in {"new"} \cup Awaiting
      BY <1>1, <2>1 DEF Awaiting
    <2> QED
      BY <2>1, <2>2, <2>3, InvisibleStep
  <1>7. CASE Retried(r)
    <2>1. PICK x \in Backends \ Drained : Moves(r, x)
      BY <1>7 DEF Retried
    <2>2. /\ attempts' = [attempts EXCEPT ![r] = attempts[r] + 1]
          /\ attempts[r] < MaxAttempts /\ pc' = pc
      BY <1>7 DEF Retried
    <2>3. x # target[r] /\ target' = [target EXCEPT ![r] = x]
      BY <2>1 DEF Moves
    <2>4. Life!MoveOn(r)
      <3>1. attempts[r] \in 1..(MaxAttempts - 1)
        BY <1>1, <1>3, <2>2
      <3>2. x \in Backends \ (Drained \cup {target[r]})
        BY <2>3
      <3> QED
        BY <1>3, <2>2, <2>3, <3>1, <3>2 DEF Life!MoveOn, stages
    <2>5. Untried'
      <3>1. pc' = [pc EXCEPT ![r] = pc[r]]
        BY <1>1, <2>2
      <3>2. pc[r] \notin {"new"} \cup Awaiting
        BY <1>2 DEF Awaiting, Outstanding
      <3> QED
        BY <1>1, <2>2, <3>1, <3>2, UntriedKept
    <2> QED
      BY <2>4, <2>5 DEF LifeStepOK, Life!LifeNext, Life!LifeStep
  <1> QED
    BY <1>4, <1>5, <1>6, <1>7 DEF AttemptEnds

-----------------------------------------------------------------------------
(* The scheduler's actions, and the clock.                                 *)

LEMMA AssignStep ==
  ASSUME LInv, NEW r \in Requests, Assign(r)
  PROVE  LifeStepOK
  <1>1. /\ HandlersOK /\ Untried /\ GoodRows(backend)
        /\ pc \in [Requests -> Places]
    BY DEF LInv, IInv, HandlersOK
  <1>2. PICK b \in Eligible(backend, NoTarget) :
          target' = [target EXCEPT ![r] = b]
    BY DEF Assign
  <1>3. /\ pc[r] = "waiting" /\ pc' = [pc EXCEPT ![r] = "dispatched"]
        /\ attempts' = attempts
    BY DEF Assign, Become
  <1>4. b \in Backends \ Drained
    BY <1>1, <1>2, ChargedOK
  <1>5. stages' = [stages EXCEPT ![r] = "placed"] /\ stages[r] = "waiting"
    BY <1>1, <1>3, StageMoves, StagesOfPlaces DEF stages
  <1>6. Life!Place(r)
    BY <1>2, <1>3, <1>4, <1>5 DEF Life!Place, Life!Enter, stages
  <1>7. Untried'
    <2>1. attempts' = [attempts EXCEPT ![r] = 0]
      BY <1>1, <1>3 DEF Untried, Awaiting, HandlersOK
    <2> QED
      BY <1>1, <1>3, <2>1, UntriedKept
  <1> QED
    BY <1>6, <1>7 DEF LifeStepOK, Life!LifeNext, Life!LifeStep

LEMMA TickLifeStep ==
  ASSUME LInv, TickStep
  PROVE  LifeStepOK
  <1>1. UNCHANGED <<pc, target, attempts>> => LifeStepOK
    BY InvisibleStep DEF stages
  <1>2. ASSUME NEW r \in Requests, RejectOverdue(r)
        PROVE  LifeStepOK
    BY <1>2, ExpireStep DEF RejectOverdue
  <1> QED
    BY <1>1, <1>2, AssignStep DEF TickStep, TickBegin, TickEnd, Skip, Hold

LEMMA EveryStepIsALifeStep ==
  ASSUME LInv, [Next]_vars
  PROVE  LifeStepOK
  <1>1. UNCHANGED <<pc, target, attempts>> => LifeStepOK
    BY InvisibleStep DEF stages
  <1>2. CASE TickStep
    BY <1>2, TickLifeStep
  <1>3. CASE \E b \in Backends : Cooldown(b)
    BY <1>1, <1>3 DEF Cooldown
  <1>4. ASSUME NEW r \in Requests, Age(r)
        PROVE  LifeStepOK
    <2>1. /\ pc[r] = "waiting" /\ pc' = [pc EXCEPT ![r] = "overdue"]
          /\ UNCHANGED <<target, attempts>>
      BY <1>4 DEF Age, Become
    <2>2. stages' = stages
      BY <2>1, StageMoves, StagesOfPlaces DEF stages, LInv, IInv, HandlersOK
    <2>3. \A x \in Requests : pc'[x] \in {"new"} \cup Awaiting =>
                               pc[x] \in {"new"} \cup Awaiting
      BY <2>1 DEF Awaiting, LInv, IInv, HandlersOK
    <2> QED
      BY <2>1, <2>2, <2>3, InvisibleStep
  <1>5. ASSUME NEW r \in Requests, TimerFires(r)
        PROVE  LifeStepOK
    BY <1>5, ExpireStep DEF TimerFires
  <1>6. ASSUME NEW r \in Requests, Arrive(r) \/ Resume(r) \/ Proceed(r)
        PROVE  LifeStepOK
    BY <1>6, ArriveStep, ResumeStep, ProceedStep DEF Proceed
  <1>7. CASE UNCHANGED vars
    BY <1>1, <1>7 DEF vars
  <1> QED
    BY <1>2, <1>3, <1>4, <1>5, <1>6, <1>7 DEF Next

-----------------------------------------------------------------------------
(* The theorem.                                                            *)

\* Queue, tick, futures, timers, retries and fallback together implement the
\* lifecycle of a request: it waits in a bounded room, is placed while it
\* waits and at no drained backend, is tried MaxAttempts times at most, is
\* refused only untried, and is answered once.
THEOREM GatewayImplementsLifecycle == Spec => ImplementsLifecycle
  <1>1. Init => Untried /\ Life!LifeInit
    BY StagesOfPlaces DEF Init, Untried, Life!LifeInit
  <1>2. LInv /\ [Next]_vars => [Life!LifeNext]_(Life!lifeVars) /\ Untried'
    BY EveryStepIsALifeStep DEF LifeStepOK
  <1>3. Spec => [](IInv /\ LineOK)
    BY LineInvariance
  <1>4. (IInv /\ LineOK) /\ Untried => LInv
    BY DEF LInv
  <1> QED
    BY <1>1, <1>2, <1>3, <1>4, PTL DEF Spec, ImplementsLifecycle, Life!LifeSpec

-----------------------------------------------------------------------------
(* Breakers.  The functions on rows do the same to a row's plain view.     *)

LEMMA PlainNew == Plain(NewBackend) = NewBackend
  BY DEF Plain, NewBackend

LEMMA PlainUpdates ==
  ASSUME NEW s \in BackendStates
  PROVE  /\ Plain(UpdateSuccess(s)) = UpdateSuccess(Plain(s))
         /\ Plain(UpdateFailure(s)) = UpdateFailure(Plain(s))
         /\ Plain(OnSuccess(s)) = OnSuccess(Plain(s))
         /\ Plain(MaybeTransitionFromOpen(s)) = MaybeTransitionFromOpen(Plain(s))
  BY DEF Plain, BackendStates, UpdateSuccess, UpdateFailure, OnSuccess,
         MaybeTransitionFromOpen

LEMMA PlainFailure ==
  ASSUME NEW s \in BackendStates
  PROVE  Plain(OnFailure(s)) = OnFailure(Plain(s))
  BY DEF Plain, BackendStates, OnFailure

LEMMA PlainCounts ==
  ASSUME NEW s \in BackendStates, NEW large \in BOOLEAN
  PROVE  /\ Plain(Release(s, large)) = Release(Plain(s), FALSE)
         /\ Plain(Occupy(s, large)) = Occupy(Plain(s), FALSE)
  BY DEF Plain, BackendStates, Release, Occupy, OnRequestStart

LEMMA PlainHealthy ==
  ASSUME NEW s \in BackendStates, NEW limit, NEW drained,
         IsHealthyForSchedule(s, limit, drained)
  PROVE  IsHealthyForSchedule(Plain(s), limit, FALSE)
  BY DEF Plain, BackendStates, IsHealthyForSchedule, HalfOpenAllowDispatch,
         MaybeTransitionFromOpen

-----------------------------------------------------------------------------
(* The steps of a breaker, in terms of the gateway.                        *)

Same(b) == RowOf(b)' = RowOf(b) /\ WorkAt(b)' = WorkAt(b)

Refreshes(b) ==
  RowOf(b)' = MaybeTransitionFromOpen(RowOf(b)) /\ WorkAt(b)' = WorkAt(b)

Enters(b, r) ==
  /\ WorkAt(b)[r] = "idle"
  /\ IsHealthyForSchedule(RowOf(b), HardLimit[b], FALSE)
  /\ RowOf(b)' = Occupy(MaybeTransitionFromOpen(RowOf(b)), FALSE)
  /\ WorkAt(b)' = [WorkAt(b) EXCEPT ![r] = "sent"]

\* The request of r leaves b, whose row was s before the release.
GivesBack(b, r, s) ==
  /\ \/ RowOf(b)' = Release(s, FALSE)
     \/ RowOf(b)' = Release(Release(s, FALSE), FALSE)
  /\ WorkAt(b)' = [WorkAt(b) EXCEPT ![r] = "idle"]

BreakerStep(b) == [Breaker(b)!Next]_<<RowOf(b), WorkAt(b)>>

\* Nothing happens to a breaker, or its row is looked at.
LEMMA QuietSteps ==
  ASSUME NEW b \in Backends, Same(b) \/ Refreshes(b)
  PROVE  BreakerStep(b)
  <1>1. CASE Same(b)
    BY <1>1 DEF Same, BreakerStep
  <1>2. CASE Refreshes(b)
    BY <1>2 DEF Refreshes, BreakerStep, Breaker!Next, Breaker!Tick,
           Breaker!MaybeTransitionFromOpen, MaybeTransitionFromOpen
  <1> QED
    BY <1>1, <1>2

\* A request enters, or leaves after a failure.
LEMMA StepsOfABreaker ==
  ASSUME NEW b \in Backends, NEW r \in Requests
  PROVE  /\ Enters(b, r) => BreakerStep(b)
         /\ /\ WorkAt(b)[r] = "sent"
            /\ \/ GivesBack(b, r, UpdateFailure(RowOf(b)))
               \/ GivesBack(b, r, UpdateFailure(OnFailure(RowOf(b))))
            => BreakerStep(b)
  <1>1. Enters(b, r) => BreakerStep(b)
    <2>1. Enters(b, r) => Breaker(b)!Dispatch(r)
      BY DEF Enters, Breaker!Dispatch, Breaker!Become, 
           Breaker!IsHealthyForSchedule, IsHealthyForSchedule,
           Breaker!HalfOpenAllowDispatch, HalfOpenAllowDispatch,
           Breaker!Occupy, Occupy, Breaker!OnRequestStart, OnRequestStart,
           Breaker!MaybeTransitionFromOpen, MaybeTransitionFromOpen
    <2> QED
      BY <2>1 DEF BreakerStep, Breaker!Next
  <1>2. ASSUME WorkAt(b)[r] = "sent",
               \/ GivesBack(b, r, UpdateFailure(RowOf(b)))
               \/ GivesBack(b, r, UpdateFailure(OnFailure(RowOf(b))))
        PROVE  BreakerStep(b)
    <2>1. CASE GivesBack(b, r, UpdateFailure(RowOf(b)))
      <3>1. Breaker(b)!ClientError(r)
        BY <1>2, <2>1 DEF GivesBack, BreakerOutcomes, Breaker!ClientError,
             Breaker!GiveBack, Breaker!Become, Breaker!Release, Release,
             Breaker!UpdateFailure, UpdateFailure
      <3> QED
        BY <3>1 DEF BreakerStep, Breaker!Next, Breaker!Result
    <2>2. CASE GivesBack(b, r, UpdateFailure(OnFailure(RowOf(b))))
      <3>1. Breaker(b)!ServerError(r)
        BY <1>2, <2>2 DEF GivesBack, BreakerOutcomes, Breaker!ServerError,
             Breaker!GiveBack, Breaker!Become, Breaker!Release, Release,
             Breaker!UpdateFailure, UpdateFailure, Breaker!OnFailure, OnFailure
      <3> QED
        BY <3>1 DEF BreakerStep, Breaker!Next, Breaker!Result
    <2> QED
      BY <1>2, <2>1, <2>2
  <1> QED
    BY <1>1, <1>2

\* A request leaves with a success or unreleased, or starts to stream.
LEMMA ResultsOfABreaker ==
  ASSUME NEW b \in Backends, NEW r \in Requests
  PROVE  /\ /\ WorkAt(b)[r] = "sent"
            /\ RowOf(b)' = Release(UpdateSuccess(OnSuccess(RowOf(b))), FALSE)
            /\ WorkAt(b)' = [WorkAt(b) EXCEPT ![r] = "idle"]
            => BreakerStep(b)
         /\ /\ WorkAt(b)[r] = "sent"
            /\ RowOf(b)' = UpdateSuccess(OnSuccess(RowOf(b)))
            /\ WorkAt(b)' = [WorkAt(b) EXCEPT ![r] = "streaming"]
            => BreakerStep(b)
         /\ /\ WorkAt(b)[r] = "streaming"
            /\ RowOf(b)' = Release(UpdateSuccess(RowOf(b)), FALSE)
            /\ WorkAt(b)' = [WorkAt(b) EXCEPT ![r] = "idle"]
            => BreakerStep(b)
         /\ /\ WorkAt(b)[r] \in {"sent", "streaming"}
            /\ RowOf(b)' = RowOf(b)
            /\ WorkAt(b)' = [WorkAt(b) EXCEPT ![r] = "idle"]
            => BreakerStep(b)
  <1>1. ASSUME WorkAt(b)[r] = "sent",
               RowOf(b)' = Release(UpdateSuccess(OnSuccess(RowOf(b))), FALSE),
               WorkAt(b)' = [WorkAt(b) EXCEPT ![r] = "idle"]
        PROVE  Breaker(b)!Succeed(r)
    BY <1>1 DEF BreakerOutcomes, Breaker!Succeed, Breaker!Become,
         Breaker!Release, Release, Breaker!UpdateSuccess, UpdateSuccess,
         Breaker!OnSuccess, OnSuccess
  <1>2. ASSUME WorkAt(b)[r] = "sent",
               RowOf(b)' = UpdateSuccess(OnSuccess(RowOf(b))),
               WorkAt(b)' = [WorkAt(b) EXCEPT ![r] = "streaming"]
        PROVE  Breaker(b)!StreamHeaders(r)
    BY <1>2 DEF BreakerOutcomes, Breaker!StreamHeaders, Breaker!Become,
         Breaker!UpdateSuccess, UpdateSuccess, Breaker!OnSuccess, OnSuccess
  <1>3. ASSUME WorkAt(b)[r] = "streaming",
               RowOf(b)' = Release(UpdateSuccess(RowOf(b)), FALSE),
               WorkAt(b)' = [WorkAt(b) EXCEPT ![r] = "idle"]
        PROVE  Breaker(b)!StreamFinish(r)
    BY <1>3 DEF Breaker!StreamFinish, Breaker!Become, Breaker!Release, Release,
         Breaker!UpdateSuccess, UpdateSuccess
  <1>4. ASSUME WorkAt(b)[r] \in {"sent", "streaming"},
               RowOf(b)' = RowOf(b),
               WorkAt(b)' = [WorkAt(b) EXCEPT ![r] = "idle"]
        PROVE  Breaker(b)!Crash(r) \/ Breaker(b)!AbandonStream(r)
    BY <1>4 DEF BreakerOutcomes, Breaker!Crash, Breaker!AbandonStream,
         Breaker!Become
  <1> QED
    BY <1>1, <1>2, <1>3, <1>4 DEF BreakerStep, Breaker!Next, Breaker!Result

-----------------------------------------------------------------------------
(* What a breaker sees of a handler.                                       *)

\* The handler of r moves to p, and its request to t.
LEMMA WorkMoves ==
  ASSUME HandlersOK, NEW b, NEW r \in Requests, NEW p, NEW t,
         pc' = [pc EXCEPT ![r] = p], target' = [target EXCEPT ![r] = t]
  PROVE  /\ WorkAt(b)' = [WorkAt(b) EXCEPT ![r] = WorkSeen(b, p, t)]
         /\ WorkSeen(b, p, t) = WorkAt(b)[r] => WorkAt(b)' = WorkAt(b)
  <1>1. pc \in [Requests -> Places] /\ target \in [Requests -> Targets]
    BY DEF HandlersOK
  <1>2. /\ \A x \in Requests \ {r} : pc'[x] = pc[x] /\ target'[x] = target[x]
        /\ pc'[r] = p /\ target'[r] = t
    BY <1>1
  <1>3. WorkAt(b)' = [x \in Requests |-> WorkSeen(b, pc'[x], target'[x])]
    BY DEF WorkAt, WorkSeen
  <1>4. WorkAt(b) = [x \in Requests |-> WorkSeen(b, pc[x], target[x])]
    BY DEF WorkAt
  <1>5. WorkAt(b)' = [WorkAt(b) EXCEPT ![r] = WorkSeen(b, p, t)]
    BY <1>2, <1>3, <1>4
  <1> QED
    BY <1>4, <1>5

\* A request at no backend.
LEMMA NowhereIsIdle ==
  ASSUME NEW b \in Backends, NEW p, NEW t \in {NoTarget, Fallback}
  PROVE  WorkSeen(b, p, t) = "idle"
  <1>1. t # b
    BY ProxyAssumption
  <1> QED
    BY <1>1 DEF WorkSeen

\* Every backend has a row.
LEMMA RowsAreRows ==
  ASSUME GoodRows(backend), NEW b \in Backends
  PROVE  backend[b] \in BackendStates
  BY DEF GoodRows

\* An answer releases the target: its breaker has the slot back, and the
\* others see nothing of it.
LEMMA AnswerSeen ==
  ASSUME HandlersOK, NEW r \in Requests, NEW reply, Answer(r, reply),
         NEW b \in Backends
  PROVE  /\ WorkAt(b)' = [WorkAt(b) EXCEPT ![r] = "idle"]
         /\ target[r] # b => WorkAt(b)' = WorkAt(b)
  <1>1. pc' = [pc EXCEPT ![r] = reply] /\ target' = [target EXCEPT ![r] = NoTarget]
    BY DEF Answer
  <1>2. WorkSeen(b, reply, NoTarget) = "idle"
    BY NowhereIsIdle
  <1>3. WorkAt(b)[r] = WorkSeen(b, pc[r], target[r])
    BY DEF WorkAt
  <1>4. target[r] # b => WorkAt(b)[r] = "idle"
    BY <1>3 DEF WorkSeen
  <1>5. /\ WorkAt(b)' = [WorkAt(b) EXCEPT ![r] = WorkSeen(b, reply, NoTarget)]
        /\ WorkSeen(b, reply, NoTarget) = WorkAt(b)[r] => WorkAt(b)' = WorkAt(b)
    BY <1>1, WorkMoves
  <1> QED
    BY <1>2, <1>4, <1>5

\* Settle releases the row of the target, which was s.
LEMMA SettleSeen ==
  ASSUME GoodRows(backend), HandlersOK, NEW r \in Requests, NEW s, NEW reply,
         Settle(r, s, reply), target[r] \in Backends => s \in BackendStates,
         NEW b \in Backends
  PROVE  IF target[r] = b
           THEN /\ RowOf(b)' = Release(Plain(s), FALSE)
                /\ WorkAt(b)' = [WorkAt(b) EXCEPT ![r] = "idle"]
           ELSE Same(b)
  <1>1. /\ WorkAt(b)' = [WorkAt(b) EXCEPT ![r] = "idle"]
        /\ target[r] # b => WorkAt(b)' = WorkAt(b)
    BY AnswerSeen DEF Settle
  <1>2. backend' = Stored(target[r], Release(s, r \in Large))
    BY DEF Settle
  <1>3. CASE target[r] = b
    <2>1. backend'[b] = Release(s, r \in Large)
      BY <1>2, <1>3 DEF Stored, GoodRows
    <2>2. Plain(Release(s, r \in Large)) = Release(Plain(s), FALSE)
      <3>1. s \in BackendStates /\ (r \in Large) \in BOOLEAN
        BY <1>3
      <3> QED
        BY <3>1, PlainCounts
    <2> QED
      BY <1>1, <1>3, <2>1, <2>2 DEF RowOf
  <1>4. CASE target[r] # b
    <2>1. backend'[b] = backend[b]
      BY <1>2, <1>4 DEF Stored, GoodRows
    <2> QED
      BY <1>1, <1>4, <2>1 DEF Same, RowOf
  <1> QED
    BY <1>3, <1>4

\* The rows a retry finds: the target of r, which was s, is released.
LEMMA RowsAfterRelease ==
  ASSUME GoodRows(backend), HandlersOK, NEW r \in Requests, NEW s,
         target[r] \in Backends => s \in BackendStates, NEW b \in Backends
  PROVE  LET rows == Stored(target[r], Release(s, r \in Large))
         IN  /\ rows[b] \in BackendStates
             /\ target[r] = b => Plain(rows[b]) = Release(Plain(s), FALSE)
             /\ target[r] # b => rows[b] = backend[b]
  <1> DEFINE rows == Stored(target[r], Release(s, r \in Large))
  <1>1. backend \in [Backends -> BackendStates]
    BY DEF GoodRows
  <1>2. CASE target[r] = b
    <2>1. s \in BackendStates /\ (r \in Large) \in BOOLEAN
      BY <1>2
    <2>2. rows[b] = Release(s, r \in Large)
      BY <1>1, <1>2 DEF Stored
    <2>3. /\ Release(s, r \in Large) \in BackendStates
          /\ Plain(Release(s, r \in Large)) = Release(Plain(s), FALSE)
      BY <2>1, PlainCounts, ReleaseOK
    <2> QED
      BY <1>2, <2>2, <2>3
  <1>3. CASE target[r] # b
    BY <1>1, <1>3 DEF Stored
  <1> QED
    BY <1>2, <1>3

\* The eligibility tests refresh a row that is no candidate of their choice.
LEMMA RefreshSeen ==
  ASSUME NEW rows, NEW avoid, NEW b \in Backends, rows[b] \in BackendStates
  PROVE  /\ avoid = b => Refreshed(rows, avoid)[b] = rows[b]
         /\ avoid # b => Plain(Refreshed(rows, avoid)[b])
                            = MaybeTransitionFromOpen(Plain(rows[b]))
  BY PlainUpdates DEF Refreshed

\* A choice leaves the other rows as the eligibility tests left them.
LEMMA ChargedElsewhere ==
  ASSUME NEW rows, NEW avoid, NEW r, NEW x \in Backends, NEW b \in Backends,
         b # x
  PROVE  Charged(rows, avoid, x, r)[b] = Refreshed(rows, avoid)[b]
  <1> DEFINE fresh == Refreshed(rows, avoid)
  <1>1. DOMAIN fresh = Backends
    BY DEF Refreshed
  <1>2. Charged(rows, avoid, x, r)
          = [fresh EXCEPT ![x] = Occupy(fresh[x], r \in Large)]
    BY DEF Charged
  <1> HIDE DEF fresh
  <1>3. [fresh EXCEPT ![x] = Occupy(fresh[x], r \in Large)][b] = fresh[b]
    BY <1>1
  <1> QED
    BY <1>2, <1>3 DEF fresh

\* A backend that is chosen is one its breaker would take.
LEMMA ChosenIsHealthy ==
  ASSUME NEW rows, NEW avoid, NEW b \in Eligible(rows, avoid),
         rows[b] \in BackendStates
  PROVE  /\ b \in Backends /\ b # avoid
         /\ IsHealthyForSchedule(Plain(rows[b]), HardLimit[b], FALSE)
  <1>1. /\ b \in Backends /\ b # avoid
        /\ IsHealthyForSchedule(rows[b], HardLimit[b], b \in Drained)
    BY DEF Eligible
  <1> QED
    BY <1>1, PlainHealthy

\* The row that is chosen.
LEMMA ChargedHere ==
  ASSUME NEW rows, NEW avoid, NEW r, NEW b \in Backends, b # avoid,
         rows[b] \in BackendStates
  PROVE  Plain(Charged(rows, avoid, b, r)[b])
           = Occupy(MaybeTransitionFromOpen(Plain(rows[b])), FALSE)
  <1> DEFINE fresh == Refreshed(rows, avoid)
             row   == MaybeTransitionFromOpen(rows[b])
  <1>1. DOMAIN fresh = Backends /\ fresh[b] = row
    BY DEF Refreshed
  <1>2. Charged(rows, avoid, b, r)
          = [fresh EXCEPT ![b] = Occupy(fresh[b], r \in Large)]
    BY DEF Charged
  <1>3. row \in BackendStates /\ (r \in Large) \in BOOLEAN
    BY TransitionPreserves
  <1>4. Plain(row) = MaybeTransitionFromOpen(Plain(rows[b]))
    BY PlainUpdates
  <1> HIDE DEF fresh, row
  <1>5. [fresh EXCEPT ![b] = Occupy(fresh[b], r \in Large)][b]
          = Occupy(row, r \in Large)
    BY <1>1
  <1>6. Plain(Occupy(row, r \in Large)) = Occupy(Plain(row), FALSE)
    BY <1>3, PlainCounts
  <1> QED
    BY <1>2, <1>4, <1>5, <1>6 DEF fresh

\* What the end of an attempt of r, with s recorded on its target, is for b.
AttemptSeen(b, r, s) ==
  IF target[r] = b
    THEN GivesBack(b, r, Plain(s))
    ELSE Same(b) \/ Refreshes(b) \/ Enters(b, r)

\* A retry leaves its target and enters another, or releases its target twice.
LEMMA RetrySeen ==
  ASSUME GoodRows(backend), HandlersOK, NEW r \in Requests, pc[r] = "upstream",
         NEW s, target[r] \in Backends => s \in BackendStates,
         NEW reply, Retry(r, s, reply), NEW b \in Backends
  PROVE  AttemptSeen(b, r, s)
  <1> DEFINE t    == target[r]
             rows == Stored(t, Release(s, r \in Large))
  <1>1. /\ rows[b] \in BackendStates
        /\ t = b => Plain(rows[b]) = Release(Plain(s), FALSE)
        /\ t # b => rows[b] = backend[b]
    BY RowsAfterRelease
  <1>2. /\ t = b => Refreshed(rows, t)[b] = rows[b]
        /\ t # b => Plain(Refreshed(rows, t)[b])
                      = MaybeTransitionFromOpen(Plain(rows[b]))
    BY <1>1, RefreshSeen
  <1>3. WorkAt(b)[r] = WorkSeen(b, "upstream", t)
    BY DEF WorkAt
  <1>4. ASSUME NEW x \in Eligible(rows, t),
               backend' = Charged(rows, t, x, r),
               target' = [target EXCEPT ![r] = x], UNCHANGED pc
        PROVE  AttemptSeen(b, r, s)
    <2> HIDE DEF rows
    <2>1. backend' = Charged(rows, t, x, r)
      BY <1>4
    <2>2. x \in Backends /\ x # t
      BY <1>4 DEF Eligible
    <2>3. b # x => backend'[b] = Refreshed(rows, t)[b]
      BY <2>1, <2>2, ChargedElsewhere
    <2>4. pc' = [pc EXCEPT ![r] = "upstream"]
      BY <1>4 DEF HandlersOK
    <2>5. /\ WorkAt(b)' = [WorkAt(b) EXCEPT ![r] = WorkSeen(b, "upstream", x)]
          /\ WorkSeen(b, "upstream", x) = WorkAt(b)[r] => WorkAt(b)' = WorkAt(b)
      <3>1. target' = [target EXCEPT ![r] = x]
        BY <1>4
      <3> QED
        BY <2>4, <3>1, WorkMoves
    <2>6. CASE b = x
      <3>1. b \in Eligible(rows, t) /\ rows[b] \in BackendStates /\ b # t
        BY <1>1, <1>4, <2>2, <2>6
      <3>2. backend' = Charged(rows, t, b, r)
        BY <2>1, <2>6
      <3>3. IsHealthyForSchedule(Plain(rows[b]), HardLimit[b], FALSE)
        BY <3>1, ChosenIsHealthy
      <3>4. Plain(backend'[b])
              = Occupy(MaybeTransitionFromOpen(Plain(rows[b])), FALSE)
        BY <3>1, <3>2, ChargedHere
      <3>5. WorkAt(b)[r] = "idle"
        BY <1>3, <3>1 DEF WorkSeen
      <3>6. WorkAt(b)' = [WorkAt(b) EXCEPT ![r] = "sent"]
        BY <2>5, <2>6 DEF WorkSeen
      <3>7. Enters(b, r)
        BY <1>1, <3>1, <3>3, <3>4, <3>5, <3>6 DEF Enters, RowOf
      <3> QED
        BY <3>1, <3>7 DEF AttemptSeen
    <2>7. CASE t = b
      <3>1. RowOf(b)' = Release(Plain(s), FALSE)
        BY <1>1, <1>2, <2>3, <2>2, <2>7 DEF RowOf
      <3>2. WorkAt(b)' = [WorkAt(b) EXCEPT ![r] = "idle"]
        BY <2>2, <2>5, <2>7 DEF WorkSeen
      <3> QED
        BY <2>7, <3>1, <3>2 DEF AttemptSeen, GivesBack
    <2>8. CASE t # b /\ b # x
      <3>1. WorkAt(b)' = WorkAt(b)
        BY <1>3, <2>5, <2>8 DEF WorkSeen
      <3>2. Refreshes(b)
        BY <1>1, <1>2, <2>3, <2>8, <3>1 DEF Refreshes, RowOf
      <3> QED
        BY <2>8, <3>2 DEF AttemptSeen
    <2> QED
      BY <2>7, <2>8, <2>6
  <1>5. ASSUME backend' = [y \in Backends |->
                             IF y = t THEN Release(rows[y], r \in Large)
                                      ELSE Refreshed(rows, t)[y]],
               Answer(r, reply)
        PROVE  AttemptSeen(b, r, s)
    <2>1. /\ WorkAt(b)' = [WorkAt(b) EXCEPT ![r] = "idle"]
          /\ t # b => WorkAt(b)' = WorkAt(b)
      BY <1>5, AnswerSeen
    <2>2. Plain(Release(rows[b], r \in Large)) = Release(Plain(rows[b]), FALSE)
      <3>1. (r \in Large) \in BOOLEAN
        OBVIOUS
      <3> HIDE DEF rows
      <3> QED
        BY <1>1, <3>1, PlainCounts
    <2> HIDE DEF rows
    <2>3. backend'[b] = IF b = t THEN Release(rows[b], r \in Large)
                                 ELSE Refreshed(rows, t)[b]
      BY <1>5
    <2>4. CASE t = b
      <3>1. RowOf(b)' = Release(Release(Plain(s), FALSE), FALSE)
        BY <1>1, <2>2, <2>3, <2>4 DEF RowOf
      <3> QED
        BY <2>1, <2>4, <3>1 DEF AttemptSeen, GivesBack
    <2>5. CASE t # b
      <3>1. Refreshes(b)
        BY <1>1, <1>2, <2>1, <2>3, <2>5 DEF Refreshes, RowOf
      <3> QED
        BY <2>5, <3>1 DEF AttemptSeen
    <2> QED
      BY <2>4, <2>5
  <1> QED
    BY <1>4, <1>5 DEF Retry

\* The end of an attempt, retried or not.
LEMMA RetryOrSettleSeen ==
  ASSUME GoodRows(backend), HandlersOK, NEW r \in Requests, pc[r] = "upstream",
         NEW s, target[r] \in Backends => s \in BackendStates,
         NEW reply, NEW retryable, RetryOrSettle(r, retryable, s, reply),
         NEW b \in Backends
  PROVE  AttemptSeen(b, r, s)
  <1>1. CASE Retry(r, s, reply)
    BY <1>1, RetrySeen
  <1>2. CASE Settle(r, s, reply)
    BY <1>2, SettleSeen DEF AttemptSeen, GivesBack
  <1> QED
    BY <1>1, <1>2 DEF RetryOrSettle

\* The end of an attempt with a failure recorded is a step of every breaker.
LEMMA FailureIsAStep ==
  ASSUME GoodRows(backend), HandlersOK, NEW r \in Requests, pc[r] = "upstream",
         NEW s, NEW b \in Backends, AttemptSeen(b, r, s),
         s \in {UpdateFailure(Row(r)), UpdateFailure(OnFailure(Row(r)))}
  PROVE  BreakerStep(b)
  <1>1. CASE target[r] = b
    <2>1. backend[b] \in BackendStates /\ Row(r) = backend[b]
      BY <1>1, RowsAreRows DEF Row
    <2>2. OnFailure(backend[b]) \in BackendStates
      BY <2>1, OnFailurePreserves
    <2>3. \/ Plain(s) = UpdateFailure(RowOf(b))
          \/ Plain(s) = UpdateFailure(OnFailure(RowOf(b)))
      BY <2>1, <2>2, PlainUpdates, PlainFailure DEF RowOf
    <2>4. GivesBack(b, r, Plain(s))
      BY <1>1 DEF AttemptSeen
    <2>5. WorkAt(b)[r] = "sent"
      BY <1>1 DEF WorkAt, WorkSeen
    <2> QED
      BY <2>3, <2>4, <2>5, StepsOfABreaker, QuietSteps
  <1>2. CASE target[r] # b
    BY <1>2, StepsOfABreaker, QuietSteps DEF AttemptSeen
  <1> QED
    BY <1>1, <1>2

-----------------------------------------------------------------------------
(* Upstream results.                                                       *)

\* The rows a result can leave are rows, and their plain views.
LEMMA RecordsSeen ==
  ASSUME NEW s \in BackendStates
  PROVE  /\ UpdateSuccess(s) \in BackendStates
         /\ UpdateSuccess(OnSuccess(s)) \in BackendStates
         /\ UpdateFailure(s) \in BackendStates
         /\ UpdateFailure(OnFailure(s)) \in BackendStates
         /\ Plain(UpdateSuccess(s)) = UpdateSuccess(Plain(s))
         /\ Plain(UpdateSuccess(OnSuccess(s))) = UpdateSuccess(OnSuccess(Plain(s)))
  <1> DEFINE good == OnSuccess(s)
             bad  == OnFailure(s)
  <1>1. good \in BackendStates /\ bad \in BackendStates
    BY OnSuccessPreserves, OnFailurePreserves
  <1>2. Plain(good) = OnSuccess(Plain(s))
    BY PlainUpdates
  <1> HIDE DEF good, bad
  <1>3. /\ UpdateSuccess(s) \in BackendStates
        /\ UpdateFailure(s) \in BackendStates
        /\ UpdateSuccess(good) \in BackendStates
        /\ UpdateFailure(bad) \in BackendStates
    BY <1>1, UpdatePreserves
  <1>4. /\ Plain(UpdateSuccess(s)) = UpdateSuccess(Plain(s))
        /\ Plain(UpdateSuccess(good)) = UpdateSuccess(Plain(good))
    BY <1>1, PlainUpdates
  <1> QED
    BY <1>2, <1>3, <1>4 DEF good, bad

\* A failed attempt, retried or not.
LEMMA FailuresSeen ==
  ASSUME GoodRows(backend), HandlersOK, NEW r \in Requests,
         FailStatus(r) \/ TransportFailure(r) \/ StreamStatus(r)
           \/ StreamUnreachable(r),
         NEW b \in Backends
  PROVE  BreakerStep(b)
  <1> DEFINE soft == UpdateFailure(Row(r))
             hard == UpdateFailure(OnFailure(Row(r)))
  <1>1. target[r] \in Backends => soft \in BackendStates /\ hard \in BackendStates
    BY RowsAreRows, RecordsSeen DEF Row
  <1>2. pc[r] = "upstream"
    BY DEF FailStatus, FailWith, TransportFailure, StreamStatus, StreamUnreachable
  <1>3. PICK s \in {soft, hard}, reply \in Replies :
          \/ \E retryable \in BOOLEAN : RetryOrSettle(r, retryable, s, reply)
          \/ Settle(r, s, reply)
    <2>1. \A outcome : AfterStatus(Row(r), outcome) \in {soft, hard}
      BY DEF AfterStatus
    <2>2. {"error_status", "unreachable"} \subseteq Replies
      BY DEF Replies
    <2> HIDE DEF soft, hard
    <2>3. CASE FailStatus(r)
      <3>1. PICK outcome : RetryOrSettle(r, outcome # "client_error",
                             AfterStatus(Row(r), outcome), "error_status")
        BY <2>3 DEF FailStatus, FailWith
      <3>2. (outcome # "client_error") \in BOOLEAN
        OBVIOUS
      <3> QED
        BY <2>1, <2>2, <3>1, <3>2
    <2>4. CASE TransportFailure(r)
      <3>1. RetryOrSettle(r, TRUE, hard, "unreachable")
        BY <2>4 DEF TransportFailure, hard
      <3> QED
        BY <2>2, <3>1
    <2>5. CASE StreamStatus(r)
      BY <2>1, <2>2, <2>5 DEF StreamStatus
    <2>6. CASE StreamUnreachable(r)
      <3>1. Settle(r, hard, "unreachable")
        BY <2>6 DEF StreamUnreachable, hard
      <3> QED
        BY <2>2, <3>1
    <2> QED
      BY <2>3, <2>4, <2>5, <2>6
  <1>4. target[r] \in Backends => s \in BackendStates
    BY <1>1, <1>3
  <1>5. AttemptSeen(b, r, s)
    <2>1. CASE Settle(r, s, reply)
      BY <1>4, <2>1, SettleSeen DEF AttemptSeen, GivesBack
    <2>2. ASSUME NEW retryable \in BOOLEAN, RetryOrSettle(r, retryable, s, reply)
          PROVE  AttemptSeen(b, r, s)
      BY <1>2, <1>4, <2>2, RetryOrSettleSeen
    <2> QED
      BY <1>3, <2>1, <2>2
  <1> QED
    BY <1>2, <1>3, <1>5, FailureIsAStep

\* An attempt that succeeds, streams, or leaves the proxy without a release.
LEMMA SuccessesSeen ==
  ASSUME GoodRows(backend), HandlersOK, NEW r \in Requests,
         Succeed(r) \/ StreamHeaders(r) \/ StreamFinish(r) \/ Crash(r)
           \/ AbandonStream(r),
         NEW b \in Backends
  PROVE  BreakerStep(b)
  <1>1. target[r] \in Backends =>
          /\ UpdateSuccess(OnSuccess(Row(r))) \in BackendStates
          /\ UpdateSuccess(Row(r)) \in BackendStates
    BY RowsAreRows, RecordsSeen DEF Row
  <1>2. WorkAt(b)[r] = WorkSeen(b, pc[r], target[r])
    BY DEF WorkAt
  <1>3. target[r] = b =>
          /\ Plain(UpdateSuccess(OnSuccess(Row(r)))) = UpdateSuccess(OnSuccess(RowOf(b)))
          /\ Plain(UpdateSuccess(Row(r))) = UpdateSuccess(RowOf(b))
    BY RowsAreRows, RecordsSeen DEF Row, RowOf
  <1>4. CASE Succeed(r)
    <2>1. /\ Settle(r, UpdateSuccess(OnSuccess(Row(r))), "ok")
          /\ pc[r] = "upstream"
      BY <1>4 DEF Succeed
    <2>2. IF target[r] = b
            THEN /\ RowOf(b)' = Release(Plain(UpdateSuccess(OnSuccess(Row(r)))), FALSE)
                 /\ WorkAt(b)' = [WorkAt(b) EXCEPT ![r] = "idle"]
            ELSE Same(b)
      BY <1>1, <2>1, SettleSeen
    <2>3. CASE target[r] = b
      <3>1. WorkAt(b)[r] = "sent"
        BY <1>2, <2>1, <2>3 DEF WorkSeen
      <3> QED
        BY <1>3, <2>2, <2>3, <3>1, ResultsOfABreaker
    <2> QED
      BY <2>2, <2>3, StepsOfABreaker, QuietSteps
  <1>5. CASE StreamFinish(r)
    <2>1. Settle(r, UpdateSuccess(Row(r)), "ok") /\ pc[r] = "headers"
      BY <1>5 DEF StreamFinish
    <2>2. IF target[r] = b
            THEN /\ RowOf(b)' = Release(Plain(UpdateSuccess(Row(r))), FALSE)
                 /\ WorkAt(b)' = [WorkAt(b) EXCEPT ![r] = "idle"]
            ELSE Same(b)
      BY <1>1, <2>1, SettleSeen
    <2>3. CASE target[r] = b
      <3>1. WorkAt(b)[r] = "streaming"
        BY <1>2, <2>1, <2>3 DEF WorkSeen
      <3> QED
        BY <1>3, <2>2, <2>3, <3>1, ResultsOfABreaker
    <2> QED
      BY <2>2, <2>3, StepsOfABreaker, QuietSteps
  <1>6. CASE StreamHeaders(r)
    <2>1. /\ backend' = Stored(target[r], UpdateSuccess(OnSuccess(Row(r))))
          /\ pc[r] = "upstream" /\ pc' = [pc EXCEPT ![r] = "headers"]
          /\ target' = target
      BY <1>6 DEF StreamHeaders
    <2>2. target' = [target EXCEPT ![r] = target[r]]
      BY <2>1 DEF HandlersOK
    <2>3. /\ WorkAt(b)' = [WorkAt(b) EXCEPT ![r] = WorkSeen(b, "headers", target[r])]
          /\ WorkSeen(b, "headers", target[r]) = WorkAt(b)[r]
               => WorkAt(b)' = WorkAt(b)
      <3>1. pc' = [pc EXCEPT ![r] = "headers"]
        BY <2>1
      <3> QED
        BY <2>2, <3>1, WorkMoves
    <2>4. CASE target[r] = b
      <3>1. backend'[b] = UpdateSuccess(OnSuccess(Row(r)))
        BY <2>1, <2>4 DEF Stored, GoodRows
      <3>2. RowOf(b)' = UpdateSuccess(OnSuccess(RowOf(b)))
        BY <1>3, <2>4, <3>1 DEF RowOf
      <3>3. /\ WorkAt(b)[r] = "sent"
            /\ WorkAt(b)' = [WorkAt(b) EXCEPT ![r] = "streaming"]
        BY <1>2, <2>1, <2>3, <2>4 DEF WorkSeen
      <3> QED
        BY <3>2, <3>3, ResultsOfABreaker
    <2>5. CASE target[r] # b
      <3>1. backend'[b] = backend[b]
        BY <2>1, <2>5 DEF Stored, GoodRows
      <3>2. WorkAt(b)' = WorkAt(b)
        BY <1>2, <2>3, <2>5 DEF WorkSeen
      <3> QED
        BY <3>1, <3>2, StepsOfABreaker, QuietSteps DEF Same, RowOf
    <2> QED
      BY <2>4, <2>5
  <1>7. CASE Crash(r) \/ AbandonStream(r)
    <2>1. PICK reply : Answer(r, reply)
      BY <1>7 DEF Crash, AbandonStream
    <2>2. backend' = backend /\ pc[r] \in Outstanding
      BY <1>7 DEF Crash, AbandonStream, Outstanding
    <2>3. /\ WorkAt(b)' = [WorkAt(b) EXCEPT ![r] = "idle"]
          /\ target[r] # b => WorkAt(b)' = WorkAt(b)
      BY <2>1, AnswerSeen
    <2>4. RowOf(b)' = RowOf(b)
      BY <2>2 DEF RowOf
    <2>5. target[r] = b => WorkAt(b)[r] \in {"sent", "streaming"}
      BY <1>2 DEF WorkSeen
    <2> QED
      BY <2>3, <2>4, <2>5, StepsOfABreaker, QuietSteps, ResultsOfABreaker DEF Same
  <1> QED
    BY <1>4, <1>5, <1>6, <1>7

-----------------------------------------------------------------------------
(* The handlers before their attempts, the scheduler and the clock.        *)

\* A step that leaves rows, places and targets alone.
LEMMA StillSeen ==
  ASSUME UNCHANGED <<backend, pc, target>>, NEW b \in Backends
  PROVE  Same(b)
  BY DEF Same, RowOf, WorkAt

\* A handler that moves on while its request is nowhere.
LEMMA MoveSeen ==
  ASSUME HandlersOK, NEW r \in Requests, NEW p, target[r] = NoTarget,
         pc' = [pc EXCEPT ![r] = p], UNCHANGED <<backend, target>>,
         NEW b \in Backends
  PROVE  Same(b)
  <1>1. WorkSeen(b, p, NoTarget) = "idle" /\ WorkSeen(b, pc[r], NoTarget) = "idle"
    BY NowhereIsIdle
  <1>2. WorkAt(b)' = WorkAt(b)
    <2>1. pc \in [Requests -> Places] /\ target \in [Requests -> Targets]
      BY DEF HandlersOK
    <2>2. \A x \in Requests :
            WorkSeen(b, pc'[x], target'[x]) = WorkSeen(b, pc[x], target[x])
      <3>1. CASE target' = target /\ pc' = [pc EXCEPT ![r] = p]
        <4>1. \A x \in Requests \ {r} : pc'[x] = pc[x] /\ target'[x] = target[x]
          BY <2>1, <3>1
        <4>2. pc'[r] = p /\ target'[r] = NoTarget
          BY <2>1, <3>1
        <4> QED
          BY <1>1, <4>1, <4>2
      <3> QED
        BY <3>1
    <2> QED
      BY <2>2 DEF WorkAt, WorkSeen
  <1> QED
    BY <1>2 DEF Same, RowOf

\* The start of a proxy call, with the target of a dispatch or the fallback.
LEMMA BeginSeen ==
  ASSUME HandlersOK, MaxAttempts > 0, NEW r \in Requests, NEW t, BeginProxy(r, t),
         \/ pc[r] = "dispatched" /\ t = target[r]
         \/ target[r] = NoTarget /\ t = Fallback,
         NEW b \in Backends
  PROVE  Same(b)
  <1>1. /\ pc[r] = "dispatched" => target[r] \in Backends
        /\ NoTarget # b /\ Fallback # b
    BY ProxyAssumption DEF HandlersOK, TargetHeld
  <1>2. backend' = backend
    BY DEF BeginProxy, NoAttempt, FallbackUnavailable, StartAttempt
  <1>3. CASE FallbackUnavailable(r, t)
    <2>1. t = Fallback /\ target[r] # b
      BY <1>1, <1>3, ProxyAssumption DEF FallbackUnavailable, Prepared
    <2>2. WorkAt(b)' = WorkAt(b)
      BY <1>3, <2>1, AnswerSeen DEF FallbackUnavailable
    <2> QED
      BY <1>2, <2>2 DEF Same, RowOf
  <1>4. CASE StartAttempt(r, t)
    <2>1. pc' = [pc EXCEPT ![r] = "upstream"] /\ target' = [target EXCEPT ![r] = t]
      BY <1>4 DEF StartAttempt
    <2>2. WorkSeen(b, "upstream", t) = WorkAt(b)[r]
      BY <1>1 DEF WorkSeen, WorkAt
    <2>3. WorkAt(b)' = WorkAt(b)
      BY <2>1, <2>2, WorkMoves
    <2> QED
      BY <1>2, <2>3 DEF Same, RowOf
  <1> QED
    BY <1>3, <1>4 DEF BeginProxy, NoAttempt

\* A request that finds no place.
LEMMA DivertSeen ==
  ASSUME HandlersOK, MaxAttempts > 0, NEW r \in Requests, NEW reply,
         Divert(r, reply), target[r] = NoTarget, NEW b \in Backends
  PROVE  Same(b)
  <1>1. CASE BeginProxy(r, Fallback)
    BY <1>1, BeginSeen
  <1>2. CASE Answer(r, reply) /\ UNCHANGED backend
    <2>1. WorkAt(b)' = WorkAt(b)
      BY <1>2, AnswerSeen, ProxyAssumption
    <2> QED
      BY <1>2, <2>1 DEF Same, RowOf
  <1> QED
    BY <1>1, <1>2 DEF Divert

\* Every step of a handler that is not an upstream result.
LEMMA HandlerSeen ==
  ASSUME HandlersOK, MaxAttempts > 0, NEW r \in Requests,
         Arrive(r) \/ Age(r) \/ TimerFires(r) \/ RejectOverdue(r) \/ Resume(r),
         NEW b \in Backends
  PROVE  Same(b)
  <1>1. pc[r] \in {"new", "waiting", "overdue", "timedout", "rejected"}
          => target[r] = NoTarget
    BY DEF HandlersOK, TargetHeld, Outstanding
  <1>2. CASE Arrive(r)
    <2>1. target[r] = NoTarget
      BY <1>1, <1>2 DEF Arrive
    <2>2. \/ Become(r, "waiting") /\ UNCHANGED <<backend, target>>
          \/ Divert(r, "queue_full")
      BY <1>2 DEF Arrive
    <2> QED
      BY <2>1, <2>2, MoveSeen, DivertSeen DEF Become
  <1>3. CASE Age(r)
    BY <1>1, <1>3, MoveSeen DEF Age, Become
  <1>4. CASE TimerFires(r)
    BY <1>1, <1>4, MoveSeen DEF TimerFires, Become
  <1>5. CASE RejectOverdue(r)
    BY <1>1, <1>5, MoveSeen DEF RejectOverdue, Become
  <1>6. CASE Resume(r)
    <2>1. CASE pc[r] = "dispatched" /\ BeginProxy(r, target[r])
      BY <2>1, BeginSeen
    <2>2. CASE pc[r] = "timedout" /\ Divert(r, "queue_age")
      BY <1>1, <2>2, DivertSeen
    <2>3. CASE pc[r] = "rejected" /\ Divert(r, "no_backend")
      BY <1>1, <2>3, DivertSeen
    <2> QED
      BY <1>6, <2>1, <2>2, <2>3 DEF Resume
  <1> QED
    BY <1>2, <1>3, <1>4, <1>5, <1>6

\* The scheduler looks at every row and charges none.
LEMMA ScanSeen ==
  ASSUME GoodRows(backend), backend' = Refreshed(backend, NoTarget),
         UNCHANGED <<pc, target>>, NEW b \in Backends
  PROVE  Refreshes(b)
  <1>1. NoTarget # b /\ backend[b] \in BackendStates
    BY ProxyAssumption, RowsAreRows
  <1>2. RowOf(b)' = MaybeTransitionFromOpen(RowOf(b))
    BY <1>1, RefreshSeen DEF RowOf
  <1> QED
    BY <1>2 DEF Refreshes, WorkAt

\* The scheduler places a request.
LEMMA AssignSeen ==
  ASSUME GoodRows(backend), HandlersOK, NEW r \in Requests, Assign(r),
         NEW b \in Backends
  PROVE  Refreshes(b) \/ Enters(b, r)
  <1>1. /\ pc[r] = "waiting" /\ pc' = [pc EXCEPT ![r] = "dispatched"]
        /\ NoTarget # b /\ backend[b] \in BackendStates
    BY ProxyAssumption, RowsAreRows DEF Assign, Become
  <1>2. PICK x \in Eligible(backend, NoTarget) :
          /\ backend' = Charged(backend, NoTarget, x, r)
          /\ target' = [target EXCEPT ![r] = x]
    BY DEF Assign
  <1>3. WorkAt(b)[r] = "idle"
    <2>1. target[r] = NoTarget
      BY <1>1 DEF HandlersOK, TargetHeld, Outstanding
    <2> QED
      BY <1>1, <2>1 DEF WorkAt, WorkSeen
  <1>4. /\ WorkAt(b)' = [WorkAt(b) EXCEPT ![r] = WorkSeen(b, "dispatched", x)]
        /\ WorkSeen(b, "dispatched", x) = WorkAt(b)[r] => WorkAt(b)' = WorkAt(b)
    BY <1>1, <1>2, WorkMoves
  <1>5. CASE b = x
    <2>1. IsHealthyForSchedule(RowOf(b), HardLimit[b], FALSE)
      BY <1>1, <1>2, <1>5, ChosenIsHealthy DEF RowOf
    <2>2. RowOf(b)' = Occupy(MaybeTransitionFromOpen(RowOf(b)), FALSE)
      BY <1>1, <1>2, <1>5, ChargedHere DEF RowOf
    <2>3. WorkAt(b)' = [WorkAt(b) EXCEPT ![r] = "sent"]
      BY <1>4, <1>5 DEF WorkSeen
    <2> QED
      BY <1>3, <2>1, <2>2, <2>3 DEF Enters
  <1>6. CASE b # x
    <2>1. x \in Backends
      BY <1>2 DEF Eligible
    <2>2. backend'[b] = Refreshed(backend, NoTarget)[b]
      BY <1>2, <1>6, <2>1, ChargedElsewhere
    <2>3. RowOf(b)' = MaybeTransitionFromOpen(RowOf(b))
      BY <1>1, <2>2, RefreshSeen DEF RowOf
    <2>4. WorkAt(b)' = WorkAt(b)
      BY <1>3, <1>4, <1>6 DEF WorkSeen
    <2> QED
      BY <2>3, <2>4 DEF Refreshes
  <1> QED
    BY <1>5, <1>6

\* The end of a cooldown is one of the breaker it belongs to.
LEMMA CooldownSeen ==
  ASSUME GoodRows(backend), NEW x \in Backends, Cooldown(x), NEW b \in Backends
  PROVE  BreakerStep(b)
  <1>1. /\ backend[x].timer = "running"
        /\ backend' = [backend EXCEPT ![x] = [backend[x] EXCEPT !.timer = "elapsed"]]
        /\ UNCHANGED <<pc, target>>
    BY DEF Cooldown
  <1>2. WorkAt(b)' = WorkAt(b)
    BY <1>1 DEF WorkAt
  <1>3. CASE b = x
    <2>1. backend'[b] = [backend[b] EXCEPT !.timer = "elapsed"]
      BY <1>1, <1>3 DEF GoodRows
    <2>2. backend[b] \in BackendStates
      BY RowsAreRows
    <2>3. /\ RowOf(b).timer = "running"
          /\ RowOf(b)' = [RowOf(b) EXCEPT !.timer = "elapsed"]
      BY <1>1, <1>3, <2>1, <2>2 DEF RowOf, Plain, BackendStates
    <2>4. Breaker(b)!Cooldown
      BY <1>2, <2>3 DEF Breaker!Cooldown
    <2> QED
      BY <2>4 DEF BreakerStep, Breaker!Next
  <1>4. CASE b # x
    <2>1. backend'[b] = backend[b]
      BY <1>1, <1>4 DEF GoodRows
    <2> QED
      BY <1>2, <2>1, QuietSteps DEF Same, RowOf
  <1> QED
    BY <1>3, <1>4

-----------------------------------------------------------------------------
(* The theorem.                                                            *)

\* Every step of the gateway is one of each breaker, or none of its business.
LEMMA EveryStepIsABreakerStep ==
  ASSUME IInv, MaxAttempts > 0, [Next]_vars, NEW b \in Backends
  PROVE  BreakerStep(b)
  <1>1. GoodRows(backend) /\ HandlersOK
    BY DEF IInv
  <1>2. UNCHANGED <<backend, pc, target>> => BreakerStep(b)
    BY StillSeen, QuietSteps
  <1>3. CASE TickStep
    <2>1. CASE TickEnd \/ \E r \in Requests : Skip(r)
      BY <1>2, <2>1 DEF TickEnd, Skip
    <2>2. CASE TickBegin \/ \E r \in Requests : Hold(r)
      <3>1. backend' = Refreshed(backend, NoTarget) /\ UNCHANGED <<pc, target>>
        BY <2>2 DEF TickBegin, Hold
      <3> QED
        BY <1>1, <3>1, ScanSeen, QuietSteps
    <2>3. ASSUME NEW r \in Requests, RejectOverdue(r)
          PROVE  BreakerStep(b)
      BY <1>1, <2>3, HandlerSeen, QuietSteps
    <2>4. ASSUME NEW r \in Requests, Assign(r)
          PROVE  BreakerStep(b)
      BY <1>1, <2>4, AssignSeen, StepsOfABreaker, QuietSteps
    <2> QED
      BY <1>3, <2>1, <2>2, <2>3, <2>4 DEF TickStep
  <1>4. CASE \E x \in Backends : Cooldown(x)
    BY <1>1, <1>4, CooldownSeen
  <1>5. ASSUME NEW r \in Requests,
               Arrive(r) \/ Age(r) \/ TimerFires(r) \/ Resume(r)
        PROVE  BreakerStep(b)
    BY <1>1, <1>5, HandlerSeen, QuietSteps
  <1>6. ASSUME NEW r \in Requests, Proceed(r)
        PROVE  BreakerStep(b)
    BY <1>1, <1>6, FailuresSeen, SuccessesSeen DEF Proceed, UpstreamResult
  <1>7. CASE UNCHANGED vars
    BY <1>2, <1>7 DEF vars
  <1> QED
    BY <1>3, <1>4, <1>5, <1>6, <1>7 DEF Next

\* Whatever handlers, retries and ticks do, every backend's row and the
\* requests at it go through steps of CircuitBreaker only, so what is shown of
\* one breaker holds of each backend of the gateway (client.py, dispatcher.py).
THEOREM EveryBackendIsABreaker ==
  ASSUME MaxAttempts > 0
  PROVE  Spec => EachBackendIsABreaker
  <1>1. Init => \A b \in Backends : Breaker(b)!Init
    <2> SUFFICES ASSUME Init, NEW b \in Backends
                 PROVE  Breaker(b)!Init
      OBVIOUS
    <2>1. RowOf(b) = NewBackend
      BY PlainNew DEF Init, RowOf
    <2>2. WorkAt(b) = [r \in Requests |-> "idle"]
      BY NowhereIsIdle DEF Init, WorkAt
    <2> QED
      BY <2>1, <2>2 DEF Breaker!Init, Breaker!Idle, Breaker!NewBackend, NewBackend
  <1>2. IInv /\ [Next]_vars =>
          [\A b \in Backends : [Breaker(b)!Next]_<<RowOf(b), WorkAt(b)>>]_vars
    BY EveryStepIsABreakerStep DEF BreakerStep
  <1> QED
    BY Invariance, <1>1, <1>2, PTL DEF Spec, EachBackendIsABreaker

=============================================================================
