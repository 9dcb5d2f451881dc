----------------------------- MODULE LineProofs -----------------------------
(***************************************************************************)
(* Theorems about the line of waiting requests: queue, popped batch and    *)
(* held requests, for any requests, queue and batch sizes.                 *)
(***************************************************************************)
EXTENDS GatewayProofs

-----------------------------------------------------------------------------
(***************************************************************************)
(* The inductive invariant.  A request enters the line once, when it is    *)
(* new, so no request stands in it twice; and it leaves the line only when *)
(* it is looked at and its future is, or gets, done.                       *)
(***************************************************************************)
Listed(line, r) == \E i \in 1..Len(line) : line[i] = r

Apart(line) == \A i, j \in 1..Len(line) : line[i] = line[j] => i = j

LineOK ==
  /\ Apart(Line)
  /\ \A r \in Requests : pc[r] = "new" => ~Listed(Line, r)
  /\ \A r \in Requests : Unresolved(r) => Listed(Line, r)

\* What a step does to the line.
Joined(r) == Line' = Append(Line, r)

Left(r) ==
  \E k \in 1..Len(Line) :
    /\ Line[k] = r
    /\ Len(Line') = Len(Line) - 1
    /\ \A i \in 1..Len(Line') : Line'[i] = Line[IF i < k THEN i ELSE i + 1]

\* Nobody becomes new or unresolved again.
NoneComes ==
  \A r \in Requests :
    /\ pc'[r] = "new" => pc[r] = "new"
    /\ Unresolved(r)' => Unresolved(r)

LineStep ==
  \/ Line' = Line /\ NoneComes
  \/ \E r \in Requests :
       /\ Joined(r)
       /\ pc[r] = "new" /\ pc' = [pc EXCEPT ![r] = "waiting"]
  \/ NoneComes /\ \E r \in Requests : Left(r) /\ ~Unresolved(r)'

-----------------------------------------------------------------------------
(* The line and its three parts.                                           *)

LEMMA LineParts ==
  ASSUME NEW h \in Seq(Requests), NEW b \in Seq(Requests), NEW q \in Seq(Requests)
  PROVE  /\ (h \o b) \o q \in Seq(Requests)
         /\ Len((h \o b) \o q) = Len(h) + Len(b) + Len(q)
         /\ \A i \in 1..(Len(h) + Len(b) + Len(q)) :
              ((h \o b) \o q)[i] =
                IF i <= Len(h) THEN h[i]
                ELSE IF i <= Len(h) + Len(b) THEN b[i - Len(h)]
                ELSE q[i - (Len(h) + Len(b))]
  <1>1. /\ h \o b \in Seq(Requests)
        /\ Len(h \o b) = Len(h) + Len(b)
        /\ \A i \in 1..(Len(h) + Len(b)) :
             (h \o b)[i] = IF i <= Len(h) THEN h[i] ELSE b[i - Len(h)]
    BY ConcatProperties
  <1>2. /\ (h \o b) \o q \in Seq(Requests)
        /\ Len((h \o b) \o q) = Len(h \o b) + Len(q)
        /\ \A i \in 1..(Len(h \o b) + Len(q)) :
             ((h \o b) \o q)[i] =
               IF i <= Len(h \o b) THEN (h \o b)[i] ELSE q[i - Len(h \o b)]
    BY <1>1, ConcatProperties
  <1>3. Len(h) \in Nat /\ Len(b) \in Nat /\ Len(q) \in Nat
    BY LenProperties
  <1> QED
    BY <1>1, <1>2, <1>3

LEMMA LineTyped ==
  ASSUME QueueOK
  PROVE  Line \in Seq(Requests) /\ Len(Line) \in Nat
  BY LineParts, LenProperties DEF QueueOK, Line

\* pop_batch moves the head of the queue into the batch.
LEMMA PopKeepsLine ==
  ASSUME NEW q \in Seq(Requests)
  PROVE  Popped(q) \o Rest(q) = q
  <1>1. /\ Len(q) \in Nat /\ Taken(q) \in Nat /\ Taken(q) <= Len(q)
    BY QueueAssumption, LenProperties DEF Taken
  <1>2. SubSeq(q, 1, Taken(q)) \o SubSeq(q, Taken(q) + 1, Len(q))
          = SubSeq(q, 1, Len(q))
    <2>1. /\ 1 \in 1..(Len(q) + 1) /\ Taken(q) \in (1 - 1)..Len(q)
          /\ Len(q) \in Taken(q)..Len(q)
      BY <1>1
    <2> QED
      BY <2>1, ConcatAdjacentSubSeq
  <1> QED
    BY <1>2, SubSeqFull DEF Popped, Rest

\* A request held back keeps its place.
LEMMA HoldKeepsLine ==
  ASSUME NEW h \in Seq(Requests), NEW b \in Seq(Requests), NEW q \in Seq(Requests),
         b # <<>>
  PROVE  (Append(h, Head(b)) \o Tail(b)) \o q = (h \o b) \o q
  <1> DEFINE g == Append(h, Head(b))
             t == Tail(b)
  <1>1. /\ Head(b) \in Requests /\ Head(b) = b[1]
        /\ t \in Seq(Requests) /\ Len(t) = Len(b) - 1
        /\ \A i \in 1..Len(t) : t[i] = b[i + 1]
    BY HeadTailProperties
  <1>2. /\ g \in Seq(Requests) /\ Len(g) = Len(h) + 1
        /\ \A i \in 1..Len(h) : g[i] = h[i]
        /\ g[Len(h) + 1] = b[1]
    BY <1>1, AppendProperties
  <1> HIDE DEF g, t
  <1>3. Len(h) \in Nat /\ Len(b) \in Nat \ {0}
    BY EmptySeq, LenProperties
  <1>4. /\ h \o b \in Seq(Requests) /\ Len(h \o b) = Len(h) + Len(b)
        /\ \A i \in 1..(Len(h) + Len(b)) :
             (h \o b)[i] = IF i <= Len(h) THEN h[i] ELSE b[i - Len(h)]
    BY ConcatProperties
  <1>5. /\ g \o t \in Seq(Requests) /\ Len(g \o t) = Len(g) + Len(t)
        /\ \A i \in 1..(Len(g) + Len(t)) :
             (g \o t)[i] = IF i <= Len(g) THEN g[i] ELSE t[i - Len(g)]
    BY <1>1, <1>2, ConcatProperties
  <1>6. ASSUME NEW i \in 1..(Len(h) + Len(b))
        PROVE  (g \o t)[i] = (h \o b)[i]
    <2>1. CASE i <= Len(h)
      BY <1>1, <1>2, <1>3, <1>4, <1>5, <2>1
    <2>2. CASE i = Len(h) + 1
      BY <1>1, <1>2, <1>3, <1>4, <1>5, <2>2
    <2>3. CASE i > Len(h) + 1
      <3>1. i - Len(g) \in 1..Len(t) /\ i - Len(g) = i - Len(h) - 1
        BY <1>1, <1>2, <1>3, <2>3
      <3>2. t[i - Len(g)] = b[i - Len(h)]
        <4>1. t[i - Len(g)] = b[(i - Len(g)) + 1]
          BY <1>1, <3>1
        <4>2. (i - Len(g)) + 1 = i - Len(h)
          BY <1>2, <1>3
        <4> QED
          BY <4>1, <4>2
      <3> QED
        BY <1>1, <1>2, <1>3, <1>4, <1>5, <2>3, <3>1, <3>2
    <2>4. i <= Len(h) \/ i = Len(h) + 1 \/ i > Len(h) + 1
      BY <1>3
    <2> QED
      BY <2>1, <2>2, <2>3, <2>4
  <1>7. g \o t = h \o b
    <2>1. Len(g \o t) = Len(h \o b)
      BY <1>1, <1>2, <1>3, <1>4, <1>5
    <2> QED
      BY <1>4, <1>5, <1>6, <2>1, SeqEqual
  <1> QED
    BY <1>7 DEF g, t

\* A request the loop is done with leaves the line and nobody else moves.
LEMMA LookLeavesLine ==
  ASSUME QueueOK, NEW r \in Requests, LooksAt(r), UNCHANGED <<queue, held>>
  PROVE  Left(r)
  <1> DEFINE k == Len(held) + 1
  <1>1. /\ batch # <<>> /\ batch' = Tail(batch) /\ r = Head(batch)
        /\ held \in Seq(Requests) /\ batch \in Seq(Requests)
        /\ queue \in Seq(Requests)
    BY DEF LooksAt, QueueOK
  <1>2. /\ Head(batch) = batch[1] /\ batch' \in Seq(Requests)
        /\ Len(batch') = Len(batch) - 1
        /\ \A i \in 1..Len(batch') : batch'[i] = batch[i + 1]
    BY <1>1, HeadTailProperties
  <1>3. /\ Len(held) \in Nat /\ Len(batch) \in Nat \ {0} /\ Len(queue) \in Nat
    BY <1>1, EmptySeq, LenProperties
  <1>4. /\ Len(Line) = Len(held) + Len(batch) + Len(queue)
        /\ \A i \in 1..(Len(held) + Len(batch) + Len(queue)) :
             Line[i] = IF i <= Len(held) THEN held[i]
                       ELSE IF i <= Len(held) + Len(batch)
                              THEN batch[i - Len(held)]
                       ELSE queue[i - (Len(held) + Len(batch))]
    BY <1>1, LineParts DEF Line
  <1>5. /\ Len(Line') = Len(held) + Len(batch') + Len(queue)
        /\ \A i \in 1..(Len(held) + Len(batch') + Len(queue)) :
             Line'[i] = IF i <= Len(held) THEN held[i]
                        ELSE IF i <= Len(held) + Len(batch')
                               THEN batch'[i - Len(held)]
                        ELSE queue[i - (Len(held) + Len(batch'))]
    <2>1. Line' = (held \o batch') \o queue
      BY DEF Line
    <2> QED
      BY <1>1, <1>2, <2>1, LineParts
  <1>6. k \in 1..Len(Line) /\ Line[k] = r /\ Len(Line') = Len(Line) - 1
    <2>1. /\ k \in 1..(Len(held) + Len(batch) + Len(queue))
          /\ ~(k <= Len(held)) /\ k <= Len(held) + Len(batch)
          /\ k - Len(held) = 1
      BY <1>3
    <2>2. Line[k] = r
      BY <1>1, <1>2, <1>4, <2>1
    <2>3. Len(Line') = Len(Line) - 1
      BY <1>2, <1>3, <1>4, <1>5
    <2> QED
      BY <1>4, <2>1, <2>2, <2>3
  <1>7. ASSUME NEW i \in 1..Len(Line')
        PROVE  Line'[i] = Line[IF i < k THEN i ELSE i + 1]
    <2>1. CASE i <= Len(held)
      BY <1>2, <1>3, <1>4, <1>5, <2>1
    <2>2. CASE i > Len(held) /\ i <= Len(held) + Len(batch')
      <3>1. i - Len(held) \in 1..Len(batch')
        BY <1>2, <1>3, <2>2
      <3>2. batch'[i - Len(held)] = batch[(i - Len(held)) + 1]
        BY <1>2, <3>1
      <3>3. (i - Len(held)) + 1 = (i + 1) - Len(held)
        BY <1>3
      <3>4. Line'[i] = batch'[i - Len(held)]
        <4>1. /\ i \in 1..(Len(held) + Len(batch') + Len(queue))
              /\ ~(i <= Len(held)) /\ i <= Len(held) + Len(batch')
          BY <1>5, <1>3, <2>2
        <4> QED
          BY <1>5, <4>1
      <3>5. /\ i + 1 \in 1..(Len(held) + Len(batch) + Len(queue))
            /\ ~(i + 1 <= Len(held)) /\ i + 1 <= Len(held) + Len(batch)
            /\ ~(i < k)
        BY <1>2, <1>3, <2>2
      <3>6. Line[i + 1] = batch[(i + 1) - Len(held)]
        BY <1>4, <3>5
      <3> QED
        BY <3>2, <3>3, <3>4, <3>5, <3>6
    <2>3. CASE i > Len(held) + Len(batch')
      <3>1. i - (Len(held) + Len(batch')) = (i + 1) - (Len(held) + Len(batch))
        BY <1>2, <1>3
      <3>2. i \in 1..(Len(held) + Len(batch') + Len(queue))
        BY <1>5
      <3>3. /\ ~(i <= Len(held)) /\ ~(i <= Len(held) + Len(batch'))
            /\ i + 1 \in 1..(Len(held) + Len(batch) + Len(queue))
            /\ ~(i + 1 <= Len(held)) /\ ~(i + 1 <= Len(held) + Len(batch))
            /\ ~(i < k)
        BY <1>2, <1>3, <2>3, <3>2
      <3>4. Line'[i] = queue[i - (Len(held) + Len(batch'))]
        BY <1>5, <3>2, <3>3
      <3>5. Line[i + 1] = queue[(i + 1) - (Len(held) + Len(batch))]
        BY <1>4, <3>3
      <3> QED
        BY <3>1, <3>3, <3>4, <3>5
    <2> QED
      BY <1>2, <1>3, <2>1, <2>2, <2>3
  <1> QED
    BY <1>6, <1>7 DEF Left

-----------------------------------------------------------------------------
(* Every step is one of the three.                                         *)

\* A handler that starts its proxy call, or ends an attempt, is not in the
\* line, and stays out of it.
LEMMA NeverBack ==
  ASSUME HandlersOK, NEW r \in Requests,
         \E p \in Places \ {"new", "waiting", "overdue"} :
           pc' = [pc EXCEPT ![r] = p]
  PROVE  NoneComes /\ ~Unresolved(r)'
  BY DEF HandlersOK, NoneComes, Unresolved

LEMMA ReplyPlaces ==
  /\ Replies \subseteq Places \ {"new", "waiting", "overdue"}
  /\ Outstanding \subseteq Places \ {"new", "waiting", "overdue"}
  /\ {"timedout", "rejected", "dispatched"}
       \subseteq Places \ {"new", "waiting", "overdue"}
  BY DEF Replies, Outstanding, Places, Awaiting

LEMMA BeginOutOfLine ==
  ASSUME HandlersOK, NEW r \in Requests, NEW t, BeginProxy(r, t)
  PROVE  NoneComes
  <1>1. {"retry_exhausted", "fallback_unavailable"} \subseteq Replies
    BY DEF Replies
  <1>2. "upstream" \in Outstanding
    BY DEF Outstanding
  <1> QED
    BY <1>1, <1>2, ReplyPlaces, NeverBack
       DEF BeginProxy, NoAttempt, FallbackUnavailable, StartAttempt, Answer

LEMMA DivertOutOfLine ==
  ASSUME HandlersOK, NEW r \in Requests, NEW reply \in Replies, Divert(r, reply)
  PROVE  NoneComes
  BY BeginOutOfLine, ReplyPlaces, NeverBack DEF Divert, Answer

LEMMA ProceedOutOfLine ==
  ASSUME GoodRows(backend), HandlersOK, NEW r \in Requests, UpstreamResult(r)
  PROVE  NoneComes
  <1>1. AttemptEnds(r)
    BY UpstreamEffect
  <1>2. CASE Answered(r)
    BY <1>2, ReplyPlaces, NeverBack DEF Answered, Answer
  <1>3. CASE HeadersSeen(r)
    <2>1. "headers" \in Outstanding
      BY DEF Outstanding
    <2> QED
      BY <1>3, <2>1, ReplyPlaces, NeverBack DEF HeadersSeen
  <1>4. CASE Retried(r)
    BY <1>4 DEF Retried, NoneComes, Unresolved
  <1> QED
    BY <1>1, <1>2, <1>3, <1>4 DEF AttemptEnds

LEMMA HandlerLineStep ==
  ASSUME IInv, NEW r \in Requests,
         Arrive(r) \/ Age(r) \/ TimerFires(r) \/ Resume(r) \/ Proceed(r)
  PROVE  LineStep
  <1>1. GoodRows(backend) /\ HandlersOK /\ QueueOK
    BY DEF IInv
  <1>2. UNCHANGED schedulerVars => Line' = Line
    BY DEF schedulerVars, Line
  <1>3. {"queue_full", "queue_age", "no_backend"} \subseteq Replies
    BY DEF Replies
  <1>4. CASE Arrive(r)
    <2>1. CASE HasRoom(queue)
      <3>1. /\ ~ticking /\ pc[r] = "new" /\ queue' = Append(queue, r)
            /\ pc' = [pc EXCEPT ![r] = "waiting"]
            /\ UNCHANGED <<ticking, batch, held>>
        BY <1>4, <2>1 DEF Arrive, LoopFree, Enqueue, Become
      <3>2. /\ batch = <<>> /\ held = <<>> /\ queue \in Seq(Requests)
            /\ queue' \in Seq(Requests)
        BY <1>1, <3>1, AppendProperties DEF QueueOK
      <3>3. Line = queue /\ Line' = queue'
        <4>1. /\ <<>> \in Seq(Requests)
              /\ <<>> \o <<>> = <<>>
          BY EmptySeq, ConcatEmptySeq
        <4>2. <<>> \o queue = queue /\ <<>> \o queue' = queue'
          BY <3>2, ConcatEmptySeq
        <4> QED
          BY <3>1, <3>2, <4>1, <4>2 DEF Line
      <3> QED
        BY <3>1, <3>3 DEF LineStep, Joined
    <2>2. CASE ~HasRoom(queue)
      <3>1. Divert(r, "queue_full") /\ UNCHANGED schedulerVars
        BY <1>4, <2>2 DEF Arrive, schedulerVars
      <3> QED
        BY <1>1, <1>2, <1>3, <3>1, DivertOutOfLine DEF LineStep
    <2> QED
      BY <2>1, <2>2
  <1>5. CASE Age(r)
    <2>1. /\ pc[r] = "waiting" /\ pc' = [pc EXCEPT ![r] = "overdue"]
          /\ UNCHANGED schedulerVars
      BY <1>5 DEF Age, Become
    <2>2. NoneComes
      BY <1>1, <2>1 DEF NoneComes, Unresolved, HandlersOK
    <2> QED
      BY <1>2, <2>1, <2>2 DEF LineStep
  <1>6. CASE TimerFires(r)
    BY <1>1, <1>2, <1>6, ReplyPlaces, NeverBack
       DEF TimerFires, Become, LineStep
  <1>7. CASE Resume(r)
    <2>1. NoneComes
      BY <1>1, <1>3, <1>7, BeginOutOfLine, DivertOutOfLine DEF Resume
    <2> QED
      BY <1>2, <1>7, <2>1 DEF Resume, LineStep
  <1>8. CASE Proceed(r)
    BY <1>1, <1>2, <1>8, ProceedOutOfLine DEF Proceed, LineStep
  <1> QED
    BY <1>4, <1>5, <1>6, <1>7, <1>8

LEMMA TickLineStep ==
  ASSUME IInv, TickStep
  PROVE  LineStep
  <1>1. /\ HandlersOK /\ QueueOK
        /\ queue \in Seq(Requests) /\ batch \in Seq(Requests)
        /\ held \in Seq(Requests)
    BY DEF IInv, QueueOK
  <1>2. UNCHANGED pc => NoneComes
    BY DEF NoneComes, Unresolved
  <1>3. CASE TickBegin
    <2>1. /\ held = <<>> /\ held' = <<>> /\ batch = <<>> /\ UNCHANGED pc
          /\ batch' = Popped(queue) /\ queue' = Rest(queue)
      BY <1>1, <1>3 DEF TickBegin, LoopFree, QueueOK
    <2>2. Popped(queue) \in Seq(Requests)
      BY <1>1, PopSplits
    <2>3. Line' = queue
      BY <1>1, <2>1, <2>2, ConcatEmptySeq, PopKeepsLine DEF Line
    <2>4. Line = queue
      BY <1>1, <2>1, ConcatEmptySeq DEF Line
    <2> QED
      BY <1>2, <2>1, <2>3, <2>4 DEF LineStep
  <1>4. CASE TickEnd
    <2>1. /\ batch = <<>> /\ batch' = <<>> /\ held' = <<>> /\ UNCHANGED pc
          /\ queue' = held \o queue
      BY <1>4 DEF TickEnd, RequeueFront
    <2>2. held \o queue \in Seq(Requests) /\ <<>> \in Seq(Requests)
      BY <1>1, ConcatProperties, EmptySeq
    <2>3. /\ <<>> \o <<>> = <<>> /\ <<>> \o (held \o queue) = held \o queue
          /\ held \o <<>> = held
      BY <1>1, <2>2, ConcatEmptySeq
    <2>4. Line' = held \o queue /\ Line = held \o queue
      BY <2>1, <2>3 DEF Line
    <2> QED
      BY <1>2, <2>1, <2>4 DEF LineStep
  <1>5. ASSUME NEW r \in Requests, Skip(r)
        PROVE  LineStep
    <2>1. /\ LooksAt(r) /\ ~Unresolved(r) /\ UNCHANGED <<queue, held, pc>>
      BY <1>5 DEF Skip
    <2>2. ~Unresolved(r)'
      BY <2>1 DEF Unresolved
    <2> QED
      BY <1>1, <1>2, <2>1, <2>2, LookLeavesLine DEF LineStep
  <1>6. ASSUME NEW r \in Requests, RejectOverdue(r) \/ Assign(r)
        PROVE  LineStep
    <2>1. /\ LooksAt(r) /\ UNCHANGED <<queue, held>>
          /\ \E p \in {"rejected", "dispatched"} : pc' = [pc EXCEPT ![r] = p]
      BY <1>6 DEF RejectOverdue, Assign, Become
    <2>2. NoneComes /\ ~Unresolved(r)'
      BY <1>1, <2>1, ReplyPlaces, NeverBack
    <2> QED
      BY <1>1, <2>1, <2>2, LookLeavesLine DEF LineStep
  <1>7. ASSUME NEW r \in Requests, Hold(r)
        PROVE  LineStep
    <2>1. /\ batch # <<>> /\ batch' = Tail(batch) /\ held' = Append(held, Head(batch))
          /\ UNCHANGED <<queue, pc>>
      BY <1>7 DEF Hold, LooksAt
    <2>2. Line' = Line
      BY <1>1, <2>1, HoldKeepsLine DEF Line
    <2> QED
      BY <1>2, <2>1, <2>2 DEF LineStep
  <1> QED
    BY <1>3, <1>4, <1>5, <1>6, <1>7 DEF TickStep

LEMMA EveryStepIsALineStep ==
  ASSUME IInv, [Next]_vars
  PROVE  LineStep
  <1>1. CASE \E b \in Backends : Cooldown(b)
    BY <1>1 DEF Cooldown, schedulerVars, LineStep, Line, NoneComes, Unresolved
  <1>2. CASE UNCHANGED vars
    BY <1>2 DEF vars, LineStep, Line, NoneComes, Unresolved
  <1> QED
    BY <1>1, <1>2, TickLineStep, HandlerLineStep DEF Next

-----------------------------------------------------------------------------
(* The invariant.                                                          *)

LEMMA JoinKeepsLineOK ==
  ASSUME IInv, LineOK, NEW r \in Requests, Joined(r),
         pc[r] = "new", pc' = [pc EXCEPT ![r] = "waiting"]
  PROVE  LineOK'
  <1>1. /\ Line \in Seq(Requests) /\ Len(Line) \in Nat
        /\ pc \in [Requests -> Places] /\ ~Listed(Line, r)
    BY LineTyped DEF IInv, HandlersOK, LineOK
  <1>2. /\ Len(Line') = Len(Line) + 1
        /\ \A i \in 1..Len(Line) : Line'[i] = Line[i]
        /\ Line'[Len(Line) + 1] = r
    BY <1>1, AppendProperties DEF Joined
  <1>3. \A x \in Requests : Listed(Line', x) <=> Listed(Line, x) \/ x = r
    BY <1>1, <1>2 DEF Listed
  <1>4. Apart(Line')
    BY <1>1, <1>2 DEF LineOK, Apart, Listed
  <1>5. \A x \in Requests : pc'[x] = IF x = r THEN "waiting" ELSE pc[x]
    BY <1>1
  <1> QED
    BY <1>3, <1>4, <1>5 DEF LineOK, Unresolved

LEMMA LeaveKeepsLineOK ==
  ASSUME IInv, LineOK, NoneComes, NEW r \in Requests, Left(r), ~Unresolved(r)'
  PROVE  LineOK'
  <1>1. Line \in Seq(Requests) /\ Len(Line) \in Nat
    BY LineTyped DEF IInv
  <1>2. PICK k \in 1..Len(Line) :
          /\ Line[k] = r
          /\ Len(Line') = Len(Line) - 1
          /\ \A i \in 1..Len(Line') : Line'[i] = Line[IF i < k THEN i ELSE i + 1]
    BY DEF Left
  <1>3. Apart(Line')
    <2> SUFFICES ASSUME NEW i \in 1..Len(Line'), NEW j \in 1..Len(Line'),
                        Line'[i] = Line'[j]
                 PROVE  i = j
      BY DEF Apart
    <2> DEFINE ii == IF i < k THEN i ELSE i + 1
               jj == IF j < k THEN j ELSE j + 1
    <2>1. ii \in 1..Len(Line) /\ jj \in 1..Len(Line) /\ Line[ii] = Line[jj]
      BY <1>1, <1>2
    <2>2. ii = jj
      BY <2>1 DEF LineOK, Apart
    <2> QED
      BY <1>1, <1>2, <2>2
  <1>4. \A x \in Requests : Listed(Line', x) => Listed(Line, x)
    <2> SUFFICES ASSUME NEW x \in Requests, NEW i \in 1..Len(Line'), Line'[i] = x
                 PROVE  Listed(Line, x)
      BY DEF Listed
    <2> DEFINE ii == IF i < k THEN i ELSE i + 1
    <2>1. ii \in 1..Len(Line) /\ Line[ii] = x
      BY <1>1, <1>2
    <2> QED
      BY <2>1 DEF Listed
  <1>5. \A x \in Requests \ {r} : Listed(Line, x) => Listed(Line', x)
    <2> SUFFICES ASSUME NEW x \in Requests \ {r},
                        NEW i \in 1..Len(Line), Line[i] = x
                 PROVE  Listed(Line', x)
      BY DEF Listed
    <2> DEFINE j == IF i < k THEN i ELSE i - 1
    <2>1. i # k
      BY <1>2
    <2>2. j \in 1..Len(Line') /\ (IF j < k THEN j ELSE j + 1) = i
      BY <1>1, <1>2, <2>1
    <2>3. Line'[j] = Line[IF j < k THEN j ELSE j + 1]
      BY <1>2, <2>2
    <2>4. Line'[j] = x
      BY <2>2, <2>3
    <2> QED
      BY <2>2, <2>4 DEF Listed
  <1> QED
    BY <1>3, <1>4, <1>5 DEF LineOK, NoneComes

LEMMA LineOKStep ==
  ASSUME IInv, LineOK, LineStep
  PROVE  LineOK'
  <1>1. CASE Line' = Line /\ NoneComes
    BY <1>1 DEF LineOK, NoneComes
  <1> QED
    BY <1>1, JoinKeepsLineOK, LeaveKeepsLineOK DEF LineStep

LEMMA LineInvariance == Spec => [](IInv /\ LineOK)
  <1>1. Init => LineOK
    <2> SUFFICES ASSUME Init
                 PROVE  LineOK
      OBVIOUS
    <2>1. Len(Line) = 0
      <3>1. held = <<>> /\ batch = <<>> /\ queue = <<>>
        BY DEF Init
      <3>2. /\ <<>> \in Seq(Requests) /\ Len(<<>>) = 0
            /\ <<>> \o <<>> = <<>>
        BY EmptySeq, ConcatEmptySeq
      <3> QED
        BY <3>1, <3>2 DEF Line
    <2> QED
      BY <2>1 DEF LineOK, Apart, Listed, Init, Unresolved
  <1>2. IInv /\ LineOK /\ [Next]_vars => (IInv /\ LineOK)'
    BY StepOK, EveryStepIsALineStep, LineOKStep
  <1> QED
    BY InitOK, <1>1, <1>2, PTL DEF Spec

-----------------------------------------------------------------------------
(***************************************************************************)
(* Who overtakes.  While a request is held back no backend is eligible but *)
(* one that a cooldown has made so since: the tick tested them all, no     *)
(* handler runs before it ends, and its own dispatches only occupy them.   *)
(***************************************************************************)
Probing(b) == MaybeTransitionFromOpen(backend[b]).circuit = "half_open"

HeldBack == held # <<>> => \A b \in Eligible(backend, NoTarget) : Probing(b)

\* A circuit is refreshed once.
LEMMA RefreshedOnce ==
  ASSUME NEW s \in BackendStates
  PROVE  MaybeTransitionFromOpen(MaybeTransitionFromOpen(s))
           = MaybeTransitionFromOpen(s)
  BY DEF MaybeTransitionFromOpen, BackendStates

\* A row that the eligibility test has refreshed passes it as before.
LEMMA StillEligible ==
  ASSUME GoodRows(backend), NEW b \in Backends, b \in Eligible(backend', NoTarget),
         backend'[b] = MaybeTransitionFromOpen(backend[b])
  PROVE  b \in Eligible(backend, NoTarget) /\ (Probing(b)' <=> Probing(b))
  <1> DEFINE s == MaybeTransitionFromOpen(backend[b])
  <1>1. MaybeTransitionFromOpen(s) = s
    BY RefreshedOnce DEF GoodRows
  <1>2. backend'[b] = s
    OBVIOUS
  <1>3. IsHealthyForSchedule(s, HardLimit[b], b \in Drained)
    BY <1>2 DEF Eligible
  <1>4. IsHealthyForSchedule(backend[b], HardLimit[b], b \in Drained)
    <2>1. /\ b \notin Drained /\ s.circuit # "open"
          /\ s.inflight < HardLimit[b] /\ s.errors <= ErrorCap
          /\ HalfOpenAllowDispatch(s)
      <3> HIDE DEF s
      <3> QED
        BY <1>1, <1>3 DEF IsHealthyForSchedule
    <2> QED
      BY <2>1 DEF IsHealthyForSchedule
  <1>5. Probing(b)' <=> Probing(b)
    BY <1>1, <1>2 DEF Probing
  <1> QED
    BY <1>4, <1>5, ProxyAssumption DEF Eligible

\* A dispatch of the tick refreshes all rows and charges one.
LEMMA AssignedRow ==
  ASSUME GoodRows(backend), NEW r \in Requests, NEW b \in Eligible(backend, NoTarget),
         backend' = Charged(backend, NoTarget, b, r)
  PROVE  /\ b \in Backends
         /\ \A x \in Backends \ {b} :
              backend'[x] = MaybeTransitionFromOpen(backend[x])
         /\ Probing(b) => backend'[b].circuit = "half_open" /\ Probing(b)'
  <1> DEFINE fresh == Refreshed(backend, NoTarget)
             s     == MaybeTransitionFromOpen(backend[b])
  <1>1. b \in Backends /\ backend[b] \in BackendStates
    BY DEF Eligible, GoodRows
  <1>2. /\ fresh \in [Backends -> BackendStates]
        /\ \A x \in Backends : fresh[x] = MaybeTransitionFromOpen(backend[x])
    <2>1. GoodRows(fresh)
      BY RefreshedOK
    <2> QED
      BY <2>1, ProxyAssumption DEF GoodRows, Refreshed
  <1>3. backend' = [fresh EXCEPT ![b] = Occupy(@, r \in Large)]
    BY DEF Charged
  <1> HIDE DEF fresh
  <1>4. /\ backend'[b] = Occupy(s, r \in Large)
        /\ \A x \in Backends \ {b} : backend'[x] = fresh[x]
    BY <1>1, <1>2, <1>3
  <1>5. s \in BackendStates
    BY <1>1, <1>2
  <1>6. Occupy(s, r \in Large).circuit = s.circuit
    <2> HIDE DEF s
    <2> QED
      BY <1>5 DEF Occupy, OnRequestStart, BackendStates
  <1>7. Probing(b) => backend'[b].circuit = "half_open"
    BY <1>4, <1>6 DEF Probing
  <1>8. backend'[b].circuit = "half_open" => Probing(b)'
    BY DEF Probing, MaybeTransitionFromOpen
  <1> QED
    BY <1>1, <1>2, <1>4, <1>7, <1>8

\* What a tick may do between two looks at its batch.
LEMMA TickKeepsHeldBack ==
  ASSUME IInv, HeldBack, TickStep
  PROVE  HeldBack'
  <1>1. GoodRows(backend) /\ QueueOK
    BY DEF IInv
  <1>2. CASE TickBegin \/ TickEnd
    BY <1>1, <1>2 DEF TickBegin, TickEnd, LoopFree, QueueOK, HeldBack
  <1>3. CASE \E r \in Requests : Skip(r) \/ RejectOverdue(r)
    BY <1>3 DEF Skip, RejectOverdue, HeldBack, Probing
  <1>4. ASSUME NEW r \in Requests, Hold(r)
        PROVE  HeldBack'
    <2> SUFFICES ASSUME NEW b \in Eligible(backend', NoTarget)
                 PROVE  FALSE
      BY DEF HeldBack
    <2>1. b \in Backends
      BY DEF Eligible
    <2>2. backend'[b] = MaybeTransitionFromOpen(backend[b])
      BY <1>4, <2>1, ProxyAssumption DEF Hold, Refreshed
    <2> QED
      BY <1>1, <1>4, <2>1, <2>2, StillEligible DEF Hold
  <1>5. ASSUME NEW r \in Requests, Assign(r)
        PROVE  HeldBack'
    <2> SUFFICES ASSUME held # <<>>, NEW x \in Eligible(backend', NoTarget)
                 PROVE  Probing(x)'
      BY <1>5 DEF Assign, HeldBack
    <2>1. PICK b \in Eligible(backend, NoTarget) :
            backend' = Charged(backend, NoTarget, b, r)
      BY <1>5 DEF Assign
    <2>2. Probing(b)
      BY <2>1 DEF HeldBack
    <2>3. CASE x = b
      BY <1>1, <2>1, <2>2, <2>3, AssignedRow
    <2>4. CASE x # b
      <3>1. x \in Backends /\ backend'[x] = MaybeTransitionFromOpen(backend[x])
        BY <1>1, <2>1, <2>4, AssignedRow DEF Eligible
      <3> QED
        BY <1>1, <3>1, StillEligible DEF HeldBack
    <2> QED
      BY <2>3, <2>4
  <1> QED
    BY <1>2, <1>3, <1>4, <1>5 DEF TickStep

\* The clock: the backend whose cooldown ends is one that will be probed.
LEMMA CooldownKeepsHeldBack ==
  ASSUME IInv, HeldBack, NEW b \in Backends, Cooldown(b)
  PROVE  HeldBack'
  <1> SUFFICES ASSUME held # <<>>, NEW x \in Eligible(backend', NoTarget)
               PROVE  Probing(x)'
    BY DEF Cooldown, schedulerVars, HeldBack
  <1>1. /\ backend \in [Backends -> BackendStates] /\ FieldsAgree(backend[b])
        /\ backend' = [backend EXCEPT ![b].timer = "elapsed"]
        /\ backend[b].timer = "running" /\ x \in Backends
    BY DEF IInv, GoodRows, Cooldown, Eligible
  <1>2. CASE x = b
    <2>1. backend[b] \in BackendStates /\ backend[b].circuit = "open"
      BY <1>1 DEF FieldsAgree, BackendStates, Circuits
    <2>2. backend'[b] = [backend[b] EXCEPT !.timer = "elapsed"]
      BY <1>1
    <2>3. backend'[b].circuit = "open" /\ backend'[b].timer = "elapsed"
      BY <2>1, <2>2 DEF BackendStates
    <2>4. backend'[b] \in BackendStates
      BY <2>1, <2>2 DEF BackendStates, Timers
    <2> QED
      BY <1>2, <2>3, <2>4 DEF Probing, MaybeTransitionFromOpen, BackendStates
  <1>3. CASE x # b
    <2>1. backend'[x] = backend[x]
      BY <1>1, <1>3
    <2>2. x \in Eligible(backend, NoTarget)
      BY <2>1 DEF Eligible
    <2> QED
      BY <2>1, <2>2 DEF HeldBack, Probing
  <1> QED
    BY <1>2, <1>3

LEMMA HeldBackStep ==
  ASSUME IInv, HeldBack, [Next]_vars
  PROVE  HeldBack'
  <1>1. CASE \E r \in Requests :
               Arrive(r) \/ Age(r) \/ TimerFires(r) \/ Resume(r) \/ Proceed(r)
    <2>1. ~ticking /\ held' = held
      BY <1>1 DEF Arrive, Age, TimerFires, Resume, Proceed, LoopFree, schedulerVars
    <2> QED
      BY <2>1 DEF IInv, QueueOK, HeldBack
  <1>2. CASE UNCHANGED vars
    BY <1>2 DEF vars, HeldBack, Probing
  <1> QED
    BY <1>1, <1>2, TickKeepsHeldBack, CooldownKeepsHeldBack DEF Next

\* A waiting request is dispatched by the tick that looks at it and by nothing
\* else.
LEMMA OnlyTicksDispatch ==
  ASSUME IInv, [Next]_vars, NEW r \in Requests,
         pc[r] = "waiting", pc'[r] = "dispatched"
  PROVE  Assign(r)
  <1>1. pc \in [Requests -> Places]
    BY DEF IInv, HandlersOK
  <1>2. ASSUME NEW x \in Requests, pc[x] # "waiting" \/ x # r,
               \E p : pc' = [pc EXCEPT ![x] = p]
        PROVE  FALSE
    BY <1>1, <1>2
  <1>3. CASE UNCHANGED pc
    BY <1>3
  <1>4. ASSUME NEW x \in Requests, Assign(x)
        PROVE  Assign(r)
    <2>1. x = r
      BY <1>1, <1>4 DEF Assign, Become
    <2> QED
      BY <1>4, <2>1
  <1>5. ASSUME NEW x \in Requests, RejectOverdue(x) \/ Age(x) \/ TimerFires(x)
        PROVE  FALSE
    BY <1>1, <1>5 DEF RejectOverdue, Age, TimerFires, Become
  <1>6. ASSUME NEW x \in Requests, Arrive(x)
        PROVE  FALSE
    BY <1>1, <1>6 DEF Arrive, Become, Divert, Answer, BeginProxy, NoAttempt,
       FallbackUnavailable, StartAttempt
  <1>7. ASSUME NEW x \in Requests, Resume(x)
        PROVE  FALSE
    BY <1>1, <1>7 DEF Resume, Divert, Answer, BeginProxy, NoAttempt,
       FallbackUnavailable, StartAttempt
  <1>8. ASSUME NEW x \in Requests, Proceed(x)
        PROVE  FALSE
    <2>1. UpstreamResult(x)
      BY <1>8 DEF Proceed
    <2>2. pc[x] \in {"upstream", "headers"}
      BY <2>1 DEF UpstreamResult, Succeed, FailStatus, FailWith, TransportFailure,
           StreamHeaders, StreamStatus, StreamUnreachable, StreamFinish,
           Crash, AbandonStream
    <2> QED
      BY <1>1, <2>1, <2>2, ResultPlaces
  <1> QED
    BY <1>3, <1>4, <1>5, <1>6, <1>7, <1>8
       DEF Next, TickStep, TickBegin, TickEnd, Skip, Hold, Cooldown, vars

-----------------------------------------------------------------------------
(* The theorems.                                                           *)

\* A request whose future is pending is in exactly one place of the line
\* (dispatcher.py, admission_queue.py).
THEOREM AlwaysInExactlyOnePlace == Spec => []ExactlyOnePlace
  <1>1. IInv /\ LineOK => ExactlyOnePlace
    <2> SUFFICES ASSUME IInv, LineOK, NEW r \in Requests, Unresolved(r)
                 PROVE  Cardinality({i \in 1..Len(Line) : Line[i] = r}) = 1
      BY DEF ExactlyOnePlace
    <2>1. PICK k \in 1..Len(Line) : Line[k] = r
      BY DEF LineOK, Listed
    <2>2. {i \in 1..Len(Line) : Line[i] = r} = {k}
      BY <2>1 DEF LineOK, Apart
    <2> QED
      BY <2>2, FS_Singleton
  <1> QED
    BY LineInvariance, <1>1, PTL

\* Whatever is popped, held back and requeued, requests that stay in the line
\* keep their order (admission_queue.py).
THEOREM OrderAlwaysKept == Spec => OrderKept
  <1> DEFINE Step ==
        \A r, s \in Requests : Before(Line, r, s) => ~Before(Line', s, r)
  <1>1. IInv /\ LineOK /\ [Next]_vars => [Step]_vars
    <2> SUFFICES ASSUME IInv, LineOK, [Next]_vars,
                        NEW r \in Requests, NEW s \in Requests,
                        Before(Line, r, s), Before(Line', s, r)
                 PROVE  FALSE
      OBVIOUS
    <2>1. /\ Line \in Seq(Requests) /\ Len(Line) \in Nat /\ Apart(Line)
      BY LineTyped DEF IInv, LineOK
    <2>2. PICK i \in 1..Len(Line), j \in 1..Len(Line) :
            i < j /\ Line[i] = r /\ Line[j] = s
      BY DEF Before
    <2>3. PICK m \in 1..Len(Line'), n \in 1..Len(Line') :
            m < n /\ Line'[m] = s /\ Line'[n] = r
      BY DEF Before
    <2>4. CASE Line' = Line
      BY <2>1, <2>2, <2>3, <2>4 DEF Apart
    <2>5. CASE \E x \in Requests : Joined(x) /\ pc[x] = "new"
      <3>1. PICK x \in Requests : Joined(x) /\ pc[x] = "new"
        BY <2>5
      <3>2. /\ Len(Line') = Len(Line) + 1
            /\ \A a \in 1..Len(Line) : Line'[a] = Line[a]
            /\ Line'[Len(Line) + 1] = x
        BY <2>1, <3>1, AppendProperties DEF Joined
      <3>3. x # r /\ x # s
        BY <2>2, <3>1 DEF LineOK, Listed
      <3>4. m \in 1..Len(Line) /\ n \in 1..Len(Line)
        BY <2>1, <2>3, <3>2, <3>3
      <3>5. Line[m] = s /\ Line[n] = r
        BY <2>3, <3>2, <3>4
      <3>6. m = j /\ n = i
        BY <2>1, <2>2, <3>4, <3>5 DEF Apart
      <3> QED
        BY <2>2, <2>3, <3>4, <3>6
    <2>6. CASE \E x \in Requests : Left(x)
      <3>1. PICK x \in Requests, k \in 1..Len(Line) :
              /\ Len(Line') = Len(Line) - 1
              /\ \A a \in 1..Len(Line') :
                   Line'[a] = Line[IF a < k THEN a ELSE a + 1]
        BY <2>6 DEF Left
      <3> DEFINE mm == IF m < k THEN m ELSE m + 1
                 nn == IF n < k THEN n ELSE n + 1
      <3>2. /\ mm \in 1..Len(Line) /\ nn \in 1..Len(Line) /\ mm < nn
            /\ Line[mm] = s /\ Line[nn] = r
        BY <2>1, <2>3, <3>1
      <3>3. mm = j /\ nn = i
        BY <2>1, <2>2, <3>2 DEF Apart
      <3> QED
        BY <2>2, <3>2, <3>3
    <2> QED
      BY <2>4, <2>5, <2>6, EveryStepIsALineStep DEF LineStep
  <1> QED
    BY LineInvariance, <1>1, PTL DEF Spec, OrderKept

\* Within a tick a request passes an older one that was held back only onto a
\* backend whose cooldown has run out since, as its probe (dispatcher.py).
THEOREM OvertakenOnlyByProbes == Spec => OvertakenOnlyByProbe
  <1> DEFINE Step ==
        \A r \in Requests :
          pc[r] = "waiting" /\ pc'[r] = "dispatched" /\ held # <<>> =>
            backend'[target'[r]].circuit = "half_open"
  <1>1. Init => HeldBack
    BY DEF Init, HeldBack
  <1>2. IInv /\ HeldBack /\ [Next]_vars => (IInv /\ HeldBack)'
    BY StepOK, HeldBackStep
  <1>3. IInv /\ HeldBack /\ [Next]_vars => [Step]_vars
    <2> SUFFICES ASSUME IInv, HeldBack, [Next]_vars, NEW r \in Requests,
                        pc[r] = "waiting", pc'[r] = "dispatched", held # <<>>
                 PROVE  backend'[target'[r]].circuit = "half_open"
      OBVIOUS
    <2>1. Assign(r)
      BY OnlyTicksDispatch
    <2>2. PICK b \in Eligible(backend, NoTarget) :
            /\ backend' = Charged(backend, NoTarget, b, r)
            /\ target' = [target EXCEPT ![r] = b]
      BY <2>1 DEF Assign
    <2>3. target'[r] = b
      BY <2>2 DEF IInv, HandlersOK
    <2>4. Probing(b)
      BY <2>2 DEF HeldBack
    <2> QED
      BY <2>2, <2>3, <2>4, AssignedRow DEF IInv
  <1> QED
    BY InitOK, <1>1, <1>2, <1>3, PTL DEF Spec, OvertakenOnlyByProbe

=============================================================================
