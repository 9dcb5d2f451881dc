----------------------------- MODULE LoadProofs -----------------------------
(***************************************************************************)
(* The ledger: how the gateway's counts of a backend relate to the         *)
(* requests that are at it.  Each half of the relation holds under the one *)
(* condition that keeps the code path which breaks it from being taken;    *)
(* without the condition, leaks and retries in vain make up the            *)
(* difference.  Then what the counters and gauges of /metrics say of       *)
(* rejections, attempts, retries and waiting requests.                     *)
(***************************************************************************)
EXTENDS GatewayProofs, Metrics, Gauges

\* The requests at b.
At(f, b) == {r \in Requests : f[r] = b}

-----------------------------------------------------------------------------
(* Counting.                                                               *)

LEMMA CountsAreNat ==
  ASSUME NEW f, NEW b, NEW S
  PROVE  /\ IsFiniteSet(At(f, b) \cap S)
         /\ Cardinality(At(f, b) \cap S) \in Nat
  <1>1. IsFiniteSet(At(f, b))
    BY ProxyAssumption, FS_Subset DEF At
  <1>2. IsFiniteSet(At(f, b) \cap S)
    BY <1>1, FS_Subset
  <1> QED
    BY <1>2, FS_CardinalityType

-----------------------------------------------------------------------------
(* One step.                                                               *)

In(f, b) == Cardinality(At(f, b) \cap Requests)

InLarge(f, b) == Cardinality(At(f, b) \cap Large)

\* In a step for r the requests at b stay as many as they are, or r is one
\* less or one more.
SameCrowd(b) ==
  In(target', b) = In(target, b) /\ InLarge(target', b) = InLarge(target, b)

OneLess(r, b) ==
  /\ In(target', b) = In(target, b) - 1
  /\ InLarge(target', b) =
       IF r \in Large THEN InLarge(target, b) - 1 ELSE InLarge(target, b)

OneMore(r, b) ==
  /\ In(target', b) = In(target, b) + 1
  /\ InLarge(target', b) =
       IF r \in Large THEN InLarge(target, b) + 1 ELSE InLarge(target, b)

LEMMA CrowdCounts ==
  ASSUME NEW f, NEW b
  PROVE  In(f, b) \in Nat /\ InLarge(f, b) \in Nat
  BY CountsAreNat DEF In, InLarge

\* r goes from where it was to x.
LEMMA CrowdMoves ==
  ASSUME target \in [Requests -> Targets], NEW r \in Requests, NEW x \in Targets,
         target' = [target EXCEPT ![r] = x], NEW b
  PROVE  /\ b = target[r] /\ b # x => OneLess(r, b)
         /\ b # target[r] /\ b = x => OneMore(r, b)
         /\ (b = target[r] <=> b = x) => SameCrowd(b)
  <1> DEFINE before(S) == Cardinality(At(target, b) \cap S)
             after(S)  == Cardinality(At(target', b) \cap S)
  <1>1. ASSUME NEW S
        PROVE  /\ r \in S /\ b = target[r] /\ b # x => after(S) = before(S) - 1
               /\ r \in S /\ b # target[r] /\ b = x => after(S) = before(S) + 1
               /\ r \notin S \/ (b = target[r] <=> b = x) => after(S) = before(S)
    <2> DEFINE B == At(target, b) \cap S
               A == At(target', b) \cap S
    <2>1. IsFiniteSet(B)
      BY CountsAreNat
    <2>2. ASSUME r \in S, b = target[r], b # x
          PROVE  Cardinality(A) = Cardinality(B) - 1
      <3>1. r \in B /\ A = B \ {r}
        BY <2>2 DEF At
      <3> HIDE DEF A, B
      <3> QED
        BY <2>1, <3>1, FS_RemoveElement
    <2>3. ASSUME r \in S, b # target[r], b = x
          PROVE  Cardinality(A) = Cardinality(B) + 1
      <3>1. r \notin B /\ A = B \cup {r}
        BY <2>3 DEF At
      <3> HIDE DEF A, B
      <3> QED
        BY <2>1, <3>1, FS_AddElement
    <2>4. ASSUME r \notin S \/ (b = target[r] <=> b = x)
          PROVE  Cardinality(A) = Cardinality(B)
      <3>1. A = B
        BY <2>4 DEF At
      <3> QED
        BY <3>1
    <2>5. before(S) = Cardinality(B) /\ after(S) = Cardinality(A)
      OBVIOUS
    <2> HIDE DEF before, after, A, B
    <2> QED
      BY <2>2, <2>3, <2>4, <2>5
  <1>2. /\ In(target, b) = before(Requests)
        /\ In(target', b) = after(Requests)
        /\ InLarge(target, b) = before(Large)
        /\ InLarge(target', b) = after(Large)
    BY DEF In, InLarge
  <1> HIDE DEF before, after
  <1> QED
    BY <1>1, <1>2 DEF OneLess, OneMore, SameCrowd

\* How the row of b and the requests at b change together in a step for r.
OnceBooked(r, b) ==
  \/ SameLoad(backend[b], backend'[b]) /\ SameCrowd(b)
  \/ Lowered(backend[b], backend'[b], r \in Large) /\ OneLess(r, b)
  \/ Raised(backend[b], backend'[b], r \in Large) /\ OneMore(r, b)
  \/ /\ SameLoad(backend[b], backend'[b]) /\ OneLess(r, b)
     /\ Escaped(r) /\ Outcomes \cap Leaks # {}

TwiceBooked(r, b) ==
  /\ \E s \in BackendStates :
       /\ Lowered(backend[b], s, r \in Large)
       /\ Lowered(s, backend'[b], r \in Large)
  /\ OneLess(r, b)

BookStep(r, b) ==
  \/ OnceBooked(r, b)
  \/ TwiceBooked(r, b) /\ 1 <= attempts[r] /\ attempts[r] < MaxAttempts

LEMMA Booked ==
  ASSUME target \in [Requests -> Targets], NEW r \in Requests, NEW b \in Backends
  PROVE  /\ SingleRelease(r) => OnceBooked(r, b)
         /\ LeavesTwice(r) => OnceBooked(r, b) \/ TwiceBooked(r, b)
         /\ LoadStep(r) => BookStep(r, b)
  <1>1. /\ NoTarget \in Targets /\ Fallback \in Targets
        /\ Backends \subseteq Targets
        /\ b # NoTarget /\ b # Fallback
    BY ProxyAssumption DEF Targets
  <1>2. ASSUME Keeps
        PROVE  OnceBooked(r, b)
    BY <1>2 DEF Keeps, OnceBooked, SameCrowd
  <1>3. ASSUME Leaves(r)
        PROVE  OnceBooked(r, b)
    <2>1. target' = [target EXCEPT ![r] = NoTarget]
      BY <1>3 DEF Leaves
    <2>2. CASE b = target[r]
      <3>1. OneLess(r, b)
        BY <1>1, <2>1, <2>2, CrowdMoves
      <3> QED
        BY <1>3, <2>2, <3>1 DEF Leaves, OnceBooked
    <2>3. CASE b # target[r]
      <3>1. SameCrowd(b)
        BY <1>1, <2>1, <2>3, CrowdMoves
      <3> QED
        BY <1>3, <2>3, <3>1 DEF Leaves, OnceBooked
    <2> QED
      BY <2>2, <2>3
  <1>4. ASSUME LeavesTwice(r)
        PROVE  OnceBooked(r, b) \/ TwiceBooked(r, b)
    <2>1. target' = [target EXCEPT ![r] = NoTarget]
      BY <1>4 DEF LeavesTwice
    <2>2. CASE b = target[r]
      <3>1. OneLess(r, b)
        BY <1>1, <2>1, <2>2, CrowdMoves
      <3> QED
        BY <1>4, <2>2, <3>1 DEF LeavesTwice, TwiceBooked, OnceBooked
    <2>3. CASE b # target[r]
      <3>1. SameCrowd(b)
        BY <1>1, <2>1, <2>3, CrowdMoves
      <3> QED
        BY <1>4, <2>3, <3>1 DEF LeavesTwice, TwiceBooked, OnceBooked
    <2> QED
      BY <2>2, <2>3
  <1>5. ASSUME LeavesUnreleased(r) /\ Escaped(r) /\ Outcomes \cap Leaks # {}
        PROVE  OnceBooked(r, b)
    <2>1. /\ target' = [target EXCEPT ![r] = NoTarget]
          /\ SameLoad(backend[b], backend'[b])
      BY <1>5 DEF LeavesUnreleased
    <2>2. OneLess(r, b) \/ SameCrowd(b)
      BY <1>1, <2>1, CrowdMoves
    <2> QED
      BY <1>5, <2>1, <2>2 DEF OnceBooked
  <1>6. ASSUME target[r] \notin Backends,
               \E x \in Backends \cup {Fallback} : Joins(r, x)
        PROVE  OnceBooked(r, b)
    <2>1. PICK x \in Backends \cup {Fallback} : Joins(r, x)
      BY <1>6
    <2>2. target' = [target EXCEPT ![r] = x] /\ x \in Targets /\ b # target[r]
      BY <1>1, <1>6, <2>1 DEF Joins
    <2>3. CASE b = x
      <3>1. OneMore(r, b)
        BY <2>2, <2>3, CrowdMoves
      <3> QED
        BY <2>1, <2>3, <3>1 DEF Joins, OnceBooked
    <2>4. CASE b # x
      <3>1. SameCrowd(b)
        BY <2>2, <2>4, CrowdMoves
      <3> QED
        BY <2>1, <2>4, <3>1 DEF Joins, OnceBooked
    <2> QED
      BY <2>3, <2>4
  <1>7. ASSUME \E x \in Backends : Moves(r, x)
        PROVE  OnceBooked(r, b)
    <2>1. PICK x \in Backends : Moves(r, x)
      BY <1>7
    <2>2. /\ target' = [target EXCEPT ![r] = x] /\ x \in Targets
          /\ x # target[r]
      BY <1>1, <2>1 DEF Moves
    <2>3. CASE b = target[r]
      <3>1. OneLess(r, b)
        BY <2>2, <2>3, CrowdMoves
      <3> QED
        BY <2>1, <2>3, <3>1 DEF Moves, OnceBooked
    <2>4. CASE b = x
      <3>1. OneMore(r, b)
        BY <2>2, <2>4, CrowdMoves
      <3> QED
        BY <2>1, <2>4, <3>1 DEF Moves, OnceBooked
    <2>5. CASE b # x /\ b # target[r]
      <3>1. SameCrowd(b)
        BY <2>2, <2>5, CrowdMoves
      <3> QED
        BY <2>1, <2>5, <3>1 DEF Moves, OnceBooked
    <2> QED
      BY <2>3, <2>4, <2>5
  <1> QED
    BY <1>2, <1>3, <1>4, <1>5, <1>6, <1>7
       DEF LoadStep, SingleRelease, BookStep

-----------------------------------------------------------------------------
(* The two halves of the ledger.                                           *)

NoPhantom ==
  \A b \in Backends : /\ backend[b].inflight <= In(target, b)
                      /\ backend[b].large <= InLarge(target, b)

Covered ==
  \A b \in Backends : /\ In(target, b) <= backend[b].inflight
                      /\ InLarge(target, b) <= backend[b].large

LEMMA ServingCounted ==
  ASSUME NEW b
  PROVE  /\ Cardinality(Serving(b)) = In(target, b)
         /\ Cardinality(Serving(b) \cap Large) = InLarge(target, b)
  <1>1. At(target, b) = Serving(b) /\ Serving(b) \cap Requests = Serving(b)
    BY DEF At, Serving
  <1> QED
    BY <1>1 DEF In, InLarge

LEMMA CountsInRow ==
  ASSUME GoodRows(backend), NEW b \in Backends
  PROVE  backend[b].inflight \in Nat /\ backend[b].large \in Nat
  BY DEF GoodRows, BackendStates

\* At the start nobody is anywhere, and every count is zero.
LEMMA LedgerInit == Init => NoPhantom /\ Covered
  <1> SUFFICES ASSUME Init, NEW b \in Backends
               PROVE  /\ backend[b].inflight = 0 /\ In(target, b) = 0
                      /\ backend[b].large = 0 /\ InLarge(target, b) = 0
    BY DEF NoPhantom, Covered
  <1>1. backend[b].inflight = 0 /\ backend[b].large = 0
    BY DEF Init, NewBackend
  <1>2. At(target, b) = {}
    BY ProxyAssumption DEF Init, At
  <1>3. In(target, b) = 0 /\ InLarge(target, b) = 0
    BY <1>2, FS_EmptySet DEF In, InLarge
  <1> QED
    BY <1>1, <1>3

\* One release too many, or none where one was due.
LEMMA NoPhantomStep ==
  ASSUME IInv, [Next]_vars, NoPhantom, Outcomes \cap Leaks = {}
  PROVE  NoPhantom'
  <1> SUFFICES ASSUME NEW b \in Backends
               PROVE  /\ backend'[b].inflight <= In(target', b)
                      /\ backend'[b].large <= InLarge(target', b)
    BY DEF NoPhantom
  <1>1. /\ GoodRows(backend) /\ GoodRows(backend')
        /\ target \in [Requests -> Targets]
    BY StepOK DEF IInv, HandlersOK
  <1>2. /\ backend[b].inflight \in Nat /\ backend[b].large \in Nat
        /\ backend'[b].inflight \in Nat /\ backend'[b].large \in Nat
        /\ In(target, b) \in Nat /\ InLarge(target, b) \in Nat
        /\ In(target', b) \in Nat /\ InLarge(target', b) \in Nat
        /\ backend[b].inflight <= In(target, b)
        /\ backend[b].large <= InLarge(target, b)
    BY <1>1, CountsInRow, CrowdCounts DEF NoPhantom, GoodRows, BackendStates
  <1>3. CASE Idle
    BY <1>2, <1>3 DEF Idle, HandlersRest, SameLoad
  <1>4. CASE \E r \in Requests : RequestStep(r)
    <2>1. PICK r \in Requests : BookStep(r, b)
      BY <1>1, <1>4, Booked DEF RequestStep
    <2>2. CASE SameLoad(backend[b], backend'[b]) /\ SameCrowd(b)
      BY <1>2, <2>2 DEF SameLoad, SameCrowd
    <2>3. CASE Lowered(backend[b], backend'[b], r \in Large) /\ OneLess(r, b)
      BY <1>2, <2>3 DEF Lowered, OneLess
    <2>4. CASE Raised(backend[b], backend'[b], r \in Large) /\ OneMore(r, b)
      BY <1>2, <2>4 DEF Raised, OneMore
    <2>5. CASE TwiceBooked(r, b)
      <3>1. PICK s \in BackendStates : /\ Lowered(backend[b], s, r \in Large)
                                       /\ Lowered(s, backend'[b], r \in Large)
        BY <2>5 DEF TwiceBooked
      <3>2. s.inflight \in Nat /\ s.large \in Nat
        BY DEF BackendStates
      <3> QED
        BY <1>2, <2>5, <3>1, <3>2 DEF Lowered, OneLess, TwiceBooked
    <2> QED
      BY <2>1, <2>2, <2>3, <2>4, <2>5 DEF BookStep, OnceBooked
  <1> QED
    BY <1>3, <1>4, StepOK

\* Without a second attempt there is no second release.
LEMMA CoveredStep ==
  ASSUME IInv, [Next]_vars, Covered, MaxAttempts <= 1
  PROVE  Covered'
  <1> SUFFICES ASSUME NEW b \in Backends
               PROVE  /\ In(target', b) <= backend'[b].inflight
                      /\ InLarge(target', b) <= backend'[b].large
    BY DEF Covered
  <1>1. /\ GoodRows(backend) /\ GoodRows(backend')
        /\ target \in [Requests -> Targets]
    BY StepOK DEF IInv, HandlersOK
  <1>2. /\ backend[b].inflight \in Nat /\ backend[b].large \in Nat
        /\ backend'[b].inflight \in Nat /\ backend'[b].large \in Nat
        /\ In(target, b) \in Nat /\ InLarge(target, b) \in Nat
        /\ In(target', b) \in Nat /\ InLarge(target', b) \in Nat
        /\ In(target, b) <= backend[b].inflight
        /\ InLarge(target, b) <= backend[b].large
    BY <1>1, CountsInRow, CrowdCounts DEF Covered, GoodRows, BackendStates
  <1>3. CASE Idle
    BY <1>2, <1>3 DEF Idle, HandlersRest, SameLoad
  <1>4. CASE \E r \in Requests : RequestStep(r)
    <2>1. PICK r \in Requests : BookStep(r, b)
      BY <1>1, <1>4, Booked DEF RequestStep
    <2>2. CASE SameLoad(backend[b], backend'[b]) /\ SameCrowd(b)
      BY <1>2, <2>2 DEF SameLoad, SameCrowd
    <2>3. CASE Lowered(backend[b], backend'[b], r \in Large) /\ OneLess(r, b)
      BY <1>2, <2>3 DEF Lowered, OneLess
    <2>4. CASE Raised(backend[b], backend'[b], r \in Large) /\ OneMore(r, b)
      BY <1>2, <2>4 DEF Raised, OneMore
    <2>5. CASE SameLoad(backend[b], backend'[b]) /\ OneLess(r, b)
      BY <1>2, <2>5 DEF SameLoad, OneLess
    <2>6. ~(1 <= attempts[r] /\ attempts[r] < MaxAttempts)
      <3>1. attempts[r] \in Nat
        BY ProxyAssumption DEF IInv, HandlersOK
      <3> QED
        BY <3>1, ProxyAssumption
    <2> QED
      BY <2>1, <2>2, <2>3, <2>4, <2>5, <2>6 DEF BookStep, OnceBooked
  <1> QED
    BY <1>3, <1>4, StepOK

\* When every dispatch ends in _release_dispatch, no count of a backend holds a
\* request that is gone: capacity is never lost, however often a request is
\* retried and although a retry may release twice.
THEOREM NeverPhantomLoad ==
  ASSUME Outcomes \cap Leaks = {}
  PROVE  Spec => []NoPhantomLoad
  <1>1. IInv /\ NoPhantom /\ [Next]_vars => NoPhantom'
    BY NoPhantomStep
  <1>2. NoPhantom => NoPhantomLoad
    BY ServingCounted DEF NoPhantom, NoPhantomLoad
  <1> QED
    BY LedgerInit, Invariance, <1>1, <1>2, PTL DEF Spec

\* Without retries every request at a backend is in its count.
THEOREM AlwaysCounted ==
  ASSUME MaxAttempts <= 1
  PROVE  Spec => []EveryDispatchCounted
  <1>1. IInv /\ Covered /\ [Next]_vars => Covered'
    BY CoveredStep
  <1>2. Covered => EveryDispatchCounted
    BY ServingCounted DEF Covered, EveryDispatchCounted
  <1> QED
    BY LedgerInit, Invariance, <1>1, <1>2, PTL DEF Spec

\* So hard_limit then bounds the requests that are at a backend.
THEOREM LoadAlwaysWithinHardLimit ==
  ASSUME MaxAttempts <= 1
  PROVE  Spec => []LoadWithinHardLimit
  <1>1. IInv /\ Covered /\ [Next]_vars => Covered'
    BY CoveredStep
  <1>2. IInv /\ Covered => LoadWithinHardLimit
    <2> SUFFICES ASSUME IInv, Covered, NEW b \in Backends
                 PROVE  Cardinality(Serving(b)) <= HardLimit[b]
      BY DEF LoadWithinHardLimit
    <2>1. /\ In(target, b) \in Nat /\ backend[b].inflight \in Nat
          /\ HardLimit[b] \in Nat
          /\ In(target, b) <= backend[b].inflight
          /\ backend[b].inflight <= HardLimit[b]
      BY CrowdCounts, CountsInRow, ProxyAssumption DEF IInv, GoodRows, Covered
    <2>2. Cardinality(Serving(b)) = In(target, b)
      BY ServingCounted
    <2> QED
      BY <2>1, <2>2
  <1> QED
    BY LedgerInit, Invariance, <1>1, <1>2, PTL DEF Spec

-----------------------------------------------------------------------------
(* Phantoms.                                                               *)

LeakedIn(S) == Cardinality(Leaked \cap S)

\* Who is leaked stays so, and who escapes is added.
LEMMA LeakedGrows ==
  ASSUME pc \in [Requests -> Places], NEW r \in Requests, HandlerStep(r), NEW S
  PROVE  /\ LeakedIn(S) \in Nat /\ LeakedIn(S)' \in Nat
         /\ LeakedIn(S) <= LeakedIn(S)'
         /\ Escaped(r) /\ r \in S => LeakedIn(S)' = LeakedIn(S) + 1
  <1> DEFINE L == Leaked \cap S
             M == Leaked' \cap S
  <1>1. IsFiniteSet(L) /\ IsFiniteSet(M)
    BY ProxyAssumption, FS_Subset DEF Leaked
  <1>2. /\ pc[r] \notin {"crashed", "abandoned"}
        /\ \A x \in Requests \ {r} : pc'[x] = pc[x]
    BY DEF HandlerStep, Replies
  <1>3. L \subseteq M
    BY <1>2 DEF Leaked
  <1>4. Escaped(r) /\ r \in S => r \notin L /\ M = L \cup {r}
    BY <1>2 DEF Escaped, Answer, Leaked
  <1>5. LeakedIn(S) = Cardinality(L) /\ LeakedIn(S)' = Cardinality(M)
    BY DEF LeakedIn
  <1> HIDE DEF L, M
  <1>6. Cardinality(L) \in Nat /\ Cardinality(M) \in Nat
    BY <1>1, FS_CardinalityType
  <1>7. Cardinality(L) <= Cardinality(M)
    BY <1>1, <1>3, FS_Subset
  <1>8. Escaped(r) /\ r \in S => Cardinality(M) = Cardinality(L) + 1
    BY <1>1, <1>4, FS_AddElement
  <1> QED
    BY <1>5, <1>6, <1>7, <1>8

\* A count is above the requests by the escaped ones at most.
PhantomsOwed ==
  \A b \in Backends :
    /\ backend[b].inflight <= In(target, b) + LeakedIn(Requests)
    /\ backend[b].large <= InLarge(target, b) + LeakedIn(Large)

LEMMA PhantomsStep ==
  ASSUME IInv, [Next]_vars, PhantomsOwed
  PROVE  PhantomsOwed'
  <1> DEFINE k == LeakedIn(Requests)
             l == LeakedIn(Large)
  <1>1. /\ GoodRows(backend) /\ GoodRows(backend')
        /\ target \in [Requests -> Targets] /\ pc \in [Requests -> Places]
    BY StepOK DEF IInv, HandlersOK
  <1>2. ASSUME NEW b \in Backends
        PROVE  /\ backend[b].inflight \in Nat /\ backend[b].large \in Nat
               /\ backend'[b].inflight \in Nat /\ backend'[b].large \in Nat
               /\ In(target, b) \in Nat /\ InLarge(target, b) \in Nat
               /\ In(target', b) \in Nat /\ InLarge(target', b) \in Nat
               /\ backend[b].inflight <= In(target, b) + k
               /\ backend[b].large <= InLarge(target, b) + l
    BY <1>1, CountsInRow, CrowdCounts DEF PhantomsOwed, GoodRows, BackendStates
  <1>3. CASE Idle
    <2>1. k' = k /\ l' = l
      BY <1>3 DEF Idle, HandlersRest, LeakedIn, Leaked
    <2> HIDE DEF k, l
    <2>2. ASSUME NEW b \in Backends
          PROVE  /\ backend'[b].inflight <= In(target', b) + k'
                 /\ backend'[b].large <= InLarge(target', b) + l'
      BY <1>2, <1>3, <2>1 DEF Idle, HandlersRest, SameLoad
    <2> QED
      BY <2>2 DEF PhantomsOwed, k, l
  <1>4. CASE \E r \in Requests : RequestStep(r)
    <2>1. PICK r \in Requests : RequestStep(r)
      BY <1>4
    <2>2. /\ k \in Nat /\ k' \in Nat /\ k <= k'
          /\ l \in Nat /\ l' \in Nat /\ l <= l'
          /\ Escaped(r) => k' = k + 1
          /\ Escaped(r) /\ r \in Large => l' = l + 1
      BY <1>1, <2>1, LeakedGrows DEF RequestStep
    <2> HIDE DEF k, l
    <2>3. ASSUME NEW b \in Backends
          PROVE  /\ backend'[b].inflight <= In(target', b) + k'
                 /\ backend'[b].large <= InLarge(target', b) + l'
      <3>1. BookStep(r, b)
        BY <1>1, <2>1, Booked DEF RequestStep
      <3>2. CASE SameLoad(backend[b], backend'[b]) /\ SameCrowd(b)
        BY <1>2, <2>2, <3>2 DEF SameLoad, SameCrowd
      <3>3. CASE Lowered(backend[b], backend'[b], r \in Large) /\ OneLess(r, b)
        BY <1>2, <2>2, <3>3 DEF Lowered, OneLess
      <3>4. CASE Raised(backend[b], backend'[b], r \in Large) /\ OneMore(r, b)
        BY <1>2, <2>2, <3>4 DEF Raised, OneMore
      <3>5. CASE TwiceBooked(r, b)
        <4>1. PICK s \in BackendStates : /\ Lowered(backend[b], s, r \in Large)
                                         /\ Lowered(s, backend'[b], r \in Large)
          BY <3>5 DEF TwiceBooked
        <4>2. s.inflight \in Nat /\ s.large \in Nat
          BY DEF BackendStates
        <4> QED
          BY <1>2, <2>2, <3>5, <4>1, <4>2 DEF Lowered, OneLess, TwiceBooked
      <3>6. CASE /\ SameLoad(backend[b], backend'[b]) /\ OneLess(r, b)
                 /\ Escaped(r)
        BY <1>2, <2>2, <3>6 DEF SameLoad, OneLess
      <3> QED
        BY <3>1, <3>2, <3>3, <3>4, <3>5, <3>6 DEF BookStep, OnceBooked
    <2> QED
      BY <2>3 DEF PhantomsOwed, k, l
  <1> QED
    BY <1>3, <1>4, StepOK

\* Whatever the outcomes: a backend loses no more capacity for good than there
\* are handlers that ended in an exception or with a stream nobody read.
THEOREM PhantomsAlwaysLeaks == Spec => []PhantomsAreLeaks
  <1>1. Init => PhantomsOwed
    <2> SUFFICES ASSUME Init
                 PROVE  PhantomsOwed
      OBVIOUS
    <2>1. NoPhantom
      BY LedgerInit
    <2>2. ASSUME NEW S
          PROVE  LeakedIn(S) = 0
      <3>1. Leaked \cap S = {}
        BY DEF Init, Leaked
      <3> QED
        BY <3>1, FS_EmptySet DEF LeakedIn
    <2>3. ASSUME NEW b \in Backends
          PROVE  In(target, b) + 0 = In(target, b) /\ InLarge(target, b) + 0 = InLarge(target, b)
      BY CrowdCounts
    <2> QED
      BY <2>1, <2>2, <2>3 DEF NoPhantom, PhantomsOwed
  <1>2. IInv /\ PhantomsOwed /\ [Next]_vars => PhantomsOwed'
    BY PhantomsStep
  <1>3. PhantomsOwed => PhantomsAreLeaks
    <2>1. Leaked \cap Requests = Leaked
      BY DEF Leaked
    <2> QED
      BY <2>1, ServingCounted DEF PhantomsOwed, PhantomsAreLeaks, LeakedIn
  <1> QED
    BY <1>1, <1>2, <1>3, Invariance, PTL DEF Spec

-----------------------------------------------------------------------------
(***************************************************************************)
(* The counters.  Only the rejected, the answers of the admission and      *)
(* their reasons matter here: Refused holds the places they concern.       *)
(***************************************************************************)
Refused == Reasons \cup {"rejected"}

\* A step that moves no handler into or out of those places.
Quiet ==
  /\ count'.rejections = count.rejections
  /\ \/ UNCHANGED pc
     \/ \E r \in Requests, p \in Places \ Refused :
          pc[r] \notin Refused /\ pc' = [pc EXCEPT ![r] = p]

\* A step that moves r from one place to another and counts reason.
Refuses(r, from, to, reason) ==
  /\ pc[r] = from
  /\ pc' = [pc EXCEPT ![r] = to]
  /\ count'.rejections = [count.rejections EXCEPT ![reason] = @ + 1]

\* A step by which a request that a tick rejected gets away to the fallback.
Rescues(r) ==
  /\ FallbackEnabled
  /\ pc[r] = "rejected"
  /\ \E p \in Places \ Refused : pc' = [pc EXCEPT ![r] = p]
  /\ count'.rejections = count.rejections

RefusalStep ==
  \/ Quiet
  \/ \E r \in Requests :
       \/ Refuses(r, "new", "queue_full", "queue_full")
       \/ Refuses(r, "timedout", "queue_age", "queue_age")
       \/ Refuses(r, "rejected", "no_backend", "no_backend")
       \/ Refuses(r, "overdue", "rejected", "queue_age")
       \/ Rescues(r)

\* A number of handlers changes with the moves over its border only.
LEMMA HandlersMove ==
  ASSUME pc \in [Requests -> Places], NEW r \in Requests, NEW p \in Places,
         pc' = [pc EXCEPT ![r] = p], NEW S
  PROVE  /\ HandlersIn(S) \in Nat /\ HandlersIn(S)' \in Nat
         /\ (p \in S <=> pc[r] \in S) => HandlersIn(S)' = HandlersIn(S)
         /\ p \in S /\ pc[r] \notin S => HandlersIn(S)' = HandlersIn(S) + 1
         /\ p \notin S /\ pc[r] \in S => HandlersIn(S) = HandlersIn(S)' + 1
  <1> DEFINE Old == {x \in Requests : pc[x] \in S}
             New == {x \in Requests : pc'[x] \in S}
  <1>1. IsFiniteSet(Old) /\ IsFiniteSet(New)
    BY ProxyAssumption, FS_Subset
  <1>2. Cardinality(Old) \in Nat /\ Cardinality(New) \in Nat
    BY <1>1, FS_CardinalityType
  <1>3. HandlersIn(S) = Cardinality(Old) /\ HandlersIn(S)' = Cardinality(New)
    BY DEF HandlersIn
  <1>4. pc'[r] = p /\ \A x \in Requests : x # r => pc'[x] = pc[x]
    OBVIOUS
  <1>5. (p \in S <=> pc[r] \in S) => New = Old
    BY <1>4
  <1>6. p \in S /\ pc[r] \notin S => New = Old \cup {r} /\ r \notin Old
    BY <1>4
  <1>7. p \notin S /\ pc[r] \in S => Old = New \cup {r} /\ r \notin New
    BY <1>4
  <1>8. /\ r \notin Old => Cardinality(Old \cup {r}) = Cardinality(Old) + 1
        /\ r \notin New => Cardinality(New \cup {r}) = Cardinality(New) + 1
    BY <1>1, FS_AddElement
  <1> HIDE DEF Old, New
  <1> QED
    BY <1>2, <1>3, <1>5, <1>6, <1>7, <1>8

LEMMA RefusalStepKeeps ==
  ASSUME pc \in [Requests -> Places], count \in Counters, count' \in Counters,
         RejectionsAccounted, RefusalStep
  PROVE  RejectionsAccounted'
  <1> DEFINE full == {"queue_full"}
             none == {"no_backend"}
             aged == {"queue_age", "no_backend", "rejected"}
  <1>1. /\ Reasons = {"queue_full", "queue_age", "no_backend"}
        /\ Refused = Reasons \cup {"rejected"}
        /\ count.rejections \in [Reasons -> Nat]
        /\ full \subseteq Refused /\ none \subseteq Refused /\ aged \subseteq Refused
    BY DEF Reasons, Refused, Counters
  <1>2. {"queue_full", "queue_age", "no_backend", "rejected"} \subseteq Places
    BY DEF Places, Replies, Awaiting
  <1>3. CASE Quiet
    <2>1. ASSUME NEW S \in SUBSET Refused
          PROVE  HandlersIn(S)' = HandlersIn(S)
      <3>1. CASE UNCHANGED pc
        BY <3>1 DEF HandlersIn
      <3>2. ASSUME NEW r \in Requests, NEW p \in Places \ Refused,
                   pc[r] \notin Refused, pc' = [pc EXCEPT ![r] = p]
            PROVE  HandlersIn(S)' = HandlersIn(S)
        BY <3>2, HandlersMove
      <3> QED
        BY <1>3, <3>1, <3>2 DEF Quiet
    <2> QED
      BY <1>1, <1>3, <2>1 DEF Quiet, RejectionsAccounted
  <1>4. ASSUME NEW r \in Requests, Refuses(r, "new", "queue_full", "queue_full")
        PROVE  RejectionsAccounted'
    <2>1. /\ pc' = [pc EXCEPT ![r] = "queue_full"] /\ pc[r] = "new"
          /\ "queue_full" \in Places
      BY <1>2, <1>4 DEF Refuses
    <2>2. HandlersIn(full)' = HandlersIn(full) + 1
      BY <2>1, HandlersMove
    <2>3. HandlersIn(none)' = HandlersIn(none)
      BY <2>1, HandlersMove
    <2>4. HandlersIn(aged)' = HandlersIn(aged)
      BY <2>1, HandlersMove
    <2> QED
      BY <1>1, <1>4, <2>2, <2>3, <2>4 DEF Refuses, RejectionsAccounted
  <1>5. ASSUME NEW r \in Requests, Refuses(r, "timedout", "queue_age", "queue_age")
        PROVE  RejectionsAccounted'
    <2>1. /\ pc' = [pc EXCEPT ![r] = "queue_age"] /\ pc[r] = "timedout"
          /\ "queue_age" \in Places
      BY <1>2, <1>5 DEF Refuses
    <2>2. HandlersIn(full)' = HandlersIn(full)
      BY <2>1, HandlersMove
    <2>3. HandlersIn(none)' = HandlersIn(none)
      BY <2>1, HandlersMove
    <2>4. HandlersIn(aged)' = HandlersIn(aged) + 1 /\ HandlersIn(aged) \in Nat
      BY <2>1, HandlersMove
    <2> QED
      BY <1>1, <1>5, <2>2, <2>3, <2>4 DEF Refuses, RejectionsAccounted
  <1>6. ASSUME NEW r \in Requests, Refuses(r, "rejected", "no_backend", "no_backend")
        PROVE  RejectionsAccounted'
    <2>1. /\ pc' = [pc EXCEPT ![r] = "no_backend"] /\ pc[r] = "rejected"
          /\ "no_backend" \in Places
      BY <1>2, <1>6 DEF Refuses
    <2>2. HandlersIn(full)' = HandlersIn(full)
      BY <2>1, HandlersMove
    <2>3. HandlersIn(none)' = HandlersIn(none) + 1
      BY <2>1, HandlersMove
    <2>4. HandlersIn(aged)' = HandlersIn(aged)
      BY <2>1, HandlersMove
    <2> QED
      BY <1>1, <1>6, <2>2, <2>3, <2>4 DEF Refuses, RejectionsAccounted
  <1>7. ASSUME NEW r \in Requests, Refuses(r, "overdue", "rejected", "queue_age")
        PROVE  RejectionsAccounted'
    <2>1. /\ pc' = [pc EXCEPT ![r] = "rejected"] /\ pc[r] = "overdue"
          /\ "rejected" \in Places
      BY <1>2, <1>7 DEF Refuses
    <2>2. HandlersIn(full)' = HandlersIn(full)
      BY <2>1, HandlersMove
    <2>3. HandlersIn(none)' = HandlersIn(none)
      BY <2>1, HandlersMove
    <2>4. HandlersIn(aged)' = HandlersIn(aged) + 1 /\ HandlersIn(aged) \in Nat
      BY <2>1, HandlersMove
    <2> QED
      BY <1>1, <1>7, <2>2, <2>3, <2>4 DEF Refuses, RejectionsAccounted
  <1>8. ASSUME NEW r \in Requests, Rescues(r)
        PROVE  RejectionsAccounted'
    <2>1. PICK p \in Places \ Refused : pc' = [pc EXCEPT ![r] = p]
      BY <1>8 DEF Rescues
    <2>2. /\ HandlersIn(full)' = HandlersIn(full)
          /\ HandlersIn(none)' = HandlersIn(none)
          /\ HandlersIn(aged) = HandlersIn(aged)' + 1
          /\ HandlersIn(aged)' \in Nat
      BY <1>1, <1>8, <2>1, HandlersMove DEF Rescues
    <2> QED
      BY <1>1, <1>8, <2>2 DEF Rescues, RejectionsAccounted
  <1> QED
    BY <1>3, <1>4, <1>5, <1>6, <1>7, <1>8 DEF RefusalStep

\* What is added to the counters keeps their types.
LEMMA CountersKept ==
  ASSUME count \in Counters
  PROVE  /\ \A reason \in Reasons :
              /\ Rejected(count, reason) \in Counters
              /\ Diverted(count, reason) \in Counters
              /\ Diverted([count EXCEPT !.requests = @ + 1], reason) \in Counters
              /\ Rejected(count, reason).rejections =
                   [count.rejections EXCEPT ![reason] = @ + 1]
         /\ [count EXCEPT !.requests = @ + 1] \in Counters
         /\ [count EXCEPT !.latency = @ + 1] \in Counters
         /\ \A t : /\ Erred(count, t) \in Counters
                   /\ [count EXCEPT !.dispatch[t] = @ + 1] \in Counters
         /\ \A r \in Requests, retryable \in BOOLEAN :
              /\ Failed(r, retryable) \in Counters
              /\ Failed(r, retryable).rejections = count.rejections
  <1>1. ASSUME NEW c \in Counters, NEW reason \in Reasons
        PROVE  Rejected(c, reason) \in Counters /\ Diverted(c, reason) \in Counters
    BY <1>1 DEF Counters, Rejected, Diverted
  <1>2. [count EXCEPT !.requests = @ + 1] \in Counters
    BY DEF Counters
  <1>3. [count EXCEPT !.latency = @ + 1] \in Counters
    BY DEF Counters
  <1>4. ASSUME NEW c \in Counters, NEW t
        PROVE  /\ Erred(c, t) \in Counters
               /\ [c EXCEPT !.dispatch[t] = @ + 1] \in Counters
    BY <1>4 DEF Counters, Erred
  <1>5. \A reason \in Reasons :
          Rejected(count, reason).rejections =
            [count.rejections EXCEPT ![reason] = @ + 1]
    BY DEF Counters, Rejected
  <1>6. ASSUME NEW r \in Requests, NEW retryable \in BOOLEAN
        PROVE  /\ Failed(r, retryable) \in Counters
               /\ Failed(r, retryable).rejections = count.rejections
    <2> DEFINE erred == Erred(count, target[r])
               retried == IF retryable /\ attempts[r] < MaxAttempts
                            THEN [erred EXCEPT !.retries = @ + 1]
                            ELSE erred
    <2>1. erred \in Counters /\ erred.rejections = count.rejections
      BY <1>4 DEF Counters, Erred
    <2>2. retried \in Counters /\ retried.rejections = count.rejections
      <3> HIDE DEF erred
      <3> QED
        BY <2>1 DEF Counters
    <2>3. Failed(r, retryable) =
            IF attempts'[r] = attempts[r]
              THEN retried
              ELSE [retried EXCEPT !.dispatch[target'[r]] = @ + 1]
      BY DEF Failed
    <2> HIDE DEF retried
    <2>4. /\ [retried EXCEPT !.dispatch[target'[r]] = @ + 1] \in Counters
          /\ [retried EXCEPT !.dispatch[target'[r]] = @ + 1].rejections
               = count.rejections
      BY <1>4, <2>2 DEF Counters
    <2> QED
      BY <2>2, <2>3, <2>4
  <1> QED
    BY <1>1, <1>2, <1>3, <1>4, <1>5, <1>6

\* Whatever the counters do, the gateway does one of its own steps.
LEMMA CountedStep ==
  /\ \A r \in Requests : CountedResult(r) => UpstreamResult(r)
  /\ [MNext]_<<vars, count>> => [Next]_vars
  <1>1. ASSUME NEW r \in Requests, CountedResult(r)
        PROVE  UpstreamResult(r)
    BY <1>1 DEF CountedResult, UpstreamResult, FailStatus
  <1>2. CountedTick => TickStep
    BY DEF CountedTick, TickStep
  <1> QED
    BY <1>1, <1>2 DEF MNext, Next, CountedArrive, CountedResume, Proceed, vars

\* The start of a proxy call moves r to one of three places.
LEMMA BeginPlaces ==
  ASSUME NEW r \in Requests, NEW t, BeginProxy(r, t)
  PROVE  \E p \in Places \ Refused : pc' = [pc EXCEPT ![r] = p]
  <1>1. {"upstream", "retry_exhausted", "fallback_unavailable"}
          \subseteq Places \ Refused
    BY DEF Places, Outstanding, Replies, Refused, Reasons
  <1> QED
    BY <1>1 DEF BeginProxy, NoAttempt, FallbackUnavailable, StartAttempt, Answer

LEMMA DivertedStep ==
  ASSUME NEW r \in Requests, NEW reason \in Reasons, Divert(r, reason)
  PROVE  \/ /\ ~FallbackEnabled
            /\ pc' = [pc EXCEPT ![r] = reason]
         \/ /\ FallbackEnabled
            /\ \E p \in Places \ Refused : pc' = [pc EXCEPT ![r] = p]
  BY BeginPlaces DEF Divert, Answer

LEMMA CountedIsRefusalStep ==
  ASSUME IInv, count \in Counters, [MNext]_<<vars, count>>
  PROVE  RefusalStep /\ count' \in Counters
  <1>1. ASSUME NEW r \in Requests, CountedArrive(r)
        PROVE  RefusalStep /\ count' \in Counters
    <2> DEFINE c == [count EXCEPT !.requests = @ + 1]
    <2>1. pc[r] = "new" /\ pc[r] \notin Refused /\ "queue_full" \in Reasons
      BY <1>1 DEF CountedArrive, Arrive, Refused, Reasons
    <2>2. c \in Counters /\ c.rejections = count.rejections
      BY DEF Counters
    <2>3. count' = IF HasRoom(queue) THEN c ELSE Diverted(c, "queue_full")
      BY <1>1 DEF CountedArrive
    <2>4. CASE HasRoom(queue)
      <3>1. pc' = [pc EXCEPT ![r] = "waiting"] /\ "waiting" \in Places \ Refused
        BY <1>1, <2>4
          DEF CountedArrive, Arrive, Become, Places, Awaiting, Refused, Reasons
      <3> QED
        BY <2>1, <2>2, <2>3, <2>4, <3>1 DEF RefusalStep, Quiet
    <2>5. CASE ~HasRoom(queue)
      <3>1. Divert(r, "queue_full") /\ count' = Diverted(c, "queue_full")
        BY <1>1, <2>3, <2>5 DEF CountedArrive, Arrive
      <3>2. /\ Diverted(c, "queue_full") \in Counters
            /\ Diverted(c, "queue_full").rejections =
                 IF FallbackEnabled
                   THEN count.rejections
                   ELSE [count.rejections EXCEPT !["queue_full"] = @ + 1]
        <4> HIDE DEF c
        <4> QED
          BY <2>1, <2>2 DEF Counters, Diverted, Rejected
      <3> HIDE DEF c
      <3> QED
        BY <2>1, <3>1, <3>2, DivertedStep DEF RefusalStep, Quiet, Refuses
    <2> QED
      BY <2>4, <2>5
  <1>2. ASSUME NEW r \in Requests, CountedResume(r)
        PROVE  RefusalStep /\ count' \in Counters
    <2>1. ASSUME NEW reason \in Reasons
          PROVE  /\ Diverted(count, reason) \in Counters
                 /\ Diverted(count, reason).rejections =
                      IF FallbackEnabled
                        THEN count.rejections
                        ELSE [count.rejections EXCEPT ![reason] = @ + 1]
      BY CountersKept DEF Counters, Diverted
    <2>2. {"queue_age", "no_backend"} \subseteq Reasons
      BY DEF Reasons
    <2>3. CASE pc[r] = "dispatched"
      <3>1. count' = count /\ BeginProxy(r, target[r])
        BY <1>2, <2>3 DEF CountedResume, Resume
      <3>2. pc[r] \notin Refused
        BY <2>3 DEF Refused, Reasons
      <3> QED
        BY <3>1, <3>2, BeginPlaces DEF RefusalStep, Quiet
    <2>4. CASE pc[r] = "timedout"
      <3>1. count' = Diverted(count, "queue_age") /\ Divert(r, "queue_age")
        BY <1>2, <2>4 DEF CountedResume, Resume
      <3>2. pc[r] \notin Refused
        BY <2>4 DEF Refused, Reasons
      <3> QED
        BY <2>1, <2>2, <2>4, <3>1, <3>2, DivertedStep
          DEF RefusalStep, Quiet, Refuses
    <2>5. CASE pc[r] = "rejected"
      <3>1. count' = Diverted(count, "no_backend") /\ Divert(r, "no_backend")
        BY <1>2, <2>5 DEF CountedResume, Resume
      <3> QED
        BY <2>1, <2>2, <2>5, <3>1, DivertedStep DEF RefusalStep, Rescues, Refuses
    <2> QED
      BY <1>2, <2>3, <2>4, <2>5 DEF CountedResume, Resume
  <1>3. ASSUME NEW r \in Requests, CountedResult(r)
        PROVE  RefusalStep /\ count' \in Counters
    <2>1. UpstreamResult(r)
      BY <1>3, CountedStep
    <2>2. pc[r] \notin Refused
      <3>1. pc[r] \in Outstanding
        BY <2>1 DEF UpstreamResult, Succeed, FailStatus, FailWith,
             TransportFailure, StreamHeaders, StreamStatus, StreamUnreachable,
             StreamFinish, Crash, AbandonStream, Outstanding
      <3> QED
        BY <3>1 DEF Outstanding, Refused, Reasons
    <2>3. {"ok", "error_status", "unreachable", "crashed", "abandoned", "headers"}
            \subseteq Places \ Refused
      BY DEF Places, Outstanding, Replies, Refused, Reasons
    <2>4. count' \in Counters /\ count'.rejections = count.rejections
      <3>1. /\ [count EXCEPT !.latency = @ + 1].rejections = count.rejections
            /\ Erred(count, target[r]).rejections = count.rejections
        BY DEF Counters, Erred
      <3>2. ASSUME NEW retryable \in BOOLEAN, count' = Failed(r, retryable)
            PROVE  count' \in Counters /\ count'.rejections = count.rejections
        BY <3>2, CountersKept
      <3>3. CASE \E retryable \in BOOLEAN : count' = Failed(r, retryable)
        BY <3>2, <3>3
      <3>4. CASE count' = [count EXCEPT !.latency = @ + 1]
        BY <3>1, <3>4, CountersKept
      <3>5. CASE count' = Erred(count, target[r])
        <4>1. Erred(count, target[r]) \in Counters
          BY CountersKept
        <4> QED
          BY <3>1, <3>5, <4>1
      <3>6. CASE count' = count
        BY <3>6
      <3>7. \A outcome : (outcome # "client_error") \in BOOLEAN
        OBVIOUS
      <3> QED
        BY <1>3, <3>3, <3>4, <3>5, <3>6, <3>7 DEF CountedResult
    <2> QED
      BY <2>1, <2>2, <2>3, <2>4, ResultPlaces DEF RefusalStep, Quiet
  <1>4. CASE CountedTick
    <2>1. CASE count' = count /\ pc' = pc
      BY <2>1 DEF RefusalStep, Quiet
    <2>2. ASSUME NEW r \in Requests, RejectOverdue(r),
                 count' = Rejected(count, "queue_age")
          PROVE  RefusalStep /\ count' \in Counters
      <3>1. "queue_age" \in Reasons
        BY DEF Reasons
      <3> QED
        BY <2>2, <3>1, CountersKept DEF RejectOverdue, Become, RefusalStep, Refuses
    <2>3. ASSUME NEW r \in Requests, Assign(r),
                 count' = [count EXCEPT !.dispatch[target'[r]] = @ + 1]
          PROVE  RefusalStep /\ count' \in Counters
      <3>1. count' \in Counters /\ count'.rejections = count.rejections
        BY <2>3, CountersKept DEF Counters
      <3>2. /\ pc' = [pc EXCEPT ![r] = "dispatched"] /\ pc[r] \notin Refused
            /\ "dispatched" \in Places \ Refused
        BY <2>3 DEF Assign, Become, Places, Awaiting, Refused, Reasons
      <3> QED
        BY <3>1, <3>2 DEF RefusalStep, Quiet
    <2> QED
      BY <1>4, <2>1, <2>2, <2>3 DEF CountedTick, TickBegin, TickEnd, Skip, Hold
  <1>5. ASSUME NEW r \in Requests, Age(r) \/ TimerFires(r), count' = count
        PROVE  RefusalStep /\ count' \in Counters
    <2>1. \E p \in {"overdue", "timedout"} : pc' = [pc EXCEPT ![r] = p]
      BY <1>5 DEF Age, TimerFires, Become
    <2>2. /\ {"overdue", "timedout"} \subseteq Places \ Refused
          /\ pc[r] \notin Refused
      BY <1>5 DEF Age, TimerFires, Places, Awaiting, Refused, Reasons
    <2> QED
      BY <1>5, <2>1, <2>2 DEF RefusalStep, Quiet
  <1>6. CASE count' = count /\ pc' = pc
    BY <1>6 DEF RefusalStep, Quiet
  <1> QED
    BY <1>1, <1>2, <1>3, <1>4, <1>5, <1>6 DEF MNext, Cooldown, vars

\* With its counters the gateway does what it does without them.
THEOREM CountersOnlyWatch == MSpec => Spec
  <1>1. MInit => Init
    BY DEF MInit
  <1> QED
    BY <1>1, CountedStep, PTL DEF MSpec, Spec

\* For any requests and fallback: each 503 of the admission is counted once
\* under its reason, and what a tick rejects once more as queue_age.
THEOREM RejectionsAlwaysAccounted == MSpec => []RejectionsAccounted
  <1>1. MInit => count \in Counters /\ RejectionsAccounted
    <2> SUFFICES ASSUME MInit
                 PROVE  count \in Counters /\ RejectionsAccounted
      OBVIOUS
    <2>1. /\ \A reason \in Reasons : count.rejections[reason] = 0
          /\ count \in Counters
      BY DEF MInit, Counters
    <2>2. ASSUME NEW S \in SUBSET Refused
          PROVE  HandlersIn(S) = 0
      <3>1. {r \in Requests : pc[r] \in S} = {}
        BY DEF MInit, Init, Refused, Reasons
      <3> QED
        BY <3>1, FS_EmptySet DEF HandlersIn
    <2> QED
      BY <2>1, <2>2 DEF RejectionsAccounted, Refused, Reasons
  <1>2. ASSUME IInv, count \in Counters, RejectionsAccounted,
               [MNext]_<<vars, count>>
        PROVE  (count \in Counters)' /\ RejectionsAccounted'
    <2>1. pc \in [Requests -> Places]
      BY <1>2 DEF IInv, HandlersOK
    <2>2. RefusalStep /\ count' \in Counters
      BY <1>2, CountedIsRefusalStep
    <2> QED
      BY <1>2, <2>1, <2>2, RefusalStepKeeps
  <1> QED
    BY <1>1, <1>2, CountersOnlyWatch, Invariance, PTL DEF MSpec

-----------------------------------------------------------------------------
(***************************************************************************)
(* The counters of attempts.  A dispatch is unsettled from when it is      *)
(* counted until it is in the books as a latency or an error, and for good *)
(* when it was never sent.  Totals are numbers of units, and in any step a *)
(* total grows by one at most.                                             *)
(***************************************************************************)
Unsent == {"fallback_unavailable", "retry_exhausted"}

Sent == {"dispatched"} \cup Outstanding

Unsettled == Sent \cup Unsent

BooksOK ==
  /\ count \in Counters
  /\ IsFiniteSet(Units(count.dispatch))
  /\ IsFiniteSet(Units(count.errors))

\* So many dispatches, fallbacks, latencies, errors and retries are booked.
Books(d, f, l, e, x) ==
  /\ Total(count'.dispatch) = Total(count.dispatch) + d
  /\ count'.fallback = count.fallback + f
  /\ count'.latency = count.latency + l
  /\ Total(count'.errors) = Total(count.errors) + e
  /\ count'.retries = count.retries + x

\* Where the handler of r goes.
Stays(r) ==
  \E p \in Places :
    pc' = [pc EXCEPT ![r] = p] /\ (p \in Unsettled <=> pc[r] \in Unsettled)

Enters(r) ==
  pc[r] \notin Unsettled /\ \E p \in Unsettled : pc' = [pc EXCEPT ![r] = p]

Exits(r) ==
  /\ pc[r] \in Unsettled
  /\ \E p \in Places \ Unsettled : pc' = [pc EXCEPT ![r] = p]

NotRetried(r) == attempts' = attempts \/ attempts' = [attempts EXCEPT ![r] = 1]

BookingStep ==
  \/ Books(0, 0, 0, 0, 0) /\ UNCHANGED <<pc, attempts>>
  \/ \E r \in Requests :
       \/ Books(0, 0, 0, 0, 0) /\ Stays(r) /\ NotRetried(r)
       \/ /\ Books(1, 0, 0, 0, 0) \/ Books(0, 1, 0, 0, 0)
          /\ Enters(r) /\ NotRetried(r)
       \/ /\ \/ Books(0, 0, 1, 0, 0)
             \/ Books(0, 0, 0, 1, 0)
             \/ Books(0, 0, 0, 1, 1)
          /\ Exits(r) /\ UNCHANGED attempts
       \/ /\ Books(1, 0, 0, 1, 1)
          /\ UNCHANGED pc
          /\ attempts[r] >= 1 /\ attempts' = [attempts EXCEPT ![r] = @ + 1]
       \/ /\ Books(0, 0, 0, 0, 0)
          /\ Outcomes \cap Leaks # {} /\ UNCHANGED attempts

-----------------------------------------------------------------------------
(* Totals.                                                                 *)

LEMMA UnitOf ==
  ASSUME NEW S, NEW f \in [S -> Nat], NEW u
  PROVE  u \in Units(f) <=> \E x \in S : \E n \in 1..f[x] : u = <<x, n>>
  BY DEF Units

LEMMA NoUnits ==
  ASSUME NEW S, NEW f \in [S -> Nat], \A x \in S : f[x] = 0
  PROVE  IsFiniteSet(Units(f)) /\ Total(f) = 0
  <1>1. Units(f) = {}
    BY UnitOf
  <1> QED
    BY <1>1, FS_EmptySet DEF Total

LEMMA OneUnitMore ==
  ASSUME NEW S, NEW f \in [S -> Nat], IsFiniteSet(Units(f)), NEW x \in S,
         NEW g, g = [f EXCEPT ![x] = @ + 1]
  PROVE  IsFiniteSet(Units(g)) /\ Total(g) = Total(f) + 1
  <1> DEFINE new == <<x, f[x] + 1>>
  <1>1. /\ g \in [S -> Nat] /\ f[x] \in Nat
        /\ \A y \in S : g[y] = IF y = x THEN f[x] + 1 ELSE f[y]
    OBVIOUS
  <1>2. /\ \A u : u \in Units(f) <=> \E y \in S : \E n \in 1..f[y] : u = <<y, n>>
        /\ \A u : u \in Units(g) <=> \E y \in S : \E n \in 1..g[y] : u = <<y, n>>
    BY <1>1, UnitOf
  <1>3. new \notin Units(f)
    BY <1>1, <1>2
  <1>4. ASSUME NEW u
        PROVE  u \in Units(g) <=> u \in Units(f) \/ u = new
    <2>1. ASSUME NEW y \in S, NEW n \in 1..g[y], u = <<y, n>>
          PROVE  u \in Units(f) \/ u = new
      <3>1. n \in 1..f[y] \/ (y = x /\ n = f[x] + 1)
        BY <1>1, <2>1
      <3> QED
        BY <1>2, <2>1, <3>1
    <2>2. ASSUME NEW y \in S, NEW n \in 1..f[y], u = <<y, n>>
          PROVE  u \in Units(g)
      <3>1. n \in 1..g[y]
        BY <1>1, <2>2
      <3> QED
        BY <1>2, <2>2, <3>1
    <2>3. ASSUME u = new
          PROVE  u \in Units(g)
      <3>1. f[x] + 1 \in 1..g[x]
        BY <1>1
      <3> QED
        BY <1>2, <2>3, <3>1
    <2>4. ASSUME u \in Units(f)
          PROVE  u \in Units(g)
      <3>1. PICK y \in S : \E n \in 1..f[y] : u = <<y, n>>
        BY <1>2, <2>4
      <3> QED
        BY <2>2, <3>1
    <2>5. ASSUME u \in Units(g)
          PROVE  u \in Units(f) \/ u = new
      <3>1. PICK y \in S : \E n \in 1..g[y] : u = <<y, n>>
        BY <1>2, <2>5
      <3> QED
        BY <2>1, <3>1
    <2> QED
      BY <2>3, <2>4, <2>5
  <1>5. Units(g) = Units(f) \cup {new}
    BY <1>4
  <1>6. /\ IsFiniteSet(Units(f) \cup {new})
        /\ Cardinality(Units(f) \cup {new}) = Cardinality(Units(f)) + 1
    <2> HIDE DEF new
    <2> QED
      BY <1>3, FS_AddElement
  <1> QED
    BY <1>5, <1>6 DEF Total

LEMMA FewerUnits ==
  ASSUME NEW S, NEW f \in [S -> Nat], NEW g \in [S -> Nat], IsFiniteSet(Units(f)),
         \A x \in S : g[x] <= f[x]
  PROVE  IsFiniteSet(Units(g)) /\ Total(g) <= Total(f)
  <1>1. Units(g) \subseteq Units(f)
    <2> SUFFICES ASSUME NEW x \in S, NEW n \in 1..g[x]
                 PROVE  <<x, n>> \in Units(f)
      BY UnitOf
    <2>1. n \in 1..f[x]
      OBVIOUS
    <2> QED
      BY <2>1, UnitOf
  <1> QED
    BY <1>1, FS_Subset DEF Total

LEMMA TotalIsNat ==
  ASSUME NEW f, IsFiniteSet(Units(f))
  PROVE  Total(f) \in Nat
  BY FS_CardinalityType DEF Total

-----------------------------------------------------------------------------
(* What a step books.                                                      *)

\* So much more is in a counter with labels.
Grown(f, g, n) == IsFiniteSet(Units(g)) /\ Total(g) = Total(f) + n

LEMMA TotalsBooked ==
  ASSUME BooksOK, count' \in Counters
  PROVE  /\ count'.dispatch = count.dispatch
              => Grown(count.dispatch, count'.dispatch, 0)
         /\ (\E b \in Backends :
               count'.dispatch = [count.dispatch EXCEPT ![b] = @ + 1])
              => Grown(count.dispatch, count'.dispatch, 1)
         /\ count'.errors = count.errors
              => Grown(count.errors, count'.errors, 0)
         /\ (\E t \in Backends \cup {Fallback} :
               count'.errors = [count.errors EXCEPT ![t] = @ + 1])
              => Grown(count.errors, count'.errors, 1)
  <1>1. /\ count.dispatch \in [Backends -> Nat]
        /\ count.errors \in [Backends \cup {Fallback} -> Nat]
        /\ IsFiniteSet(Units(count.dispatch)) /\ IsFiniteSet(Units(count.errors))
    BY DEF BooksOK, Counters
  <1>2. Total(count.dispatch) \in Nat /\ Total(count.errors) \in Nat
    BY <1>1, TotalIsNat
  <1>3. ASSUME NEW b \in Backends,
               count'.dispatch = [count.dispatch EXCEPT ![b] = @ + 1]
        PROVE  Grown(count.dispatch, count'.dispatch, 1)
    BY <1>1, <1>3, OneUnitMore DEF Grown
  <1>4. ASSUME NEW t \in Backends \cup {Fallback},
               count'.errors = [count.errors EXCEPT ![t] = @ + 1]
        PROVE  Grown(count.errors, count'.errors, 1)
    BY <1>1, <1>4, OneUnitMore DEF Grown
  <1>5. ASSUME count'.dispatch = count.dispatch
        PROVE  Grown(count.dispatch, count'.dispatch, 0)
    BY <1>1, <1>2, <1>5 DEF Grown
  <1>6. ASSUME count'.errors = count.errors
        PROVE  Grown(count.errors, count'.errors, 0)
    BY <1>1, <1>2, <1>6 DEF Grown
  <1> QED
    BY <1>3, <1>4, <1>5, <1>6

\* The entries the code makes, one by one.
LEMMA Entries ==
  ASSUME BooksOK, count' \in Counters
  PROVE  /\ /\ count'.dispatch = count.dispatch /\ count'.errors = count.errors
            /\ count'.latency = count.latency /\ count'.retries = count.retries
            /\ count'.fallback \in {count.fallback, count.fallback + 1}
            => BooksOK' /\ Books(0, count'.fallback - count.fallback, 0, 0, 0)
         /\ count' = [count EXCEPT !.latency = @ + 1]
              => BooksOK' /\ Books(0, 0, 1, 0, 0)
         /\ \A b \in Backends :
              count' = [count EXCEPT !.dispatch[b] = @ + 1]
                => BooksOK' /\ Books(1, 0, 0, 0, 0)
         /\ \A t \in Backends \cup {Fallback} :
              /\ count' = Erred(count, t)
                   => BooksOK' /\ Books(0, 0, 0, 1, 0)
              /\ count' = [Erred(count, t) EXCEPT !.retries = @ + 1]
                   => BooksOK' /\ Books(0, 0, 0, 1, 1)
              /\ \A b \in Backends :
                   count' = [[Erred(count, t) EXCEPT !.retries = @ + 1]
                               EXCEPT !.dispatch[b] = @ + 1]
                     => BooksOK' /\ Books(1, 0, 0, 1, 1)
  <1>1. /\ count \in Counters
        /\ count.latency \in Nat /\ count.fallback \in Nat /\ count.retries \in Nat
    BY DEF BooksOK, Counters
  <1>2. ASSUME /\ count'.dispatch = count.dispatch /\ count'.errors = count.errors
               /\ count'.latency = count.latency /\ count'.retries = count.retries
               /\ count'.fallback \in {count.fallback, count.fallback + 1}
        PROVE  BooksOK' /\ Books(0, count'.fallback - count.fallback, 0, 0, 0)
    <2>1. /\ Grown(count.dispatch, count'.dispatch, 0)
          /\ Grown(count.errors, count'.errors, 0)
      BY <1>2, TotalsBooked
    <2> QED
      BY <1>1, <1>2, <2>1 DEF Books, Grown, BooksOK
  <1>3. ASSUME count' = [count EXCEPT !.latency = @ + 1]
        PROVE  BooksOK' /\ Books(0, 0, 1, 0, 0)
    <2>1. /\ count'.dispatch = count.dispatch /\ count'.errors = count.errors
          /\ count'.latency = count.latency + 1
          /\ count'.retries = count.retries /\ count'.fallback = count.fallback
      BY <1>1, <1>3 DEF Counters
    <2>2. /\ Grown(count.dispatch, count'.dispatch, 0)
          /\ Grown(count.errors, count'.errors, 0)
      BY <2>1, TotalsBooked
    <2> QED
      BY <1>1, <2>1, <2>2 DEF Books, Grown, BooksOK
  <1>4. ASSUME NEW b \in Backends, count' = [count EXCEPT !.dispatch[b] = @ + 1]
        PROVE  BooksOK' /\ Books(1, 0, 0, 0, 0)
    <2>1. /\ count'.dispatch = [count.dispatch EXCEPT ![b] = @ + 1]
          /\ count'.errors = count.errors /\ count'.latency = count.latency
          /\ count'.retries = count.retries /\ count'.fallback = count.fallback
      BY <1>1, <1>4 DEF Counters
    <2>2. /\ Grown(count.dispatch, count'.dispatch, 1)
          /\ Grown(count.errors, count'.errors, 0)
      BY <2>1, TotalsBooked
    <2> QED
      BY <1>1, <2>1, <2>2 DEF Books, Grown, BooksOK
  <1>5. ASSUME NEW t \in Backends \cup {Fallback}
        PROVE  LET c == Erred(count, t)
               IN  /\ c.errors = [count.errors EXCEPT ![t] = @ + 1]
                   /\ c.dispatch = count.dispatch /\ c.latency = count.latency
                   /\ c.retries = count.retries /\ c.fallback = count.fallback
                   /\ c \in Counters
    BY <1>1 DEF Erred, Counters
  <1>6. ASSUME NEW t \in Backends \cup {Fallback}, count' = Erred(count, t)
        PROVE  BooksOK' /\ Books(0, 0, 0, 1, 0)
    <2>1. /\ count'.errors = [count.errors EXCEPT ![t] = @ + 1]
          /\ count'.dispatch = count.dispatch /\ count'.latency = count.latency
          /\ count'.retries = count.retries
          /\ count'.fallback = count.fallback
      BY <1>5, <1>6
    <2>2. /\ Grown(count.dispatch, count'.dispatch, 0)
          /\ Grown(count.errors, count'.errors, 1)
      BY <2>1, TotalsBooked
    <2> QED
      BY <1>1, <2>1, <2>2 DEF Books, Grown, BooksOK
  <1>7. ASSUME NEW t \in Backends \cup {Fallback},
               count' = [Erred(count, t) EXCEPT !.retries = @ + 1]
        PROVE  BooksOK' /\ Books(0, 0, 0, 1, 1)
    <2>1. /\ count'.errors = [count.errors EXCEPT ![t] = @ + 1]
          /\ count'.dispatch = count.dispatch /\ count'.latency = count.latency
          /\ count'.retries = count.retries + 1
          /\ count'.fallback = count.fallback
      BY <1>5, <1>7 DEF Counters
    <2>2. /\ Grown(count.dispatch, count'.dispatch, 0)
          /\ Grown(count.errors, count'.errors, 1)
      BY <2>1, TotalsBooked
    <2> QED
      BY <1>1, <2>1, <2>2 DEF Books, Grown, BooksOK
  <1>8. ASSUME NEW t \in Backends \cup {Fallback}, NEW b \in Backends,
               count' = [[Erred(count, t) EXCEPT !.retries = @ + 1]
                           EXCEPT !.dispatch[b] = @ + 1]
        PROVE  BooksOK' /\ Books(1, 0, 0, 1, 1)
    <2>1. /\ count'.errors = [count.errors EXCEPT ![t] = @ + 1]
          /\ count'.dispatch = [count.dispatch EXCEPT ![b] = @ + 1]
          /\ count'.latency = count.latency
          /\ count'.retries = count.retries + 1
          /\ count'.fallback = count.fallback
      BY <1>5, <1>8 DEF Counters
    <2>2. /\ Grown(count.dispatch, count'.dispatch, 1)
          /\ Grown(count.errors, count'.errors, 1)
      BY <2>1, TotalsBooked
    <2> QED
      BY <1>1, <2>1, <2>2 DEF Books, Grown, BooksOK
  <1> QED
    BY <1>2, <1>3, <1>4, <1>6, <1>7, <1>8

\* Who may be at a target when an attempt ends, and what is neither.
LEMMA UnsettledPlaces ==
  /\ Unsettled \subseteq Places
  /\ {"waiting", "overdue", "timedout", "rejected", "ok", "error_status",
      "unreachable"} \subseteq Places \ Unsettled
  /\ Reasons \subseteq Places \ Unsettled
  /\ "new" \notin Unsettled
  /\ {"upstream", "headers", "dispatched", "retry_exhausted",
      "fallback_unavailable"} \subseteq Unsettled
  BY DEF Unsettled, Sent, Unsent, Places, Awaiting, Outstanding, Replies, Reasons

LEMMA NothingBooked ==
  ASSUME BooksOK, count' \in Counters,
         count'.dispatch = count.dispatch, count'.errors = count.errors,
         count'.latency = count.latency, count'.retries = count.retries,
         count'.fallback = count.fallback
  PROVE  BooksOK' /\ Books(0, 0, 0, 0, 0)
  <1>1. count.fallback \in Nat
    BY DEF BooksOK, Counters
  <1>2. BooksOK' /\ Books(0, count'.fallback - count.fallback, 0, 0, 0)
    BY Entries
  <1>3. count'.fallback - count.fallback = 0
    BY <1>1
  <1> QED
    BY <1>2, <1>3

\* The start of a proxy call is on the unsettled side, whatever comes of it.
LEMMA BeginUnsettled ==
  ASSUME NEW r \in Requests, NEW t, BeginProxy(r, t)
  PROVE  /\ \E p \in Unsettled : pc' = [pc EXCEPT ![r] = p]
         /\ NotRetried(r)
  BY UnsettledPlaces
     DEF BeginProxy, NoAttempt, FallbackUnavailable, StartAttempt, Answer,
         NotRetried

\* A request that is diverted goes to the fallback, which is counted, or is
\* turned away.
LEMMA DivertBooked ==
  ASSUME BooksOK, NEW r \in Requests, NEW reason \in Reasons, NEW c \in Counters,
         c.dispatch = count.dispatch, c.errors = count.errors,
         c.latency = count.latency, c.retries = count.retries,
         c.fallback = count.fallback,
         pc[r] \notin Unsettled, Divert(r, reason), count' = Diverted(c, reason),
         count' \in Counters
  PROVE  BookingStep /\ BooksOK'
  <1>1. CASE FallbackEnabled
    <2>1. /\ count'.dispatch = count.dispatch /\ count'.errors = count.errors
          /\ count'.latency = count.latency /\ count'.retries = count.retries
          /\ count'.fallback = count.fallback + 1
      BY <1>1 DEF Diverted, Counters
    <2>2. BooksOK' /\ Books(0, count'.fallback - count.fallback, 0, 0, 0)
      BY <2>1, Entries
    <2>3. count'.fallback - count.fallback = 1
      BY <2>1 DEF BooksOK, Counters
    <2>4. Enters(r) /\ NotRetried(r)
      BY <1>1, BeginUnsettled DEF Divert, Enters
    <2> QED
      BY <2>2, <2>3, <2>4 DEF BookingStep
  <1>2. CASE ~FallbackEnabled
    <2>1. /\ count'.dispatch = count.dispatch /\ count'.errors = count.errors
          /\ count'.latency = count.latency /\ count'.retries = count.retries
          /\ count'.fallback = count.fallback
      BY <1>2 DEF Diverted, Rejected, Counters
    <2>2. BooksOK' /\ Books(0, 0, 0, 0, 0)
      BY <2>1, NothingBooked
    <2>3. Stays(r) /\ NotRetried(r)
      BY <1>2, UnsettledPlaces DEF Divert, Answer, Stays, NotRetried
    <2> QED
      BY <2>2, <2>3 DEF BookingStep
  <1> QED
    BY <1>1, <1>2

\* A failed attempt is answered, or retried while attempts are left.
LEMMA FailureAnsweredOrRetried ==
  ASSUME NEW r, NEW retryable, NEW s, NEW reply,
         RetryOrSettle(r, retryable, s, reply)
  PROVE  \/ Answer(r, reply)
         \/ /\ retryable /\ attempts[r] < MaxAttempts
            /\ attempts' = [attempts EXCEPT ![r] = @ + 1]
            /\ \E b \in Backends : target' = [target EXCEPT ![r] = b]
            /\ UNCHANGED pc
  BY DEF RetryOrSettle, Retry, Settle, Eligible

LEMMA FailureBooked ==
  ASSUME HandlersOK, BooksOK, NEW r \in Requests, pc[r] = "upstream",
         NEW retryable \in BOOLEAN, NEW s,
         NEW reply \in {"error_status", "unreachable"},
         RetryOrSettle(r, retryable, s, reply), count' = Failed(r, retryable)
  PROVE  BookingStep /\ BooksOK'
  <1>1. /\ target[r] \in Backends \cup {Fallback}
        /\ attempts \in [Requests -> 0..MaxAttempts] /\ attempts[r] >= 1
        /\ target \in [Requests -> Targets] /\ MaxAttempts \in Nat
    BY ProxyAssumption DEF HandlersOK, TargetHeld, Outstanding, Targets
  <1>2. count' \in Counters
    BY CountersKept DEF BooksOK
  <1>3. CASE Answer(r, reply)
    <2>1. \/ count' = Erred(count, target[r])
          \/ count' = [Erred(count, target[r]) EXCEPT !.retries = @ + 1]
      BY <1>3 DEF Failed, Answer
    <2>2. BooksOK' /\ (Books(0, 0, 0, 1, 0) \/ Books(0, 0, 0, 1, 1))
      BY <1>1, <1>2, <2>1, Entries
    <2>3. Exits(r) /\ UNCHANGED attempts
      BY <1>3, UnsettledPlaces DEF Answer, Exits
    <2> QED
      BY <2>2, <2>3 DEF BookingStep
  <1>4. CASE /\ retryable /\ attempts[r] < MaxAttempts
             /\ attempts' = [attempts EXCEPT ![r] = @ + 1]
             /\ \E b \in Backends : target' = [target EXCEPT ![r] = b]
             /\ UNCHANGED pc
    <2>1. attempts'[r] # attempts[r] /\ target'[r] \in Backends
      BY <1>1, <1>4
    <2>2. count' = [[Erred(count, target[r]) EXCEPT !.retries = @ + 1]
                      EXCEPT !.dispatch[target'[r]] = @ + 1]
      BY <1>4, <2>1 DEF Failed
    <2>3. BooksOK' /\ Books(1, 0, 0, 1, 1)
      BY <1>1, <1>2, <2>1, <2>2, Entries
    <2> QED
      BY <1>1, <1>4, <2>3 DEF BookingStep
  <1> QED
    BY <1>3, <1>4, FailureAnsweredOrRetried

\* Every result of an attempt is booked once.
LEMMA ResultBooked ==
  ASSUME HandlersOK, BooksOK, count' \in Counters,
         NEW r \in Requests, CountedResult(r)
  PROVE  BookingStep /\ BooksOK'
  <1>1. UpstreamResult(r)
    BY CountedStep
  <1>2. pc[r] \in Outstanding
    BY <1>1 DEF UpstreamResult, Succeed, FailStatus, FailWith,
         TransportFailure, StreamHeaders, StreamStatus, StreamUnreachable,
         StreamFinish, Crash, AbandonStream, Outstanding
  <1>3. target[r] \in Backends \cup {Fallback} /\ pc[r] \in Unsettled
    BY <1>2 DEF HandlersOK, TargetHeld, Targets, Unsettled, Sent
  <1>4. ASSUME NEW reply \in {"ok", "error_status", "unreachable"}, Answer(r, reply)
        PROVE  Exits(r) /\ UNCHANGED attempts
    BY <1>3, <1>4, UnsettledPlaces DEF Answer, Exits
  <1>5. CASE /\ Succeed(r) \/ StreamFinish(r)
             /\ count' = [count EXCEPT !.latency = @ + 1]
    <2>1. Answer(r, "ok")
      BY <1>5 DEF Succeed, StreamFinish, Settle
    <2>2. BooksOK' /\ Books(0, 0, 1, 0, 0)
      BY <1>5, Entries
    <2> QED
      BY <1>4, <2>1, <2>2 DEF BookingStep
  <1>6. CASE /\ StreamStatus(r) \/ StreamUnreachable(r)
             /\ count' = Erred(count, target[r])
    <2>1. Answer(r, "error_status") \/ Answer(r, "unreachable")
      BY <1>6 DEF StreamStatus, StreamUnreachable, Settle
    <2>2. BooksOK' /\ Books(0, 0, 0, 1, 0)
      BY <1>3, <1>6, Entries
    <2> QED
      BY <1>4, <2>1, <2>2 DEF BookingStep
  <1>7. ASSUME NEW outcome \in BadStatus, FailWith(r, outcome),
               count' = Failed(r, outcome # "client_error")
        PROVE  BookingStep /\ BooksOK'
    <2> DEFINE retryable == outcome # "client_error"
    <2>1. /\ pc[r] = "upstream" /\ retryable \in BOOLEAN
          /\ RetryOrSettle(r, retryable, AfterStatus(Row(r), outcome), "error_status")
          /\ count' = Failed(r, retryable)
      BY <1>7 DEF FailWith
    <2> HIDE DEF retryable
    <2> QED
      BY <2>1, FailureBooked
  <1>8. CASE TransportFailure(r) /\ count' = Failed(r, TRUE)
    <2>1. /\ pc[r] = "upstream"
          /\ RetryOrSettle(r, TRUE, UpdateFailure(OnFailure(Row(r))), "unreachable")
      BY <1>8 DEF TransportFailure
    <2> QED
      BY <1>8, <2>1, FailureBooked
  <1>9. CASE (StreamHeaders(r) \/ Crash(r) \/ AbandonStream(r)) /\ UNCHANGED count
    <2>1. BooksOK' /\ Books(0, 0, 0, 0, 0)
      BY <1>9, NothingBooked
    <2>2. CASE StreamHeaders(r)
      <3>1. pc' = [pc EXCEPT ![r] = "headers"] /\ attempts' = attempts
        BY <2>2 DEF StreamHeaders
      <3>2. Stays(r) /\ NotRetried(r)
        BY <1>3, <3>1, UnsettledPlaces DEF Stays, NotRetried
      <3> QED
        BY <2>1, <3>2 DEF BookingStep
    <2>3. CASE Crash(r) \/ AbandonStream(r)
      <3>1. Outcomes \cap Leaks # {} /\ UNCHANGED attempts
        BY <2>3 DEF Crash, AbandonStream, Answer, Leaks
      <3> QED
        BY <2>1, <3>1 DEF BookingStep
    <2> QED
      BY <1>9, <2>2, <2>3
  <1> QED
    BY <1>5, <1>6, <1>7, <1>8, <1>9 DEF CountedResult

LEMMA CountedIsBookingStep ==
  ASSUME IInv, BooksOK, [MNext]_<<vars, count>>
  PROVE  BookingStep /\ BooksOK'
  <1>1. HandlersOK /\ count \in Counters /\ count' \in Counters
    BY CountedIsRefusalStep DEF IInv, BooksOK
  <1>2. CASE count' = count /\ UNCHANGED <<pc, attempts>>
    BY <1>1, <1>2, NothingBooked DEF BookingStep
  <1>3. ASSUME NEW r \in Requests, CountedArrive(r)
        PROVE  BookingStep /\ BooksOK'
    <2> DEFINE c == [count EXCEPT !.requests = @ + 1]
    <2>1. /\ c \in Counters
          /\ c.dispatch = count.dispatch /\ c.errors = count.errors
          /\ c.latency = count.latency /\ c.retries = count.retries
          /\ c.fallback = count.fallback
      BY <1>1 DEF Counters
    <2>2. /\ count' = IF HasRoom(queue) THEN c ELSE Diverted(c, "queue_full")
          /\ Arrive(r) /\ pc[r] = "new"
      BY <1>3 DEF CountedArrive, Arrive
    <2> HIDE DEF c
    <2>3. CASE HasRoom(queue)
      <3>1. pc' = [pc EXCEPT ![r] = "waiting"] /\ attempts' = attempts
        BY <2>2, <2>3 DEF Arrive, Become
      <3>2. Stays(r) /\ NotRetried(r)
        BY <2>2, <3>1, UnsettledPlaces DEF Stays, NotRetried
      <3>3. BooksOK' /\ Books(0, 0, 0, 0, 0)
        BY <1>1, <2>1, <2>2, <2>3, NothingBooked
      <3> QED
        BY <3>2, <3>3 DEF BookingStep
    <2>4. CASE ~HasRoom(queue)
      <3>1. Divert(r, "queue_full") /\ "queue_full" \in Reasons
        BY <2>2, <2>4 DEF Arrive, Reasons
      <3> QED
        BY <1>1, <2>1, <2>2, <2>4, <3>1, DivertBooked, UnsettledPlaces
    <2> QED
      BY <2>3, <2>4
  <1>4. ASSUME NEW r \in Requests, CountedResume(r)
        PROVE  BookingStep /\ BooksOK'
    <2>1. CASE pc[r] = "dispatched"
      <3>1. count' = count /\ BeginProxy(r, target[r])
        BY <1>4, <2>1 DEF CountedResume, Resume
      <3>2. Stays(r) /\ NotRetried(r)
        BY <2>1, <3>1, BeginUnsettled, UnsettledPlaces DEF Stays
      <3>3. BooksOK' /\ Books(0, 0, 0, 0, 0)
        BY <1>1, <3>1, NothingBooked
      <3> QED
        BY <3>2, <3>3 DEF BookingStep
    <2>2. ASSUME NEW reason \in Reasons, pc[r] \in {"timedout", "rejected"},
                 Divert(r, reason), count' = Diverted(count, reason)
          PROVE  BookingStep /\ BooksOK'
      BY <1>1, <2>2, DivertBooked, UnsettledPlaces
    <2>3. {"queue_age", "no_backend"} \subseteq Reasons
      BY DEF Reasons
    <2> QED
      BY <1>4, <2>1, <2>2, <2>3 DEF CountedResume, Resume
  <1>5. ASSUME NEW r \in Requests, RejectOverdue(r),
               count' = Rejected(count, "queue_age")
        PROVE  BookingStep /\ BooksOK'
    <2>1. /\ pc[r] = "overdue" /\ pc' = [pc EXCEPT ![r] = "rejected"]
          /\ attempts' = attempts
      BY <1>5 DEF RejectOverdue, Become
    <2>2. Stays(r) /\ NotRetried(r)
      BY <2>1, UnsettledPlaces DEF Stays, NotRetried
    <2>3. /\ count'.dispatch = count.dispatch /\ count'.errors = count.errors
          /\ count'.latency = count.latency /\ count'.retries = count.retries
          /\ count'.fallback = count.fallback
      BY <1>1, <1>5 DEF Rejected, Counters
    <2>4. BooksOK' /\ Books(0, 0, 0, 0, 0)
      BY <1>1, <2>3, NothingBooked
    <2> QED
      BY <2>2, <2>4 DEF BookingStep
  <1>6. ASSUME NEW r \in Requests, Assign(r),
               count' = [count EXCEPT !.dispatch[target'[r]] = @ + 1]
        PROVE  BookingStep /\ BooksOK'
    <2>1. PICK b \in Eligible(backend, NoTarget) : target' = [target EXCEPT ![r] = b]
      BY <1>6 DEF Assign
    <2>2. target'[r] = b /\ b \in Backends
      BY <1>1, <2>1 DEF HandlersOK, Eligible
    <2>3. BooksOK' /\ Books(1, 0, 0, 0, 0)
      BY <1>1, <1>6, <2>2, Entries
    <2>4. /\ pc[r] = "waiting" /\ pc' = [pc EXCEPT ![r] = "dispatched"]
          /\ attempts' = attempts
      BY <1>6 DEF Assign, Become
    <2>5. Enters(r) /\ NotRetried(r)
      BY <2>4, UnsettledPlaces DEF Enters, NotRetried
    <2> QED
      BY <2>3, <2>5 DEF BookingStep
  <1>7. ASSUME NEW r \in Requests, Age(r) \/ TimerFires(r), count' = count
        PROVE  BookingStep /\ BooksOK'
    <2>1. /\ pc[r] \in {"waiting", "overdue"} /\ attempts' = attempts
          /\ \E p \in {"overdue", "timedout"} : pc' = [pc EXCEPT ![r] = p]
      BY <1>7 DEF Age, TimerFires, Become
    <2>2. Stays(r) /\ NotRetried(r)
      BY <2>1, UnsettledPlaces DEF Stays, NotRetried
    <2>3. BooksOK' /\ Books(0, 0, 0, 0, 0)
      BY <1>1, <1>7, NothingBooked
    <2> QED
      BY <2>2, <2>3 DEF BookingStep
  <1>8. CASE CountedTick
    BY <1>2, <1>5, <1>6, <1>8 DEF CountedTick, TickBegin, TickEnd, Skip, Hold
  <1>9. CASE \E r \in Requests : CountedResult(r)
    BY <1>1, <1>9, ResultBooked
  <1> QED
    BY <1>2, <1>3, <1>4, <1>7, <1>8, <1>9 DEF MNext, Cooldown, vars

-----------------------------------------------------------------------------
(* The theorems about attempts.                                            *)

\* What is counted and not settled is an unsettled handler.
Balanced ==
  Total(count.dispatch) + count.fallback
    = HandlersIn(Unsettled) + count.latency + Total(count.errors)

LEMMA BalancedAccounts ==
  ASSUME BooksOK
  PROVE  AttemptsAccounted <=> (Outcomes \cap Leaks = {} => Balanced)
  <1> DEFINE S == {r \in Requests : pc[r] \in Sent}
             U == {r \in Requests : pc[r] \in Unsent}
             A == {r \in Requests : pc[r] \in Unsettled}
  <1>1. IsFiniteSet(S) /\ IsFiniteSet(U)
    BY ProxyAssumption, FS_Subset
  <1>2. S \cap U = {} /\ A = S \cup U
    BY DEF Sent, Unsent, Unsettled, Outstanding
  <1>3. Cardinality(S) \in Nat /\ Cardinality(U) \in Nat
    BY <1>1, FS_CardinalityType
  <1>4. Cardinality(A) = Cardinality(S) + Cardinality(U)
    <2> HIDE DEF S, U, A
    <2>1. /\ Cardinality(S \cup U)
               = Cardinality(S) + Cardinality(U) - Cardinality(S \cap U)
          /\ Cardinality(S \cap U) = 0
      BY <1>1, <1>2, FS_Union, FS_EmptySet
    <2> QED
      BY <1>2, <1>3, <2>1
  <1>5. /\ HandlersIn(Sent) = Cardinality(S) /\ HandlersIn(Unsent) = Cardinality(U)
        /\ HandlersIn(Unsettled) = Cardinality(A)
    BY DEF HandlersIn
  <1>6. /\ Total(count.dispatch) \in Nat /\ Total(count.errors) \in Nat
        /\ count.fallback \in Nat /\ count.latency \in Nat
    BY TotalIsNat DEF BooksOK, Counters
  <1>7. AttemptsAccounted <=>
          (Outcomes \cap Leaks = {} =>
             Total(count.dispatch) + count.fallback - HandlersIn(Unsent)
               = HandlersIn(Sent) + count.latency + Total(count.errors))
    BY DEF AttemptsAccounted, Sent, Unsent
  <1> HIDE DEF S, U, A
  <1> QED
    BY <1>3, <1>4, <1>5, <1>6, <1>7 DEF Balanced

LEMMA BookingKeepsBalance ==
  ASSUME pc \in [Requests -> Places], BooksOK, BookingStep, Balanced,
         Outcomes \cap Leaks = {}
  PROVE  Balanced'
  <1>1. /\ Total(count.dispatch) \in Nat /\ Total(count.errors) \in Nat
        /\ count.fallback \in Nat /\ count.latency \in Nat
    BY TotalIsNat DEF BooksOK, Counters
  <1>2. HandlersIn(Unsettled) \in Nat
    <2>1. IsFiniteSet({r \in Requests : pc[r] \in Unsettled})
      BY ProxyAssumption, FS_Subset
    <2> QED
      BY <2>1, FS_CardinalityType DEF HandlersIn
  <1>3. ASSUME UNCHANGED pc
        PROVE  HandlersIn(Unsettled)' = HandlersIn(Unsettled)
    BY <1>3 DEF HandlersIn
  <1>4. ASSUME NEW r \in Requests
        PROVE  /\ Stays(r) => HandlersIn(Unsettled)' = HandlersIn(Unsettled)
               /\ Enters(r) => HandlersIn(Unsettled)' = HandlersIn(Unsettled) + 1
               /\ Exits(r) => HandlersIn(Unsettled)' = HandlersIn(Unsettled) - 1
    <2>1. ASSUME NEW p \in Places, pc' = [pc EXCEPT ![r] = p]
          PROVE  /\ HandlersIn(Unsettled)' \in Nat
                 /\ (p \in Unsettled <=> pc[r] \in Unsettled)
                      => HandlersIn(Unsettled)' = HandlersIn(Unsettled)
                 /\ p \in Unsettled /\ pc[r] \notin Unsettled
                      => HandlersIn(Unsettled)' = HandlersIn(Unsettled) + 1
                 /\ p \notin Unsettled /\ pc[r] \in Unsettled
                      => HandlersIn(Unsettled) = HandlersIn(Unsettled)' + 1
      BY <2>1, HandlersMove
    <2> QED
      BY <1>2, <2>1, UnsettledPlaces DEF Stays, Enters, Exits
  <1>5. CASE Books(0, 0, 0, 0, 0) /\ UNCHANGED <<pc, attempts>>
    BY <1>1, <1>2, <1>3, <1>5 DEF Books, Balanced
  <1>6. ASSUME NEW r \in Requests, Books(0, 0, 0, 0, 0), Stays(r)
        PROVE  Balanced'
    BY <1>1, <1>2, <1>4, <1>6 DEF Books, Balanced
  <1>7. ASSUME NEW r \in Requests, Enters(r),
               Books(1, 0, 0, 0, 0) \/ Books(0, 1, 0, 0, 0)
        PROVE  Balanced'
    <2>1. HandlersIn(Unsettled)' = HandlersIn(Unsettled) + 1
      BY <1>4, <1>7
    <2>2. CASE Books(1, 0, 0, 0, 0)
      BY <1>1, <1>2, <2>1, <2>2 DEF Books, Balanced
    <2>3. CASE Books(0, 1, 0, 0, 0)
      BY <1>1, <1>2, <2>1, <2>3 DEF Books, Balanced
    <2> QED
      BY <1>7, <2>2, <2>3
  <1>8. ASSUME NEW r \in Requests, Exits(r),
               \/ Books(0, 0, 1, 0, 0)
               \/ Books(0, 0, 0, 1, 0)
               \/ Books(0, 0, 0, 1, 1)
        PROVE  Balanced'
    BY <1>1, <1>2, <1>4, <1>8 DEF Books, Balanced
  <1>9. CASE Books(1, 0, 0, 1, 1) /\ UNCHANGED pc
    BY <1>1, <1>2, <1>3, <1>9 DEF Books, Balanced
  <1> QED
    BY <1>5, <1>6, <1>7, <1>8, <1>9 DEF BookingStep

\* The retries made are those counted, or fewer; no more than the errors are.
RetriesBooked == IsFiniteSet(Units(RetriesOf)) /\ RetriesCounted

\* No step makes a retry that it does not count, or counts one without an error.
LEMMA BookingMovesRetries ==
  ASSUME attempts \in [Requests -> 0..MaxAttempts], BooksOK, BookingStep,
         IsFiniteSet(Units(RetriesOf))
  PROVE  /\ IsFiniteSet(Units(RetriesOf')) /\ RetriesInVain <= RetriesInVain'
         /\ count'.retries - count.retries
              <= Total(count'.errors) - Total(count.errors)
         /\ UNCHANGED attempts => Total(RetriesOf') = Total(RetriesOf)
  <1>1. /\ Total(count.errors) \in Nat /\ count.retries \in Nat
        /\ Total(RetriesOf) \in Nat /\ MaxAttempts \in Nat
    BY TotalIsNat, ProxyAssumption DEF BooksOK, Counters
  <1>2. /\ RetriesOf \in [Requests -> Nat]
        /\ \A r \in Requests :
             RetriesOf[r] = IF attempts[r] = 0 THEN 0 ELSE attempts[r] - 1
    BY <1>1 DEF RetriesOf
  <1>3. ASSUME UNCHANGED attempts
        PROVE  IsFiniteSet(Units(RetriesOf')) /\ Total(RetriesOf') = Total(RetriesOf)
    <2>1. RetriesOf' = RetriesOf
      BY <1>3 DEF RetriesOf
    <2> QED
      BY <2>1
  <1>4. ASSUME NEW r \in Requests, NotRetried(r)
        PROVE  IsFiniteSet(Units(RetriesOf')) /\ Total(RetriesOf') <= Total(RetriesOf)
    <2>1. CASE attempts' = attempts
      BY <1>1, <1>3, <2>1
    <2>2. CASE attempts' = [attempts EXCEPT ![r] = 1]
      <3>1. \A x \in Requests : attempts'[x] = IF x = r THEN 1 ELSE attempts[x]
        BY <2>2
      <3>2. /\ RetriesOf' \in [Requests -> Nat]
            /\ \A x \in Requests :
                 RetriesOf'[x] = IF attempts'[x] = 0 THEN 0 ELSE attempts'[x] - 1
        BY <1>1, <3>1 DEF RetriesOf
      <3>3. \A x \in Requests : RetriesOf'[x] <= RetriesOf[x]
        BY <1>1, <1>2, <3>1, <3>2
      <3> QED
        BY <1>2, <3>2, <3>3, FewerUnits
    <2> QED
      BY <1>4, <2>1, <2>2 DEF NotRetried
  <1>5. ASSUME NEW r \in Requests, attempts[r] >= 1,
               attempts' = [attempts EXCEPT ![r] = @ + 1]
        PROVE  IsFiniteSet(Units(RetriesOf')) /\ Total(RetriesOf') = Total(RetriesOf) + 1
    <2>1. \A x \in Requests :
            attempts'[x] = IF x = r THEN attempts[r] + 1 ELSE attempts[x]
      BY <1>5
    <2>2. RetriesOf' = [x \in Requests |->
                          IF attempts'[x] = 0 THEN 0 ELSE attempts'[x] - 1]
      BY DEF RetriesOf
    <2>3. RetriesOf' = [RetriesOf EXCEPT ![r] = @ + 1]
      <3>1. \A x \in Requests :
              (IF attempts'[x] = 0 THEN 0 ELSE attempts'[x] - 1)
                = IF x = r THEN RetriesOf[r] + 1 ELSE RetriesOf[x]
        BY <1>1, <1>2, <1>5, <2>1
      <3>2. [RetriesOf EXCEPT ![r] = @ + 1]
              = [x \in Requests |-> IF x = r THEN RetriesOf[r] + 1 ELSE RetriesOf[x]]
        BY <1>2
      <3> QED
        BY <2>2, <3>1, <3>2
    <2> QED
      BY <1>2, <2>3, OneUnitMore
  <1> DEFINE Moved ==
        /\ IsFiniteSet(Units(RetriesOf')) /\ RetriesInVain <= RetriesInVain'
        /\ count'.retries - count.retries
             <= Total(count'.errors) - Total(count.errors)
  <1>6. ASSUME NEW r \in Requests, NotRetried(r) \/ UNCHANGED attempts,
               \E d, f, l, e, x \in {0, 1} : Books(d, f, l, e, x) /\ x <= e
        PROVE  Moved
    <2>1. PICK d \in {0, 1}, f \in {0, 1}, l \in {0, 1}, e \in {0, 1}, x \in {0, 1} :
            Books(d, f, l, e, x) /\ x <= e
      BY <1>6
    <2>2. /\ count'.retries = count.retries + x
          /\ Total(count'.errors) = Total(count.errors) + e
      BY <2>1 DEF Books
    <2>3. /\ IsFiniteSet(Units(RetriesOf')) /\ Total(RetriesOf') <= Total(RetriesOf)
      BY <1>1, <1>3, <1>4, <1>6
    <2>4. Total(RetriesOf') \in Nat
      BY <2>3, TotalIsNat
    <2> QED
      BY <1>1, <2>1, <2>2, <2>3, <2>4 DEF RetriesInVain
  <1>7. ASSUME NEW r \in Requests, Books(1, 0, 0, 1, 1), attempts[r] >= 1,
               attempts' = [attempts EXCEPT ![r] = @ + 1]
        PROVE  Moved
    <2>1. IsFiniteSet(Units(RetriesOf')) /\ Total(RetriesOf') = Total(RetriesOf) + 1
      BY <1>5, <1>7
    <2>2. /\ count'.retries = count.retries + 1
          /\ Total(count'.errors) = Total(count.errors) + 1
      BY <1>7 DEF Books
    <2> QED
      BY <1>1, <2>1, <2>2 DEF RetriesInVain
  <1>8. CASE Books(0, 0, 0, 0, 0) /\ UNCHANGED attempts
    <2>1. Moved
      BY <1>1, <1>3, <1>8 DEF Books, RetriesInVain
    <2> QED
      BY <1>3, <2>1
  <1>9. Moved
    BY <1>6, <1>7, <1>8 DEF BookingStep
  <1> QED
    BY <1>3, <1>9

LEMMA BookingKeepsRetries ==
  ASSUME attempts \in [Requests -> 0..MaxAttempts], BooksOK, BooksOK', BookingStep,
         RetriesBooked
  PROVE  RetriesBooked'
  <1>1. /\ Total(count.errors) \in Nat /\ count.retries \in Nat
        /\ Total(count'.errors) \in Nat /\ count'.retries \in Nat
        /\ Total(RetriesOf) \in Nat
    BY TotalIsNat DEF BooksOK, Counters, RetriesBooked
  <1>2. /\ IsFiniteSet(Units(RetriesOf')) /\ RetriesInVain <= RetriesInVain'
        /\ count'.retries - count.retries
             <= Total(count'.errors) - Total(count.errors)
    BY BookingMovesRetries DEF RetriesBooked
  <1>3. Total(RetriesOf') \in Nat
    BY <1>2, TotalIsNat
  <1> QED
    BY <1>1, <1>2, <1>3 DEF RetriesBooked, RetriesCounted, RetriesInVain

LEMMA BooksInvariance == MSpec => [](IInv /\ BooksOK)
  <1>1. MInit => BooksOK
    <2> SUFFICES ASSUME MInit
                 PROVE  BooksOK
      OBVIOUS
    <2>1. /\ count \in Counters
          /\ count.dispatch = [b \in Backends |-> 0]
          /\ count.errors = [t \in Backends \cup {Fallback} |-> 0]
      BY DEF MInit, Counters
    <2>2. IsFiniteSet(Units(count.dispatch)) /\ IsFiniteSet(Units(count.errors))
      BY <2>1, NoUnits DEF Counters
    <2> QED
      BY <2>1, <2>2 DEF BooksOK
  <1>2. IInv /\ BooksOK /\ [MNext]_<<vars, count>> => BooksOK'
    BY CountedIsBookingStep
  <1> QED
    BY <1>1, <1>2, CountersOnlyWatch, Invariance, PTL DEF MSpec

\* For any requests, backends, attempts and streams: a dispatch is under way, is
\* in the books once, as a latency or an error, or was never sent.
THEOREM AttemptsAlwaysAccounted == MSpec => []AttemptsAccounted
  <1> DEFINE Kept == Outcomes \cap Leaks = {} => Balanced
  <1>1. MInit => Kept
    <2> SUFFICES ASSUME MInit
                 PROVE  Balanced
      OBVIOUS
    <2>1. /\ count.dispatch = [b \in Backends |-> 0]
          /\ count.errors = [t \in Backends \cup {Fallback} |-> 0]
          /\ count.fallback = 0 /\ count.latency = 0
      BY DEF MInit
    <2>2. Total(count.dispatch) = 0 /\ Total(count.errors) = 0
      BY <2>1, NoUnits
    <2>3. HandlersIn(Unsettled) = 0
      <3>1. {r \in Requests : pc[r] \in Unsettled} = {}
        BY UnsettledPlaces DEF MInit, Init
      <3> QED
        BY <3>1, FS_EmptySet DEF HandlersIn
    <2> QED
      BY <2>1, <2>2, <2>3 DEF Balanced
  <1>2. IInv /\ BooksOK /\ Kept /\ [MNext]_<<vars, count>> => Kept'
    <2> SUFFICES ASSUME IInv, BooksOK, Kept, [MNext]_<<vars, count>>,
                        Outcomes \cap Leaks = {}
                 PROVE  Balanced'
      OBVIOUS
    <2> QED
      BY CountedIsBookingStep, BookingKeepsBalance DEF IInv, HandlersOK
  <1>3. BooksOK /\ Kept => AttemptsAccounted
    BY BalancedAccounts
  <1> QED
    BY <1>1, <1>2, <1>3, BooksInvariance, PTL DEF MSpec

LEMMA NothingRetried ==
  ASSUME MInit
  PROVE  RetriesBooked /\ count.retries = 0 /\ Total(RetriesOf) = 0
  <1>1. /\ count.errors = [t \in Backends \cup {Fallback} |-> 0]
        /\ count.retries = 0
        /\ RetriesOf = [r \in Requests |-> 0]
    BY DEF MInit, Init, RetriesOf
  <1>2. /\ Total(count.errors) = 0 /\ Total(RetriesOf) = 0
        /\ IsFiniteSet(Units(RetriesOf))
    BY <1>1, NoUnits
  <1> QED
    BY <1>1, <1>2 DEF RetriesBooked, RetriesCounted

\* The retry counter misses no retry, whatever comes of the attempts, and counts
\* none without an error.
THEOREM RetriesAlwaysCounted == MSpec => []RetriesCounted
  <1>1. MInit => RetriesBooked
    BY NothingRetried
  <1>2. IInv /\ BooksOK /\ RetriesBooked /\ [MNext]_<<vars, count>> => RetriesBooked'
    BY CountedIsBookingStep, BookingKeepsRetries DEF IInv, HandlersOK
  <1>3. RetriesBooked => RetriesCounted
    BY DEF RetriesBooked
  <1> QED
    BY <1>1, <1>2, <1>3, BooksInvariance, PTL DEF MSpec

-----------------------------------------------------------------------------
(* Overruns.                                                               *)

\* r leaves with a second release, and a retry is counted that is not made.
InVain(r) ==
  LeavesTwice(r) /\ UNCHANGED attempts /\ count'.retries = count.retries + 1

LEMMA FailureLoad ==
  ASSUME count \in Counters, NEW r, NEW retryable \in BOOLEAN,
         FailureEnds(r, retryable), count' = Failed(r, retryable)
  PROVE  SingleRelease(r) \/ InVain(r)
  <1>1. CASE Answered(r) /\ Leaves(r)
    BY <1>1 DEF SingleRelease
  <1>2. CASE Retried(r)
    BY <1>2 DEF Retried, SingleRelease
  <1>3. CASE retryable /\ Answered(r) /\ LeavesTwice(r) /\ attempts[r] < MaxAttempts
    <2>1. UNCHANGED attempts
      BY <1>3 DEF Answered, Answer
    <2>2. count' = [Erred(count, target[r]) EXCEPT !.retries = @ + 1]
      BY <1>3, <2>1 DEF Failed
    <2>3. count'.retries = count.retries + 1
      BY <2>2 DEF Erred, Counters
    <2> QED
      BY <1>3, <2>1, <2>3 DEF InVain
  <1> QED
    BY <1>1, <1>2, <1>3 DEF FailureEnds

\* The counts of the backends follow every result but a retry in vain.
LEMMA ResultLoad ==
  ASSUME GoodRows(backend), count \in Counters, NEW r \in Requests, CountedResult(r)
  PROVE  SingleRelease(r) \/ InVain(r)
  <1>1. CASE Succeed(r) \/ StreamStatus(r) \/ StreamUnreachable(r) \/ StreamFinish(r)
    BY <1>1, SettledEffect DEF SingleRelease
  <1>2. ASSUME NEW outcome \in BadStatus, FailWith(r, outcome),
               count' = Failed(r, outcome # "client_error")
        PROVE  SingleRelease(r) \/ InVain(r)
    <2> DEFINE retryable == outcome # "client_error"
    <2>1. /\ FailureEnds(r, retryable) /\ count' = Failed(r, retryable)
          /\ retryable \in BOOLEAN
      BY <1>2, FailedEffect
    <2> HIDE DEF retryable
    <2> QED
      BY <2>1, FailureLoad
  <1>3. CASE TransportFailure(r) /\ count' = Failed(r, TRUE)
    BY <1>3, FailedEffect, FailureLoad
  <1>4. CASE StreamHeaders(r)
    BY <1>4, HeadersEffect DEF HeadersSeen, SingleRelease
  <1>5. CASE Crash(r) \/ AbandonStream(r)
    <2>1. /\ Outcomes \cap Leaks # {} /\ Escaped(r) /\ backend' = backend
      BY <1>5 DEF Crash, AbandonStream, Leaks, Escaped
    <2>2. LeavesUnreleased(r)
      BY <2>1 DEF Escaped, Answer, LeavesUnreleased, SameLoad
    <2> QED
      BY <2>1, <2>2 DEF SingleRelease
  <1> QED
    BY <1>1, <1>2, <1>3, <1>4, <1>5 DEF CountedResult

\* So do they every other step: only a handler that awaits its upstream can
\* leave its target twice.
LEMMA CountedLoad ==
  ASSUME IInv, count \in Counters, [MNext]_<<vars, count>>
  PROVE  Idle \/ \E r \in Requests : SingleRelease(r) \/ InVain(r)
  <1>1. ASSUME NEW r \in Requests, RequestStep(r), pc[r] \notin Outstanding
        PROVE  SingleRelease(r)
    BY <1>1 DEF RequestStep, LoadStep
  <1>2. ASSUME NEW r \in Requests,
               Arrive(r) \/ Age(r) \/ TimerFires(r) \/ Resume(r)
        PROVE  SingleRelease(r)
    <2>1. pc[r] \notin Outstanding
      BY <1>2 DEF Arrive, Age, TimerFires, Resume, Outstanding
    <2> QED
      BY <1>1, <1>2, <2>1, HandlerAction
  <1>3. ASSUME NEW r \in Requests, RejectOverdue(r) \/ Hold(r) \/ Assign(r)
        PROVE  Idle \/ SingleRelease(r)
    <2>1. pc[r] \notin Outstanding
      BY <1>3 DEF RejectOverdue, Hold, Assign, Outstanding
    <2> QED
      BY <1>1, <1>3, <2>1, TickRequestOK
  <1>4. CASE CountedTick
    BY <1>3, <1>4, TickFrameOK DEF CountedTick
  <1>5. CASE \E b \in Backends : Cooldown(b)
    BY <1>5, CooldownOK
  <1>6. CASE UNCHANGED vars
    BY <1>6, StutterOK
  <1>7. CASE \E r \in Requests : CountedResult(r)
    BY <1>7, ResultLoad DEF IInv
  <1> QED
    BY <1>2, <1>4, <1>5, <1>6, <1>7 DEF MNext, CountedArrive, CountedResume

\* The requests at a backend are more than its count by the retries in vain at
\* most.
OverrunOwed ==
  \A b \in Backends :
    /\ In(target, b) <= backend[b].inflight + RetriesInVain
    /\ InLarge(target, b) <= backend[b].large + RetriesInVain

LEMMA OverrunStep ==
  ASSUME IInv, BooksOK, RetriesBooked, OverrunOwed, [MNext]_<<vars, count>>
  PROVE  OverrunOwed'
  <1> DEFINE v == RetriesInVain
  <1>1. /\ GoodRows(backend) /\ GoodRows(backend') /\ [Next]_vars
        /\ target \in [Requests -> Targets] /\ count \in Counters
        /\ attempts \in [Requests -> 0..MaxAttempts]
    BY CountedStep, StepOK DEF IInv, HandlersOK, BooksOK
  <1>2. /\ v \in Int /\ v' \in Int /\ v <= v'
        /\ UNCHANGED attempts /\ count'.retries = count.retries + 1 => v' = v + 1
    <2>1. BookingStep /\ BooksOK'
      BY CountedIsBookingStep
    <2>2. /\ IsFiniteSet(Units(RetriesOf)) /\ IsFiniteSet(Units(RetriesOf'))
          /\ v <= v'
          /\ UNCHANGED attempts => Total(RetriesOf') = Total(RetriesOf)
      BY <1>1, <2>1, BookingMovesRetries DEF RetriesBooked
    <2>3. /\ Total(RetriesOf) \in Nat /\ Total(RetriesOf') \in Nat
          /\ count.retries \in Nat /\ count'.retries \in Nat
      BY <2>1, <2>2, TotalIsNat DEF BooksOK, Counters
    <2> QED
      BY <2>2, <2>3 DEF RetriesInVain
  <1>3. ASSUME NEW b \in Backends
        PROVE  /\ backend[b].inflight \in Nat /\ backend[b].large \in Nat
               /\ backend'[b].inflight \in Nat /\ backend'[b].large \in Nat
               /\ In(target, b) \in Nat /\ InLarge(target, b) \in Nat
               /\ In(target', b) \in Nat /\ InLarge(target', b) \in Nat
               /\ In(target, b) <= backend[b].inflight + v
               /\ InLarge(target, b) <= backend[b].large + v
    BY <1>1, CountsInRow, CrowdCounts DEF OverrunOwed, GoodRows, BackendStates
  <1> HIDE DEF v
  <1>4. CASE Idle
    <2>1. ASSUME NEW b \in Backends
          PROVE  /\ In(target', b) <= backend'[b].inflight + v'
                 /\ InLarge(target', b) <= backend'[b].large + v'
      BY <1>2, <1>3, <1>4 DEF Idle, HandlersRest, SameLoad
    <2> QED
      BY <2>1 DEF OverrunOwed, v
  <1>5. ASSUME NEW r \in Requests, SingleRelease(r) \/ InVain(r)
        PROVE  OverrunOwed'
    <2>1. ASSUME NEW b \in Backends
          PROVE  /\ In(target', b) <= backend'[b].inflight + v'
                 /\ InLarge(target', b) <= backend'[b].large + v'
      <3>1. OnceBooked(r, b) \/ (TwiceBooked(r, b) /\ v' = v + 1)
        BY <1>1, <1>2, <1>5, Booked DEF InVain
      <3>2. CASE SameLoad(backend[b], backend'[b]) /\ SameCrowd(b)
        BY <1>2, <1>3, <3>2 DEF SameLoad, SameCrowd
      <3>3. CASE Lowered(backend[b], backend'[b], r \in Large) /\ OneLess(r, b)
        BY <1>2, <1>3, <3>3 DEF Lowered, OneLess
      <3>4. CASE Raised(backend[b], backend'[b], r \in Large) /\ OneMore(r, b)
        BY <1>2, <1>3, <3>4 DEF Raised, OneMore
      <3>5. CASE SameLoad(backend[b], backend'[b]) /\ OneLess(r, b)
        BY <1>2, <1>3, <3>5 DEF SameLoad, OneLess
      <3>6. CASE TwiceBooked(r, b) /\ v' = v + 1
        <4>1. PICK s \in BackendStates : /\ Lowered(backend[b], s, r \in Large)
                                         /\ Lowered(s, backend'[b], r \in Large)
          BY <3>6 DEF TwiceBooked
        <4>2. s.inflight \in Nat /\ s.large \in Nat
          BY DEF BackendStates
        <4> QED
          BY <1>2, <1>3, <3>6, <4>1, <4>2 DEF Lowered, OneLess, TwiceBooked
      <3> QED
        BY <3>1, <3>2, <3>3, <3>4, <3>5, <3>6 DEF OnceBooked
    <2> QED
      BY <2>1 DEF OverrunOwed, v
  <1> QED
    BY <1>1, <1>4, <1>5, CountedLoad

LEMMA OverrunInvariance == MSpec => [](RetriesBooked /\ OverrunOwed)
  <1>1. MInit => RetriesBooked /\ OverrunOwed
    <2> SUFFICES ASSUME MInit
                 PROVE  RetriesBooked /\ OverrunOwed
      OBVIOUS
    <2>1. RetriesBooked /\ RetriesInVain = 0
      BY NothingRetried DEF RetriesInVain
    <2>2. Covered
      BY LedgerInit DEF MInit
    <2>3. ASSUME NEW b \in Backends
          PROVE  backend[b].inflight + 0 = backend[b].inflight
                 /\ backend[b].large + 0 = backend[b].large
      BY DEF MInit, Init, NewBackend
    <2> QED
      BY <2>1, <2>2, <2>3 DEF Covered, OverrunOwed
  <1>2. /\ IInv /\ BooksOK /\ RetriesBooked /\ [MNext]_<<vars, count>>
             => RetriesBooked'
        /\ IInv /\ BooksOK /\ RetriesBooked /\ OverrunOwed /\ [MNext]_<<vars, count>>
             => OverrunOwed'
    BY CountedIsBookingStep, BookingKeepsRetries, OverrunStep DEF IInv, HandlersOK
  <1> QED
    BY <1>1, <1>2, BooksInvariance, PTL DEF MSpec

\* For any numbers of attempts: a request at a backend that its count misses is
\* paid for by a retry that was counted and found no backend.
THEOREM OverrunAlwaysAccounted == MSpec => []OverrunAccounted
  <1>1. OverrunOwed => OverrunAccounted
    BY ServingCounted DEF OverrunOwed, OverrunAccounted
  <1> QED
    BY <1>1, OverrunInvariance, PTL

\* So many requests at a backend above its hard_limit are possible, and no more.
OverrunBounded ==
  \A b \in Backends : Cardinality(Serving(b)) <= HardLimit[b] + RetriesInVain

\* The load a backend can really see, with retries: hard_limit is passed by no
\* more than the retries in vain of the whole run.
THEOREM OverrunAlwaysBounded == MSpec => []OverrunBounded
  <1>1. IInv /\ BooksOK /\ RetriesBooked /\ OverrunOwed => OverrunBounded
    <2> SUFFICES ASSUME IInv, BooksOK, RetriesBooked, OverrunOwed, NEW b \in Backends
                 PROVE  Cardinality(Serving(b)) <= HardLimit[b] + RetriesInVain
      BY DEF OverrunBounded
    <2>1. /\ backend[b].inflight \in Nat /\ HardLimit[b] \in Nat
          /\ backend[b].inflight <= HardLimit[b]
      BY CountsInRow, ProxyAssumption DEF IInv, GoodRows
    <2>2. RetriesInVain \in Int
      BY TotalIsNat DEF RetriesInVain, RetriesBooked, BooksOK, Counters
    <2>3. /\ In(target, b) \in Nat /\ Cardinality(Serving(b)) = In(target, b)
          /\ In(target, b) <= backend[b].inflight + RetriesInVain
      BY CrowdCounts, ServingCounted DEF OverrunOwed
    <2> QED
      BY <2>1, <2>2, <2>3
  <1> QED
    BY <1>1, BooksInvariance, OverrunInvariance, PTL

-----------------------------------------------------------------------------
(* The gauges.                                                             *)

\* The gauge of the queue is right at every step, those of a tick included.
DepthShown ==
  /\ gauges = [depth |-> gauges.depth, rows |-> gauges.rows]
  /\ gauges.depth = Len(queue)

\* With its gauges the gateway does what it does without them.
LEMMA GaugedStep ==
  /\ GaugedTick => TickStep
  /\ [GNext]_gaugeVars => [Next]_vars
  <1>1. GaugedTick => TickStep
    BY DEF GaugedTick, GaugedTickBegin, GaugedTickEnd, TickStep
  <1> QED
    BY <1>1 DEF GNext, Next, GaugedArrive, Scrape, gaugeVars

\* Every operation of the queue is followed by its gauge.
LEMMA DepthKept ==
  ASSUME QueueOK, DepthShown, [GNext]_gaugeVars
  PROVE  DepthShown'
  <1>1. CASE UNCHANGED gaugeVars
    BY <1>1 DEF gaugeVars, vars, DepthShown
  <1>2. CASE Scrape
    <2>1. gauges' = [gauges EXCEPT !.rows = Shown(backend)] /\ queue' = queue
      BY <1>2 DEF Scrape, vars
    <2> QED
      BY <2>1 DEF DepthShown
  <1>3. CASE GaugedTickBegin
    BY <1>3 DEF GaugedTickBegin, DepthShown
  <1>4. CASE GaugedTickEnd
    <2>1. held = <<>> => queue' = queue
      BY <1>4, ConcatEmptySeq DEF GaugedTickEnd, TickEnd, RequeueFront, QueueOK
    <2> QED
      BY <1>4, <2>1 DEF GaugedTickEnd, DepthShown
  <1>5. CASE Unshown /\ UNCHANGED queue
    BY <1>5 DEF Unshown, DepthShown
  <1>6. ASSUME NEW r \in Requests,
               (Skip(r) \/ RejectOverdue(r) \/ Hold(r) \/ Assign(r)) /\ Unshown
        PROVE  DepthShown'
    BY <1>5, <1>6 DEF Skip, RejectOverdue, Hold, Assign
  <1>7. ASSUME NEW r \in Requests, GaugedArrive(r)
        PROVE  DepthShown'
    <2>1. CASE HasRoom(queue)
      BY <1>7, <2>1 DEF GaugedArrive, ShowDepth, DepthShown
    <2>2. CASE ~HasRoom(queue)
      BY <1>5, <1>7, <2>2 DEF GaugedArrive, Arrive
    <2> QED
      BY <2>1, <2>2
  <1>8. ASSUME NEW r \in Requests,
               (Age(r) \/ TimerFires(r) \/ Resume(r) \/ Proceed(r)) /\ Unshown
        PROVE  DepthShown'
    BY <1>5, <1>8 DEF Age, TimerFires, Resume, Proceed, schedulerVars
  <1>9. ASSUME NEW b \in Backends, Cooldown(b) /\ Unshown
        PROVE  DepthShown'
    BY <1>5, <1>9 DEF Cooldown, schedulerVars
  <1> QED
    BY <1>1, <1>2, <1>3, <1>4, <1>6, <1>7, <1>8, <1>9 DEF GNext, GaugedTick

\* With its gauges the gateway does what it does without them, so the theorems
\* about Spec hold of it.
THEOREM GaugesOnlyWatch == GSpec => Spec
  <1>1. GInit => Init
    BY DEF GInit
  <1> QED
    BY <1>1, GaugedStep, PTL DEF GSpec, Spec

\* Between ticks the depth shown is that of all requests without a backend, for
\* any queue and batch sizes.
THEOREM QueueAlwaysShown == GSpec => []QueueShown
  <1>1. GInit => DepthShown
    BY EmptySeq DEF GInit, Init, DepthShown
  <1>2. IInv /\ DepthShown /\ [GNext]_gaugeVars => DepthShown'
    BY DepthKept DEF IInv
  <1>3. IInv /\ DepthShown => QueueShown
    <2> SUFFICES ASSUME IInv, DepthShown, LoopFree
                 PROVE  gauges.depth = Len(Line)
      BY DEF QueueShown
    <2>1. Line = queue
      BY ConcatEmptySeq DEF LoopFree, IInv, QueueOK, Line
    <2> QED
      BY <2>1 DEF DepthShown
  <1> QED
    BY <1>1, <1>2, <1>3, GaugesOnlyWatch, Invariance, PTL DEF GSpec

=============================================================================
