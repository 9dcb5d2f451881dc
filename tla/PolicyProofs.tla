---------------------------- MODULE PolicyProofs ----------------------------
(***************************************************************************)
(* What is proved of the choice of a backend: pick_backend finds the first *)
(* of the lowest scores, the score respects every measure it reads, and    *)
(* over any run the hot penalty and the error cap keep off a backend what  *)
(* they are meant to.                                                      *)
(***************************************************************************)
EXTENDS Placement, BackendStateProofs, FiniteSetTheorems, WellFoundedInduction,
        TLAPS

-----------------------------------------------------------------------------
(* Arithmetic.                                                             *)

LEMMA ProductMonotone ==
  ASSUME NEW c \in Nat, NEW a \in Nat, NEW b \in Nat, a <= b
  PROVE  /\ c * a \in Nat /\ c * b \in Nat
         /\ c * a <= c * b
  OBVIOUS

LEMMA QuotientMonotone ==
  ASSUME NEW d \in Nat \ {0}, NEW a \in Nat, NEW b \in Nat, a <= b
  PROVE  /\ a \div d \in Nat /\ b \div d \in Nat
         /\ a \div d <= b \div d
  OBVIOUS

\* A nonempty set of naturals has a least member.
LEMMA LeastExists ==
  ASSUME NEW T, T \subseteq Nat, T # {}
  PROVE  \E m \in T : \A n \in T : m <= n
  <1>1. PICK m \in T : \A n \in T : ~(<<n, m>> \in OpToRel(<, Nat))
    BY NatLessThanWellFounded, WFMin
  <1>2. \A n \in T : ~(n < m)
    BY <1>1 DEF OpToRel
  <1> QED
    BY <1>2

-----------------------------------------------------------------------------
(* Classes (classifier.py).                                                *)

\* From 8000 tokens on a request counts as large, below 4001 none does, and a
\* larger estimate never takes a request out of the large ones.  An estimate
\* may be negative: max_tokens is not checked.
THEOREM ClassBySize ==
  ASSUME NEW stream \in BOOLEAN, NEW m \in Int, NEW n \in Int, m <= n
  PROVE  /\ m >= 8000 => ClassOf(m, stream) \in Heavy
         /\ ClassOf(m, stream) \in Heavy => m >= 4001
         /\ ClassOf(m, stream) \in Heavy => ClassOf(n, stream) \in Heavy
  BY DEF ClassOf, Heavy

-----------------------------------------------------------------------------
(* Scores (scoring.py).                                                    *)

\* Every term of a score, and so the score, is a natural number.
LEMMA HotMonotone ==
  ASSUME NEW v \in Views, NEW w \in Views, NEW total \in Nat,
         v.recent <= w.recent
  PROVE  /\ HotPenalty(v, total) \in Nat /\ HotPenalty(w, total) \in Nat
         /\ HotPenalty(v, total) <= HotPenalty(w, total)
  <1> DEFINE x == 100 * v.recent - HotTarget * total
             y == 100 * w.recent - HotTarget * total
             d == 10000 * total * total
  <1>1. v.recent \in Nat /\ w.recent \in Nat /\ HotTarget \in Nat /\ HotWeight \in Nat
    BY RoutingAssumption DEF Views
  <1>2. HotTarget * total \in Nat
    BY <1>1
  <1>3. x \in Int /\ y \in Int /\ x <= y
    BY <1>1, <1>2
  <1>4. CASE total = 0 \/ y <= 0
    BY <1>3, <1>4 DEF HotPenalty
  <1>5. CASE total # 0 /\ y > 0
    <2>1. d \in Nat \ {0}
      BY <1>5
    <2>2. HotPenalty(w, total) = (HotWeight * y * y) \div d
      BY <1>3, <1>5 DEF HotPenalty
    <2>3. HotWeight * y * y \in Nat
      <3>1. HotWeight * y \in Nat
        BY <1>1, <1>3, <1>5, ProductMonotone
      <3> HIDE DEF x, y
      <3> QED
        BY <3>1, <1>3, <1>5, ProductMonotone
    <2>4. CASE x <= 0
      <3>1. HotPenalty(v, total) = 0
        BY <2>4 DEF HotPenalty
      <3> HIDE DEF x, y, d
      <3> QED
        BY <3>1, <2>1, <2>2, <2>3, QuotientMonotone
    <2>5. CASE x > 0
      <3>1. HotPenalty(v, total) = (HotWeight * x * x) \div d
        BY <1>3, <1>5, <2>5 DEF HotPenalty
      <3> HIDE DEF x, y, d
      <3>2. /\ HotWeight * x \in Nat /\ HotWeight * y \in Nat
            /\ HotWeight * x <= HotWeight * y
        BY <1>1, <1>3, <1>5, <2>5, ProductMonotone
      <3>3. /\ (HotWeight * x) * x \in Nat
            /\ (HotWeight * x) * x <= (HotWeight * x) * y
        BY <3>2, <1>3, <1>5, <2>5, ProductMonotone
      <3>4. y * (HotWeight * x) <= y * (HotWeight * y)
        BY <3>2, <1>3, <1>5, ProductMonotone
      <3>5. (HotWeight * x) * x <= (HotWeight * y) * y
        BY <3>2, <3>3, <3>4, <1>3
      <3> QED
        BY <3>1, <3>3, <3>5, <2>1, <2>2, <2>3, QuotientMonotone
    <2> QED
      BY <1>3, <2>4, <2>5
  <1> QED
    BY <1>3, <1>4, <1>5

LEMMA OverloadMonotone ==
  ASSUME NEW v \in Views, NEW w \in Views,
         v.inflight - v.soft <= w.inflight - w.soft
  PROVE  /\ OverloadPenalty(v) \in Nat /\ OverloadPenalty(w) \in Nat
         /\ OverloadPenalty(v) <= OverloadPenalty(w)
  <1>1. /\ v.inflight \in Nat /\ v.soft \in Nat
        /\ w.inflight \in Nat /\ w.soft \in Nat
        /\ OverloadWeight \in Nat
    BY RoutingAssumption DEF Views
  <1>2. CASE w.inflight <= w.soft
    BY <1>1, <1>2 DEF OverloadPenalty
  <1>3. CASE w.inflight > w.soft
    <2> DEFINE y == w.inflight - w.soft
    <2>1. y \in Nat /\ OverloadPenalty(w) = OverloadWeight * y
      BY <1>1, <1>3 DEF OverloadPenalty
    <2>2. CASE v.inflight <= v.soft
      <3>1. OverloadPenalty(v) = 0
        BY <2>2 DEF OverloadPenalty
      <3> HIDE DEF y
      <3> QED
        BY <1>1, <2>1, <3>1, ProductMonotone
    <2>3. CASE v.inflight > v.soft
      <3> DEFINE x == v.inflight - v.soft
      <3>1. x \in Nat /\ x <= y /\ OverloadPenalty(v) = OverloadWeight * x
        BY <1>1, <2>3 DEF OverloadPenalty
      <3> HIDE DEF x, y
      <3> QED
        BY <1>1, <2>1, <3>1, ProductMonotone
    <2> QED
      BY <1>1, <2>2, <2>3
  <1> QED
    BY <1>1, <1>2, <1>3

LEMMA ErrorsMonotone ==
  ASSUME NEW m \in 0..ErrorScale, NEW n \in 0..ErrorScale, m <= n
  PROVE  /\ (ErrorWeight * m) \div ErrorScale \in Nat
         /\ (ErrorWeight * n) \div ErrorScale \in Nat
         /\ (ErrorWeight * m) \div ErrorScale <= (ErrorWeight * n) \div ErrorScale
  <1>1. m \in Nat /\ n \in Nat /\ ErrorWeight \in Nat /\ ErrorScale \in Nat \ {0}
    BY HealthAssumption, RoutingAssumption
  <1>2. /\ ErrorWeight * m \in Nat /\ ErrorWeight * n \in Nat
        /\ ErrorWeight * m <= ErrorWeight * n
    BY <1>1, ProductMonotone
  <1> QED
    BY <1>1, <1>2, QuotientMonotone

LEMMA ClassPenaltyMonotone ==
  ASSUME NEW v \in Views, NEW w \in Views, NEW heavy \in BOOLEAN,
         heavy \/ v.large <= w.large
  PROVE  /\ ClassPenalty(v, heavy) \in Nat /\ ClassPenalty(w, heavy) \in Nat
         /\ ClassPenalty(v, heavy) <= ClassPenalty(w, heavy)
  BY DEF Views, ClassPenalty, SmallerOf

LEMMA ScoreIsNat ==
  ASSUME NEW v \in Views, NEW heavy \in BOOLEAN, NEW total \in Nat
  PROVE  Score(v, heavy, total) \in Nat
  <1>1. /\ InflightWeight * v.inflight \in Nat
        /\ TtftWeight * v.ttft \in Nat
        /\ E2eWeight * v.e2e \in Nat
    BY RoutingAssumption DEF Views
  <1>2. (ErrorWeight * v.errors) \div ErrorScale \in Nat
    BY HealthAssumption, ErrorsMonotone DEF Views
  <1>3. HotPenalty(v, total) \in Nat
    BY HotMonotone DEF Views
  <1>4. OverloadPenalty(v) \in Nat
    BY OverloadMonotone DEF Views
  <1>5. ClassPenalty(v, heavy) \in Nat
    BY ClassPenaltyMonotone DEF Views
  <1> QED
    BY <1>1, <1>2, <1>3, <1>4, <1>5 DEF Score

\* A backend that is better in everything the score reads scores lower,
\* whatever the weights, provided that load counts at all.
THEOREM BetterScoresLower ==
  ASSUME NEW v \in Views, NEW w \in Views, NEW heavy \in BOOLEAN,
         NEW total \in Nat, Better(v, w, heavy), InflightWeight > 0
  PROVE  Score(v, heavy, total) < Score(w, heavy, total)
  <1>1. /\ InflightWeight * v.inflight \in Nat
        /\ InflightWeight * w.inflight \in Nat
        /\ InflightWeight * v.inflight < InflightWeight * w.inflight
    BY RoutingAssumption DEF Views, Better
  <1>2. /\ TtftWeight * v.ttft \in Nat /\ TtftWeight * w.ttft \in Nat
        /\ TtftWeight * v.ttft <= TtftWeight * w.ttft
        /\ E2eWeight * v.e2e \in Nat /\ E2eWeight * w.e2e \in Nat
        /\ E2eWeight * v.e2e <= E2eWeight * w.e2e
    BY RoutingAssumption, ProductMonotone DEF Views, Better
  <1>3. /\ (ErrorWeight * v.errors) \div ErrorScale \in Nat
        /\ (ErrorWeight * w.errors) \div ErrorScale \in Nat
        /\ (ErrorWeight * v.errors) \div ErrorScale
             <= (ErrorWeight * w.errors) \div ErrorScale
    BY ErrorsMonotone DEF Views, Better
  <1>4. /\ HotPenalty(v, total) \in Nat /\ HotPenalty(w, total) \in Nat
        /\ HotPenalty(v, total) <= HotPenalty(w, total)
    BY HotMonotone DEF Better
  <1>5. /\ OverloadPenalty(v) \in Nat /\ OverloadPenalty(w) \in Nat
        /\ OverloadPenalty(v) <= OverloadPenalty(w)
    BY OverloadMonotone DEF Better
  <1>6. /\ ClassPenalty(v, heavy) \in Nat /\ ClassPenalty(w, heavy) \in Nat
        /\ ClassPenalty(v, heavy) <= ClassPenalty(w, heavy)
    BY ClassPenaltyMonotone DEF Better
  <1> QED
    BY <1>1, <1>2, <1>3, <1>4, <1>5, <1>6 DEF Score

\* A share of all that is penalized, is penalized in full.
LEMMA QuotientCancel ==
  ASSUME NEW a \in Nat, NEW d \in Nat \ {0}, NEW k \in Nat \ {0}
  PROVE  (a * k) \div (d * k) = a \div d
  <1> DEFINE q == a \div d
  <1>1. q \in Nat /\ d * q <= a /\ a < d * q + d
    OBVIOUS
  <1> HIDE DEF q
  <1> DEFINE x == a * k
             e == d * k
  <1>2. x \in Nat /\ e \in Nat \ {0}
    OBVIOUS
  <1>3. e * q <= x /\ x < e * q + e
    <2>1. d * q \in Nat /\ k * (d * q) <= k * a
      BY <1>1, ProductMonotone
    <2>2. d * q + d - a \in Nat \ {0}
      BY <1>1
    <2>3. k * (d * q + d - a) > 0
      BY <2>2
    <2> QED
      BY <2>1, <2>3, <1>1
  <1> HIDE DEF x, e
  <1>4. x \div e = q
    BY <1>1, <1>2, <1>3
  <1> QED
    BY <1>4 DEF x, e, q

LEMMA MonopolyPaysInFull ==
  ASSUME NEW v \in Views, NEW total \in Nat \ {0}, v.recent = total
  PROVE  HotPenalty(v, total) = FullHotPenalty
  <1> DEFINE g == 100 - HotTarget
             excess == 100 * v.recent - HotTarget * total
  <1>1. g \in Nat /\ HotWeight \in Nat /\ HotTarget \in Nat
    BY RoutingAssumption
  <1>2. excess = g * total
    BY <1>1
  <1>3. CASE g = 0
    <2>1. excess <= 0
      BY <1>2, <1>3
    <2>2. HotPenalty(v, total) = 0
      BY <2>1 DEF HotPenalty
    <2>3. FullHotPenalty = (HotWeight * g * g) \div 10000
      BY DEF FullHotPenalty
    <2> HIDE DEF g
    <2>4. HotWeight * g * g = 0
      BY <1>1, <1>3
    <2> QED
      BY <2>2, <2>3, <2>4
  <1>4. CASE g # 0
    <2>1. ~(excess <= 0)
      <3> HIDE DEF excess, g
      <3>1. g * total > 0
        BY <1>1, <1>4
      <3> QED
        BY <1>1, <1>2, <3>1
    <2>2. HotPenalty(v, total) = (HotWeight * excess * excess) \div (10000 * total * total)
      BY <2>1 DEF HotPenalty
    <2>3. FullHotPenalty = (HotWeight * g * g) \div 10000
      BY DEF FullHotPenalty
    <2> HIDE DEF excess, g
    <2> DEFINE a == HotWeight * g * g
               k == total * total
    <2>4. a \in Nat /\ k \in Nat \ {0}
      <3>1. HotWeight * g \in Nat
        BY <1>1
      <3>2. (HotWeight * g) * g \in Nat
        BY <1>1, <3>1
      <3> QED
        BY <3>2
    <2>5. HotWeight * excess * excess = a * k
      BY <1>1, <1>2
    <2>6. 10000 * total * total = 10000 * k
      OBVIOUS
    <2> HIDE DEF a, k
    <2>7. (a * k) \div (10000 * k) = a \div 10000
      BY <2>4, QuotientCancel
    <2> QED
      BY <2>2, <2>3, <2>5, <2>6, <2>7 DEF a
  <1> QED
    BY <1>3, <1>4

\* pick_backend returns a candidate with the lowest score, and the first of
\* these in the order of the configuration: every earlier one scores higher
\* (scoring.py, a stable sort).
THEOREM PickIsLowest ==
  ASSUME NEW D \in SUBSET Nat, D # {}, NEW views \in [D -> Views],
         NEW heavy \in BOOLEAN, NEW total \in Nat
  PROVE  /\ Pick(views, heavy, total) \in D
         /\ \A i \in D : Score(views[Pick(views, heavy, total)], heavy, total)
                           <= Score(views[i], heavy, total)
         /\ \A i \in D : i < Pick(views, heavy, total) =>
              Score(views[Pick(views, heavy, total)], heavy, total)
                < Score(views[i], heavy, total)
  <1> DEFINE score == Scores(views, heavy, total)
             values == {score[i] : i \in D}
  <1>1. /\ DOMAIN score = D
        /\ \A i \in D : score[i] = Score(views[i], heavy, total) /\ score[i] \in Nat
    BY ScoreIsNat DEF Scores
  <1> HIDE DEF score
  <1>2. PICK m \in values : \A n \in values : m <= n
    <2>1. values \subseteq Nat /\ values # {}
      BY <1>1
    <2> HIDE DEF values
    <2> QED
      BY <2>1, LeastExists
  <1> DEFINE best == {i \in D : score[i] = m}
  <1>3. PICK first \in best : \A j \in best : first <= j
    BY LeastExists
  <1>4. first \in D /\ score[first] = m
    OBVIOUS
  <1>5. ASSUME NEW j \in D
        PROVE  score[first] < score[j] \/ (score[first] = score[j] /\ first <= j)
    <2>1. score[j] \in values /\ score[j] \in Nat /\ score[first] \in Nat
      BY <1>1, <1>4
    <2>2. m <= score[j]
      BY <1>2, <2>1
    <2>3. CASE score[j] = m
      BY <1>3, <1>4, <2>3
    <2>4. CASE score[j] # m
      BY <1>4, <2>1, <2>2, <2>4
    <2> QED
      BY <2>3, <2>4
  <1> DEFINE IsPick(i) == \A j \in DOMAIN score :
               score[i] < score[j] \/ (score[i] = score[j] /\ i <= j)
  <1>6. Pick(views, heavy, total) = CHOOSE i \in DOMAIN score : IsPick(i)
    BY DEF Pick, score
  <1>7. first \in DOMAIN score /\ IsPick(first)
    BY <1>1, <1>4, <1>5
  <1>8. /\ Pick(views, heavy, total) \in DOMAIN score
        /\ IsPick(Pick(views, heavy, total))
    <2> HIDE DEF IsPick
    <2> QED
      BY <1>6, <1>7
  <1>9. ASSUME NEW i \in D, NEW p \in D, IsPick(p)
        PROVE  score[p] <= score[i] /\ (i < p => score[p] < score[i])
    <2>1. score[i] \in Nat /\ score[p] \in Nat /\ i \in Nat /\ p \in Nat
      BY <1>1
    <2>2. score[p] < score[i] \/ (score[p] = score[i] /\ p <= i)
      BY <1>1, <1>9
    <2> HIDE DEF IsPick
    <2> QED
      BY <2>1, <2>2
  <1> HIDE DEF IsPick
  <1> QED
    BY <1>1, <1>8, <1>9

-----------------------------------------------------------------------------
(* The choice in a state of Placement.                                     *)

LEMMA CountIsNat ==
  ASSUME NEW q \in Seq(Backends), NEW P \in SUBSET DOMAIN q
  PROVE  IsFiniteSet(P) /\ Cardinality(P) \in Nat
  <1>1. Len(q) \in Nat /\ DOMAIN q = 1..Len(q)
    OBVIOUS
  <1>2. IsFiniteSet(1..Len(q))
    BY <1>1, FS_Interval
  <1> QED
    BY <1>1, <1>2, FS_Subset, FS_CardinalityType

LEMMA ViewTyped ==
  ASSUME TypeOK, NEW b \in Backends
  PROVE  View(b) \in Views
  <1>1. Recent(b) \in Nat
    BY CountIsNat DEF TypeOK, Recent
  <1>2. SoftLimit[b] \in Nat
    BY PlacementAssumption
  <1> QED
    BY <1>1, <1>2 DEF TypeOK, View, Views, BackendStates

LEMMA CandidatesTyped ==
  ASSUME TypeOK, NEW avoid
  PROVE  /\ Candidates(avoid) \in SUBSET Nat
         /\ \A i \in Candidates(avoid) : Order[i] \in Backends
         /\ RecentTotal(avoid) \in Nat
  <1>1. \A i \in DOMAIN Order : Order[i] \in Backends
    BY DEF Backends
  <1>2. DOMAIN Order = 1..Len(Order) /\ Len(Order) \in Nat
    BY PlacementAssumption
  <1>3. Candidates(avoid) \subseteq DOMAIN Order
    BY DEF Candidates
  <1>4. DOMAIN Order \subseteq Nat
    BY <1>2
  <1>5. RecentTotal(avoid) \in Nat
    BY CountIsNat DEF TypeOK, RecentTotal
  <1> QED
    BY <1>1, <1>3, <1>4, <1>5

\* What pick_backend returns is a candidate of the lowest score.
LEMMA ChosenScoresLowest ==
  ASSUME TypeOK, NEW avoid, Candidates(avoid) # {}, NEW heavy \in BOOLEAN
  PROVE  \E p \in Candidates(avoid) :
           /\ Chosen(avoid, heavy) = Order[p]
           /\ Order[p] \in Backends
           /\ \A i \in Candidates(avoid) :
                Score(View(Order[p]), heavy, RecentTotal(avoid))
                  <= Score(View(Order[i]), heavy, RecentTotal(avoid))
  <1> DEFINE D == Candidates(avoid)
             total == RecentTotal(avoid)
             views == [i \in D |-> View(Order[i])]
             p == Pick(views, heavy, total)
  <1>1. /\ D \in SUBSET Nat /\ total \in Nat
        /\ \A i \in D : Order[i] \in Backends
    BY CandidatesTyped
  <1>2. views \in [D -> Views]
    BY <1>1, ViewTyped
  <1>3. /\ p \in D
        /\ \A i \in D : Score(views[p], heavy, total) <= Score(views[i], heavy, total)
    <2> HIDE DEF views, D, total
    <2>1. D # {}
      BY DEF D
    <2> QED
      BY <1>1, <1>2, <2>1, PickIsLowest
  <1>4. Chosen(avoid, heavy) = Order[p]
    BY DEF Chosen
  <1> HIDE DEF p
  <1> QED
    BY <1>1, <1>3, <1>4

-----------------------------------------------------------------------------
(* The steps, and types.                                                   *)

LEMMA EwmaIsNat ==
  ASSUME NEW p \in Nat, NEW x \in Nat
  PROVE  Ewma(p, x) \in Nat
  BY DEF Ewma

LEMMA BlendTyped ==
  ASSUME TypeOK, NEW b \in Backends, NEW x \in Nat, NEW y \in Nat, Blend(b, x, y)
  PROVE  latency' \in [Backends -> [ttft : Nat, e2e : Nat]]
  <1>1. latency[b].ttft \in Nat /\ latency[b].e2e \in Nat
    BY DEF TypeOK
  <1>2. Ewma(latency[b].ttft, x) \in Nat /\ Ewma(latency[b].e2e, y) \in Nat
    BY <1>1, EwmaIsNat
  <1> QED
    BY <1>2 DEF TypeOK, Blend

LEMMA RecordedTyped ==
  ASSUME TypeOK, NEW b \in Backends
  PROVE  Recorded(b) \in Seq(Backends) /\ Len(Recorded(b)) <= WindowMax
  <1>1. /\ window \in Seq(Backends) /\ Len(window) \in Nat
        /\ Len(window) <= WindowMax /\ WindowMax \in 1..256
    BY PlacementAssumption DEF TypeOK
  <1>2. CASE Len(window) < WindowMax
    BY <1>1, <1>2 DEF Recorded
  <1>3. CASE ~(Len(window) < WindowMax)
    <2>1. window # <<>>
      BY <1>1, <1>3
    <2>2. Tail(window) \in Seq(Backends) /\ Len(Tail(window)) = Len(window) - 1
      BY <1>1, <2>1
    <2> QED
      BY <1>1, <1>3, <2>2 DEF Recorded
  <1> QED
    BY <1>2, <1>3

LEMMA ChargedTyped ==
  ASSUME TypeOK, NEW avoid, NEW b, NEW heavy \in BOOLEAN
  PROVE  Charged(avoid, b, heavy) \in [Backends -> BackendStates]
  <1>1. ASSUME NEW c \in Backends
        PROVE  /\ backend[c] \in BackendStates
               /\ MaybeTransitionFromOpen(backend[c]) \in BackendStates
               /\ Occupy(MaybeTransitionFromOpen(backend[c]), heavy) \in BackendStates
    <2>1. backend[c] \in BackendStates
      BY DEF TypeOK
    <2>2. MaybeTransitionFromOpen(backend[c]) \in BackendStates
      BY <2>1, TransitionPreserves
    <2> QED
      BY <2>1, <2>2, OccupyCounts
  <1> QED
    BY <1>1 DEF Charged

\* A step leaves row as the row of the target and keeps the request there.
Stays(s, row) ==
  /\ backend' = [backend EXCEPT ![job[s].at] = row]
  /\ job' = [job EXCEPT ![s].headers = TRUE]
  /\ UNCHANGED window

\* Each result settles the request, retries it, keeps it or forgets it.
LEMMA ResultCases ==
  ASSUME TypeOK, NEW s \in Slots, Result(s)
  PROVE  /\ job[s] # NoJob
         /\ latency' \in [Backends -> [ttft : Nat, e2e : Nat]]
         /\ \/ \E row \in BackendStates :
                 \/ Settle(s, row)
                 \/ Retry(s, row)
                 \/ Stays(s, row)
            \/ Leak(s)
  <1> DEFINE b == job[s].at
  <1>1. job[s] # NoJob
    BY DEF Result, Succeed, FailAgain, StreamFail, ClientError, StreamHeaders,
           StreamFinish, Leak, Waiting
  <1>2. /\ b \in Backends /\ Row(s) = backend[b] /\ Row(s) \in BackendStates
        /\ latency[b].ttft \in Nat
        /\ latency \in [Backends -> [ttft : Nat, e2e : Nat]]
    BY <1>1 DEF TypeOK, Jobs, Row
  <1>3. /\ UpdateSuccess(OnSuccess(Row(s))) \in BackendStates
        /\ UpdateFailure(OnFailure(Row(s))) \in BackendStates
        /\ UpdateSuccess(Row(s)) \in BackendStates
        /\ UpdateFailure(Row(s)) \in BackendStates
    <2>1. OnSuccess(Row(s)) \in BackendStates /\ OnFailure(Row(s)) \in BackendStates
      BY <1>2, OnSuccessPreserves, OnFailurePreserves
    <2> QED
      BY <1>2, <2>1, UpdatePreserves
  <1>4. Samples \subseteq Nat /\ TtftCap \in Nat
    BY PlacementAssumption
  <1> HIDE DEF b
  <1>5. CASE Succeed(s)
    <2>1. PICK e2e \in Samples : Blend(b, SmallerOf(e2e, TtftCap), e2e)
      BY <1>5 DEF Succeed, b
    <2>2. SmallerOf(e2e, TtftCap) \in Nat /\ e2e \in Nat
      BY <1>4 DEF SmallerOf
    <2> QED
      BY <1>1, <1>2, <1>3, <1>5, <2>1, <2>2, BlendTyped DEF Succeed
  <1>6. CASE FailAgain(s)
    BY <1>1, <1>2, <1>3, <1>6 DEF FailAgain, RetryOrSettle
  <1>7. CASE StreamFail(s)
    BY <1>1, <1>2, <1>3, <1>7 DEF StreamFail
  <1>8. CASE ClientError(s)
    BY <1>1, <1>2, <1>3, <1>8 DEF ClientError, RetryOrSettle
  <1>9. CASE StreamHeaders(s)
    <2>1. PICK ttft \in Samples : Blend(b, ttft, ttft)
      BY <1>9 DEF StreamHeaders, b
    <2>2. latency' \in [Backends -> [ttft : Nat, e2e : Nat]]
      BY <1>2, <1>4, <2>1, BlendTyped
    <2>3. Stays(s, UpdateSuccess(OnSuccess(Row(s))))
      BY <1>9 DEF StreamHeaders, Stays, Row
    <2> QED
      BY <1>1, <1>3, <2>2, <2>3
  <1>10. CASE StreamFinish(s)
    <2>1. PICK e2e \in Samples : Blend(b, latency[b].ttft, e2e)
      BY <1>10 DEF StreamFinish, b
    <2> QED
      BY <1>1, <1>2, <1>3, <1>4, <1>10, <2>1, BlendTyped DEF StreamFinish
  <1>11. CASE Leak(s)
    BY <1>1, <1>2, <1>11 DEF Leak
  <1> QED
    BY <1>5, <1>6, <1>7, <1>8, <1>9, <1>10, <1>11 DEF Result

\* What a retry does, with and without another backend.
LEMMA RetryCases ==
  ASSUME TypeOK, NEW s \in Slots, job[s] # NoJob, NEW row \in BackendStates,
         Retry(s, row)
  PROVE  LET a     == job[s].at
             heavy == job[s].heavy
         IN  /\ a \in Backends /\ heavy \in BOOLEAN
             /\ \/ \E p \in Candidates(a), t \in BackendStates :
                     /\ Chosen(a, heavy) = Order[p]
                     /\ Order[p] \in Backends /\ Order[p] # a
                     /\ backend' = [Charged(a, Order[p], heavy) EXCEPT ![a] = t]
                     /\ window' = Recorded(Order[p])
                     /\ job'[s] \in Jobs
                     /\ job'[s].at = Order[p] /\ job'[s].heavy = heavy
                     /\ job' = [job EXCEPT ![s] = job'[s]]
                \/ \E t \in BackendStates :
                     /\ backend' = [Charged(a, a, heavy) EXCEPT ![a] = t]
                     /\ job' = [job EXCEPT ![s] = NoJob]
                     /\ window' = window
  <1> DEFINE a == job[s].at
             heavy == job[s].heavy
             free == Release(row, heavy)
  <1>1. job[s] \in Jobs /\ a \in Backends /\ heavy \in BOOLEAN
    BY DEF TypeOK, Jobs
  <1>2. free \in BackendStates /\ Release(free, heavy) \in BackendStates
    <2> HIDE DEF heavy
    <2>1. free \in BackendStates
      BY <1>1, ReleaseCounts
    <2> HIDE DEF free
    <2> QED
      BY <1>1, <2>1, ReleaseCounts
  <1>3. CASE /\ Candidates(a) # {}
             /\ backend' = [Charged(a, Chosen(a, heavy), heavy) EXCEPT ![a] = free]
             /\ window' = Recorded(Chosen(a, heavy))
             /\ job' = [job EXCEPT ![s].at = Chosen(a, heavy), ![s].attempts = @ + 1]
             /\ job[s].attempts < MaxAttempts
    <2>1. PICK p \in Candidates(a) :
            Chosen(a, heavy) = Order[p] /\ Order[p] \in Backends
      BY <1>1, <1>3, ChosenScoresLowest
    <2>2. Order[p] # a
      BY DEF Candidates
    <2> DEFINE j == [job[s] EXCEPT !.at = Order[p], !.attempts = @ + 1]
    <2>3. job' = [job EXCEPT ![s] = j]
      BY <1>3, <2>1
    <2>4. job'[s] = j
      BY <2>3 DEF TypeOK
    <2>5. j \in Jobs /\ j.at = Order[p] /\ j.heavy = heavy
      <3>1. job[s].attempts + 1 \in 1..MaxAttempts
        BY <1>1, <1>3, PlacementAssumption DEF Jobs
      <3> QED
        BY <1>1, <2>1, <3>1 DEF Jobs
    <2> HIDE DEF a, heavy, free, j
    <2> QED
      BY <1>1, <1>2, <1>3, <2>1, <2>2, <2>3, <2>4, <2>5 DEF a, heavy
  <1>4. CASE /\ backend' = [Charged(a, a, heavy) EXCEPT ![a] = Release(free, heavy)]
             /\ job' = [job EXCEPT ![s] = NoJob]
             /\ UNCHANGED window
    <2> HIDE DEF free
    <2> QED
      BY <1>1, <1>2, <1>4
  <1> QED
    BY <1>3, <1>4 DEF Retry

\* What a dispatch does.
LEMMA DispatchCases ==
  ASSUME TypeOK, NEW s \in Slots, NEW body \in Bodies, Dispatch(s, body)
  PROVE  \E p \in Candidates(Nowhere), heavy \in BOOLEAN :
           /\ Chosen(Nowhere, heavy) = Order[p]
           /\ Order[p] \in Backends
           /\ backend' = Charged(Nowhere, Order[p], heavy)
           /\ window' = Recorded(Order[p])
           /\ latency' = latency
           /\ job[s] = NoJob /\ job'[s] \in Jobs
           /\ job'[s].at = Order[p] /\ job'[s].heavy = heavy
           /\ job' = [job EXCEPT ![s] = job'[s]]
  <1> DEFINE heavy == Classify(body) \in Heavy
             b == Chosen(Nowhere, heavy)
             j == [ at |-> b, heavy |-> heavy, stream |-> IsStream(body),
                    headers |-> FALSE, attempts |-> 1 ]
  <1>1. /\ job[s] = NoJob /\ Candidates(Nowhere) # {}
        /\ backend' = Charged(Nowhere, b, heavy)
        /\ window' = Recorded(b)
        /\ job' = [job EXCEPT ![s] = j]
        /\ latency' = latency
    BY DEF Dispatch
  <1>2. heavy \in BOOLEAN /\ IsStream(body) \in BOOLEAN
    BY DEF IsStream
  <1> HIDE DEF heavy
  <1>3. PICK p \in Candidates(Nowhere) : b = Order[p] /\ Order[p] \in Backends
    BY <1>1, <1>2, ChosenScoresLowest
  <1> HIDE DEF b
  <1>4. j \in Jobs /\ j.at = Order[p] /\ j.heavy = heavy
    BY <1>2, <1>3, PlacementAssumption DEF Jobs
  <1> HIDE DEF j
  <1>5. job'[s] = j
    BY <1>1 DEF TypeOK
  <1> QED
    BY <1>1, <1>2, <1>3, <1>4, <1>5 DEF b

LEMMA InitTyped ==
  ASSUME Init
  PROVE  TypeOK
  <1>1. NewBackend \in BackendStates
    BY NewBackendOK DEF RowOK
  <1>2. <<>> \in Seq(Backends) /\ Len(<<>>) <= WindowMax
    BY PlacementAssumption
  <1> QED
    BY <1>1, <1>2 DEF Init, TypeOK

LEMMA StepTyped ==
  ASSUME TypeOK, [Next]_vars
  PROVE  TypeOK'
  <1>1. ASSUME NEW s \in Slots, NEW body \in Bodies, Dispatch(s, body)
        PROVE  TypeOK'
    <2>1. PICK p \in Candidates(Nowhere), heavy \in BOOLEAN :
            /\ Order[p] \in Backends
            /\ backend' = Charged(Nowhere, Order[p], heavy)
            /\ window' = Recorded(Order[p])
            /\ latency' = latency
            /\ job'[s] \in Jobs
            /\ job' = [job EXCEPT ![s] = job'[s]]
      BY <1>1, DispatchCases
    <2>2. backend' \in [Backends -> BackendStates]
      BY <2>1, ChargedTyped
    <2>3. window' \in Seq(Backends) /\ Len(window)' <= WindowMax
      BY <2>1, RecordedTyped
    <2>4. job' \in [Slots -> Jobs \cup {NoJob}]
      BY <2>1 DEF TypeOK
    <2> QED
      BY <2>1, <2>2, <2>3, <2>4 DEF TypeOK
  <1>2. ASSUME NEW s \in Slots, Result(s)
        PROVE  TypeOK'
    <2>1. job[s] # NoJob /\ latency' \in [Backends -> [ttft : Nat, e2e : Nat]]
      BY <1>2, ResultCases
    <2>2. job[s] \in Jobs /\ job[s].at \in Backends /\ job[s].heavy \in BOOLEAN
      BY <2>1 DEF TypeOK, Jobs
    <2>3. ASSUME NEW row \in BackendStates, Settle(s, row)
          PROVE  TypeOK'
      <3>1. Release(row, job[s].heavy) \in BackendStates
        BY <2>2, ReleaseCounts
      <3> QED
        BY <2>1, <2>2, <2>3, <3>1 DEF TypeOK, Settle
    <2>4. ASSUME NEW row \in BackendStates, Retry(s, row)
          PROVE  TypeOK'
      <3> DEFINE a == job[s].at
                 heavy == job[s].heavy
      <3>1. CASE \E p \in Candidates(a), t \in BackendStates :
                   /\ Order[p] \in Backends
                   /\ backend' = [Charged(a, Order[p], heavy) EXCEPT ![a] = t]
                   /\ window' = Recorded(Order[p])
                   /\ job'[s] \in Jobs
                   /\ job' = [job EXCEPT ![s] = job'[s]]
        <4>1. PICK p \in Candidates(a), t \in BackendStates :
                /\ Order[p] \in Backends
                /\ backend' = [Charged(a, Order[p], heavy) EXCEPT ![a] = t]
                /\ window' = Recorded(Order[p])
                /\ job'[s] \in Jobs
                /\ job' = [job EXCEPT ![s] = job'[s]]
          BY <3>1
        <4>2. Charged(a, Order[p], heavy) \in [Backends -> BackendStates]
          BY <2>2, ChargedTyped
        <4>3. backend' \in [Backends -> BackendStates]
          BY <4>1, <4>2
        <4>4. window' \in Seq(Backends) /\ Len(window)' <= WindowMax
          BY <4>1, RecordedTyped
        <4>5. job' \in [Slots -> Jobs \cup {NoJob}]
          BY <4>1 DEF TypeOK
        <4> QED
          BY <2>1, <4>3, <4>4, <4>5 DEF TypeOK
      <3>2. CASE \E t \in BackendStates :
                   /\ backend' = [Charged(a, a, heavy) EXCEPT ![a] = t]
                   /\ job' = [job EXCEPT ![s] = NoJob]
                   /\ window' = window
        <4>1. Charged(a, a, heavy) \in [Backends -> BackendStates]
          BY <2>2, ChargedTyped
        <4>2. backend' \in [Backends -> BackendStates]
          BY <3>2, <4>1
        <4>3. job' \in [Slots -> Jobs \cup {NoJob}]
          BY <3>2 DEF TypeOK
        <4> QED
          BY <2>1, <3>2, <4>2, <4>3 DEF TypeOK
      <3> HIDE DEF a, heavy
      <3> QED
        BY <2>1, <2>4, <3>1, <3>2, RetryCases DEF a, heavy
    <2>5. ASSUME NEW row \in BackendStates, Stays(s, row)
          PROVE  TypeOK'
      <3>1. backend' \in [Backends -> BackendStates] /\ window' = window
        BY <2>5 DEF TypeOK, Stays
      <3>2. [job[s] EXCEPT !.headers = TRUE] \in Jobs
        BY <2>2 DEF Jobs
      <3>3. job' = [job EXCEPT ![s] = [job[s] EXCEPT !.headers = TRUE]]
        BY <2>5 DEF Stays
      <3>4. job' \in [Slots -> Jobs \cup {NoJob}]
        BY <3>2, <3>3 DEF TypeOK
      <3> QED
        BY <2>1, <3>1, <3>4 DEF TypeOK
    <2>6. ASSUME Leak(s)
          PROVE  TypeOK'
      BY <2>6 DEF TypeOK, Leak
    <2> QED
      BY <1>2, <2>3, <2>4, <2>5, <2>6, ResultCases
  <1>3. ASSUME NEW b \in Backends, Cooldown(b)
        PROVE  TypeOK'
    <2>1. [backend[b] EXCEPT !.timer = "elapsed"] \in BackendStates
      BY <1>3, CooldownPreserves DEF TypeOK, Cooldown
    <2> QED
      BY <1>3, <2>1 DEF TypeOK, Cooldown
  <1>4. CASE Forget
    <2>1. window \in Seq(Backends) /\ window # <<>> /\ Len(window) <= WindowMax
      BY <1>4, PlacementAssumption DEF TypeOK, Forget
    <2>2. window' \in Seq(Backends) /\ Len(window') = Len(window) - 1
      BY <1>4, <2>1 DEF Forget
    <2>3. Len(window)' <= WindowMax
      BY <2>1, <2>2, PlacementAssumption
    <2> QED
      BY <1>4, <2>2, <2>3 DEF TypeOK, Forget
  <1>5. CASE Tick
    <2>1. \A b \in Backends : MaybeTransitionFromOpen(backend[b]) \in BackendStates
      BY TransitionPreserves DEF TypeOK
    <2> QED
      BY <1>5, <2>1 DEF TypeOK, Tick
  <1>6. CASE UNCHANGED vars
    BY <1>6 DEF TypeOK, vars
  <1> QED
    BY <1>1, <1>2, <1>3, <1>4, <1>5, <1>6 DEF Next

\* No double release, late result or leak takes a count or an average below
\* zero, and no dispatch the window over its bound.
THEOREM PlacementTypeCorrect == Spec => []TypeOK
  BY InitTyped, StepTyped, PTL DEF Spec

-----------------------------------------------------------------------------
(* Where requests are sent.                                                *)

\* Every request sent goes to what pick_backend chooses.
LEMMA SentToChosen ==
  ASSUME TypeOK, [Next]_vars, NEW s \in Slots, Sent(s)
  PROVE  /\ job'[s].heavy \in BOOLEAN
         /\ \E p \in Candidates(Left(s)) :
              /\ job'[s].at = Order[p]
              /\ Chosen(Left(s), job'[s].heavy) = Order[p]
  <1> DEFINE Goal == /\ job'[s].heavy \in BOOLEAN
                     /\ \E p \in Candidates(Left(s)) :
                          /\ job'[s].at = Order[p]
                          /\ Chosen(Left(s), job'[s].heavy) = Order[p]
  <1>1. job'[s] # NoJob /\ (job[s] = NoJob \/ job'[s].at # job[s].at)
    BY DEF Sent
  <1>2. job'[s] # job[s]
    BY <1>1
  <1>3. job \in [Slots -> Jobs \cup {NoJob}]
    BY DEF TypeOK
  <1>4. ASSUME NEW r \in Slots, NEW body \in Bodies, Dispatch(r, body)
        PROVE  Goal
    <2>1. PICK p \in Candidates(Nowhere), heavy \in BOOLEAN :
            /\ Chosen(Nowhere, heavy) = Order[p]
            /\ job[r] = NoJob
            /\ job'[r].at = Order[p] /\ job'[r].heavy = heavy
            /\ job' = [job EXCEPT ![r] = job'[r]]
      BY <1>4, DispatchCases
    <2>2. s = r
      BY <1>2, <1>3, <2>1
    <2> QED
      BY <2>1, <2>2 DEF Left
  <1>5. ASSUME NEW r \in Slots, Result(r)
        PROVE  Goal
    <2>1. job[r] # NoJob
      BY <1>5, ResultCases
    <2>2. job[r] \in Jobs /\ job[r].heavy \in BOOLEAN
      BY <1>3, <2>1 DEF Jobs
    <2>3. ASSUME job' = [job EXCEPT ![r] = NoJob]
          PROVE  FALSE
      BY <1>1, <1>2, <1>3, <2>3
    <2>4. ASSUME NEW row \in BackendStates, Stays(r, row)
          PROVE  FALSE
      <3>1. s = r
        BY <1>2, <1>3, <2>4 DEF Stays
      <3>2. job'[s].at = job[s].at
        BY <1>3, <2>2, <2>4, <3>1 DEF Stays, Jobs
      <3> QED
        BY <1>1, <2>1, <3>1, <3>2
    <2>5. ASSUME NEW row \in BackendStates, Retry(r, row)
          PROVE  Goal
      <3> DEFINE a == job[r].at
                 heavy == job[r].heavy
      <3>1. \/ \E p \in Candidates(a) :
                 /\ Chosen(a, heavy) = Order[p]
                 /\ job'[r].at = Order[p] /\ job'[r].heavy = heavy
                 /\ job' = [job EXCEPT ![r] = job'[r]]
            \/ job' = [job EXCEPT ![r] = NoJob]
        BY <2>1, <2>5, RetryCases
      <3>2. PICK p \in Candidates(a) :
              /\ Chosen(a, heavy) = Order[p]
              /\ job'[r].at = Order[p] /\ job'[r].heavy = heavy
              /\ job' = [job EXCEPT ![r] = job'[r]]
        BY <2>3, <3>1
      <3>3. s = r
        BY <1>2, <1>3, <3>2
      <3>4. Left(s) = a
        BY <2>1, <3>3 DEF Left
      <3> QED
        BY <2>2, <3>2, <3>3, <3>4
    <2>6. ASSUME NEW row \in BackendStates, Settle(r, row)
          PROVE  FALSE
      BY <2>3, <2>6 DEF Settle
    <2>7. ASSUME Leak(r)
          PROVE  FALSE
      BY <2>3, <2>7 DEF Leak
    <2> HIDE DEF Goal
    <2> QED
      BY <1>5, <2>4, <2>5, <2>6, <2>7, ResultCases
  <1>6. ASSUME NEW b \in Backends, Cooldown(b)
        PROVE  FALSE
    BY <1>2, <1>6 DEF Cooldown
  <1>7. ~Tick /\ ~Forget /\ ~UNCHANGED vars
    BY <1>2 DEF Tick, Forget, vars
  <1> QED
    BY <1>4, <1>5, <1>6, <1>7 DEF Next

\* No candidate scores lower than the one a request is sent to.
LEMMA SentToLowest ==
  ASSUME TypeOK, [Next]_vars, NEW s \in Slots, Sent(s)
  PROVE  LET b     == job'[s].at
             heavy == job'[s].heavy
             total == RecentTotal(Left(s))
         IN  /\ b \in Backends /\ heavy \in BOOLEAN /\ total \in Nat
             /\ \E p \in Candidates(Left(s)) : Order[p] = b
             /\ \A i \in Candidates(Left(s)) :
                  /\ Order[i] \in Backends
                  /\ Score(View(b), heavy, total)
                       <= Score(View(Order[i]), heavy, total)
  <1>1. PICK p \in Candidates(Left(s)) :
          /\ job'[s].at = Order[p]
          /\ Chosen(Left(s), job'[s].heavy) = Order[p]
    BY SentToChosen
  <1>2. job'[s].heavy \in BOOLEAN
    BY SentToChosen
  <1>3. PICK q \in Candidates(Left(s)) :
          /\ Chosen(Left(s), job'[s].heavy) = Order[q]
          /\ Order[q] \in Backends
          /\ \A i \in Candidates(Left(s)) :
               Score(View(Order[q]), job'[s].heavy, RecentTotal(Left(s)))
                 <= Score(View(Order[i]), job'[s].heavy, RecentTotal(Left(s)))
    BY <1>1, <1>2, ChosenScoresLowest
  <1>4. Order[q] = job'[s].at
    BY <1>1, <1>3
  <1>5. /\ RecentTotal(Left(s)) \in Nat
        /\ \A i \in Candidates(Left(s)) : Order[i] \in Backends
    BY CandidatesTyped
  <1> QED
    BY <1>2, <1>3, <1>4, <1>5

\* Neither a dispatch nor a retry goes to a backend when an eligible one is
\* better in all that the score reads, for any weights, limits and bodies.
THEOREM NeverPlacedWorse ==
  ASSUME InflightWeight > 0
  PROVE  Spec => NeverToTheWorse
  <1> DEFINE Placed(s) ==
               Sent(s) =>
                 \A i \in Candidates(Left(s)) :
                   ~Better(View(Order[i]), View(job'[s].at), job'[s].heavy)
  <1>1. ASSUME TypeOK, [Next]_vars, NEW s \in Slots
        PROVE  Placed(s)
    <2> SUFFICES ASSUME Sent(s), NEW i \in Candidates(Left(s)),
                        Better(View(Order[i]), View(job'[s].at), job'[s].heavy)
                 PROVE  FALSE
      OBVIOUS
    <2> DEFINE v == View(Order[i])
               w == View(job'[s].at)
               heavy == job'[s].heavy
               total == RecentTotal(Left(s))
    <2>1. /\ job'[s].at \in Backends /\ Order[i] \in Backends
          /\ heavy \in BOOLEAN /\ total \in Nat
          /\ Score(w, heavy, total) <= Score(v, heavy, total)
      BY <1>1, SentToLowest
    <2>2. v \in Views /\ w \in Views
      BY <1>1, <2>1, ViewTyped
    <2> HIDE DEF v, w, heavy, total
    <2>3. Better(v, w, heavy)
      BY DEF v, w, heavy
    <2>4. Score(v, heavy, total) < Score(w, heavy, total)
      BY <2>1, <2>2, <2>3, BetterScoresLower
    <2>5. Score(v, heavy, total) \in Nat /\ Score(w, heavy, total) \in Nat
      BY <2>1, <2>2, ScoreIsNat
    <2> QED
      BY <2>1, <2>4, <2>5
  <1>2. TypeOK /\ [Next]_vars => [\A s \in Slots : Placed(s)]_vars
    BY <1>1
  <1> QED
    BY <1>2, PlacementTypeCorrect, PTL DEF Spec, NeverToTheWorse

-----------------------------------------------------------------------------
(* The hot penalty.                                                        *)

\* When b has every recent dispatch among the candidates, the others have none.
LEMMA OthersHaveNone ==
  ASSUME TypeOK, NEW avoid, NEW p \in Candidates(avoid), NEW i \in Candidates(avoid),
         Order[i] # Order[p], Recent(Order[p]) = RecentTotal(avoid)
  PROVE  Recent(Order[i]) = 0
  <1> DEFINE mine  == {k \in DOMAIN window : window[k] = Order[p]}
             all   == {k \in DOMAIN window :
                         \E j \in Candidates(avoid) : window[k] = Order[j]}
             other == {k \in DOMAIN window : window[k] = Order[i]}
  <1>1. IsFiniteSet(all) /\ mine \subseteq all
    BY CountIsNat DEF TypeOK
  <1>2. Cardinality(all) = Cardinality(mine)
    BY DEF Recent, RecentTotal
  <1>3. all = mine
    <2> HIDE DEF all, mine
    <2> QED
      BY <1>1, <1>2, FS_Subset
  <1>4. other = {}
    BY <1>3
  <1> QED
    BY <1>4, FS_EmptySet DEF Recent

\* Without recent dispatches a backend scores no more than Light weighs.
LEMMA UnusedScore ==
  ASSUME TypeOK, NEW b \in Backends, Recent(b) = 0, Light(b),
         NEW heavy \in BOOLEAN, NEW total \in Nat
  PROVE  Score(View(b), heavy, total) < FullHotPenalty
  <1> DEFINE v == View(b)
             u == [View(b) EXCEPT !.recent = 0]
  <1>1. v \in Views /\ v.recent = 0
    <2>1. v \in Views
      BY ViewTyped
    <2> QED
      BY <2>1 DEF View
  <1>2. u = v
    BY <1>1 DEF Views
  <1>3. Score(v, FALSE, 0) < FullHotPenalty
    BY <1>2 DEF Light
  <1> HIDE DEF v, u
  <1>4. HotPenalty(v, total) = 0 /\ HotPenalty(v, 0) = 0
    BY <1>1, RoutingAssumption DEF HotPenalty
  <1>5. /\ ClassPenalty(v, heavy) \in Nat /\ ClassPenalty(v, FALSE) \in Nat
        /\ ClassPenalty(v, heavy) <= ClassPenalty(v, FALSE)
    BY <1>1 DEF ClassPenalty, SmallerOf, Views
  <1> DEFINE rest == InflightWeight * v.inflight + TtftWeight * v.ttft
                       + E2eWeight * v.e2e + (ErrorWeight * v.errors) \div ErrorScale
             load == OverloadPenalty(v)
             large == ClassPenalty(v, heavy)
             most == ClassPenalty(v, FALSE)
  <1>6. rest \in Nat
    <2>1. (ErrorWeight * v.errors) \div ErrorScale \in Nat
      BY <1>1, ErrorsMonotone DEF Views
    <2>2. /\ InflightWeight * v.inflight \in Nat
          /\ TtftWeight * v.ttft \in Nat /\ E2eWeight * v.e2e \in Nat
      BY <1>1, RoutingAssumption DEF Views
    <2> QED
      BY <2>1, <2>2
  <1>7. load \in Nat
    BY <1>1, OverloadMonotone DEF Views
  <1>8. /\ Score(v, heavy, total) = rest + 0 + load + large
        /\ Score(v, FALSE, 0) = rest + 0 + load + most
    BY <1>4 DEF Score
  <1>9. FullHotPenalty \in Nat
    <2> DEFINE g == 100 - HotTarget
    <2>1. g \in Nat /\ HotWeight \in Nat
      BY RoutingAssumption
    <2>2. FullHotPenalty = (HotWeight * g * g) \div 10000
      BY DEF FullHotPenalty
    <2> HIDE DEF g
    <2>3. HotWeight * g \in Nat
      BY <2>1
    <2>4. (HotWeight * g) * g \in Nat
      BY <2>1, <2>3
    <2> QED
      BY <2>2, <2>4, QuotientMonotone
  <1>10. large \in Nat /\ most \in Nat /\ large <= most
    BY <1>5
  <1> HIDE DEF rest, load, large, most
  <1>11. rest + 0 + load + most < FullHotPenalty
    BY <1>3, <1>8
  <1>12. rest + 0 + load + large < FullHotPenalty
    BY <1>6, <1>7, <1>9, <1>10, <1>11
  <1> QED
    BY <1>8, <1>12 DEF v

\* The score of a backend with every recent dispatch.
LEMMA MonopolyScore ==
  ASSUME TypeOK, NEW b \in Backends, NEW heavy \in BOOLEAN,
         NEW total \in Nat \ {0}, Recent(b) = total
  PROVE  Score(View(b), heavy, total) >= FullHotPenalty
  <1> DEFINE v == View(b)
  <1>1. v \in Views /\ v.recent = total
    <2>1. v \in Views
      BY ViewTyped
    <2> QED
      BY <2>1 DEF View
  <1> HIDE DEF v
  <1>2. HotPenalty(v, total) = FullHotPenalty /\ HotPenalty(v, total) \in Nat
    BY <1>1, MonopolyPaysInFull, HotMonotone DEF Views
  <1>3. /\ (ErrorWeight * v.errors) \div ErrorScale \in Nat
        /\ InflightWeight * v.inflight \in Nat
        /\ TtftWeight * v.ttft \in Nat /\ E2eWeight * v.e2e \in Nat
        /\ OverloadPenalty(v) \in Nat /\ ClassPenalty(v, heavy) \in Nat
    <2>1. (ErrorWeight * v.errors) \div ErrorScale \in Nat
      BY <1>1, ErrorsMonotone DEF Views
    <2>2. /\ InflightWeight * v.inflight \in Nat
          /\ TtftWeight * v.ttft \in Nat /\ E2eWeight * v.e2e \in Nat
      BY <1>1, RoutingAssumption DEF Views
    <2>3. OverloadPenalty(v) \in Nat
      BY <1>1, OverloadMonotone DEF Views
    <2>4. ClassPenalty(v, heavy) \in Nat
      BY <1>1, ClassPenaltyMonotone DEF Views
    <2> QED
      BY <2>1, <2>2, <2>3, <2>4
  <1>4. Score(v, heavy, total) >= FullHotPenalty
    BY <1>2, <1>3 DEF Score
  <1> QED
    BY <1>4 DEF v

\* However the results have come, a backend with every recent dispatch among
\* the candidates gets no further request while another one weighs less than
\* the full hot penalty, for any weights and any number of backends.
THEOREM MonopolyEnds == Spec => NoMonopoly
  <1> DEFINE Shared(s) ==
               LET b == job'[s].at
               IN  Sent(s) /\ RecentTotal(Left(s)) > 0
                           /\ Recent(b) = RecentTotal(Left(s)) =>
                     \A i \in Candidates(Left(s)) : Order[i] = b \/ ~Light(Order[i])
  <1>1. ASSUME TypeOK, [Next]_vars, NEW s \in Slots
        PROVE  Shared(s)
    <2> DEFINE b == job'[s].at
               heavy == job'[s].heavy
               total == RecentTotal(Left(s))
    <2> SUFFICES ASSUME Sent(s), total > 0, Recent(b) = total,
                        NEW i \in Candidates(Left(s)),
                        Order[i] # b, Light(Order[i])
                 PROVE  FALSE
      OBVIOUS
    <2>1. /\ b \in Backends /\ Order[i] \in Backends
          /\ heavy \in BOOLEAN /\ total \in Nat
          /\ Score(View(b), heavy, total) <= Score(View(Order[i]), heavy, total)
      BY <1>1, SentToLowest
    <2>2. PICK p \in Candidates(Left(s)) : Order[p] = b
      BY <1>1, SentToLowest
    <2>3. Recent(Order[i]) = 0
      BY <1>1, <2>2, OthersHaveNone
    <2> HIDE DEF b, heavy, total
    <2>4. Score(View(Order[i]), heavy, total) < FullHotPenalty
      BY <1>1, <2>1, <2>3, UnusedScore
    <2>5. Score(View(b), heavy, total) >= FullHotPenalty
      BY <1>1, <2>1, MonopolyScore
    <2>6. /\ Score(View(b), heavy, total) \in Nat
          /\ Score(View(Order[i]), heavy, total) \in Nat
      BY <1>1, <2>1, ViewTyped, ScoreIsNat
    <2>7. FullHotPenalty \in Int
      BY RoutingAssumption DEF FullHotPenalty
    <2> QED
      BY <2>1, <2>4, <2>5, <2>6, <2>7
  <1>2. TypeOK /\ [Next]_vars => [\A s \in Slots : Shared(s)]_vars
    BY <1>1
  <1> QED
    BY <1>2, PlacementTypeCorrect, PTL DEF Spec, NoMonopoly

-----------------------------------------------------------------------------
(* The exclusion by the error average.                                     *)

LEMMA ChargedKeepsErrors ==
  ASSUME TypeOK, NEW avoid, NEW b, NEW c \in Backends, c # b, NEW heavy \in BOOLEAN
  PROVE  Charged(avoid, b, heavy)[c].errors = backend[c].errors
  <1>1. backend[c] \in BackendStates
    BY DEF TypeOK
  <1>2. MaybeTransitionFromOpen(backend[c]).errors = backend[c].errors
    BY <1>1 DEF MaybeTransitionFromOpen, BackendStates
  <1> QED
    BY <1>2 DEF Charged

\* A candidate is not kept out by its average.
LEMMA CandidateBelowCap ==
  ASSUME TypeOK, NEW avoid, NEW p \in Candidates(avoid), Order[p] \in Backends
  PROVE  backend[Order[p]].errors <= ErrorCap
  <1>1. backend[Order[p]] \in BackendStates
    BY DEF TypeOK
  <1>2. MaybeTransitionFromOpen(backend[Order[p]]).errors = backend[Order[p]].errors
    BY <1>1 DEF MaybeTransitionFromOpen, BackendStates
  <1> QED
    BY <1>2 DEF Candidates, IsHealthyForSchedule

\* No step ends the exclusion of a backend that has no request left.
LEMMA StepKeepsShutOut ==
  ASSUME TypeOK, [Next]_vars, NEW b \in Backends, ShutOut(b)
  PROVE  ShutOut(b)'
  <1>1. /\ backend[b].errors > ErrorCap
        /\ \A s \in Slots : job[s] # NoJob => job[s].at # b
        /\ job \in [Slots -> Jobs \cup {NoJob}]
        /\ backend \in [Backends -> BackendStates]
        /\ backend[b].errors \in Nat /\ ErrorCap \in Nat
    BY HealthAssumption DEF ShutOut, TypeOK, BackendStates
  <1>2. ASSUME backend'[b].errors = backend[b].errors,
               NEW s \in Slots, job' = [job EXCEPT ![s] = job'[s]],
               job'[s] # NoJob => job'[s].at # b
        PROVE  ShutOut(b)'
    BY <1>1, <1>2 DEF ShutOut
  <1>3. ASSUME NEW avoid, NEW p \in Candidates(avoid), Order[p] \in Backends
        PROVE  Order[p] # b
    BY <1>1, <1>3, CandidateBelowCap
  <1>4. ASSUME NEW s \in Slots, NEW body \in Bodies, Dispatch(s, body)
        PROVE  ShutOut(b)'
    <2>1. PICK p \in Candidates(Nowhere), heavy \in BOOLEAN :
            /\ Order[p] \in Backends
            /\ backend' = Charged(Nowhere, Order[p], heavy)
            /\ job'[s].at = Order[p]
            /\ job' = [job EXCEPT ![s] = job'[s]]
      BY <1>4, DispatchCases
    <2>2. Order[p] # b
      BY <1>3, <2>1
    <2> QED
      BY <1>2, <2>1, <2>2, ChargedKeepsErrors
  <1>5. ASSUME NEW s \in Slots, Result(s)
        PROVE  ShutOut(b)'
    <2>1. job[s] # NoJob
      BY <1>5, ResultCases
    <2>2. /\ job[s] \in Jobs /\ job[s].at \in Backends /\ job[s].heavy \in BOOLEAN
          /\ job[s].at # b
      BY <1>1, <2>1 DEF Jobs
    <2>3. ASSUME NEW row \in BackendStates, Settle(s, row)
          PROVE  ShutOut(b)'
      <3>1. backend'[b] = backend[b] /\ job' = [job EXCEPT ![s] = NoJob]
        BY <1>1, <2>2, <2>3 DEF Settle
      <3> QED
        BY <1>1, <1>2, <3>1
    <2>4. ASSUME NEW row \in BackendStates, Stays(s, row)
          PROVE  ShutOut(b)'
      <3>1. /\ backend'[b] = backend[b]
            /\ job' = [job EXCEPT ![s] = job'[s]] /\ job'[s].at = job[s].at
        BY <1>1, <2>2, <2>4 DEF Stays, Jobs
      <3> QED
        BY <1>2, <2>2, <3>1
    <2>5. ASSUME NEW row \in BackendStates, Retry(s, row)
          PROVE  ShutOut(b)'
      <3> DEFINE a == job[s].at
                 heavy == job[s].heavy
      <3>1. \/ \E p \in Candidates(a), t \in BackendStates :
                 /\ Order[p] \in Backends
                 /\ backend' = [Charged(a, Order[p], heavy) EXCEPT ![a] = t]
                 /\ job'[s].at = Order[p]
                 /\ job' = [job EXCEPT ![s] = job'[s]]
            \/ \E t \in BackendStates :
                 /\ backend' = [Charged(a, a, heavy) EXCEPT ![a] = t]
                 /\ job' = [job EXCEPT ![s] = NoJob]
        BY <2>1, <2>5, RetryCases
      <3> HIDE DEF a, heavy
      <3>2. a # b /\ heavy \in BOOLEAN
        BY <2>2 DEF a, heavy
      <3>3. CASE \E p \in Candidates(a), t \in BackendStates :
                   /\ Order[p] \in Backends
                   /\ backend' = [Charged(a, Order[p], heavy) EXCEPT ![a] = t]
                   /\ job'[s].at = Order[p]
                   /\ job' = [job EXCEPT ![s] = job'[s]]
        <4>1. PICK p \in Candidates(a), t \in BackendStates :
                /\ Order[p] \in Backends
                /\ backend' = [Charged(a, Order[p], heavy) EXCEPT ![a] = t]
                /\ job'[s].at = Order[p]
                /\ job' = [job EXCEPT ![s] = job'[s]]
          BY <3>3
        <4>2. Order[p] # b
          BY <1>3, <4>1
        <4>3. backend'[b] = Charged(a, Order[p], heavy)[b]
          BY <3>2, <4>1 DEF Charged
        <4> QED
          BY <1>2, <3>2, <4>1, <4>2, <4>3, ChargedKeepsErrors
      <3>4. CASE \E t \in BackendStates :
                   /\ backend' = [Charged(a, a, heavy) EXCEPT ![a] = t]
                   /\ job' = [job EXCEPT ![s] = NoJob]
        <4>1. backend'[b] = Charged(a, a, heavy)[b]
          BY <3>2, <3>4 DEF Charged
        <4>2. job'[s] = NoJob /\ job' = [job EXCEPT ![s] = job'[s]]
          BY <1>1, <3>4
        <4> QED
          BY <1>2, <3>2, <4>1, <4>2, ChargedKeepsErrors
      <3> QED
        BY <3>1, <3>3, <3>4
    <2>6. ASSUME Leak(s)
          PROVE  ShutOut(b)'
      <3>1. backend' = backend /\ job' = [job EXCEPT ![s] = NoJob]
        BY <2>6 DEF Leak
      <3> QED
        BY <1>1, <1>2, <3>1
    <2> QED
      BY <1>5, <2>3, <2>4, <2>5, <2>6, ResultCases
  <1>6. ASSUME NEW c \in Backends, Cooldown(c)
        PROVE  ShutOut(b)'
    <2>1. backend'[b].errors = backend[b].errors /\ job' = job
      BY <1>1, <1>6 DEF Cooldown, BackendStates
    <2> QED
      BY <1>1, <2>1 DEF ShutOut
  <1>7. CASE Tick
    <2>1. backend'[b].errors = backend[b].errors /\ job' = job
      BY <1>1, <1>7 DEF Tick, MaybeTransitionFromOpen, BackendStates
    <2> QED
      BY <1>1, <2>1 DEF ShutOut
  <1>8. CASE Forget \/ UNCHANGED vars
    BY <1>1, <1>8 DEF Forget, vars, ShutOut
  <1> QED
    BY <1>4, <1>5, <1>6, <1>7, <1>8 DEF Next

\* A backend above max_error_rate_for_eligibility with no request left is
\* excluded for ever, for any thresholds, limits and traffic.
THEOREM ExcludedForGood == Spec => ExclusionIsForGood
  <1>1. TypeOK /\ [Next]_vars => [\A b \in Backends : ShutOut(b) => ShutOut(b)']_vars
    BY StepKeepsShutOut
  <1> QED
    BY <1>1, PlacementTypeCorrect, PTL DEF Spec, ExclusionIsForGood

=============================================================================
