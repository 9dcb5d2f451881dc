------------------------------ MODULE Scoring ------------------------------
(***************************************************************************)
(* The score of a backend and the choice of the lowest                     *)
(* (scheduler/scoring.py), with the averages and the recent dispatches the *)
(* score reads (backends/state.py).                                        *)
(*                                                                         *)
(* Integers stand for the floats: scores are in half points, shares in per *)
(* cent, and latencies in a unit that the weights determine.  The score of *)
(* the code is this one before it is rounded down.                         *)
(***************************************************************************)
EXTENDS BackendState

CONSTANTS
  InflightWeight, TtftWeight, E2eWeight, ErrorWeight,
  HotWeight,         \* routing.hot_penalty_weight * 100, in half points
  HotTarget,         \* routing.hot_target_share
  OverloadWeight

ASSUME RoutingAssumption ==
  /\ InflightWeight \in Nat
  /\ TtftWeight \in Nat
  /\ E2eWeight \in Nat
  /\ ErrorWeight \in Nat
  /\ HotWeight \in Nat
  /\ HotTarget \in 0..100
  /\ OverloadWeight \in Nat

\* What the score reads of a row; recent is dispatch_share, the dispatches of
\* the last hot_window_sec.
Views ==
  [ inflight : Nat, large : Nat, soft : Nat,
    ttft : Nat, e2e : Nat, errors : 0..ErrorScale, recent : Nat ]

-----------------------------------------------------------------------------
(* The terms of the score.                                                 *)

SmallerOf(m, n) == IF m < n THEN m ELSE n

\* Three half points for each large request, at most ten.
ClassPenalty(v, heavy) == IF heavy THEN 0 ELSE SmallerOf(10, 3 * v.large)

\* Mutant of HotPenalty: a share above the target is never penalized.
NoHotPenalty(v, total) == 0

\* The square of what the share is above the target.
HotPenalty(v, total) ==
  LET excess == 100 * v.recent - HotTarget * total
  IN  IF total = 0 \/ excess <= 0
        THEN 0
        ELSE (HotWeight * excess * excess) \div (10000 * total * total)

\* The hot penalty of a backend with every recent dispatch.
FullHotPenalty ==
  (HotWeight * (100 - HotTarget) * (100 - HotTarget)) \div 10000

OverloadPenalty(v) ==
  IF v.inflight <= v.soft THEN 0 ELSE OverloadWeight * (v.inflight - v.soft)

\* ewma_queue_ms is never updated from 0.0, so its term is left out.
Score(v, heavy, total) ==
    InflightWeight * v.inflight
  + TtftWeight * v.ttft
  + E2eWeight * v.e2e
  + (ErrorWeight * v.errors) \div ErrorScale
  + HotPenalty(v, total)
  + OverloadPenalty(v)
  + ClassPenalty(v, heavy)

-----------------------------------------------------------------------------
(* The choice.  views[i] is the view of the candidate in position i of the *)
(* configuration, total the recent dispatches of all candidates.           *)

Scores(views, heavy, total) ==
  [i \in DOMAIN views |-> Score(views[i], heavy, total)]

\* Mutant of Pick: the sort is in descending order.
PickHighest(views, heavy, total) ==
  LET score == Scores(views, heavy, total)
  IN  CHOOSE i \in DOMAIN score : \A j \in DOMAIN score : score[j] <= score[i]

\* The position pick_backend chooses: the lowest score, and of equal ones the
\* first, since the sort is stable.
Pick(views, heavy, total) ==
  LET score == Scores(views, heavy, total)
  IN  CHOOSE i \in DOMAIN score :
        \A j \in DOMAIN score :
          score[i] < score[j] \/ (score[i] = score[j] /\ i <= j)

-----------------------------------------------------------------------------
(* The latency averages.                                                   *)

\* A fifth of the way from the average to the sample, rounded towards the
\* sample: like the average of the code it comes as close as one likes.
Ewma(prev, sample) ==
  IF sample >= prev THEN prev + (sample - prev + 4) \div 5
                    ELSE prev - (prev - sample + 4) \div 5

=============================================================================
