--------------------------- MODULE RequestLifecycle ---------------------------
(***************************************************************************)
(* What the gateway promises of the requests it is given, with nothing of  *)
(* how it keeps the promise: no queue, no tick, no rows, no futures.       *)
(*                                                                         *)
(* A request waits, in a waiting room of QueueMax places, until it is      *)
(* placed at a backend or its time is up; one that cannot wait or waited   *)
(* too long goes to the fallback or is refused.  A placed request is tried *)
(* there and may be moved on to another backend, MaxAttempts tries in all. *)
(* It is refused only if it was never tried, and it is answered once.      *)
(***************************************************************************)
EXTENDS Integers, FiniteSets

CONSTANTS Requests, Backends, Drained, Fallback, NoTarget, QueueMax, MaxAttempts

VARIABLES
  stage,   \* stage[r]: what has become of r
  place,   \* place[r]: the backend or fallback r is at
  tries    \* tries[r]: attempts made for r

lifeVars == <<stage, place, tries>>

Stages == {"new", "waiting", "expired", "placed", "refused", "ended"}

LifeInit ==
  /\ stage = [r \in Requests |-> "new"]
  /\ place = [r \in Requests |-> NoTarget]
  /\ tries = [r \in Requests |-> 0]

Waiting == {r \in Requests : stage[r] = "waiting"}

Enter(r, s) == stage' = [stage EXCEPT ![r] = s]

\* The waiting room has a place for r.
Admit(r) ==
  /\ stage[r] = "new"
  /\ Cardinality(Waiting) < QueueMax
  /\ Enter(r, "waiting")
  /\ UNCHANGED <<place, tries>>

Expire(r) ==
  /\ stage[r] = "waiting"
  /\ Enter(r, "expired")
  /\ UNCHANGED <<place, tries>>

\* Only a waiting request is sent to a backend, never to a drained one.
Place(r) ==
  /\ stage[r] = "waiting"
  /\ \E b \in Backends \ Drained : place' = [place EXCEPT ![r] = b]
  /\ Enter(r, "placed")
  /\ UNCHANGED tries

\* The first try.  A request without a place is tried at the fallback.
Try(r) ==
  /\ tries[r] = 0 /\ MaxAttempts > 0
  /\ tries' = [tries EXCEPT ![r] = 1]
  /\ \/ stage[r] = "placed" /\ UNCHANGED <<stage, place>>
     \/ /\ stage[r] \in {"new", "expired"}
        /\ Enter(r, "placed")
        /\ place' = [place EXCEPT ![r] = Fallback]

\* A failed try is repeated somewhere else.
MoveOn(r) ==
  /\ stage[r] = "placed"
  /\ tries[r] \in 1..(MaxAttempts - 1)
  /\ tries' = [tries EXCEPT ![r] = @ + 1]
  /\ \E b \in Backends \ (Drained \cup {place[r]}) :
       place' = [place EXCEPT ![r] = b]
  /\ UNCHANGED stage

\* r is turned away: it was not tried anywhere, and had it a place, no try is
\* allowed at all.
Refuse(r) ==
  /\ \/ stage[r] \in {"new", "expired"}
     \/ stage[r] = "placed" /\ MaxAttempts = 0
  /\ tries[r] = 0
  /\ Enter(r, "refused")
  /\ place' = [place EXCEPT ![r] = NoTarget]
  /\ UNCHANGED tries

\* r is answered with what came of its last try.
End(r) ==
  /\ stage[r] = "placed" /\ tries[r] > 0
  /\ Enter(r, "ended")
  /\ place' = [place EXCEPT ![r] = NoTarget]
  /\ UNCHANGED tries

LifeStep(r) ==
  \/ Admit(r) \/ Expire(r) \/ Place(r) \/ Try(r) \/ MoveOn(r)
  \/ Refuse(r) \/ End(r)

LifeNext == \E r \in Requests : LifeStep(r)

LifeSpec == LifeInit /\ [][LifeNext]_lifeVars

=============================================================================
