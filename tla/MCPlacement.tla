----------------------------- MODULE MCPlacement -----------------------------
(***************************************************************************)
(* Values for checking Placement with TLC.                                 *)
(***************************************************************************)
EXTENDS Placement, TLC

CONSTANTS s1, s2, b1, b2

Slots2 == {s1, s2}
SlotSymmetry == Permutations(Slots2)
TwoBackends == <<b1, b2>>
OneEach == [b \in {b1, b2} |-> 1]
TwoAndOne == (b1 :> 2) @@ (b2 :> 1)
\* In units of ten seconds.
FastAndSlow == {0, 1}

Chat(messages, cap, stream) ==
  [ form |-> "object", ids |-> FALSE, model |-> TRUE, messages |-> messages,
    cap |-> cap, stream |-> stream ]

\* A small chat, a stream of one token more than 4000, and bodies that are
\* turned away.
MixedBodies ==
  { Chat(<<NoText, 400, 3>>, NoCap, "false"), Chat(<<14000>>, 501, "absent"),
    Chat(<<>>, NoCap, "absent"), Chat(<<400>>, InfCap, "true"),
    Chat(OddList, NoCap, "true") }

=============================================================================
