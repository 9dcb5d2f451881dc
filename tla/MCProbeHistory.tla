--------------------------- MODULE MCProbeHistory ---------------------------
(***************************************************************************)
(* Values for checking ProbeHistory with TLC.                              *)
(***************************************************************************)
EXTENDS ProbeHistory, MCCircuitBreaker

=============================================================================
