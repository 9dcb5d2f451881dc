------------------------------ MODULE MCMetrics ------------------------------
(***************************************************************************)
(* The gateway with its counters and the view of each backend as a         *)
(* CircuitBreaker, for checking with TLC.                                  *)
(***************************************************************************)
EXTENDS Metrics, BreakerRefinement, MCGateway

=============================================================================
