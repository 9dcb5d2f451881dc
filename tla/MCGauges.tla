------------------------------ MODULE MCGauges ------------------------------
(***************************************************************************)
(* Values for checking Gauges with TLC.                                    *)
(***************************************************************************)
EXTENDS Gauges, MCGateway

=============================================================================
