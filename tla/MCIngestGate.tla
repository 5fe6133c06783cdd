---------------------------- MODULE MCIngestGate ----------------------------
(***************************************************************************)
(* A small instance of IngestGate.                                          *)
(***************************************************************************)
EXTENDS IngestGate, TLC

MCCount       == "body" :> 2
MCAlerts      == DOMAIN MCCount
MCClockErrors == {-1, 1}
HandlerSymmetry == Permutations(Handlers)
=============================================================================
