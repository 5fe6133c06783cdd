----------------------------- MODULE MCCaseFile -----------------------------
(***************************************************************************)
(* A small instance of CaseFile: two groups of alerts, with documents that   *)
(* fit, that crowd out the rest, and one that does not fit at all.           *)
(***************************************************************************)
EXTENDS CaseFile

Alert(id, timestamp, group, ecs, related) ==
  [id |-> id, timestamp |-> timestamp, group |-> group, ecs |-> ecs, related |-> related]

MCAlerts == { Alert(1, 2, "g", 5, <<"x">>), Alert(2, 2, "h", 4, <<"x", "y">>),
              Alert(3, 1, "g", 1, <<"y", "z">>) }
=============================================================================
