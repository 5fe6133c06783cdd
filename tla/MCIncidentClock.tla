-------------------------- MODULE MCIncidentClock --------------------------
(***************************************************************************)
(* Small instances of IncidentClock.  A second is two ticks, so that a hold *)
(* can last a fraction of one.                                              *)
(***************************************************************************)
EXTENDS IncidentClock

MCSeverities == {4, 12}

(* Tighter throughout for the more severe band. *)
Graded == { [severity_min |-> 0,  respond |-> 3, resolve |-> 5],
            [severity_min |-> 10, respond |-> 1, resolve |-> 3] }

(* Only severe cases have a target. *)
SevereOnly == { [severity_min |-> 10, respond |-> 2, resolve |-> 3] }

MCPolicies     == {Graded, SevereOnly}
GradedPolicy   == {Graded}
MCStamps       == {-1, 1}
=============================================================================
