-------------------------- MODULE MCReportLifecycle --------------------------
(***************************************************************************)
(* Small instances of ReportLifecycle: two months that adjoin.              *)
(***************************************************************************)
EXTENDS ReportLifecycle, TLC

FirstMonth   == [start |-> 0, end |-> 1]
SecondMonth  == [start |-> 1, end |-> 2]
MCPeriods    == {FirstMonth, SecondMonth}
RequestSymmetry == Permutations(Requests)
=============================================================================
