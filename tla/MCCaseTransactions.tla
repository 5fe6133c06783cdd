------------------------- MODULE MCCaseTransactions -------------------------
(***************************************************************************)
(* Small instances of CaseTransactions: two cases of one fingerprint, or    *)
(* one case and two analysts.                                               *)
(***************************************************************************)
EXTENDS CaseTransactions, TLC

MCPolicy == { [severity_min |-> 3, respond |-> 2, resolve |-> 3],
              [severity_min |-> 5, respond |-> 1, resolve |-> 2] }
MCLevels == {3, 5}

TwoCases == "first" :> "fp" @@ "second" :> "fp"
OneCase  == "first" :> "fp"

Request(kind, list, status, severity, assignee) ==
  [kind |-> kind, list |-> list, status |-> status, severity |-> severity, assignee |-> assignee]

Both == <<"first", "second">>
MCRequests ==
  { Request("patch", <<"first">>, "active", 5, None),
    Request("comment", <<"first">>, None, None, None) }
  \cup { Request("bulk", Both, status, None, None) : status \in {"new", "pending", "resolved", "false_positive"} }

HoldOrClose ==
  { Request("patch", <<"first">>, status, None, None) : status \in {"pending", "resolved"} }
=============================================================================
