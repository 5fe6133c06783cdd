---------------------------- MODULE MCAgentSync ----------------------------
(***************************************************************************)
(* A small instance of AgentSync: three agents on one manager, one of them    *)
(* without an address.  One tenant's group has two, as many as a statement    *)
(* takes, and the third may join it before the others; the other tenant's has *)
(* the one without an address.                                               *)
(***************************************************************************)
EXTENDS AgentSync, TLC

CONSTANTS t1, t2

MCTenants     == {t1, t2}
MCAgents      == 1 .. 3
MCNoAddress   == {1}
MCFirstGroups == t1 :> {2, 3} @@ t2 :> {1}
=============================================================================
