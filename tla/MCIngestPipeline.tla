-------------------------- MODULE MCIngestPipeline --------------------------
(***************************************************************************)
(* Small instances of IngestPipeline.                                       *)
(***************************************************************************)
EXTENDS IngestPipeline, TLC

Alert(tenant, id, group, timestamp) ==
  [tenant |-> tenant, wazuh_id |-> id, group |-> group, timestamp |-> timestamp]

(* Two alerts of one case, or of two cases, of one tenant or of two. *)
OneCase     == { Alert("t1", "a", "g", 0), Alert("t1", "b", "g", 1) }
ThreeOfOne  == OneCase \cup { Alert("t1", "c", "g", 0) }
TwoCases    == { Alert("t1", "a", "g", 0), Alert("t1", "b", "h", 1) }
OneAlert    == { Alert("t1", "a", "g", 0) }
TwoClients  == { Alert("t1", "a", "g", 0), Alert("t2", "b", "g", 0) }

(* An alert whose timestamp does not parse, and one that no partition covers. *)
UndatedAlert == { Alert("t1", "a", "g", None) }
StrayAlert   == { Alert("t1", "a", "g", 0), Alert("t2", "b", "g", 9) }

MCPartitions == 0 .. 3
WriterSymmetry == Permutations(Consumers)
=============================================================================
