---------------------------- MODULE AlertLedger ----------------------------
(***************************************************************************)
(* What the ingest pipeline promises about the alerts it has accepted, with *)
(* no queue, batch or transaction in it: each is filed once, under a case   *)
(* of its own fingerprint, and stays there; a fingerprint has one open case *)
(* at most; and an accepted alert is filed in the end, unless the buffer    *)
(* overflowed and it was dropped.  IngestPipeline is shown to implement it. *)
(***************************************************************************)
EXTENDS Naturals, Functions

CONSTANT Alerts

VARIABLES
  accepted,   \* alerts taken in and not dropped since
  filed,      \* the case each filed alert is under
  open        \* the cases that are open

ledger == <<accepted, filed, open>>

Fingerprint(alert) == <<alert.tenant, alert.group>>

OneOpenCaseEach(cases) ==
  \A one, other \in cases : one.fingerprint = other.fingerprint => one = other

Init ==
  /\ accepted = {}
  /\ filed = << >>
  /\ open = {}

(* Alerts are taken in, and those the buffer has no room for are dropped. *)
Buffer ==
  /\ DOMAIN filed \subseteq accepted'
  /\ UNCHANGED <<filed, open>>

(* Alerts are filed together, under cases open by then or under new ones.  A *)
(* case may be closed in the instant an alert joins it, so being open is not *)
(* required of a case that takes one.                                        *)
File ==
  LET batch    == DOMAIN filed' \ DOMAIN filed
      newCases == { filed'[alert] : alert \in batch } \ Range(filed)
  IN  /\ DOMAIN filed \subseteq DOMAIN filed'
      /\ batch # {} /\ batch \subseteq accepted
      /\ \A alert \in DOMAIN filed : filed'[alert] = filed[alert]
      /\ \A alert \in batch : filed'[alert].fingerprint = Fingerprint(alert)
      /\ open' = open \cup newCases
      /\ OneOpenCaseEach(open')
      /\ UNCHANGED accepted

(* An analyst closes or reopens cases that exist. *)
Review ==
  /\ open' \subseteq Range(filed)
  /\ OneOpenCaseEach(open')
  /\ UNCHANGED <<accepted, filed>>

Next == Buffer \/ File \/ Review

Safety == Init /\ [][Next]_ledger

(* Stated of the ledger itself and not through the fairness of File: which   *)
(* filing comes next is the implementation's business.                       *)
AcceptedIsFiled ==
  \A alert \in Alerts : alert \in accepted ~> (alert \in DOMAIN filed \/ alert \notin accepted)

Spec == Safety /\ AcceptedIsFiled
=============================================================================
