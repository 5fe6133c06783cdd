--------------------------- MODULE IncidentClock ---------------------------
(***************************************************************************)
(* One incident from its creation by the ingest worker, through every       *)
(* request and alert that can move its SLA clock:                           *)
(*   - alerts joining it        (incidents/grouping.py, _attach)            *)
(*   - PATCH /incidents/{id}    (api/v1/incidents.py, update_incident)      *)
(*   - POST  /incidents/bulk    (bulk_update)                               *)
(*   - POST  /incidents/{id}/comments (add_comment)                         *)
(*   - PUT   /tenants/{id}/sla  (api/v1/tenants.py, put_sla)                *)
(* Each handler is one atomic step here: it loads the row, changes it and   *)
(* commits it before the next one starts.                                   *)
(***************************************************************************)
EXTENDS SlaClock

CONSTANTS
  Severities,   \* the rule levels that occur
  Policies,     \* the SLA policies the tenant may have, sets of SlaRow
  Stamps,       \* the timestamps an alert may carry
  StartTime,    \* when the worker creates the case
  MaxTime       \* bound: time stops here

ASSUME IncidentClockAssumption ==
  /\ Severities \subseteq Nat
  /\ \A policy \in Policies : policy \subseteq SlaRow /\ ValidPolicy(policy)
  /\ Stamps \subseteq Int
  /\ StartTime \in Int
  /\ MaxTime \in Int

VARIABLES
  now,        \* the wall clock
  policy,     \* the rows of tenant_slas
  inc,        \* the row of incidents
  heldTicks   \* ghost: how long the case has really been "pending"

vars == <<now, policy, inc, heldTicks>>

TypeOK ==
  /\ now \in Int
  /\ policy \in Policies
  /\ inc \in Incident
  /\ heldTicks \in Nat

(* _create: severity and first_seen come from the alert that opened the case *)
Created(policyNow, stamp, level) ==
  ApplyOnCreate(
    [ status |-> "new", severity |-> level, assigned |-> FALSE, first_seen |-> stamp,
      respond_by |-> None, resolve_by |-> None, first_response_at |-> None,
      paused_at |-> None, paused_seconds |-> 0, closed_at |-> None ],
    BandFor(policyNow, level))

Init ==
  /\ now = StartTime
  /\ policy \in Policies
  /\ \E stamp \in Stamps, level \in Severities : inc = Created(policy, stamp, level)
  /\ heldTicks = 0

Tick ==
  /\ now < MaxTime
  /\ now' = now + 1
  /\ heldTicks' = heldTicks + (IF inc.status = PausedStatus THEN 1 ELSE 0)
  /\ UNCHANGED <<policy, inc>>

(* _attach: a case takes alerts while it is open *)
Attached(row, stamp, level) ==
  LET seen == IF stamp < row.first_seen THEN [row EXCEPT !.first_seen = stamp] ELSE row
  IN  IF level > row.severity
      THEN ApplyOnEscalation([seen EXCEPT !.severity = level], BandFor(policy, level))
      ELSE seen

AlertJoins(stamp, level) ==
  /\ inc.status \in OpenStatuses
  /\ inc' = Attached(inc, stamp, level)
  /\ UNCHANGED <<now, policy, heldTicks>>

(* The assignment part of update_incident and bulk_update: "somebody" is     *)
(* assign_to_me or the id of a user, and answers the case; "nobody" is an    *)
(* explicit null; None is a request that leaves the assignee out.            *)
Assign(row, assignee) ==
  CASE assignee = "somebody" -> MarkFirstResponse([row EXCEPT !.assigned = TRUE], now)
    [] assignee = "nobody"   -> [row EXCEPT !.assigned = FALSE]
    [] OTHER                 -> row

Assignees == {"somebody", "nobody", None}

Transition(row, status) ==
  IF status \in {None, row.status} THEN row ELSE ApplyStatusTransition(row, status, now)

(* update_incident: assignee, severity, status, and the recomputation that   *)
(* follows a status change made together with a change of severity           *)
Updated(row, status, severity, assignee) ==
  LET rated     == IF severity = None THEN Assign(row, assignee)
                   ELSE [Assign(row, assignee) EXCEPT !.severity = severity]
      moved     == Transition(rated, status)
      rerated   == severity \notin {None, row.severity}
      changed   == status \notin {None, row.status}
  IN  IF rerated /\ changed
      THEN ApplyOnEscalation(moved, BandFor(policy, moved.severity))
      ELSE moved

UpdateIncident(status, severity, assignee) ==
  /\ inc' = Updated(inc, status, severity, assignee)
  /\ UNCHANGED <<now, policy, heldTicks>>

(* bulk_update has no severity to change *)
BulkUpdate(status, assignee) ==
  /\ inc' = Transition(Assign(inc, assignee), status)
  /\ UNCHANGED <<now, policy, heldTicks>>

(* add_comment: only AWDTECH's own comment answers                            *)
AddComment(staff) ==
  /\ inc' = IF staff THEN MarkFirstResponse(inc, now) ELSE inc
  /\ UNCHANGED <<now, policy, heldTicks>>

(* put_sla replaces the policy and touches no incident *)
PutSla(newPolicy) ==
  /\ policy' = newPolicy
  /\ UNCHANGED <<now, inc, heldTicks>>

Next ==
  \/ Tick
  \/ \E stamp \in Stamps, level \in Severities : AlertJoins(stamp, level)
  \/ \E status \in Statuses \cup {None}, severity \in Severities \cup {None},
        assignee \in Assignees : UpdateIncident(status, severity, assignee)
  \/ \E status \in Statuses \cup {None}, assignee \in Assignees : BulkUpdate(status, assignee)
  \/ \E staff \in BOOLEAN : AddComment(staff)
  \/ \E newPolicy \in Policies : PutSla(newPolicy)

Spec == Init /\ [][Next]_vars

-----------------------------------------------------------------------------
(* Properties *)

Answered(row) == row.first_response_at # None

(* A case is on hold exactly while its status says it awaits the client, and *)
(* carries a closing time exactly while its status says it is closed:        *)
(* whichever of the five statuses follows whichever, through either handler, *)
(* apply_status_transition leaves no clock stopped that should run.          *)
StampsFollowStatus ==
  /\ (inc.paused_at # None) <=> (inc.status = PausedStatus)
  /\ (inc.closed_at # None) <=> (inc.status \in ClosedStatuses)

(* Nobody can touch a case without having answered it: one that was ever     *)
(* held, that left "new" or that is assigned has its first response stamped. *)
(* This is why the paused branch of response_breached, and the time held     *)
(* that apply_on_escalation adds, can never come to bear.                    *)
TouchedIsAnswered ==
  (inc.status # "new" \/ inc.assigned \/ inc.paused_at # None \/ inc.paused_seconds > 0)
     => Answered(inc)

(* The held time shown to the client, plus the hold that is still running,   *)
(* never exceeds the time the case has really spent in "pending": no stretch *)
(* of waiting is counted twice, however holds, closings and reopenings       *)
(* follow each other.                                                        *)
HeldTimeIsNotOvercounted ==
  inc.paused_seconds + (IF inc.paused_at = None THEN 0 ELSE now - inc.paused_at) <= heldTicks

(* Once a case is answered its deadlines move together with the time held    *)
(* and by nothing else: no later alert, change of severity or change of      *)
(* policy reaches them (apply_on_escalation's freeze).                       *)
FrozenOnceAnswered ==
  [][Answered(inc) =>
       LET held == inc'.paused_seconds - inc.paused_seconds
       IN  /\ inc'.first_response_at = inc.first_response_at
           /\ inc'.respond_by = Pushed(inc.respond_by, held)
           /\ inc'.resolve_by = Pushed(inc.resolve_by, held)]_inc

(* A case answered inside its target is never reported as a response breach  *)
(* afterwards.                                                               *)
TimelyAnswerStaysTimely ==
  [][Answered(inc) /\ ~ResponseBreached(inc, now) => ~ResponseBreached(inc', now')]_vars

(* No hold, closing or reopening takes back a resolution breach of a case    *)
(* that has been answered, although every hold moves the deadline later: the *)
(* hold begins after the breach, so the deadline can never catch up.         *)
ResolutionBreachIsPermanent ==
  [][Answered(inc) /\ ResolutionBreached(inc, now) => ResolutionBreached(inc', now')]_vars

(* What a report says of an answered case is not turned around later. *)
VerdictsStand == TimelyAnswerStaysTimely /\ ResolutionBreachIsPermanent

(* The time left to resolve the case, as the stopwatch would show it. *)
TimeLeft ==
  IF inc.resolve_by = None THEN None
  ELSE inc.resolve_by - (IF inc.paused_at = None THEN now ELSE inc.paused_at)

Stopwatch ==
  INSTANCE CaseStopwatch WITH left <- TimeLeft,
                              held <- inc.paused_at # None,
                              answered <- Answered(inc)

(* Absolute deadlines pushed forward on resume implement a stopwatch that    *)
(* stands still while the case awaits the client.                            *)
ImplementsStopwatch == Stopwatch!Spec

-----------------------------------------------------------------------------
(* What the design, a comment or a test says and the code does not do *)

(* "A late answer breaches permanently" (tests/test_sla.py), "a pause cannot *)
(* un-breach it" (DESIGN.md, section 4): the verdict on an answered case     *)
(* stands.  resume() pushes sla_respond_by of answered cases too.            *)
LateAnswerStaysLate ==
  [][Answered(inc) /\ ResponseBreached(inc, now) => ResponseBreached(inc', now')]_vars

(* "A manual severity change on an unanswered case re-tightens the clock"    *)
(* (update_incident): a case raised and left unanswered has the deadlines of *)
(* its new severity.                                                         *)
SeverityIncreaseRetightens ==
  [][LET band == BandFor(policy, inc'.severity)
     IN  inc'.severity > inc.severity /\ ~Answered(inc') /\ band # None =>
           inc' = WithDeadlines(inc', band, inc'.paused_seconds)]_inc

(* "It starts at first_seen" (sla.py, rule 1): the deadline of an unanswered *)
(* case is its first_seen plus a target of its policy.  An alert older than  *)
(* the case moves first_seen and leaves the deadline where it was.           *)
ClockStartsAtFirstSeen ==
  ~Answered(inc) /\ inc.respond_by # None =>
    \E row \in policy : inc.respond_by = inc.first_seen + row.respond
=============================================================================
