------------------------------ MODULE SlaClock ------------------------------
(***************************************************************************)
(* The rules of the SLA clock (backend/app/incidents/sla.py) as operators   *)
(* on an incident record.  Each takes the incident as it was loaded and     *)
(* returns it as the function leaves it.                                    *)
(*                                                                          *)
(* Time is an integer number of ticks.  The code keeps microseconds but     *)
(* counts a hold in whole seconds (`int(...total_seconds())`), so a second  *)
(* is TicksPerSecond ticks.  `paused_seconds` is kept in ticks, and is      *)
(* always a whole number of seconds.                                        *)
(***************************************************************************)
EXTENDS Integers

CONSTANTS
  None,            \* a null column
  TicksPerSecond   \* how much finer a timestamp is than a second

ASSUME SlaClockAssumption ==
  /\ None \notin Int
  /\ TicksPerSecond \in Nat \ {0}

OpenStatuses   == {"new", "active", "pending"}
ClosedStatuses == {"resolved", "false_positive"}
Statuses       == OpenStatuses \cup ClosedStatuses
PausedStatus   == "pending"

OptionalTime == Int \cup {None}

(* One row of tenant_slas; the targets are in ticks. *)
SlaRow == [severity_min : Nat, respond : Nat, resolve : Nat]

Incident ==
  [ status            : Statuses,
    severity          : Nat,
    assigned          : BOOLEAN,
    first_seen        : Int,
    respond_by        : OptionalTime,
    resolve_by        : OptionalTime,
    first_response_at : OptionalTime,
    paused_at         : OptionalTime,
    paused_seconds    : Nat,
    closed_at         : OptionalTime ]

(* What the policy schema lets through: each severity floor once, resolving  *)
(* never tighter than responding, and no more time to respond to the more    *)
(* severe of two rows.  Nothing compares the times to resolve.               *)
ValidPolicy(policy) ==
  /\ \A row \in policy : row.respond > 0 /\ row.resolve >= row.respond
  /\ \A low, high \in policy :
       low.severity_min <= high.severity_min =>
         /\ low.severity_min = high.severity_min => low = high
         /\ high.respond <= low.respond

(* The row with the highest floor not exceeding the severity, or None. *)
BandFor(policy, severity) ==
  LET reached == {row \in policy : row.severity_min <= severity}
      highest == {row \in reached :
                    \A other \in reached : other.severity_min <= row.severity_min}
  IN  IF highest = {} THEN None ELSE CHOOSE row \in highest : TRUE

WithDeadlines(inc, band, held) ==
  [inc EXCEPT !.respond_by = inc.first_seen + band.respond + held,
              !.resolve_by = inc.first_seen + band.resolve + held]

ApplyOnCreate(inc, band) ==
  IF band = None THEN [inc EXCEPT !.respond_by = None, !.resolve_by = None]
                 ELSE WithDeadlines(inc, band, 0)

(* Mutant: the freeze after the first response is forgotten. *)
EscalationWithoutFreeze(inc, band) ==
  IF band = None THEN inc ELSE WithDeadlines(inc, band, inc.paused_seconds)

ApplyOnEscalation(inc, band) ==
  IF inc.first_response_at # None \/ band = None
  THEN inc
  ELSE WithDeadlines(inc, band, inc.paused_seconds)

MarkFirstResponse(inc, now) ==
  IF inc.first_response_at # None THEN inc ELSE [inc EXCEPT !.first_response_at = now]

Pause(inc, now) ==
  IF inc.paused_at = None THEN [inc EXCEPT !.paused_at = now] ELSE inc

(* Mutant: a started second counts as a whole one. *)
StartedSeconds(ticks) ==
  IF ticks < 0 THEN 0
  ELSE IF ticks % TicksPerSecond = 0 THEN ticks
  ELSE ticks - (ticks % TicksPerSecond) + TicksPerSecond

(* The whole seconds in a length of time, never negative. *)
WholeSeconds(ticks) == IF ticks < 0 THEN 0 ELSE ticks - (ticks % TicksPerSecond)

Pushed(deadline, held) == IF deadline = None THEN None ELSE deadline + held

(* Mutant: the pause is not cleared, so the next resume counts it again. *)
ResumeTwice(inc, now) ==
  IF inc.paused_at = None
  THEN inc
  ELSE LET held == WholeSeconds(now - inc.paused_at)
       IN  [inc EXCEPT !.respond_by     = Pushed(@, held),
                       !.resolve_by     = Pushed(@, held),
                       !.paused_seconds = @ + held]

(* Mutant: only one of the two deadlines is pushed. *)
ResumePushesResponseOnly(inc, now) ==
  IF inc.paused_at = None
  THEN inc
  ELSE LET held == WholeSeconds(now - inc.paused_at)
       IN  [inc EXCEPT !.respond_by     = Pushed(@, held),
                       !.paused_seconds = @ + held,
                       !.paused_at      = None]

Resume(inc, now) ==
  IF inc.paused_at = None
  THEN inc
  ELSE LET held == WholeSeconds(now - inc.paused_at)
       IN  [inc EXCEPT !.respond_by     = Pushed(@, held),
                       !.resolve_by     = Pushed(@, held),
                       !.paused_seconds = @ + held,
                       !.paused_at      = None]

(* The three things a change of status does to the clock, in this order:     *)
(* leaving or entering "pending",                                            *)
HoldOrRelease(inc, status, now) ==
  CASE inc.status = PausedStatus /\ status # PausedStatus -> Resume(inc, now)
    [] inc.status # PausedStatus /\ status = PausedStatus -> Pause(inc, now)
    [] OTHER -> inc

(* closing (which ends a hold) or reopening,                                 *)
CloseOrReopen(inc, status, now) ==
  CASE status \in ClosedStatuses -> Resume([inc EXCEPT !.closed_at = now], now)
    [] status \notin ClosedStatuses /\ inc.status \in ClosedStatuses ->
         [inc EXCEPT !.closed_at = None]
    [] OTHER -> inc

(* and answering, for every status but "new".                                *)
AnswerBy(inc, status, now) ==
  IF status # "new" THEN MarkFirstResponse(inc, now) ELSE inc

ApplyStatusTransition(inc, status, now) ==
  [AnswerBy(CloseOrReopen(HoldOrRelease(inc, status, now), status, now), status, now)
     EXCEPT !.status = status]

ResponseBreached(inc, now) ==
  /\ inc.respond_by # None
  /\ \/ inc.first_response_at # None /\ inc.first_response_at > inc.respond_by
     \/ /\ inc.first_response_at = None
        /\ (IF inc.paused_at # None THEN inc.paused_at ELSE now) > inc.respond_by

ResolutionBreached(inc, now) ==
  /\ inc.resolve_by # None
  /\ \/ inc.closed_at # None /\ inc.closed_at > inc.resolve_by
     \/ /\ inc.closed_at = None
        /\ (IF inc.paused_at # None THEN inc.paused_at ELSE now) > inc.resolve_by
=============================================================================
