------------------------ MODULE IncidentClockProofs ------------------------
(***************************************************************************)
(* Proofs about IncidentClock, for every set of severities, policies and    *)
(* timestamps, every resolution of the clock and every length of run.       *)
(*                                                                          *)
(* The argument: each operator of SlaClock keeps a row Consistent and never *)
(* adds to its Hold; every handler is a composition of those operators; so  *)
(* Consistent is inductive, and the time counted as held is bounded by the  *)
(* time that really passed in "pending".                                    *)
(***************************************************************************)
EXTENDS IncidentClock, TLAPS

-----------------------------------------------------------------------------
(* A row as it is between two handlers, at time t. *)
Consistent(row, t) ==
  /\ row \in Incident
  /\ (row.paused_at # None) <=> (row.status = PausedStatus)
  /\ (row.closed_at # None) <=> (row.status \in ClosedStatuses)
  /\ (row.status # "new" \/ row.assigned \/ row.paused_at # None \/ row.paused_seconds > 0)
       => Answered(row)
  /\ row.paused_at # None => row.paused_at <= t
  /\ row.closed_at # None => row.closed_at <= t

(* The time counted as held by time t, the running hold included. *)
Hold(row, t) == row.paused_seconds + (IF row.paused_at = None THEN 0 ELSE t - row.paused_at)

(* The inductive invariant. *)
IInv ==
  /\ TypeOK
  /\ Consistent(inc, now)
  /\ Hold(inc, now) <= heldTicks

(* The row of tenant_slas that applies is a row of the policy, or there is none. *)
LEMMA BandForType ==
  ASSUME NEW p \in SUBSET SlaRow, NEW severity \in Nat
  PROVE  BandFor(p, severity) \in SlaRow \cup {None}
BY DEF BandFor

(* Setting deadlines changes the two deadlines and keeps them integers. *)
LEMMA WithDeadlinesKeeps ==
  ASSUME NEW row, NEW t \in Int, Consistent(row, t),
         NEW band \in SlaRow, NEW held \in Nat
  PROVE  /\ Consistent(WithDeadlines(row, band, held), t)
         /\ Hold(WithDeadlines(row, band, held), t) = Hold(row, t)
<1>1. /\ row.first_seen + band.respond + held \in Int
      /\ row.first_seen + band.resolve + held \in Int
  BY DEF Consistent, Incident, SlaRow
<1>2. QED
  BY <1>1 DEF Consistent, Hold, Incident, WithDeadlines, Answered, OptionalTime

(* An escalation keeps a row consistent and adds no hold. *)
LEMMA EscalationKeeps ==
  ASSUME NEW row, NEW t \in Int, Consistent(row, t),
         NEW band \in SlaRow \cup {None}
  PROVE  /\ Consistent(ApplyOnEscalation(row, band), t)
         /\ Hold(ApplyOnEscalation(row, band), t) = Hold(row, t)
<1>1. row.paused_seconds \in Nat
  BY DEF Consistent, Incident
<1>2. QED
  BY <1>1, WithDeadlinesKeeps DEF ApplyOnEscalation

(* So does the stamp of the first response, *)
LEMMA MarkKeeps ==
  ASSUME NEW row, NEW t \in Int, Consistent(row, t)
  PROVE  /\ Consistent(MarkFirstResponse(row, t), t)
         /\ Hold(MarkFirstResponse(row, t), t) = Hold(row, t)
         /\ Answered(MarkFirstResponse(row, t))
BY SlaClockAssumption DEF Consistent, Hold, Incident, MarkFirstResponse, Answered, OptionalTime

(* A hold is counted in whole seconds: never more than it lasted, and less   *)
(* than one second short of it.                                              *)
LEMMA WholeSecondsBounds ==
  ASSUME NEW ticks \in Nat
  PROVE  /\ WholeSeconds(ticks) \in Nat
         /\ WholeSeconds(ticks) <= ticks
         /\ ticks - WholeSeconds(ticks) \in 0 .. TicksPerSecond - 1
<1>1. ticks % TicksPerSecond \in 0 .. TicksPerSecond - 1
  BY SlaClockAssumption
<1>2. ticks % TicksPerSecond <= ticks
  BY SlaClockAssumption
<1>3. QED
  BY <1>1, <1>2, SlaClockAssumption DEF WholeSeconds

(* What resume does to a held row.  The status is left to the caller. *)
LEMMA ResumeEffect ==
  ASSUME NEW row \in Incident, NEW t \in Int, row.paused_at # None, row.paused_at <= t,
         NEW held, held = WholeSeconds(t - row.paused_at)
  PROVE  /\ held \in Nat
         /\ held <= t - row.paused_at
         /\ t - row.paused_at - held \in 0 .. TicksPerSecond - 1
         /\ Resume(row, t) \in Incident
         /\ Resume(row, t) = [row EXCEPT !.respond_by     = Pushed(row.respond_by, held),
                                         !.resolve_by     = Pushed(row.resolve_by, held),
                                         !.paused_seconds = row.paused_seconds + held,
                                         !.paused_at      = None]
<1>1. t - row.paused_at \in Nat
  BY SlaClockAssumption DEF Incident, OptionalTime
<1>2. /\ held \in Nat
      /\ held <= t - row.paused_at
      /\ t - row.paused_at - held \in 0 .. TicksPerSecond - 1
  BY <1>1, WholeSecondsBounds
<1>3. /\ Pushed(row.respond_by, held) \in OptionalTime
      /\ Pushed(row.resolve_by, held) \in OptionalTime
      /\ row.paused_seconds + held \in Nat
  BY <1>2 DEF Pushed, OptionalTime, Incident
<1>4. Resume(row, t) = [row EXCEPT !.respond_by     = Pushed(row.respond_by, held),
                                  !.resolve_by     = Pushed(row.resolve_by, held),
                                  !.paused_seconds = row.paused_seconds + held,
                                  !.paused_at      = None]
  BY DEF Resume, Incident
<1>5. Resume(row, t) \in Incident
  BY <1>3, <1>4 DEF Incident, OptionalTime
<1>6. QED
  BY <1>2, <1>4, <1>5

(* A status change of a case that was not on hold, in one update of the row. *)
FromRunning(row, status, t) ==
  [row EXCEPT
     !.paused_at = IF status = PausedStatus THEN t ELSE None,
     !.closed_at = IF status \in ClosedStatuses THEN t ELSE None,
     !.first_response_at = IF status # "new" /\ row.first_response_at = None THEN t ELSE @,
     !.status = status]

(* A status change of a case on hold. *)
FromHold(row, status, t) ==
  [Resume(row, t) EXCEPT
     !.closed_at = IF status \in ClosedStatuses THEN t ELSE None,
     !.status = status]

(* apply_status_transition leaves a running case as FromRunning says. *)
LEMMA TransitionFromRunning ==
  ASSUME NEW row, NEW t \in Int, Consistent(row, t), row.status # PausedStatus,
         NEW status \in Statuses, status # row.status
  PROVE  ApplyStatusTransition(row, status, t) = FromRunning(row, status, t)
<1>1. row.paused_at = None /\ row \in Incident
  BY DEF Consistent
<1>2. PICK held \in Incident : held = HoldOrRelease(row, status, t)
  BY <1>1 DEF HoldOrRelease, Pause, Incident, OptionalTime
<1>3. held = [row EXCEPT !.paused_at = IF status = PausedStatus THEN t ELSE None]
  BY <1>1, <1>2 DEF HoldOrRelease, Pause, Incident
<1>4. PICK closed \in Incident : closed = CloseOrReopen(held, status, t)
  <2>1. CASE status \in ClosedStatuses
    <3>1. held.paused_at = None
      BY <1>3, <2>1 DEF Incident, PausedStatus, ClosedStatuses
    <3>2. QED
      BY <2>1, <3>1 DEF CloseOrReopen, Resume, Incident, OptionalTime
  <2>2. CASE status \notin ClosedStatuses
    BY <2>2 DEF CloseOrReopen, Incident, OptionalTime
  <2>3. QED
    BY <2>1, <2>2
<1>5. closed = [held EXCEPT !.closed_at = IF status \in ClosedStatuses THEN t ELSE None]
  <2>1. CASE status \in ClosedStatuses
    <3>1. held.paused_at = None
      BY <1>3, <2>1 DEF Incident, PausedStatus, ClosedStatuses
    <3>2. QED
      BY <1>4, <2>1, <3>1 DEF CloseOrReopen, Resume, Incident
  <2>2. CASE status \notin ClosedStatuses
    <3>1. held.status = row.status /\ held.closed_at = row.closed_at
      BY <1>3 DEF Incident
    <3>2. row.status \notin ClosedStatuses => held.closed_at = None
      BY <3>1 DEF Consistent
    <3>3. QED
      BY <1>4, <2>2, <3>1, <3>2 DEF CloseOrReopen, Incident
  <2>3. QED
    BY <2>1, <2>2
<1>6. closed.first_response_at = row.first_response_at
  BY <1>3, <1>5 DEF Incident
<1>7. QED
  BY <1>2, <1>3, <1>4, <1>5, <1>6
     DEF ApplyStatusTransition, FromRunning, AnswerBy, MarkFirstResponse, Incident

(* It leaves a held case, which was answered before, as FromHold says. *)
LEMMA TransitionFromHold ==
  ASSUME NEW row, NEW t \in Int, Consistent(row, t), row.status = PausedStatus,
         NEW status \in Statuses, status # row.status
  PROVE  ApplyStatusTransition(row, status, t) = FromHold(row, status, t)
<1>1. /\ row \in Incident
      /\ row.paused_at # None
      /\ row.paused_at <= t
      /\ row.closed_at = None
      /\ row.first_response_at # None
  BY DEF Consistent, Answered, PausedStatus, ClosedStatuses
<1>2. PICK resumed \in Incident : resumed = Resume(row, t)
  BY <1>1, ResumeEffect
<1>3. /\ resumed.paused_at = None
      /\ resumed.closed_at = None
      /\ resumed.first_response_at # None
      /\ resumed.status = PausedStatus
  BY <1>1, <1>2 DEF Resume, Incident
<1>4. HoldOrRelease(row, status, t) = resumed
  BY <1>2 DEF HoldOrRelease
<1>5. CloseOrReopen(resumed, status, t) =
        [resumed EXCEPT !.closed_at = IF status \in ClosedStatuses THEN t ELSE None]
  BY <1>3 DEF CloseOrReopen, Resume, Incident, PausedStatus, ClosedStatuses
<1>6. AnswerBy(CloseOrReopen(resumed, status, t), status, t) = CloseOrReopen(resumed, status, t)
  BY <1>3, <1>5 DEF AnswerBy, MarkFirstResponse, Incident
<1>7. QED
  BY <1>2, <1>4, <1>5, <1>6 DEF ApplyStatusTransition, FromHold

-----------------------------------------------------------------------------
(* What a request may do to a row at time t: leave the clock alone, start a  *)
(* hold, or end one.                                                         *)

SameClock(row, next) ==
  /\ next.respond_by = row.respond_by
  /\ next.resolve_by = row.resolve_by
  /\ next.paused_seconds = row.paused_seconds
  /\ next.paused_at = row.paused_at

HoldStarts(row, next, t) ==
  /\ row.paused_at = None
  /\ next.paused_at = t
  /\ Answered(next)
  /\ next.respond_by = row.respond_by
  /\ next.resolve_by = row.resolve_by
  /\ next.paused_seconds = row.paused_seconds

HoldEnds(row, next, t) ==
  /\ row.paused_at # None
  /\ next.paused_at = None
  /\ LET held == WholeSeconds(t - row.paused_at)
     IN  /\ next.respond_by = Pushed(row.respond_by, held)
         /\ next.resolve_by = Pushed(row.resolve_by, held)
         /\ next.paused_seconds = row.paused_seconds + held

ClockStep(row, next, t) ==
  /\ Consistent(next, t)
  /\ next.closed_at \in {None, row.closed_at, t}
  /\ Answered(row) => next.first_response_at = row.first_response_at
  /\ SameClock(row, next) \/ HoldStarts(row, next, t) \/ HoldEnds(row, next, t)

(* A request touches the assignee, the severity or the first response only. *)
Touch(row, next, t) ==
  /\ Consistent(next, t)
  /\ Answered(row) => next.first_response_at = row.first_response_at
  /\ SameClock(row, next)
  /\ next.status = row.status
  /\ next.closed_at = row.closed_at

(* Every part of a request before the change of status is such a touch. *)
LEMMA AssignTouches ==
  ASSUME NEW row, Consistent(row, now), now \in Int,
         NEW assignee \in Assignees
  PROVE  Touch(row, Assign(row, assignee), now)
<1>1. CASE assignee = "somebody"
  <2>1. Assign(row, assignee) = MarkFirstResponse([row EXCEPT !.assigned = TRUE], now)
    BY <1>1 DEF Assign
  <2>2. row \in Incident
    BY DEF Consistent
  <2>3. CASE row.first_response_at # None
    <3>1. Assign(row, assignee) = [row EXCEPT !.assigned = TRUE]
      BY <2>1, <2>2, <2>3 DEF MarkFirstResponse, Incident
    <3>2. QED
      BY <2>2, <2>3, <3>1 DEF Touch, SameClock, Consistent, Incident, Answered
  <2>4. CASE row.first_response_at = None
    <3>1. Assign(row, assignee) =
            [row EXCEPT !.assigned = TRUE, !.first_response_at = now]
      BY <2>1, <2>2, <2>4 DEF MarkFirstResponse, Incident
    <3>2. now # None /\ now \in OptionalTime
      BY SlaClockAssumption DEF OptionalTime
    <3>3. QED
      BY <2>2, <2>4, <3>1, <3>2 DEF Touch, SameClock, Consistent, Incident, Answered
  <2>5. QED
    BY <2>3, <2>4
<1>2. CASE assignee = "nobody"
  <2>1. Assign(row, assignee) = [row EXCEPT !.assigned = FALSE]
    BY <1>2 DEF Assign
  <2>2. QED
    BY <2>1 DEF Touch, SameClock, Consistent, Incident, Answered
<1>3. CASE assignee = None
  <2>1. assignee \notin {"somebody", "nobody"} => Assign(row, assignee) = row
    BY DEF Assign
  <2>2. CASE assignee \notin {"somebody", "nobody"}
    BY <2>1, <2>2 DEF Touch, SameClock, Consistent, Answered
  <2>3. QED
    BY <1>1, <1>2, <2>2
<1>4. QED
  BY <1>1, <1>2, <1>3 DEF Assignees

LEMMA SeverityTouches ==
  ASSUME NEW row, NEW next, NEW t \in Int, Touch(row, next, t), NEW severity \in Nat
  PROVE  Touch(row, [next EXCEPT !.severity = severity], t)
BY DEF Touch, SameClock, Consistent, Incident, Answered

LEMMA MarkTouches ==
  ASSUME NEW row, NEW t \in Int, Consistent(row, t)
  PROVE  Touch(row, MarkFirstResponse(row, t), t)
BY SlaClockAssumption DEF Touch, SameClock, Consistent, Incident, MarkFirstResponse,
   Answered, OptionalTime

LEMMA TouchIsClockStep ==
  ASSUME NEW row, NEW next, NEW t, Touch(row, next, t)
  PROVE  ClockStep(row, next, t)
BY DEF Touch, ClockStep

(* A change of status after such a touch starts or ends a hold, or neither. *)
LEMMA TransitionSteps ==
  ASSUME NEW row, NEW touched, NEW t \in Int, Consistent(row, t), Touch(row, touched, t),
         NEW status \in Statuses, status # row.status
  PROVE  /\ ClockStep(row, ApplyStatusTransition(touched, status, t), t)
         /\ Answered(ApplyStatusTransition(touched, status, t))
<1> DEFINE next == ApplyStatusTransition(touched, status, t)
<1>1. /\ Consistent(touched, t)
      /\ touched.status = row.status
      /\ touched \in Incident
  BY DEF Touch, Consistent
<1>2. status # "new" \/ Answered(touched)
  BY <1>1 DEF Consistent
<1>3. CASE row.status # PausedStatus
  <2>0. next = FromRunning(touched, status, t)
    <3>1. touched.status # PausedStatus /\ status # touched.status
      BY <1>1, <1>3
    <3>2. QED
      BY <1>1, <3>1, TransitionFromRunning
  <2>1. next = [touched EXCEPT
              !.paused_at = IF status = PausedStatus THEN t ELSE None,
              !.closed_at = IF status \in ClosedStatuses THEN t ELSE None,
              !.first_response_at =
                 IF status # "new" /\ touched.first_response_at = None THEN t ELSE @,
              !.status = status]
    BY <2>0 DEF FromRunning
  <2>2. next \in Incident
    BY <1>1, <2>1 DEF Incident, OptionalTime
  <2>3. Answered(next)
    BY <1>1, <1>2, <2>1, SlaClockAssumption DEF Answered, Incident
  <2>4. touched.paused_at = None
    BY <1>1, <1>3 DEF Consistent
  <2>5. Consistent(next, t)
    BY <1>1, <2>1, <2>2, <2>3, SlaClockAssumption DEF Consistent, Incident, Statuses
  <2>6. Answered(row) => next.first_response_at = row.first_response_at
    BY <1>1, <2>1 DEF Touch, Answered, Incident
  <2>10. next.closed_at \in {None, row.closed_at, t}
    BY <1>1, <2>1 DEF Incident
  <2>7. CASE status = PausedStatus
    <3>1. HoldStarts(row, next, t)
      BY <1>1, <2>1, <2>3, <2>4, <2>7 DEF HoldStarts, Touch, SameClock, Incident
    <3>2. QED
      BY <2>3, <2>5, <2>6, <2>10, <3>1 DEF ClockStep
  <2>8. CASE status # PausedStatus
    <3>1. SameClock(row, next)
      BY <1>1, <2>1, <2>4, <2>8 DEF Touch, SameClock, Incident
    <3>2. QED
      BY <2>3, <2>5, <2>6, <2>10, <3>1 DEF ClockStep
  <2>9. QED
    BY <2>3, <2>5, <2>7, <2>8
<1>4. CASE row.status = PausedStatus
  <2> DEFINE held == WholeSeconds(t - touched.paused_at)
  <2>1. /\ touched.paused_at # None
        /\ touched.paused_at <= t
        /\ Answered(touched)
    BY <1>1, <1>4 DEF Consistent
  <2>2. /\ Resume(touched, t) \in Incident
        /\ Resume(touched, t) = [touched EXCEPT
                 !.respond_by     = Pushed(touched.respond_by, held),
                 !.resolve_by     = Pushed(touched.resolve_by, held),
                 !.paused_seconds = touched.paused_seconds + held,
                 !.paused_at      = None]
    BY <1>1, <2>1, ResumeEffect
  <2>0. next = FromHold(touched, status, t)
    <3>1. touched.status = PausedStatus /\ status # touched.status
      BY <1>1, <1>4
    <3>2. QED
      BY <1>1, <3>1, TransitionFromHold
  <2>3. next = [Resume(touched, t) EXCEPT
                 !.closed_at = IF status \in ClosedStatuses THEN t ELSE None,
                 !.status = status]
    BY <2>0 DEF FromHold
  <2>4. next \in Incident
    BY <2>2, <2>3 DEF Incident, OptionalTime
  <2>5. Answered(next) /\ next.first_response_at = touched.first_response_at
    BY <2>1, <2>2, <2>3 DEF Answered, Incident
  <2>6. next.paused_at = None /\ status # PausedStatus
    BY <1>4, <2>2, <2>3 DEF Incident
  <2>7. Consistent(next, t)
    BY <2>3, <2>2, <2>4, <2>5, <2>6, SlaClockAssumption DEF Consistent, Incident
  <2>8. HoldEnds(row, next, t)
    <3>1. SameClock(row, touched)
      BY DEF Touch
    <3>2. /\ next.respond_by = Pushed(touched.respond_by, held)
          /\ next.resolve_by = Pushed(touched.resolve_by, held)
          /\ next.paused_seconds = touched.paused_seconds + held
      BY <2>2, <2>3 DEF Incident
    <3>3. QED
      BY <2>1, <2>6, <3>1, <3>2 DEF HoldEnds, SameClock
  <2>9. next.closed_at \in {None, row.closed_at, t}
    BY <2>2, <2>3 DEF Incident
  <2>10. QED
    BY <2>5, <2>7, <2>8, <2>9 DEF ClockStep, Touch
<1>5. QED
  BY <1>3, <1>4

(* A clock step never adds to the hold. *)
LEMMA ClockStepHold ==
  ASSUME NEW row, NEW next, NEW t \in Int, Consistent(row, t), ClockStep(row, next, t)
  PROVE  Hold(next, t) <= Hold(row, t)
<1>1. row \in Incident /\ next \in Incident
  BY DEF Consistent, ClockStep
<1>2. CASE SameClock(row, next)
  BY <1>1, <1>2 DEF SameClock, Hold, Incident, OptionalTime
<1>3. CASE HoldStarts(row, next, t)
  BY <1>1, <1>3, SlaClockAssumption DEF HoldStarts, Hold, Incident, OptionalTime
<1>4. CASE HoldEnds(row, next, t)
  <2>1. WholeSeconds(t - row.paused_at) <= t - row.paused_at
    <3>1. row.paused_at # None /\ row.paused_at <= t
      BY <1>4 DEF HoldEnds, Consistent
    <3>2. QED
      BY <1>1, <3>1, ResumeEffect
  <2>2. WholeSeconds(t - row.paused_at) \in Nat
    <3>1. row.paused_at # None /\ row.paused_at <= t
      BY <1>4 DEF HoldEnds, Consistent
    <3>2. QED
      BY <1>1, <3>1, ResumeEffect
  <2>3. QED
    BY <1>1, <1>4, <2>1, <2>2 DEF HoldEnds, Hold, Incident, OptionalTime
<1>5. QED
  BY <1>2, <1>3, <1>4 DEF ClockStep

-----------------------------------------------------------------------------
(* The handlers *)

LEMMA TransitionIsClockStep ==
  ASSUME NEW row, NEW touched, now \in Int, Consistent(row, now), Touch(row, touched, now),
         NEW status \in Statuses \cup {None}
  PROVE  ClockStep(row, Transition(touched, status), now)
<1>1. touched.status = row.status
  BY DEF Touch
<1>2. CASE status \in {None, row.status}
  BY <1>1, <1>2, TouchIsClockStep DEF Transition
<1>3. CASE status \notin {None, row.status}
  <2>1. status \in Statuses /\ status # row.status
    BY <1>3
  <2>2. Transition(touched, status) = ApplyStatusTransition(touched, status, now)
    BY <1>1, <1>3 DEF Transition
  <2>3. QED
    BY <2>1, <2>2, TransitionSteps
<1>4. QED
  BY <1>2, <1>3

(* The recomputation after a change of status never does anything: by then   *)
(* the case is answered.                                                     *)
LEMMA UpdatedIsClockStep ==
  ASSUME NEW row, now \in Int, Consistent(row, now), policy \in SUBSET SlaRow,
         NEW status \in Statuses \cup {None}, NEW severity \in Nat \cup {None},
         NEW assignee \in Assignees
  PROVE  ClockStep(row, Updated(row, status, severity, assignee), now)
<1> DEFINE rated == IF severity = None THEN Assign(row, assignee)
                    ELSE [Assign(row, assignee) EXCEPT !.severity = severity]
           moved == Transition(rated, status)
<1>1. Touch(row, rated, now)
  <2>1. Touch(row, Assign(row, assignee), now)
    BY AssignTouches
  <2>2. CASE severity = None
    BY <2>1, <2>2
  <2>3. CASE severity # None
    <3>1. severity \in Nat
      BY <2>3
    <3>2. Touch(row, [Assign(row, assignee) EXCEPT !.severity = severity], now)
      BY <2>1, <3>1, SeverityTouches
    <3>3. QED
      BY <2>3, <3>2
  <2>4. QED
    BY <2>2, <2>3
<1>2. ClockStep(row, moved, now)
  BY <1>1, TransitionIsClockStep
<1>3. CASE status \notin {None, row.status}
  <2>1. status \in Statuses /\ status # row.status
    BY <1>3
  <2>2. moved = ApplyStatusTransition(rated, status, now)
    BY <1>1, <1>3 DEF Transition, Touch
  <2>3. Answered(moved)
    <3> HIDE DEF rated
    <3>1. Answered(ApplyStatusTransition(rated, status, now))
      BY <1>1, <2>1, TransitionSteps
    <3>2. QED
      BY <2>2, <3>1
  <2>4. \A band : ApplyOnEscalation(moved, band) = moved
    <3> HIDE DEF moved
    <3> QED
      BY <2>3 DEF ApplyOnEscalation, Answered
  <2>5. Updated(row, status, severity, assignee) = moved
    BY <2>4 DEF Updated
  <2>6. QED
    BY <1>2, <2>5
<1>4. CASE status \in {None, row.status}
  <2>1. Updated(row, status, severity, assignee) = moved
    BY <1>4 DEF Updated
  <2>2. QED
    BY <1>2, <2>1
<1>5. QED
  BY <1>3, <1>4

(* An alert that joins keeps the row consistent and its hold as it was, and  *)
(* leaves the clock of an answered case alone.  For one not yet answered the *)
(* deadlines may only be set anew, never removed.                            *)
LEMMA AttachedKeeps ==
  ASSUME NEW row, now \in Int, Consistent(row, now), policy \in SUBSET SlaRow,
         NEW stamp \in Int, NEW level \in Nat
  PROVE  LET next == Attached(row, stamp, level)
         IN  /\ Consistent(next, now)
             /\ next.closed_at = row.closed_at
             /\ next.first_response_at = row.first_response_at
             /\ next.paused_at = row.paused_at
             /\ next.paused_seconds = row.paused_seconds
             /\ Answered(row) => SameClock(row, next)
             /\ next.resolve_by = row.resolve_by \/ next.resolve_by \in Int
<1> DEFINE seen == IF stamp < row.first_seen THEN [row EXCEPT !.first_seen = stamp] ELSE row
           raised == [seen EXCEPT !.severity = level]
           band == BandFor(policy, level)
<1>1. Touch(row, seen, now)
  BY DEF Touch, SameClock, Consistent, Incident, Answered
<1>2. Touch(row, raised, now)
  <2> HIDE DEF seen
  <2> QED
    BY <1>1, SeverityTouches
<1>3. band \in SlaRow \cup {None}
  BY BandForType
<1>4. seen.first_response_at = row.first_response_at
  BY DEF Consistent, Incident
<1>5. raised.first_response_at = row.first_response_at
  BY <1>4 DEF Consistent, Incident
<1>6. CASE ~(level > row.severity)
  <2>1. Attached(row, stamp, level) = seen
    BY <1>6 DEF Attached
  <2>2. QED
    BY <1>1, <1>4, <2>1 DEF Touch, SameClock
<1>7. CASE level > row.severity
  <2>1. Attached(row, stamp, level) = ApplyOnEscalation(raised, band)
    BY <1>7 DEF Attached
  <2> HIDE DEF band, raised, seen
  <2>2. CASE raised.first_response_at # None \/ band = None
    <3>1. ApplyOnEscalation(raised, band) = raised
      BY <2>2 DEF ApplyOnEscalation
    <3>2. QED
      BY <1>2, <1>5, <2>1, <3>1 DEF Touch, SameClock
  <2>3. CASE raised.first_response_at = None /\ band # None
    <3>1. /\ band \in SlaRow
          /\ raised \in Incident
          /\ raised.paused_seconds \in Nat
          /\ Consistent(raised, now)
      BY <1>2, <1>3, <2>3 DEF Touch, Consistent, Incident
    <3>2. ApplyOnEscalation(raised, band) = WithDeadlines(raised, band, raised.paused_seconds)
      BY <2>3 DEF ApplyOnEscalation
    <3>3. Consistent(WithDeadlines(raised, band, raised.paused_seconds), now)
      BY <3>1, WithDeadlinesKeeps
    <3>4. raised.first_seen + band.resolve + raised.paused_seconds \in Int
      BY <3>1 DEF Incident, SlaRow
    <3>5. LET next == WithDeadlines(raised, band, raised.paused_seconds)
          IN  /\ next.first_response_at = raised.first_response_at
              /\ next.closed_at = raised.closed_at
              /\ next.paused_at = raised.paused_at
              /\ next.paused_seconds = raised.paused_seconds
              /\ next.resolve_by \in Int
      BY <3>1, <3>4 DEF WithDeadlines, Incident
    <3>6. ~Answered(row)
      BY <1>5, <2>3 DEF Answered
    <3>7. QED
      BY <1>2, <1>5, <2>1, <3>2, <3>3, <3>5, <3>6 DEF Touch, SameClock
  <2>4. QED
    BY <2>2, <2>3
<1>8. QED
  BY <1>6, <1>7

-----------------------------------------------------------------------------
(* The inductive invariant *)

(* What the assumptions say of the inputs. *)
LEMMA InputTypes ==
  /\ \A stamp \in Stamps : stamp \in Int
  /\ \A severity \in Severities : severity \in Nat
  /\ \A p \in Policies : p \in SUBSET SlaRow
BY IncidentClockAssumption

LEMMA InitEstablishesIInv == Init => IInv
<1> SUFFICES ASSUME Init PROVE IInv
  OBVIOUS
<1>1. PICK stamp \in Stamps, level \in Severities : inc = Created(policy, stamp, level)
  BY DEF Init
<1> DEFINE row == [ status |-> "new", severity |-> level, assigned |-> FALSE,
                    first_seen |-> stamp, respond_by |-> None, resolve_by |-> None,
                    first_response_at |-> None, paused_at |-> None, paused_seconds |-> 0,
                    closed_at |-> None ]
           band == BandFor(policy, level)
<1>2. /\ now \in Int
      /\ policy \in Policies
      /\ policy \in SUBSET SlaRow
      /\ heldTicks = 0
  BY InputTypes, IncidentClockAssumption DEF Init
<1>3. stamp \in Int /\ level \in Nat
  BY InputTypes
<1>4. row \in Incident
  BY <1>3 DEF Incident, OptionalTime, Statuses, OpenStatuses
<1>5. Consistent(row, now) /\ row.paused_seconds = 0 /\ row.paused_at = None
  BY <1>4 DEF Consistent, PausedStatus, ClosedStatuses
<1>6. band \in SlaRow \cup {None}
  BY <1>2, <1>3, BandForType
<1>7. inc = ApplyOnCreate(row, band)
  BY <1>1 DEF Created
<1> HIDE DEF row, band
<1>8. CASE band = None
  <2>1. inc = [row EXCEPT !.respond_by = None, !.resolve_by = None]
    BY <1>7, <1>8 DEF ApplyOnCreate
  <2>2. Consistent(inc, now) /\ inc.paused_seconds = 0 /\ inc.paused_at = None
    BY <1>4, <1>5, <2>1 DEF Consistent, Incident, Answered, OptionalTime
  <2>3. QED
    BY <1>2, <2>2 DEF IInv, TypeOK, Hold, Consistent
<1>9. CASE band # None
  <2>1. inc = WithDeadlines(row, band, 0) /\ band \in SlaRow
    BY <1>6, <1>7, <1>9 DEF ApplyOnCreate
  <2>2. Consistent(inc, now) /\ Hold(inc, now) = Hold(row, now)
    BY <1>2, <1>5, <2>1, WithDeadlinesKeeps
  <2>3. Hold(row, now) = 0
    BY <1>5 DEF Hold
  <2>4. QED
    BY <1>2, <2>2, <2>3 DEF IInv, TypeOK, Consistent
<1>10. QED
  BY <1>8, <1>9

(* Every step leaves the row as a clock step of it, as an alert that joined, *)
(* or untouched.                                                             *)
RowStep ==
  \/ /\ ClockStep(inc, inc', now)
     /\ now' = now
     /\ heldTicks' = heldTicks
  \/ \E stamp \in Stamps, level \in Severities :
       /\ inc' = Attached(inc, stamp, level)
       /\ now' = now
       /\ heldTicks' = heldTicks
  \/ /\ inc' = inc
     /\ now' = now + 1
     /\ heldTicks' = heldTicks + (IF inc.status = PausedStatus THEN 1 ELSE 0)
  \/ /\ inc' = inc
     /\ now' = now
     /\ heldTicks' = heldTicks

LEMMA NextIsRowStep ==
  ASSUME IInv, [Next]_vars
  PROVE  /\ RowStep
         /\ policy' \in Policies
   <1>1. /\ now \in Int
      /\ Consistent(inc, now)
      /\ policy \in Policies
      /\ policy \in SUBSET SlaRow
  BY InputTypes DEF IInv, TypeOK
<1>2. CASE Tick
  BY <1>1, <1>2 DEF Tick, RowStep
<1>3. ASSUME NEW stamp \in Stamps, NEW level \in Severities, AlertJoins(stamp, level)
      PROVE  RowStep /\ policy' \in Policies
  BY <1>1, <1>3 DEF AlertJoins, RowStep
<1>4. ASSUME NEW status \in Statuses \cup {None}, NEW severity \in Severities \cup {None},
             NEW assignee \in Assignees, UpdateIncident(status, severity, assignee)
      PROVE  RowStep /\ policy' \in Policies
  <2>1. severity \in Nat \cup {None}
    BY InputTypes
  <2>2. ClockStep(inc, Updated(inc, status, severity, assignee), now)
    BY <1>1, <2>1, UpdatedIsClockStep
  <2>3. QED
    BY <1>1, <1>4, <2>2 DEF UpdateIncident, RowStep
<1>5. ASSUME NEW status \in Statuses \cup {None}, NEW assignee \in Assignees,
             BulkUpdate(status, assignee)
      PROVE  RowStep /\ policy' \in Policies
  <2>1. Touch(inc, Assign(inc, assignee), now)
    BY <1>1, AssignTouches
  <2>2. ClockStep(inc, Transition(Assign(inc, assignee), status), now)
    BY <1>1, <2>1, TransitionIsClockStep
  <2>3. QED
    BY <1>1, <1>5, <2>2 DEF BulkUpdate, RowStep
<1>6. ASSUME NEW staff \in BOOLEAN, AddComment(staff)
      PROVE  RowStep /\ policy' \in Policies
  <2>1. ClockStep(inc, MarkFirstResponse(inc, now), now)
    BY <1>1, MarkTouches, TouchIsClockStep
  <2>2. ClockStep(inc, inc', now) \/ inc' = inc
    BY <1>6, <2>1 DEF AddComment
  <2>3. QED
    BY <1>1, <1>6, <2>2 DEF AddComment, RowStep
<1>7. ASSUME NEW newPolicy \in Policies, PutSla(newPolicy)
      PROVE  RowStep /\ policy' \in Policies
  BY <1>1, <1>7 DEF PutSla, RowStep
<1>8. CASE UNCHANGED vars
  BY <1>1, <1>8 DEF vars, RowStep
<1>9. QED
  BY <1>1, <1>2, <1>3, <1>4, <1>5, <1>6, <1>7, <1>8 DEF Next, Tick

LEMMA StepKeepsIInv == IInv /\ [Next]_vars => IInv'
<1> SUFFICES ASSUME IInv, [Next]_vars PROVE IInv'
  OBVIOUS
<1>1. /\ RowStep
      /\ policy' \in Policies
  BY NextIsRowStep
<1>2. /\ now \in Int
      /\ heldTicks \in Nat
      /\ Consistent(inc, now)
      /\ inc \in Incident
      /\ Hold(inc, now) <= heldTicks
      /\ policy \in SUBSET SlaRow
  BY InputTypes DEF IInv, TypeOK
<1>3. SUFFICES /\ now' \in Int
               /\ heldTicks' \in Nat
               /\ Consistent(inc', now')
               /\ Hold(inc', now') <= heldTicks'
  BY <1>1, Zenon DEF IInv, TypeOK, Consistent
<1>4. CASE ClockStep(inc, inc', now) /\ now' = now /\ heldTicks' = heldTicks
  <2>1. Hold(inc', now) <= Hold(inc, now)
    BY <1>2, <1>4, ClockStepHold
  <2>2. Consistent(inc', now) /\ Hold(inc', now) \in Int /\ Hold(inc, now) \in Int
    BY <1>2, <1>4 DEF ClockStep, Hold, Consistent, Incident, OptionalTime
  <2>3. QED
    BY <1>2, <1>4, <2>1, <2>2
<1>5. ASSUME NEW stamp \in Stamps, NEW level \in Severities,
             inc' = Attached(inc, stamp, level), now' = now, heldTicks' = heldTicks
      PROVE  /\ now' \in Int
             /\ heldTicks' \in Nat
             /\ Consistent(inc', now')
             /\ Hold(inc', now') <= heldTicks'
  <2>1. stamp \in Int /\ level \in Nat
    BY InputTypes
  <2>2. /\ Consistent(inc', now)
        /\ inc'.paused_at = inc.paused_at
        /\ inc'.paused_seconds = inc.paused_seconds
    BY <1>2, <1>5, <2>1, AttachedKeeps
  <2>3. QED
    BY <1>2, <1>5, <2>2 DEF Hold
<1>6. CASE /\ inc' = inc
           /\ now' = now + 1
           /\ heldTicks' = heldTicks + (IF inc.status = PausedStatus THEN 1 ELSE 0)
  <2>1. Consistent(inc, now + 1)
    BY <1>2 DEF Consistent, Incident, OptionalTime
  <2>2. Hold(inc, now + 1) <= heldTicks'
    <3>1. CASE inc.status = PausedStatus
      <4>1. inc.paused_at \in Int
        BY <1>2, <3>1 DEF Consistent, Incident, OptionalTime
      <4>2. QED
        BY <1>2, <1>6, <3>1, <4>1 DEF Hold, Incident, Consistent
    <3>2. CASE inc.status # PausedStatus
      BY <1>2, <1>6, <3>2 DEF Hold, Incident, Consistent
    <3>3. QED
      BY <3>1, <3>2
  <2>3. heldTicks' \in Nat
    BY <1>2, <1>6
  <2>4. QED
    BY <1>2, <1>6, <2>1, <2>2, <2>3
<1>7. CASE inc' = inc /\ now' = now /\ heldTicks' = heldTicks
  BY <1>2, <1>7
<1>8. QED
  BY <1>1, <1>4, <1>5, <1>6, <1>7 DEF RowStep
-----------------------------------------------------------------------------
(* The theorems *)

(* The inductive invariant holds of every reachable state. *)
THEOREM InductiveInvariant == Spec => []IInv
<1>1. Init => IInv
  BY InitEstablishesIInv
<1>2. IInv /\ [Next]_vars => IInv'
  BY StepKeepsIInv
<1>3. QED
  BY <1>1, <1>2, PTL DEF Spec

(* Every column keeps its type, whatever requests and alerts arrive. *)
THEOREM TypeCorrect == Spec => []TypeOK
<1>1. IInv => TypeOK
  BY DEF IInv
<1>2. QED
  BY <1>1, InductiveInvariant, PTL

(* paused_at and closed_at always say what the status says. *)
THEOREM StampsFollowStatusAlways == Spec => []StampsFollowStatus
<1>1. IInv => StampsFollowStatus
  BY DEF IInv, Consistent, StampsFollowStatus
<1>2. QED
  BY <1>1, InductiveInvariant, PTL

(* Whoever touched a case has answered it. *)
THEOREM TouchedIsAnsweredAlways == Spec => []TouchedIsAnswered
<1>1. IInv => TouchedIsAnswered
  BY DEF IInv, Consistent, TouchedIsAnswered
<1>2. QED
  BY <1>1, InductiveInvariant, PTL

(* Time is counted as held only once, and only while the case was pending. *)
THEOREM HeldTimeIsNotOvercountedAlways == Spec => []HeldTimeIsNotOvercounted
<1>1. IInv => HeldTimeIsNotOvercounted
  BY DEF IInv, Hold, HeldTimeIsNotOvercounted
<1>2. QED
  BY <1>1, InductiveInvariant, PTL

(* What a clock step does to the deadlines of an answered case. *)
LEMMA AnsweredStep ==
  ASSUME IInv, RowStep, Answered(inc)
  PROVE  LET held == inc'.paused_seconds - inc.paused_seconds
         IN  /\ held \in Nat
             /\ inc'.first_response_at = inc.first_response_at
             /\ inc'.respond_by = Pushed(inc.respond_by, held)
             /\ inc'.resolve_by = Pushed(inc.resolve_by, held)
<1>1. /\ now \in Int
      /\ Consistent(inc, now)
      /\ inc \in Incident
      /\ policy \in SUBSET SlaRow
  BY InputTypes DEF IInv, TypeOK
<1>2. /\ inc.respond_by \in OptionalTime
      /\ inc.resolve_by \in OptionalTime
      /\ inc.paused_seconds \in Nat
      /\ Pushed(inc.respond_by, 0) = inc.respond_by
      /\ Pushed(inc.resolve_by, 0) = inc.resolve_by
  BY <1>1 DEF Incident, Pushed, OptionalTime
<1>3. ASSUME SameClock(inc, inc'), inc'.first_response_at = inc.first_response_at
      PROVE  LET held == inc'.paused_seconds - inc.paused_seconds
             IN  /\ held \in Nat
                 /\ inc'.first_response_at = inc.first_response_at
                 /\ inc'.respond_by = Pushed(inc.respond_by, held)
                 /\ inc'.resolve_by = Pushed(inc.resolve_by, held)
  <2>1. inc'.paused_seconds - inc.paused_seconds = 0
    BY <1>2, <1>3 DEF SameClock
  <2>2. QED
    BY <1>2, <1>3, <2>1 DEF SameClock
<1>4. CASE ClockStep(inc, inc', now)
  <2>1. inc'.first_response_at = inc.first_response_at
    BY <1>4 DEF ClockStep
  <2>2. CASE SameClock(inc, inc')
    BY <1>3, <2>1, <2>2
  <2>3. CASE HoldStarts(inc, inc', now)
    <3>1. inc'.paused_seconds - inc.paused_seconds = 0
      BY <1>2, <2>3 DEF HoldStarts
    <3>2. QED
      BY <1>2, <2>1, <2>3, <3>1 DEF HoldStarts
  <2>4. CASE HoldEnds(inc, inc', now)
    <3>1. inc.paused_at # None /\ inc.paused_at <= now
      BY <1>1, <2>4 DEF HoldEnds, Consistent
    <3>2. WholeSeconds(now - inc.paused_at) \in Nat
      BY <1>1, <3>1, ResumeEffect
    <3>3. inc'.paused_seconds - inc.paused_seconds = WholeSeconds(now - inc.paused_at)
      BY <1>2, <2>4, <3>2 DEF HoldEnds
    <3>4. QED
      BY <2>1, <2>4, <3>2, <3>3 DEF HoldEnds
  <2>5. QED
    BY <1>4, <2>2, <2>3, <2>4 DEF ClockStep
<1>5. ASSUME NEW stamp \in Stamps, NEW level \in Severities, inc' = Attached(inc, stamp, level)
      PROVE  SameClock(inc, inc') /\ inc'.first_response_at = inc.first_response_at
  <2>1. stamp \in Int /\ level \in Nat
    BY InputTypes
  <2>2. QED
    BY <1>1, <1>5, <2>1, AttachedKeeps
<1>6. CASE inc' = inc
  BY <1>3, <1>6 DEF SameClock
<1>7. QED
  BY <1>3, <1>4, <1>5, <1>6 DEF RowStep

(* Once answered, deadlines move with the time held and by nothing else. *)
THEOREM FrozenOnceAnsweredAlways == Spec => FrozenOnceAnswered
<1>1. IInv /\ [Next]_vars =>
        [Answered(inc) =>
           LET held == inc'.paused_seconds - inc.paused_seconds
           IN  /\ inc'.first_response_at = inc.first_response_at
               /\ inc'.respond_by = Pushed(inc.respond_by, held)
               /\ inc'.resolve_by = Pushed(inc.resolve_by, held)]_inc
  BY NextIsRowStep, AnsweredStep
<1>2. QED
  BY <1>1, InductiveInvariant, PTL DEF Spec, FrozenOnceAnswered

(* A case answered in time is never reported late. *)
THEOREM TimelyAnswerStaysTimelyAlways == Spec => TimelyAnswerStaysTimely
<1>1. ASSUME IInv, [Next]_vars, Answered(inc), ~ResponseBreached(inc, now)
      PROVE  ~ResponseBreached(inc', now')
  <2>1. RowStep
    BY <1>1, NextIsRowStep
  <2>2. PICK held \in Nat : /\ inc'.first_response_at = inc.first_response_at
                           /\ inc'.respond_by = Pushed(inc.respond_by, held)
    BY <1>1, <2>1, AnsweredStep
  <2>3. inc.respond_by \in OptionalTime /\ inc.first_response_at \in OptionalTime
    BY <1>1 DEF IInv, TypeOK, Incident
  <2>4. QED
    BY <1>1, <2>2, <2>3, SlaClockAssumption
       DEF ResponseBreached, Answered, Pushed, OptionalTime
<1>2. IInv /\ [Next]_vars =>
        [Answered(inc) /\ ~ResponseBreached(inc, now) => ~ResponseBreached(inc', now')]_vars
  BY <1>1
<1>3. QED
  BY <1>2, InductiveInvariant, PTL DEF Spec, TimelyAnswerStaysTimely

(* No hold, closing or reopening takes a resolution breach back. *)
THEOREM ResolutionBreachIsPermanentAlways == Spec => ResolutionBreachIsPermanent
<1>1. ASSUME IInv, [Next]_vars, Answered(inc), ResolutionBreached(inc, now)
      PROVE  ResolutionBreached(inc', now')
  <2>1. RowStep
    BY <1>1, NextIsRowStep
  <2>2. /\ now \in Int
        /\ Consistent(inc, now)
        /\ inc \in Incident
        /\ policy \in SUBSET SlaRow
        /\ inc.resolve_by \in Int
        /\ inc.closed_at \in OptionalTime
        /\ inc.paused_at \in OptionalTime
        /\ PausedStatus \notin ClosedStatuses
    BY <1>1, InputTypes
       DEF IInv, TypeOK, ResolutionBreached, Incident, OptionalTime, PausedStatus, ClosedStatuses
  <2>3. inc.paused_at # None => inc.closed_at = None
    BY <2>2 DEF Consistent
  <2>4. CASE ClockStep(inc, inc', now) /\ now' = now
    <3>1. /\ Consistent(inc', now)
          /\ inc'.closed_at \in {None, inc.closed_at, now}
          /\ inc' \in Incident
      BY <2>4 DEF ClockStep, Consistent
    <3>2. CASE SameClock(inc, inc')
      BY <1>1, <2>2, <2>3, <2>4, <3>1, <3>2, SlaClockAssumption
         DEF SameClock, ResolutionBreached, Consistent, OptionalTime
    <3>3. CASE HoldStarts(inc, inc', now)
      BY <1>1, <2>2, <2>4, <3>1, <3>3, SlaClockAssumption
         DEF HoldStarts, ResolutionBreached, Consistent, OptionalTime
    <3>4. CASE HoldEnds(inc, inc', now)
      <4>1. inc.paused_at # None /\ inc.paused_at <= now /\ inc.closed_at = None
        BY <2>2, <2>3, <3>4 DEF HoldEnds, Consistent
      <4>2. PICK held \in Nat : held = WholeSeconds(now - inc.paused_at)
                               /\ held <= now - inc.paused_at
        BY <2>2, <4>1, ResumeEffect
      <4>3. /\ inc.paused_at \in Int
            /\ inc.paused_at > inc.resolve_by
            /\ inc'.resolve_by = inc.resolve_by + held
            /\ inc'.paused_at = None
        BY <1>1, <2>2, <3>4, <4>1, <4>2, SlaClockAssumption
           DEF HoldEnds, Pushed, ResolutionBreached, OptionalTime
      <4>4. now > inc'.resolve_by /\ inc'.resolve_by \in Int
        BY <2>2, <4>2, <4>3
      <4>5. inc'.closed_at \in {None, now}
        BY <3>1, <4>1
      <4>6. QED
        BY <2>2, <2>4, <4>3, <4>4, <4>5, SlaClockAssumption DEF ResolutionBreached
    <3>5. QED
      BY <2>4, <3>2, <3>3, <3>4 DEF ClockStep
  <2>5. ASSUME NEW stamp \in Stamps, NEW level \in Severities,
               inc' = Attached(inc, stamp, level), now' = now
        PROVE  ResolutionBreached(inc', now')
    <3>1. stamp \in Int /\ level \in Nat
      BY InputTypes
    <3>2. /\ inc'.closed_at = inc.closed_at
          /\ SameClock(inc, inc')
      BY <1>1, <2>2, <2>5, <3>1, AttachedKeeps
    <3>3. QED
      BY <1>1, <2>5, <3>2 DEF SameClock, ResolutionBreached
  <2>6. CASE inc' = inc /\ now' \in {now, now + 1}
    BY <1>1, <2>2, <2>6, SlaClockAssumption DEF ResolutionBreached, OptionalTime
  <2>7. QED
    BY <2>1, <2>4, <2>5, <2>6 DEF RowStep
<1>2. IInv /\ [Next]_vars =>
        [Answered(inc) /\ ResolutionBreached(inc, now) => ResolutionBreached(inc', now')]_vars
  BY <1>1
<1>3. QED
  BY <1>2, InductiveInvariant, PTL DEF Spec, ResolutionBreachIsPermanent

(* Neither verdict on an answered case is turned around. *)
THEOREM VerdictsStandAlways == Spec => VerdictsStand
BY TimelyAnswerStaysTimelyAlways, ResolutionBreachIsPermanentAlways DEF VerdictsStand

-----------------------------------------------------------------------------
(***************************************************************************)
(* The proof that IncidentClock implements CaseStopwatch.                   *)
(*                                                                          *)
(* The argument: a step of the case's row (RowStep) is given the             *)
(* stopwatch's reading of it, with the row before and after as plain values *)
(* (Shows); what shows is then a step of the stopwatch.                      *)
(***************************************************************************)

(* The time left on a row at time t. *)
Left(row, t) ==
  IF row.resolve_by = None THEN None
  ELSE row.resolve_by - (IF row.paused_at = None THEN t ELSE row.paused_at)

(* The types on which the steps below rest. *)
LEMMA ClockTypes ==
  ASSUME NEW row, NEW t \in Int, Consistent(row, t)
  PROVE  /\ row.resolve_by \in OptionalTime
         /\ row.paused_at \in OptionalTime
         /\ row.paused_at # None => Answered(row) /\ row.paused_at <= t
         /\ Left(row, t) \in Int \cup {None}
         /\ Left(row, t) = None <=> row.resolve_by = None
BY SlaClockAssumption DEF Consistent, Incident, OptionalTime, Left

(* The stopwatch as it shows the row, its variables and its steps spelled    *)
(* out for the row before and after.                                         *)
Shows(row, next, t, later) ==
  LET left     == Left(row, t)
      leftNext == Left(next, later)
      held     == row.paused_at # None
      heldNext == next.paused_at # None
  IN  \/ /\ leftNext = left /\ (heldNext <=> held)           \* nothing, or Answer
         /\ Answered(row) => Answered(next)
      \/ /\ ~held /\ left # None /\ leftNext = left - 1  \* RunDown
         /\ (heldNext <=> held) /\ (Answered(next) <=> Answered(row))
      \/ /\ ~held /\ heldNext /\ Answered(next)          \* Hold
         /\ leftNext = left
      \/ /\ held /\ ~heldNext                            \* Release
         /\ (Answered(next) <=> Answered(row))
         /\ \/ left = None /\ leftNext = None
            \/ left # None /\ \E lost \in 0 .. TicksPerSecond - 1 : leftNext = left - lost
      \/ /\ ~Answered(row) /\ leftNext \in Int           \* Reset
         /\ (heldNext <=> held) /\ (Answered(next) <=> Answered(row))

(* Letting go of a hold costs what WholeSeconds cuts off. *)
LEMMA HoldEndsShows ==
  ASSUME NEW row, NEW next, NEW t \in Int, Consistent(row, t), ClockStep(row, next, t),
         HoldEnds(row, next, t)
  PROVE  Shows(row, next, t, t)
<1> DEFINE held == WholeSeconds(t - row.paused_at)
           lost == t - row.paused_at - held
<1>1. /\ row.paused_at # None /\ row.paused_at <= t /\ row \in Incident
      /\ row.paused_at \in Int
      /\ row.resolve_by \in OptionalTime
      /\ Answered(row)
  BY ClockTypes DEF HoldEnds, Consistent, OptionalTime
<1>2. held \in Nat /\ lost \in 0 .. TicksPerSecond - 1
  BY <1>1, ResumeEffect
<1>3. next.paused_at = None /\ next.resolve_by = Pushed(row.resolve_by, held)
  BY DEF HoldEnds
<1>4. Answered(next) <=> Answered(row)
  BY <1>1 DEF ClockStep, Answered
<1> HIDE DEF held, lost
<1>5. CASE row.resolve_by = None
  BY <1>1, <1>3, <1>4, <1>5 DEF Shows, Left, Pushed
<1>6. CASE row.resolve_by # None
  <2>1. /\ row.resolve_by \in Int
        /\ next.resolve_by = row.resolve_by + held
        /\ next.resolve_by # None
    BY <1>1, <1>2, <1>3, <1>6, SlaClockAssumption DEF Pushed, OptionalTime
  <2>2. /\ Left(row, t) = row.resolve_by - row.paused_at
        /\ Left(next, t) = row.resolve_by + held - t
    BY <1>1, <1>2, <1>3, <1>6, <2>1 DEF Left
  <2>3. Left(next, t) = Left(row, t) - lost
    BY <1>1, <1>2, <2>1, <2>2 DEF lost
  <2>4. Left(row, t) # None
    BY <1>1, <2>1, <2>2, SlaClockAssumption
  <2>5. \E missing \in 0 .. TicksPerSecond - 1 : Left(next, t) = Left(row, t) - missing
    BY <1>2, <2>3
  <2>6. QED
    BY <1>1, <1>3, <1>4, <2>4, <2>5 DEF Shows
<1>7. QED
  BY <1>5, <1>6

(* Every request shows as a step of the stopwatch, or not at all. *)
LEMMA ClockStepShows ==
  ASSUME NEW row, NEW next, NEW t \in Int, Consistent(row, t), ClockStep(row, next, t)
  PROVE  Shows(row, next, t, t)
<1>1. Answered(row) => Answered(next)
  BY DEF ClockStep, Answered
<1>2. CASE SameClock(row, next)
  BY <1>1, <1>2 DEF SameClock, Shows, Left
<1>3. CASE HoldStarts(row, next, t)
  <2>1. next.paused_at # None
    BY <1>3, SlaClockAssumption DEF HoldStarts
  <2>2. Left(next, t) = Left(row, t)
    BY <1>3, <2>1 DEF HoldStarts, Left
  <2>3. QED
    BY <1>3, <2>1, <2>2 DEF HoldStarts, Shows
<1>4. CASE HoldEnds(row, next, t)
  BY <1>4, HoldEndsShows
<1>5. QED
  BY <1>2, <1>3, <1>4 DEF ClockStep

(* So does an alert that joins: it resets an unanswered clock, if any. *)
LEMMA AlertShows ==
  ASSUME IInv, NEW stamp \in Stamps, NEW level \in Severities
  PROVE  Shows(inc, Attached(inc, stamp, level), now, now)
<1> DEFINE next == Attached(inc, stamp, level)
<1>1. /\ now \in Int
      /\ Consistent(inc, now)
      /\ policy \in SUBSET SlaRow
      /\ stamp \in Int /\ level \in Nat
  BY InputTypes DEF IInv, TypeOK
<1>2. /\ Consistent(next, now)
      /\ next.first_response_at = inc.first_response_at
      /\ next.paused_at = inc.paused_at
      /\ Answered(inc) => SameClock(inc, next)
      /\ next.resolve_by = inc.resolve_by \/ next.resolve_by \in Int
  BY <1>1, AttachedKeeps
<1> SUFFICES Shows(inc, next, now, now)
  OBVIOUS
<1> HIDE DEF next
<1>3. Answered(next) <=> Answered(inc)
  BY <1>2 DEF Answered
<1>4. CASE next.resolve_by = inc.resolve_by
  BY <1>2, <1>3, <1>4 DEF Shows, Left
<1>5. CASE next.resolve_by # inc.resolve_by
  <2>1. ~Answered(inc) /\ next.resolve_by \in Int
    BY <1>2, <1>5 DEF SameClock
  <2>2. next.paused_at \in OptionalTime /\ next.resolve_by # None
    BY <1>1, <1>2, <2>1, ClockTypes, SlaClockAssumption
  <2>3. Left(next, now) \in Int
    BY <1>1, <2>1, <2>2 DEF Left, OptionalTime
  <2>4. QED
    BY <1>2, <1>3, <2>1, <2>3 DEF Shows
<1>6. QED
  BY <1>4, <1>5

(* And so does a tick, unless the case is held or has no target. *)
LEMMA TickShows ==
  ASSUME NEW row, NEW t \in Int, Consistent(row, t)
  PROVE  Shows(row, row, t, t + 1)
<1>1. row.resolve_by \in OptionalTime /\ row.paused_at \in OptionalTime
  BY ClockTypes
<1>2. CASE row.resolve_by = None \/ row.paused_at # None
  BY <1>2 DEF Shows, Left
<1>3. CASE row.resolve_by # None /\ row.paused_at = None
  <2>1. /\ row.resolve_by \in Int
        /\ Left(row, t) = row.resolve_by - t
        /\ Left(row, t + 1) = row.resolve_by - (t + 1)
    BY <1>1, <1>3 DEF Left, OptionalTime
  <2>2. Left(row, t + 1) = Left(row, t) - 1 /\ Left(row, t) # None
    BY <2>1, SlaClockAssumption
  <2>3. QED
    BY <1>3, <2>2 DEF Shows
<1>4. QED
  BY <1>2, <1>3

(* What shows is a step of the stopwatch. *)
LEMMA ShowsIsStopwatchStep ==
  ASSUME Shows(inc, inc', now, now')
  PROVE  [Stopwatch!Next]_(Stopwatch!stopwatch)
<1> DEFINE held         == inc.paused_at # None
           answered     == Answered(inc)
           heldNext     == inc'.paused_at # None
           answeredNext == Answered(inc')
<1>1. TimeLeft = Left(inc, now) /\ TimeLeft' = Left(inc', now')
  BY DEF TimeLeft, Left
<1>2. held' = heldNext /\ answered' = answeredNext
  BY DEF Answered
<1>3. /\ held \in BOOLEAN /\ heldNext \in BOOLEAN
      /\ answered \in BOOLEAN /\ answeredNext \in BOOLEAN
  BY DEF Answered
<1> HIDE DEF held, heldNext, answered, answeredNext
<1>4. CASE Left(inc', now') = Left(inc, now) /\ (heldNext <=> held) /\ (answered => answeredNext)
  <2>1. held' = held
    BY <1>2, <1>3, <1>4, Zenon
  <2>2. CASE answered <=> answeredNext
    <3>1. TimeLeft' = TimeLeft /\ answered' = answered
      BY <1>1, <1>2, <1>3, <1>4, <2>2, Zenon
    <3>2. UNCHANGED Stopwatch!stopwatch
      BY <2>1, <3>1, Zenon DEF Stopwatch!stopwatch, held, answered
    <3>3. QED
      BY <3>2
  <2>3. CASE ~answered /\ answeredNext
    <3>1. TimeLeft' = TimeLeft /\ ~answered /\ answered' = TRUE
      BY <1>1, <1>2, <1>3, <1>4, <2>3, Zenon
    <3>2. Stopwatch!Answer
      BY <2>1, <3>1, Zenon DEF Stopwatch!Answer, held, answered
    <3>3. QED
      BY <3>2 DEF Stopwatch!Next
  <2>4. QED
    BY <1>4, <2>2, <2>3
<1>5. CASE /\ ~held /\ TimeLeft # None /\ TimeLeft' = TimeLeft - 1
           /\ (heldNext <=> held) /\ (answeredNext <=> answered)
  <2>1. held' = held /\ answered' = answered
    BY <1>2, <1>3, <1>5, Zenon
  <2>2. Stopwatch!RunDown
    BY <1>5, <2>1, Zenon DEF Stopwatch!RunDown, held, answered
  <2>3. QED
    BY <2>2 DEF Stopwatch!Next
<1>6. CASE ~held /\ heldNext /\ answeredNext /\ TimeLeft' = TimeLeft
  <2>1. held' = TRUE /\ answered' = TRUE
    BY <1>2, <1>3, <1>6, Zenon
  <2>2. Stopwatch!Hold
    BY <1>6, <2>1, Zenon DEF Stopwatch!Hold, held, answered
  <2>3. QED
    BY <2>2 DEF Stopwatch!Next
<1>7. CASE /\ held /\ ~heldNext /\ (answeredNext <=> answered)
           /\ \/ TimeLeft = None /\ TimeLeft' = None
              \/ TimeLeft # None /\ \E lost \in 0 .. TicksPerSecond - 1 : TimeLeft' = TimeLeft - lost
  <2>1. held' = FALSE /\ answered' = answered
    BY <1>2, <1>3, <1>7, Zenon
  <2>2. Stopwatch!Release
    BY <1>7, <2>1, Zenon DEF Stopwatch!Release, held, answered
  <2>3. QED
    BY <2>2 DEF Stopwatch!Next
<1>8. CASE ~answered /\ TimeLeft' \in Int /\ (heldNext <=> held) /\ (answeredNext <=> answered)
  <2>1. held' = held /\ answered' = answered
    BY <1>2, <1>3, <1>8, Zenon
  <2>2. Stopwatch!Reset
    BY <1>8, <2>1, Zenon DEF Stopwatch!Reset, held, answered
  <2>3. QED
    BY <2>2 DEF Stopwatch!Next
<1>9. QED
  BY <1>1, <1>4, <1>5, <1>6, <1>7, <1>8, Zenon
     DEF Shows, held, heldNext, answered, answeredNext

(* Absolute deadlines that are pushed forward on resume implement a          *)
(* stopwatch that stands still while the case awaits the client.             *)
THEOREM ClockImplementsStopwatch == Spec => ImplementsStopwatch
<1>1. Init => Stopwatch!Init
  <2> SUFFICES ASSUME Init PROVE Stopwatch!Init
    OBVIOUS
  <2>1. Consistent(inc, now) /\ now \in Int
    BY InitEstablishesIInv DEF IInv, TypeOK
  <2>2. inc.first_response_at = None
    <3>1. PICK stamp \in Stamps, level \in Severities : inc = Created(policy, stamp, level)
      BY DEF Init
    <3>2. QED
      BY <3>1 DEF Created, ApplyOnCreate, WithDeadlines
  <2>3. ~Answered(inc) /\ inc.paused_at = None
    BY <2>1, <2>2, ClockTypes DEF Answered
  <2>4. TimeLeft \in Int \cup {None}
    BY <2>1, ClockTypes DEF TimeLeft, Left
  <2>5. QED
    BY <2>3, <2>4 DEF Stopwatch!Init
<1>2. IInv /\ [Next]_vars => [Stopwatch!Next]_(Stopwatch!stopwatch)
  <2> SUFFICES ASSUME IInv, [Next]_vars PROVE Shows(inc, inc', now, now')
    BY ShowsIsStopwatchStep
  <2>1. Consistent(inc, now) /\ now \in Int
    BY DEF IInv, TypeOK
  <2>2. CASE ClockStep(inc, inc', now) /\ now' = now
    BY <2>1, <2>2, ClockStepShows
  <2>3. ASSUME NEW stamp \in Stamps, NEW level \in Severities,
               inc' = Attached(inc, stamp, level), now' = now
        PROVE  Shows(inc, inc', now, now')
    BY <2>3, AlertShows
  <2>4. CASE inc' = inc /\ now' = now + 1
    BY <2>1, <2>4, TickShows
  <2>5. CASE inc' = inc /\ now' = now
    BY <2>5 DEF Shows
  <2>6. QED
    BY <2>2, <2>3, <2>4, <2>5, NextIsRowStep DEF RowStep
<1>3. QED
  BY <1>1, <1>2, InductiveInvariant, PTL DEF Spec, ImplementsStopwatch, Stopwatch!Spec
=============================================================================
