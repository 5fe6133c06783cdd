--------------------------- MODULE ReportLifecycle ---------------------------
(***************************************************************************)
(* The client reports of one tenant (api/v1/reports.py): built from the     *)
(* cases as several queries see them (reports/builder.py), numbered, edited,*)
(* issued and deleted.  Requests run beside each other; each reads what it   *)
(* needs and writes, without a lock in between.                              *)
(***************************************************************************)
EXTENDS Integers

CONSTANTS
  None,
  Requests,    \* requests of staff in flight
  Cases,
  MaxReports,  \* bound on the reports that are stored
  Periods,     \* [start, end]
  MaxRequests, \* bound on the requests that are made
  MaxTime      \* bound on the clock

OpenStatuses   == {"new", "active", "pending"}
ClosedStatuses == {"resolved", "false_positive"}

Times  == 0 .. MaxTime
Figure == [opened : SUBSET Cases, closed : SUBSET Cases, stillOpen : SUBSET Cases,
           falsePositives : SUBSET Cases]
Report == [number : Nat \ {0}, status : {"draft", "issued"}, wording : {"first", "second"},
           period : Periods, figures : Figure, issued_at : Times \cup {None}]

ASSUME ReportLifecycleAssumption ==
  /\ MaxTime \in Nat /\ MaxReports \in Nat /\ MaxRequests \in Nat
  /\ None \notin Int /\ None \notin Report
  /\ None \notin [status : OpenStatuses \cup ClosedStatuses, created_at : Int, closed_at : Int \cup {None}]
  /\ Periods \subseteq [start : Int, end : Int]
  /\ \A period \in Periods : period.start < period.end    \* reports_period_check

VARIABLES
  now,
  cases,     \* the row of each case: [status, created_at, closed_at], None before it is there
  reports,   \* the row of each report, None if there is none
  used,      \* the last primary key given out
  freed,     \* ghost: the numbers that deleted drafts had
  request,   \* what each request is doing
  made       \* requests made so far

table == <<reports, used, freed>>
vars  == <<now, cases, table, request, made>>

Ids     == 1 .. MaxReports     \* primary keys
Stored  == { id \in Ids : reports[id] # None }
Known   == { c \in Cases : cases[c] # None }

(* Ghosts of a request: the cases touched since its first query, and since    *)
(* its second; and whether a report was stored since it read the last number. *)
NoRequest == [ kind |-> None, phase |-> "start", id |-> None, loaded |-> None, period |-> None,
               seen |-> [c \in Cases |-> None], opened |-> {}, closed |-> {}, stillOpen |-> {},
               number |-> 0, touched |-> {}, moved |-> {}, raced |-> FALSE ]

Becomes(r, state) == request' = [request EXCEPT ![r] = state]

Begins(r, state) ==
  /\ request[r] = NoRequest /\ made < MaxRequests
  /\ made' = made + 1
  /\ Becomes(r, state)

-----------------------------------------------------------------------------
(* The builder: three queries over the cases, each of them of the moment.     *)

InPeriod(time, period) == time # None /\ period.start <= time /\ time < period.end

(* A session keeps the first row it read of each case. *)
Seen(state, found) ==
  [c \in Cases |-> IF state.seen[c] = None /\ c \in found THEN cases[c].status ELSE state.seen[c]]

StartReport(r, period) ==
  LET opened == { c \in Known : InPeriod(cases[c].created_at, period) }
  IN /\ Begins(r, [NoRequest EXCEPT !.kind = "create", !.phase = "closed", !.period = period,
                     !.opened = opened, !.seen = Seen(NoRequest, opened)])
     /\ UNCHANGED <<now, cases, table>>

QueryClosed(r) ==
  LET closed == { c \in Known : /\ cases[c].status \in ClosedStatuses
                                /\ InPeriod(cases[c].closed_at, request[r].period) }
  IN /\ request[r].phase = "closed"
     /\ Becomes(r, [request[r] EXCEPT !.phase = "open", !.closed = closed, !.moved = {},
                     !.seen = Seen(request[r], closed)])
     /\ UNCHANGED <<now, cases, table, made>>

(* Mutant: outstanding work is looked for in the period only. *)
OutstandingInPeriod(period) ==
  { c \in Known : cases[c].status \in OpenStatuses /\ InPeriod(cases[c].created_at, period) }

(* Open now, whenever it was opened *)
Outstanding(period) == { c \in Known : cases[c].status \in OpenStatuses }

QueryStillOpen(r) ==
  /\ request[r].phase = "open"
  /\ Becomes(r, [request[r] EXCEPT !.phase = "number", !.touched = {}, !.moved = {},
                                   !.stillOpen = Outstanding(request[r].period)])
  /\ UNCHANGED <<now, cases, table, made>>

(* preview_report: the figures without a report *)
Preview(r) ==
  /\ request[r].phase = "number"
  /\ Becomes(r, NoRequest)
  /\ UNCHANGED <<now, cases, table, made>>

-----------------------------------------------------------------------------
(* Numbering and storing *)

(* Mutant: only reports that went out are numbered on from. *)
HighestIssued ==
  LET issued == { id \in Stored : reports[id].status = "issued" }
  IN IF issued = {} THEN 0
     ELSE CHOOSE n \in { reports[id].number : id \in issued } :
            \A id \in issued : reports[id].number <= n

Highest == IF Stored = {} THEN 0
           ELSE CHOOSE n \in { reports[id].number : id \in Stored } :
                  \A id \in Stored : reports[id].number <= n

NextNumber(r) ==
  /\ request[r].phase = "number"
  /\ Becomes(r, [request[r] EXCEPT !.phase = "insert", !.number = Highest + 1])
  /\ UNCHANGED <<now, cases, table, made>>

(* reports_tenant_number_uq *)
NumberIsFree(number) == \A id \in Stored : reports[id].number # number

(* The figures a report keeps: false positives go by the status that was read *)
(* first, whatever query found the case.                                      *)
Figures(state) ==
  [ opened |-> state.opened, closed |-> state.closed, stillOpen |-> state.stillOpen,
    falsePositives |-> { c \in state.closed : state.seen[c] = "false_positive" } ]

Refuse(r) ==
  /\ request[r].phase = "insert" /\ ~NumberIsFree(request[r].number)
  /\ Becomes(r, NoRequest)                    \* 409: try again
  /\ UNCHANGED <<now, cases, table, made>>

Insert(r) ==
  LET state == request[r]
  IN /\ state.phase = "insert" /\ NumberIsFree(state.number) /\ used < MaxReports
     /\ reports' = [reports EXCEPT ![used + 1] =
               [ number |-> state.number, status |-> "draft", wording |-> "first",
                 period |-> state.period, figures |-> Figures(state), issued_at |-> None ]]
     /\ used' = used + 1
     /\ request' = [q \in Requests |->
                      IF q = r THEN NoRequest
                      ELSE [request[q] EXCEPT !.raced = @ \/ request[q].phase = "insert"]]
     /\ UNCHANGED <<now, cases, freed, made>>

-----------------------------------------------------------------------------
(* Editing, issuing, deleting: a report is loaded, and if it is a draft       *)
(* written or deleted afterwards.                                             *)

(* Mutant: an issued report is loaded for editing as well. *)
LoadAny(r, kind, id) ==
  /\ id \in Stored
  /\ Begins(r, [NoRequest EXCEPT !.kind = kind, !.phase = "write", !.id = id,
                               !.loaded = reports[id].status])
  /\ UNCHANGED <<now, cases, table>>

Load(r, kind, id) ==
  /\ id \in Stored
  /\ reports[id].status = "draft"       \* issued: 409, or for issue nothing to do
  /\ Begins(r, [NoRequest EXCEPT !.kind = kind, !.phase = "write", !.id = id,
                               !.loaded = reports[id].status])
  /\ UNCHANGED <<now, cases, table>>

(* The columns each handler sets *)
Written(kind, row) ==
  CASE kind = "edit"  -> [row EXCEPT !.wording = "second"]
    [] kind = "issue" -> [row EXCEPT !.status = "issued", !.issued_at = now]

(* A row that is gone by then fails the request. *)
Write(r) ==
  LET state == request[r]
  IN /\ state.phase = "write"
     /\ Becomes(r, NoRequest)
     /\ reports' = IF reports[state.id] = None THEN reports
                   ELSE [reports EXCEPT ![state.id] =
                           IF state.kind = "delete" THEN None ELSE Written(state.kind, @)]
     /\ freed' = IF reports[state.id] # None /\ state.kind = "delete"
                 THEN freed \cup {reports[state.id].number} ELSE freed
     /\ UNCHANGED <<now, cases, used, made>>

-----------------------------------------------------------------------------
(* The cases change, time passes *)

(* One of the open statuses will do. *)
MovesTo == {"new"} \cup ClosedStatuses

Touch(c) ==
  request' = [r \in Requests |-> IF request[r].phase \in {"closed", "open"}
                                 THEN [request[r] EXCEPT !.touched = @ \cup {c}, !.moved = @ \cup {c}]
                                 ELSE request[r]]

CaseOpens(c) ==
  /\ cases[c] = None
  /\ cases' = [cases EXCEPT ![c] = [status |-> "new", created_at |-> now, closed_at |-> None]]
  /\ Touch(c)
  /\ UNCHANGED <<now, table, made>>

CaseMoves(c, status) ==
  /\ c \in Known /\ cases[c].status # status
  /\ cases' = [cases EXCEPT ![c].status = status,
                            ![c].closed_at = IF status \in ClosedStatuses THEN now ELSE None]
  /\ Touch(c)
  /\ UNCHANGED <<now, table, made>>

Tick ==
  /\ now < MaxTime
  /\ now' = now + 1
  /\ UNCHANGED <<cases, table, request, made>>

Init ==
  /\ now = 0
  /\ cases = [c \in Cases |-> None] /\ reports = [id \in Ids |-> None]
  /\ used = 0 /\ freed = {} /\ made = 0
  /\ request = [r \in Requests |-> NoRequest]

Next ==
  \/ \E r \in Requests :
       \/ \E period \in Periods : StartReport(r, period)
       \/ QueryClosed(r) \/ QueryStillOpen(r) \/ Preview(r) \/ NextNumber(r)
       \/ Refuse(r) \/ Insert(r)
       \/ \E id \in Ids, kind \in {"edit", "issue", "delete"} : Load(r, kind, id)
       \/ Write(r)
  \/ \E c \in Cases : CaseOpens(c) \/ (\E status \in MovesTo : CaseMoves(c, status))
  \/ Tick

Spec == Init /\ [][Next]_vars

-----------------------------------------------------------------------------
(* Properties *)

TypeOK ==
  /\ now \in Times /\ used \in Ids \cup {0} /\ made \in 0 .. MaxRequests /\ freed \subseteq Nat \ {0}
  /\ \A c \in Known : /\ cases[c].status \in OpenStatuses \cup ClosedStatuses
                      /\ cases[c].created_at \in Times
                      /\ cases[c].closed_at \in Times \cup {None}
  /\ \A id \in Stored : /\ reports[id] \in Report
                        /\ (reports[id].issued_at # None) <=> (reports[id].status = "issued")
  /\ \A r \in Requests : request[r].phase \in {"start", "closed", "open", "number", "insert", "write"}

(* The requests that loaded a report while it was a draft and have not written *)
Overtaken(id) == { r \in Requests : request[r].id = id /\ request[r].loaded = "draft" }

(* "An issued report is what the client received and is never rewritten":     *)
(* once issued, a report changes, is issued again or disappears only by a     *)
(* request that had loaded it as a draft.                                     *)
IssuedIsFinalOnceSettled ==
  [][\A id \in Ids :
       reports[id] # None /\ reports[id].status = "issued" /\ Overtaken(id) = {}
         => reports'[id] = reports[id]]_reports

(* A create is told that "another report was created at the same moment" only *)
(* if one was, since it read the highest number; whatever was deleted.         *)
RefusedOnlyInARace ==
  [][\A r \in Requests :
       request[r].phase = "insert" /\ request'[r].phase = "start" /\ used' = used
         => request[r].raced]_vars

(* No number is passed over: each below one in use is a report's, or was a    *)
(* deleted draft's.  A number is read before its report is stored, and others  *)
(* may be stored or deleted in between.                                       *)
NumbersHaveNoGaps ==
  \A id \in Stored : \A n \in 1 .. reports[id].number :
    n \in freed \/ \E other \in Stored : reports[other].number = n

(* "Per-tenant sequential", without the lock a counter would need. *)
NumbersAreSequential == RefusedOnlyInARace /\ []NumbersHaveNoGaps

(* Reports over adjoining periods never count a case as opened twice.         *)
OpenedOnce ==
  \A one, other \in Stored :
    reports[one].period.end <= reports[other].period.start
      => reports[one].figures.opened \cap reports[other].figures.opened = {}

(* Figures are of three moments.  Of a case nobody touched between the second *)
(* query and the third they agree at the third: it is outstanding, or it was  *)
(* closed in the period and counts as closed, or neither.  And if nobody       *)
(* touched it since the first, it is among the false positives if it is one.  *)
(* A case that moves between two queries may be counted twice, or not at all. *)
UntouchedCasesAddUp ==
  [][\A r \in Requests : request[r].phase = "open" /\ request'[r].phase = "number" =>
       \A c \in Known :
         LET figures == Figures(request'[r])
             closed  == cases[c].status \in ClosedStatuses
         IN /\ c \notin request[r].moved =>
                 /\ c \in figures.stillOpen <=> ~closed
                 /\ c \in figures.closed <=> closed /\ InPeriod(cases[c].closed_at, request[r].period)
            /\ c \notin request[r].touched =>
                 (c \in figures.falsePositives <=> c \in figures.closed /\ cases[c].status = "false_positive")]_vars

(* Of cases that stand still between two queries, the figures of a report      *)
(* agree with each other; and of all cases, with those of its neighbours.      *)
UntouchedFiguresAgree == []OpenedOnce /\ UntouchedCasesAddUp

(* "From here ... its figures and wording are frozen" (issue_report): what    *)
(* was issued stays as it is.  An edit or a delete that loaded the draft does *)
(* not look again.                                                            *)
IssuedIsFinal ==
  [][\A id \in Ids : reports[id] # None /\ reports[id].status = "issued" =>
       reports'[id] # None /\ reports'[id].wording = reports[id].wording]_reports
=============================================================================
