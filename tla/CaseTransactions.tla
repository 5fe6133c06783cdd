-------------------------- MODULE CaseTransactions --------------------------
(***************************************************************************)
(* The handlers of IncidentClock as the transactions they are, several at a *)
(* time and over several cases: api/v1/incidents.py (update_incident,       *)
(* bulk_update, add_comment) and the worker's _attach.                      *)
(* A session reads each case without a lock and computes on what it read.   *)
(* The UPDATE goes out when the session needs the database again (autoflush):*)
(* it takes the row's lock, sets only the columns that differ from what was *)
(* read, and is visible to others once the session commits.                 *)
(***************************************************************************)
EXTENDS SlaClock, FiniteSets, Sequences, Functions

CONSTANTS
  Policy,        \* the tenant's SLA policy
  Fingerprint,   \* of each case; its domain is the cases
  Analysts,      \* sessions of the API
  Workers,       \* sessions of the ingest worker
  Requests,      \* what analysts ask: [list, status, severity, assignee]
  Levels,        \* the severities of alerts
  MaxTime        \* bound on the clock

Cases    == DOMAIN Fingerprint
Sessions == Analysts \cup Workers

ASSUME CaseTransactionsAssumption ==
  /\ Policy \subseteq SlaRow /\ ValidPolicy(Policy)
  /\ Levels \subseteq Nat /\ MaxTime \in Nat
  /\ Analysts \cap Workers = {} /\ None \notin Incident
  /\ \A request \in Requests :     \* min_length=1; the console selects a set
       /\ request.list \in Seq(Cases) /\ request.list # << >> /\ IsInjective(request.list)
       /\ request.kind \in {"patch", "bulk", "comment"}
       /\ request.status \in Statuses \cup {None}
       /\ request.severity \in Nat \cup {None}
       /\ request.kind = "comment" => request.status = None

VARIABLES
  now,
  incidents,   \* the committed row of each case, None before the worker creates it
  session      \* the transaction of each session

vars == <<now, incidents, session>>

(* The operators of the handlers, applied to a row as it was read at a time. *)
Handlers(at) ==
  INSTANCE IncidentClock WITH
    Severities <- Levels, Policies <- {Policy}, Stamps <- {}, StartTime <- 0,
    now <- at, policy <- Policy, inc <- None, heldTicks <- 0

(* phase: about to read or to flush the first case of the list, or to commit; *)
(* read and written: the row of each case as it was read and as it was left;  *)
(* absent: the cases of the list that were not there (result.skipped).        *)
NoSession == [ phase |-> "begin", at |-> 0, request |-> None, list |-> << >>,
               read |-> << >>, written |-> << >>, flushed |-> {}, absent |-> {} ]

(* Mutant: the status that was read is written back, changed or not. *)
ColumnsAndStatus(s, case, row) ==
  LET read == session[s].read[case]
      new  == session[s].written[case]
  IN IF read = None \/ row = None THEN new
     ELSE [column \in DOMAIN row |->
            IF new[column] = read[column] /\ column # "status" THEN row[column] ELSE new[column]]

(* The columns a session has changed, over a row *)
Columns(s, case, row) ==
  LET read == session[s].read[case]
      new  == session[s].written[case]
  IN IF read = None \/ row = None THEN new
     ELSE [column \in DOMAIN row |-> IF new[column] = read[column] THEN row[column] ELSE new[column]]

Locked(case) == { s \in Sessions : case \in session[s].flushed }

Becomes(s, state) == session' = [session EXCEPT ![s] = state]

-----------------------------------------------------------------------------
(* Requests *)

Begin(s, request) ==
  /\ session[s] = NoSession
  /\ Becomes(s, [NoSession EXCEPT !.phase = "read", !.at = now, !.request = request, !.list = request.list])
  /\ UNCHANGED <<now, incidents>>

(* What the handlers make of a row: a comment, a bulk change, or a PATCH *)
Computed(request, row, at) ==
  CASE request.kind = "comment" -> MarkFirstResponse(row, at)
    [] request.kind = "bulk"    ->
         Handlers(at)!Transition(Handlers(at)!Assign(row, request.assignee), request.status)
    [] request.kind = "patch"   ->
         Handlers(at)!Updated(row, request.status, request.severity, request.assignee)

(* `if not changes`: the case is skipped, and nothing is written *)
Asks(request, row) ==
  \/ request.kind = "comment"
  \/ request.assignee # None
  \/ request.status \notin {None, row.status}
  \/ request.kind = "patch" /\ request.severity \notin {None, row.severity}

(* _load; a case that is not there is skipped.  bulk_update has taken the time *)
(* before it reads, the others take it afterwards.                            *)
Read(s) ==
  LET state == session[s]
      case  == Head(state.list)
      row   == incidents[case]
      at    == IF state.request.kind = "bulk" THEN state.at ELSE now
      rest  == [state EXCEPT !.list = Tail(@), !.phase = IF Tail(state.list) = << >> THEN "commit" ELSE "read",
                             !.absent = IF row = None THEN @ \cup {case} ELSE @]
  IN /\ state.phase = "read" /\ s \in Analysts
     /\ IF row # None /\ Asks(state.request, row)
        THEN Becomes(s, [state EXCEPT !.phase = "flush",
                          !.read = [c \in DOMAIN @ \cup {case} |-> IF c = case THEN row ELSE @[c]],
                          !.written = [c \in DOMAIN @ \cup {case} |->
                                        IF c = case THEN Computed(state.request, row, at) ELSE @[c]]])
        ELSE Becomes(s, rest)
     /\ UNCHANGED <<now, incidents>>

(* The open cases of a fingerprint *)
OpenOf(fp) == { case \in Cases : /\ Fingerprint[case] = fp
                                 /\ incidents[case] # None
                                 /\ incidents[case].status \in OpenStatuses }

(* incidents_open_fingerprint_uq: an open case of the fingerprint besides one *)
OtherOpen(s, case) ==
  \E other \in Cases \ {case} :
    /\ Fingerprint[other] = Fingerprint[case]
    /\ LET row == IF other \in session[s].flushed THEN Columns(s, other, incidents[other])
                  ELSE incidents[other]
       IN row # None /\ row.status \in OpenStatuses

(* Another session has written an open case of the fingerprint, or one it     *)
(* opens, and has not committed: the index makes this one wait for it.        *)
IndexIsBusy(s, case) ==
  \E t \in Sessions \ {s} : \E other \in session[t].flushed :
    /\ Fingerprint[other] = Fingerprint[case]
    /\ other \in OpenOf(Fingerprint[other]) \/ Columns(t, other, incidents[other]).status \in OpenStatuses

(* Mutant: the index is not there. *)
NeverConflicts(s, case) == FALSE

(* Whether the UPDATE or INSERT makes the row open, and the index refuses it *)
Conflicts(s, case) ==
  LET row == Columns(s, case, incidents[case])
  IN /\ row.status \in OpenStatuses
     /\ incidents[case] = None \/ incidents[case].status \notin OpenStatuses
     /\ OtherOpen(s, case)

(* The UPDATE or INSERT of the case at the head of the list, once nobody else *)
(* holds its row.  The index refusing it fails the whole transaction: for the *)
(* worker the batch is delivered again, the analyst gets an error.         *)
Flush(s) ==
  LET state == session[s]
      case  == Head(state.list)
      opens == Columns(s, case, incidents[case]).status \in OpenStatuses
  IN /\ state.phase = "flush"
     /\ Locked(case) = {}
     /\ opens => ~IndexIsBusy(s, case)
     /\ IF Conflicts(s, case)
        THEN Becomes(s, NoSession)
        ELSE Becomes(s, [state EXCEPT !.flushed = @ \cup {case}, !.list = Tail(@),
                          !.phase = IF Tail(state.list) = << >> THEN "commit" ELSE "read"])
     /\ UNCHANGED <<now, incidents>>

(* Mutant: the loop of bulk_update commits what it has after the first case. *)
CommitFirst(s) ==
  /\ session[s].phase = "commit" \/ (session[s].phase = "read" /\ session[s].flushed # {})
  /\ incidents' = [case \in Cases |->
       IF case \in session[s].flushed THEN Columns(s, case, incidents[case]) ELSE incidents[case]]
  /\ Becomes(s, IF session[s].phase = "commit" THEN NoSession ELSE [session[s] EXCEPT !.flushed = {}])
  /\ UNCHANGED now

Commit(s) ==
  /\ session[s].phase = "commit"
  /\ incidents' = [case \in Cases |->
       IF case \in session[s].flushed THEN Columns(s, case, incidents[case]) ELSE incidents[case]]
  /\ Becomes(s, NoSession)
  /\ UNCHANGED now

(* The connection breaks, or PostgreSQL ends a deadlock: nothing was written. *)
Fails(s) ==
  /\ session[s].phase \in {"flush", "commit"}
  /\ Becomes(s, NoSession)
  /\ UNCHANGED <<now, incidents>>

-----------------------------------------------------------------------------
(* The worker: an alert joins the open case of its fingerprint, or opens one; *)
(* two sessions never make the same id (gen_random_uuid).                     *)

Alert(s, fp, level) ==
  /\ session[s] = NoSession
  /\ \E case \in Cases :
       /\ Fingerprint[case] = fp
       /\ IF OpenOf(fp) = {}
          THEN incidents[case] = None /\ \A t \in Sessions : case \notin DOMAIN session[t].read
          ELSE case \in OpenOf(fp)
       /\ Becomes(s, [NoSession EXCEPT
            !.phase = "flush", !.list = <<case>>,
            !.read = [c \in {case} |-> incidents[case]],
            !.written = [c \in {case} |->
               IF OpenOf(fp) = {} THEN Handlers(now)!Created(Policy, now, level)
                                  ELSE Handlers(now)!Attached(incidents[case], now, level)]])
  /\ UNCHANGED <<now, incidents>>

Tick ==
  /\ now < MaxTime
  /\ now' = now + 1
  /\ UNCHANGED <<incidents, session>>

Init ==
  /\ now = 0
  /\ incidents = [case \in Cases |-> None]
  /\ session = [s \in Sessions |-> NoSession]

Next ==
  \/ \E s \in Analysts : (\E request \in Requests : Begin(s, request)) \/ Read(s)
  \/ \E s \in Workers, fp \in Range(Fingerprint), level \in Levels : Alert(s, fp, level)
  \/ \E s \in Sessions : Flush(s) \/ Commit(s) \/ Fails(s)
  \/ Tick

Spec == Init /\ [][Next]_vars

-----------------------------------------------------------------------------
(* Properties *)

TypeOK ==
  /\ now \in 0 .. MaxTime
  /\ incidents \in [Cases -> Incident \cup {None}]
  /\ \A s \in Sessions :
       /\ session[s].phase \in {"begin", "read", "flush", "commit"}
       /\ session[s].list \in Seq(Cases)
       /\ session[s].flushed \subseteq DOMAIN session[s].written
       /\ \A case \in DOMAIN session[s].written : session[s].written[case] \in Incident

Committed(case) == incidents[case] # None

(* No two open cases of one fingerprint, whatever reopens, bulk changes and   *)
(* new alerts commit beside each other.                                       *)
OneOpenCase == \A fp \in Range(Fingerprint) : Cardinality(OpenOf(fp)) <= 1

(* No two requests under way name the same case.  What it takes of the        *)
(* analysts for the next three properties to hold; see ClosedIsNotHeld.       *)
Undisturbed ==
  \A s, t \in Analysts :
    s # t /\ session[s].phase # "begin" /\ session[t].phase # "begin" =>
      Range(session[s].request.list) \cap Range(session[t].request.list) = {}

(* A case is held exactly while it is pending and closed exactly while its    *)
(* status says so, although the worker writes to it from rows read earlier:   *)
(* the worker's columns and those of a status change are apart.               *)
StampsFollowStatus ==
  \A case \in Cases : Committed(case) =>
    LET row == incidents[case]
    IN /\ (row.paused_at # None) <=> (row.status = PausedStatus)
       /\ (row.closed_at # None) <=> (row.status \in ClosedStatuses)

(* Nobody has the case in hand as it was before it was answered, or before   *)
(* one who had wrote its deadlines.                                           *)
Settled(case) ==
  \A s \in Sessions : case \in DOMAIN session[s].read =>
    LET read == session[s].read[case]
    IN /\ read # None /\ read.first_response_at # None
       /\ read.respond_by = incidents[case].respond_by
       /\ read.resolve_by = incidents[case].resolve_by

(* The deadlines of an answered case move with the held time only, except     *)
(* through a transaction that read it before it was answered: the freeze of   *)
(* apply_on_escalation outlasts every interleaving but that one.              *)
FrozenOnceSettled ==
  [][\A case \in Cases :
       Committed(case) /\ incidents[case].first_response_at # None /\ Settled(case) =>
         LET row  == incidents[case]
             next == incidents'[case]
             held == next.paused_seconds - row.paused_seconds
         IN /\ next.first_response_at = row.first_response_at
            /\ next.respond_by = Pushed(row.respond_by, held)
            /\ next.resolve_by = Pushed(row.resolve_by, held)]_incidents

(* "half of it landing is worse than none of it landing": when a change of    *)
(* status over a list commits, every case of the list that was there when it  *)
(* was read has the status asked for; when it does not commit, none changes   *)
(* by it.                                                                     *)
BulkIsWhole ==
  [][\A s \in Analysts :
       LET request == session[s].request
       IN session[s].phase \in {"read", "commit"} /\ incidents' # incidents
            /\ session'[s] # session[s] /\ request.status # None
          => \A case \in Range(request.list) \ session[s].absent :
               Committed(case) /\ incidents'[case].status = request.status]_vars

(* "A case closed while paused stops holding time against the client"         *)
(* (sla.py:146): true of one session, not of two that read the same case.     *)
ClosedIsNotHeld ==
  \A case \in Cases : Committed(case) /\ incidents[case].status \in ClosedStatuses
                        => incidents[case].paused_at = None
=============================================================================
