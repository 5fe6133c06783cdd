--------------------------- MODULE IngestPipeline ---------------------------
(***************************************************************************)
(* Alerts on their way from the Redis stream into cases                     *)
(* (workers/ingest_consumer.py, incidents/grouping.py): several writers of  *)
(* one consumer group, each of them                                         *)
(*   claim or read a batch; write it in one transaction; announce; ack.     *)
(* A transaction is split where another one, or an analyst, can come in     *)
(* between: at the insert of the alerts, at the insert into ingest_stats,   *)
(* at the query for the open cases, and at the flush that commits.          *)
(* The two inserts wait for row locks of other transactions, as PostgreSQL  *)
(* makes them.                                                              *)
(***************************************************************************)
EXTENDS Integers, FiniteSets, Sequences, Functions

CONSTANTS
  None,          \* a null, or an alert whose timestamp does not parse
  Consumers,     \* the writers
  Alerts,        \* alerts clients send: [tenant, wazuh_id, group, timestamp]
  Partitions,    \* the times that a partition of alerts covers
  BatchSize,     \* BATCH_SIZE
  MaxLen,        \* ingest_stream_maxlen
  DayLength,     \* ticks in a day
  MaxTime,       \* bound on the clock
  MaxQueued,     \* bound on the entries ever added to the stream
  MaxFaults      \* bound on crashes and failures

Tenants == { alert.tenant : alert \in Alerts }
Groups  == { alert.group : alert \in Alerts }
Keys    == { alert.wazuh_id : alert \in Alerts }

ASSUME IngestPipelineAssumption ==
  /\ BatchSize \in Nat \ {0} /\ MaxLen \in Nat \ {0} /\ DayLength \in Nat \ {0}
  /\ {MaxTime, MaxQueued, MaxFaults} \subseteq Nat
  /\ None \notin Int
  /\ Alerts \subseteq [ tenant : Tenants, wazuh_id : Keys, group : Groups,
                        timestamp : Nat \cup {None} ]
  /\ \A one, other \in Alerts :   \* the unique key of the table identifies an alert
       /\ one.tenant = other.tenant /\ one.wazuh_id = other.wazuh_id
       /\ one.timestamp = other.timestamp
       => one = other

VARIABLES
  now,        \* the wall clock
  queue,      \* the entries ever added to the stream, in order
  trimmed,    \* how many of the oldest MAXLEN has removed
  delivered,  \* the last entry the consumer group was handed
  pending,    \* entries handed out and not acked (the PEL)
  idle,       \* those of them held for longer than CLAIM_IDLE_MS
  alerts,     \* the table of alerts: the case each row is linked to
  incidents,  \* the table of cases: [open, alert_count]
  stats,      \* ingest_stats: alerts counted per tenant, summed over its days
  announced,  \* cases an event has been published about
  worker,     \* what each writer is doing
  faults      \* crashes and failures so far

redis    == <<queue, trimmed, delivered, pending, idle>>
database == <<alerts, incidents, stats>>
vars     == <<now, redis, database, announced, worker, faults>>

Rows == [tenant : Tenants, wazuh_id : Keys, group : Groups, timestamp : Nat]

(* fingerprint(): the tenant is part of it; the rest (rule, agent, primary   *)
(* entity) is one value, the group.                                          *)
Fingerprint(alert) == <<alert.tenant, alert.group>>

(* _row: a timestamp that does not parse becomes the time of parsing. *)
RowOf(alert) == IF alert.timestamp = None THEN [alert EXCEPT !.timestamp = now] ELSE alert

Day(time) == time \div DayLength

-----------------------------------------------------------------------------
(* The stream *)

Entries == 1 .. Len(queue)
Live    == { e \in Entries : e > trimmed }

(* publish: the XADD, and the approximate trim (MAXLEN ~) that goes with it *)
Publish(alert) ==
  /\ Len(queue) < MaxQueued
  /\ queue' = Append(queue, alert)
  /\ trimmed' \in {trimmed} \cup {n \in 1 .. MaxQueued : trimmed < n /\ n <= Len(queue') - MaxLen}
  /\ UNCHANGED <<now, delivered, pending, idle, database, announced, worker, faults>>

(* The first entries of a set, a full batch of them if there are as many. *)
FirstBatch(entries) ==
  { batch \in SUBSET entries :
      /\ Cardinality(batch) <= BatchSize
      /\ Cardinality(batch) = BatchSize \/ batch = entries
      /\ \A e \in batch, later \in entries \ batch : e < later }

(* An entry has been pending for 60 seconds, whoever holds it. *)
GoesIdle(entry) ==
  /\ entry \in pending \ idle
  /\ idle' = idle \cup {entry}
  /\ UNCHANGED <<now, queue, trimmed, delivered, pending, database, announced, worker, faults>>

Tick ==
  /\ now < MaxTime
  /\ now' = now + 1
  /\ UNCHANGED <<redis, database, announced, worker, faults>>

-----------------------------------------------------------------------------
(* The writers *)

Phases == {"claim", "read", "insert", "count", "group", "announce", "ack", "down"}

(* A writer with nothing in hand. *)
Free(phase) ==
  [ phase |-> phase, source |-> phase, batch |-> {}, rows |-> << >>, inserted |-> {},
    day |-> None, seen |-> << >>, touched |-> {} ]

Init ==
  /\ now = 0
  /\ queue = << >> /\ trimmed = 0 /\ delivered = 0 /\ pending = {} /\ idle = {}
  /\ alerts = << >> /\ incidents = << >> /\ stats = [tenant \in Tenants |-> 0]
  /\ announced = {}
  /\ worker = [c \in Consumers |-> Free("claim")]
  /\ faults = 0

Becomes(c, state) == worker' = [worker EXCEPT ![c] = state]

(* The loop of run() goes from claiming to reading and back. *)
NextPhase(source) == IF source = "claim" THEN "read" ELSE "claim"

(* Mutant: the loop only reads. *)
ClaimNothing(c) ==
  /\ worker[c].phase = "claim"
  /\ Becomes(c, Free("read"))
  /\ UNCHANGED <<now, redis, database, announced, faults>>

(* reclaim_orphans: XAUTOCLAIM takes the oldest idle entries and forgets the *)
(* trimmed ones; their idle time starts again.                               *)
Claim(c) ==
  /\ worker[c].phase = "claim"
  /\ pending' = pending \ (idle \ Live)
  /\ \E batch \in FirstBatch(idle \cap Live) :
       /\ idle' = (idle \cap Live) \ batch
       /\ Becomes(c, IF batch = {} THEN Free("read")
                     ELSE [Free("claim") EXCEPT !.phase = "insert", !.batch = batch])
  /\ UNCHANGED <<now, queue, trimmed, delivered, database, announced, faults>>

(* Mutant: the group is read with NOACK. *)
ReadWithoutAck(c) ==
  /\ worker[c].phase = "read"
  /\ \E batch \in FirstBatch({e \in Live : e > delivered}) :
       /\ delivered' = IF batch = {} THEN delivered ELSE CHOOSE e \in batch : \A f \in batch : f <= e
       /\ Becomes(c, IF batch = {} THEN Free("claim")
                     ELSE [Free("read") EXCEPT !.phase = "insert", !.batch = batch])
  /\ UNCHANGED <<now, queue, trimmed, pending, idle, database, announced, faults>>

(* _drain_once: XREADGROUP hands out the oldest entries not handed out yet. *)
Read(c) ==
  /\ worker[c].phase = "read"
  /\ \E batch \in FirstBatch({e \in Live : e > delivered}) :
       /\ delivered' = IF batch = {} THEN delivered ELSE CHOOSE e \in batch : \A f \in batch : f <= e
       /\ pending' = pending \cup batch
       /\ Becomes(c, IF batch = {} THEN Free("claim")
                     ELSE [Free("read") EXCEPT !.phase = "insert", !.batch = batch])
  /\ UNCHANGED <<now, queue, trimmed, idle, database, announced, faults>>

(* The exception ends the session, which rolls back, and the loop starts     *)
(* over; the batch stays pending.                                            *)
Abort(c) == Becomes(c, Free("claim")) /\ UNCHANGED <<database, announced>>

(* Rows another transaction has inserted and not committed. *)
LockedRows(c) ==
  UNION { worker[d].inserted : d \in {d \in Consumers \ {c} : worker[d].phase \in {"count", "group"}} }

(* Mutant: the rows that were there already are returned as well. *)
InsertOrUpdate(c) ==
  LET rows == [e \in worker[c].batch |-> RowOf(queue[e])]
  IN  /\ worker[c].phase = "insert"
      /\ Range(rows) \cap LockedRows(c) = {}
      /\ Becomes(c, [worker[c] EXCEPT !.phase = "count", !.rows = rows, !.inserted = Range(rows)])
      /\ UNCHANGED <<now, redis, database, announced, faults>>

(* write_batch, the insert: ON CONFLICT DO NOTHING waits for a row that      *)
(* another transaction is inserting, and returns those that landed.  A row   *)
(* that no partition covers fails the statement.                             *)
Insert(c) ==
  LET rows == [e \in worker[c].batch |-> RowOf(queue[e])]
  IN  /\ worker[c].phase = "insert"
      /\ Range(rows) \cap LockedRows(c) = {}
      /\ IF \A row \in Range(rows) : row.timestamp \in Partitions
         THEN /\ Becomes(c, [worker[c] EXCEPT !.phase = "count", !.rows = rows,
                                              !.inserted = Range(rows) \ DOMAIN alerts])
              /\ UNCHANGED <<database, announced>>
         ELSE Abort(c)
      /\ UNCHANGED <<now, redis, faults>>

TenantsOf(c) == { row.tenant : row \in Range(worker[c].rows) }

(* Mutant: the counters of two transactions do not wait for each other. *)
StatsAreFreeAlways(c) == TRUE

(* Nobody else has counted one of these tenants today and not committed. *)
StatsAreFree(c) ==
  \A d \in Consumers \ {c} :
    worker[d].phase = "group" /\ worker[d].day = Day(now) => TenantsOf(c) \cap TenantsOf(d) = {}

(* write_batch, the upserts into ingest_stats: one row per tenant and day,   *)
(* locked until the transaction ends.                                        *)
CountStats(c) ==
  /\ worker[c].phase = "count"
  /\ StatsAreFree(c)
  /\ Becomes(c, [worker[c] EXCEPT !.phase = "group", !.day = Day(now)])
  /\ UNCHANGED <<now, redis, database, announced, faults>>

(* The fingerprints a transaction has fresh rows for, and how many entries   *)
(* of its batch carry one: _group keeps every row whose key was inserted, so *)
(* two copies of an alert in one batch are two.                              *)
FreshGroups(state) == { Fingerprint(row) : row \in state.inserted }
Copies(state, fp) ==
  Cardinality({ e \in state.batch : state.rows[e] \in state.inserted
                                   /\ Fingerprint(state.rows[e]) = fp })

OpenCases(fp) == { case \in DOMAIN incidents : case.fingerprint = fp /\ incidents[case].open }

(* A case is known by its fingerprint and its place among those that had it. *)
NewCase(fp) ==
  [ fingerprint |-> fp,
    nth |-> 1 + Cardinality({ case \in DOMAIN incidents : case.fingerprint = fp }) ]

(* Mutant: a case is announced as soon as it is found to be needed. *)
LookAndTell(c, fp) ==
  /\ worker[c].phase = "group"
  /\ fp \in FreshGroups(worker[c]) \ DOMAIN worker[c].seen
  /\ Becomes(c, [worker[c] EXCEPT !.seen = [f \in DOMAIN @ \cup {fp} |-> IF f = fp THEN None ELSE @[f]]])
  /\ announced' = announced \cup {NewCase(fp)}
  /\ UNCHANGED <<now, redis, database, faults>>

(* attach_or_create, the query for the open case and what it returns. *)
Look(c, fp) ==
  /\ worker[c].phase = "group"
  /\ fp \in FreshGroups(worker[c]) \ DOMAIN worker[c].seen
  /\ LET found == IF OpenCases(fp) = {} THEN None
                  ELSE LET case == CHOOSE case \in OpenCases(fp) : TRUE
                       IN  [case |-> case, alert_count |-> incidents[case].alert_count]
     IN  Becomes(c, [worker[c] EXCEPT !.seen = [f \in DOMAIN @ \cup {fp} |->
                                                  IF f = fp THEN found ELSE @[f]]])
  /\ UNCHANGED <<now, redis, database, announced, faults>>

(* The cases a transaction puts its rows under. *)
CaseOf(state, fp) == IF state.seen[fp] = None THEN NewCase(fp) ELSE state.seen[fp].case

(* Mutant: the database has no index on the open fingerprint. *)
NoIndex(fps) == TRUE

(* incidents_open_fingerprint_uq lets these fingerprints have one more open  *)
(* case.                                                                     *)
IndexAdmits(fps) == \A fp \in fps : OpenCases(fp) = {}

(* What the flush writes: _attach adds to the count it read, _create starts  *)
(* a case.                                                                   *)
Written(state) ==
  [ case \in { CaseOf(state, fp) : fp \in DOMAIN state.seen } |->
      LET before == state.seen[case.fingerprint]
          copies == Copies(state, case.fingerprint)
      IN  IF before = None THEN [open |-> TRUE, alert_count |-> copies]
          ELSE [incidents[case] EXCEPT !.alert_count = before.alert_count + copies] ]

(* The first function, and the second where only that is defined. *)
Over(first, second) ==
  [ x \in DOMAIN first \cup DOMAIN second |-> IF x \in DOMAIN first THEN first[x] ELSE second[x] ]

(* _group, the flush, and the commit: the transaction's effects on the       *)
(* database, unless an open case stands in the way of a new one.             *)
Commit(c) ==
  LET state == worker[c]
  IN  /\ state.phase = "group"
      /\ DOMAIN state.seen = FreshGroups(state)
      /\ IF IndexAdmits({ fp \in DOMAIN state.seen : state.seen[fp] = None })
         THEN /\ incidents' = Over(Written(state), incidents)
              /\ alerts' = Over([row \in state.inserted |-> CaseOf(state, Fingerprint(row))], alerts)
              /\ stats' = [tenant \in Tenants |->
                             stats[tenant] + Cardinality({ e \in state.batch :
                                                             state.rows[e].tenant = tenant })]
              /\ Becomes(c, [Free(state.source) EXCEPT
                               !.phase = "announce", !.batch = state.batch,
                               !.touched = DOMAIN Written(state)])
              /\ UNCHANGED announced
         ELSE Abort(c)
      /\ UNCHANGED <<now, redis, faults>>

(* write_batch, after the commit: one event for each case it touched. *)
Announce(c) ==
  /\ worker[c].phase = "announce"
  /\ announced' = announced \cup worker[c].touched
  /\ Becomes(c, [worker[c] EXCEPT !.phase = "ack", !.touched = {}])
  /\ UNCHANGED <<now, redis, database, faults>>

Ack(c) ==
  /\ worker[c].phase = "ack"
  /\ pending' = pending \ worker[c].batch
  /\ idle' = idle \ worker[c].batch
  /\ Becomes(c, Free(NextPhase(worker[c].source)))
  /\ UNCHANGED <<now, queue, trimmed, delivered, database, announced, faults>>

Restart(c) ==
  /\ worker[c].phase = "down"
  /\ Becomes(c, Free("claim"))
  /\ UNCHANGED <<now, redis, database, announced, faults>>

-----------------------------------------------------------------------------
(* Faults, and the analyst *)

(* The process dies, or is cancelled by a deploy; a transaction rolls back. *)
Crash(c) ==
  /\ faults < MaxFaults
  /\ worker[c].phase # "down"
  /\ Becomes(c, Free("down"))
  /\ faults' = faults + 1
  /\ UNCHANGED <<now, redis, database, announced>>

(* PostgreSQL is away or breaks a deadlock, or Redis does not take the ack:  *)
(* an exception in run()'s loop.                                             *)
Fails(c) ==
  /\ faults < MaxFaults
  /\ worker[c].phase \in {"insert", "count", "group", "ack"}
  /\ Abort(c)
  /\ faults' = faults + 1
  /\ UNCHANGED <<now, redis>>

(* update_incident: resolving a case; reopening one fails on the index if    *)
(* its fingerprint has another open case.                                    *)
Resolve(case) ==
  /\ incidents[case].open
  /\ incidents' = [incidents EXCEPT ![case].open = FALSE]
  /\ UNCHANGED <<now, redis, alerts, stats, announced, worker, faults>>

Reopen(case) ==
  /\ ~incidents[case].open
  /\ IndexAdmits({case.fingerprint})
  /\ incidents' = [incidents EXCEPT ![case].open = TRUE]
  /\ UNCHANGED <<now, redis, alerts, stats, announced, worker, faults>>

Step(c) ==
  \/ Claim(c) \/ Read(c) \/ Insert(c) \/ CountStats(c)
  \/ \E fp \in FreshGroups(worker[c]) : Look(c, fp)
  \/ Commit(c) \/ Announce(c) \/ Ack(c) \/ Restart(c)

Next ==
  \/ Tick
  \/ \E alert \in Alerts : Publish(alert)
  \/ \E entry \in Entries : GoesIdle(entry)
  \/ \E c \in Consumers : Step(c) \/ Crash(c) \/ Fails(c)
  \/ \E case \in DOMAIN incidents : Resolve(case) \/ Reopen(case)

Spec == Init /\ [][Next]_vars

(* run() loops for as long as the process lives, and the platform restarts   *)
(* the process; an entry that stays pending becomes idle as time passes.     *)
FairSpec ==
  /\ Spec
  /\ \A c \in Consumers : WF_vars(Step(c))
  /\ \A entry \in 1 .. MaxQueued : WF_vars(GoesIdle(entry))

-----------------------------------------------------------------------------
(* Properties *)

Case == [fingerprint : Tenants \X Groups, nth : Nat \ {0}]

TypeOK ==
  /\ now \in Nat /\ faults \in Nat
  /\ queue \in Seq(Alerts) /\ trimmed \in Nat /\ delivered \in 0 .. Len(queue)
  /\ idle \subseteq pending /\ pending \subseteq 1 .. delivered
  /\ DOMAIN alerts \subseteq Rows /\ DOMAIN incidents \subseteq Case
  /\ \A row \in DOMAIN alerts : alerts[row] \in DOMAIN incidents
  /\ \A case \in DOMAIN incidents : incidents[case] \in [open : BOOLEAN, alert_count : Nat]
  /\ stats \in [Tenants -> Nat]
  /\ \A c \in Consumers :
       /\ worker[c].phase \in Phases /\ worker[c].source \in Phases
       /\ worker[c].batch \subseteq 1 .. delivered

(* The row is what the parser makes of the alert. *)
IsRowOf(row, alert) ==
  row = [alert EXCEPT !.timestamp = IF @ = None THEN row.timestamp ELSE @]

Filed(entry) == \E row \in DOMAIN alerts : IsRowOf(row, queue[entry])
RowsUnder(case) == { row \in DOMAIN alerts : alerts[row] = case }

(* An entry the group has handed out and no longer holds has become a row:   *)
(* whatever crashed, failed or was claimed by another writer meanwhile, no   *)
(* ack got ahead of its commit.                                              *)
AcknowledgedIsFiled ==
  \A e \in Live : e <= delivered /\ e \notin pending => Filed(e)

(* Two writers, or a writer and an analyst who reopens the old case, never   *)
(* leave a fingerprint with two open cases.                                  *)
OneOpenCase ==
  \A one, other \in DOMAIN incidents :
    /\ incidents[one].open /\ incidents[other].open
    /\ one.fingerprint = other.fingerprint
    => one = other

(* No transaction that has counted its alerts goes on past midnight. *)
SameDay == \A c \in Consumers : worker[c].phase = "group" => worker[c].day = Day(now)

(* No alert is missing from the count of its case.  Cases carry no lock and  *)
(* the count is read, then written: it is the row of ingest_stats that keeps *)
(* two transactions of a tenant apart, and only within a day.                *)
NoAlertIsUncounted ==
  \A case \in DOMAIN incidents :
    Cardinality(RowsUnder(case)) <= incidents[case].alert_count

(* Delivering an entry again adds nothing to the count of a case: it is at   *)
(* most the number of entries that carry the case's alerts.                  *)
RedeliveryIsNotCounted ==
  \A case \in DOMAIN incidents :
    incidents[case].alert_count <=
      Cardinality({ e \in 1 .. delivered : \E row \in RowsUnder(case) : IsRowOf(row, queue[e]) })

(* The live queue is told only of cases it can fetch: none that a rollback   *)
(* took back.                                                                *)
AnnouncedExists == announced \subseteq DOMAIN incidents

InHand == UNION { worker[c].batch : c \in Consumers }

Ledger ==
  INSTANCE AlertLedger WITH
    accepted <- { queue[e] : e \in Live \cup InHand } \cup DOMAIN alerts,
    filed    <- alerts,
    open     <- { case \in DOMAIN incidents : incidents[case].open }

(* For alerts whose timestamp parses: the pipeline files each alert once and *)
(* for good, under its own fingerprint.                                      *)
ImplementsLedger == Ledger!Safety

(* Every alert that was answered with 202 is filed in the end, if the writer *)
(* comes back after a crash and no more than MAXLEN alerts arrive meanwhile. *)
(* Only an analyst who reopens cases for ever, each time between the query   *)
(* and the flush of a transaction, could make the index refuse it every time.*)
AcceptedIsFiled ==
  Ledger!AcceptedIsFiled \/ []<><<\E case \in DOMAIN incidents : Reopen(case)>>_vars

-----------------------------------------------------------------------------
(* What a document or a comment says and the code does not do *)

(* "N alerts with the same fingerprint ... produce exactly one incident with *)
(* alert_count == N" (DESIGN.md, section 13); "what keeps at-least-once      *)
(* delivery from inflating alert_count" (write_batch).                       *)
CountIsExact ==
  \A case \in DOMAIN incidents :
    incidents[case].alert_count = Cardinality(RowsUnder(case))

(* "a redelivered alert is a no-op rather than a duplicate row"              *)
(* (ingest_consumer.py): each entry becomes one row at most.                 *)
OneRowPerEntry == Cardinality(DOMAIN alerts) <= Len(queue)

(* "An alert after resolution creates a new incident" (_recent_resolved): a  *)
(* case that takes an alert is open at that moment.                          *)
ClosedCaseTakesNoAlert ==
  [][\A row \in DOMAIN alerts' \ DOMAIN alerts :
       alerts'[row] \in DOMAIN incidents => incidents[alerts'[row]].open]_vars

(* "A malformed decoder on one client must not stop the pipeline for every   *)
(* client" (parser.py): an alert that a partition covers is filed, whatever  *)
(* else is in its batch.                                                     *)
OthersAreFiled ==
  \A entry \in 1 .. MaxQueued :
    (entry \in Entries /\ queue[entry].timestamp \in Partitions)
      ~> (entry <= trimmed \/ (entry \in Entries /\ Filed(entry)))
=============================================================================
