---------------------------- MODULE AlertStorage ----------------------------
(***************************************************************************)
(* The table of alerts over the months: its partitions and the daily job    *)
(* that makes and drops them (workers/partitions.py), the job that maps     *)
(* stored alerts anew (workers/reprocess.py), and somebody paging through   *)
(* the list of alerts (api/v1/alerts.py).  Time is counted in days.         *)
(***************************************************************************)
EXTENDS Keyset

CONSTANTS
  Ids,            \* numbers: the ids of alerts, in no relation to their arrival
  Stamps,         \* the days their timestamps may name
  Versions,       \* of the normalisation map
  Deployed,       \* the version the ingest consumer maps with
  Failed,         \* NORMALISATION_FAILED
  Broken,         \* <<id, version>>: alerts a version of the map fails on
  Jobs,           \* reprocessing jobs that may run beside each other
  MonthDays,      \* days in a month
  Retention,      \* alert_retention_days
  Premake,        \* partition_premake_months
  Batch, Limit,   \* BATCH, and the page size of the list
  Ranges,         \* <<from, to, version>>: what an administrator asks to map anew
  MaxTime,        \* bound on the clock
  MaxFaults       \* bound on the kills of jobs

Days == 0 .. MaxTime

ASSUME AlertStorageAssumption ==
  /\ Ids \subseteq Nat /\ Start \notin Nat \cup (Days \X Ids) /\ Deployed \in Versions /\ Failed \notin Versions
  /\ Broken \subseteq Ids \X Versions /\ Ranges \subseteq Days \X Days \X Versions
  /\ Stamps \subseteq Days
  /\ {MonthDays, Batch, Limit} \subseteq Nat \ {0}
  /\ {Retention, Premake, MaxTime, MaxFaults} \subseteq Nat

VARIABLES
  now,          \* today
  partitions,   \* the months that have a partition
  ensured,      \* ghost: the month of the last ensure_partitions
  missed,       \* ghost: the daily job has been down for too long
  maintenance,  \* what the daily job is doing
  alerts,       \* the rows: [timestamp, map_version] of an id
  arrived,      \* ghost: the ids ever used
  job,          \* the reprocessing jobs
  list,         \* the list somebody is paging through
  faults

vars == <<now, partitions, ensured, missed, maintenance, alerts, arrived, job, list, faults>>

(* month_start and add_months, with months counted from the first one       *)
Month(day) == day \div MonthDays

Rows(ids) == { <<alerts[id].timestamp, id>> : id \in ids }

-----------------------------------------------------------------------------
Tick ==
  /\ now < MaxTime
  /\ now' = now + 1
  /\ missed' = (missed \/ Month(now + 1) > ensured + Premake)
  /\ UNCHANGED <<partitions, ensured, maintenance, alerts, arrived, job, list, faults>>

(* This month and the next ones                                             *)
Wanted(today) == Month(today) .. Month(today) + Premake

(* The daily job, which also runs when the worker starts                    *)
EnsurePartitions ==
  /\ maintenance = "idle"
  /\ partitions' = partitions \cup Wanted(now)
  /\ ensured' = Month(now)
  /\ maintenance' = "drop"
  /\ UNCHANGED <<now, missed, alerts, arrived, job, list, faults>>

Cutoff == Month(now - Retention)

(* The upper bound of the month has passed the start of the cutoff's month. *)
Expired == { month \in partitions : month + 1 <= Cutoff }

(* Mutant: rows are deleted by their day, the last day of retention included. *)
KeptByDay(months) == { id \in DOMAIN alerts : alerts[id].timestamp > now - Retention }

Kept(months) == { id \in DOMAIN alerts : Month(alerts[id].timestamp) \notin months }

DropExpiredPartitions ==
  /\ maintenance = "drop"
  /\ partitions' = partitions \ Expired
  /\ alerts' = [ id \in Kept(Expired) |-> alerts[id] ]
  /\ maintenance' = "idle"
  /\ UNCHANGED <<now, ensured, missed, arrived, job, list, faults>>

-----------------------------------------------------------------------------
(* What normalise_alert makes of an alert                                   *)
Normalised(id, version) == IF <<id, version>> \in Broken THEN Failed ELSE version

(* The ingest consumer; a row that has no partition is refused.             *)
Insert(id, timestamp) ==
  /\ id \in Ids \ arrived /\ timestamp \in 0 .. now /\ Month(timestamp) \in partitions
  /\ alerts' = [ other \in DOMAIN alerts \cup {id} |->
                   IF other = id
                   THEN [timestamp |-> timestamp, map_version |-> Normalised(id, Deployed)]
                   ELSE alerts[other] ]
  /\ arrived' = arrived \cup {id}
  /\ UNCHANGED <<now, partitions, ensured, missed, maintenance, job, list, faults>>

NoJob == [phase |-> "idle", start |-> 0, end |-> 0, version |-> Deployed, cursor |-> Start,
          due |-> {}, tied |-> {}, beside |-> {}]

Running == { j \in Jobs : job[j].phase = "running" }

(* Mutant: replay stops at the day before the end. *)
InOpenRange(start, end) == { id \in DOMAIN alerts : alerts[id].timestamp \in start .. end - 1 }

InRange(start, end) == { id \in DOMAIN alerts : alerts[id].timestamp \in start .. end }

Horizon == now - Retention

(* The request and the start of a job.  Ghosts: the alerts due, those tied    *)
(* with the end of a batch, and the versions of the jobs that ran beside it,  *)
(* its own among them.                                                       *)
Reprocess(j, range) ==
  LET start == IF range[1] < Horizon THEN Horizon ELSE range[1]
      end   == range[2]
      begun == [phase |-> "running", start |-> start, end |-> end, version |-> range[3], cursor |-> Start,
                due |-> { id \in DOMAIN alerts : alerts[id].timestamp \in start .. end },
                tied |-> {}, beside |-> {range[3]} \cup { job[k].version : k \in Running }]
  IN /\ j \notin Running
     /\ range[1] < end
     /\ job' = [ k \in Jobs |-> IF k = j THEN begun
                                ELSE IF k \in Running THEN [job[k] EXCEPT !.beside = @ \cup {range[3]}]
                                ELSE job[k] ]
     /\ UNCHANGED <<now, partitions, ensured, missed, maintenance, alerts, arrived, list, faults>>

(* One batch, in one transaction: it locks the partitions it reads, so none  *)
(* is dropped meanwhile, and two jobs write a row one after the other.       *)
ReprocessBatch(j) ==
  LET rows   == Rows(InRange(job[j].start, job[j].end))
      batch  == Page(rows, job[j].cursor, FALSE, Batch)
      mapped == { batch[i][2] : i \in DOMAIN batch }
      turned == [job[j] EXCEPT !.cursor = Last(batch), !.tied = @ \cup Tied(rows, Last(batch), FALSE)]
  IN /\ j \in Running
     /\ IF batch = << >>
        THEN job' = [job EXCEPT ![j] = NoJob] /\ UNCHANGED alerts
        ELSE /\ job' = [job EXCEPT ![j] = turned]
             /\ alerts' = [ id \in DOMAIN alerts |->
                              IF id \in mapped
                              THEN [alerts[id] EXCEPT !.map_version = Normalised(id, job[j].version)]
                              ELSE alerts[id] ]
     /\ UNCHANGED <<now, partitions, ensured, missed, maintenance, arrived, list, faults>>

(* A job takes longer than arq allows and is given up.                       *)
GiveUp(j) ==
  /\ j \in Running
  /\ job' = [job EXCEPT ![j] = NoJob]
  /\ UNCHANGED maintenance

(* The worker goes down; arq runs its jobs again when it is back.            *)
Restart ==
  /\ job' = [ j \in Jobs |-> IF j \in Running THEN [job[j] EXCEPT !.cursor = Start, !.tied = {}] ELSE job[j] ]
  /\ maintenance' = "idle"

Kill ==
  /\ faults < MaxFaults /\ faults' = faults + 1
  /\ Restart \/ \E j \in Jobs : GiveUp(j)
  /\ UNCHANGED <<now, partitions, ensured, missed, alerts, arrived, list>>

-----------------------------------------------------------------------------
NoList == [phase |-> "idle", cursor |-> Start, listed |-> << >>, there |-> {}, tied |-> {}]

(* Pages of list_alerts, newest first.  Ghosts: what the pages showed, what  *)
(* has existed since the first one, and what is tied with the end of one.    *)
ListPage(from) ==
  LET rows == Rows(DOMAIN alerts)
      next == NextCursor(rows, from.cursor, TRUE, Limit)
      page == Page(rows, from.cursor, TRUE, Limit)
  IN list' = [phase |-> IF next = Start THEN "shown" ELSE "paging", cursor |-> next,
              listed |-> from.listed \o [ i \in DOMAIN page |-> page[i][2] ],
              there |-> from.there \cap DOMAIN alerts,
              tied |-> IF next = Start THEN from.tied ELSE from.tied \cup Tied(rows, next, TRUE)]

FirstPage ==
  /\ list.phase = "idle"
  /\ ListPage([NoList EXCEPT !.there = DOMAIN alerts])
  /\ UNCHANGED <<now, partitions, ensured, missed, maintenance, alerts, arrived, job, faults>>

FurtherPage ==
  /\ list.phase = "paging"
  /\ ListPage(list)
  /\ UNCHANGED <<now, partitions, ensured, missed, maintenance, alerts, arrived, job, faults>>

CloseList ==
  /\ list.phase = "shown"
  /\ list' = NoList
  /\ UNCHANGED <<now, partitions, ensured, missed, maintenance, alerts, arrived, job, faults>>

(* The migration that creates the table makes the first partitions.         *)
Init ==
  /\ now = 0 /\ partitions = Wanted(0) /\ ensured = 0 /\ missed = FALSE /\ maintenance = "idle"
  /\ alerts = << >> /\ arrived = {} /\ job = [j \in Jobs |-> NoJob] /\ list = NoList /\ faults = 0

Next ==
  \/ Tick \/ EnsurePartitions \/ DropExpiredPartitions
  \/ \E id \in Ids, day \in Stamps : Insert(id, day)
  \/ \E j \in Jobs : ReprocessBatch(j) \/ \E range \in Ranges : Reprocess(j, range)
  \/ Kill
  \/ FirstPage \/ FurtherPage \/ CloseList

Spec == Init /\ [][Next]_vars

-----------------------------------------------------------------------------
(* Properties *)

TypeOK ==
  /\ now \in Days /\ partitions \subseteq Nat /\ ensured \in Nat /\ missed \in BOOLEAN
  /\ maintenance \in {"idle", "drop"} /\ faults \in 0 .. MaxFaults
  /\ DOMAIN alerts \subseteq arrived /\ arrived \subseteq Ids
  /\ \A id \in DOMAIN alerts :
       /\ Month(alerts[id].timestamp) \in partitions
       /\ alerts[id].map_version \in Versions \cup {Failed}
  /\ \A j \in Jobs : /\ job[j].phase \in {"idle", "running"} /\ job[j].due \cup job[j].tied \subseteq Ids
                     /\ job[j].beside \subseteq Versions /\ job[j].cursor \in {Start} \cup (Days \X Ids)
  /\ list.phase \in {"idle", "paging", "shown"} /\ list.there \subseteq Ids
  /\ list.phase = "paging" => Len(list.listed) % Limit = 0
  /\ list.cursor \in {Start} \cup (Days \X Ids)

(* "No row inside retention is ever taken with" an expired partition,       *)
(* however long the job takes or has been down.                             *)
RetentionIsKept ==
  [][\A id \in DOMAIN alerts : alerts[id].timestamp >= now - Retention => id \in DOMAIN alerts']_vars

(* An alert of any day inside retention finds its partition, as long as the *)
(* daily job has not been down past the months it made in advance.          *)
EveryDayHasItsPartition ==
  ~missed => \A day \in Days \cap Horizon .. now : Month(day) \in partitions

(* Months are made before they begin and dropped when they are all expired. *)
PartitionsFollowRetention == RetentionIsKept /\ []EveryDayHasItsPartition

(* When a replay is done, every alert that was in its range at the start    *)
(* and is still there carries the version asked for, or that of a replay    *)
(* that ran beside it, or the mark of a failure; whatever arrived, was      *)
(* dropped, or was killed on the way.  It passes by an alert only if the    *)
(* 500th of a batch has the same timestamp and a smaller id.                *)
ReplayReachesAll ==
  [][\A j \in Running : job'[j].phase = "idle" /\ faults' = faults
       => \A id \in (job[j].due \cap DOMAIN alerts) \ job[j].tied :
            \E version \in job[j].beside : alerts[id].map_version = Normalised(id, version)]_vars

(* Once all the pages have been read, each alert that was there all the time *)
(* was shown, except those that share the timestamp of a page's last one and *)
(* come after it; and none was shown twice, whatever arrived or was dropped. *)
ListIsWhole ==
  list.phase = "shown" => /\ list.there \ list.tied \subseteq { list.listed[i] : i \in DOMAIN list.listed }
                          /\ IsInjective(list.listed)

(* "It re-runs the engine against the stored `raw` column" of "a time range": *)
(* a replay by itself reaches every alert of its range.                      *)
ReplayPassesNoneBy ==
  [][\A j \in Running : job'[j].phase = "idle" /\ faults' = faults /\ job[j].beside = {job[j].version}
       => \A id \in job[j].due \cap DOMAIN alerts :
            alerts[id].map_version = Normalised(id, job[j].version)]_vars

(* "Keyset, not offset: a page boundary stays correct while rows arrive": no *)
(* alert that was there all the time is left out.                            *)
NoAlertIsSkipped ==
  list.phase = "shown" => list.there \subseteq { list.listed[i] : i \in DOMAIN list.listed }
=============================================================================
