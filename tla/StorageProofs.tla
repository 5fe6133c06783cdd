--------------------------- MODULE StorageProofs ---------------------------
(***************************************************************************)
(* Proofs about what PostgreSQL keeps, for tables of any size and any       *)
(* number of steps.  Of AlertStorage: no alert inside retention is dropped  *)
(* with its partition, every day inside retention has one, and a replay     *)
(* that ends has come to all that it owed (Owing).  Of both lists: a page   *)
(* of a keyset list is the first of what remains (Pages), so that somebody  *)
(* who pages through it is shown what kept its place (Browsing, Leafing).   *)
(* Of CaseFile: a case and an entity stand for their alerts                 *)
(* (CaseStandsFor, EntityStandsFor) through every transaction.  Of          *)
(* AgentSync: what a sweep has read was in the group when it began or later *)
(* (Held), and is its first part if nobody changes it (Exact).              *)
(***************************************************************************)
EXTENDS AlertStorage, CaseFile, AgentSync, FiniteSetTheorems, FunctionTheorems, SequenceTheorems, TLAPS

(* Months follow one another as their days do.                              *)
LEMMA MonthIsMonotone ==
  ASSUME NEW a \in Int, NEW b \in Int, a <= b
  PROVE  /\ Month(a) \in Int /\ Month(b) \in Int
         /\ Month(a) <= Month(b)
<1> DEFINE d == MonthDays
<1>1. d \in Nat /\ d > 0
  BY AlertStorageAssumption
<1>2. \A n \in Int : /\ n \div d \in Int
                     /\ d * (n \div d) <= n /\ n < d * (n \div d) + d
  BY <1>1, Z3
<1>3. ASSUME Month(b) + 1 <= Month(a)  PROVE FALSE
  <2>1. d * (Month(b) + 1) <= d * Month(a)
    BY <1>1, <1>2, <1>3 DEF Month
  <2> QED
    BY <2>1, <1>1, <1>2 DEF Month
<1> QED
  BY <1>1, <1>2, <1>3 DEF Month

-----------------------------------------------------------------------------
(* Types: what the calendar needs to know of the clock and the rows.        *)

Row == [timestamp : Days, map_version : Versions \cup {Failed}]

TableOK == \A id \in DOMAIN alerts : alerts[id] \in Row

JobShape(record) ==
  /\ record = [phase |-> record.phase, start |-> record.start, end |-> record.end, version |-> record.version,
               cursor |-> record.cursor, due |-> record.due, tied |-> record.tied, beside |-> record.beside]
  /\ record.version \in Versions

Typed ==
  /\ now \in Nat /\ ensured \in Int /\ faults \in Nat
  /\ partitions \subseteq Int
  /\ job = [j \in Jobs |-> job[j]] /\ \A j \in Jobs : JobShape(job[j])
  /\ TableOK

LEMMA NormalisedType ==
  ASSUME NEW id, NEW version \in Versions
  PROVE  Normalised(id, version) \in Versions \cup {Failed}
BY DEF Normalised

LEMMA NoJobShape == JobShape(NoJob)
<1>1. PICK record : record = NoJob
  OBVIOUS
<1>2. record = [phase |-> "idle", start |-> 0, end |-> 0, version |-> Deployed, cursor |-> Start,
                due |-> {}, tied |-> {}, beside |-> {}]
  BY <1>1 DEF NoJob
<1>3. JobShape(record)
  BY <1>2, AlertStorageAssumption DEF JobShape
<1> QED
  BY <1>1, <1>3

(* What a step may make of the jobs: each is the same one or begins, turns   *)
(* a page, starts over, meets another one, or is over.                       *)
LEMMA JobsMove ==
  ASSUME Typed, NEW j \in Jobs, NEW cursor, NEW tied, NEW beside
  PROVE  /\ [job[j] EXCEPT !.cursor = cursor, !.tied = tied]
              = [phase |-> job[j].phase, start |-> job[j].start, end |-> job[j].end, version |-> job[j].version,
                 cursor |-> cursor, due |-> job[j].due, tied |-> tied, beside |-> job[j].beside]
         /\ [job[j] EXCEPT !.beside = beside]
              = [phase |-> job[j].phase, start |-> job[j].start, end |-> job[j].end, version |-> job[j].version,
                 cursor |-> job[j].cursor, due |-> job[j].due, tied |-> job[j].tied, beside |-> beside]
         /\ JobShape([job[j] EXCEPT !.cursor = cursor, !.tied = tied])
         /\ JobShape([job[j] EXCEPT !.beside = beside])
<1>1. PICK record : record = job[j]
  OBVIOUS
<1>2. /\ record = [phase |-> record.phase, start |-> record.start, end |-> record.end, version |-> record.version,
                   cursor |-> record.cursor, due |-> record.due, tied |-> record.tied, beside |-> record.beside]
      /\ record.version \in Versions
  BY <1>1 DEF Typed, JobShape
<1>3. PICK turned : turned = [record EXCEPT !.cursor = cursor, !.tied = tied]
  OBVIOUS
<1>4. PICK met : met = [record EXCEPT !.beside = beside]
  OBVIOUS
<1>5. turned = [phase |-> record.phase, start |-> record.start, end |-> record.end, version |-> record.version,
                cursor |-> cursor, due |-> record.due, tied |-> tied, beside |-> record.beside]
  BY <1>2, <1>3
<1>6. met = [phase |-> record.phase, start |-> record.start, end |-> record.end, version |-> record.version,
             cursor |-> record.cursor, due |-> record.due, tied |-> record.tied, beside |-> beside]
  BY <1>2, <1>4
<1>7. JobShape(turned) /\ JobShape(met)
  BY <1>2, <1>5, <1>6 DEF JobShape
<1> QED
  BY <1>1, <1>3, <1>4, <1>5, <1>6, <1>7

(* A replay writes the version and nothing else.                            *)
LEMMA BatchKeepsTable ==
  ASSUME Typed, NEW j \in Jobs, ReprocessBatch(j)  PROVE TableOK'
<1>1. CASE alerts' = alerts
  BY <1>1 DEF Typed, TableOK, Row
<1>2. ASSUME NEW mapped,
             alerts' = [ id \in DOMAIN alerts |->
                           IF id \in mapped
                           THEN [alerts[id] EXCEPT !.map_version = Normalised(id, job[j].version)]
                           ELSE alerts[id] ]
      PROVE  TableOK'
  <2>1. ASSUME NEW id \in DOMAIN alerts  PROVE alerts'[id] \in Row
    <3>1. alerts[id] \in Row /\ Normalised(id, job[j].version) \in Versions \cup {Failed}
      BY NormalisedType DEF Typed, TableOK, JobShape
    <3> QED
      BY <3>1, <1>2 DEF Row
  <2> QED
    BY <2>1, <1>2 DEF TableOK
<1> QED
  BY <1>1, <1>2 DEF ReprocessBatch

(* and moves its job on.                                                     *)
LEMMA BatchMovesJob ==
  ASSUME Typed, NEW j \in Jobs, ReprocessBatch(j)
  PROVE  /\ job' = [k \in Jobs |-> job'[k]]
         /\ \A k \in Jobs \ {j} : job'[k] = job[k]
         /\ \/ job'[j] = NoJob
            \/ \E cursor, tied : job'[j] = [job[j] EXCEPT !.cursor = cursor, !.tied = tied]
<1>1. job = [k \in Jobs |-> job[k]]
  BY DEF Typed
<1>2. CASE job' = [job EXCEPT ![j] = NoJob]
  BY <1>1, <1>2
<1>3. ASSUME NEW record, NEW cursor, NEW tied, record = [job[j] EXCEPT !.cursor = cursor, !.tied = tied],
             job' = [job EXCEPT ![j] = record]
      PROVE  /\ job' = [k \in Jobs |-> job'[k]]
             /\ \A k \in Jobs \ {j} : job'[k] = job[k]
             /\ job'[j] = record
  BY <1>1, <1>3
<1>4. ASSUME job' # [job EXCEPT ![j] = NoJob]
      PROVE  \E cursor, tied : job' = [job EXCEPT ![j] = [job[j] EXCEPT !.cursor = cursor, !.tied = tied]]
  <2> DEFINE rows  == Rows(InRange(job[j].start, job[j].end))
             batch == Page(rows, job[j].cursor, FALSE, Batch)
             tied  == job[j].tied \cup Tied(rows, Last(batch), FALSE)
  <2>1. job' = [job EXCEPT ![j] = [job[j] EXCEPT !.cursor = Last(batch), !.tied = tied]]
    BY <1>4 DEF ReprocessBatch
  <2> HIDE DEF tied, batch
  <2> QED
    BY <2>1
<1>5. CASE job' # [job EXCEPT ![j] = NoJob]
  <2>1. PICK cursor, tied : job' = [job EXCEPT ![j] = [job[j] EXCEPT !.cursor = cursor, !.tied = tied]]
    BY <1>4, <1>5
  <2>2. PICK record : record = [job[j] EXCEPT !.cursor = cursor, !.tied = tied]
    OBVIOUS
  <2>3. job' = [job EXCEPT ![j] = record]
    BY <2>1, <2>2
  <2>4. /\ job' = [k \in Jobs |-> job'[k]]
        /\ \A k \in Jobs \ {j} : job'[k] = job[k]
        /\ job'[j] = record
    BY <1>3, <2>2, <2>3
  <2> QED
    BY <2>2, <2>4
<1> QED
  BY <1>2, <1>5

LEMMA InitTyped ==
  ASSUME Init  PROVE Typed
<1>1. TableOK
  BY DEF Init, TableOK
<1>2. Month(0) \in Int
  BY MonthIsMonotone
<1>3. partitions \subseteq Int
  BY <1>2 DEF Init, Wanted
<1>4. job = [j \in Jobs |-> job[j]] /\ \A j \in Jobs : JobShape(job[j])
  BY NoJobShape DEF Init
<1> QED
  BY <1>1, <1>3, <1>4 DEF Init, Typed

LEMMA NextTyped ==
  ASSUME Typed, [Next]_vars  PROVE Typed'
<1>1. CASE Tick
  BY <1>1 DEF Tick, Typed, TableOK
<1>2. CASE EnsurePartitions
  <2>1. now \in Int /\ Month(now) \in Int
    BY MonthIsMonotone DEF Typed
  <2>2. partitions' \subseteq Int
    <3>1. partitions' = partitions \cup Wanted(now)
      BY <1>2 DEF EnsurePartitions
    <3>2. Wanted(now) \subseteq Int
      BY <2>1, AlertStorageAssumption DEF Wanted
    <3> QED
      BY <3>1, <3>2 DEF Typed
  <2>3. TableOK'
    BY <1>2 DEF EnsurePartitions, Typed, TableOK
  <2> QED
    BY <1>2, <2>1, <2>2, <2>3 DEF EnsurePartitions, Typed
<1>3. CASE DropExpiredPartitions
  BY <1>3 DEF DropExpiredPartitions, Kept, Typed, TableOK
<1>4. ASSUME NEW id \in Ids, NEW day \in Stamps, Insert(id, day)  PROVE Typed'
  <2>1. [timestamp |-> day, map_version |-> Normalised(id, Deployed)] \in Row
    BY NormalisedType, AlertStorageAssumption DEF Row
  <2> QED
    BY <1>4, <2>1 DEF Insert, Typed, TableOK
<1>5. ASSUME NEW j \in Jobs, NEW range \in Ranges, Reprocess(j, range)  PROVE Typed'
  <2>1. PICK begun : /\ job' = [ k \in Jobs |->
                                  IF k = j THEN begun
                                  ELSE IF k \in Running THEN [job[k] EXCEPT !.beside = @ \cup {range[3]}]
                                  ELSE job[k] ]
                     /\ \E start, end, due, beside :
                          begun = [phase |-> "running", start |-> start, end |-> end, version |-> range[3],
                                   cursor |-> Start, due |-> due, tied |-> {}, beside |-> beside]
    <3> DEFINE start == IF range[1] < Horizon THEN Horizon ELSE range[1]
               due   == { id \in DOMAIN alerts : alerts[id].timestamp \in start .. range[2] }
               beside == {range[3]} \cup { job[k].version : k \in Running }
               first == [phase |-> "running", start |-> start, end |-> range[2], version |-> range[3],
                         cursor |-> Start, due |-> due, tied |-> {}, beside |-> beside]
    <3>1. job' = [ k \in Jobs |-> IF k = j THEN first
                                  ELSE IF k \in Running THEN [job[k] EXCEPT !.beside = @ \cup {range[3]}]
                                  ELSE job[k] ]
      BY <1>5 DEF Reprocess
    <3>2. \E s, e, d, b : first = [phase |-> "running", start |-> s, end |-> e, version |-> range[3],
                                  cursor |-> Start, due |-> d, tied |-> {}, beside |-> b]
      <4> HIDE DEF start, due, beside
      <4> QED
        OBVIOUS
    <3> HIDE DEF first
    <3> QED
      BY <3>1, <3>2
  <2>2. range[3] \in Versions
    BY AlertStorageAssumption
  <2>3. JobShape(begun)
    BY <2>1, <2>2 DEF JobShape
  <2>4. ASSUME NEW k \in Jobs  PROVE JobShape(job'[k])
    <3>1. PICK beside : beside = job[k].beside \cup {range[3]}
      OBVIOUS
    <3>2. JobShape([job[k] EXCEPT !.beside = beside])
      BY JobsMove
    <3>3. job'[k] \in {begun, [job[k] EXCEPT !.beside = beside], job[k]}
      BY <2>1, <3>1
    <3> QED
      BY <2>3, <3>2, <3>3 DEF Typed
  <2>5. job' = [k \in Jobs |-> job'[k]]
    BY <2>1
  <2> QED
    BY <1>5, <2>4, <2>5 DEF Reprocess, Typed, TableOK
<1>6. ASSUME NEW j \in Jobs, ReprocessBatch(j)  PROVE Typed'
  <2>1. ASSUME NEW k \in Jobs  PROVE JobShape(job'[k])
    <3>1. CASE k # j
      BY <1>6, <3>1, BatchMovesJob DEF Typed
    <3>2. ASSUME NEW cursor, NEW tied, job'[j] = [job[j] EXCEPT !.cursor = cursor, !.tied = tied]
          PROVE  JobShape(job'[j])
      <4>1. JobShape([job[j] EXCEPT !.cursor = cursor, !.tied = tied])
        BY JobsMove
      <4> QED
        BY <3>2, <4>1
    <3>3. job'[j] = NoJob \/ \E cursor, tied : job'[j] = [job[j] EXCEPT !.cursor = cursor, !.tied = tied]
      BY <1>6, BatchMovesJob
    <3>4. JobShape(NoJob)
      BY NoJobShape
    <3> QED
      BY <3>1, <3>2, <3>3, <3>4
  <2> QED
    BY <1>6, <2>1, BatchKeepsTable, BatchMovesJob DEF ReprocessBatch, Typed
<1>7. CASE Kill
  <2>1. job' = [j \in Jobs |-> job'[j]] /\ \A j \in Jobs : JobShape(job'[j])
    <3>1. CASE Restart
      BY <3>1, JobsMove DEF Restart, Typed
    <3>2. ASSUME NEW j \in Jobs, GiveUp(j)
          PROVE  job' = [k \in Jobs |-> job'[k]] /\ \A k \in Jobs : JobShape(job'[k])
      BY <3>2, NoJobShape DEF GiveUp, Typed
    <3> QED
      BY <1>7, <3>1, <3>2 DEF Kill
  <2> QED
    BY <1>7, <2>1 DEF Kill, Typed, TableOK
<1>8. CASE FirstPage \/ FurtherPage \/ CloseList
  BY <1>8 DEF FirstPage, FurtherPage, CloseList, Typed, TableOK
<1>9. CASE UNCHANGED vars
  BY <1>9 DEF vars, Typed, TableOK
<1> QED
  BY <1>1, <1>2, <1>3, <1>4, <1>5, <1>6, <1>7, <1>8, <1>9 DEF Next

-----------------------------------------------------------------------------
(* Retention *)

LEMMA DropKeepsRetention ==
  ASSUME Typed, DropExpiredPartitions,
         NEW id \in DOMAIN alerts, alerts[id].timestamp >= now - Retention
  PROVE  id \in DOMAIN alerts'
<1> DEFINE day == alerts[id].timestamp
<1>1. day \in Int /\ now - Retention \in Int
  BY AlertStorageAssumption DEF Typed, TableOK, Row, Days
<1>2. Cutoff <= Month(day) /\ Cutoff \in Int /\ Month(day) \in Int
  BY <1>1, MonthIsMonotone DEF Cutoff
<1>3. Month(day) \notin Expired
  BY <1>2 DEF Expired
<1> QED
  BY <1>3 DEF DropExpiredPartitions, Kept

(* An alert inside retention is never dropped: whatever the lengths of      *)
(* months and retention, whenever the job runs and however often it fails.  *)
THEOREM RetentionKept == Spec => RetentionIsKept
<1> DEFINE Stays == \A id \in DOMAIN alerts :
                      alerts[id].timestamp >= now - Retention => id \in DOMAIN alerts'
<1>1. Init => Typed
  BY InitTyped
<1>2. Typed /\ [Next]_vars => Typed'
  BY NextTyped
<1>3. Typed /\ [Next]_vars => [Stays]_vars
  <2> SUFFICES ASSUME Typed, Next  PROVE Stays
    OBVIOUS
  <2>1. CASE DropExpiredPartitions
    BY <2>1, DropKeepsRetention
  <2>2. ASSUME NEW j \in Jobs, ReprocessBatch(j)  PROVE Stays
    BY <2>2 DEF ReprocessBatch
  <2>3. ASSUME NEW id \in Ids, NEW day \in Stamps, Insert(id, day)  PROVE Stays
    BY <2>3 DEF Insert
  <2>4. CASE UNCHANGED alerts
    BY <2>4
  <2> QED
    BY <2>1, <2>2, <2>3, <2>4
    DEF Next, Tick, EnsurePartitions, Reprocess, Kill, FirstPage, FurtherPage, CloseList
<1> QED
  BY <1>1, <1>2, <1>3, PTL DEF Spec, RetentionIsKept

-----------------------------------------------------------------------------
(* The partitions of the days that count.                                   *)

(* Every month from the cutoff's on has its partition, up to the last one   *)
(* the job made; and that one has not come yet unless the job was missed.   *)
Covered ==
  ~missed => /\ Month(now) <= ensured + Premake
             /\ \A month \in Nat :
                  Cutoff <= month /\ month <= ensured + Premake => month \in partitions

LEMMA MonthZero == Month(0) = 0
BY AlertStorageAssumption, Z3 DEF Month

LEMMA MonthsOfNow ==
  ASSUME Typed
  PROVE  /\ Month(now) \in Int /\ Month(now + 1) \in Int /\ Cutoff \in Int
         /\ Month(now - Retention) <= Month((now + 1) - Retention)
         /\ Month((now + 1) - Retention) \in Int
<1>1. /\ now \in Int /\ now + 1 \in Int /\ now - Retention \in Int /\ (now + 1) - Retention \in Int
      /\ now - Retention <= (now + 1) - Retention
  BY AlertStorageAssumption DEF Typed
<1> QED
  BY <1>1, MonthIsMonotone DEF Cutoff

LEMMA InitCovered ==
  ASSUME Init  PROVE Covered
BY MonthZero, AlertStorageAssumption DEF Init, Wanted, Covered

LEMMA NextCovered ==
  ASSUME Typed, Covered, [Next]_vars  PROVE Covered'
<1> USE AlertStorageAssumption
<1>1. CASE Tick
  <2> SUFFICES ASSUME ~missed'  PROVE Covered'
    BY DEF Covered
  <2>1. /\ ~missed /\ ~(Month(now + 1) > ensured + Premake)
        /\ now' = now + 1 /\ ensured' = ensured /\ partitions' = partitions
    BY <1>1, Zenon DEF Tick
  <2>2. Cutoff' = Month((now + 1) - Retention)
    BY <2>1, Zenon DEF Cutoff, Month
  <2>3. Month(now)' = Month(now + 1)
    BY <2>1 DEF Month
  <2>4. ASSUME NEW month \in Nat, Cutoff' <= month, month <= ensured + Premake
        PROVE  month \in partitions
    BY <2>1, <2>2, <2>4, MonthsOfNow DEF Covered, Cutoff
  <2> QED
    BY <2>1, <2>3, <2>4, MonthsOfNow DEF Covered, Typed
<1>2. CASE EnsurePartitions
  <2> SUFFICES ASSUME ~missed  PROVE Covered'
    BY <1>2 DEF EnsurePartitions, Covered
  <2>1. ensured' = Month(now) /\ now' = now /\ partitions' = partitions \cup Wanted(now)
    BY <1>2 DEF EnsurePartitions
  <2>2. Cutoff' = Cutoff /\ Month(now)' = Month(now)
    BY <2>1 DEF Cutoff, Month
  <2>3. ASSUME NEW month \in Nat, Cutoff <= month, month <= Month(now) + Premake
        PROVE  month \in partitions'
    <3>1. CASE month < Month(now)
      BY <3>1, <2>1, <2>3, MonthsOfNow DEF Covered, Typed
    <3>2. CASE Month(now) <= month
      BY <3>2, <2>1, <2>3, MonthsOfNow DEF Wanted
    <3> QED
      BY <3>1, <3>2, MonthsOfNow
  <2> QED
    BY <2>1, <2>2, <2>3, MonthsOfNow DEF Covered
<1>3. CASE DropExpiredPartitions
  <2>1. now' = now /\ ensured' = ensured /\ missed' = missed /\ partitions' = partitions \ Expired
    BY <1>3 DEF DropExpiredPartitions
  <2>2. Cutoff' = Cutoff /\ Month(now)' = Month(now)
    BY <2>1 DEF Cutoff, Month
  <2>3. ASSUME NEW month \in Nat, Cutoff <= month  PROVE month \notin Expired
    BY <2>3, MonthsOfNow DEF Expired
  <2> QED
    BY <2>1, <2>2, <2>3 DEF Covered
<1>4. CASE UNCHANGED <<now, ensured, missed, partitions>>
  BY <1>4 DEF Covered, Cutoff, Month
<1> QED
  BY <1>1, <1>2, <1>3, <1>4
  DEF Next, vars, Insert, Reprocess, ReprocessBatch, Kill, FirstPage, FurtherPage, CloseList

LEMMA CoveredSuffices ==
  ASSUME Typed, Covered  PROVE EveryDayHasItsPartition
<1> SUFFICES ASSUME ~missed, NEW day \in Days \cap Horizon .. now
             PROVE  Month(day) \in partitions
  BY DEF EveryDayHasItsPartition
<1>1. /\ day \in Int /\ 0 <= day /\ now - Retention <= day /\ day <= now
      /\ now \in Int /\ now - Retention \in Int
  BY AlertStorageAssumption DEF Typed, Days, Horizon
<1>2. Cutoff <= Month(day) /\ Month(day) <= Month(now) /\ 0 <= Month(day)
  BY <1>1, MonthIsMonotone, MonthZero DEF Cutoff
<1>3. /\ Month(day) \in Nat /\ Month(now) \in Int /\ Month(now) <= ensured + Premake
      /\ ensured + Premake \in Int
  BY <1>1, <1>2, MonthIsMonotone, AlertStorageAssumption DEF Covered, Typed
<1> QED
  BY <1>2, <1>3 DEF Covered

(* As long as the daily job has not been away for longer than the months it *)
(* makes in advance, an alert of any day inside retention has a partition.  *)
THEOREM EveryDayCovered == Spec => []EveryDayHasItsPartition
<1>1. Init => Typed /\ Covered
  BY InitTyped, InitCovered
<1>2. Typed /\ Covered /\ [Next]_vars => (Typed /\ Covered)'
  BY NextTyped, NextCovered
<1>3. Typed /\ Covered => EveryDayHasItsPartition
  BY CoveredSuffices
<1> QED
  BY <1>1, <1>2, <1>3, PTL DEF Spec

(* Partitions are dropped no sooner, and made no later, than retention asks. *)
THEOREM PartitionsFollow == Spec => PartitionsFollowRetention
BY RetentionKept, EveryDayCovered DEF PartitionsFollowRetention

-----------------------------------------------------------------------------
(* Keyset pages, of any finite set of rows: what ListIsWhole and             *)
(* ReplayReachesAll rest on.                                                 *)

Pairs == Int \X Int

(* A page: rows of those that remain, none twice, and any other one follows *)
(* its last; it is empty only if none remains.                               *)
IsPage(page, size, remaining, descending) ==
  /\ size \in Nat /\ page \in [1 .. size -> remaining]
  /\ \A i, j \in 1 .. size : page[i] = page[j] => i = j
  /\ size = 0 => remaining = {}
  /\ size # 0 => /\ \A i \in 1 .. size : ~Follows(page[i], page[size], descending)
                 /\ \A row \in remaining :
                      (\E i \in 1 .. size : page[i] = row) \/ Follows(row, page[size], descending)

(* It comes with its last row as the cursor of the next one, or ends them.   *)
Turned(page, next, remaining, descending) ==
  \E size : /\ IsPage(page, size, remaining, descending)
            /\ \/ next = Start /\ \A row \in remaining : \E i \in 1 .. size : page[i] = row
               \/ size # 0 /\ next = page[size]

(* Rows are in a strict total order.                                         *)
LEMMA RowsAreOrdered ==
  ASSUME NEW descending \in BOOLEAN, NEW a \in Pairs, NEW b \in Pairs, NEW c \in Pairs
  PROVE  /\ ~Follows(a, a, descending)
         /\ Follows(a, b, descending) /\ Follows(b, c, descending) => Follows(a, c, descending)
         /\ a # b => Follows(a, b, descending) \/ Follows(b, a, descending)
<1>1. /\ a[1] \in Int /\ a[2] \in Int /\ b[1] \in Int /\ b[2] \in Int /\ c[1] \in Int /\ c[2] \in Int
      /\ a = <<a[1], a[2]>> /\ b = <<b[1], b[2]>>
  BY DEF Pairs
<1>2. ~Less(a, a)
  BY <1>1 DEF Less
<1>3. /\ Less(a, b) /\ Less(b, c) => Less(a, c)
      /\ Less(c, b) /\ Less(b, a) => Less(c, a)
  BY <1>1 DEF Less
<1>4. a # b => Less(a, b) \/ Less(b, a)
  BY <1>1 DEF Less
<1> QED
  BY <1>2, <1>3, <1>4 DEF Follows

(* What is beyond a row follows it; what is not beyond a row is not beyond   *)
(* one that is beyond that row; and what follows a row but is not beyond it  *)
(* is tied with it.                                                          *)
LEMMA BeyondAndFollows ==
  ASSUME NEW descending \in BOOLEAN, NEW a \in Pairs, NEW b \in Pairs, b # Start
  PROVE  /\ Beyond(a, b, descending) => Follows(a, b, descending)
         /\ \A c \in Pairs : c # Start /\ ~Beyond(a, c, descending) /\ Beyond(b, c, descending)
                             => ~Beyond(a, b, descending)
         /\ \A rows : /\ a \in rows /\ Follows(a, b, descending)
                     => Beyond(a, b, descending) \/ a[2] \in Tied(rows, b, descending)
<1>1. a[1] \in Int /\ a[2] \in Int /\ b[1] \in Int /\ b[2] \in Int
  BY DEF Pairs
<1>2. Beyond(a, b, descending) <=> IF descending THEN a[1] < b[1] ELSE b[1] < a[1]
  BY DEF Beyond
<1>3. ASSUME NEW c \in Pairs, c # Start, ~Beyond(a, c, descending), Beyond(b, c, descending)
      PROVE  ~Beyond(a, b, descending)
  <2>1. c[1] \in Int
    BY DEF Pairs
  <2>2. /\ Beyond(a, c, descending) <=> IF descending THEN a[1] < c[1] ELSE c[1] < a[1]
        /\ Beyond(b, c, descending) <=> IF descending THEN b[1] < c[1] ELSE c[1] < b[1]
    BY <1>3 DEF Beyond
  <2> QED
    BY <1>1, <1>2, <1>3, <2>1, <2>2
<1>4. ASSUME NEW rows, a \in rows, Follows(a, b, descending), ~Beyond(a, b, descending)
      PROVE  a[2] \in Tied(rows, b, descending)
  <2>1. a[1] = b[1]
    BY <1>1, <1>2, <1>4 DEF Follows, Less
  <2> QED
    BY <1>4, <2>1 DEF Tied
<1> QED
  BY <1>1, <1>2, <1>3, <1>4 DEF Follows, Less

Before(row, rows, descending) == { other \in rows : Follows(row, other, descending) }

(* A row has a rank, and a greater one than the rows that come before it.    *)
LEMMA RankIsOrder ==
  ASSUME NEW rows \in SUBSET Pairs, IsFiniteSet(rows), NEW descending \in BOOLEAN,
         NEW row \in rows
  PROVE  /\ Rank(row, rows, descending) \in 0 .. Cardinality(rows) - 1
         /\ \A other \in rows : Follows(row, other, descending)
              => Rank(other, rows, descending) < Rank(row, rows, descending)
<1> DEFINE B(r) == Before(r, rows, descending)
<1>1. ASSUME NEW r \in rows
      PROVE  /\ B(r) \in SUBSET rows /\ IsFiniteSet(B(r)) /\ Cardinality(B(r)) \in Nat
             /\ r \notin B(r)
             /\ IsFiniteSet(B(r) \cup {r}) /\ Cardinality(B(r) \cup {r}) = Cardinality(B(r)) + 1
             /\ Rank(r, rows, descending) = Cardinality(B(r))
  <2>1. B(r) \in SUBSET rows
    BY DEF Before
  <2>2. r \notin B(r)
    BY RowsAreOrdered DEF Before
  <2>3. Rank(r, rows, descending) = Cardinality(B(r))
    BY DEF Rank, Before
  <2> HIDE DEF B
  <2>4. IsFiniteSet(B(r)) /\ Cardinality(B(r)) \in Nat
    BY <2>1, FS_Subset, FS_CardinalityType
  <2> QED
    BY <2>1, <2>2, <2>3, <2>4, FS_AddElement
<1>2. Cardinality(rows) \in Nat
  BY FS_CardinalityType
<1>3. \A other \in rows : Follows(row, other, descending) => B(other) \cup {other} \subseteq B(row)
  BY RowsAreOrdered DEF Before
<1> HIDE DEF B
<1>4. Cardinality(B(row)) + 1 <= Cardinality(rows)
  <2>1. B(row) \cup {row} \in SUBSET rows
    BY <1>1
  <2>2. Cardinality(B(row) \cup {row}) <= Cardinality(rows)
    BY <2>1, FS_Subset
  <2> QED
    BY <1>1, <2>2
<1>5. ASSUME NEW other \in rows, Follows(row, other, descending)
      PROVE  Rank(other, rows, descending) < Rank(row, rows, descending)
  <2>1. B(other) \cup {other} \in SUBSET B(row)
    BY <1>3, <1>5
  <2>2. Cardinality(B(other) \cup {other}) <= Cardinality(B(row))
    BY <1>1, <2>1, FS_Subset
  <2>3. /\ Rank(other, rows, descending) = Cardinality(B(other)) /\ Cardinality(B(other)) \in Nat
        /\ Cardinality(B(other) \cup {other}) = Cardinality(B(other)) + 1
    BY <1>1
  <2>4. Rank(row, rows, descending) = Cardinality(B(row)) /\ Cardinality(B(row)) \in Nat
    BY <1>1
  <2> QED
    BY <2>2, <2>3, <2>4
<1>6. Rank(row, rows, descending) = Cardinality(B(row)) /\ Cardinality(B(row)) \in Nat
  BY <1>1
<1>7. Rank(row, rows, descending) \in 0 .. Cardinality(rows) - 1
  BY <1>2, <1>4, <1>6
<1> QED
  BY <1>5, <1>7

(* Two rows never have the same rank,                                        *)
LEMMA RankIsUnique ==
  ASSUME NEW rows \in SUBSET Pairs, IsFiniteSet(rows), NEW descending \in BOOLEAN,
         NEW a \in rows, NEW b \in rows, Rank(a, rows, descending) = Rank(b, rows, descending)
  PROVE  a = b
<1>1. Cardinality(rows) \in Nat
  BY FS_CardinalityType
<1>2. Rank(a, rows, descending) \in Int /\ Rank(b, rows, descending) \in Int
  BY <1>1, RankIsOrder
<1>3. a # b => Follows(a, b, descending) \/ Follows(b, a, descending)
  BY RowsAreOrdered
<1> QED
  BY <1>2, <1>3, RankIsOrder

(* and there is a row for each rank.                                         *)
LEMMA RankIsOnto ==
  ASSUME NEW rows \in SUBSET Pairs, IsFiniteSet(rows), NEW descending \in BOOLEAN,
         NEW i \in 0 .. Cardinality(rows) - 1
  PROVE  \E row \in rows : Rank(row, rows, descending) = i
<1> DEFINE n == Cardinality(rows)
           rank == [row \in rows |-> Rank(row, rows, descending)]
<1>1. n \in Nat
  BY FS_CardinalityType
<1>2. rank \in [rows -> 0 .. n - 1]
  BY RankIsOrder
<1>3. ASSUME NEW a \in rows, NEW b \in rows, rank[a] = rank[b]  PROVE a = b
  BY <1>3, RankIsUnique
<1>4. rank \in Injection(rows, 0 .. n - 1)
  <2> HIDE DEF rank, n
  <2> QED
    BY <1>2, <1>3 DEF Injection, IsInjective
<1>5. IsFiniteSet(0 .. n - 1) /\ Cardinality(0 .. n - 1) = n
  <2> HIDE DEF n
  <2> QED
    BY <1>1, FS_Interval
<1>6. rank \in Surjection(rows, 0 .. n - 1)
  <2> HIDE DEF rank
  <2> QED
    BY <1>4, <1>5, FS_Injection
<1>7. \E row \in rows : rank[row] = i
  <2> HIDE DEF rank
  <2> QED
    BY <1>6 DEF Surjection
<1> QED
  BY <1>7

(* What Page returns is a page, and the cursor it comes with is its last row *)
(* unless no row is left for a further page.                                 *)
LEMMA Pages ==
  ASSUME NEW rows \in SUBSET Pairs, IsFiniteSet(rows), NEW cursor, NEW descending \in BOOLEAN,
         NEW limit \in Nat \ {0}
  PROVE  Turned(Page(rows, cursor, descending, limit), NextCursor(rows, cursor, descending, limit),
                Remaining(rows, cursor, descending), descending)
<1> DEFINE remaining == Remaining(rows, cursor, descending)
           n    == Cardinality(remaining)
           size == IF n < limit THEN n ELSE limit
           page == Page(rows, cursor, descending, limit)
           rank(row) == Rank(row, remaining, descending)
<1>1. remaining \in SUBSET rows /\ remaining \in SUBSET Pairs
  BY DEF Remaining
<1>2. IsFiniteSet(remaining) /\ n \in Nat
  <2> HIDE DEF remaining
  <2> QED
    BY <1>1, FS_Subset, FS_CardinalityType
<1>3. page = [ i \in 1 .. size |-> CHOOSE row \in remaining : rank(row) = i - 1 ]
  BY DEF Page
<1>4. NextCursor(rows, cursor, descending, limit) = IF n > limit THEN Last(page) ELSE Start
  BY DEF NextCursor
<1> HIDE DEF page
<1>5. size \in Nat /\ size <= n /\ size <= limit /\ (n <= limit => size = n) /\ (n > limit => size = limit)
  <2> HIDE DEF n
  <2> QED
    BY <1>2
<1> HIDE DEF size, n, remaining
<1>6. ASSUME NEW i \in 1 .. size  PROVE page[i] \in remaining /\ rank(page[i]) = i - 1
  <2>1. i - 1 \in 0 .. Cardinality(remaining) - 1
    BY <1>2, <1>5 DEF n
  <2>2. \E row \in remaining : rank(row) = i - 1
    BY <1>1, <1>2, <2>1, RankIsOnto
  <2>3. page[i] = CHOOSE row \in remaining : rank(row) = i - 1
    BY <1>3
  <2> HIDE DEF rank
  <2> QED
    BY <2>2, <2>3
<1>7. ASSUME NEW row \in remaining
      PROVE  /\ rank(row) \in 0 .. n - 1
             /\ \A other \in remaining : Follows(row, other, descending) => rank(other) < rank(row)
             /\ \A other \in remaining : rank(row) = rank(other) => row = other
             /\ \A other \in remaining :
                  row # other => Follows(row, other, descending) \/ Follows(other, row, descending)
  <2>1. \A other \in remaining : rank(row) = rank(other) => row = other
    BY <1>1, <1>2, RankIsUnique
  <2>2. \A other \in remaining :
                  row # other => Follows(row, other, descending) \/ Follows(other, row, descending)
    BY <1>1, RowsAreOrdered
  <2>3. /\ rank(row) \in 0 .. n - 1
        /\ \A other \in remaining : Follows(row, other, descending) => rank(other) < rank(row)
    BY <1>1, <1>2, RankIsOrder DEF n
  <2> QED
    BY <2>1, <2>2, <2>3
<1> HIDE DEF rank
<1>8. page \in [1 .. size -> remaining]
  BY <1>3, <1>6
<1>9. \A i, j \in 1 .. size : page[i] = page[j] => i = j
  <2> SUFFICES ASSUME NEW i \in 1 .. size, NEW j \in 1 .. size, page[i] = page[j]  PROVE i = j
    OBVIOUS
  <2>1. rank(page[i]) = i - 1 /\ rank(page[j]) = j - 1
    BY <1>6
  <2> QED
    BY <1>5, <2>1
<1>10. size = 0 => remaining = {}
  <2>1. size = 0 => n = 0
    BY <1>2, <1>5
  <2> QED
    BY <1>2, <2>1, FS_EmptySet DEF n
<1>11. ASSUME size # 0, NEW i \in 1 .. size  PROVE ~Follows(page[i], page[size], descending)
  <2>1. size \in 1 .. size
    BY <1>5, <1>11
  <2>2. rank(page[i]) = i - 1 /\ rank(page[size]) = size - 1 /\ page[i] \in remaining /\ page[size] \in remaining
    BY <1>6, <2>1
  <2>3. ~(rank(page[size]) < rank(page[i]))
    BY <1>5, <2>2
  <2> QED
    BY <1>7, <2>2, <2>3
<1>12. ASSUME NEW row \in remaining, \A i \in 1 .. size : page[i] # row, size # 0
       PROVE  Follows(row, page[size], descending)
  <2>1. rank(row) \in Int /\ 0 <= rank(row)
    BY <1>2, <1>7
  <2>2. ~(rank(row) + 1 \in 1 .. size)
    <3> SUFFICES ASSUME rank(row) + 1 \in 1 .. size PROVE FALSE
      OBVIOUS
    <3>1. PICK i \in 1 .. size : i = rank(row) + 1
      OBVIOUS
    <3>2. page[i] \in remaining /\ rank(page[i]) = i - 1
      BY <1>6
    <3>3. rank(page[i]) = rank(row)
      BY <2>1, <3>1, <3>2
    <3>4. page[i] = row
      BY <1>7, <3>2, <3>3
    <3> QED
      BY <1>12, <3>4
  <2>3. size \in 1 .. size
    BY <1>5, <1>12
  <2>4. page[size] \in remaining /\ rank(page[size]) = size - 1 /\ page[size] # row
    BY <1>6, <1>12, <2>3
  <2>5. ~(rank(row) < rank(page[size]))
    BY <1>5, <2>1, <2>2, <2>4
  <2> QED
    BY <1>7, <2>4, <2>5
<1>13. IsPage(page, size, remaining, descending)
  BY <1>5, <1>8, <1>9, <1>10, <1>11, <1>12 DEF IsPage
<1>14. CASE n > limit
  <2>1. page \in Seq(remaining) /\ Len(page) = size
    <3>1. page \in Seq(remaining)
      BY <1>5, <1>8, SeqDef
    <3> QED
      BY <1>5, <1>8, <3>1, LenProperties
  <2>2. Last(page) = page[size] /\ size # 0
    BY <1>5, <1>14, <2>1 DEF Last
  <2> QED
    BY <1>4, <1>13, <1>14, <2>2 DEF page, remaining, Turned
<1>15. CASE ~(n > limit)
  <2>1. size = n
    BY <1>2, <1>5, <1>15
  <2>2. ASSUME NEW row \in remaining, \A i \in 1 .. size : page[i] # row  PROVE FALSE
    <3>1. size # 0
      BY <1>10, <2>2
    <3>2. rank(row) \in 0 .. n - 1
      BY <1>7
    <3>3. PICK i \in 1 .. size : i = rank(row) + 1
      BY <1>2, <2>1, <3>2
    <3>4. page[i] \in remaining /\ rank(page[i]) = i - 1
      BY <1>6
    <3>5. rank(page[i]) = rank(row)
      BY <3>2, <3>3, <3>4
    <3>6. page[i] = row
      BY <1>7, <3>4, <3>5
    <3> QED
      BY <2>2, <3>6
  <2> QED
    BY <1>4, <1>13, <1>15, <2>2 DEF page, remaining, Turned
<1> QED
  BY <1>14, <1>15

-----------------------------------------------------------------------------
(* Ids are used once.                                                        *)

Arrivals == arrived \subseteq Ids /\ DOMAIN alerts \subseteq arrived /\ IsFiniteSet(DOMAIN alerts)

Place(id) == <<alerts[id].timestamp, id>>

(* The rows of some alerts are a finite set of pairs, one for each.          *)
LEMMA RowsArePairs ==
  ASSUME Typed, Arrivals, NEW ids \in SUBSET DOMAIN alerts
  PROVE  /\ Rows(ids) \in SUBSET Pairs /\ IsFiniteSet(Rows(ids))
         /\ \A id \in ids : Place(id) \in Rows(ids) /\ Place(id) \in Pairs /\ Place(id)[2] = id
         /\ \A row \in Rows(ids) : row[2] \in ids /\ row = Place(row[2]) /\ row # Start
<1>1. ASSUME NEW id \in DOMAIN alerts  PROVE Place(id) \in Pairs /\ Place(id) \in Days \X Ids
  <2>1. alerts[id].timestamp \in Days /\ id \in Ids
    BY DEF Typed, TableOK, Row, Arrivals
  <2>2. Days \subseteq Int /\ Ids \subseteq Int
    BY AlertStorageAssumption DEF Days
  <2> QED
    BY <2>1, <2>2 DEF Place, Pairs
<1>2. Rows(ids) = { Place(id) : id \in ids }
  BY DEF Rows, Place
<1>3. \A row \in Rows(ids) : row[2] \in ids /\ row = Place(row[2]) /\ row # Start
  <2>1. Start \notin Days \X Ids
    BY AlertStorageAssumption
  <2>2. ASSUME NEW row \in Rows(ids)  PROVE row[2] \in ids /\ row = Place(row[2]) /\ row # Start
    <3>1. PICK id \in ids : row = Place(id)
      BY <1>2
    <3>2. row[2] = id
      BY <3>1 DEF Place
    <3> QED
      BY <1>1, <2>1, <3>1, <3>2
  <2> QED
    BY <2>2
<1>4. IsFiniteSet(Rows(ids))
  <2> DEFINE place == [id \in ids |-> Place(id)]
  <2>1. place \in Surjection(ids, Rows(ids))
    BY <1>2 DEF Surjection
  <2>2. IsFiniteSet(ids)
    BY FS_Subset DEF Arrivals
  <2> HIDE DEF place
  <2> QED
    BY <2>1, <2>2, FS_Surjection
<1>5. \A id \in ids : Place(id) \in Rows(ids) /\ Place(id) \in Pairs /\ Place(id)[2] = id
  BY <1>1, <1>2 DEF Place
<1> QED
  BY <1>1, <1>2, <1>3, <1>4, <1>5

-----------------------------------------------------------------------------
(* The list *)

In(seq) == { seq[i] : i \in DOMAIN seq }

(* Between two pages: what was shown and is still there is not to come any   *)
(* more; what was there all the time was shown, is to come, or was tied.     *)
Browsing(from) ==
  /\ from.listed \in Seq(arrived) /\ IsInjective(from.listed)
  /\ from.there \subseteq arrived
  /\ from.cursor = Start \/ from.cursor \in Pairs
  /\ \A id \in In(from.listed) \cap DOMAIN alerts : ~Beyond(Place(id), from.cursor, TRUE)
  /\ \A id \in (from.there \cap DOMAIN alerts) \ from.tied :
       id \in In(from.listed) \/ Beyond(Place(id), from.cursor, TRUE)

ListInv ==
  /\ list.phase = "paging" => Browsing(list)
  /\ ListIsWhole

(* A sequence that is continued with new values.                             *)
LEMMA Continued ==
  ASSUME NEW S, NEW s \in Seq(S), NEW n \in Nat, NEW t \in [1 .. n -> S]
  PROVE  /\ s \o t \in Seq(S) /\ In(s \o t) = In(s) \cup In(t)
         /\ /\ IsInjective(s)
            /\ \A i, j \in 1 .. n : t[i] = t[j] => i = j
            /\ \A i \in 1 .. n : t[i] \notin In(s)
            => IsInjective(s \o t)
<1>1. t \in Seq(S)
  BY SeqDef
<1>2. Len(t) = n /\ DOMAIN t = 1 .. n
  BY <1>1, LenProperties
<1>3. Len(s) \in Nat /\ DOMAIN s = 1 .. Len(s)
  BY LenProperties
<1>4. /\ s \o t \in Seq(S) /\ Len(s \o t) = Len(s) + n
      /\ \A i \in 1 .. Len(s) + n : (s \o t)[i] = IF i <= Len(s) THEN s[i] ELSE t[i - Len(s)]
  <2>1. /\ s \o t \in Seq(S) /\ Len(s \o t) = Len(s) + Len(t)
        /\ \A i \in 1 .. Len(s) + Len(t) : (s \o t)[i] = IF i <= Len(s) THEN s[i] ELSE t[i - Len(s)]
    BY <1>1, ConcatProperties
  <2> QED
    BY <1>2, <2>1
<1>5. DOMAIN (s \o t) = 1 .. Len(s) + n
  BY <1>4, LenProperties
<1> DEFINE both == s \o t
           k    == Len(s)
<1>6. /\ DOMAIN both = 1 .. k + n /\ k \in Nat /\ DOMAIN s = 1 .. k
      /\ \A i \in 1 .. k + n : both[i] = IF i <= k THEN s[i] ELSE t[i - k]
  BY <1>3, <1>4, <1>5
<1> HIDE DEF both, k
<1>7. \A i \in 1 .. k : i \in 1 .. k + n /\ both[i] = s[i]
  BY <1>6
<1>8. \A i \in 1 .. n : i + k \in 1 .. k + n /\ both[i + k] = t[i]
  <2> SUFFICES ASSUME NEW i \in 1 .. n  PROVE i + k \in 1 .. k + n /\ both[i + k] = t[i]
    OBVIOUS
  <2>1. i + k \in 1 .. k + n /\ ~(i + k <= k) /\ (i + k) - k = i
    BY <1>6
  <2>2. PICK j \in 1 .. k + n : j = i + k
    BY <2>1
  <2>3. both[j] = IF j <= k THEN s[j] ELSE t[j - k]
    BY <1>6
  <2>4. ~(j <= k) /\ j - k = i
    BY <2>1, <2>2
  <2>5. both[j] = t[i]
    BY <2>3, <2>4
  <2> QED
    BY <2>2, <2>5
<1>9. In(both) = In(s) \cup In(t)
  <2>1. ASSUME NEW i \in 1 .. k + n  PROVE both[i] \in In(s) \cup { t[j] : j \in 1 .. n }
    <3>1. CASE i <= k
      <4>1. both[i] = s[i] /\ i \in DOMAIN s
        BY <1>6, <3>1
      <4> QED
        BY <4>1 DEF In
    <3>2. CASE ~(i <= k)
      <4>1. i - k \in 1 .. n
        BY <1>6, <3>2
      <4>2. PICK j \in 1 .. n : j = i - k
        BY <4>1
      <4>3. both[i] = t[j]
        BY <1>6, <3>2, <4>2
      <4> QED
        BY <4>3
    <3> QED
      BY <3>1, <3>2
  <2>2. In(s) \subseteq In(both)
    BY <1>6, <1>7 DEF In
  <2>3. \A j \in 1 .. n : t[j] \in In(both)
    BY <1>6, <1>8 DEF In
  <2>4. In(both) \subseteq In(s) \cup { t[j] : j \in 1 .. n }
    BY <1>6, <2>1 DEF In
  <2>5. In(t) = { t[j] : j \in 1 .. n }
    BY <1>2 DEF In
  <2> QED
    BY <2>2, <2>3, <2>4, <2>5
<1>10. ASSUME IsInjective(s), \A i, j \in 1 .. n : t[i] = t[j] => i = j,
              \A i \in 1 .. n : t[i] \notin In(s)
       PROVE  IsInjective(both)
  <2> SUFFICES ASSUME NEW a \in 1 .. k + n, NEW b \in 1 .. k + n, both[a] = both[b], a <= b
               PROVE  a = b
    BY <1>6 DEF IsInjective
  <2>1. CASE b <= k
    <3>1. a \in DOMAIN s /\ b \in DOMAIN s /\ s[a] = s[b]
      BY <1>6, <2>1
    <3> QED
      BY <1>10, <3>1 DEF IsInjective
  <2>2. CASE a <= k /\ ~(b <= k)
    <3>1. both[a] = s[a] /\ a \in DOMAIN s /\ b - k \in 1 .. n /\ both[b] = t[b - k]
      BY <1>6, <2>2
    <3>2. PICK j \in 1 .. n : j = b - k
      BY <3>1
    <3>3. both[b] = t[j]
      BY <3>1, <3>2
    <3>4. both[a] \in In(s)
      BY <3>1 DEF In
    <3>5. t[j] \notin In(s)
      BY <1>10
    <3> QED
      BY <3>3, <3>4, <3>5
  <2>3. CASE ~(a <= k)
    <3>1. a - k \in 1 .. n /\ b - k \in 1 .. n
      BY <1>6, <2>3
    <3>2. PICK i \in 1 .. n, j \in 1 .. n : a = i + k /\ b = j + k
      BY <1>6, <3>1
    <3>3. both[a] = t[i] /\ both[b] = t[j]
      BY <1>8, <3>2
    <3>4. i = j
      BY <1>10, <3>3
    <3> QED
      BY <3>2, <3>4
  <2> QED
    BY <1>6, <2>1, <2>2, <2>3
<1> QED
  BY <1>4, <1>9, <1>10 DEF both

(* The next page of a browsed list.                                          *)
LEMMA PageStep ==
  ASSUME Typed, Arrivals, NEW from, Browsing(from), ListPage(from), UNCHANGED <<alerts, arrived>>
  PROVE  ListInv'
<1> DEFINE rows      == Rows(DOMAIN alerts)
           page      == Page(rows, from.cursor, TRUE, Limit)
           next      == NextCursor(rows, from.cursor, TRUE, Limit)
           remaining == Remaining(rows, from.cursor, TRUE)
           shown     == [ i \in DOMAIN page |-> page[i][2] ]
           listed    == from.listed \o shown
           tied      == IF next = Start THEN from.tied ELSE from.tied \cup Tied(rows, next, TRUE)
<1>1. list' = [phase |-> IF next = Start THEN "shown" ELSE "paging", cursor |-> next,
               listed |-> listed, there |-> from.there \cap DOMAIN alerts, tied |-> tied]
  BY DEF ListPage
<1>2. /\ rows \in SUBSET Pairs /\ IsFiniteSet(rows)
      /\ \A id \in DOMAIN alerts : Place(id) \in rows /\ Place(id) \in Pairs /\ Place(id)[2] = id
      /\ \A row \in rows : row[2] \in DOMAIN alerts /\ row = Place(row[2]) /\ row # Start
  BY RowsArePairs
<1>3. PICK size :
        /\ IsPage(page, size, remaining, TRUE)
        /\ \/ next = Start /\ \A row \in remaining : \E i \in 1 .. size : page[i] = row
           \/ size # 0 /\ next = page[size]
  <2>1. Limit \in Nat \ {0}
    BY AlertStorageAssumption
  <2>2. Turned(page, next, remaining, TRUE)
    <3> HIDE DEF rows
    <3> QED
      BY <1>2, <2>1, Pages
  <2> HIDE DEF page, next, remaining
  <2> QED
    BY <2>2 DEF Turned
<1>4. remaining = { row \in rows : Beyond(row, from.cursor, TRUE) }
  BY DEF Remaining
<1>5. /\ shown = [ i \in DOMAIN page |-> page[i][2] ] /\ listed = from.listed \o shown
      /\ tied = IF next = Start THEN from.tied ELSE from.tied \cup Tied(rows, next, TRUE)
  OBVIOUS
<1>6. /\ size \in Nat /\ page \in [1 .. size -> remaining]
      /\ \A i, j \in 1 .. size : page[i] = page[j] => i = j
  BY <1>3 DEF IsPage
<1> HIDE DEF rows, page, next, remaining, shown, listed, tied
<1>7. ASSUME NEW i \in 1 .. size
      PROVE  /\ shown[i] \in DOMAIN alerts /\ page[i] = Place(shown[i]) /\ page[i] \in Pairs /\ page[i] # Start
             /\ Beyond(page[i], from.cursor, TRUE)
  <2>1. page[i] \in rows /\ Beyond(page[i], from.cursor, TRUE)
    BY <1>4, <1>6
  <2>2. shown[i] = page[i][2]
    BY <1>5, <1>6
  <2> QED
    BY <1>2, <2>1, <2>2
<1>8. /\ shown \in [1 .. size -> arrived]
      /\ \A i, j \in 1 .. size : shown[i] = shown[j] => i = j
      /\ \A i \in 1 .. size : shown[i] \notin In(from.listed)
  <2>1. shown \in [1 .. size -> arrived]
    BY <1>5, <1>6, <1>7 DEF Arrivals
  <2>2. \A i, j \in 1 .. size : shown[i] = shown[j] => i = j
    BY <1>6, <1>7
  <2>3. \A i \in 1 .. size : shown[i] \notin In(from.listed)
    BY <1>7 DEF Browsing
  <2> QED
    BY <2>1, <2>2, <2>3
<1>9. /\ listed \in Seq(arrived) /\ IsInjective(listed)
      /\ In(listed) = In(from.listed) \cup In(shown)
  <2>1. from.listed \in Seq(arrived) /\ IsInjective(from.listed)
    BY DEF Browsing
  <2>2. size \in Nat
    BY <1>6
  <2>3. /\ from.listed \o shown \in Seq(arrived) /\ IsInjective(from.listed \o shown)
        /\ In(from.listed \o shown) = In(from.listed) \cup In(shown)
    BY <1>8, <2>1, <2>2, Continued
  <2> QED
    BY <1>5, <2>3
<1>10. ASSUME NEW id \in (from.there \cap DOMAIN alerts) \ from.tied, id \notin In(listed)
       PROVE  Place(id) \in remaining /\ \A i \in 1 .. size : page[i] # Place(id)
  <2>1. Beyond(Place(id), from.cursor, TRUE)
    BY <1>9, <1>10 DEF Browsing
  <2>2. Place(id) \in remaining
    BY <1>2, <1>4, <2>1
  <2>3. ASSUME NEW i \in 1 .. size, page[i] = Place(id)  PROVE FALSE
    <3>1. shown[i] = id
      BY <1>2, <1>5, <1>6, <2>3
    <3> QED
      BY <1>8, <1>9, <1>10, <3>1 DEF In
  <2> QED
    BY <2>2, <2>3
<1>11. CASE next = Start
  <2>1. \A row \in remaining : \E i \in 1 .. size : page[i] = row
    <3>1. size # 0 => size \in 1 .. size
      BY <1>6
    <3>2. size # 0 => page[size] # Start
      BY <1>7, <3>1
    <3> QED
      BY <1>3, <1>11, <3>2
  <2>2. (from.there \cap DOMAIN alerts) \ from.tied \subseteq In(listed)
    BY <1>10, <2>1
  <2>3. /\ list'.phase = "shown" /\ list'.listed = listed /\ list'.there = from.there \cap DOMAIN alerts
        /\ list'.tied = from.tied
    BY <1>1, <1>5, <1>11
  <2> QED
    BY <1>9, <2>2, <2>3 DEF ListInv, ListIsWhole, In
<1>12. CASE next # Start
  <2>1. size # 0 /\ next = page[size] /\ size \in 1 .. size
    BY <1>3, <1>6, <1>12
  <2>2. /\ next \in Pairs /\ Beyond(next, from.cursor, TRUE)
        /\ \A i \in 1 .. size : ~Follows(page[i], next, TRUE)
        /\ \A row \in remaining : (\E i \in 1 .. size : page[i] = row) \/ Follows(row, next, TRUE)
    BY <1>3, <1>7, <2>1 DEF IsPage
  <2>3. ASSUME NEW id \in In(listed) \cap DOMAIN alerts  PROVE ~Beyond(Place(id), next, TRUE)
    <3>1. CASE id \in In(from.listed)
      <4>1. ~Beyond(Place(id), from.cursor, TRUE)
        BY <2>3, <3>1 DEF Browsing
      <4>2. from.cursor \in Pairs /\ from.cursor # Start
        BY <4>1 DEF Browsing, Beyond
      <4>3. Place(id) \in Pairs
        BY <1>2, <2>3
      <4> QED
        BY <1>12, <2>2, <4>1, <4>2, <4>3, BeyondAndFollows
    <3>2. CASE id \notin In(from.listed)
      <4>1. PICK i \in 1 .. size : shown[i] = id
        BY <1>8, <1>9, <2>3, <3>2 DEF In
      <4>2. page[i] = Place(id)
        BY <1>7, <4>1
      <4>3. ~Follows(Place(id), next, TRUE) /\ Place(id) \in Pairs
        BY <1>7, <2>2, <4>2
      <4> QED
        BY <1>12, <2>2, <4>3, BeyondAndFollows
    <3> QED
      BY <3>1, <3>2
  <2>4. ASSUME NEW id \in (from.there \cap DOMAIN alerts) \ tied, id \notin In(listed)
        PROVE  Beyond(Place(id), next, TRUE)
    <3>1. id \notin from.tied /\ id \notin Tied(rows, next, TRUE)
      BY <1>5, <1>12, <2>4
    <3>2. Follows(Place(id), next, TRUE)
      BY <1>10, <2>2, <2>4, <3>1
    <3>3. Place(id) \in rows /\ Place(id) \in Pairs /\ Place(id)[2] = id
      BY <1>2, <2>4
    <3>4. \A table : Place(id) \in table /\ Follows(Place(id), next, TRUE)
                    => Beyond(Place(id), next, TRUE) \/ Place(id)[2] \in Tied(table, next, TRUE)
      BY <1>12, <2>2, <3>3, BeyondAndFollows
    <3> QED
      BY <3>1, <3>2, <3>3, <3>4
  <2>5. /\ list'.phase = "paging" /\ list'.listed = listed /\ list'.cursor = next
        /\ list'.there = from.there \cap DOMAIN alerts /\ list'.tied = tied
    BY <1>1, <1>12
  <2>6. \A id : Place(id)' = Place(id)
    BY DEF Place
  <2>7. from.there \cap DOMAIN alerts \subseteq arrived
    BY DEF Arrivals
  <2>8. Browsing(list)'
    BY <1>9, <2>2, <2>3, <2>4, <2>5, <2>6, <2>7 DEF Browsing
  <2> QED
    BY <2>5, <2>8 DEF ListInv, ListIsWhole
<1> QED
  BY <1>11, <1>12

(* Whatever else happens to the table, a row that stays stays where it was.  *)
Settled == /\ arrived \subseteq arrived'
           /\ \A id \in DOMAIN alerts' \cap arrived :
                id \in DOMAIN alerts /\ alerts'[id].timestamp = alerts[id].timestamp

(* Rows that arrive, go or are mapped anew leave the list whole.             *)
LEMMA ListKept ==
  ASSUME ListInv, Settled, list' = list  PROVE ListInv'
<1>1. CASE list.phase = "paging"
  <2>1. Browsing(list) /\ ListIsWhole
    BY <1>1 DEF ListInv
  <2>2. ASSUME NEW id \in DOMAIN alerts' \cap arrived  PROVE id \in DOMAIN alerts /\ Place(id)' = Place(id)
    BY DEF Settled, Place
  <2>3. In(list.listed) \subseteq arrived
    <3>1. list.listed \in Seq(arrived)
      BY <2>1 DEF Browsing
    <3>2. DOMAIN list.listed = 1 .. Len(list.listed) /\ \A i \in 1 .. Len(list.listed) : list.listed[i] \in arrived
      BY <3>1, LenProperties, ElementOfSeq
    <3> QED
      BY <3>2 DEF In
  <2>4. list.listed \in Seq(arrived')
    <3>1. list.listed \in Seq(arrived) /\ arrived \subseteq arrived'
      BY <2>1 DEF Browsing, Settled
    <3> QED
      BY <3>1
  <2>5. ASSUME NEW id \in In(list.listed) \cap DOMAIN alerts'
        PROVE  ~Beyond(Place(id)', list.cursor, TRUE)
    BY <2>1, <2>2, <2>3 DEF Browsing
  <2>6. ASSUME NEW id \in (list.there \cap DOMAIN alerts') \ list.tied
        PROVE  id \in In(list.listed) \/ Beyond(Place(id)', list.cursor, TRUE)
    BY <2>1, <2>2 DEF Browsing
  <2>7. /\ IsInjective(list.listed) /\ list.there \subseteq arrived'
        /\ list.cursor = Start \/ list.cursor \in Pairs
    BY <2>1 DEF Browsing, Settled
  <2>8. Browsing(list)'
    BY <2>4, <2>5, <2>6, <2>7 DEF Browsing
  <2> QED
    BY <2>1, <2>8 DEF ListInv, ListIsWhole
<1>2. CASE list.phase # "paging"
  BY <1>2 DEF ListInv, ListIsWhole
<1> QED
  BY <1>1, <1>2

(* Ids are used once, and rows do not move.                                  *)
LEMMA NextArrivals ==
  ASSUME Typed, Arrivals, [Next]_vars  PROVE Arrivals' /\ Settled
<1>1. CASE UNCHANGED <<alerts, arrived>>
  BY <1>1 DEF Arrivals, Settled
<1>2. CASE DropExpiredPartitions
  <2>1. /\ alerts' = [ id \in Kept(Expired) |-> alerts[id] ] /\ arrived' = arrived
        /\ Kept(Expired) \subseteq DOMAIN alerts
    BY <1>2 DEF DropExpiredPartitions, Kept
  <2>2. DOMAIN alerts' \subseteq DOMAIN alerts /\ \A id \in DOMAIN alerts' : alerts'[id] = alerts[id]
    BY <2>1
  <2>3. IsFiniteSet(DOMAIN alerts')
    BY <2>2, FS_Subset DEF Arrivals
  <2> QED
    BY <2>1, <2>2, <2>3 DEF Arrivals, Settled
<1>3. ASSUME NEW id \in Ids, NEW day \in Stamps, Insert(id, day)  PROVE Arrivals' /\ Settled
  <2>1. /\ id \in Ids \ arrived /\ arrived' = arrived \cup {id} /\ DOMAIN alerts' = DOMAIN alerts \cup {id}
        /\ \A other \in DOMAIN alerts : other # id => alerts'[other] = alerts[other]
    BY <1>3 DEF Insert
  <2>2. IsFiniteSet(DOMAIN alerts')
    BY <2>1, FS_AddElement DEF Arrivals
  <2> QED
    BY <2>1, <2>2 DEF Arrivals, Settled
<1>4. ASSUME NEW j \in Jobs, ReprocessBatch(j)  PROVE Arrivals' /\ Settled
  <2>1. /\ DOMAIN alerts' = DOMAIN alerts /\ arrived' = arrived
        /\ \A id \in DOMAIN alerts : alerts'[id].timestamp = alerts[id].timestamp
    <3>1. CASE alerts' = alerts
      BY <1>4, <3>1 DEF ReprocessBatch
    <3>2. ASSUME NEW mapped, alerts' = [ id \in DOMAIN alerts |->
                               IF id \in mapped
                               THEN [alerts[id] EXCEPT !.map_version = Normalised(id, job[j].version)]
                               ELSE alerts[id] ]
          PROVE  /\ DOMAIN alerts' = DOMAIN alerts
                 /\ \A id \in DOMAIN alerts : alerts'[id].timestamp = alerts[id].timestamp
      <4>1. ASSUME NEW id \in DOMAIN alerts  PROVE alerts'[id].timestamp = alerts[id].timestamp
        <5>1. alerts[id] \in Row
          BY DEF Typed, TableOK
        <5> QED
          BY <3>2, <5>1 DEF Row
      <4> QED
        BY <3>2, <4>1
    <3> QED
      BY <1>4, <3>1, <3>2 DEF ReprocessBatch
  <2> QED
    BY <2>1 DEF Arrivals, Settled
<1> QED
  BY <1>1, <1>2, <1>3, <1>4
     DEF Next, vars, Tick, EnsurePartitions, Reprocess, Kill, FirstPage, FurtherPage, CloseList

LEMMA NextListInv ==
  ASSUME Typed, Arrivals, ListInv, [Next]_vars  PROVE ListInv'
<1>1. Settled
  BY NextArrivals
<1>2. CASE list' = list
  BY <1>1, <1>2, ListKept
<1>3. CASE FirstPage
  <2>1. PICK from : from = [NoList EXCEPT !.there = DOMAIN alerts]
    OBVIOUS
  <2>2. ListPage(from) /\ UNCHANGED <<alerts, arrived>>
    BY <1>3, <2>1 DEF FirstPage
  <2>3. from.listed = << >> /\ from.cursor = Start /\ from.there = DOMAIN alerts
    BY <2>1 DEF NoList
  <2>4. Browsing(from)
    <3>1. << >> \in Seq(arrived) /\ IsInjective(<< >>) /\ In(<< >>) = {}
      BY DEF IsInjective, In
    <3> QED
      BY <2>3, <3>1 DEF Browsing, Arrivals, Beyond
  <2> QED
    BY <2>2, <2>4, PageStep
<1>4. CASE FurtherPage
  <2>1. PICK from : from = list
    OBVIOUS
  <2>2. ListPage(from) /\ UNCHANGED <<alerts, arrived>> /\ Browsing(from)
    BY <1>4, <2>1 DEF FurtherPage, ListInv
  <2> QED
    BY <2>2, PageStep
<1>5. CASE CloseList
  <2>1. list'.phase = "idle"
    BY <1>5 DEF CloseList, NoList
  <2> QED
    BY <2>1 DEF ListInv, ListIsWhole
<1> QED
  BY <1>2, <1>3, <1>4, <1>5
     DEF Next, vars, Tick, EnsurePartitions, DropExpiredPartitions, Insert, Reprocess, ReprocessBatch, Kill

(* Once all the pages have been read, every alert that was there all the     *)
(* time was shown, but for those tied with the end of a page, and none was   *)
(* shown twice, however large the table and whatever was stored, dropped or  *)
(* mapped anew between two pages.                                            *)
THEOREM ListWhole == Spec => []ListIsWhole
<1>1. Init => Arrivals /\ ListInv
  <2>1. ASSUME Init  PROVE Arrivals
    <3>1. alerts = << >> /\ arrived = {}
      BY <2>1 DEF Init
    <3>2. DOMAIN alerts = {}
      BY <3>1
    <3> QED
      BY <3>1, <3>2, FS_EmptySet DEF Arrivals
  <2>2. ASSUME Init  PROVE ListInv
    BY <2>2 DEF Init, NoList, ListInv, ListIsWhole
  <2> QED
    BY <2>1, <2>2
<1>2. Typed /\ Arrivals /\ ListInv /\ [Next]_vars => Typed' /\ Arrivals' /\ ListInv'
  BY NextTyped, NextArrivals, NextListInv
<1>3. ListInv => ListIsWhole
  BY DEF ListInv
<1> QED
  BY InitTyped, <1>1, <1>2, <1>3, PTL DEF Spec

-----------------------------------------------------------------------------
(* The replay *)

(* An alert that carries the version of a job, or of one that ran beside it  *)
Mapped(id, record) == \E version \in record.beside : alerts[id].map_version = Normalised(id, version)

(* Of the alerts a replay owes, and that are still there, each is in its     *)
(* range and either yet to come, or tied, or mapped.                         *)
Owing(record) ==
  \A id \in record.due \cap DOMAIN alerts :
    /\ alerts[id].timestamp \in record.start .. record.end
    /\ Beyond(Place(id), record.cursor, FALSE) \/ id \in record.tied \/ Mapped(id, record)

JobHolds(record) ==
  /\ record.start \in Int /\ record.end \in Int /\ record.cursor \in {Start} \cup Pairs
  /\ record.due \subseteq arrived /\ Owing(record)
  /\ \A k \in Running : job[k].version \in record.beside

JobInv == \A j \in Running : JobHolds(job[j])

(* Rows that arrive or go leave a replay what it owes.                       *)
LEMMA JobKept ==
  ASSUME NEW record, JobHolds(record), arrived \subseteq arrived', job' = job,
         \A id \in DOMAIN alerts' \cap arrived : id \in DOMAIN alerts /\ alerts'[id] = alerts[id]
  PROVE  JobHolds(record)'
<1>1. record.due \subseteq arrived /\ Owing(record)
  BY DEF JobHolds
<1>2. ASSUME NEW id \in record.due \cap DOMAIN alerts'
      PROVE  /\ id \in DOMAIN alerts /\ alerts'[id] = alerts[id] /\ Place(id)' = Place(id)
             /\ Mapped(id, record)' <=> Mapped(id, record)
  BY <1>1 DEF Place, Mapped, Normalised
<1>3. ASSUME NEW id \in record.due \cap DOMAIN alerts'
      PROVE  /\ alerts'[id].timestamp \in record.start .. record.end
             /\ Beyond(Place(id)', record.cursor, FALSE) \/ id \in record.tied \/ Mapped(id, record)'
  BY <1>1, <1>2, <1>3 DEF Owing
<1>4. Owing(record)'
  BY <1>3 DEF Owing
<1>5. Running' = Running
  BY DEF Running
<1> QED
  BY <1>1, <1>4, <1>5 DEF JobHolds

(* A batch maps the first of the rows to come, all of them but the tied ones *)
(* when it is empty.                                                         *)
LEMMA BatchMaps ==
  ASSUME Typed, Arrivals, JobInv, NEW j \in Running, ReprocessBatch(j)
  PROVE  LET rows == Rows(InRange(job[j].start, job[j].end))
             due  == job[j].due \cap DOMAIN alerts
         IN \/ /\ job' = [job EXCEPT ![j] = NoJob] /\ alerts' = alerts
               /\ \A id \in due \ job[j].tied : Mapped(id, job[j])
            \/ \E last \in Pairs : \E mapped :
                 /\ job' = [job EXCEPT ![j] = [job[j] EXCEPT !.cursor = last, !.tied = job[j].tied \cup Tied(rows, last, FALSE)]]
                 /\ alerts' = [ id \in DOMAIN alerts |->
                                  IF id \in mapped
                                  THEN [alerts[id] EXCEPT !.map_version = Normalised(id, job[j].version)]
                                  ELSE alerts[id] ]
                 /\ \A id \in due \ (job[j].tied \cup Tied(rows, last, FALSE)) :
                      id \in mapped \/ Beyond(Place(id), last, FALSE) \/ Mapped(id, job[j])
<1> DEFINE record    == job[j]
           ids       == InRange(record.start, record.end)
           rows      == Rows(ids)
           batch     == Page(rows, record.cursor, FALSE, Batch)
           next      == NextCursor(rows, record.cursor, FALSE, Batch)
           remaining == Remaining(rows, record.cursor, FALSE)
           mapped    == { batch[i][2] : i \in DOMAIN batch }
           tied(last) == Tied(rows, last, FALSE)
<1>1. /\ IF batch = << >>
         THEN job' = [job EXCEPT ![j] = NoJob] /\ alerts' = alerts
         ELSE /\ job' = [job EXCEPT ![j] = [job[j] EXCEPT !.cursor = Last(batch), !.tied = job[j].tied \cup tied(Last(batch))]]
              /\ alerts' = [ id \in DOMAIN alerts |->
                               IF id \in mapped
                               THEN [alerts[id] EXCEPT !.map_version = Normalised(id, record.version)]
                               ELSE alerts[id] ]
  BY DEF ReprocessBatch
<1>2. /\ ids \in SUBSET DOMAIN alerts
      /\ ids = { id \in DOMAIN alerts : alerts[id].timestamp \in record.start .. record.end }
  BY DEF InRange
<1>3. JobHolds(record) /\ Owing(record)
  BY DEF JobInv, JobHolds
<1> HIDE DEF ids
<1>4. /\ rows \in SUBSET Pairs /\ IsFiniteSet(rows)
      /\ \A id \in ids : Place(id) \in rows /\ Place(id) \in Pairs /\ Place(id)[2] = id
      /\ \A row \in rows : row[2] \in ids /\ row = Place(row[2]) /\ row # Start
  BY <1>2, RowsArePairs
<1>5. remaining = { row \in rows : Beyond(row, record.cursor, FALSE) }
  BY DEF Remaining
<1>6. PICK size : IsPage(batch, size, remaining, FALSE)
  <2>1. Batch \in Nat \ {0}
    BY AlertStorageAssumption
  <2>2. Turned(batch, next, remaining, FALSE)
    <3> HIDE DEF rows
    <3> QED
      BY <1>4, <2>1, Pages
  <2> HIDE DEF batch, next, remaining
  <2> QED
    BY <2>2 DEF Turned
<1>7. mapped = { batch[i][2] : i \in DOMAIN batch } /\ \A last : tied(last) = Tied(rows, last, FALSE)
  OBVIOUS
<1> HIDE DEF rows, batch, next, remaining, mapped, record
<1>8. size \in Nat /\ batch \in [1 .. size -> remaining]
  BY <1>6 DEF IsPage
<1>9. \A id \in (record.due \cap DOMAIN alerts) \ record.tied :
        id \in ids /\ (Place(id) \in remaining \/ Mapped(id, record))
  BY <1>2, <1>3, <1>4, <1>5 DEF Owing
<1>10. CASE batch = << >>
  <2>1. size = 0
    BY <1>8, <1>10
  <2>2. remaining = {}
    BY <1>6, <2>1 DEF IsPage
  <2>3. job' = [job EXCEPT ![j] = NoJob] /\ alerts' = alerts
    BY <1>1, <1>10
  <2> QED
    BY <1>9, <2>2, <2>3 DEF record
<1>11. CASE batch # << >>
  <2>1. size # 0 /\ size \in 1 .. size
    BY <1>8, <1>11
  <2>2. Last(batch) = batch[size] /\ batch[size] \in Pairs /\ batch[size] # Start
    <3>1. batch \in Seq(remaining)
      BY <1>8, SeqDef
    <3>2. Len(batch) = size
      BY <1>8, <3>1, LenProperties
    <3>3. batch[size] \in remaining
      BY <1>8, <2>1
    <3> QED
      BY <1>4, <1>5, <3>2, <3>3 DEF Last
  <2>3. PICK last \in Pairs : last = batch[size] /\ last = Last(batch) /\ last # Start
    BY <2>2
  <2>4. ASSUME NEW id \in (record.due \cap DOMAIN alerts) \ (record.tied \cup tied(last))
        PROVE  id \in mapped \/ Beyond(Place(id), last, FALSE) \/ Mapped(id, record)
    <3> SUFFICES ASSUME Place(id) \in remaining, ~Beyond(Place(id), last, FALSE)  PROVE id \in mapped
      BY <1>9, <2>4
    <3>1. Place(id) \in rows /\ Place(id) \in Pairs /\ Place(id)[2] = id /\ id \notin Tied(rows, last, FALSE)
      BY <1>4, <1>7, <1>9, <2>4
    <3>2. ~Follows(Place(id), last, FALSE)
      <4>1. \A table : Place(id) \in table /\ Follows(Place(id), last, FALSE)
                      => Beyond(Place(id), last, FALSE) \/ Place(id)[2] \in Tied(table, last, FALSE)
        BY <2>3, <3>1, BeyondAndFollows
      <4> QED
        BY <3>1, <4>1
    <3>3. PICK i \in 1 .. size : batch[i] = Place(id)
      <4>1. \A row \in remaining : (\E i \in 1 .. size : batch[i] = row) \/ Follows(row, batch[size], FALSE)
        BY <1>6, <2>1, Zenon DEF IsPage
      <4>2. last = batch[size]
        BY <2>3
      <4>3. ~Follows(Place(id), batch[size], FALSE)
        BY <3>2, <4>2
      <4> QED
        BY <4>1, <4>3
    <3>4. batch[i][2] = id /\ i \in DOMAIN batch
      BY <1>8, <3>1, <3>3
    <3> QED
      BY <1>7, <3>4
  <2>5. /\ job' = [job EXCEPT ![j] = [job[j] EXCEPT !.cursor = last, !.tied = job[j].tied \cup tied(last)]]
        /\ alerts' = [ id \in DOMAIN alerts |->
                         IF id \in mapped
                         THEN [alerts[id] EXCEPT !.map_version = Normalised(id, record.version)]
                         ELSE alerts[id] ]
    BY <1>1, <1>11, <2>3
  <2> QED
    BY <2>4, <2>5 DEF record, rows, ids
<1> QED
  BY <1>10, <1>11

(* Each replay keeps what it owes, also the ones beside it.                  *)
LEMMA BatchKeepsJob ==
  ASSUME Typed, Arrivals, JobInv, NEW j \in Running, ReprocessBatch(j)
  PROVE  /\ JobInv'
         /\ job'[j].phase = "idle" => \A id \in (job[j].due \cap DOMAIN alerts) \ job[j].tied : Mapped(id, job[j])
         /\ \A k \in Running \ {j} : job'[k].phase = "running"
<1> DEFINE record == job[j]
           rows   == Rows(InRange(record.start, record.end))
           due    == record.due \cap DOMAIN alerts
<1>1. /\ j \in Jobs /\ job = [k \in Jobs |-> job[k]] /\ record.phase = "running"
      /\ \A k \in Running : k \in Jobs /\ JobHolds(job[k]) /\ job[k].phase = "running"
      /\ arrived' = arrived
  BY DEF Running, Typed, JobInv, ReprocessBatch
<1>2. CASE /\ job' = [job EXCEPT ![j] = NoJob] /\ alerts' = alerts
           /\ \A id \in due \ record.tied : Mapped(id, record)
  <2>1. \A k \in Jobs : job'[k] = IF k = j THEN NoJob ELSE job[k]
    BY <1>1, <1>2
  <2>2. NoJob.phase = "idle"
    BY DEF NoJob
  <2>3. Running' = Running \ {j}
    BY <1>1, <2>1, <2>2 DEF Running
  <2>4. ASSUME NEW k \in Running \ {j}  PROVE JobHolds(job[k])'
    <3>1. PICK other : other = job[k]
      OBVIOUS
    <3>2. JobHolds(other) /\ job'[k] = other
      BY <1>1, <2>1, <3>1
    <3>3. Owing(other)'
      BY <1>2, <3>2 DEF JobHolds, Owing, Place, Mapped, Normalised
    <3>4. JobHolds(other)'
      BY <1>1, <2>1, <2>3, <3>2, <3>3 DEF JobHolds
    <3> QED
      BY <3>2, <3>4
  <2> QED
    BY <1>1, <1>2, <2>1, <2>3, <2>4 DEF JobInv
<1>3. ASSUME NEW last \in Pairs, NEW mapped,
             job' = [job EXCEPT ![j] = [job[j] EXCEPT !.cursor = last, !.tied = job[j].tied \cup Tied(rows, last, FALSE)]],
             alerts' = [ id \in DOMAIN alerts |->
                           IF id \in mapped
                           THEN [alerts[id] EXCEPT !.map_version = Normalised(id, record.version)]
                           ELSE alerts[id] ],
             \A id \in due \ (record.tied \cup Tied(rows, last, FALSE)) :
               id \in mapped \/ Beyond(Place(id), last, FALSE) \/ Mapped(id, record)
      PROVE  JobInv' /\ job'[j].phase # "idle" /\ \A k \in Running : job'[k].phase = "running"
  <2>1. PICK tied : tied = record.tied \cup Tied(rows, last, FALSE)
    OBVIOUS
  <2>2. PICK moved : moved = [record EXCEPT !.cursor = last, !.tied = tied]
    OBVIOUS
  <2>3. moved = [phase |-> record.phase, start |-> record.start, end |-> record.end, version |-> record.version,
                 cursor |-> last, due |-> record.due, tied |-> tied, beside |-> record.beside]
    BY <1>1, <2>2, JobsMove
  <2>4. \A k \in Jobs : job'[k] = IF k = j THEN moved ELSE job[k]
    <3>1. job' = [job EXCEPT ![j] = moved]
      BY <1>1, <1>3, <2>1, <2>2
    <3> QED
      BY <1>1, <3>1
  <2>5. /\ Running' = Running
        /\ \A k \in Running : job'[k].version = job[k].version /\ job'[k].phase = "running"
    BY <1>1, <2>3, <2>4 DEF Running
  <2>6. ASSUME NEW id \in DOMAIN alerts
        PROVE  /\ alerts'[id].timestamp = alerts[id].timestamp
               /\ alerts'[id].map_version =
                    IF id \in mapped THEN Normalised(id, record.version) ELSE alerts[id].map_version
    <3>1. alerts[id] \in Row
      BY DEF Typed, TableOK
    <3> QED
      BY <1>3, <3>1 DEF Row
  <2>7. DOMAIN alerts' = DOMAIN alerts
    BY <1>3
  <2>8. \A k \in Running : record.version \in job[k].beside
    BY <1>1 DEF JobHolds
  <2>9. ASSUME NEW k \in Running, NEW id \in DOMAIN alerts
        PROVE  /\ Place(id)' = Place(id)
               /\ Mapped(id, job[k])' <=>
                    \E version \in job'[k].beside : alerts'[id].map_version = Normalised(id, version)
    BY <2>6 DEF Place, Mapped, Normalised
  <2>10. ASSUME NEW k \in Running  PROVE JobHolds(job[k])'
    <3>1. PICK other : other = job[k]
      OBVIOUS
    <3>2. PICK after : after = job'[k]
      OBVIOUS
    <3>3. /\ JobHolds(other) /\ after.start = other.start /\ after.end = other.end /\ after.due = other.due
          /\ after.beside = other.beside /\ after.cursor \in {Start} \cup Pairs
          /\ k = j => after.cursor = last /\ after.tied = tied /\ other = record
          /\ k # j => after = other
      BY <1>1, <2>3, <2>4, <3>1, <3>2 DEF JobHolds
    <3>4. ASSUME NEW id \in after.due \cap DOMAIN alerts
          PROVE  /\ alerts'[id].timestamp \in after.start .. after.end
                 /\ \/ Beyond(Place(id), after.cursor, FALSE) \/ id \in after.tied
                    \/ \E version \in after.beside : alerts'[id].map_version = Normalised(id, version)
      <4>1. /\ alerts[id].timestamp \in other.start .. other.end
            /\ Beyond(Place(id), other.cursor, FALSE) \/ id \in other.tied \/ Mapped(id, other)
        BY <3>3, <3>4 DEF JobHolds, Owing
      <4>2. CASE id \in mapped
        BY <2>6, <2>8, <3>1, <3>3, <3>4, <4>1, <4>2
      <4>3. CASE id \notin mapped
        <5>1. Mapped(id, other) => \E version \in after.beside : alerts'[id].map_version = Normalised(id, version)
          BY <2>6, <3>3, <3>4, <4>3 DEF Mapped
        <5>2. CASE k = j
          BY <1>3, <2>1, <2>6, <3>3, <3>4, <4>1, <4>3, <5>1, <5>2
        <5>3. CASE k # j
          BY <2>6, <3>3, <3>4, <4>1, <5>1, <5>3
        <5> QED
          BY <5>2, <5>3
      <4> QED
        BY <4>2, <4>3
    <3>5. Owing(after)'
      BY <2>6, <2>7, <2>9, <3>4 DEF Owing, Mapped, Normalised
    <3>6. JobHolds(after)'
      BY <1>1, <2>5, <3>3, <3>5 DEF JobHolds
    <3> QED
      BY <3>2, <3>6
  <2> QED
    BY <1>1, <2>5, <2>10 DEF JobInv
<1>4. \/ /\ job' = [job EXCEPT ![j] = NoJob] /\ alerts' = alerts
         /\ \A id \in due \ record.tied : Mapped(id, record)
      \/ \E last \in Pairs : \E mapped :
           /\ job' = [job EXCEPT ![j] = [job[j] EXCEPT !.cursor = last, !.tied = job[j].tied \cup Tied(rows, last, FALSE)]]
           /\ alerts' = [ id \in DOMAIN alerts |->
                            IF id \in mapped
                            THEN [alerts[id] EXCEPT !.map_version = Normalised(id, record.version)]
                            ELSE alerts[id] ]
           /\ \A id \in due \ (record.tied \cup Tied(rows, last, FALSE)) :
                id \in mapped \/ Beyond(Place(id), last, FALSE) \/ Mapped(id, record)
  BY BatchMaps
<1> HIDE DEF rows
<1>5. CASE job' = [job EXCEPT ![j] = NoJob] /\ alerts' = alerts /\ \A id \in due \ record.tied : Mapped(id, record)
  <2>1. JobInv'
    BY <1>2, <1>5
  <2>2. \A k \in Jobs \ {j} : job'[k] = job[k]
    BY <1>1, <1>5
  <2> QED
    BY <1>1, <1>5, <2>1, <2>2
<1> QED
  BY <1>3, <1>4, <1>5

(* A replay that starts over, or meets another one, owes no more.            *)
LEMMA JobStartsOver ==
  ASSUME Typed, JobInv, UNCHANGED <<alerts, arrived>>, NEW j \in Running, NEW beside, job[j].beside \subseteq beside,
         job'[j] \in { [job[j] EXCEPT !.beside = beside], [job[j] EXCEPT !.cursor = Start, !.tied = {}] },
         \A k \in Running' : job'[k].version \in job'[j].beside
  PROVE  JobHolds(job[j])'
<1>1. PICK record, after : record = job[j] /\ after = job'[j]
  OBVIOUS
<1>2. JobHolds(record) /\ j \in Jobs
  BY <1>1 DEF JobInv, Running
<1>3. /\ after.start = record.start /\ after.end = record.end /\ after.due = record.due
      /\ record.beside \subseteq after.beside /\ after.cursor \in {record.cursor, Start}
      /\ after.cursor = record.cursor => after.cursor = Start \/ after.tied = record.tied
  <2>1. CASE job'[j] = [job[j] EXCEPT !.beside = beside]
    <3>1. after = [phase |-> record.phase, start |-> record.start, end |-> record.end,
                   version |-> record.version, cursor |-> record.cursor, due |-> record.due,
                   tied |-> record.tied, beside |-> beside]
      BY <1>1, <1>2, <2>1, JobsMove, Zenon
    <3> QED
      BY <1>1, <3>1
  <2>2. CASE job'[j] = [job[j] EXCEPT !.cursor = Start, !.tied = {}]
    <3>1. after = [phase |-> record.phase, start |-> record.start, end |-> record.end,
                   version |-> record.version, cursor |-> Start, due |-> record.due,
                   tied |-> {}, beside |-> record.beside]
      BY <1>1, <1>2, <2>2, JobsMove, Zenon
    <3> QED
      BY <3>1
  <2> QED
    BY <2>1, <2>2
<1>4. ASSUME NEW id \in after.due \cap DOMAIN alerts
      PROVE  /\ alerts[id].timestamp \in after.start .. after.end
             /\ Beyond(Place(id), after.cursor, FALSE) \/ id \in after.tied \/ Mapped(id, after)
  <2>1. /\ alerts[id].timestamp \in record.start .. record.end
        /\ Beyond(Place(id), record.cursor, FALSE) \/ id \in record.tied \/ Mapped(id, record)
    BY <1>2, <1>3, <1>4 DEF JobHolds, Owing
  <2>2. Mapped(id, record) => Mapped(id, after)
    BY <1>3 DEF Mapped
  <2>3. after.cursor = Start => Beyond(Place(id), after.cursor, FALSE)
    BY DEF Beyond
  <2> QED
    BY <1>3, <2>1, <2>2, <2>3
<1>5. Owing(after)'
  BY <1>4 DEF Owing, Mapped, Place, Normalised
<1>6. JobHolds(after)'
  BY <1>1, <1>2, <1>3, <1>5 DEF JobHolds
<1> QED
  BY <1>1, <1>6

(* A replay that begins owes all that is in its range.                       *)
LEMMA JobBegins ==
  ASSUME Typed, Arrivals, JobInv, NEW j \in Jobs, NEW range \in Ranges, Reprocess(j, range)
  PROVE  JobInv' /\ \A k \in Running : job'[k].phase = "running"
<1>1. range[1] \in Int /\ range[2] \in Int /\ Horizon \in Int /\ range[3] \in Versions
  BY AlertStorageAssumption DEF Typed, Horizon, Days
<1>2. PICK start \in Int, end \in Int :
        /\ j \notin Running
        /\ job' = [ k \in Jobs |->
                      IF k = j
                      THEN [phase |-> "running", start |-> start, end |-> end, version |-> range[3], cursor |-> Start,
                            due |-> { id \in DOMAIN alerts : alerts[id].timestamp \in start .. end },
                            tied |-> {}, beside |-> {range[3]} \cup { job[k2].version : k2 \in Running }]
                      ELSE IF k \in Running THEN [job[k] EXCEPT !.beside = @ \cup {range[3]}]
                      ELSE job[k] ]
        /\ alerts' = alerts /\ arrived' = arrived
  <2> DEFINE start == IF range[1] < Horizon THEN Horizon ELSE range[1]
  <2>1. start \in Int /\ range[2] \in Int
    BY <1>1
  <2> QED
    BY <2>1 DEF Reprocess
<1>3. PICK begun :
        begun = [phase |-> "running", start |-> start, end |-> end, version |-> range[3], cursor |-> Start,
                 due |-> { id \in DOMAIN alerts : alerts[id].timestamp \in start .. end },
                 tied |-> {}, beside |-> {range[3]} \cup { job[k].version : k \in Running }]
  OBVIOUS
<1>4. /\ job'[j] = begun
      /\ \A k \in Jobs \ {j} : k \in Running => job'[k] = [job[k] EXCEPT !.beside = job[k].beside \cup {range[3]}]
      /\ \A k \in Jobs \ {j} : k \notin Running => job'[k] = job[k]
  BY <1>2, <1>3
<1>5. \A k \in Running : k \in Jobs /\ k # j /\ job[k].phase = "running"
  BY <1>2 DEF Running
<1>6. ASSUME NEW k \in Running
      PROVE  /\ job'[k].phase = "running" /\ job'[k].version = job[k].version
             /\ job'[k].beside = job[k].beside \cup {range[3]}
  <2>1. PICK beside : beside = job[k].beside \cup {range[3]}
    OBVIOUS
  <2>2. k \in Jobs /\ job'[k] = [job[k] EXCEPT !.beside = beside] /\ job[k].phase = "running"
    BY <1>4, <1>5, <2>1
  <2>3. job'[k] = [phase |-> job[k].phase, start |-> job[k].start, end |-> job[k].end, version |-> job[k].version,
                   cursor |-> job[k].cursor, due |-> job[k].due, tied |-> job[k].tied, beside |-> beside]
    BY <2>2, JobsMove
  <2> QED
    BY <2>1, <2>2, <2>3
<1>7. Running' = Running \cup {j}
  BY <1>3, <1>4, <1>5, <1>6 DEF Running
<1>8. \A k \in Running' : job'[k].version = IF k = j THEN range[3] ELSE job[k].version
  BY <1>3, <1>4, <1>6, <1>7
<1>9. ASSUME NEW k \in Running  PROVE JobHolds(job[k])'
  <2>1. \A other \in Running : job[other].version \in job[k].beside
    BY DEF JobInv, JobHolds
  <2>2. \A other \in Running' : job'[other].version \in job'[k].beside
    BY <1>6, <1>7, <1>8, <2>1
  <2>3. PICK beside : beside = job[k].beside \cup {range[3]}
    OBVIOUS
  <2>4. job'[k] = [job[k] EXCEPT !.beside = beside] /\ job[k].beside \subseteq beside
    BY <1>4, <1>5, <2>3
  <2> QED
    BY <1>2, <2>2, <2>4, JobStartsOver
<1>10. JobHolds(job[j])'
  <2>1. JobHolds(begun)'
    <3>1. Owing(begun)'
      BY <1>2, <1>3 DEF Owing, Beyond
    <3>2. begun.due \subseteq arrived'
      BY <1>2, <1>3 DEF Arrivals
    <3>3. \A k \in Running' : job'[k].version \in begun.beside
      BY <1>3, <1>7, <1>8
    <3> QED
      BY <1>3, <3>1, <3>2, <3>3 DEF JobHolds
  <2> QED
    BY <1>4, <2>1
<1> QED
  BY <1>6, <1>7, <1>9, <1>10 DEF JobInv

(* A worker that goes down runs its replays again; one that is given up is   *)
(* over.                                                                     *)
LEMMA KillKeepsJob ==
  ASSUME Typed, JobInv, Kill
  PROVE  JobInv'
<1>1. alerts' = alerts /\ arrived' = arrived
  BY DEF Kill
<1>2. \A k, other \in Running : job[other].version \in job[k].beside
  BY DEF JobInv, JobHolds
<1>3. CASE Restart
  <2>1. \A k \in Jobs : job'[k] = IF k \in Running THEN [job[k] EXCEPT !.cursor = Start, !.tied = {}] ELSE job[k]
    BY <1>3 DEF Restart
  <2>2. \A k \in Running : /\ job'[k].phase = job[k].phase /\ job'[k].version = job[k].version
                           /\ job'[k].beside = job[k].beside
    BY <2>1, JobsMove DEF Running
  <2>3. Running' = Running
    BY <2>1, <2>2 DEF Running
  <2>4. ASSUME NEW k \in Running  PROVE JobHolds(job[k])'
    <3>1. PICK beside : beside = job[k].beside
      OBVIOUS
    <3>2. job'[k] = [job[k] EXCEPT !.cursor = Start, !.tied = {}] /\ job[k].beside \subseteq beside
      BY <2>1, <3>1 DEF Running
    <3>3. \A other \in Running' : job'[other].version \in job'[k].beside
      BY <1>2, <2>2, <2>3
    <3> QED
      BY <1>1, <3>2, <3>3, JobStartsOver
  <2> QED
    BY <2>3, <2>4 DEF JobInv
<1>4. ASSUME NEW j \in Jobs, GiveUp(j)  PROVE JobInv'
  <2>1. job' = [job EXCEPT ![j] = NoJob] /\ job = [k \in Jobs |-> job[k]]
    BY <1>4 DEF GiveUp, Typed
  <2>2. \A k \in Jobs : job'[k] = IF k = j THEN NoJob ELSE job[k]
    BY <2>1
  <2>3. Running' = Running \ {j}
    BY <2>2 DEF Running, NoJob
  <2>4. ASSUME NEW k \in Running \ {j}  PROVE JobHolds(job[k])'
    <3>1. PICK other : other = job[k]
      OBVIOUS
    <3>2. JobHolds(other) /\ job'[k] = other
      BY <2>2, <3>1 DEF JobInv, Running
    <3>3. Owing(other)'
      BY <1>1, <3>2 DEF JobHolds, Owing, Place, Mapped, Normalised
    <3>4. \A other2 \in Running' : job'[other2].version \in other.beside
      BY <1>2, <2>2, <2>3, <3>1 DEF Running
    <3>5. JobHolds(other)'
      BY <1>1, <3>2, <3>3, <3>4 DEF JobHolds
    <3> QED
      BY <3>2, <3>5
  <2> QED
    BY <2>3, <2>4 DEF JobInv
<1> QED
  BY <1>3, <1>4 DEF Kill

LEMMA NextJobInv ==
  ASSUME Typed, Arrivals, JobInv, [Next]_vars
  PROVE  /\ JobInv'
         /\ \A j \in Running : job'[j].phase = "idle" /\ faults' = faults
              => \A id \in (job[j].due \cap DOMAIN alerts) \ job[j].tied : Mapped(id, job[j])
<1> DEFINE Reached == \A j \in Running : job'[j].phase = "idle" /\ faults' = faults
                        => \A id \in (job[j].due \cap DOMAIN alerts) \ job[j].tied : Mapped(id, job[j])
<1>1. ASSUME job' = job, arrived \subseteq arrived',
             \A id \in DOMAIN alerts' \cap arrived : id \in DOMAIN alerts /\ alerts'[id] = alerts[id]
      PROVE  JobInv' /\ Reached
  <2>1. Running' = Running /\ \A j \in Running : job'[j].phase = "running"
    BY <1>1 DEF Running
  <2>2. ASSUME NEW j \in Running  PROVE JobHolds(job[j])'
    <3>1. PICK record : record = job[j]
      OBVIOUS
    <3>2. JobHolds(record)
      BY <3>1 DEF JobInv
    <3>3. JobHolds(record)'
      BY <1>1, <3>2, JobKept
    <3> QED
      BY <1>1, <3>1, <3>3
  <2> QED
    BY <2>1, <2>2 DEF JobInv
<1>2. CASE UNCHANGED <<alerts, arrived, job>>
  BY <1>1, <1>2
<1>3. CASE DropExpiredPartitions
  <2>1. /\ alerts' = [ id \in Kept(Expired) |-> alerts[id] ] /\ arrived' = arrived /\ job' = job
        /\ Kept(Expired) \subseteq DOMAIN alerts
    BY <1>3 DEF DropExpiredPartitions, Kept
  <2>2. \A id \in DOMAIN alerts' : id \in DOMAIN alerts /\ alerts'[id] = alerts[id]
    BY <2>1
  <2> QED
    BY <1>1, <2>1, <2>2
<1>4. ASSUME NEW id \in Ids, NEW day \in Stamps, Insert(id, day)  PROVE JobInv' /\ Reached
  <2>1. /\ id \in Ids \ arrived /\ arrived' = arrived \cup {id} /\ DOMAIN alerts' = DOMAIN alerts \cup {id}
        /\ \A other \in DOMAIN alerts : other # id => alerts'[other] = alerts[other]
        /\ job' = job
    BY <1>4 DEF Insert
  <2> QED
    BY <1>1, <2>1
<1>5. ASSUME NEW j \in Jobs, NEW range \in Ranges, Reprocess(j, range)  PROVE JobInv' /\ Reached
  BY <1>5, JobBegins
<1>6. ASSUME NEW j \in Jobs, ReprocessBatch(j)  PROVE JobInv' /\ Reached
  <2>1. j \in Running
    BY <1>6 DEF ReprocessBatch
  <2> QED
    BY <1>6, <2>1, BatchKeepsJob
<1>7. CASE Kill
  <2>1. faults' # faults
    BY <1>7 DEF Kill, Typed
  <2> QED
    BY <1>7, <2>1, KillKeepsJob
<1> QED
  BY <1>2, <1>3, <1>4, <1>5, <1>6, <1>7
     DEF Next, vars, Tick, EnsurePartitions, FirstPage, FurtherPage, CloseList

(* A replay that comes to its end has reached every alert it owed but those  *)
(* tied with the end of a batch, in whatever batches, whichever replays run  *)
(* beside it, and however often it was killed and run again.                 *)
THEOREM ReplayReached == Spec => ReplayReachesAll
<1>1. Init => Arrivals /\ JobInv
  <2>1. ASSUME Init  PROVE Arrivals
    <3>1. alerts = << >> /\ arrived = {}
      BY <2>1 DEF Init
    <3>2. DOMAIN alerts = {}
      BY <3>1
    <3> QED
      BY <3>1, <3>2, FS_EmptySet DEF Arrivals
  <2>2. ASSUME Init  PROVE JobInv
    <3>1. Running = {}
      BY <2>2 DEF Init, Running, NoJob
    <3> QED
      BY <3>1 DEF JobInv
  <2> QED
    BY <2>1, <2>2
<1>2. Typed /\ Arrivals /\ JobInv /\ [Next]_vars => Typed' /\ Arrivals' /\ JobInv'
  BY NextTyped, NextArrivals, NextJobInv
<1>3. Typed /\ Arrivals /\ JobInv /\ [Next]_vars
        => [\A j \in Running : job'[j].phase = "idle" /\ faults' = faults
              => \A id \in (job[j].due \cap DOMAIN alerts) \ job[j].tied :
                   \E version \in job[j].beside : alerts[id].map_version = Normalised(id, version)]_vars
  BY NextJobInv DEF Mapped
<1> QED
  BY InitTyped, <1>1, <1>2, <1>3, PTL DEF Spec, ReplayReachesAll

-----------------------------------------------------------------------------
(* The numbers of a finite set in ascending order, however many they are.    *)

Below(n, numbers) == { m \in numbers : m < n }

(* A number has fewer numbers below it than those above it have.             *)
LEMMA BelowGrows ==
  ASSUME NEW numbers \in SUBSET Int, IsFiniteSet(numbers), NEW n \in numbers
  PROVE  /\ Cardinality(Below(n, numbers)) \in 0 .. Cardinality(numbers) - 1
         /\ \A m \in numbers : m < n => Cardinality(Below(m, numbers)) < Cardinality(Below(n, numbers))
<1> DEFINE B(m) == Below(m, numbers)
<1>1. ASSUME NEW m \in numbers
      PROVE  /\ B(m) \in SUBSET numbers /\ IsFiniteSet(B(m)) /\ Cardinality(B(m)) \in Nat
             /\ IsFiniteSet(B(m) \cup {m}) /\ Cardinality(B(m) \cup {m}) = Cardinality(B(m)) + 1
  <2>1. B(m) \in SUBSET numbers /\ m \notin B(m)
    BY DEF Below
  <2> HIDE DEF B
  <2> QED
    BY <2>1, FS_Subset, FS_CardinalityType, FS_AddElement
<1>2. Cardinality(numbers) \in Nat
  BY FS_CardinalityType
<1>3. ASSUME NEW m \in numbers, m < n  PROVE B(m) \cup {m} \subseteq B(n)
  <2>1. ASSUME NEW k \in B(m)  PROVE k \in B(n)
    <3>1. k \in numbers /\ k < m /\ k \in Int /\ m \in Int /\ n \in Int
      BY DEF Below
    <3>2. k < n
      BY <1>3, <3>1
    <3> QED
      BY <3>1, <3>2 DEF Below
  <2>2. m \in B(n)
    BY <1>3 DEF Below
  <2> HIDE DEF B
  <2> QED
    BY <2>1, <2>2
<1>4. B(n) \cup {n} \subseteq numbers
  BY <1>1
<1> HIDE DEF B
<1>5. Cardinality(B(n)) + 1 <= Cardinality(numbers)
  <2>1. Cardinality(B(n) \cup {n}) <= Cardinality(numbers)
    BY <1>4, FS_Subset
  <2> QED
    BY <1>1, <2>1
<1>6. ASSUME NEW m \in numbers, m < n  PROVE Cardinality(B(m)) < Cardinality(B(n))
  <2>1. Cardinality(B(m) \cup {m}) <= Cardinality(B(n))
    BY <1>1, <1>3, <1>6, FS_Subset
  <2>2. Cardinality(B(m)) \in Nat /\ Cardinality(B(n)) \in Nat /\ Cardinality(B(m) \cup {m}) = Cardinality(B(m)) + 1
    BY <1>1
  <2> QED
    BY <2>1, <2>2
<1>7. Cardinality(B(n)) \in 0 .. Cardinality(numbers) - 1
  <2>1. Cardinality(B(n)) \in Nat
    BY <1>1
  <2> QED
    BY <1>2, <1>5, <2>1
<1> QED
  BY <1>6, <1>7 DEF B

(* There is a number with any count of numbers below it,                     *)
LEMMA BelowIsOnto ==
  ASSUME NEW numbers \in SUBSET Int, IsFiniteSet(numbers), NEW i \in 0 .. Cardinality(numbers) - 1
  PROVE  \E n \in numbers : Cardinality(Below(n, numbers)) = i
<1> DEFINE c     == Cardinality(numbers)
           count == [n \in numbers |-> Cardinality(Below(n, numbers))]
<1>1. c \in Nat
  BY FS_CardinalityType
<1>2. count \in [numbers -> 0 .. c - 1]
  BY BelowGrows
<1>3. ASSUME NEW m \in numbers, NEW n \in numbers, count[m] = count[n]  PROVE m = n
  <2>1. /\ m < n => Cardinality(Below(m, numbers)) < Cardinality(Below(n, numbers))
        /\ n < m => Cardinality(Below(n, numbers)) < Cardinality(Below(m, numbers))
    BY BelowGrows
  <2>2. Cardinality(Below(m, numbers)) \in Int /\ Cardinality(Below(m, numbers)) = Cardinality(Below(n, numbers))
    BY <1>1, <1>2, <1>3
  <2>3. m \in Int /\ n \in Int
    OBVIOUS
  <2> QED
    BY <2>1, <2>2, <2>3
<1>4. count \in Injection(numbers, 0 .. c - 1)
  <2> HIDE DEF count, c
  <2> QED
    BY <1>2, <1>3 DEF Injection, IsInjective
<1>5. IsFiniteSet(0 .. c - 1) /\ Cardinality(0 .. c - 1) = c
  <2> HIDE DEF c
  <2> QED
    BY <1>1, FS_Interval
<1>6. count \in Surjection(numbers, 0 .. c - 1)
  <2> HIDE DEF count
  <2> QED
    BY <1>4, <1>5, FS_Injection
<1>7. \E n \in numbers : count[n] = i
  <2> HIDE DEF count
  <2> QED
    BY <1>6 DEF Surjection
<1> QED
  BY <1>7

(* so that each number has its place, after those that are less.             *)
LEMMA InOrderAscends ==
  ASSUME NEW numbers \in SUBSET Int, IsFiniteSet(numbers)
  PROVE  /\ Cardinality(numbers) \in Nat
         /\ InOrder(numbers) \in [1 .. Cardinality(numbers) -> numbers]
         /\ \A i, j \in 1 .. Cardinality(numbers) : i < j => InOrder(numbers)[i] < InOrder(numbers)[j]
         /\ \A n \in numbers : \E i \in 1 .. Cardinality(numbers) : InOrder(numbers)[i] = n
<1> DEFINE c   == Cardinality(numbers)
           all == InOrder(numbers)
           count(n) == Cardinality(Below(n, numbers))
<1>1. c \in Nat
  BY FS_CardinalityType
<1>2. \A n \in numbers : /\ count(n) \in 0 .. c - 1
                         /\ \A m \in numbers : m < n => count(m) < count(n)
  BY BelowGrows
<1>3. all = [i \in 1 .. c |-> CHOOSE n \in numbers : count(n) = i - 1]
  BY DEF InOrder, Nth, Below
<1>4. \A k \in 0 .. c - 1 : \E n \in numbers : count(n) = k
  BY BelowIsOnto
<1> HIDE DEF c, all, count
<1>5. ASSUME NEW i \in 1 .. c  PROVE all[i] \in numbers /\ count(all[i]) = i - 1
  <2>1. i - 1 \in 0 .. c - 1
    BY <1>1
  <2>2. \E n \in numbers : count(n) = i - 1
    BY <1>4, <2>1
  <2>3. all[i] = CHOOSE n \in numbers : count(n) = i - 1
    BY <1>3
  <2> QED
    BY <2>2, <2>3
<1>6. all \in [1 .. c -> numbers]
  BY <1>3, <1>5
<1>7. ASSUME NEW i \in 1 .. c, NEW j \in 1 .. c, i < j  PROVE all[i] < all[j]
  <2>1. all[i] \in numbers /\ all[j] \in numbers /\ count(all[i]) = i - 1 /\ count(all[j]) = j - 1
    BY <1>5
  <2>2. PICK m \in numbers, n \in numbers : m = all[i] /\ n = all[j]
    BY <2>1
  <2>3. count(m) = i - 1 /\ count(n) = j - 1 /\ m \in Int /\ n \in Int
    BY <2>1, <2>2
  <2>4. n < m => count(n) < count(m)
    BY <1>2
  <2>5. ~(count(n) < count(m)) /\ count(n) # count(m)
    BY <1>1, <1>7, <2>3
  <2>6. ~(n < m) /\ m # n
    BY <2>4, <2>5
  <2> QED
    BY <2>2, <2>3, <2>6
<1>8. ASSUME NEW n \in numbers  PROVE \E i \in 1 .. c : all[i] = n
  <2>1. PICK i \in 1 .. c : i = count(n) + 1
    BY <1>1, <1>2
  <2>2. all[i] \in numbers /\ count(all[i]) = count(n)
    BY <1>2, <1>5, <2>1
  <2>3. PICK m \in numbers : m = all[i]
    BY <2>2
  <2>4. (m < n => count(m) < count(n)) /\ (n < m => count(n) < count(m))
    BY <1>2
  <2>5. ~(count(m) < count(n)) /\ ~(count(n) < count(m))
    BY <1>2, <2>2, <2>3
  <2>6. m \in Int /\ n \in Int
    OBVIOUS
  <2> QED
    BY <2>3, <2>4, <2>5, <2>6
<1> QED
  BY <1>1, <1>6, <1>7, <1>8 DEF c, all

-----------------------------------------------------------------------------
(* The cache of agents: types                                                *)

Phases == {"store", "prune", "commit"}

SweepState == [phase : {"idle", "next", "get"} \cup Phases, left : SUBSET Tenants, faulty : SUBSET Tenants,
               tenant : Tenants \cup {Absent}, offset : Nat, collected : Seq(Agents), now : Nat,
               doomed : SUBSET Agents, quiet : BOOLEAN]

SyncTyped ==
  /\ changes \in Nat /\ unserved \in Nat /\ active \subseteq Tenants /\ errors \subseteq Tenants
  /\ company \subseteq Sweeps
  /\ group \in [Tenants -> SUBSET Agents] /\ \A t \in Tenants : IsFiniteSet(group[t])
  /\ agents \in [Tenants -> [Agents -> {Absent} \cup Nat]]
  /\ lastIn \in [Tenants -> [Agents -> {Absent} \cup Nat]]
  /\ sweep \in [Sweeps -> SweepState]

Reads(state) == state.phase \in {"get"} \cup Phases

(* The group was like that when the sweep began to read it, or later.        *)
WasIn(t, a, at) == a \in group[t] \/ (lastIn[t][a] # Absent /\ lastIn[t][a] >= at)

Held(state) ==
  Reads(state) => /\ state.tenant \in Tenants /\ state.now <= changes
                  /\ \A i \in DOMAIN state.collected : WasIn(state.tenant, state.collected[i], state.now)

Begins(seq, all) == Len(seq) <= Len(all) /\ \A i \in 1 .. Len(seq) : seq[i] = all[i]

(* What is read of a group that does not change is its first part.           *)
ReadOf(state, roll) ==
  /\ Begins(state.collected, roll)
  /\ state.phase = "get" => state.offset = Len(state.collected)
  /\ state.phase # "get" /\ Len(roll) <= MaxAgents => Len(state.collected) = Len(roll)

Exact(state) == Reads(state) /\ state.quiet => ReadOf(state, InOrder(group[state.tenant]))

CacheIsDated ==
  \A t \in Tenants : \A a \in Cached(t) : agents[t][a] <= changes /\ WasIn(t, a, agents[t][a])

(* Two sweeps that store one tenant's rows at the same time know each other. *)
Apart ==
  \A s, q \in Sweeps :
    s # q /\ Storing(s) /\ Storing(q) /\ sweep[s].tenant = sweep[q].tenant => s \in company

InCache(t) == { a \in Agents : agents[t][a] # Absent }

(* The pruning of a sweep that stores alone has found all that is to go.     *)
Swept(s) ==
  sweep[s].phase = "commit" /\ s \notin company
    => InCache(sweep[s].tenant) \subseteq Seen(sweep[s]) \cup sweep[s].doomed

Orderly == Apart /\ \A s \in Sweeps : Swept(s)

SyncInv ==
  /\ SyncTyped /\ CacheIsDated /\ Orderly
  /\ \A s \in Sweeps : Held(sweep[s]) /\ Exact(sweep[s])

(* A sweep that does nothing                                                 *)
LEMMA IdleIsState ==
  Idle \in SweepState /\ Idle.phase = "idle" /\ Idle.collected = << >> /\ Idle.offset = 0
<1>1. Idle \in [phase : {"idle"}, left : SUBSET Tenants, faulty : SUBSET Tenants, tenant : {Absent}, offset : {0},
                collected : {<< >>}, now : Nat, doomed : SUBSET Agents, quiet : BOOLEAN]
  BY DEF Idle
<1>2. << >> \in Seq(Agents)
  OBVIOUS
<1>3. {<< >>} \subseteq Seq(Agents) /\ {0} \subseteq Nat
  BY <1>2
<1> QED
  BY <1>1, <1>3 DEF SweepState

(* A sweep that does not read has nothing to keep.                           *)
LEMMA NotReading ==
  ASSUME NEW state, state.phase \in {"idle", "next"}
  PROVE  Held(state) /\ Exact(state)
BY DEF Held, Exact, Reads, Phases

(* What is read of groups that do not change is kept as long as the sweeps   *)
(* keep it.                                                                  *)
LEMMA ReadingsStay ==
  ASSUME sweep' \in [Sweeps -> SweepState], UNCHANGED <<group, changes, lastIn>>,
         NEW q \in Sweeps, Held(sweep'[q]), Exact(sweep'[q])
  PROVE  Held(sweep[q])' /\ Exact(sweep[q])'
<1>1. Held(sweep[q])' <=> Held(sweep'[q])
  <2>1. \A t, a, at : WasIn(t, a, at)' <=> WasIn(t, a, at)
    BY DEF WasIn
  <2> QED
    BY <2>1 DEF Held, Reads, Phases
<1>2. Exact(sweep[q])' <=> Exact(sweep'[q])
  <2>1. group' = group
    OBVIOUS
  <2> QED
    BY <2>1 DEF Exact, Reads, ReadOf, Begins, Phases
<1> QED
  BY <1>1, <1>2

(* One sweep takes a step; no group changes.                                 *)
LEMMA OneSweep ==
  ASSUME SyncTyped, \A q \in Sweeps : Held(sweep[q]) /\ Exact(sweep[q]),
         NEW s \in Sweeps, NEW state \in SweepState, Becomes(s, state), Held(state), Exact(state),
         UNCHANGED <<group, changes, lastIn>>
  PROVE  /\ sweep' \in [Sweeps -> SweepState] /\ sweep'[s] = state
         /\ \A q \in Sweeps : q # s => sweep'[q] = sweep[q]
         /\ \A q \in Sweeps : Held(sweep[q])' /\ Exact(sweep[q])'
<1>1. sweep' = [sweep EXCEPT ![s] = state] /\ sweep \in [Sweeps -> SweepState]
  BY DEF Becomes, SyncTyped
<1>2. sweep'[s] = state /\ \A q \in Sweeps : q # s => sweep'[q] = sweep[q]
  BY <1>1
<1>3. sweep' \in [Sweeps -> SweepState]
  BY <1>1
<1>4. ASSUME NEW q \in Sweeps  PROVE Held(sweep[q])' /\ Exact(sweep[q])'
  <2>1. Held(sweep'[q]) /\ Exact(sweep'[q])
    BY <1>2
  <2> QED
    BY <1>3, <2>1, ReadingsStay
<1> QED
  BY <1>2, <1>3, <1>4

(* The agents of a group, as the manager lists them                          *)
LEMMA ListingIsGroup ==
  ASSUME SyncTyped, NEW t \in Tenants
  PROVE  /\ InOrder(group[t]) \in Seq(group[t]) /\ InOrder(group[t]) \in Seq(Agents)
         /\ Len(InOrder(group[t])) = Cardinality(group[t])
         /\ \A i, j \in 1 .. Len(InOrder(group[t])) : i < j => InOrder(group[t])[i] < InOrder(group[t])[j]
         /\ \A i \in 1 .. Len(InOrder(group[t])) : InOrder(group[t])[i] \in group[t]
         /\ \A a \in group[t] : \E i \in 1 .. Len(InOrder(group[t])) : InOrder(group[t])[i] = a
<1> DEFINE all == InOrder(group[t])
           c   == Cardinality(group[t])
<1>1. group[t] \in SUBSET Int /\ group[t] \in SUBSET Agents /\ IsFiniteSet(group[t])
  <2>1. group[t] \in SUBSET Agents /\ IsFiniteSet(group[t])
    BY DEF SyncTyped
  <2>2. Agents \subseteq Int
    BY AgentSyncAssumption
  <2> QED
    BY <2>1, <2>2
<1>2. /\ c \in Nat /\ all \in [1 .. c -> group[t]]
      /\ \A i, j \in 1 .. c : i < j => all[i] < all[j]
      /\ \A a \in group[t] : \E i \in 1 .. c : all[i] = a
  BY <1>1, InOrderAscends
<1> HIDE DEF all, c
<1>3. all \in Seq(group[t])
  BY <1>2, SeqDef
<1>4. Len(all) = c
  BY <1>2, <1>3, LenProperties
<1>5. all \in Seq(Agents)
  BY <1>1, <1>2, SeqDef
<1> QED
  BY <1>2, <1>3, <1>4, <1>5 DEF all, c

-----------------------------------------------------------------------------
(* Reading                                                                   *)

PageFrom(roll, offset) ==
  SubSeq(roll, offset + 1,
         IF offset + AgentPage < Len(roll) THEN offset + AgentPage ELSE Len(roll))

Adds(items, roll, offset, collected) ==
  /\ Len(items) \in Nat /\ collected \o items \in Seq(Agents)
  /\ Len(collected \o items) = Len(collected) + Len(items)
  /\ \A i \in 1 .. Len(collected) : (collected \o items)[i] = collected[i]
  /\ \A i \in 1 .. Len(collected \o items) :
       \/ i \in 1 .. Len(collected)
       \/ \E k \in 1 .. Len(roll) : (collected \o items)[i] = roll[k]
  /\ Begins(collected, roll) /\ offset = Len(collected)
       => Begins(collected \o items, roll) /\ (items = << >> => offset = Len(roll))

(* A page adds what follows in the roll, and nothing only at its end.       *)
LEMMA PageOfListing ==
  ASSUME NEW roll \in Seq(Agents), NEW offset \in Nat, NEW collected \in Seq(Agents)
  PROVE  Adds(PageFrom(roll, offset), roll, offset, collected)
<1> DEFINE items == PageFrom(roll, offset)
           n    == Len(roll)
           k    == Len(collected)
           m    == Len(items)
           top  == IF offset + AgentPage < n THEN offset + AgentPage ELSE n
           both == collected \o items
<1>1. n \in Nat /\ k \in Nat /\ AgentPage \in Nat /\ AgentPage > 0
      /\ \A i \in 1 .. n : roll[i] \in Agents
  BY AgentSyncAssumption, LenProperties, ElementOfSeq
<1>2. items = SubSeq(roll, offset + 1, top)
  BY DEF PageFrom
<1> HIDE DEF n, k, items
<1>3. top \in Int /\ top <= n /\ (top = n \/ top = offset + AgentPage)
  BY <1>1
<1> HIDE DEF top
<1>4. /\ items \in Seq(Agents) /\ m = (IF offset + 1 <= top THEN top - (offset + 1) + 1 ELSE 0)
      /\ \A i \in 1 .. top - (offset + 1) + 1 : items[i] = roll[(offset + 1) + i - 1]
  <2>1. offset + 1 \in Int /\ \A i \in (offset + 1) .. top : roll[i] \in Agents
    BY <1>1, <1>3
  <2>2. PICK first \in Int : first = offset + 1
    BY <2>1
  <2>3. \A i \in first .. top : roll[i] \in Agents
    BY <2>1, <2>2
  <2>4. /\ SubSeq(roll, first, top) \in Seq(Agents)
        /\ Len(SubSeq(roll, first, top)) = IF first <= top THEN top - first + 1 ELSE 0
        /\ \A i \in 1 .. top - first + 1 : SubSeq(roll, first, top)[i] = roll[first + i - 1]
    BY <1>3, <2>3, SubSeqProperties
  <2>5. items = SubSeq(roll, first, top)
    BY <1>2, <2>2
  <2> QED
    BY <2>2, <2>4, <2>5
<1>5. m \in Nat /\ \A i \in 1 .. m : offset + i \in 1 .. n /\ items[i] = roll[offset + i]
  <2>1. m \in Nat
    BY <1>1, <1>3, <1>4
  <2>2. ASSUME NEW i \in 1 .. m  PROVE offset + i \in 1 .. n /\ items[i] = roll[offset + i]
    <3>1. i \in 1 .. top - (offset + 1) + 1 /\ (offset + 1) + i - 1 = offset + i /\ offset + i \in 1 .. n
      BY <1>1, <1>3, <1>4, <2>1
    <3> QED
      BY <1>4, <3>1
  <2> QED
    BY <2>1, <2>2
<1>6. /\ both \in Seq(Agents) /\ Len(both) = k + m
      /\ \A i \in 1 .. k + m : both[i] = IF i <= k THEN collected[i] ELSE items[i - k]
  BY <1>4, ConcatProperties DEF k
<1>7. items = << >> => m = 0
  OBVIOUS
<1> HIDE DEF m, both
<1>8. \A i \in 1 .. k : both[i] = collected[i]
  BY <1>1, <1>5, <1>6
<1>9. ASSUME NEW i \in 1 .. k + m, ~(i \in 1 .. k)
      PROVE  /\ i - k \in 1 .. m /\ offset + (i - k) \in 1 .. n /\ both[i] = roll[offset + (i - k)]
  <2>1. PICK j \in 1 .. m : j = i - k
    BY <1>1, <1>5, <1>9
  <2>2. both[i] = items[j]
    <3>1. both[i] = IF i <= k THEN collected[i] ELSE items[i - k]
      BY <1>6
    <3>2. ~(i <= k)
      BY <1>1, <1>5, <1>9
    <3> QED
      BY <2>1, <3>1, <3>2
  <2>3. offset + j \in 1 .. n /\ items[j] = roll[offset + j]
    BY <1>5
  <2> QED
    BY <2>1, <2>2, <2>3
<1>10. ASSUME Begins(collected, roll), offset = k
       PROVE  Begins(both, roll) /\ (m = 0 => offset = n)
  <2>1. k <= n /\ \A i \in 1 .. k : collected[i] = roll[i]
    BY <1>10 DEF Begins, n, k
  <2>2. m = 0 => offset = n
    BY <1>1, <1>3, <1>4, <1>10, <2>1
  <2>3. k + m <= n
    BY <1>1, <1>3, <1>4, <1>10, <2>1
  <2>4. ASSUME NEW i \in 1 .. k + m  PROVE both[i] = roll[i]
    <3>1. CASE i \in 1 .. k
      BY <1>8, <2>1, <3>1
    <3>2. CASE ~(i \in 1 .. k)
      <4>1. offset + (i - k) = i
        BY <1>1, <1>5, <1>10
      <4> QED
        BY <1>9, <3>2, <4>1
    <3> QED
      BY <3>1, <3>2
  <2> QED
    BY <1>6, <2>2, <2>3, <2>4 DEF Begins, n
<1>11. /\ m \in Nat /\ both \in Seq(Agents) /\ Len(both) = k + m /\ \A i \in 1 .. k : both[i] = collected[i]
       /\ \A i \in 1 .. Len(both) : i \in 1 .. k \/ \E j \in 1 .. n : both[i] = roll[j]
  BY <1>5, <1>6, <1>8, <1>9
<1> QED
  BY <1>7, <1>10, <1>11 DEF n, k, m, both, items, Adds

Met(s) == IF Beside(s) # {} THEN company \cup Beside(s) \cup {s} ELSE company

(* A page more of what is read                                               *)
LEMMA PageKeeps ==
  ASSUME SyncInv, NEW s \in Sweeps, GetPage(s)
  PROVE  \E state \in SweepState :
           /\ Becomes(s, state) /\ Held(state) /\ Exact(state)
           /\ state.phase \in {"get", "store"} /\ state.tenant = sweep[s].tenant
           /\ state.phase = "store" => company' = Met(s)
           /\ state.phase = "get" => company' = company
<1> DEFINE t       == sweep[s].tenant
           roll == InOrder(group[t])
           offset  == sweep[s].offset
           n       == Len(roll)
           items   == SubSeq(roll, offset + 1,
                             IF offset + AgentPage < n THEN offset + AgentPage ELSE n)
           both    == sweep[s].collected \o items
           further == offset + Len(items)
           last    == LastPage(items, further, n + unserved, both)
           kept    == IF last /\ Len(both) > MaxAgents THEN SubSeq(both, 1, MaxAgents) ELSE both
           state   == [sweep[s] EXCEPT !.offset = further, !.phase = IF last THEN "store" ELSE "get",
                                       !.collected = kept]
<1>1. sweep[s].phase = "get" /\ Becomes(s, state)
      /\ company' = IF last /\ Beside(s) # {} THEN company \cup Beside(s) \cup {s} ELSE company
  BY DEF GetPage, Asked, NextOffset
<1>2. sweep[s] \in SweepState /\ unserved \in Nat /\ MaxAgents \in Nat /\ MaxAgents > 0
  BY AgentSyncAssumption DEF SyncInv, SyncTyped
<1>3. offset \in Nat /\ sweep[s].collected \in Seq(Agents)
  BY <1>2 DEF SweepState
<1>4. /\ t \in Tenants /\ sweep[s].now <= changes
      /\ \A i \in DOMAIN sweep[s].collected : WasIn(t, sweep[s].collected[i], sweep[s].now)
  BY <1>1 DEF SyncInv, Held, Reads
<1>5. /\ roll \in Seq(Agents) /\ n \in Nat
      /\ \A i \in 1 .. n : roll[i] \in group[t]
  <2>1. roll \in Seq(Agents) /\ \A i \in 1 .. n : roll[i] \in group[t]
    BY <1>4, ListingIsGroup DEF SyncInv
  <2> HIDE DEF roll
  <2> QED
    BY <2>1, LenProperties
<1>6. /\ Len(items) \in Nat /\ both \in Seq(Agents)
      /\ Len(both) = Len(sweep[s].collected) + Len(items)
      /\ \A i \in 1 .. Len(sweep[s].collected) : both[i] = sweep[s].collected[i]
      /\ \A i \in 1 .. Len(both) : \/ i \in 1 .. Len(sweep[s].collected)
                                   \/ \E k \in 1 .. n : both[i] = roll[k]
      /\ Begins(sweep[s].collected, roll) /\ offset = Len(sweep[s].collected)
           => Begins(both, roll) /\ (items = << >> => offset = n)
  <2>1. Adds(PageFrom(roll, offset), roll, offset, sweep[s].collected)
    BY <1>3, <1>5, PageOfListing
  <2>2. PageFrom(roll, offset) = items
    BY DEF PageFrom
  <2> HIDE DEF roll, offset, items
  <2> QED
    BY <2>1, <2>2 DEF Adds
<1>7. \A i \in 1 .. Len(both) : WasIn(t, both[i], sweep[s].now)
  <2>1. DOMAIN sweep[s].collected = 1 .. Len(sweep[s].collected)
    BY <1>3, LenProperties
  <2>2. ASSUME NEW k \in 1 .. n  PROVE WasIn(t, roll[k], sweep[s].now)
    BY <1>5 DEF WasIn
  <2> HIDE DEF both, n, roll, t
  <2> QED
    BY <1>4, <1>6, <2>1, <2>2
<1>8. last <=> (items = << >> \/ further >= n + unserved \/ Len(both) >= MaxAgents)
  BY DEF LastPage
<1>9. further \in Nat
  BY <1>3, <1>6
<1>10. state.offset = further /\ state.collected = kept /\ state.tenant = t /\ state.now = sweep[s].now
       /\ state.quiet = sweep[s].quiet /\ state.phase = (IF last THEN "store" ELSE "get")
  <2> HIDE DEF kept, last, further
  <2> QED
    BY <1>2 DEF SweepState
<1>11. Len(both) \in Nat /\ \A i \in 1 .. Len(both) : both[i] \in Agents
  <2> HIDE DEF both
  <2> QED
    BY <1>6, LenProperties, ElementOfSeq
<1>12. /\ kept \in Seq(Agents) /\ Len(kept) \in Nat
       /\ Len(kept) = IF last /\ Len(both) > MaxAgents THEN MaxAgents ELSE Len(both)
       /\ \A i \in 1 .. Len(kept) : kept[i] = both[i]
  <2>1. CASE last /\ Len(both) > MaxAgents
    <3> HIDE DEF both, last
    <3>1. kept = SubSeq(both, 1, MaxAgents) /\ \A i \in 1 .. MaxAgents : both[i] \in Agents
      BY <1>2, <1>11, <2>1
    <3> HIDE DEF kept
    <3>2. /\ kept \in Seq(Agents) /\ Len(kept) = (IF 1 <= MaxAgents THEN MaxAgents - 1 + 1 ELSE 0)
          /\ \A i \in 1 .. MaxAgents - 1 + 1 : kept[i] = both[1 + i - 1]
      <4>1. MaxAgents \in Int
        BY <1>2
      <4> QED
        BY <3>1, <4>1, SubSeqProperties
    <3> QED
      BY <1>2, <2>1, <3>2
  <2>2. CASE ~(last /\ Len(both) > MaxAgents)
    BY <1>6, <1>11, <2>2
  <2> QED
    BY <2>1, <2>2
<1>13. state \in SweepState
  <2> HIDE DEF kept, last, further
  <2> QED
    BY <1>2, <1>9, <1>12 DEF SweepState, Phases
<1>14. Held(state)
  <2>1. DOMAIN kept = 1 .. Len(kept)
    <3> HIDE DEF kept
    <3> QED
      BY <1>12, LenProperties
  <2>2. \A i \in 1 .. Len(kept) : i \in 1 .. Len(both)
    <3> HIDE DEF kept, last, both
    <3> QED
      BY <1>2, <1>11, <1>12
  <2> HIDE DEF state, kept, both, t
  <2>3. \A i \in DOMAIN kept : WasIn(t, kept[i], sweep[s].now)
    BY <1>7, <1>12, <2>1, <2>2
  <2> QED
    BY <1>4, <1>10, <2>3 DEF Held
<1>15. ASSUME sweep[s].quiet  PROVE ReadOf(state, roll)
  <2>1. Begins(sweep[s].collected, roll) /\ offset = Len(sweep[s].collected)
    BY <1>1, <1>15 DEF SyncInv, Exact, Reads, ReadOf
  <2>2. Begins(both, roll) /\ (items = << >> => offset = n)
    BY <1>6, <2>1
  <2>3. Len(both) <= n /\ \A i \in 1 .. Len(both) : both[i] = roll[i]
    BY <2>2 DEF Begins
  <2>4. further = Len(both)
    BY <1>6, <2>1
  <2>5. items = << >> => Len(both) = n
    BY <1>6, <2>1, <2>2
  <2> DEFINE b == Len(both)
             k == Len(kept)
  <2>6. /\ b \in Nat /\ n \in Nat /\ unserved \in Nat /\ MaxAgents \in Nat /\ b <= n
        /\ k = (IF last /\ b > MaxAgents THEN MaxAgents ELSE b)
        /\ last <=> (items = << >> \/ b >= n + unserved \/ b >= MaxAgents)
        /\ items = << >> => b = n
    BY <1>2, <1>5, <1>8, <1>11, <1>12, <2>3, <2>4, <2>5
  <2> HIDE DEF state, kept, both, further, last, n, b, k, items
  <2>7. k <= b /\ k <= n /\ (~last => k = b) /\ (last /\ n <= MaxAgents => k = n)
    BY <2>6
  <2>8. Begins(kept, roll)
    <3>1. \A i \in 1 .. k : i \in 1 .. b
      BY <2>6, <2>7
    <3> QED
      BY <1>12, <2>3, <2>7, <3>1 DEF Begins, n, k, b
  <2> QED
    BY <1>10, <2>4, <2>7, <2>8 DEF ReadOf, n, k, b
<1>16. Exact(state)
  <2> HIDE DEF state, roll
  <2> QED
    BY <1>10, <1>15 DEF Exact, roll
<1>17. (state.phase = "store" => company' = Met(s)) /\ (state.phase = "get" => company' = company)
  <2> HIDE DEF state, last
  <2> QED
    BY <1>1, <1>10 DEF Met
<1>18. state.phase \in {"get", "store"} /\ state.tenant = sweep[s].tenant
  <2> HIDE DEF state, last
  <2> QED
    BY <1>10
<1> HIDE DEF state
<1> QED
  BY <1>1, <1>13, <1>14, <1>16, <1>17, <1>18

(* What has been read of a quiet group has each agent once; all of them      *)
(* unless there are too many.                                                *)
LEMMA QuietReadIsGroup ==
  ASSUME SyncInv, NEW s \in Sweeps, Storing(s), sweep[s].quiet
  PROVE  /\ ~NamesOneTwice(sweep[s]) /\ Seen(sweep[s]) \subseteq group[sweep[s].tenant]
         /\ Len(sweep[s].collected) <= Cardinality(group[sweep[s].tenant])
         /\ Cardinality(group[sweep[s].tenant]) <= MaxAgents => Seen(sweep[s]) = group[sweep[s].tenant]
<1> DEFINE t       == sweep[s].tenant
           roll == InOrder(group[t])
           n       == Len(roll)
           read    == sweep[s].collected
           k       == Len(read)
           seen    == Seen(sweep[s])
<1>1. read \in Seq(Agents) /\ t \in Tenants
  BY DEF SyncInv, SyncTyped, SweepState, Held, Reads, Storing, Phases
<1>2. /\ n = Cardinality(group[t]) /\ n \in Nat /\ roll \in Seq(group[t])
      /\ \A i, j \in 1 .. n : i < j => roll[i] < roll[j]
      /\ \A i \in 1 .. n : roll[i] \in group[t]
      /\ \A a \in group[t] : \E i \in 1 .. n : roll[i] = a
  <2>1. /\ n = Cardinality(group[t]) /\ roll \in Seq(group[t])
        /\ \A i, j \in 1 .. n : i < j => roll[i] < roll[j]
        /\ \A i \in 1 .. n : roll[i] \in group[t]
        /\ \A a \in group[t] : \E i \in 1 .. n : roll[i] = a
    BY <1>1, ListingIsGroup DEF SyncInv
  <2> HIDE DEF roll
  <2> QED
    BY <2>1, LenProperties
<1>3. ReadOf(sweep[s], roll)
  BY DEF SyncInv, Exact, Reads, Storing, Phases
<1>4. k <= n /\ (\A i \in 1 .. k : read[i] = roll[i]) /\ (n <= MaxAgents => k = n)
  BY <1>3 DEF ReadOf, Begins, Storing
<1>5. seen = { read[i] : i \in DOMAIN read }
  BY DEF Seen
<1>6. k \in Nat /\ DOMAIN read = 1 .. k /\ read \in [1 .. k -> seen]
      /\ \A a \in seen : \E i \in 1 .. k : read[i] = a
  <2>1. k \in Nat /\ DOMAIN read = 1 .. k /\ read = [i \in 1 .. k |-> read[i]]
    <3> HIDE DEF read
    <3> QED
      BY <1>1, LenProperties
  <2> HIDE DEF read, k, seen
  <2> QED
    BY <1>5, <2>1
<1> HIDE DEF t, roll, n, read, k, seen
<1>7. \A i \in 1 .. k : i \in 1 .. n
  BY <1>2, <1>4, <1>6
<1>8. ASSUME NEW i \in 1 .. k, NEW j \in 1 .. k, read[i] = read[j]  PROVE i = j
  <2>1. i \in 1 .. n /\ j \in 1 .. n /\ roll[i] = roll[j] /\ roll[i] \in group[t]
    BY <1>2, <1>4, <1>7, <1>8
  <2>2. roll[i] \in Int
    <3>1. group[t] \in SUBSET Agents
      BY <1>1 DEF SyncInv, SyncTyped
    <3>2. Agents \subseteq Int
      BY AgentSyncAssumption
    <3> QED
      BY <2>1, <3>1, <3>2
  <2>3. (i < j => roll[i] < roll[j]) /\ (j < i => roll[j] < roll[i])
    BY <1>2, <2>1
  <2> QED
    BY <2>1, <2>2, <2>3
<1>9. Cardinality(seen) = k
  <2>1. read \in Surjection(1 .. k, seen)
    BY <1>6 DEF Surjection
  <2>2. read \in Injection(1 .. k, seen)
    BY <1>6, <1>8 DEF Injection, IsInjective
  <2>3. IsFiniteSet(1 .. k) /\ Cardinality(1 .. k) = k
    BY <1>6, FS_Interval
  <2> QED
    BY <2>1, <2>2, <2>3, FS_Surjection
<1>12. seen \subseteq group[t]
  <2> SUFFICES ASSUME NEW a \in seen  PROVE a \in group[t]
    OBVIOUS
  <2>1. PICK i \in 1 .. k : read[i] = a
    BY <1>6
  <2> QED
    BY <1>2, <1>4, <1>7, <2>1
<1>10. ASSUME n <= MaxAgents  PROVE seen = group[t]
  <2>1. k = n
    BY <1>4, <1>10
  <2>2. ASSUME NEW a \in group[t]  PROVE a \in seen
    <3>1. PICK i \in 1 .. n : roll[i] = a
      BY <1>2
    <3>2. read[i] = a /\ read[i] \in seen
      BY <1>4, <1>6, <2>1, <3>1
    <3> QED
      BY <3>2
  <2> QED
    BY <1>12, <2>2
<1>11. ~(Cardinality(seen) < k)
  BY <1>6, <1>9
<1> QED
  BY <1>2, <1>4, <1>10, <1>11, <1>12 DEF NamesOneTwice, t, n, read, k, seen

-----------------------------------------------------------------------------
(* Steps                                                                     *)

(* The invariant holds at first: there is no row and no sweep.               *)
LEMMA InitSyncInv ==
  ASSUME SyncInit  PROVE SyncInv
<1> USE AgentSyncAssumption
<1>1. \A s \in Sweeps : sweep[s] = Idle
  BY DEF SyncInit
<1>2. sweep \in [Sweeps -> SweepState]
  BY IdleIsState DEF SyncInit
<1>3. /\ agents \in [Tenants -> [Agents -> {Absent} \cup Nat]]
      /\ lastIn \in [Tenants -> [Agents -> {Absent} \cup Nat]]
      /\ \A t \in Tenants : \A a \in Agents : agents[t][a] = Absent
  BY DEF SyncInit, NoRows
<1>4. SyncTyped
  BY <1>2, <1>3 DEF SyncInit, SyncTyped
<1>5. CacheIsDated
  BY <1>3 DEF CacheIsDated, Cached
<1>6. \A s \in Sweeps : Held(sweep[s]) /\ Exact(sweep[s])
  BY <1>1, IdleIsState, NotReading
<1>7. Orderly
  BY <1>1, IdleIsState DEF Orderly, Apart, Swept, Storing
<1> QED
  BY <1>4, <1>5, <1>6, <1>7 DEF SyncInv

(* A step of a sweep that leaves the cache alone                             *)
LEMMA SweepKeeps ==
  ASSUME SyncInv, NEW s \in Sweeps, NEW state \in SweepState, Becomes(s, state), Held(state), Exact(state),
         UNCHANGED <<managers, active, agents>>, errors' \subseteq Tenants, company' \subseteq Sweeps, Orderly'
  PROVE  SyncInv'
<1>1. /\ sweep' \in [Sweeps -> SweepState] /\ sweep'[s] = state
      /\ \A q \in Sweeps : q # s => sweep'[q] = sweep[q]
      /\ \A q \in Sweeps : Held(sweep[q])' /\ Exact(sweep[q])'
  BY OneSweep DEF SyncInv, managers
<1>2. SyncTyped'
  BY <1>1 DEF SyncInv, SyncTyped, managers
<1>3. CacheIsDated'
  BY DEF SyncInv, CacheIsDated, Cached, WasIn, managers
<1> QED
  BY <1>1, <1>2, <1>3 DEF SyncInv

(* Whoever comes to store a tenant's rows, or leaves off, knows the others.  *)
LEMMA OrderKept ==
  ASSUME SyncInv, NEW s \in Sweeps, NEW state \in SweepState, Becomes(s, state), UNCHANGED agents,
         \/ state.phase \notin Phases /\ company \ {s} \subseteq company'
         \/ state.phase = "store" /\ state.tenant = sweep[s].tenant /\ company' = Met(s)
         \/ /\ state.phase = "prune" /\ Storing(s) /\ state.tenant = sweep[s].tenant /\ company' = company
         \/ /\ state.phase = "commit" /\ Storing(s) /\ state.tenant = sweep[s].tenant /\ company' = company
            /\ state.doomed = InCache(state.tenant) \ Seen(state)
  PROVE  Orderly'
<1>1. sweep' = [sweep EXCEPT ![s] = state] /\ sweep \in [Sweeps -> SweepState]
  BY DEF Becomes, SyncInv, SyncTyped
<1>2. sweep'[s] = state /\ \A q \in Sweeps : q # s => sweep'[q] = sweep[q]
  BY <1>1
<1>3. \A q \in Sweeps : Storing(q)' <=> sweep'[q].phase \in Phases
  BY DEF Storing, Phases
<1>4. \A q \in Sweeps : Storing(q) <=> sweep[q].phase \in Phases
  BY DEF Storing, Phases
<1>5. \A q \in Sweeps : q # s /\ q \in company => q \in company'
  BY DEF Met
<1>6. ASSUME NEW q \in Sweeps, NEW r \in Sweeps, q # r, Storing(q)', Storing(r)',
             sweep'[q].tenant = sweep'[r].tenant
      PROVE  q \in company'
  <2>1. CASE state.phase \notin Phases
    <3>1. q # s /\ r # s
      BY <1>2, <1>3, <1>6, <2>1
    <3>2. Storing(q) /\ Storing(r) /\ sweep[q].tenant = sweep[r].tenant
      BY <1>2, <1>3, <1>4, <1>6, <3>1
    <3> QED
      BY <1>5, <1>6, <3>1, <3>2 DEF SyncInv, Orderly, Apart
  <2>2. CASE state.phase = "store" /\ state.tenant = sweep[s].tenant /\ company' = Met(s)
    <3>1. CASE q = s
      <4>1. r \in Beside(s)
        BY <1>2, <1>3, <1>4, <1>6, <2>2, <3>1 DEF Beside
      <4> QED
        BY <2>2, <3>1, <4>1 DEF Met
    <3>2. CASE r = s
      <4>1. q \in Beside(s)
        BY <1>2, <1>3, <1>4, <1>6, <2>2, <3>2 DEF Beside
      <4> QED
        BY <2>2, <4>1 DEF Met
    <3>3. CASE q # s /\ r # s
      <4>1. Storing(q) /\ Storing(r) /\ sweep[q].tenant = sweep[r].tenant
        BY <1>2, <1>3, <1>4, <1>6, <3>3
      <4> QED
        BY <1>5, <1>6, <3>3, <4>1 DEF SyncInv, Orderly, Apart
    <3> QED
      BY <3>1, <3>2, <3>3
  <2>3. CASE Storing(s) /\ state.tenant = sweep[s].tenant /\ company' = company
    <3>1. Storing(q) /\ Storing(r) /\ sweep[q].tenant = sweep[r].tenant
      BY <1>2, <1>3, <1>4, <1>6, <2>3
    <3> QED
      BY <1>6, <2>3, <3>1 DEF SyncInv, Orderly, Apart
  <2> QED
    BY <2>1, <2>2, <2>3
<1>7. ASSUME NEW q \in Sweeps, sweep'[q].phase = "commit", q \notin company'
      PROVE  InCache(sweep'[q].tenant) \subseteq Seen(sweep'[q]) \cup sweep'[q].doomed
  <2>1. CASE q # s
    <3>1. Swept(q) /\ sweep'[q] = sweep[q] /\ q \notin company
      BY <1>2, <1>5, <1>7, <2>1 DEF SyncInv, Orderly
    <3> QED
      BY <1>7, <3>1 DEF Swept
  <2>2. CASE q = s
    BY <1>2, <1>7, <2>2 DEF Phases
  <2> QED
    BY <2>1, <2>2
<1>8. \A q \in Sweeps : Swept(q)'
  <2>1. \A q \in Sweeps : (InCache(sweep[q].tenant))' = InCache(sweep'[q].tenant) /\ (Seen(sweep[q]))' = Seen(sweep'[q])
    BY DEF InCache, Seen
  <2> QED
    BY <1>7, <2>1 DEF Swept
<1>9. Apart'
  BY <1>6 DEF Apart
<1> QED
  BY <1>8, <1>9 DEF Orderly

(* The states a sweep passes through between two groups                      *)
LEMMA BetweenGroups ==
  ASSUME NEW left \in SUBSET Tenants, NEW faulty \in SUBSET Tenants,
         NEW state, state = [Idle EXCEPT !.phase = "next", !.left = left, !.faulty = faulty]
  PROVE  state \in SweepState /\ Held(state) /\ Exact(state) /\ state.phase = "next"
<1>1. state \in SweepState /\ state.phase = "next"
  BY IdleIsState DEF SweepState, Phases
<1>2. state.phase \in {"idle", "next"}
  BY <1>1
<1>3. Held(state) /\ Exact(state)
  BY <1>2 DEF Held, Exact, Reads, Phases
<1> QED
  BY <1>1, <1>3

(* A statement more of what a sweep stores                                   *)
After(s, phase, doomed) == [sweep[s] EXCEPT !.phase = phase, !.doomed = doomed]

(* It keeps what the sweep has read.                                         *)
LEMMA StatementKeeps ==
  ASSUME SyncInv, NEW s \in Sweeps, Storing(s), NEW phase \in Phases, NEW doomed \in SUBSET Agents,
         NEW state \in SweepState, state = After(s, phase, doomed)
  PROVE  /\ state \in SweepState /\ Held(state) /\ Exact(state)
         /\ state.phase = phase /\ state.tenant = sweep[s].tenant /\ state.doomed = doomed
         /\ Seen(state) = Seen(sweep[s])
<1>1. sweep[s] \in SweepState /\ Held(sweep[s]) /\ Exact(sweep[s])
  BY DEF SyncInv, SyncTyped
<1>2. /\ state \in SweepState /\ state.phase = phase /\ state.doomed = doomed
      /\ state.tenant = sweep[s].tenant /\ state.now = sweep[s].now /\ state.quiet = sweep[s].quiet
      /\ state.collected = sweep[s].collected /\ state.offset = sweep[s].offset
  BY <1>1 DEF SweepState, After
<1>3. Reads(sweep[s]) /\ Reads(state) /\ sweep[s].phase # "get" /\ state.phase # "get"
  BY <1>2 DEF Reads, Storing, Phases
<1>4. Held(state)
  BY <1>1, <1>2, <1>3 DEF Held
<1>5. Exact(state)
  BY <1>1, <1>2, <1>3 DEF Exact, ReadOf
<1> QED
  BY <1>2, <1>4, <1>5 DEF Seen

(* What is stored was in the group when its reading began, or later.         *)
LEMMA CommitKeeps ==
  ASSUME SyncInv, NEW s \in Sweeps, CommitAgents(s)
  PROVE  /\ SyncInv' /\ sweep'[s].phase = "next"
         /\ \A q \in Sweeps : q # s => sweep'[q].phase = sweep[q].phase
<1> DEFINE state == sweep[s]
           t     == state.tenant
           after == Onward(state)
<1>1. /\ state.phase = "commit"
      /\ agents' = [agents EXCEPT ![t] = [a \in Agents |-> IF a \in Seen(state) THEN state.now
                                                         ELSE IF a \in state.doomed THEN Absent
                                                         ELSE agents[t][a]]]
      /\ errors' = IF t \in state.faulty THEN errors \ {t} ELSE errors
      /\ sweep' = [q \in Sweeps |->
                     IF q = s THEN after
                     ELSE [sweep[q] EXCEPT !.doomed = IF q \in Beside(s) THEN sweep[q].doomed \ state.doomed
                                                      ELSE sweep[q].doomed]]
      /\ company' = company \ {s}
      /\ UNCHANGED <<group, changes, unserved, lastIn, active>>
  BY DEF CommitAgents, Stamp, managers
<1>2. state \in SweepState /\ agents \in [Tenants -> [Agents -> {Absent} \cup Nat]]
  BY DEF SyncInv, SyncTyped
<1>3. state.now \in Nat /\ state.left \in SUBSET Tenants /\ state.faulty \in SUBSET Tenants
  BY <1>2 DEF SweepState
<1>4. /\ t \in Tenants /\ state.now <= changes
      /\ \A a \in Seen(state) : WasIn(t, a, state.now)
  <2>1. /\ t \in Tenants /\ state.now <= changes
        /\ \A i \in DOMAIN state.collected : WasIn(t, state.collected[i], state.now)
    BY <1>1 DEF SyncInv, Held, Reads, Phases
  <2> QED
    BY <2>1 DEF Seen
<1>5. after \in SweepState /\ Held(after) /\ Exact(after) /\ after.phase = "next"
  BY <1>3, BetweenGroups DEF Onward
<1> HIDE DEF after
<1>6. ASSUME NEW q \in Sweeps, q # s
      PROVE  /\ sweep'[q] \in SweepState /\ Held(sweep'[q]) /\ Exact(sweep'[q])
             /\ sweep'[q].phase = sweep[q].phase /\ sweep'[q].tenant = sweep[q].tenant
             /\ Seen(sweep'[q]) = Seen(sweep[q])
             /\ q \notin Beside(s) => sweep'[q].doomed = sweep[q].doomed
  <2>1. sweep[q] \in SweepState /\ Held(sweep[q]) /\ Exact(sweep[q])
    BY DEF SyncInv, SyncTyped
  <2>2. PICK doomed \in SUBSET Agents : /\ sweep'[q] = [sweep[q] EXCEPT !.doomed = doomed]
                                        /\ q \notin Beside(s) => doomed = sweep[q].doomed
    <3>1. sweep'[q] = [sweep[q] EXCEPT !.doomed = IF q \in Beside(s) THEN sweep[q].doomed \ state.doomed
                                                  ELSE sweep[q].doomed]
      BY <1>1, <1>6
    <3>2. sweep[q].doomed \in SUBSET Agents
      BY <2>1 DEF SweepState
    <3> HIDE DEF state
    <3> QED
      BY <3>1, <3>2
  <2>3. /\ sweep'[q] \in SweepState /\ sweep'[q].phase = sweep[q].phase /\ sweep'[q].tenant = sweep[q].tenant
        /\ sweep'[q].now = sweep[q].now /\ sweep'[q].quiet = sweep[q].quiet /\ sweep'[q].doomed = doomed
        /\ sweep'[q].collected = sweep[q].collected /\ sweep'[q].offset = sweep[q].offset
    BY <2>1, <2>2 DEF SweepState
  <2> QED
    BY <2>1, <2>2, <2>3 DEF Held, Exact, Reads, ReadOf, Seen
<1>7. sweep' \in [Sweeps -> SweepState] /\ sweep'[s] = after
  BY <1>1, <1>5, <1>6
<1>8. \A q \in Sweeps : Held(sweep[q])' /\ Exact(sweep[q])'
  <2>1. \A q \in Sweeps : Held(sweep'[q]) /\ Exact(sweep'[q])
    BY <1>5, <1>6, <1>7
  <2> QED
    BY <1>1, <1>7, <2>1, ReadingsStay
<1>9. /\ agents' \in [Tenants -> [Agents -> {Absent} \cup Nat]]
      /\ \A u \in Tenants : u # t => agents'[u] = agents[u]
      /\ \A a \in Agents : agents'[t][a] = IF a \in Seen(state) THEN state.now
                                           ELSE IF a \in state.doomed THEN Absent ELSE agents[t][a]
  BY <1>1, <1>2, <1>3, <1>4
<1>10. ASSUME NEW u \in Tenants, NEW a \in Agents, agents'[u][a] # Absent
       PROVE  agents'[u][a] <= changes /\ WasIn(u, a, agents'[u][a])
  <2>1. CASE u = t /\ a \in Seen(state)
    BY <1>4, <1>9, <1>10, <2>1
  <2>2. CASE u # t \/ a \notin Seen(state)
    <3>1. agents'[u][a] = agents[u][a]
      BY <1>9, <1>10, <2>2
    <3> QED
      BY <1>10, <3>1 DEF SyncInv, CacheIsDated, Cached
  <2> QED
    BY <2>1, <2>2
<1>11. CacheIsDated'
  BY <1>1, <1>10 DEF CacheIsDated, Cached, WasIn
<1>12. Orderly'
  <2>1. ASSUME NEW q \in Sweeps, NEW r \in Sweeps, q # r, Storing(q)', Storing(r)',
               sweep'[q].tenant = sweep'[r].tenant
        PROVE  q \in company'
    <3>1. q # s /\ r # s
      BY <1>5, <1>7, <2>1 DEF Storing
    <3>2. Storing(q) /\ Storing(r) /\ sweep[q].tenant = sweep[r].tenant
      BY <1>6, <2>1, <3>1 DEF Storing
    <3> QED
      BY <1>1, <2>1, <3>1, <3>2 DEF SyncInv, Orderly, Apart
  <2>2. ASSUME NEW q \in Sweeps, sweep'[q].phase = "commit", q \notin company'
        PROVE  { a \in Agents : agents'[sweep'[q].tenant][a] # Absent } \subseteq Seen(sweep'[q]) \cup sweep'[q].doomed
    <3>1. q # s /\ q \notin company /\ sweep[q].phase = "commit"
      BY <1>1, <1>5, <1>6, <1>7, <2>2
    <3>2. sweep[q].tenant # t
      <4>1. Storing(q) /\ Storing(s)
        BY <1>1, <3>1 DEF Storing
      <4> QED
        BY <3>1, <4>1 DEF SyncInv, Orderly, Apart
    <3>3. q \notin Beside(s) /\ sweep[q].tenant \in Tenants
      BY <3>1, <3>2 DEF Beside, SyncInv, Held, Reads, Phases
    <3>4. agents'[sweep[q].tenant] = agents[sweep[q].tenant]
      BY <1>9, <3>2, <3>3
    <3>5. InCache(sweep[q].tenant) \subseteq Seen(sweep[q]) \cup sweep[q].doomed
      BY <3>1 DEF SyncInv, Orderly, Swept
    <3>6. /\ sweep'[q].tenant = sweep[q].tenant /\ sweep'[q].doomed = sweep[q].doomed
          /\ Seen(sweep'[q]) = Seen(sweep[q])
      BY <1>6, <3>1, <3>3 DEF Seen
    <3>7. { a \in Agents : agents'[sweep'[q].tenant][a] # Absent } = InCache(sweep[q].tenant)
      BY <3>4, <3>6 DEF InCache
    <3> QED
      BY <3>5, <3>6, <3>7
  <2>3. \A q \in Sweeps : Swept(q)'
    <3>1. \A q \in Sweeps :
            /\ (InCache(sweep[q].tenant))' = { a \in Agents : agents'[sweep'[q].tenant][a] # Absent }
            /\ (Seen(sweep[q]))' = Seen(sweep'[q])
      BY DEF InCache, Seen
    <3> QED
      BY <2>2, <3>1 DEF Swept
  <2>4. Apart'
    BY <2>1 DEF Apart
  <2> QED
    BY <2>3, <2>4 DEF Orderly
<1>13. SyncTyped'
  <2>1. errors' \subseteq Tenants /\ company' \subseteq Sweeps
    BY <1>1 DEF SyncInv, SyncTyped
  <2> QED
    BY <1>1, <1>7, <1>9, <2>1 DEF SyncInv, SyncTyped
<1> QED
  BY <1>5, <1>6, <1>7, <1>8, <1>11, <1>12, <1>13 DEF SyncInv

(* A sync that nobody disturbs leaves the group.                             *)
LEMMA CommitIsExact ==
  ASSUME SyncInv, NEW s \in Sweeps, CommitAgents(s), Undisturbed(s),
         Cardinality(group[sweep[s].tenant]) <= MaxAgents
  PROVE  { a \in Agents : agents'[sweep[s].tenant][a] # Absent } = group[sweep[s].tenant]
<1> DEFINE state == sweep[s]
           t     == state.tenant
<1>1. /\ state.phase = "commit"
      /\ agents' = [agents EXCEPT ![t] = [a \in Agents |-> IF a \in Seen(state) THEN state.now
                                                         ELSE IF a \in state.doomed THEN Absent
                                                         ELSE agents[t][a]]]
  BY DEF CommitAgents, Stamp
<1>2. /\ t \in Tenants /\ state.now \in Nat /\ Absent \notin Nat /\ group[t] \in SUBSET Agents
      /\ agents \in [Tenants -> [Agents -> {Absent} \cup Nat]]
  BY <1>1, AgentSyncAssumption DEF SyncInv, SyncTyped, SweepState, Held, Reads, Phases
<1>3. Seen(state) = group[t]
  BY <1>1, QuietReadIsGroup DEF Storing, Undisturbed
<1>4. \A a \in Agents : agents[t][a] # Absent => a \in Seen(state) \cup state.doomed
  BY <1>1 DEF Undisturbed, SyncInv, Orderly, Swept, InCache
<1>5. \A a \in Agents : agents'[t][a] = IF a \in Seen(state) THEN state.now
                                       ELSE IF a \in state.doomed THEN Absent ELSE agents[t][a]
  BY <1>1, <1>2
<1> HIDE DEF state, t
<1>6. { a \in Agents : agents'[t][a] # Absent } = group[t]
  BY <1>2, <1>3, <1>4, <1>5
<1> QED
  BY <1>6 DEF t, state

(* A sweep that breaks off was disturbed, or its group is not one that is    *)
(* taken.                                                                    *)
LEMMA RaiseHasReason ==
  ASSUME SyncInv, NEW s \in Sweeps, Raise(s), Undisturbed(s)
  PROVE  group[sweep[s].tenant] \cap NoAddress # {} \/ Cardinality(group[sweep[s].tenant]) > MaxRows
<1>1. CASE sweep[s].phase = "store" /\ Refused(sweep[s])
  <2>1. /\ ~NamesOneTwice(sweep[s]) /\ Seen(sweep[s]) \subseteq group[sweep[s].tenant]
        /\ Len(sweep[s].collected) <= Cardinality(group[sweep[s].tenant])
    BY <1>1, QuietReadIsGroup DEF Storing, Undisturbed
  <2>2. CASE Len(sweep[s].collected) > MaxRows
    <3>1. sweep[s].tenant \in Tenants /\ sweep[s].collected \in Seq(Agents)
      BY <1>1 DEF SyncInv, SyncTyped, SweepState, Held, Reads, Phases
    <3>2. IsFiniteSet(group[sweep[s].tenant])
      BY <3>1 DEF SyncInv, SyncTyped
    <3>3. PICK k \in Nat, c \in Nat : k = Len(sweep[s].collected) /\ c = Cardinality(group[sweep[s].tenant])
      BY <3>1, <3>2, LenProperties, FS_CardinalityType
    <3> QED
      BY <2>1, <2>2, <3>3, AgentSyncAssumption
  <2>3. CASE Seen(sweep[s]) \cap NoAddress # {}
    BY <2>1, <2>3
  <2> QED
    BY <1>1, <2>1, <2>2, <2>3 DEF Refused
<1>2. CASE Storing(s) /\ Deadlocked(s)
  <2>1. PICK other \in Beside(s) : other \in Sweeps
    BY <1>2 DEF Deadlocked, Beside
  <2>2. other # s /\ Storing(other) /\ sweep[other].tenant = sweep[s].tenant
    BY <2>1 DEF Beside
  <2>3. s \in company
    BY <1>2, <2>1, <2>2 DEF SyncInv, Orderly, Apart
  <2> QED
    BY <2>3 DEF Undisturbed
<1> QED
  BY <1>1, <1>2 DEF Raise

(* A group that changes keeps what is known of its past, and disturbs the    *)
(* sweeps that read it.                                                      *)
LEMMA RegroupKeeps ==
  ASSUME SyncInv, NEW t \in Tenants, NEW a \in Agents, Regroup(t, a)
  PROVE  SyncInv'
<1> USE AgentSyncAssumption
<1>1. /\ changes' = changes + 1 /\ changes \in Nat
      /\ group' = [group EXCEPT ![t] = IF a \in group[t] THEN group[t] \ {a} ELSE group[t] \cup {a}]
      /\ lastIn' = [lastIn EXCEPT ![t] = [lastIn[t] EXCEPT ![a] = IF a \in group[t] THEN changes ELSE lastIn[t][a]]]
      /\ sweep' = [s \in Sweeps |-> IF sweep[s].tenant = t THEN [sweep[s] EXCEPT !.quiet = FALSE] ELSE sweep[s]]
      /\ UNCHANGED <<active, agents, errors, unserved, company>>
  BY DEF Regroup, SyncInv, SyncTyped
<1>2. /\ group \in [Tenants -> SUBSET Agents] /\ lastIn \in [Tenants -> [Agents -> {Absent} \cup Nat]]
      /\ sweep \in [Sweeps -> SweepState] /\ \A u \in Tenants : IsFiniteSet(group[u])
  BY DEF SyncInv, SyncTyped
<1>3. /\ group' \in [Tenants -> SUBSET Agents]
      /\ \A u \in Tenants : u # t => group'[u] = group[u]
      /\ group'[t] = IF a \in group[t] THEN group[t] \ {a} ELSE group[t] \cup {a}
  BY <1>1, <1>2
<1>4. /\ lastIn' \in [Tenants -> [Agents -> {Absent} \cup Nat]]
      /\ \A u \in Tenants, b \in Agents : u # t \/ b # a => lastIn'[u][b] = lastIn[u][b]
      /\ lastIn'[t][a] = IF a \in group[t] THEN changes ELSE lastIn[t][a]
  BY <1>1, <1>2
<1>5. \A u \in Tenants : IsFiniteSet(group'[u])
  <2>1. IsFiniteSet(group[t] \ {a}) /\ IsFiniteSet(group[t] \cup {a})
    BY <1>2, FS_AddElement, FS_RemoveElement
  <2> QED
    BY <1>2, <1>3, <2>1
<1>6. ASSUME NEW s \in Sweeps
      PROVE  /\ sweep'[s] \in SweepState
             /\ sweep'[s].phase = sweep[s].phase /\ sweep'[s].tenant = sweep[s].tenant
             /\ sweep'[s].collected = sweep[s].collected /\ sweep'[s].now = sweep[s].now
             /\ sweep'[s].doomed = sweep[s].doomed
             /\ sweep'[s].quiet => sweep'[s] = sweep[s] /\ sweep[s].tenant # t
  <2>1. sweep[s] \in SweepState
    BY <1>2
  <2>2. CASE sweep[s].tenant = t
    <3>1. sweep'[s] = [sweep[s] EXCEPT !.quiet = FALSE]
      BY <1>1, <2>2
    <3> QED
      BY <2>1, <3>1 DEF SweepState
  <2>3. CASE sweep[s].tenant # t
    BY <1>1, <2>1, <2>3
  <2> QED
    BY <2>2, <2>3
<1>7. SyncTyped'
  <2>1. sweep' \in [Sweeps -> SweepState]
    BY <1>1, <1>6
  <2>2. changes' \in Nat /\ unserved' \in Nat /\ active' \subseteq Tenants /\ errors' \subseteq Tenants
        /\ company' \subseteq Sweeps
    BY <1>1 DEF SyncInv, SyncTyped
  <2>3. agents' \in [Tenants -> [Agents -> {Absent} \cup Nat]]
    BY <1>1 DEF SyncInv, SyncTyped
  <2> QED
    BY <1>3, <1>4, <1>5, <2>1, <2>2, <2>3 DEF SyncTyped
<1>8. ASSUME NEW u \in Tenants, NEW b \in Agents, NEW at \in Nat, at <= changes, WasIn(u, b, at)
      PROVE  WasIn(u, b, at)' /\ at <= changes'
  <2>1. CASE u = t /\ b = a
    <3>1. CASE a \in group[t]
      BY <1>1, <1>4, <1>8, <2>1, <3>1 DEF WasIn
    <3>2. CASE a \notin group[t]
      BY <1>1, <1>3, <1>8, <2>1, <3>2 DEF WasIn
    <3> QED
      BY <3>1, <3>2
  <2>2. CASE u # t \/ b # a
    <3>1. lastIn'[u][b] = lastIn[u][b] /\ (b \in group[u] => b \in group'[u])
      BY <1>3, <1>4, <2>2
    <3> QED
      BY <1>1, <1>8, <3>1 DEF WasIn
  <2> QED
    BY <2>1, <2>2
<1>9. CacheIsDated'
  <2>1. ASSUME NEW u \in Tenants, NEW b \in Agents, agents[u][b] # Absent
        PROVE  agents[u][b] <= changes' /\ WasIn(u, b, agents[u][b])'
    <3>1. agents[u][b] \in Nat /\ agents[u][b] <= changes /\ WasIn(u, b, agents[u][b])
      BY <2>1 DEF SyncInv, SyncTyped, CacheIsDated, Cached
    <3>2. PICK at \in Nat : at = agents[u][b]
      BY <3>1
    <3>3. WasIn(u, b, at)' /\ at <= changes'
      BY <1>8, <3>1, <3>2
    <3> QED
      BY <1>1, <3>2, <3>3
  <2> QED
    BY <1>1, <2>1 DEF CacheIsDated, Cached, WasIn
<1>10. ASSUME NEW s \in Sweeps  PROVE Held(sweep[s])'
  <2> SUFFICES ASSUME Reads(sweep[s])
               PROVE  /\ sweep[s].tenant \in Tenants /\ sweep[s].now <= changes'
                      /\ \A i \in DOMAIN sweep[s].collected :
                           WasIn(sweep[s].tenant, sweep[s].collected[i], sweep[s].now)'
    BY <1>6 DEF Held, Reads, WasIn
  <2>1. /\ sweep[s].tenant \in Tenants /\ sweep[s].now <= changes /\ sweep[s].now \in Nat
        /\ \A i \in DOMAIN sweep[s].collected :
             /\ sweep[s].collected[i] \in Agents
             /\ WasIn(sweep[s].tenant, sweep[s].collected[i], sweep[s].now)
    BY DEF SyncInv, SyncTyped, SweepState, Held
  <2> QED
    BY <1>1, <1>8, <2>1
<1>11. ASSUME NEW s \in Sweeps  PROVE Exact(sweep[s])'
  <2> SUFFICES ASSUME Reads(sweep[s])', sweep'[s].quiet
               PROVE  ReadOf(sweep[s], InOrder(group[sweep[s].tenant]))'
    BY DEF Exact
  <2>1. sweep'[s] = sweep[s] /\ sweep[s].tenant # t /\ Reads(sweep[s]) /\ sweep[s].quiet
    BY <1>6 DEF Reads
  <2>2. sweep[s].tenant \in Tenants /\ ReadOf(sweep[s], InOrder(group[sweep[s].tenant]))
    BY <2>1 DEF SyncInv, Held, Exact
  <2>3. group'[sweep[s].tenant] = group[sweep[s].tenant]
    BY <1>3, <2>1, <2>2
  <2> QED
    BY <2>1, <2>2, <2>3 DEF ReadOf, Begins
<1>12. Orderly'
  <2>1. \A s \in Sweeps : (Storing(s)' <=> Storing(s)) /\ sweep'[s].tenant = sweep[s].tenant
    BY <1>6 DEF Storing
  <2>2. Apart'
    BY <1>1, <2>1 DEF SyncInv, Orderly, Apart
  <2>3. ASSUME NEW s \in Sweeps  PROVE Swept(s)'
    <3>1. Swept(s)
      BY DEF SyncInv, Orderly
    <3>2. (InCache(sweep[s].tenant))' = InCache(sweep[s].tenant) /\ (Seen(sweep[s]))' = Seen(sweep[s])
      BY <1>1, <1>6 DEF InCache, Seen
    <3> QED
      BY <1>1, <1>6, <3>1, <3>2 DEF Swept
  <2> QED
    BY <2>2, <2>3 DEF Orderly
<1> QED
  BY <1>7, <1>9, <1>10, <1>11, <1>12 DEF SyncInv

(* What a sweep leaves when it goes on, and why it breaks off               *)
Leaves(s) ==
  LET t == sweep[s].tenant
  IN /\ sweep[s].phase = "commit" /\ sweep'[s].phase = "next" /\ Undisturbed(s)
        /\ Cardinality(group[t]) <= MaxAgents
          => { a \in Agents : agents'[t][a] # Absent } = group[t]
     /\ Storing(s) /\ sweep'[s].phase = "idle" /\ Undisturbed(s)
          => group[t] \cap NoAddress # {} \/ Cardinality(group[t]) > MaxRows

(* Every step keeps the invariant.                                           *)
LEMMA NextSyncInv ==
  ASSUME SyncInv, [SyncNext]_syncVars
  PROVE  /\ SyncInv'
         /\ \A s \in Sweeps : Leaves(s)
<1> DEFINE Steady == \A s \in Sweeps : Storing(s) => sweep'[s].phase \in Phases
<1>1. ASSUME Steady  PROVE \A s \in Sweeps : Leaves(s)
  BY <1>1 DEF Leaves, Phases, Storing
<1>2. ASSUME NEW s \in Sweeps
      PROVE  /\ sweep[s] \in SweepState /\ sweep[s].left \in SUBSET Tenants /\ sweep[s].faulty \in SUBSET Tenants
             /\ sweep[s].doomed \in SUBSET Agents
  BY DEF SyncInv, SyncTyped, SweepState
<1>3. errors \subseteq Tenants /\ company \subseteq Sweeps /\ sweep \in [Sweeps -> SweepState]
  BY DEF SyncInv, SyncTyped
<1>4. ASSUME NEW s \in Sweeps, NEW state \in SweepState, Becomes(s, state), Held(state), Exact(state),
             UNCHANGED <<managers, active, agents>>, errors' \subseteq Tenants, company' = company,
             state.phase \notin Phases, ~Storing(s)
      PROVE  SyncInv' /\ \A q \in Sweeps : Leaves(q)
  <2>1. Orderly'
    BY <1>4, OrderKept
  <2>2. SyncInv'
    BY <1>3, <1>4, <2>1, SweepKeeps
  <2>3. \A q \in Sweeps : q # s => sweep'[q] = sweep[q]
    BY <1>3, <1>4 DEF Becomes
  <2>4. Steady
    BY <1>4, <2>3 DEF Storing, Phases
  <2> QED
    BY <1>1, <2>2, <2>4
<1> HIDE DEF Steady
<1>5. ASSUME NEW s \in Sweeps, NEW tenants \in SUBSET Tenants, SyncAll(s, tenants)
      PROVE  SyncInv' /\ \A q \in Sweeps : Leaves(q)
  <2> DEFINE state == [Idle EXCEPT !.phase = "next", !.left = tenants, !.faulty = errors]
  <2>1. Becomes(s, state) /\ UNCHANGED <<managers, active, agents, errors, company>> /\ ~Storing(s)
    BY <1>5, IdleIsState DEF SyncAll, Storing
  <2>2. state \in SweepState /\ Held(state) /\ Exact(state) /\ state.phase = "next"
    BY <1>3, BetweenGroups
  <2> HIDE DEF state
  <2> QED
    BY <1>3, <1>4, <2>1, <2>2 DEF Phases
<1>6. ASSUME NEW s \in Sweeps, NEW t \in Tenants, SyncTenant(s, t)
      PROVE  SyncInv' /\ \A q \in Sweeps : Leaves(q)
  <2> DEFINE state == [Idle EXCEPT !.phase = "get", !.left = sweep[s].left \ {t}, !.faulty = sweep[s].faulty,
                                  !.tenant = t, !.now = changes]
  <2>1. Becomes(s, state) /\ UNCHANGED <<managers, active, agents, errors, company>> /\ ~Storing(s)
    BY <1>6 DEF SyncTenant, Storing
  <2>2. changes \in Nat /\ sweep[s].left \ {t} \in SUBSET Tenants
    BY <1>2 DEF SyncInv, SyncTyped
  <2>3. /\ state \in SweepState /\ state.phase = "get" /\ state.tenant = t /\ state.now = changes
        /\ state.collected = << >> /\ state.offset = 0
    BY <1>2, <2>2, IdleIsState DEF SweepState
  <2> HIDE DEF state
  <2>4. Held(state)
    BY <2>2, <2>3 DEF Held
  <2>5. Exact(state)
    <3>1. Len(InOrder(group[t])) \in Nat
      <4>1. InOrder(group[t]) \in Seq(Agents)
        BY ListingIsGroup DEF SyncInv
      <4> QED
        BY <4>1, LenProperties
    <3> QED
      BY <2>3, <3>1 DEF Exact, ReadOf, Begins
  <2> QED
    BY <1>3, <1>4, <2>1, <2>3, <2>4, <2>5 DEF Phases
<1>7. ASSUME NEW s \in Sweeps, GetPage(s)  PROVE SyncInv' /\ \A q \in Sweeps : Leaves(q)
  <2>1. ~Storing(s) /\ UNCHANGED <<managers, active, agents, errors>>
    BY <1>7 DEF GetPage, Storing
  <2>2. PICK state \in SweepState :
          /\ Becomes(s, state) /\ Held(state) /\ Exact(state)
          /\ state.phase \in {"get", "store"} /\ state.tenant = sweep[s].tenant
          /\ state.phase = "store" => company' = Met(s)
          /\ state.phase = "get" => company' = company
    BY <1>7, PageKeeps
  <2>3. Orderly'
    BY <2>1, <2>2, OrderKept DEF Phases
  <2>4. company' \subseteq Sweeps
    BY <1>3, <2>2 DEF Met, Beside
  <2>5. SyncInv'
    BY <1>3, <2>1, <2>2, <2>3, <2>4, SweepKeeps
  <2>6. Steady
    BY <1>3, <2>1, <2>2 DEF Steady, Becomes, Storing, Phases
  <2> QED
    BY <1>1, <2>5, <2>6
<1>8. ASSUME NEW s \in Sweeps, ManagerError(s)  PROVE SyncInv' /\ \A q \in Sweeps : Leaves(q)
  <2> DEFINE state == Onward(sweep[s])
  <2>1. Becomes(s, state) /\ UNCHANGED <<managers, active, agents, company>> /\ ~Storing(s)
    BY <1>8 DEF ManagerError, Storing
  <2>2. state \in SweepState /\ Held(state) /\ Exact(state) /\ state.phase = "next"
    BY <1>2, BetweenGroups DEF Onward
  <2>3. errors' \subseteq Tenants
    <3>1. sweep[s].tenant \in Tenants
      BY <1>8 DEF ManagerError, SyncInv, Held, Reads
    <3> QED
      BY <1>3, <1>8, <3>1 DEF ManagerError
  <2> HIDE DEF state
  <2> QED
    BY <1>4, <2>1, <2>2, <2>3 DEF Phases
<1>9. ASSUME NEW s \in Sweeps, Storing(s), NEW phase \in Phases, NEW doomed \in SUBSET Agents,
             Becomes(s, [sweep[s] EXCEPT !.phase = phase, !.doomed = doomed]),
             phase = "prune" \/ (phase = "commit" /\ doomed = InCache(sweep[s].tenant) \ Seen(sweep[s])),
             UNCHANGED <<managers, active, agents, errors, company>>
      PROVE  SyncInv' /\ \A q \in Sweeps : Leaves(q)
  <2> DEFINE state == [sweep[s] EXCEPT !.phase = phase, !.doomed = doomed]
  <2>0. state = After(s, phase, doomed) /\ Becomes(s, state)
    BY <1>9 DEF After
  <2> HIDE DEF state
  <2>1. state \in SweepState
    <3>1. sweep[s] \in SweepState
      BY <1>9 DEF SyncInv, SyncTyped
    <3> QED
      BY <1>9, <2>0, <3>1 DEF SweepState, Phases, After
  <2>6. /\ state \in SweepState /\ Held(state) /\ Exact(state)
        /\ state.phase = phase /\ state.tenant = sweep[s].tenant /\ state.doomed = doomed
        /\ Seen(state) = Seen(sweep[s])
    BY <1>9, <2>0, <2>1, StatementKeeps
  <2>2. Becomes(s, state)
    BY <2>0
  <2>3. Orderly'
    BY <1>9, <2>1, <2>6, <2>2, OrderKept
  <2>4. SyncInv'
    BY <1>3, <1>9, <2>1, <2>6, <2>2, <2>3, SweepKeeps
  <2>5. Steady
    BY <1>3, <1>9, <2>1, <2>6, <2>2 DEF Steady, Becomes, Storing, Phases
  <2> QED
    BY <1>1, <2>4, <2>5
<1>10. ASSUME NEW s \in Sweeps, UpsertAgents(s)  PROVE SyncInv' /\ \A q \in Sweeps : Leaves(q)
  <2>1. /\ Storing(s) /\ Becomes(s, [sweep[s] EXCEPT !.phase = "prune"])
        /\ UNCHANGED <<managers, active, agents, errors, company>>
    BY <1>10 DEF UpsertAgents, Storing
  <2>2. [sweep[s] EXCEPT !.phase = "prune"] = [sweep[s] EXCEPT !.phase = "prune", !.doomed = sweep[s].doomed]
    BY <1>2 DEF SweepState
  <2> QED
    BY <1>2, <1>9, <2>1, <2>2 DEF Phases
<1>11. ASSUME NEW s \in Sweeps, PruneAgents(s)  PROVE SyncInv' /\ \A q \in Sweeps : Leaves(q)
  <2> DEFINE doomed == InCache(sweep[s].tenant) \ Seen(sweep[s])
  <2>1. /\ Storing(s) /\ Becomes(s, [sweep[s] EXCEPT !.phase = "commit", !.doomed = doomed])
        /\ UNCHANGED <<managers, active, agents, errors, company>>
    BY <1>11 DEF PruneAgents, Storing, InCache
  <2>2. doomed \in SUBSET Agents
    BY DEF InCache
  <2>3. doomed = InCache(sweep[s].tenant) \ Seen(sweep[s])
    OBVIOUS
  <2> HIDE DEF doomed
  <2> QED
    BY <1>9, <2>1, <2>2, <2>3 DEF Phases
<1>12. ASSUME NEW s \in Sweeps, CommitAgents(s)  PROVE SyncInv' /\ \A q \in Sweeps : Leaves(q)
  <2>1. /\ SyncInv' /\ sweep'[s].phase = "next" /\ sweep[s].phase = "commit"
        /\ \A q \in Sweeps : q # s => sweep'[q].phase = sweep[q].phase
    BY <1>12, CommitKeeps DEF CommitAgents
  <2>2. Leaves(s)
    BY <1>12, <2>1, CommitIsExact DEF Leaves
  <2>3. \A q \in Sweeps : q # s => Leaves(q)
    BY <2>1 DEF Leaves, Storing
  <2> QED
    BY <2>1, <2>2, <2>3
<1>13. ASSUME NEW s \in Sweeps, Raise(s)  PROVE SyncInv' /\ \A q \in Sweeps : Leaves(q)
  <2>1. /\ Becomes(s, Idle) /\ UNCHANGED <<managers, active, agents, errors>> /\ company' = company \ {s}
        /\ Idle.phase = "idle"
    BY <1>13, IdleIsState DEF Raise
  <2>2. Idle \in SweepState /\ Held(Idle) /\ Exact(Idle)
    BY IdleIsState, NotReading
  <2>3. Orderly'
    BY <2>1, <2>2, OrderKept DEF Phases
  <2>4. SyncInv'
    BY <1>3, <2>1, <2>2, <2>3, SweepKeeps
  <2>5. sweep'[s].phase = "idle" /\ \A q \in Sweeps : q # s => sweep'[q] = sweep[q]
    BY <1>3, <2>1 DEF Becomes
  <2>6. Leaves(s)
    BY <1>13, <2>5, RaiseHasReason DEF Leaves
  <2>7. \A q \in Sweeps : q # s => Leaves(q)
    BY <2>5 DEF Leaves, Storing
  <2> QED
    BY <2>4, <2>6, <2>7
<1>14. ASSUME NEW s \in Sweeps, Finish(s)  PROVE SyncInv' /\ \A q \in Sweeps : Leaves(q)
  <2>1. /\ Becomes(s, Idle) /\ UNCHANGED <<managers, active, agents, errors, company>>
        /\ ~Storing(s) /\ Idle.phase = "idle"
    BY <1>14, IdleIsState DEF Finish, Storing
  <2>2. Idle \in SweepState /\ Held(Idle) /\ Exact(Idle)
    BY IdleIsState, NotReading
  <2> QED
    BY <1>3, <1>4, <2>1, <2>2 DEF Phases
<1>15. ASSUME NEW t \in Tenants, NEW a \in Agents, Regroup(t, a)  PROVE SyncInv' /\ \A q \in Sweeps : Leaves(q)
  <2>1. sweep' = [s \in Sweeps |-> IF sweep[s].tenant = t THEN [sweep[s] EXCEPT !.quiet = FALSE] ELSE sweep[s]]
    BY <1>15 DEF Regroup
  <2>2. ASSUME NEW s \in Sweeps  PROVE sweep'[s].phase = sweep[s].phase
    BY <1>2, <2>1 DEF SweepState
  <2>3. Steady
    BY <2>2 DEF Steady, Storing, Phases
  <2> QED
    BY <1>1, <1>15, <2>3, RegroupKeeps
<1>16. ASSUME UNCHANGED <<group, agents, errors, sweep, changes, lastIn, company>>, active' \subseteq active,
              unserved' \in Nat
       PROVE  SyncInv' /\ \A q \in Sweeps : Leaves(q)
  <2>1. SyncTyped' /\ CacheIsDated'
    BY <1>16 DEF SyncInv, SyncTyped, CacheIsDated, Cached, WasIn
  <2>2. \A s \in Sweeps : Held(sweep[s])' /\ Exact(sweep[s])'
    BY <1>3, <1>16, ReadingsStay DEF SyncInv
  <2>3. Steady
    BY <1>16 DEF Steady, Storing, Phases
  <2>4. Orderly'
    <3>1. sweep' = sweep /\ company' = company /\ agents' = agents
      BY <1>16
    <3> QED
      BY <3>1 DEF SyncInv, Orderly, Apart, Swept, Storing, InCache, Seen
  <2> QED
    BY <1>1, <2>1, <2>2, <2>3, <2>4 DEF SyncInv
<1>17. CASE Miscount \/ \E t \in Tenants : Suspend(t)
  <2>1. UNCHANGED <<group, agents, errors, sweep, changes, lastIn, company>> /\ active' \subseteq active
        /\ unserved' \in Nat
    BY <1>17 DEF Miscount, Suspend, SyncInv, SyncTyped, managers
  <2> QED
    BY <1>16, <2>1
<1>18. CASE UNCHANGED syncVars
  <2>1. UNCHANGED <<group, agents, errors, sweep, changes, lastIn, company>> /\ active' \subseteq active
        /\ unserved' \in Nat
    BY <1>18 DEF syncVars, managers, SyncInv, SyncTyped
  <2> QED
    BY <1>16, <2>1
<1> QED
  BY <1>5, <1>6, <1>7, <1>8, <1>10, <1>11, <1>12, <1>13, <1>14, <1>15, <1>17, <1>18 DEF SyncNext, Progress

(* An agent in the cache was in its tenant's group at its synced_at or       *)
(* later, for fleets and pages of any size and however many sweeps run       *)
(* beside each other while agents come and go.                               *)
THEOREM SyncedAtHonest == SyncSpec => []SyncedAtIsHonest
<1>1. SyncInit => SyncInv
  BY InitSyncInv
<1>2. SyncInv /\ [SyncNext]_syncVars => SyncInv'
  BY NextSyncInv
<1>3. SyncInv => SyncedAtIsHonest
  BY DEF SyncInv, CacheIsDated, SyncedAtIsHonest, WasIn
<1> QED
  BY <1>1, <1>2, <1>3, PTL DEF SyncSpec

(* A sync that nobody disturbs leaves what is in the group, up to           *)
(* MAX_AGENTS, and its sweep goes on, unless the group has an agent without  *)
(* an address or more agents than a statement takes.                         *)
THEOREM QuietSweepExact == SyncSpec => QuietSweepIsExact
<1> DEFINE Stays == \A s \in Sweeps :
             LET t == sweep[s].tenant
             IN sweep[s].phase = "commit" /\ sweep'[s].phase = "next" /\ Undisturbed(s)
                /\ Cardinality(group[t]) <= MaxAgents
                  => { a \in Agents : agents'[t][a] # Absent } = group[t]
           Reaches == \A s \in Sweeps :
             LET t == sweep[s].tenant
             IN (Storing(s) /\ sweep'[s].phase = "idle" /\ Undisturbed(s))
                  => group[t] \cap NoAddress # {} \/ Cardinality(group[t]) > MaxRows
<1>1. SyncInit => SyncInv
  BY InitSyncInv
<1>2. SyncInv /\ [SyncNext]_syncVars => SyncInv'
  BY NextSyncInv
<1>3. SyncInv /\ [SyncNext]_syncVars => [Stays]_syncVars /\ [Reaches]_syncVars
  <2> SUFFICES ASSUME SyncInv, [SyncNext]_syncVars  PROVE Stays /\ Reaches
    OBVIOUS
  <2> QED
    BY NextSyncInv DEF Leaves
<1> QED
  BY <1>1, <1>2, <1>3, PTL DEF SyncSpec, QuietSweepIsExact, QuietSyncIsExact, QuietSweepReachesAll

-----------------------------------------------------------------------------
(* The case file: sequences of entities                                      *)

(* The first values of a sequence                                           *)
LEMMA CutKeeps ==
  ASSUME NEW S, NEW values \in Seq(S), NEW n \in Nat
  PROVE  /\ Cut(values, n) \in Seq(S) /\ Len(Cut(values, n)) \in Nat
         /\ Len(Cut(values, n)) = IF Len(values) < n THEN Len(values) ELSE n
         /\ Range(Cut(values, n)) \subseteq Range(values)
         /\ Len(values) <= n => Cut(values, n) = values
         /\ IsInjective(values) => IsInjective(Cut(values, n))
<1> DEFINE k   == IF Len(values) < n THEN Len(values) ELSE n
           cut == Cut(values, n)
<1>1. Len(values) \in Nat /\ \A i \in 1 .. Len(values) : values[i] \in S
  BY LenProperties, ElementOfSeq
<1>0. DOMAIN values = 1 .. Len(values)
  BY LenProperties
<1>2. k \in Int /\ k \in Nat /\ k <= Len(values) /\ (Len(values) <= n => k = Len(values))
  BY <1>1
<1>3. cut = SubSeq(values, 1, k)
  BY DEF Cut
<1> HIDE DEF k, cut
<1>4. /\ cut \in Seq(S) /\ Len(cut) = (IF 1 <= k THEN k - 1 + 1 ELSE 0)
      /\ \A i \in 1 .. k - 1 + 1 : cut[i] = values[1 + i - 1]
  <2>1. \A i \in 1 .. k : values[i] \in S
    BY <1>1, <1>2
  <2>2. 1 \in Int
    OBVIOUS
  <2> QED
    BY <1>2, <1>3, <2>1, <2>2, SubSeqProperties
<1>5. Len(cut) = k /\ DOMAIN cut = 1 .. k /\ \A i \in 1 .. k : cut[i] = values[i] /\ i \in DOMAIN values
  <2>1. Len(cut) = k
    BY <1>2, <1>4
  <2>2. DOMAIN cut = 1 .. k
    BY <1>4, <2>1, LenProperties
  <2>3. ASSUME NEW i \in 1 .. k  PROVE cut[i] = values[i] /\ i \in DOMAIN values
    <3>1. i \in Int /\ 1 <= i /\ i <= k /\ k - 1 + 1 = k /\ 1 + i - 1 = i
      BY <1>2
    <3>2. i <= Len(values)
      BY <1>1, <1>2, <3>1
    <3>3. i \in 1 .. k - 1 + 1 /\ 1 + i - 1 = i /\ i \in 1 .. Len(values)
      BY <1>1, <3>1, <3>2
    <3> QED
      BY <1>0, <1>4, <3>3
  <2> QED
    BY <2>1, <2>2, <2>3
<1>6. Range(cut) \subseteq Range(values)
  BY <1>5 DEF Range
<1>7. IsInjective(values) => IsInjective(cut)
  BY <1>5 DEF IsInjective
<1>8. Len(values) <= n => cut = values
  BY <1>2, <1>3, SubSeqFull
<1> QED
  BY <1>2, <1>4, <1>5, <1>6, <1>7, <1>8 DEF cut, k

(* Every value occurs somewhere for the first time.                          *)
LEMMA LeastNumber ==
  ASSUME NEW numbers \in SUBSET Int, IsFiniteSet(numbers), numbers # {}
  PROVE  \E least \in numbers : \A n \in numbers : least <= n
<1> DEFINE c   == Cardinality(numbers)
           all == InOrder(numbers)
<1>1. /\ c \in Nat /\ all \in [1 .. c -> numbers]
      /\ \A i, j \in 1 .. c : i < j => all[i] < all[j]
      /\ \A n \in numbers : \E i \in 1 .. c : all[i] = n
  BY InOrderAscends
<1> HIDE DEF c, all
<1>2. 1 \in 1 .. c /\ all[1] \in numbers
  <2>1. PICK n \in numbers : TRUE
    OBVIOUS
  <2>2. PICK i \in 1 .. c : all[i] = n
    BY <1>1
  <2>3. 1 \in 1 .. c
    BY <1>1
  <2> QED
    BY <1>1, <2>3
<1>3. ASSUME NEW n \in numbers  PROVE all[1] <= n
  <2>1. PICK i \in 1 .. c : all[i] = n
    BY <1>1
  <2>2. i = 1 \/ 1 < i
    BY <1>1
  <2>3. all[1] = n \/ all[1] < n
    BY <1>1, <1>2, <2>1, <2>2
  <2>4. all[1] \in Int /\ n \in Int
    BY <1>2
  <2> QED
    BY <2>3, <2>4
<1> QED
  BY <1>2, <1>3

(* What is merged has every value once, until there are too many of them.    *)
LEMMA MergeAdds ==
  ASSUME NEW S, NEW seen \in Seq(S), NEW values \in Seq(S)
  PROVE  /\ Merge(seen, values) \in Seq(S) /\ Len(Merge(seen, values)) \in Nat
         /\ Len(Merge(seen, values)) <= MaxEntities
         /\ IsInjective(Merge(seen, values))
         /\ \/ Len(Merge(seen, values)) = MaxEntities
            \/ Range(Merge(seen, values)) = Range(seen) \cup Range(values)
         /\ IsInjective(seen) /\ Len(seen) = MaxEntities => Len(Merge(seen, values)) = MaxEntities
<1> DEFINE all    == seen \o values
           firsts == { i \in DOMAIN all : \A j \in 1 .. i - 1 : all[j] # all[i] }
           c      == Cardinality(firsts)
           place  == InOrder(firsts)
           once   == [k \in 1 .. c |-> all[Nth(firsts, k)]]
           k0     == Len(seen)
           n      == Len(all)
<1>1. /\ all \in Seq(S) /\ n \in Nat /\ DOMAIN all = 1 .. n /\ k0 \in Nat /\ k0 <= n
      /\ DOMAIN seen = 1 .. k0 /\ \A i \in 1 .. k0 : all[i] = seen[i] /\ i \in 1 .. n
      /\ Range(all) = Range(seen) \cup Range(values) /\ \A i \in 1 .. n : all[i] \in S
  <2>1. /\ all \in Seq(S) /\ n = k0 + Len(values)
        /\ \A i \in 1 .. k0 + Len(values) : all[i] = IF i <= k0 THEN seen[i] ELSE values[i - k0]
    BY ConcatProperties
  <2>2. k0 \in Nat /\ Len(values) \in Nat /\ DOMAIN seen = 1 .. k0 /\ DOMAIN values = 1 .. Len(values)
    BY LenProperties
  <2> HIDE DEF all, n, k0
  <2>3. DOMAIN all = 1 .. n /\ \A i \in 1 .. n : all[i] \in S
    BY <2>1, LenProperties, ElementOfSeq DEF n
  <2>4. n \in Nat /\ k0 <= n /\ \A i \in 1 .. k0 : i \in 1 .. n /\ all[i] = seen[i]
    BY <2>1, <2>2
  <2>5. ASSUME NEW i \in 1 .. n  PROVE all[i] \in Range(seen) \cup Range(values)
    <3>1. CASE i <= k0
      <4>1. i \in 1 .. k0
        BY <2>2, <2>4, <3>1
      <4>2. i \in DOMAIN seen
        BY <2>2, <4>1
      <4> QED
        BY <2>4, <4>1, <4>2 DEF Range
    <3>2. CASE ~(i <= k0)
      <4>1. PICK j \in 1 .. Len(values) : j = i - k0
        BY <2>1, <2>2, <2>4, <3>2
      <4>2. all[i] = values[j]
        BY <2>1, <3>2, <4>1
      <4> QED
        BY <2>2, <4>2 DEF Range
    <3> QED
      BY <3>1, <3>2
  <2>6. ASSUME NEW j \in 1 .. Len(values)  PROVE values[j] \in Range(all)
    <3>1. PICK i \in 1 .. n : i = k0 + j
      BY <2>1, <2>2
    <3>2. ~(i <= k0) /\ i - k0 = j
      BY <2>2, <3>1
    <3>3. all[i] = values[j]
      BY <2>1, <3>2
    <3> QED
      BY <2>3, <3>3 DEF Range
  <2>7. Range(seen) \subseteq Range(all)
    BY <2>2, <2>3, <2>4 DEF Range
  <2>8. Range(values) \subseteq Range(all)
    BY <2>2, <2>6 DEF Range
  <2>9. Range(all) \subseteq Range(seen) \cup Range(values)
    BY <2>3, <2>5 DEF Range
  <2> QED
    BY <2>1, <2>2, <2>3, <2>4, <2>7, <2>8, <2>9
<1>2. firsts = { i \in 1 .. n : \A j \in 1 .. i - 1 : all[j] # all[i] }
  BY <1>1
<1>3. once = [k \in 1 .. c |-> all[place[k]]]
  BY DEF InOrder
<1>4. Merge(seen, values) = Cut(once, MaxEntities)
  BY DEF Merge
<1> HIDE DEF all, firsts, n, k0, once
<1>5. firsts \in SUBSET (1 .. n) /\ firsts \in SUBSET Int /\ IsFiniteSet(firsts) /\ IsFiniteSet(1 .. n)
  <2>1. IsFiniteSet(1 .. n)
    BY <1>1, FS_Interval
  <2>2. firsts \in SUBSET (1 .. n)
    BY <1>2
  <2>3. IsFiniteSet(firsts)
    BY <2>1, <2>2, FS_Subset
  <2> QED
    BY <1>1, <2>1, <2>2, <2>3
<1>6. /\ c \in Nat /\ place \in [1 .. c -> firsts]
      /\ \A i, j \in 1 .. c : i < j => place[i] < place[j]
      /\ \A f \in firsts : \E i \in 1 .. c : place[i] = f
  BY <1>5, InOrderAscends
<1> HIDE DEF c, place
<1>7. /\ once \in [1 .. c -> S] /\ once \in Seq(S) /\ Len(once) = c /\ DOMAIN once = 1 .. c
      /\ \A k \in 1 .. c : once[k] = all[place[k]]
  <2>1. \A k \in 1 .. c : place[k] \in 1 .. n /\ all[place[k]] \in S
    BY <1>1, <1>5, <1>6
  <2>2. once \in [1 .. c -> S] /\ \A k \in 1 .. c : once[k] = all[place[k]]
    BY <1>3, <2>1
  <2>3. once \in Seq(S)
    BY <1>6, <2>2, SeqDef
  <2> QED
    BY <1>6, <2>2, <2>3, LenProperties
<1>8. \A i, j \in 1 .. c : i < j => once[i] # once[j]
  <2> SUFFICES ASSUME NEW i \in 1 .. c, NEW j \in 1 .. c, i < j  PROVE once[i] # once[j]
    OBVIOUS
  <2>1. place[i] \in firsts /\ place[j] \in firsts /\ place[i] < place[j]
    BY <1>6
  <2>2. PICK p \in 1 .. n, q \in firsts : p = place[i] /\ q = place[j]
    BY <1>5, <2>1
  <2>3. p \in 1 .. q - 1 /\ all[p] # all[q]
    <3>1. q \in 1 .. n /\ p < q
      BY <1>5, <2>1, <2>2
    <3>2. p \in 1 .. q - 1
      BY <1>1, <3>1
    <3> QED
      BY <1>2, <2>2, <3>2
  <2> QED
    BY <1>7, <2>2, <2>3
<1>9. IsInjective(once)
  <2>1. \A i, j \in 1 .. c : once[i] = once[j] => i = j
    BY <1>6, <1>8
  <2> QED
    BY <1>7, <2>1 DEF IsInjective
<1>10. Range(once) = Range(all)
  <2>1. ASSUME NEW i \in 1 .. n  PROVE all[i] \in Range(once)
    <3> DEFINE same == { j \in 1 .. n : all[j] = all[i] }
    <3>1. same \in SUBSET (1 .. n) /\ same \in SUBSET Int /\ same # {}
      BY <1>1
    <3>2. IsFiniteSet(same)
      BY <1>5, <3>1, FS_Subset
    <3>3. PICK f \in same : \A j \in same : f <= j
      BY <3>1, <3>2, LeastNumber
    <3>4. f \in 1 .. n /\ all[f] = all[i]
      OBVIOUS
    <3>5. ASSUME NEW j \in 1 .. f - 1  PROVE all[j] # all[f]
      <4>1. j \in 1 .. n /\ ~(f <= j)
        BY <1>1, <3>4
      <4> QED
        BY <3>3, <3>4, <4>1
    <3>6. f \in firsts
      BY <1>2, <3>4, <3>5
    <3>7. PICK k \in 1 .. c : place[k] = f
      BY <1>6, <3>6
    <3> QED
      BY <1>7, <3>4, <3>7 DEF Range
  <2>2. ASSUME NEW k \in 1 .. c  PROVE once[k] \in Range(all)
    <3>1. place[k] \in 1 .. n /\ once[k] = all[place[k]]
      BY <1>5, <1>6, <1>7
    <3> QED
      BY <1>1, <3>1 DEF Range
  <2>3. Range(once) \subseteq Range(all)
    BY <1>7, <2>2 DEF Range
  <2>4. Range(all) \subseteq Range(once)
    BY <1>1, <2>1 DEF Range
  <2> QED
    BY <2>3, <2>4
<1>11. IsInjective(seen) => k0 <= c
  <2> SUFFICES ASSUME IsInjective(seen)  PROVE k0 <= c
    OBVIOUS
  <2>1. ASSUME NEW i \in 1 .. k0  PROVE i \in firsts
    <3>1. ASSUME NEW j \in 1 .. i - 1  PROVE all[j] # all[i]
      <4>1. j \in 1 .. k0 /\ j # i
        BY <1>1
      <4> QED
        BY <1>1, <4>1 DEF IsInjective
    <3> QED
      BY <1>1, <1>2, <3>1
  <2>2. 1 .. k0 \in SUBSET firsts
    BY <2>1
  <2>3. Cardinality(1 .. k0) <= c
    BY <1>5, <2>2, FS_Subset DEF c
  <2> QED
    BY <1>1, <2>3, FS_Interval
<1>12. MaxEntities \in Nat
  BY CaseFileAssumption
<1> DEFINE m == Cut(once, MaxEntities)
<1>13. /\ m \in Seq(S) /\ Len(m) \in Nat /\ Len(m) = (IF c < MaxEntities THEN c ELSE MaxEntities)
       /\ c <= MaxEntities => m = once
       /\ IsInjective(m)
  BY <1>7, <1>9, <1>12, CutKeeps
<1> HIDE DEF m
<1>14. Len(m) <= MaxEntities /\ (Len(m) = MaxEntities \/ Range(m) = Range(seen) \cup Range(values))
  BY <1>1, <1>6, <1>10, <1>12, <1>13
<1>15. IsInjective(seen) /\ k0 = MaxEntities => Len(m) = MaxEntities
  BY <1>6, <1>11, <1>12, <1>13
<1> QED
  BY <1>4, <1>13, <1>14, <1>15 DEF m, k0

-----------------------------------------------------------------------------
(* The case file: evidence snapshots                                         *)

Whole(evidence) ==
  /\ evidence \in Snapshots
  /\ IsInjective(evidence.entities) /\ Len(evidence.entities) <= MaxEntities

(* What is kept of a snapshot by cutting it to size.                         *)
Keeps(evidence, kept) ==
  /\ Whole(kept) /\ Fits(kept) /\ kept.first.of = evidence.first.of
  /\ kept.truncated \/ kept = evidence
  /\ kept.first.ecs = evidence.first.ecs \/ evidence.first.ecs + FewEntities > MaxBytes

(* A snapshot that is cut fits, says so, and keeps its first document if it  *)
(* would fit beside the few entities.                                        *)
LEMMA ShedKeeps ==
  ASSUME NEW snapshot, Whole(snapshot)
  PROVE  Keeps(snapshot, Shed(snapshot))
<1> DEFINE lean  == [snapshot EXCEPT !.latest.ecs = 0, !.truncated = TRUE]
           few   == [lean EXCEPT !.entities = Cut(@, FewEntities)]
           least == [few EXCEPT !.first.ecs = 0]
           cut   == Cut(snapshot.entities, FewEntities)
           full  == Len(snapshot.entities)
           one   == snapshot.first.ecs
           last  == snapshot.latest.ecs
<1>1. Shed(snapshot) = CASE Fits(snapshot) -> snapshot
                         [] ~Fits(snapshot) /\ Fits(lean) -> lean
                         [] ~Fits(lean) /\ Fits(few) -> few
                         [] OTHER -> least
  BY DEF Shed
<1>2. snapshot \in Snapshots /\ snapshot.entities \in Seq(Entities) /\ one \in Nat /\ last \in Nat
  BY DEF Whole, Snapshots, Documents
<1>3. /\ FewEntities \in Nat /\ MaxEntities \in Nat /\ MaxBytes \in Nat
      /\ FewEntities <= MaxBytes /\ FewEntities <= MaxEntities
  BY CaseFileAssumption
<1>4. full \in Nat
  BY <1>2, LenProperties
<1>5. /\ cut \in Seq(Entities) /\ Len(cut) \in Nat /\ Len(cut) <= FewEntities
      /\ IsInjective(snapshot.entities) => IsInjective(cut)
  <2>1. snapshot.entities \in Seq(Entities)
    BY <1>2
  <2>2. /\ cut \in Seq(Entities) /\ Len(cut) \in Nat
        /\ Len(cut) = IF full < FewEntities THEN full ELSE FewEntities
        /\ IsInjective(snapshot.entities) => IsInjective(cut)
    BY <1>3, <2>1, CutKeeps
  <2> HIDE DEF cut, full
  <2> QED
    BY <1>3, <1>4, <2>2
<1> HIDE DEF cut
<1>6. /\ lean \in Snapshots /\ lean.entities = snapshot.entities /\ lean.first = snapshot.first
      /\ lean.latest.ecs = 0 /\ lean.truncated
  BY <1>2 DEF Snapshots, Documents
<1>7. /\ few \in Snapshots /\ few.entities = cut /\ few.first = snapshot.first
      /\ few.latest.ecs = 0 /\ few.truncated
  <2>1. few = [lean EXCEPT !.entities = cut]
    BY <1>6 DEF cut
  <2> QED
    BY <1>5, <1>6, <2>1 DEF Snapshots
<1>8. /\ least \in Snapshots /\ least.entities = cut /\ least.first.of = snapshot.first.of
      /\ least.first.ecs = 0 /\ least.latest.ecs = 0 /\ least.truncated
  BY <1>7 DEF Snapshots, Documents
<1> HIDE DEF lean, few, least, full, one, last
<1>9. /\ Fits(snapshot) <=> one + last + full <= MaxBytes
      /\ Fits(lean) <=> one + full <= MaxBytes
      /\ Fits(few) <=> one + Len(cut) <= MaxBytes
      /\ Fits(least) <=> Len(cut) <= MaxBytes
  BY <1>2, <1>4, <1>5, <1>6, <1>7, <1>8 DEF Fits, Size, one, last, full
<1>10. /\ Fits(snapshot) => Fits(lean)
       /\ ~Fits(few) => one + FewEntities > MaxBytes
       /\ Fits(least)
  BY <1>2, <1>3, <1>4, <1>5, <1>9
<1>11. Whole(lean) /\ Whole(few) /\ Whole(least)
  BY <1>3, <1>5, <1>6, <1>7, <1>8 DEF Whole
<1>12. CASE Fits(snapshot)
  <2>1. Shed(snapshot) = snapshot
    BY <1>1, <1>10, <1>12
  <2> QED
    BY <1>12, <2>1 DEF Keeps
<1>13. CASE ~Fits(snapshot) /\ Fits(lean)
  <2>1. Shed(snapshot) = lean
    BY <1>1, <1>13
  <2> QED
    BY <1>6, <1>11, <1>13, <2>1 DEF Keeps
<1>14. CASE ~Fits(lean) /\ Fits(few)
  <2>1. Shed(snapshot) = few
    BY <1>1, <1>10, <1>14
  <2> QED
    BY <1>7, <1>11, <1>14, <2>1 DEF Keeps
<1>15. CASE ~Fits(lean) /\ ~Fits(few)
  <2>1. Shed(snapshot) = least
    BY <1>1, <1>10, <1>15
  <2> QED
    BY <1>8, <1>10, <1>11, <1>15, <2>1 DEF Keeps, one
<1> QED
  BY <1>12, <1>13, <1>14, <1>15

(* What a snapshot is after an alert, if it is not cut: its first document,  *)
(* the one of the alert, and the entities of both.                           *)
Untouched(first, seen, alert, evidence) ==
  /\ evidence.first = first /\ evidence.latest = Document(alert)
  /\ Len(evidence.entities) = MaxEntities
     \/ Range(evidence.entities) = Range(seen) \cup Range(alert.related)
  /\ Len(seen) = MaxEntities => Len(evidence.entities) = MaxEntities

Taken(first, seen, alert, evidence) ==
  /\ Whole(evidence) /\ Fits(evidence) /\ evidence.first.of = first.of
  /\ ~evidence.truncated => Untouched(first, seen, alert, evidence)
  /\ evidence.first.ecs = first.ecs \/ first.ecs + FewEntities > MaxBytes

(* The alert that opens a case, or joins one, in its snapshot                *)
LEMMA ShedMerged ==
  ASSUME NEW alert \in Alerts, NEW first \in Documents, NEW seen \in Seq(Entities), IsInjective(seen),
         NEW cut \in BOOLEAN, NEW evidence,
         evidence = Shed([first |-> first, latest |-> Document(alert),
                          entities |-> Merge(seen, alert.related), truncated |-> cut])
  PROVE  Taken(first, seen, alert, evidence) /\ (cut => evidence.truncated)
<1> DEFINE merged == Merge(seen, alert.related)
           whole  == [first |-> first, latest |-> Document(alert), entities |-> merged, truncated |-> cut]
<1>1. alert.related \in Seq(Entities) /\ alert.ecs \in Nat
  BY CaseFileAssumption
<1>2. /\ merged \in Seq(Entities) /\ Len(merged) <= MaxEntities /\ IsInjective(merged)
      /\ \/ Len(merged) = MaxEntities
         \/ Range(merged) = Range(seen) \cup Range(alert.related)
      /\ IsInjective(seen) /\ Len(seen) = MaxEntities => Len(merged) = MaxEntities
  BY <1>1, MergeAdds
<1> HIDE DEF merged
<1>3. Document(alert) \in Documents
  BY <1>1 DEF Document, Documents
<1>4. /\ whole \in Snapshots /\ whole.first = first /\ whole.latest = Document(alert)
      /\ whole.entities = merged /\ whole.truncated = cut
  BY <1>2, <1>3 DEF Snapshots
<1>5. evidence = Shed(whole)
  BY DEF merged
<1> HIDE DEF whole
<1>6. Whole(whole)
  BY <1>2, <1>4 DEF Whole
<1>7. Keeps(whole, evidence)
  BY <1>5, <1>6, ShedKeeps
<1>8. ~evidence.truncated => Untouched(first, seen, alert, evidence) /\ ~cut
  BY <1>2, <1>4, <1>7 DEF Keeps, Untouched
<1> QED
  BY <1>4, <1>7, <1>8 DEF Keeps, Taken

(* The alert that opens a case,                                              *)
LEMMA FirstAlert ==
  ASSUME NEW alert \in Alerts
  PROVE  Taken(Document(alert), << >>, alert, Update(None, alert))
<1>1. Document(alert) \in Documents
  BY CaseFileAssumption DEF Document, Documents
<1>2. << >> \in Seq(Entities) /\ IsInjective(<< >>)
  BY DEF IsInjective
<1>3. PICK evidence : evidence = Update(None, alert)
  OBVIOUS
<1>4. evidence = Shed([first |-> Document(alert), latest |-> Document(alert),
                       entities |-> Merge(<< >>, alert.related), truncated |-> FALSE])
  BY <1>3 DEF Update, WasCut
<1>5. Taken(Document(alert), << >>, alert, evidence)
  BY <1>1, <1>2, <1>4, ShedMerged
<1> QED
  BY <1>3, <1>5

(* and one that joins it: a snapshot that was cut stays marked.              *)
LEMMA NextAlert ==
  ASSUME NEW alert \in Alerts, NEW old, Whole(old)
  PROVE  /\ Taken(old.first, old.entities, alert, Update(old, alert))
         /\ old.truncated => Update(old, alert).truncated
<1>1. /\ old \in Snapshots /\ old.first \in Documents /\ old.entities \in Seq(Entities)
      /\ IsInjective(old.entities) /\ old.truncated \in BOOLEAN
  BY DEF Whole, Snapshots
<1>2. old # None
  BY <1>1, CaseFileAssumption
<1>3. PICK evidence : evidence = Update(old, alert)
  OBVIOUS
<1>4. evidence = Shed([first |-> old.first, latest |-> Document(alert),
                       entities |-> Merge(old.entities, alert.related), truncated |-> old.truncated])
  BY <1>1, <1>2, <1>3 DEF Update, WasCut
<1>5. Taken(old.first, old.entities, alert, evidence) /\ (old.truncated => evidence.truncated)
  BY <1>1, <1>4, ShedMerged
<1> QED
  BY <1>3, <1>5

-----------------------------------------------------------------------------
(* The case file: one row and the alerts it stands for                      *)

CaseRow == [group : { alert.group : alert \in Alerts }, open : BOOLEAN, first_seen : Nat, last_seen : Nat,
            alert_count : Nat, opened_by : { alert.id : alert \in Alerts }, evidence : Snapshots]

Honest(evidence, these) ==
  evidence.truncated
  \/ /\ { evidence.first, evidence.latest } \subseteq { Document(alert) : alert \in these }
     /\ \/ Len(evidence.entities) = MaxEntities
        \/ Range(evidence.entities) = UNION { Range(alert.related) : alert \in these }

Opens(opener, row) ==
  /\ opener.id = row.opened_by
  /\ row.evidence.first.ecs # opener.ecs => opener.ecs + FewEntities > MaxBytes

Brought == Alerts \X Nat

CaseStandsFor(row, copies) ==
  /\ row \in CaseRow /\ Whole(row.evidence) /\ Fits(row.evidence)
  /\ row.alert_count = Cardinality(copies) /\ IsFirstAndLast(row, Of(copies))
  /\ row.evidence.first.of = row.opened_by /\ Honest(row.evidence, Of(copies))
  /\ \E opener \in Of(copies) : Opens(opener, row)
  /\ \A copy \in copies : copy[1].group = row.group

EntityStandsFor(row, copies) ==
  /\ row \in {None} \cup EntityRow
  /\ (row = None) <=> (copies = {})
  /\ row # None => row.alert_count = Cardinality(copies) /\ IsFirstAndLast(row, Of(copies))

LEMMA OfMore ==
  ASSUME NEW copies \in SUBSET Brought, NEW copy \in Brought
  PROVE  /\ Of(copies) \in SUBSET Alerts /\ copy[1] \in Alerts
         /\ Of(copies \cup {copy}) = Of(copies) \cup {copy[1]}
BY DEF Of, Brought

(* The span of times takes in one alert more, also a late one.               *)
LEMMA FirstAndLastMove ==
  ASSUME NEW row, NEW these \in SUBSET Alerts, NEW alert \in Alerts, NEW after,
         row.first_seen \in Nat, row.last_seen \in Nat, IsFirstAndLast(row, these),
         after.first_seen = Earlier(row.first_seen, alert.timestamp),
         after.last_seen = Later(row.last_seen, alert.timestamp)
  PROVE  IsFirstAndLast(after, these \cup {alert})
<1> DEFINE a == row.first_seen
           b == row.last_seen
           t == alert.timestamp
<1>1. t \in Nat /\ \A other \in these : other.timestamp \in Nat
  BY CaseFileAssumption
<1>2. /\ \A other \in these : a <= other.timestamp /\ other.timestamp <= b
      /\ a \in { other.timestamp : other \in these } /\ b \in { other.timestamp : other \in these }
  BY <1>1 DEF IsFirstAndLast
<1>3. /\ after.first_seen \in Nat /\ after.first_seen <= a /\ after.first_seen <= t
      /\ after.first_seen \in {a, t}
      /\ after.last_seen \in Nat /\ after.last_seen >= b /\ after.last_seen >= t
      /\ after.last_seen \in {b, t}
  BY <1>1 DEF Earlier, Later
<1>4. ASSUME NEW other \in these \cup {alert}
      PROVE  other.timestamp \in after.first_seen .. after.last_seen
  <2>1. CASE other \in these
    <3>1. PICK time \in Nat : time = other.timestamp
      BY <1>1, <2>1
    <3>2. a <= time /\ time <= b /\ a \in Nat /\ b \in Nat
      BY <1>2, <2>1, <3>1
    <3> HIDE DEF a, b
    <3> QED
      BY <1>3, <3>1, <3>2
  <2>2. CASE other = alert
    BY <1>1, <1>3, <2>2
  <2> QED
    BY <2>1, <2>2
<1>5. {after.first_seen, after.last_seen} \subseteq { other.timestamp : other \in these \cup {alert} }
  BY <1>2, <1>3
<1> QED
  BY <1>4, <1>5 DEF IsFirstAndLast

(* A case that is opened stands for the alert it is opened by,               *)
LEMMA CreateStands ==
  ASSUME NEW alert \in Alerts, NEW copy \in Brought, copy[1] = alert
  PROVE  CaseStandsFor(Create(alert), {copy}) /\ Create(alert).open /\ Create(alert).group = alert.group
<1> DEFINE row == Create(alert)
<1>1. PICK evidence : evidence = Update(None, alert)
  OBVIOUS
<1>2. Taken(Document(alert), << >>, alert, evidence)
  BY <1>1, FirstAlert
<1>3. row = [group |-> alert.group, open |-> TRUE, first_seen |-> alert.timestamp,
             last_seen |-> alert.timestamp, alert_count |-> 1, opened_by |-> alert.id, evidence |-> evidence]
  BY <1>1 DEF Create
<1> HIDE DEF row
<1>4. row \in CaseRow /\ row.open /\ row.group = alert.group
  BY <1>2, <1>3, CaseFileAssumption DEF Taken, Whole, CaseRow
<1>5. row.alert_count = Cardinality({copy}) /\ IsFirstAndLast(row, {alert})
  <2>1. Cardinality({copy}) = 1
    BY FS_Singleton
  <2>2. alert.timestamp \in Nat
    BY CaseFileAssumption
  <2> QED
    BY <1>3, <2>1, <2>2 DEF IsFirstAndLast
<1>6. Honest(evidence, {alert})
  <2>1. Range(<< >>) = {}
    BY DEF Range
  <2> QED
    BY <1>2, <2>1 DEF Taken, Untouched, Honest
<1>7. Opens(alert, row) /\ row.evidence.first.of = row.opened_by
  BY <1>2, <1>3 DEF Taken, Opens, Document
<1>8. Of({copy}) = {alert} /\ \A other \in {copy} : other[1].group = row.group
  BY <1>4 DEF Of
<1>9. CaseStandsFor(row, {copy})
  BY <1>2, <1>3, <1>4, <1>5, <1>6, <1>7, <1>8 DEF Taken, CaseStandsFor
<1> QED
  BY <1>4, <1>9 DEF row

GoesOn(old, row) ==
  /\ row.open = old.open /\ row.group = old.group
  /\ row.last_seen >= old.last_seen /\ row.first_seen <= old.first_seen /\ row.alert_count >= old.alert_count

(* and one that an alert is attached to for this one too.                    *)
LEMMA AttachStands ==
  ASSUME NEW copy \in Brought, NEW copies \in SUBSET Brought, IsFiniteSet(copies), copy \notin copies,
         NEW old, CaseStandsFor(old, copies), old.group = copy[1].group
  PROVE  /\ CaseStandsFor(Attach(old, copy[1]), copies \cup {copy})
         /\ GoesOn(old, Attach(old, copy[1]))
<1>17. PICK alert \in Alerts : alert = copy[1]
  BY OfMore
<1> DEFINE row == Attach(old, alert)
<1>16. PICK these, more : these = Of(copies) /\ more = Of(copies \cup {copy})
  OBVIOUS
<1>14. these \in SUBSET Alerts /\ more = these \cup {alert}
  BY <1>16, <1>17, OfMore
<1>1. PICK evidence : evidence = Update(old.evidence, alert)
  OBVIOUS
<1>2. old \in CaseRow /\ Whole(old.evidence)
  BY DEF CaseStandsFor
<1>3. Taken(old.evidence.first, old.evidence.entities, alert, evidence)
      /\ (old.evidence.truncated => evidence.truncated)
  BY <1>1, <1>2, NextAlert
<1>4. row = [group |-> old.group, open |-> old.open, first_seen |-> Earlier(old.first_seen, alert.timestamp),
             last_seen |-> Later(old.last_seen, alert.timestamp), alert_count |-> old.alert_count + 1,
             opened_by |-> old.opened_by, evidence |-> evidence]
  <2>1. old = [group |-> old.group, open |-> old.open, first_seen |-> old.first_seen,
               last_seen |-> old.last_seen, alert_count |-> old.alert_count,
               opened_by |-> old.opened_by, evidence |-> old.evidence]
    BY <1>2 DEF CaseRow
  <2>2. row = [old EXCEPT !.last_seen = Later(old.last_seen, alert.timestamp),
                          !.first_seen = Earlier(old.first_seen, alert.timestamp),
                          !.alert_count = old.alert_count + 1, !.evidence = evidence]
    BY <1>1 DEF Attach
  <2>3. PICK a, b, n : /\ a = Earlier(old.first_seen, alert.timestamp)
                       /\ b = Later(old.last_seen, alert.timestamp) /\ n = old.alert_count + 1
    OBVIOUS
  <2> HIDE DEF row
  <2> QED
    BY <2>1, <2>2, <2>3
<1> HIDE DEF row
<1>5. alert.timestamp \in Nat /\ old.first_seen \in Nat /\ old.last_seen \in Nat /\ old.alert_count \in Nat
  BY <1>2, CaseFileAssumption DEF CaseRow
<1>6. /\ row.first_seen \in Nat /\ row.first_seen <= old.first_seen
      /\ row.last_seen \in Nat /\ row.last_seen >= old.last_seen
      /\ row.alert_count \in Nat /\ row.alert_count >= old.alert_count
  BY <1>4, <1>5 DEF Earlier, Later
<1>7. row \in CaseRow
  BY <1>2, <1>3, <1>4, <1>6 DEF Taken, Whole, CaseRow
<1>8. row.alert_count = Cardinality(copies \cup {copy})
  <2>1. old.alert_count = Cardinality(copies)
    BY DEF CaseStandsFor
  <2> QED
    BY <1>4, <2>1, FS_AddElement
<1>9. IsFirstAndLast(row, more)
  <2>1. IsFirstAndLast(old, these)
    BY <1>16 DEF CaseStandsFor
  <2>2. /\ row.first_seen = Earlier(old.first_seen, alert.timestamp)
        /\ row.last_seen = Later(old.last_seen, alert.timestamp)
    BY <1>4
  <2> QED
    BY <1>5, <1>14, <2>1, <2>2, FirstAndLastMove
<1>10. Honest(evidence, more)
  <2> SUFFICES ASSUME ~evidence.truncated  PROVE Honest(evidence, more)
    BY DEF Honest
  <2>1. /\ Untouched(old.evidence.first, old.evidence.entities, alert, evidence)
        /\ Honest(old.evidence, these) /\ ~old.evidence.truncated
    BY <1>16, <1>3 DEF Taken, CaseStandsFor
  <2>2. {evidence.first, evidence.latest} \subseteq { Document(other) : other \in more }
    BY <1>14, <2>1 DEF Untouched, Honest
  <2>3. \/ Len(evidence.entities) = MaxEntities
        \/ /\ Range(evidence.entities) = Range(old.evidence.entities) \cup Range(alert.related)
           /\ Range(old.evidence.entities) = UNION { Range(other.related) : other \in these }
    BY <2>1 DEF Untouched, Honest
  <2>4. (UNION { Range(other.related) : other \in these }) \cup Range(alert.related)
          = UNION { Range(other.related) : other \in more }
    BY <1>14
  <2> QED
    BY <2>2, <2>3, <2>4 DEF Honest
<1>11. row.evidence.first.of = row.opened_by
  BY <1>3, <1>4 DEF Taken, CaseStandsFor
<1>12. \E opener \in more : Opens(opener, row)
  <2>1. PICK opener \in these : Opens(opener, old)
    BY <1>16 DEF CaseStandsFor
  <2>2. evidence.first.ecs = old.evidence.first.ecs \/ old.evidence.first.ecs + FewEntities > MaxBytes
    BY <1>3 DEF Taken
  <2>3. Opens(opener, row)
    BY <1>4, <2>1, <2>2 DEF Opens
  <2> QED
    BY <1>14, <2>3
<1>15. \A other \in copies \cup {copy} : other[1].group = row.group
  BY <1>4, <1>17 DEF CaseStandsFor
<1>13. CaseStandsFor(row, copies \cup {copy})
  BY <1>16, <1>3, <1>4, <1>7, <1>8, <1>9, <1>10, <1>11, <1>12, <1>15 DEF Taken, CaseStandsFor
<1>18. GoesOn(old, row)
  BY <1>4, <1>6 DEF GoesOn
<1> QED
  BY <1>13, <1>17, <1>18 DEF row

(* The same of the row of an entity.                                         *)
LEMMA UpsertStands ==
  ASSUME NEW alert \in Alerts, NEW copy \in Brought, copy[1] = alert,
         NEW copies \in SUBSET Brought, IsFiniteSet(copies), copy \notin copies,
         NEW old, EntityStandsFor(old, copies)
  PROVE  EntityStandsFor(Upsert(old, alert.timestamp), copies \cup {copy})
<1> DEFINE row == Upsert(old, alert.timestamp)
           more == copies \cup {copy}
<1>5. Of(copies) \in SUBSET Alerts /\ Of(more) = Of(copies) \cup {alert}
  BY OfMore
<1>1. alert.timestamp \in Nat /\ None \notin EntityRow
  BY CaseFileAssumption
<1>2. more # {} /\ Cardinality(more) = Cardinality(copies) + 1
  BY FS_AddElement
<1>3. CASE old = None
  <2>1. copies = {} /\ more = {copy} /\ Of(more) = {alert}
    BY <1>3 DEF EntityStandsFor, Of
  <2>2. row = [first_seen |-> alert.timestamp, last_seen |-> alert.timestamp, alert_count |-> 1]
    BY <1>3 DEF Upsert
  <2> HIDE DEF row
  <2>3. row \in EntityRow
    BY <1>1, <2>2 DEF EntityRow
  <2>4. row.alert_count = Cardinality(more)
    BY <2>1, <2>2, FS_Singleton
  <2>5. IsFirstAndLast(row, Of(more))
    BY <1>1, <2>1, <2>2 DEF IsFirstAndLast
  <2> QED
    BY <1>1, <1>2, <2>3, <2>4, <2>5 DEF EntityStandsFor, row
<1>4. CASE old # None
  <2>1. old \in EntityRow /\ old.alert_count = Cardinality(copies) /\ IsFirstAndLast(old, Of(copies))
    BY <1>4 DEF EntityStandsFor
  <2>2. row = [first_seen |-> Earlier(old.first_seen, alert.timestamp),
               last_seen |-> Later(old.last_seen, alert.timestamp), alert_count |-> old.alert_count + 1]
    BY <1>4, <2>1 DEF Upsert, EntityRow
  <2> HIDE DEF row
  <2>3. old.first_seen \in Nat /\ old.last_seen \in Nat /\ old.alert_count \in Nat
    BY <2>1 DEF EntityRow
  <2>4. row \in EntityRow
    BY <1>1, <2>2, <2>3 DEF EntityRow, Earlier, Later
  <2>5. IsFirstAndLast(row, Of(more))
    <3>1. /\ row.first_seen = Earlier(old.first_seen, alert.timestamp)
          /\ row.last_seen = Later(old.last_seen, alert.timestamp)
      BY <2>2
    <3> QED
      BY <1>5, <2>1, <2>3, <3>1, FirstAndLastMove
  <2>6. row.alert_count = Cardinality(more)
    BY <1>2, <2>1, <2>2
  <2> QED
    BY <1>1, <1>2, <2>4, <2>5, <2>6 DEF EntityStandsFor, row
<1> QED
  BY <1>3, <1>4

-----------------------------------------------------------------------------
(* The case file: the whole database                                         *)

LinksTo(db, entity) == { link \in db.links : link[2] = entity }
CasesNaming(db, entity) == { <<db.alerts[alert.id], entity>> : alert \in Of(Naming(db, entity)) }

DbShape(db) ==
  /\ db = [alerts |-> db.alerts, cases |-> db.cases, entities |-> db.entities, links |-> db.links,
           stored |-> db.stored]
  /\ db.cases \in Seq(CaseRow)
  /\ db.entities \in [Entities -> {None} \cup EntityRow]
  /\ db.links \subseteq (DOMAIN db.cases) \X Entities
  /\ db.alerts \in [DOMAIN db.alerts -> DOMAIN db.cases]
  /\ db.stored \subseteq Brought /\ IsFiniteSet(db.stored)
  /\ DOMAIN db.alerts = { copy[1].id : copy \in db.stored }

OpenOnce(db) ==
  \A one, other \in DOMAIN db.cases :
    db.cases[one].open /\ db.cases[other].open /\ db.cases[one].group = db.cases[other].group => one = other

DbHolds(db) ==
  /\ DbShape(db) /\ OpenOnce(db)
  /\ \A case \in DOMAIN db.cases : CaseStandsFor(db.cases[case], CopiesOf(db, case))
  /\ \A entity \in Entities : /\ EntityStandsFor(db.entities[entity], Naming(db, entity))
                              /\ LinksTo(db, entity) = CasesNaming(db, entity)

(* What a case never does: move back in the list, whatever column it is      *)
(* sorted by.                                                                *)
MovesAlong(row, after) ==
  /\ after.last_seen >= row.last_seen /\ after.first_seen <= row.first_seen
  /\ after.alert_count >= row.alert_count

Advances(db, after) ==
  /\ DOMAIN db.cases \subseteq DOMAIN after.cases
  /\ \A case \in DOMAIN db.cases : MovesAlong(db.cases[case], after.cases[case])

OneMore(db, copy, case, after) ==
  /\ after.alerts = [ id \in DOMAIN db.alerts \cup {copy[1].id} |->
                        IF id = copy[1].id THEN case ELSE db.alerts[id] ]
  /\ after.stored = db.stored \cup {copy}

(* An alert that is there already goes where it is.                          *)
GoesTo(db, copy, case) == copy[1].id \in DOMAIN db.alerts => db.alerts[copy[1].id] = case

(* What one copy more is filed under                                         *)
LEMMA OneMoreFiled ==
  ASSUME NEW db, DbShape(db), NEW copy \in Brought, NEW case, GoesTo(db, copy, case), NEW after,
         OneMore(db, copy, case, after)
  PROVE  /\ \A c : CopiesOf(after, c) = IF c = case THEN CopiesOf(db, c) \cup {copy} ELSE CopiesOf(db, c)
         /\ \A e : Naming(after, e) = IF e \in Touched(copy[1]) THEN Naming(db, e) \cup {copy} ELSE Naming(db, e)
         /\ \A other \in db.stored : after.alerts[other[1].id] = db.alerts[other[1].id]
         /\ after.alerts[copy[1].id] = case
<1>1. after.stored = db.stored \cup {copy} /\ after.alerts[copy[1].id] = case
  BY DEF OneMore
<1>2. ASSUME NEW other \in db.stored  PROVE after.alerts[other[1].id] = db.alerts[other[1].id]
  <2>1. other[1].id \in DOMAIN db.alerts
    BY DEF DbShape
  <2> QED
    BY <2>1 DEF OneMore, GoesTo
<1>3. \A c : CopiesOf(after, c) = IF c = case THEN CopiesOf(db, c) \cup {copy} ELSE CopiesOf(db, c)
  <2>1. copy \in db.stored => db.alerts[copy[1].id] = case
    BY DEF DbShape, GoesTo
  <2> QED
    BY <1>1, <1>2, <2>1 DEF CopiesOf
<1>4. \A e : Naming(after, e) = IF e \in Touched(copy[1]) THEN Naming(db, e) \cup {copy} ELSE Naming(db, e)
  BY <1>1 DEF Naming
<1> QED
  BY <1>1, <1>2, <1>3, <1>4

(* An alert touches entities that it names.                                  *)
LEMMA TouchedAre ==
  ASSUME NEW alert \in Alerts
  PROVE  Touched(alert) \subseteq Entities
<1>1. alert.related \in Seq(Entities) /\ MaxPerType \in Nat
  BY CaseFileAssumption
<1>2. Range(Cut(alert.related, MaxPerType)) \subseteq Range(alert.related)
  BY <1>1, CutKeeps
<1>3. Range(alert.related) \subseteq Entities
  BY DEF Entities
<1> QED
  BY <1>2, <1>3 DEF Touched

(* The entities' rows and their links.                                       *)
LEMMA EntitiesFollow ==
  ASSUME NEW db, DbHolds(db), NEW copy \in Brought \ db.stored, NEW alert \in Alerts, copy[1] = alert,
         NEW case, GoesTo(db, copy, case), NEW after, OneMore(db, copy, case, after),
         after.entities = [ entity \in Entities |->
                              IF entity \in Touched(alert) THEN Upsert(db.entities[entity], alert.timestamp)
                              ELSE db.entities[entity] ],
         after.links = db.links \cup { <<case, entity>> : entity \in Touched(alert) }
  PROVE  /\ after.entities \in [Entities -> {None} \cup EntityRow]
         /\ \A entity \in Entities : /\ EntityStandsFor(after.entities[entity], Naming(after, entity))
                                     /\ LinksTo(after, entity) = CasesNaming(after, entity)
<1>1. /\ \A e : Naming(after, e) = IF e \in Touched(alert) THEN Naming(db, e) \cup {copy} ELSE Naming(db, e)
      /\ \A other \in db.stored : after.alerts[other[1].id] = db.alerts[other[1].id]
      /\ after.alerts[alert.id] = case
  BY OneMoreFiled DEF DbHolds
<1>2. ASSUME NEW entity \in Entities
      PROVE  EntityStandsFor(after.entities[entity], Naming(after, entity))
  <2>1. EntityStandsFor(db.entities[entity], Naming(db, entity))
    BY DEF DbHolds
  <2>2. CASE entity \in Touched(alert)
    <3>1. /\ Naming(db, entity) \in SUBSET Brought /\ Naming(db, entity) \in SUBSET db.stored
          /\ copy \notin Naming(db, entity)
      BY DEF Naming, DbHolds, DbShape
    <3>2. IsFiniteSet(Naming(db, entity))
      BY <3>1, FS_Subset DEF DbHolds, DbShape
    <3>3. EntityStandsFor(Upsert(db.entities[entity], alert.timestamp), Naming(db, entity) \cup {copy})
      BY <2>1, <3>1, <3>2, UpsertStands
    <3> QED
      BY <1>1, <2>2, <3>3
  <2>3. CASE entity \notin Touched(alert)
    BY <1>1, <2>1, <2>3
  <2> QED
    BY <2>2, <2>3
<1>3. after.entities \in [Entities -> {None} \cup EntityRow]
  <2>1. \A entity \in Entities : after.entities[entity] \in {None} \cup EntityRow
    BY <1>2 DEF EntityStandsFor
  <2> QED
    BY <2>1
<1>4. ASSUME NEW entity \in Entities
      PROVE  LinksTo(after, entity) = CasesNaming(after, entity)
  <2>1. LinksTo(db, entity) = CasesNaming(db, entity)
    BY DEF DbHolds
  <2>2. /\ \A other \in Of(Naming(db, entity)) : after.alerts[other.id] = db.alerts[other.id]
        /\ Of(Naming(db, entity) \cup {copy}) = Of(Naming(db, entity)) \cup {alert}
    BY <1>1 DEF Naming, Of
  <2>3. CASE entity \in Touched(alert)
    <3>1. LinksTo(after, entity) = LinksTo(db, entity) \cup {<<case, entity>>}
      BY <2>3 DEF LinksTo
    <3>2. CasesNaming(after, entity) = CasesNaming(db, entity) \cup {<<case, entity>>}
      <4>1. PICK these : these = Of(Naming(db, entity))
        OBVIOUS
      <4>2. Of(Naming(after, entity)) = these \cup {alert}
        BY <1>1, <2>2, <2>3, <4>1
      <4>3. \A other \in these : after.alerts[other.id] = db.alerts[other.id]
        BY <2>2, <4>1
      <4> QED
        BY <1>1, <4>1, <4>2, <4>3 DEF CasesNaming
    <3> QED
      BY <2>1, <3>1, <3>2
  <2>4. CASE entity \notin Touched(alert)
    <3>1. LinksTo(after, entity) = LinksTo(db, entity)
      BY <2>4 DEF LinksTo
    <3>2. CasesNaming(after, entity) = CasesNaming(db, entity)
      BY <1>1, <2>2, <2>4 DEF CasesNaming
    <3> QED
      BY <2>1, <3>1, <3>2
  <2> QED
    BY <2>3, <2>4
<1> QED
  BY <1>2, <1>3, <1>4

(* Cases are numbered from one.                                              *)
LEMMA RowsAre ==
  ASSUME NEW rows \in Seq(CaseRow)
  PROVE  /\ Len(rows) \in Nat /\ DOMAIN rows = 1 .. Len(rows)
         /\ \A case \in DOMAIN rows : case \in Nat \ {0} /\ rows[case] \in CaseRow
<1>1. Len(rows) \in Nat /\ \A case \in 1 .. Len(rows) : rows[case] \in CaseRow
  BY LenProperties, ElementOfSeq
<1>2. DOMAIN rows = 1 .. Len(rows)
  BY LenProperties
<1>3. PICK n \in Nat : n = Len(rows)
  BY <1>1
<1>4. \A case \in DOMAIN rows : case \in Nat \ {0} /\ rows[case] \in CaseRow
  BY <1>1, <1>2, <1>3
<1> QED
  BY <1>1, <1>2, <1>4

StillOpen(db, after) == \A case \in DOMAIN db.cases : db.cases[case].open => after.cases[case].open

RowsHold(db, after) ==
  /\ after.cases \in Seq(CaseRow) /\ Advances(db, after) /\ StillOpen(db, after) /\ OpenOnce(after)
  /\ \A case \in DOMAIN after.cases : CaseStandsFor(after.cases[case], CopiesOf(after, case))

(* A case that nothing happens to                                            *)
LEMMA StaysAlong ==
  ASSUME NEW row \in CaseRow
  PROVE  MovesAlong(row, row)
BY DEF CaseRow, MovesAlong

(* The rows that came with one copy more                                     *)
CopyComes(db, copy) == DbHolds(db) /\ copy \in Brought \ db.stored

(* A copy that joins a case,                                                 *)
LEMMA CaseJoined ==
  ASSUME NEW db, NEW copy, CopyComes(db, copy), NEW alert \in Alerts, copy[1] = alert,
         NEW case \in DOMAIN db.cases, GoesTo(db, copy, case), db.cases[case].group = alert.group,
         NEW after, OneMore(db, copy, case, after),
         after.cases = [db.cases EXCEPT ![case] = Attach(@, alert)]
  PROVE  RowsHold(db, after)
<1> DEFINE row == Attach(db.cases[case], alert)
           n   == Len(db.cases)
<1>1. \A c : CopiesOf(after, c) = IF c = case THEN CopiesOf(db, c) \cup {copy} ELSE CopiesOf(db, c)
  BY OneMoreFiled DEF CopyComes, DbHolds
<1>2. db.cases \in Seq(CaseRow)
  BY DEF CopyComes, DbHolds, DbShape
<1>3. n \in Nat /\ DOMAIN db.cases = 1 .. n /\ \A c \in DOMAIN db.cases : db.cases[c] \in CaseRow
  BY <1>2, RowsAre
<1>4. /\ CopiesOf(db, case) \in SUBSET Brought /\ CopiesOf(db, case) \in SUBSET db.stored
      /\ copy \in Brought /\ copy \notin CopiesOf(db, case)
  BY DEF CopiesOf, CopyComes, DbHolds, DbShape
<1>5. IsFiniteSet(CopiesOf(db, case))
  BY <1>4, FS_Subset DEF CopyComes, DbHolds, DbShape
<1>6. CaseStandsFor(db.cases[case], CopiesOf(db, case))
  BY DEF CopyComes, DbHolds
<1>7. /\ CaseStandsFor(row, CopiesOf(db, case) \cup {copy})
      /\ row.open = db.cases[case].open /\ row.group = db.cases[case].group
      /\ row.last_seen >= db.cases[case].last_seen
      /\ row.first_seen <= db.cases[case].first_seen /\ row.alert_count >= db.cases[case].alert_count
  <2>1. PICK copies : copies = CopiesOf(db, case)
    OBVIOUS
  <2>2. PICK old : old = db.cases[case]
    OBVIOUS
  <2>3. /\ CaseStandsFor(Attach(old, alert), copies \cup {copy})
        /\ Attach(old, alert).open = old.open /\ Attach(old, alert).group = old.group
        /\ Attach(old, alert).last_seen >= old.last_seen
        /\ Attach(old, alert).first_seen <= old.first_seen
        /\ Attach(old, alert).alert_count >= old.alert_count
    <3>1. /\ copies \in SUBSET Brought /\ IsFiniteSet(copies) /\ copy \in Brought /\ copy \notin copies
          /\ CaseStandsFor(old, copies) /\ old.group = copy[1].group
      BY <1>4, <1>5, <1>6, <2>1, <2>2
    <3>2. CaseStandsFor(Attach(old, copy[1]), copies \cup {copy}) /\ GoesOn(old, Attach(old, copy[1]))
      BY <3>1, AttachStands, Zenon
    <3> QED
      BY <3>2 DEF GoesOn
  <2> QED
    BY <2>1, <2>2, <2>3
<1> HIDE DEF row, n
<1>8. after.cases = [db.cases EXCEPT ![case] = row]
  BY DEF row
<1>9. /\ DOMAIN after.cases = DOMAIN db.cases
      /\ \A c \in DOMAIN db.cases : after.cases[c] = IF c = case THEN row ELSE db.cases[c]
  BY <1>8
<1>10. ASSUME NEW c \in DOMAIN db.cases
       PROVE  /\ CaseStandsFor(after.cases[c], CopiesOf(after, c)) /\ MovesAlong(db.cases[c], after.cases[c])
              /\ after.cases[c].open = db.cases[c].open /\ after.cases[c].group = db.cases[c].group
  <2>1. CASE c = case
    BY <1>1, <1>7, <1>9, <2>1 DEF MovesAlong
  <2>2. CASE c # case
    <3>1. CaseStandsFor(db.cases[c], CopiesOf(db, c)) /\ MovesAlong(db.cases[c], db.cases[c])
      BY <1>3, StaysAlong DEF CopyComes, DbHolds
    <3> QED
      BY <1>1, <1>9, <2>2, <3>1
  <2> QED
    BY <2>1, <2>2
<1>11. after.cases \in Seq(CaseRow)
  <2>1. row \in CaseRow
    BY <1>7 DEF CaseStandsFor
  <2>2. after.cases \in [1 .. n -> CaseRow]
    BY <1>3, <1>8, <2>1
  <2> QED
    BY <1>3, <2>2, SeqDef
<1>12. OpenOnce(after) /\ StillOpen(db, after)
  BY <1>9, <1>10 DEF OpenOnce, StillOpen, CopyComes, DbHolds
<1> QED
  BY <1>9, <1>10, <1>11, <1>12 DEF RowsHold, Advances

(* and one that opens a case.                                                *)
LEMMA CaseOpened ==
  ASSUME NEW db, NEW copy, CopyComes(db, copy), NEW alert \in Alerts, copy[1] = alert,
         alert.id \notin DOMAIN db.alerts,
         \A case \in DOMAIN db.cases : ~(db.cases[case].group = alert.group /\ db.cases[case].open),
         NEW case, case = Len(db.cases) + 1, NEW after, OneMore(db, copy, case, after),
         after.cases = Append(db.cases, Create(alert))
  PROVE  RowsHold(db, after) /\ case \in DOMAIN after.cases /\ after.cases[case].open
<1> DEFINE row == Create(alert)
           n   == Len(db.cases)
<1>1. \A c : CopiesOf(after, c) = IF c = case THEN CopiesOf(db, c) \cup {copy} ELSE CopiesOf(db, c)
  <2>1. GoesTo(db, copy, case)
    BY DEF GoesTo
  <2> QED
    BY <2>1, OneMoreFiled DEF CopyComes, DbHolds
<1>2. db.cases \in Seq(CaseRow)
  BY DEF CopyComes, DbHolds, DbShape
<1>3. n \in Nat /\ DOMAIN db.cases = 1 .. n /\ \A c \in DOMAIN db.cases : db.cases[c] \in CaseRow
  BY <1>2, RowsAre
<1>4. CaseStandsFor(row, {copy}) /\ row \in CaseRow /\ row.open /\ row.group = alert.group
  BY CreateStands DEF CaseStandsFor, CopyComes
<1> HIDE DEF row, n
<1>5. case \notin DOMAIN db.cases
  BY <1>3 DEF n
<1>6. CopiesOf(db, case) = {}
  <2>1. \A other \in db.stored : db.alerts[other[1].id] \in DOMAIN db.cases
    BY DEF CopyComes, DbHolds, DbShape
  <2> QED
    BY <1>5, <2>1 DEF CopiesOf
<1>7. CopiesOf(after, case) = {copy}
  BY <1>1, <1>6
<1>8. /\ after.cases \in Seq(CaseRow) /\ Len(after.cases) = n + 1
      /\ \A c \in 1 .. n : after.cases[c] = db.cases[c]
      /\ after.cases[n + 1] = row
  BY <1>2, <1>4, AppendProperties DEF row, n
<1>9. DOMAIN after.cases = 1 .. n + 1 /\ DOMAIN after.cases = DOMAIN db.cases \cup {case}
      /\ case = n + 1
  <2>1. DOMAIN after.cases = 1 .. n + 1
    BY <1>8, RowsAre
  <2> QED
    BY <1>3, <2>1 DEF n
<1>10. ASSUME NEW c \in DOMAIN db.cases
       PROVE  /\ CaseStandsFor(after.cases[c], CopiesOf(after, c)) /\ MovesAlong(db.cases[c], after.cases[c])
              /\ after.cases[c] = db.cases[c]
  <2>1. after.cases[c] = db.cases[c] /\ CopiesOf(after, c) = CopiesOf(db, c)
    BY <1>1, <1>3, <1>5, <1>8
  <2>2. CaseStandsFor(db.cases[c], CopiesOf(db, c)) /\ MovesAlong(db.cases[c], db.cases[c])
    BY <1>3, StaysAlong DEF CopyComes, DbHolds
  <2> QED
    BY <2>1, <2>2
<1>11. \A c \in DOMAIN after.cases : CaseStandsFor(after.cases[c], CopiesOf(after, c))
  BY <1>4, <1>7, <1>8, <1>9, <1>10
<1>12. after.cases[case] = row
  BY <1>8, <1>9
<1>13. OpenOnce(after) /\ StillOpen(db, after)
  BY <1>4, <1>9, <1>10, <1>12 DEF OpenOnce, StillOpen, CopyComes, DbHolds
<1> QED
  BY <1>4, <1>8, <1>9, <1>10, <1>11, <1>12, <1>13 DEF RowsHold, Advances

(* A copy of an alert that is there already finds its case open.             *)
Joins(db, copy) == copy[1].id \in DOMAIN db.alerts => db.cases[db.alerts[copy[1].id]].open

(* The database once a copy is folded in                                     *)
Folded(db, copy) ==
  [alerts |-> Grouped(db, copy[1]).alerts, cases |-> Grouped(db, copy[1]).cases,
   entities |-> Grouped(db, copy[1]).entities, links |-> Grouped(db, copy[1]).links,
   stored |-> db.stored \cup {copy}]

(* It is whole.                                                              *)
LEMMA GroupedKeeps ==
  ASSUME NEW db, NEW copy, CopyComes(db, copy), Joins(db, copy)
  PROVE  /\ DbHolds(Folded(db, copy)) /\ Advances(db, Folded(db, copy))
         /\ \A other \in Brought : Joins(db, other) => Joins(Folded(db, copy), other)
<1> DEFINE alert == copy[1]
           open  == { case \in DOMAIN db.cases : db.cases[case].group = alert.group /\ db.cases[case].open }
           case  == IF open = {} THEN Len(db.cases) + 1 ELSE CHOOSE c \in open : TRUE
<1>1. PICK after : after = Folded(db, copy)
  OBVIOUS
<1>2. after = [alerts   |-> [ id \in DOMAIN db.alerts \cup {alert.id} |->
                                IF id = alert.id THEN case ELSE db.alerts[id] ],
               cases    |-> IF open = {} THEN Append(db.cases, Create(alert))
                            ELSE [db.cases EXCEPT ![case] = Attach(@, alert)],
               entities |-> [ entity \in Entities |->
                                IF entity \in Touched(alert) THEN Upsert(db.entities[entity], alert.timestamp)
                                ELSE db.entities[entity] ],
               links    |-> db.links \cup { <<case, entity>> : entity \in Touched(alert) },
               stored   |-> db.stored \cup {copy}]
  BY <1>1 DEF Folded, Grouped
<1>3. PICK at : at = case
  OBVIOUS
<1>4. alert \in Alerts /\ copy \in Brought \ db.stored /\ DbHolds(db)
  BY DEF CopyComes, Brought
<1>5. alert.id \in DOMAIN db.alerts => open = {db.alerts[alert.id]}
  <2> SUFFICES ASSUME alert.id \in DOMAIN db.alerts  PROVE open = {db.alerts[alert.id]}
    OBVIOUS
  <2>1. PICK other \in db.stored : other[1].id = alert.id
    BY <1>4 DEF DbHolds, DbShape
  <2>2. other[1] = alert
    <3>1. other[1] \in Alerts
      BY <1>4 DEF DbHolds, DbShape, Brought
    <3> QED
      BY <1>4, <2>1, <3>1, CaseFileAssumption
  <2>3. PICK c \in DOMAIN db.cases : c = db.alerts[alert.id]
    BY <1>4 DEF DbHolds, DbShape
  <2>4. other \in CopiesOf(db, c)
    BY <2>1, <2>3 DEF CopiesOf
  <2>5. db.cases[c].group = alert.group
    BY <1>4, <2>2, <2>4 DEF DbHolds, CaseStandsFor
  <2>6. db.cases[c].open
    BY <2>3 DEF Joins
  <2>7. \A d \in open : d = c
    BY <1>4, <2>5, <2>6 DEF DbHolds, OpenOnce
  <2> QED
    BY <2>3, <2>5, <2>6, <2>7
<1>6. GoesTo(db, copy, at)
  BY <1>3, <1>5 DEF GoesTo
<1> HIDE DEF case
<1>7. OneMore(db, copy, at, after)
  BY <1>2, <1>3 DEF OneMore
<1>8. /\ after.entities \in [Entities -> {None} \cup EntityRow]
      /\ \A entity \in Entities : /\ EntityStandsFor(after.entities[entity], Naming(after, entity))
                                  /\ LinksTo(after, entity) = CasesNaming(after, entity)
  <2>1. after.entities = [ entity \in Entities |->
                             IF entity \in Touched(alert) THEN Upsert(db.entities[entity], alert.timestamp)
                             ELSE db.entities[entity] ]
    BY <1>2
  <2>2. after.links = db.links \cup { <<at, entity>> : entity \in Touched(alert) }
    BY <1>2, <1>3
  <2> QED
    BY <1>4, <1>6, <1>7, <2>1, <2>2, EntitiesFollow
<1>9. RowsHold(db, after) /\ at \in DOMAIN after.cases /\ after.cases[at].open
  <2>1. CASE open = {}
    <3>1. at = Len(db.cases) + 1 /\ after.cases = Append(db.cases, Create(alert)) /\ alert.id \notin DOMAIN db.alerts
      BY <1>2, <1>3, <1>5, <2>1 DEF case
    <3>2. \A c \in DOMAIN db.cases : ~(db.cases[c].group = alert.group /\ db.cases[c].open)
      BY <2>1
    <3> QED
      BY <1>4, <1>7, <3>1, <3>2, CaseOpened
  <2>2. CASE open # {}
    <3>1. at \in open
      BY <1>3, <2>2 DEF case
    <3>2. after.cases = [db.cases EXCEPT ![at] = Attach(@, alert)]
      BY <1>2, <1>3, <2>2
    <3>3. RowsHold(db, after)
      BY <1>4, <1>6, <1>7, <3>1, <3>2, CaseJoined
    <3> QED
      BY <3>1, <3>3 DEF RowsHold, Advances, StillOpen
  <2> QED
    BY <2>1, <2>2
<1> HIDE DEF open, alert
<1>10. /\ after = [alerts |-> after.alerts, cases |-> after.cases, entities |-> after.entities,
                   links |-> after.links, stored |-> after.stored]
       /\ after.stored = db.stored \cup {copy}
  BY <1>2
<1>11. after.links \subseteq (DOMAIN after.cases) \X Entities
  <2>1. after.links = db.links \cup { <<at, entity>> : entity \in Touched(alert) }
    BY <1>2, <1>3
  <2>2. db.links \subseteq (DOMAIN after.cases) \X Entities
    BY <1>4, <1>9 DEF RowsHold, Advances, DbHolds, DbShape
  <2> QED
    BY <1>4, <1>9, <2>1, <2>2, TouchedAre
<1>12. /\ after.alerts \in [DOMAIN after.alerts -> DOMAIN after.cases]
       /\ DOMAIN after.alerts = { other[1].id : other \in after.stored }
  <2>1. after.alerts = [ id \in DOMAIN db.alerts \cup {alert.id} |-> IF id = alert.id THEN at ELSE db.alerts[id] ]
    BY <1>7 DEF OneMore, alert
  <2>2. \A id \in DOMAIN db.alerts : db.alerts[id] \in DOMAIN after.cases
    BY <1>4, <1>9 DEF RowsHold, Advances, DbHolds, DbShape
  <2>3. DOMAIN db.alerts = { other[1].id : other \in db.stored }
    BY <1>4 DEF DbHolds, DbShape
  <2> QED
    BY <1>9, <1>10, <2>1, <2>2, <2>3 DEF alert
<1>13. after.stored \subseteq Brought /\ IsFiniteSet(after.stored)
  <2>1. db.stored \subseteq Brought /\ IsFiniteSet(db.stored)
    BY <1>4 DEF DbHolds, DbShape
  <2> QED
    BY <1>4, <1>10, <2>1, FS_AddElement
<1>14. DbHolds(after) /\ Advances(db, after)
  BY <1>8, <1>9, <1>10, <1>11, <1>12, <1>13 DEF RowsHold, DbHolds, DbShape
<1>15. ASSUME NEW other \in Brought, Joins(db, other)  PROVE Joins(after, other)
  <2>1. CASE other[1].id = alert.id
    BY <1>7, <1>9, <2>1 DEF OneMore, Joins, alert
  <2>2. CASE other[1].id # alert.id
    <3>1. other[1].id \in DOMAIN after.alerts =>
            /\ other[1].id \in DOMAIN db.alerts
            /\ after.alerts[other[1].id] = db.alerts[other[1].id]
            /\ db.alerts[other[1].id] \in DOMAIN db.cases
      BY <1>4, <1>7, <2>2 DEF OneMore, alert, DbHolds, DbShape
    <3> QED
      BY <1>9, <1>15, <3>1 DEF Joins, RowsHold, StillOpen
  <2> QED
    BY <2>1, <2>2
<1> QED
  BY <1>1, <1>14, <1>15

-----------------------------------------------------------------------------
(* The case file: the transactions                                           *)

(* It is whole at the start,                                                 *)
LEMMA EmptyHolds == DbHolds(Empty)
<1>1. PICK db : db = Empty
  OBVIOUS
<1>2. db = [alerts |-> << >>, cases |-> << >>, entities |-> [entity \in Entities |-> None], links |-> {},
            stored |-> {}]
  BY <1>1 DEF Empty
<1>3. db.stored = {} /\ db.cases \in Seq(CaseRow) /\ DOMAIN db.cases = {}
  BY <1>2
<1>4. DbShape(db) /\ OpenOnce(db)
  <2>1. db = [alerts |-> db.alerts, cases |-> db.cases, entities |-> db.entities, links |-> db.links,
              stored |-> db.stored]
    BY <1>2
  <2>2. db.alerts = << >> /\ DOMAIN db.alerts = {} /\ db.links = {}
    BY <1>2
  <2>3. db.alerts \in [DOMAIN db.alerts -> DOMAIN db.cases]
    BY <2>2
  <2>4. db.entities \in [Entities -> {None} \cup EntityRow]
    BY <1>2
  <2> QED
    BY <1>3, <2>1, <2>2, <2>3, <2>4, FS_EmptySet DEF DbShape, OpenOnce
<1>5. ASSUME NEW entity \in Entities
      PROVE  /\ EntityStandsFor(db.entities[entity], Naming(db, entity))
             /\ LinksTo(db, entity) = CasesNaming(db, entity)
  <2>1. Naming(db, entity) = {} /\ db.entities[entity] = None
    BY <1>2, <1>3 DEF Naming
  <2> QED
    BY <1>2, <2>1 DEF EntityStandsFor, LinksTo, CasesNaming, Of
<1> QED
  BY <1>1, <1>3, <1>4, <1>5 DEF DbHolds

(* and when a case is resolved.                                              *)
LEMMA ResolvedHolds ==
  ASSUME NEW db, DbHolds(db), NEW case \in DOMAIN db.cases
  PROVE  /\ DbHolds([db EXCEPT !.cases[case].open = FALSE])
         /\ Advances(db, [db EXCEPT !.cases[case].open = FALSE])
<1> DEFINE row == [db.cases[case] EXCEPT !.open = FALSE]
           n   == Len(db.cases)
<1>1. PICK after : after = [db EXCEPT !.cases[case].open = FALSE]
  OBVIOUS
<1>2. db = [alerts |-> db.alerts, cases |-> db.cases, entities |-> db.entities, links |-> db.links,
            stored |-> db.stored]
  BY DEF DbHolds, DbShape
<1>3. after = [db EXCEPT !.cases = [db.cases EXCEPT ![case] = row]]
  BY <1>1, <1>2
<1> HIDE DEF row
<1>4. after = [alerts |-> db.alerts, cases |-> [db.cases EXCEPT ![case] = row],
               entities |-> db.entities, links |-> db.links, stored |-> db.stored]
  BY <1>2, <1>3
<1>5. db.cases \in Seq(CaseRow)
  BY DEF DbHolds, DbShape
<1>6. n \in Nat /\ DOMAIN db.cases = 1 .. n /\ \A c \in DOMAIN db.cases : db.cases[c] \in CaseRow
  BY <1>5, RowsAre
<1> HIDE DEF n
<1>7. /\ row \in CaseRow /\ ~row.open /\ row.evidence = db.cases[case].evidence
      /\ row.last_seen = db.cases[case].last_seen /\ row.first_seen = db.cases[case].first_seen
      /\ row.alert_count = db.cases[case].alert_count /\ row.opened_by = db.cases[case].opened_by
      /\ row.group = db.cases[case].group
  BY <1>6 DEF CaseRow, row
<1>8. /\ DOMAIN after.cases = DOMAIN db.cases
      /\ \A c \in DOMAIN db.cases : after.cases[c] = IF c = case THEN row ELSE db.cases[c]
  BY <1>4
<1>9. after.cases \in Seq(CaseRow)
  <2>1. after.cases \in [1 .. n -> CaseRow]
    BY <1>4, <1>6, <1>7
  <2> QED
    BY <1>6, <2>1, SeqDef
<1>10. /\ after.stored = db.stored /\ after.alerts = db.alerts
       /\ \A c : CopiesOf(after, c) = CopiesOf(db, c)
       /\ \A e : Naming(after, e) = Naming(db, e)
       /\ \A e : LinksTo(after, e) = LinksTo(db, e) /\ CasesNaming(after, e) = CasesNaming(db, e)
  BY <1>4 DEF CopiesOf, Naming, LinksTo, CasesNaming, Of
<1>11. ASSUME NEW c \in DOMAIN db.cases
       PROVE  CaseStandsFor(after.cases[c], CopiesOf(after, c)) /\ MovesAlong(db.cases[c], after.cases[c])
  <2>1. CaseStandsFor(db.cases[c], CopiesOf(db, c)) /\ MovesAlong(db.cases[c], db.cases[c])
    BY <1>6, StaysAlong DEF DbHolds
  <2>2. CASE c = case
    <3>1. after.cases[c] = row
      BY <1>8, <2>2
    <3>2. CaseStandsFor(row, CopiesOf(db, case))
      BY <1>7, <2>1, <2>2 DEF CaseStandsFor, IsFirstAndLast, Opens
    <3>3. MovesAlong(db.cases[case], row)
      BY <1>7, <2>1, <2>2 DEF MovesAlong
    <3> QED
      BY <1>10, <2>2, <3>1, <3>2, <3>3
  <2>3. CASE c # case
    BY <1>8, <1>10, <2>1, <2>3
  <2> QED
    BY <2>2, <2>3
<1>12. DbShape(after)
  BY <1>4, <1>8, <1>9, <1>10 DEF DbHolds, DbShape
<1>13. \A entity \in Entities : /\ EntityStandsFor(after.entities[entity], Naming(after, entity))
                                /\ LinksTo(after, entity) = CasesNaming(after, entity)
  BY <1>4, <1>10 DEF DbHolds
<1>14. OpenOnce(after)
  BY <1>7, <1>8 DEF DbHolds, OpenOnce
<1>15. DbHolds(after) /\ Advances(db, after)
  BY <1>8, <1>11, <1>12, <1>13, <1>14 DEF DbHolds, Advances
<1> QED
  BY <1>1, <1>15

(* Cases move along from one transaction to the next.                        *)
LEMMA AdvancesFurther ==
  ASSUME NEW db, NEW next, NEW last, DbHolds(db), DbHolds(next), DbHolds(last),
         Advances(db, next), Advances(next, last)
  PROVE  Advances(db, last)
<1>1. DOMAIN db.cases \subseteq DOMAIN last.cases
  BY DEF Advances
<1>2. ASSUME NEW case \in DOMAIN db.cases
      PROVE  MovesAlong(db.cases[case], last.cases[case])
  <2>1. case \in DOMAIN next.cases /\ case \in DOMAIN last.cases
    BY DEF Advances
  <2>2. db.cases[case] \in CaseRow /\ next.cases[case] \in CaseRow /\ last.cases[case] \in CaseRow
    BY <2>1 DEF DbHolds, CaseStandsFor
  <2>3. MovesAlong(db.cases[case], next.cases[case]) /\ MovesAlong(next.cases[case], last.cases[case])
    BY <2>1 DEF Advances
  <2> QED
    BY <2>2, <2>3 DEF MovesAlong, CaseRow
<1> QED
  BY <1>1, <1>2 DEF Advances

(* A database that nothing happens to                                        *)
LEMMA StaysAsItIs ==
  ASSUME NEW db, DbHolds(db)
  PROVE  Advances(db, db)
BY StaysAlong DEF DbHolds, CaseStandsFor, Advances

(* What a transaction has folded in so far                                   *)
SoFar(db, left) == [alerts |-> db.alerts, cases |-> db.cases, entities |-> db.entities, links |-> db.links,
                   stored |-> db.stored \ left]

(* What it works on, and what it has still to fold in                        *)
WorkHolds(db, left) ==
  /\ db = [alerts |-> db.alerts, cases |-> db.cases, entities |-> db.entities, links |-> db.links,
           stored |-> db.stored]
  /\ left \subseteq db.stored /\ left \subseteq Brought
  /\ DbHolds(SoFar(db, left)) /\ Advances(file, SoFar(db, left))
  /\ \A copy \in left : Joins(SoFar(db, left), copy)

SessionHolds ==
  /\ session = [open |-> session.open, db |-> session.db, left |-> session.left]
  /\ session.open \in BOOLEAN /\ session.left \subseteq Brought
  /\ ~session.open => session.left = {}
  /\ session.open => WorkHolds(session.db, session.left)

FileHolds == DbHolds(file) /\ SessionHolds

(* A transaction that ends                                                   *)
LEMMA ClosedHolds ==
  ASSUME FileHolds, session' = Closed, DbHolds(file')
  PROVE  FileHolds'
<1>1. session' = [open |-> FALSE, db |-> Empty, left |-> {}]
  BY DEF Closed
<1>2. SessionHolds'
  BY <1>1 DEF SessionHolds
<1> QED
  BY <1>2 DEF FileHolds

(* A transaction that begins                                                 *)
LEMMA BatchBegins ==
  ASSUME DbHolds(file), NEW batch
  PROVE  WorkHolds([file EXCEPT !.stored = file.stored \cup Fresh(batch)], Fresh(batch))
<1>1. PICK base : base = file
  OBVIOUS
<1>2. PICK db : db = [base EXCEPT !.stored = base.stored \cup Fresh(batch)]
  OBVIOUS
<1>3. /\ base = [alerts |-> base.alerts, cases |-> base.cases, entities |-> base.entities,
                 links |-> base.links, stored |-> base.stored]
      /\ DOMAIN base.alerts = { copy[1].id : copy \in base.stored }
  BY <1>1 DEF DbHolds, DbShape
<1>4. db = [alerts |-> base.alerts, cases |-> base.cases, entities |-> base.entities, links |-> base.links,
            stored |-> base.stored \cup Fresh(batch)]
  BY <1>2, <1>3
<1>5. Fresh(batch) \subseteq Brought /\ \A copy \in Fresh(batch) : copy[1].id \notin DOMAIN base.alerts
  <2>1. 1 .. BatchSize \subseteq Nat
    BY CaseFileAssumption
  <2> QED
    BY <1>1, <2>1 DEF Fresh, Copies, Brought
<1>6. (base.stored \cup Fresh(batch)) \ Fresh(batch) = base.stored
  BY <1>3, <1>5
<1>7. SoFar(db, Fresh(batch)) = base
  BY <1>3, <1>4, <1>6 DEF SoFar
<1>8. Advances(file, base)
  BY <1>1, StaysAsItIs
<1>9. \A copy \in Fresh(batch) : Joins(base, copy)
  BY <1>5 DEF Joins
<1>10. /\ db = [alerts |-> db.alerts, cases |-> db.cases, entities |-> db.entities, links |-> db.links,
                stored |-> db.stored]
       /\ Fresh(batch) \subseteq db.stored
  BY <1>4
<1>11. WorkHolds(db, Fresh(batch))
  BY <1>1, <1>5, <1>7, <1>8, <1>9, <1>10 DEF WorkHolds
<1> QED
  BY <1>1, <1>2, <1>11

(* One copy more of its batch                                                *)
LEMMA CopyFolded ==
  ASSUME DbHolds(file), NEW db, NEW left, WorkHolds(db, left), NEW copy \in left
  PROVE  WorkHolds(Grouped(db, copy[1]), left \ {copy})
<1> DEFINE alert == copy[1]
           rest  == left \ {copy}
<1>1. PICK before : before = SoFar(db, left)
  OBVIOUS
<1>2. PICK after : after = Grouped(db, alert)
  OBVIOUS
<1>3. /\ before.alerts = db.alerts /\ before.cases = db.cases /\ before.entities = db.entities
      /\ before.links = db.links /\ before.stored = db.stored \ left
  BY <1>1 DEF SoFar
<1>4. /\ after.alerts = Grouped(before, alert).alerts /\ after.cases = Grouped(before, alert).cases
      /\ after.entities = Grouped(before, alert).entities /\ after.links = Grouped(before, alert).links
      /\ after.stored = db.stored
      /\ after = [alerts |-> after.alerts, cases |-> after.cases, entities |-> after.entities,
                  links |-> after.links, stored |-> after.stored]
  BY <1>2, <1>3 DEF Grouped
<1>5. copy \in db.stored /\ copy \in Brought /\ left \subseteq db.stored /\ left \subseteq Brought
  BY DEF WorkHolds
<1>6. db.stored \ rest = before.stored \cup {copy}
  BY <1>3, <1>5
<1>7. SoFar(after, rest) = Folded(before, copy)
  BY <1>4, <1>6 DEF SoFar, Folded
<1>8. CopyComes(before, copy) /\ Joins(before, copy) /\ Advances(file, before) /\ DbHolds(before)
  BY <1>1, <1>3, <1>5 DEF WorkHolds, CopyComes
<1>9. /\ DbHolds(Folded(before, copy)) /\ Advances(before, Folded(before, copy))
      /\ \A other \in Brought : Joins(before, other) => Joins(Folded(before, copy), other)
  BY <1>8, GroupedKeeps
<1>10. Advances(file, Folded(before, copy))
  BY <1>8, <1>9, AdvancesFurther
<1>11. \A other \in rest : Joins(Folded(before, copy), other)
  BY <1>1, <1>5, <1>9 DEF WorkHolds
<1> HIDE DEF rest, alert
<1>12. rest \subseteq after.stored /\ rest \subseteq Brought
  BY <1>4, <1>5 DEF rest
<1>13. WorkHolds(after, rest)
  BY <1>4, <1>7, <1>9, <1>10, <1>11, <1>12 DEF WorkHolds
<1> QED
  BY <1>2, <1>13 DEF rest, alert

(* A batch that is folded in as a whole                                      *)
LEMMA AllFolded ==
  ASSUME NEW db, WorkHolds(db, {})
  PROVE  DbHolds(db) /\ Advances(file, db)
<1>1. SoFar(db, {}) = db
  <2>1. db.stored \ {} = db.stored
    OBVIOUS
  <2> QED
    BY <2>1 DEF SoFar, WorkHolds
<1> QED
  BY <1>1 DEF WorkHolds

(* Every step leaves the database and the transaction whole, the database    *)
(* with the cases it had.                                                    *)
LEMMA FileStep ==
  ASSUME FileHolds, [FileNext]_fileVars
  PROVE  FileHolds' /\ Advances(file, file')
<1>1. DbHolds(file) /\ SessionHolds /\ Advances(file, file)
  BY StaysAsItIs DEF FileHolds
<1>2. ASSUME NEW batch, WriteBatch(batch)
      PROVE  FileHolds' /\ Advances(file, file')
  <2>1. PICK db : db = [file EXCEPT !.stored = file.stored \cup Fresh(batch)]
    OBVIOUS
  <2>2. session' = [open |-> TRUE, db |-> db, left |-> Fresh(batch)] /\ file' = file
    BY <1>2, <2>1 DEF WriteBatch
  <2>3. WorkHolds(db, Fresh(batch))
    BY <1>1, <2>1, BatchBegins
  <2>4. SessionHolds'
    BY <2>2, <2>3 DEF SessionHolds, WorkHolds
  <2> QED
    BY <1>1, <2>2, <2>4 DEF FileHolds
<1>3. ASSUME NEW copy \in session.left, Group(copy)
      PROVE  FileHolds' /\ Advances(file, file')
  <2>1. PICK work, left : work = session.db /\ left = session.left
    OBVIOUS
  <2>2. PICK db : db = Grouped(work, copy[1])
    OBVIOUS
  <2>3. session' = [session EXCEPT !.db = db, !.left = left \ {copy}] /\ file' = file
    BY <1>3, <2>1, <2>2 DEF Group
  <2>4. session.open /\ WorkHolds(work, left)
    BY <1>1, <1>3, <2>1 DEF SessionHolds
  <2>5. session' = [open |-> TRUE, db |-> db, left |-> left \ {copy}]
    BY <1>1, <2>3, <2>4 DEF SessionHolds
  <2>6. WorkHolds(db, left \ {copy})
    BY <1>1, <1>3, <2>1, <2>2, <2>4, CopyFolded
  <2>7. SessionHolds'
    <3>1. /\ session'.open = TRUE /\ session'.db = db /\ session'.left = left \ {copy}
          /\ session' = [open |-> session'.open, db |-> session'.db, left |-> session'.left]
      BY <2>5
    <3>2. left \ {copy} \subseteq Brought
      BY <2>6 DEF WorkHolds
    <3>3. PICK rest : rest = left \ {copy}
      OBVIOUS
    <3>4. WorkHolds(db, rest)'
      BY <2>3, <2>6, <3>3 DEF WorkHolds
    <3> QED
      BY <3>1, <3>2, <3>3, <3>4 DEF SessionHolds
  <2> QED
    BY <1>1, <2>3, <2>7 DEF FileHolds
<1>4. ASSUME Commit
      PROVE  FileHolds' /\ Advances(file, file')
  <2>1. file' = session.db /\ session' = Closed /\ session.open /\ session.left = {}
    BY <1>4 DEF Commit
  <2>2. DbHolds(session.db) /\ Advances(file, session.db)
    BY <1>1, <2>1, AllFolded DEF SessionHolds
  <2>3. DbHolds(file')
    BY <2>1, <2>2
  <2> QED
    BY <2>1, <2>2, <2>3, ClosedHolds
<1>5. ASSUME Fail
      PROVE  FileHolds' /\ Advances(file, file')
  <2>1. file' = file /\ session' = Closed
    BY <1>5 DEF Fail
  <2>2. DbHolds(file')
    BY <1>1, <2>1
  <2> QED
    BY <1>1, <2>1, <2>2, ClosedHolds
<1>6. ASSUME NEW case \in DOMAIN file.cases, Resolve(case)
      PROVE  FileHolds' /\ Advances(file, file')
  <2>1. file' = [file EXCEPT !.cases[case].open = FALSE] /\ session' = session /\ ~session.open
    BY <1>6 DEF Resolve
  <2>2. DbHolds(file') /\ Advances(file, file')
    BY <1>1, <2>1, ResolvedHolds
  <2>3. SessionHolds'
    BY <1>1, <2>1 DEF SessionHolds
  <2> QED
    BY <2>2, <2>3 DEF FileHolds
<1>7. ASSUME UNCHANGED <<file, session>>
      PROVE  FileHolds' /\ Advances(file, file')
  <2>1. SessionHolds'
    BY <1>1, <1>7 DEF SessionHolds, WorkHolds
  <2> QED
    BY <1>1, <1>7, <2>1 DEF FileHolds
<1>8. CASE UNCHANGED fileVars
  BY <1>7, <1>8 DEF fileVars
<1>9. (\E sort \in Sorts, descending, open_only \in BOOLEAN : FirstCases(sort, descending, open_only))
      \/ FurtherCases \/ CloseCases => UNCHANGED <<file, session>>
  BY DEF FirstCases, FurtherCases, CloseCases
<1> QED
  BY <1>2, <1>3, <1>4, <1>5, <1>6, <1>7, <1>8, <1>9 DEF FileNext

(* The database is empty at first.                                           *)
LEMMA FileStarts ==
  ASSUME FileInit
  PROVE  FileHolds
<1>1. DbHolds(file)
  BY EmptyHolds DEF FileInit
<1>2. session = [open |-> FALSE, db |-> Empty, left |-> {}]
  BY DEF FileInit, Closed
<1> QED
  BY <1>1, <1>2 DEF FileHolds, SessionHolds

(* The inductive invariant of the case file                                  *)
LEMMA FileHoldsAlways == FileSpec => []FileHolds
<1>1. FileInit => FileHolds
  BY FileStarts
<1>2. FileHolds /\ [FileNext]_fileVars => FileHolds'
  BY FileStep
<1> QED
  BY <1>1, <1>2, PTL DEF FileSpec

(* Cases and entities count the copies that came with the batch that stored  *)
(* their alert and no later one, span the times of their alerts and are      *)
(* linked to them, for any number of alerts and cases, whatever comes late   *)
(* or again and whichever transactions fail (attach_or_create,               *)
(* upsert_and_link).                                                         *)
THEOREM RowsAddUpAlways == FileSpec => []RowsAddUp
<1>1. FileHolds => RowsAddUp
  BY DEF FileHolds, RowsAddUp, DbHolds, CaseStandsFor, EntityStandsFor, LinksTo, CasesNaming,
         CaseSpansItsAlerts, EntitiesAddUp
<1> QED
  BY <1>1, FileHoldsAlways, PTL

(* A snapshot that lacks anything says so, none exceeds its budget, and the  *)
(* first document is the last thing given up, for any budget and any limits  *)
(* on entities (incidents/evidence.py).                                      *)
THEOREM SnapshotsKeepFaith == FileSpec => []SnapshotKeepsFaith
<1>1. ASSUME FileHolds, NEW case \in DOMAIN file.cases
      PROVE  CaseStandsFor(file.cases[case], CopiesOf(file, case))
  BY <1>1 DEF FileHolds, DbHolds
<1>2. ASSUME FileHolds  PROVE EvidenceIsHonest(file)
  BY <1>1, <1>2 DEF CaseStandsFor, Honest, EvidenceIsHonest
<1>3. ASSUME FileHolds  PROVE FirstGoesLast(file)
  <2> SUFFICES ASSUME NEW case \in DOMAIN file.cases
               PROVE  LET evidence == file.cases[case].evidence
                          opener   == CHOOSE alert \in Alerts : alert.id = file.cases[case].opened_by
                      IN /\ Fits(evidence)
                         /\ evidence.first.ecs # opener.ecs => opener.ecs + FewEntities > MaxBytes
    BY DEF FirstGoesLast
  <2>1. PICK opener \in Of(CopiesOf(file, case)) : Opens(opener, file.cases[case])
    BY <1>1, <1>3 DEF CaseStandsFor
  <2>2. opener \in Alerts /\ opener.id = file.cases[case].opened_by
    <3>1. file.stored \subseteq Brought
      BY <1>3 DEF FileHolds, DbHolds, DbShape
    <3> QED
      BY <2>1, <3>1 DEF Of, CopiesOf, Brought, Opens
  <2>3. (CHOOSE alert \in Alerts : alert.id = file.cases[case].opened_by) = opener
    BY <2>2, CaseFileAssumption
  <2> QED
    BY <1>1, <1>3, <2>1, <2>3 DEF CaseStandsFor, Opens
<1>4. FileHolds => SnapshotKeepsFaith
  BY <1>2, <1>3 DEF SnapshotKeepsFaith
<1> QED
  BY <1>4, FileHoldsAlways, PTL

-----------------------------------------------------------------------------
(* The list of cases *)

Seat(sort, case) == <<Key(sort, case), case>>

(* Cases move to where the list is read to.                                 *)
WithThem(state) == state.descending = (state.sort = "first_seen") \/ state.sort = "number"
Against(state)  == state.descending # (state.sort = "first_seen") \/ state.sort = "number"

ListingShape(state) ==
  /\ state = [phase |-> state.phase, sort |-> state.sort, descending |-> state.descending,
              open_only |-> state.open_only, cursor |-> state.cursor, listed |-> state.listed,
              there |-> state.there, still |-> state.still, tied |-> state.tied]
  /\ state.sort \in Sorts \cup {"number"} /\ state.descending \in BOOLEAN /\ state.open_only \in BOOLEAN
  /\ state.cursor = Start \/ state.cursor \in Pairs
  /\ state.listed \in Seq(DOMAIN file.cases) /\ state.there \subseteq DOMAIN file.cases

(* Between two pages: a row that has kept its place was shown, is tied or is *)
(* to come; so is every case that was there all the time, if cases move      *)
(* along; and if they move the other way, those that were shown are not to   *)
(* come again.  No two cases have the same number.                           *)
Leafing(state) ==
  /\ \A row \in state.still :
       row[2] \in In(state.listed) \cup state.tied \/ Beyond(row, state.cursor, state.descending)
  /\ WithThem(state) =>
       \A case \in state.there :
         \/ case \in In(state.listed) \cup state.tied
         \/ Beyond(Seat(state.sort, case), state.cursor, state.descending)
  /\ state.sort = "number" => state.tied = {}
  /\ Against(state) =>
       /\ IsInjective(state.listed)
       /\ \A case \in In(state.listed) : ~Beyond(Seat(state.sort, case), state.cursor, state.descending)

ListingHolds ==
  /\ ListingShape(listing) /\ listing.phase \in {"idle", "paging", "shown"}
  /\ listing.phase = "paging" => Leafing(listing)
  /\ CaseListIsWhole

(* The column a case is listed by, when the database moves along             *)
LEMMA KeysMove ==
  ASSUME FileHolds, FileHolds', Advances(file, file'), NEW sort \in Sorts \cup {"number"},
         NEW case \in DOMAIN file.cases
  PROVE  /\ Key(sort, case) \in Int /\ Key(sort, case)' \in Int /\ case \in Int
         /\ sort = "number" => Key(sort, case)' = Key(sort, case)
         /\ sort = "first_seen" => Key(sort, case)' <= Key(sort, case)
         /\ sort # "first_seen" => Key(sort, case)' >= Key(sort, case)
<1>1. sort \in {"last_seen", "first_seen", "number", "alert_count"}
  BY CaseFileAssumption
<1>2. file.cases \in Seq(CaseRow) /\ file'.cases \in Seq(CaseRow)
  BY DEF FileHolds, DbHolds, DbShape
<1>3. case \in DOMAIN file'.cases /\ MovesAlong(file.cases[case], file'.cases[case])
  BY DEF Advances
<1>4. case \in Nat /\ file.cases[case] \in CaseRow /\ file'.cases[case] \in CaseRow
  BY <1>2, <1>3, RowsAre
<1>5. PICK row \in CaseRow, after \in CaseRow : row = file.cases[case] /\ after = file'.cases[case]
  BY <1>4
<1>6. /\ row.last_seen \in Nat /\ row.first_seen \in Nat /\ row.alert_count \in Nat
      /\ after.last_seen \in Nat /\ after.first_seen \in Nat /\ after.alert_count \in Nat
      /\ after.last_seen >= row.last_seen /\ after.first_seen <= row.first_seen
      /\ after.alert_count >= row.alert_count
  BY <1>3, <1>5 DEF CaseRow, MovesAlong
<1>7. /\ Key(sort, case) = IF sort = "number" THEN case ELSE row[sort]
      /\ Key(sort, case)' = IF sort = "number" THEN case ELSE after[sort]
  BY <1>5 DEF Key
<1> QED
  BY <1>1, <1>4, <1>6, <1>7

(* What moves along stays to come; what moves the other way does not come    *)
(* again.                                                                    *)
LEMMA SeatsMove ==
  ASSUME FileHolds, FileHolds', Advances(file, file'), NEW state, ListingShape(state),
         NEW case \in DOMAIN file.cases
  PROVE  /\ /\ WithThem(state)
            /\ Beyond(Seat(state.sort, case), state.cursor, state.descending)
            => Beyond(Seat(state.sort, case)', state.cursor, state.descending)
         /\ /\ Against(state)
            /\ ~Beyond(Seat(state.sort, case), state.cursor, state.descending)
            => ~Beyond(Seat(state.sort, case)', state.cursor, state.descending)
<1>1. PICK sort \in Sorts \cup {"number"}, descending \in BOOLEAN, cursor \in {Start} \cup Pairs :
        sort = state.sort /\ descending = state.descending /\ cursor = state.cursor
  BY DEF ListingShape
<1>2. /\ Key(sort, case) \in Int /\ Key(sort, case)' \in Int /\ case \in Int
      /\ sort = "number" => Key(sort, case)' = Key(sort, case)
      /\ sort = "first_seen" => Key(sort, case)' <= Key(sort, case)
      /\ sort # "first_seen" => Key(sort, case)' >= Key(sort, case)
  BY KeysMove
<1>3. PICK key \in Int, later \in Int : key = Key(sort, case) /\ later = Key(sort, case)'
  BY <1>2
<1>4. Seat(sort, case) = <<key, case>> /\ Seat(sort, case)' = <<later, case>>
  BY <1>3 DEF Seat
<1>5. CASE cursor = Start
  BY <1>1, <1>5 DEF Beyond
<1>6. CASE cursor \in Pairs /\ cursor # Start
  <2>1. cursor[1] \in Int
    BY <1>6 DEF Pairs
  <2>2. /\ Beyond(<<key, case>>, cursor, descending) <=> IF descending THEN key < cursor[1] ELSE cursor[1] < key
        /\ Beyond(<<later, case>>, cursor, descending) <=>
             IF descending THEN later < cursor[1] ELSE cursor[1] < later
    BY <1>6 DEF Beyond
  <2>3. /\ sort = "number" => later <= key /\ key <= later
        /\ sort = "first_seen" => later <= key
        /\ sort # "first_seen" => key <= later
    BY <1>2, <1>3
  <2>4. WithThem(state) /\ Beyond(<<key, case>>, cursor, descending) => Beyond(<<later, case>>, cursor, descending)
    BY <1>1, <2>1, <2>2, <2>3 DEF WithThem
  <2>5. Against(state) /\ ~Beyond(<<key, case>>, cursor, descending) => ~Beyond(<<later, case>>, cursor, descending)
    BY <1>1, <2>1, <2>2, <2>3 DEF Against
  <2> QED
    BY <1>1, <1>4, <2>4, <2>5
<1> QED
  BY <1>1, <1>5, <1>6

(* Whatever becomes of the cases, the list stays what it was.               *)
LEMMA ListingKept ==
  ASSUME FileHolds, FileHolds', Advances(file, file'), ListingHolds, listing' = listing
  PROVE  ListingHolds'
<1>1. ListingShape(listing) /\ DOMAIN file.cases \subseteq DOMAIN file'.cases
  BY DEF ListingHolds, Advances
<1>2. PICK leafed : leafed = listing
  OBVIOUS
<1>3. ListingShape(leafed)'
  <2>1. leafed.listed \in Seq(DOMAIN file'.cases)
    <3>1. leafed.listed \in Seq(DOMAIN file.cases)
      BY <1>1, <1>2 DEF ListingShape
    <3>2. PICK S, T : S = DOMAIN file.cases /\ T = DOMAIN file'.cases
      OBVIOUS
    <3>3. S \subseteq T /\ leafed.listed \in Seq(S)
      BY <1>1, <3>1, <3>2
    <3>4. leafed.listed \in Seq(T)
      BY <3>3
    <3> QED
      BY <3>2, <3>4
  <2> QED
    BY <1>1, <1>2, <2>1 DEF ListingShape
<1>4. ASSUME Leafing(leafed)  PROVE Leafing(leafed)'
  <2>1. In(leafed.listed) \subseteq DOMAIN file.cases
    <3>1. leafed.listed \in Seq(DOMAIN file.cases)
      BY <1>1, <1>2 DEF ListingShape
    <3>2. \A i \in 1 .. Len(leafed.listed) : leafed.listed[i] \in DOMAIN file.cases
      BY <3>1, ElementOfSeq
    <3>3. DOMAIN leafed.listed = 1 .. Len(leafed.listed)
      BY <3>1, LenProperties
    <3> QED
      BY <3>2, <3>3 DEF In
  <2>2. \A case \in DOMAIN file.cases :
          /\ /\ WithThem(leafed)
             /\ Beyond(Seat(leafed.sort, case), leafed.cursor, leafed.descending)
             => Beyond(Seat(leafed.sort, case)', leafed.cursor, leafed.descending)
          /\ /\ Against(leafed)
             /\ ~Beyond(Seat(leafed.sort, case), leafed.cursor, leafed.descending)
             => ~Beyond(Seat(leafed.sort, case)', leafed.cursor, leafed.descending)
    BY <1>1, <1>2, SeatsMove
  <2>3. leafed.there \subseteq DOMAIN file.cases
    BY <1>1, <1>2 DEF ListingShape
  <2> QED
    BY <1>4, <2>1, <2>2, <2>3 DEF Leafing
<1>5. leafed' = leafed
  BY <1>2
<1> QED
  BY <1>2, <1>3, <1>4 DEF ListingHolds, CaseListIsWhole

RowsOf(sort, cases) == { <<Key(sort, case), case>> : case \in cases }

(* The rows of some cases are a finite set of pairs, one for each.           *)
LEMMA CasesArePairs ==
  ASSUME FileHolds, NEW sort \in Sorts \cup {"number"}, NEW cases \in SUBSET DOMAIN file.cases
  PROVE  /\ RowsOf(sort, cases) \in SUBSET Pairs /\ IsFiniteSet(RowsOf(sort, cases))
         /\ \A case \in cases : Seat(sort, case) \in RowsOf(sort, cases) /\ Seat(sort, case)[2] = case
         /\ \A row \in RowsOf(sort, cases) : row[2] \in cases /\ row = Seat(sort, row[2]) /\ row # Start
<1>1. Advances(file, file) /\ DbHolds(file)
  BY StaysAsItIs DEF FileHolds
<1>2. file.cases \in Seq(CaseRow)
  BY <1>1 DEF DbHolds, DbShape
<1>3. ASSUME NEW case \in DOMAIN file.cases  PROVE Key(sort, case) \in Int /\ case \in Int
  <2>1. sort \in {"last_seen", "first_seen", "number", "alert_count"}
    BY CaseFileAssumption
  <2>2. case \in Nat /\ file.cases[case] \in CaseRow
    BY <1>2, RowsAre
  <2>3. PICK row \in CaseRow : row = file.cases[case]
    BY <2>2
  <2>4. row.last_seen \in Nat /\ row.first_seen \in Nat /\ row.alert_count \in Nat
    BY DEF CaseRow
  <2>5. Key(sort, case) = IF sort = "number" THEN case ELSE row[sort]
    BY <2>3 DEF Key
  <2> QED
    BY <2>1, <2>2, <2>4, <2>5
<1>4. RowsOf(sort, cases) = { Seat(sort, case) : case \in cases }
  BY DEF RowsOf, Seat
<1>5. \A case \in cases : Seat(sort, case) \in Pairs /\ Seat(sort, case)[2] = case
  BY <1>3 DEF Seat, Pairs
<1>6. Start \notin Pairs
  BY CaseFileAssumption DEF Pairs
<1>7. IsFiniteSet(RowsOf(sort, cases))
  <2> DEFINE seat == [case \in cases |-> Seat(sort, case)]
  <2>1. seat \in Surjection(cases, RowsOf(sort, cases))
    BY <1>4 DEF Surjection
  <2>2. IsFiniteSet(DOMAIN file.cases)
    <3>1. Len(file.cases) \in Nat /\ DOMAIN file.cases = 1 .. Len(file.cases)
      BY <1>2, RowsAre
    <3>2. PICK n \in Nat : n = Len(file.cases)
      BY <3>1
    <3>3. IsFiniteSet(1 .. n)
      BY FS_Interval
    <3> QED
      BY <3>1, <3>2, <3>3
  <2>3. IsFiniteSet(cases)
    BY <2>2, FS_Subset
  <2> HIDE DEF seat
  <2> QED
    BY <2>1, <2>3, FS_Surjection
<1> QED
  BY <1>4, <1>5, <1>6, <1>7

(* The next page of a list that is leafed through.                          *)
LEMMA CasesListed ==
  ASSUME FileHolds, NEW state, ListingShape(state), Leafing(state), ListCases(state), file' = file
  PROVE  ListingHolds'
<1> DEFINE matching  == Matching(state.open_only)
           rows      == RowsOf(state.sort, matching)
           page      == Page(rows, state.cursor, state.descending, PageSize)
           next      == NextCursor(rows, state.cursor, state.descending, PageSize)
           remaining == Remaining(rows, state.cursor, state.descending)
           shown     == [ i \in DOMAIN page |-> page[i][2] ]
           listed    == state.listed \o shown
           phase     == IF next = Start THEN "shown" ELSE "paging"
           there     == state.there \cap matching
           still     == state.still \cap rows
           tied      == IF next = Start THEN state.tied ELSE state.tied \cup Tied(rows, next, state.descending)
           cases     == DOMAIN file.cases
           seat(case) == Seat(state.sort, case)
<1>1. listing' = [phase |-> phase, sort |-> state.sort, descending |-> state.descending,
                  open_only |-> state.open_only, cursor |-> next, listed |-> listed,
                  there |-> there, still |-> still, tied |-> tied]
  <2>1. listing' = [state EXCEPT !.phase = phase, !.cursor = next, !.listed = state.listed \o shown,
                                 !.there = state.there \cap matching, !.still = state.still \cap rows,
                                 !.tied = tied]
    BY DEF ListCases, RowsOf
  <2>2. state = [phase |-> state.phase, sort |-> state.sort, descending |-> state.descending,
                 open_only |-> state.open_only, cursor |-> state.cursor, listed |-> state.listed,
                 there |-> state.there, still |-> state.still, tied |-> state.tied]
    BY DEF ListingShape
  <2> HIDE DEF phase, next, shown, matching, rows, tied
  <2> QED
    BY <2>1, <2>2
<1>2. /\ rows \in SUBSET Pairs /\ IsFiniteSet(rows)
      /\ \A case \in matching : seat(case) \in rows /\ seat(case)[2] = case
      /\ \A row \in rows : row[2] \in matching /\ row = seat(row[2]) /\ row # Start
  <2>1. state.sort \in Sorts \cup {"number"} /\ matching \in SUBSET DOMAIN file.cases
    BY DEF ListingShape, Matching
  <2> HIDE DEF matching
  <2> QED
    BY <2>1, CasesArePairs
<1>3. matching \subseteq cases
  BY DEF Matching
<1>4. PICK size :
        /\ IsPage(page, size, remaining, state.descending)
        /\ \/ next = Start /\ \A row \in remaining : \E i \in 1 .. size : page[i] = row
           \/ size # 0 /\ next = page[size]
  <2>1. PageSize \in Nat \ {0} /\ state.descending \in BOOLEAN
    BY CaseFileAssumption DEF ListingShape
  <2>2. Turned(page, next, remaining, state.descending)
    <3> HIDE DEF rows
    <3> QED
      BY <1>2, <2>1, Pages
  <2> HIDE DEF page, next, remaining
  <2> QED
    BY <2>2 DEF Turned
<1>5. remaining = { row \in rows : Beyond(row, state.cursor, state.descending) }
  BY DEF Remaining
<1>6. /\ size \in Nat /\ page \in [1 .. size -> remaining]
      /\ \A i, j \in 1 .. size : page[i] = page[j] => i = j
  BY <1>4 DEF IsPage
<1>7. shown = [ i \in DOMAIN page |-> page[i][2] ] /\ listed = state.listed \o shown
  OBVIOUS
<1>8. phase = (IF next = Start THEN "shown" ELSE "paging") /\ there = state.there \cap matching
      /\ still = state.still \cap rows
      /\ tied = IF next = Start THEN state.tied ELSE state.tied \cup Tied(rows, next, state.descending)
  OBVIOUS
<1> HIDE DEF matching, rows, page, next, remaining, shown, listed, phase, there, still, tied, cases
<1>9. ASSUME NEW i \in 1 .. size
      PROVE  /\ shown[i] \in matching /\ page[i] = seat(shown[i]) /\ page[i] \in Pairs /\ page[i] # Start
             /\ Beyond(page[i], state.cursor, state.descending)
  <2>1. page[i] \in rows /\ Beyond(page[i], state.cursor, state.descending)
    BY <1>5, <1>6
  <2>2. shown[i] = page[i][2]
    BY <1>6, <1>7
  <2> QED
    BY <1>2, <2>1, <2>2
<1> HIDE DEF seat
<1>10. /\ shown \in [1 .. size -> cases] /\ DOMAIN shown = 1 .. size
       /\ \A i, j \in 1 .. size : shown[i] = shown[j] => i = j
  <2>1. shown \in [1 .. size -> cases]
    BY <1>3, <1>6, <1>7, <1>9
  <2> QED
    BY <1>6, <1>9, <2>1
<1>11. /\ listed \in Seq(cases) /\ In(listed) = In(state.listed) \cup In(shown)
       /\ /\ IsInjective(state.listed)
          /\ \A i \in 1 .. size : shown[i] \notin In(state.listed)
          => IsInjective(listed)
  <2>1. state.listed \in Seq(cases)
    BY DEF ListingShape, cases
  <2>2. size \in Nat
    BY <1>6
  <2>3. /\ state.listed \o shown \in Seq(cases) /\ In(state.listed \o shown) = In(state.listed) \cup In(shown)
        /\ /\ IsInjective(state.listed)
           /\ \A i, j \in 1 .. size : shown[i] = shown[j] => i = j
           /\ \A i \in 1 .. size : shown[i] \notin In(state.listed)
           => IsInjective(state.listed \o shown)
    BY <1>10, <2>1, <2>2, Continued
  <2> QED
    BY <1>7, <1>10, <2>3
<1>12. /\ next = Start => \A row \in remaining : row[2] \in In(listed)
       /\ next # Start => /\ next \in Pairs /\ Beyond(next, state.cursor, state.descending)
                          /\ \A i \in 1 .. size : ~Follows(page[i], next, state.descending)
                          /\ \A row \in remaining : row[2] \in In(listed) \/ Follows(row, next, state.descending)
  <2>1. \A i \in 1 .. size : page[i][2] \in In(listed)
    BY <1>6, <1>7, <1>10, <1>11 DEF In
  <2>2. size # 0 => size \in 1 .. size
    BY <1>6
  <2>3. CASE next = Start
    <3>1. size # 0 => page[size] # Start
      BY <1>9, <2>2
    <3>2. \A row \in remaining : \E i \in 1 .. size : page[i] = row
      BY <1>4, <2>3, <3>1
    <3> QED
      BY <2>1, <2>3, <3>2
  <2>4. CASE next # Start
    <3>1. size # 0 /\ next = page[size] /\ size \in 1 .. size
      BY <1>4, <2>2, <2>4
    <3> QED
      BY <1>4, <1>9, <2>1, <2>4, <3>1 DEF IsPage
  <2> QED
    BY <2>3, <2>4
<1>13. ASSUME NEW row \in rows, Beyond(row, state.cursor, state.descending)
       PROVE  row[2] \in In(listed) \cup tied \/ (next # Start /\ Beyond(row, next, state.descending))
  <2>1. row[2] \in In(listed) \/ (next # Start /\ Follows(row, next, state.descending))
    BY <1>5, <1>12, <1>13
  <2>2. CASE next # Start /\ Follows(row, next, state.descending)
    <3>1. row \in Pairs /\ next \in Pairs /\ state.descending \in BOOLEAN
      BY <1>2, <1>12, <2>2 DEF ListingShape
    <3>2. \A table : row \in table /\ Follows(row, next, state.descending)
                    => Beyond(row, next, state.descending) \/ row[2] \in Tied(table, next, state.descending)
      BY <2>2, <3>1, BeyondAndFollows
    <3>3. tied = state.tied \cup Tied(rows, next, state.descending)
      BY <1>8, <2>2
    <3> QED
      BY <2>2, <3>2, <3>3
  <2> QED
    BY <2>1, <2>2
<1>23. state.tied \subseteq tied /\ In(state.listed) \subseteq In(listed)
  BY <1>8, <1>11
<1>14. \A row \in still : row[2] \in In(listed) \cup tied \/ (next # Start /\ Beyond(row, next, state.descending))
  BY <1>8, <1>13, <1>23 DEF Leafing
<1>15. ASSUME WithThem(state), NEW case \in there
       PROVE  case \in In(listed) \cup tied \/ (next # Start /\ Beyond(seat(case), next, state.descending))
  <2>1. case \in state.there /\ case \in matching /\ seat(case) \in rows /\ seat(case)[2] = case
    BY <1>2, <1>8 DEF seat
  <2>2. case \in In(state.listed) \cup state.tied \/ Beyond(seat(case), state.cursor, state.descending)
    BY <1>15, <2>1 DEF Leafing, seat
  <2> QED
    BY <1>13, <1>23, <2>1, <2>2
<1>16. ASSUME Against(state)
       PROVE  /\ IsInjective(listed)
              /\ next # Start => \A case \in In(listed) : ~Beyond(seat(case), next, state.descending)
  <2>1. /\ IsInjective(state.listed)
        /\ \A case \in In(state.listed) : ~Beyond(seat(case), state.cursor, state.descending)
    BY <1>16 DEF Leafing, seat
  <2>2. \A i \in 1 .. size : shown[i] \notin In(state.listed)
    BY <1>9, <2>1
  <2>3. IsInjective(listed)
    BY <1>11, <2>1, <2>2
  <2>4. ASSUME next # Start, NEW case \in In(listed)  PROVE ~Beyond(seat(case), next, state.descending)
    <3>1. CASE case \in In(state.listed)
      <4>1. ~Beyond(seat(case), state.cursor, state.descending)
        BY <2>1, <3>1
      <4>2. /\ state.cursor \in Pairs /\ state.cursor # Start /\ next \in Pairs
            /\ Beyond(next, state.cursor, state.descending)
        BY <1>12, <2>4, <4>1 DEF ListingShape, Beyond
      <4>3. seat(case) \in Pairs
        <5>1. case \in cases
          <6>1. In(state.listed) \subseteq cases
            <7>1. state.listed \in Seq(cases)
              BY DEF ListingShape, cases
            <7>2. \A i \in 1 .. Len(state.listed) : state.listed[i] \in cases
              BY <7>1, ElementOfSeq
            <7>3. DOMAIN state.listed = 1 .. Len(state.listed)
              BY <7>1, LenProperties
            <7> QED
              BY <7>2, <7>3 DEF In
          <6> QED
            BY <3>1, <6>1
        <5>2. state.sort \in Sorts \cup {"number"} /\ cases \in SUBSET DOMAIN file.cases
          BY DEF ListingShape, cases
        <5>3. RowsOf(state.sort, cases) \in SUBSET Pairs /\ Seat(state.sort, case) \in RowsOf(state.sort, cases)
          BY <5>1, <5>2, CasesArePairs
        <5> QED
          BY <5>3 DEF seat
      <4>4. state.descending \in BOOLEAN
        BY DEF ListingShape
      <4> QED
        BY <2>4, <4>1, <4>2, <4>3, <4>4, BeyondAndFollows
    <3>2. CASE case \in In(shown)
      <4>1. PICK i \in 1 .. size : shown[i] = case
        BY <1>10, <3>2 DEF In
      <4>2. page[i] = seat(case)
        BY <1>9, <4>1
      <4>3. ~Follows(page[i], next, state.descending) /\ page[i] \in Pairs /\ next \in Pairs
        BY <1>9, <1>12, <2>4
      <4>4. state.descending \in BOOLEAN
        BY DEF ListingShape
      <4> QED
        BY <2>4, <4>2, <4>3, <4>4, BeyondAndFollows
    <3> QED
      BY <1>11, <3>1, <3>2
  <2> QED
    BY <2>3, <2>4
<1>24. state.sort = "number" => tied = {}
  <2> SUFFICES ASSUME state.sort = "number", next # Start  PROVE tied = {}
    BY <1>8 DEF Leafing
  <2>1. \A row \in rows : row = <<row[2], row[2]>>
    BY <1>2 DEF seat, Seat, Key
  <2>2. next = page[size] /\ size \in 1 .. size
    BY <1>4, <1>6
  <2>3. next \in rows
    BY <1>5, <1>6, <2>2
  <2>4. \A row \in rows : row[1] = next[1] => row = next
    BY <2>1, <2>3
  <2>5. ~Follows(next, next, state.descending)
    BY <1>12, <2>2
  <2>6. Tied(rows, next, state.descending) = {}
    BY <2>4, <2>5 DEF Tied
  <2> QED
    BY <1>8, <2>6 DEF Leafing
<1>17. PICK after : after = listing'
  OBVIOUS
<1>18. after = [phase |-> phase, sort |-> state.sort, descending |-> state.descending,
                open_only |-> state.open_only, cursor |-> next, listed |-> listed,
                there |-> there, still |-> still, tied |-> tied]
  BY <1>1, <1>17
<1>19. ListingShape(after) /\ after.phase \in {"idle", "paging", "shown"}
  <2>1. next = Start \/ next \in Pairs
    BY <1>12
  <2>2. there \subseteq cases /\ listed \in Seq(cases)
    BY <1>3, <1>8, <1>11
  <2> QED
    BY <1>8, <1>18, <2>1, <2>2 DEF ListingShape, cases
<1>20. /\ WithThem(after) <=> WithThem(state)
       /\ Against(after) <=> Against(state)
  BY <1>18 DEF WithThem, Against
<1>21. CASE next = Start
  <2>1. after.phase = "shown"
    BY <1>8, <1>18, <1>21
  <2>2. CaseListIsWhole'
    <3>1. { row[2] : row \in still } \subseteq In(listed) \cup tied
      BY <1>14, <1>21
    <3>2. WithThem(state) => there \subseteq In(listed) \cup tied
      BY <1>15, <1>21
    <3> QED
      BY <1>16, <1>17, <1>18, <1>24, <3>1, <3>2 DEF CaseListIsWhole, In, WithThem, Against
  <2> QED
    BY <1>17, <1>19, <2>1, <2>2 DEF ListingHolds, ListingShape
<1>22. CASE next # Start
  <2>1. after.phase = "paging"
    BY <1>8, <1>18, <1>22
  <2>2. Leafing(after)
    BY <1>14, <1>15, <1>16, <1>18, <1>20, <1>22, <1>24 DEF Leafing, seat
  <2>3. Leafing(listing)' /\ ListingShape(listing)'
    BY <1>17, <1>19, <2>2 DEF Leafing, ListingShape, Seat, Key
  <2> QED
    BY <1>17, <1>19, <2>1, <2>3 DEF ListingHolds, CaseListIsWhole
<1> QED
  BY <1>21, <1>22

(* Every step leaves the list of cases what it promises.                    *)
LEMMA ListingStep ==
  ASSUME FileHolds, ListingHolds, [FileNext]_fileVars
  PROVE  ListingHolds'
<1>1. FileHolds' /\ Advances(file, file')
  BY FileStep
<1>2. CASE listing' = listing
  BY <1>1, <1>2, ListingKept
<1>3. ASSUME NEW sort \in Sorts, NEW descending \in BOOLEAN, NEW open_only \in BOOLEAN,
             FirstCases(sort, descending, open_only)
      PROVE  ListingHolds'
  <2> DEFINE matching == Matching(open_only)
             rows     == { <<Key(sort, case), case>> : case \in Matching(open_only) }
  <2>1. PICK state : state = [NoListing EXCEPT !.sort = sort, !.descending = descending,
                                !.open_only = open_only, !.there = matching, !.still = rows]
    OBVIOUS
  <2>2. ListCases(state) /\ file' = file
    BY <1>3, <2>1 DEF FirstCases
  <2>3. matching \subseteq DOMAIN file.cases
    BY DEF Matching
  <2> HIDE DEF matching, rows
  <2>4. state = [phase |-> "idle", sort |-> sort, descending |-> descending, open_only |-> open_only,
                 cursor |-> Start, listed |-> << >>, there |-> matching, still |-> rows, tied |-> {}]
    BY <2>1 DEF NoListing
  <2>5. ListingShape(state)
    BY <2>3, <2>4 DEF ListingShape
  <2>6. In(<< >>) = {} /\ IsInjective(<< >>)
    BY DEF In, IsInjective
  <2>7. Leafing(state)
    BY <2>4, <2>6 DEF Leafing, Beyond
  <2> QED
    BY <2>2, <2>5, <2>7, CasesListed
<1>4. CASE FurtherCases
  <2>1. PICK state : state = listing
    OBVIOUS
  <2>2. ListCases(state) /\ file' = file /\ ListingShape(state) /\ Leafing(state)
    BY <1>4, <2>1 DEF FurtherCases, ListingHolds
  <2> QED
    BY <2>2, CasesListed
<1>5. CASE CloseCases
  <2>1. listing' = NoListing /\ file' = file
    BY <1>5 DEF CloseCases
  <2>2. ListingShape(NoListing)' /\ NoListing.phase = "idle"
    BY DEF ListingShape, NoListing
  <2> QED
    BY <2>1, <2>2 DEF ListingHolds, CaseListIsWhole
<1> QED
  BY <1>2, <1>3, <1>4, <1>5 DEF FileNext, fileVars, WriteBatch, Group, Commit, Fail, Resolve

(* The inductive invariant of the list of cases                             *)
LEMMA ListingHoldsAlways == FileSpec => [](FileHolds /\ ListingHolds)
<1>1. ASSUME FileInit  PROVE FileHolds /\ ListingHolds
  <2>1. listing = NoListing /\ NoListing.phase = "idle"
    BY <1>1 DEF FileInit, NoListing
  <2>2. ListingShape(NoListing)
    BY DEF ListingShape, NoListing
  <2> QED
    BY <1>1, <2>1, <2>2, FileStarts DEF ListingHolds, CaseListIsWhole
<1>2. FileHolds /\ ListingHolds /\ [FileNext]_fileVars => (FileHolds /\ ListingHolds)'
  BY FileStep, ListingStep
<1> QED
  BY <1>1, <1>2, PTL DEF FileSpec

(* Paging through the cases shows each that kept its place, but for those    *)
(* tied with the last one of a page; by number, where none is tied, each;    *)
(* none else is left out in the order they move along, and none comes twice  *)
(* in the other one, for any number of cases and pages (list_incidents).     *)
THEOREM CaseListWhole == FileSpec => []CaseListIsWhole
<1>1. ListingHolds => CaseListIsWhole
  BY DEF ListingHolds
<1> QED
  BY <1>1, ListingHoldsAlways, PTL

(* No step takes a case away, and in the list each only moves one way:      *)
(* last_seen and alert_count grow and first_seen falls, for late arrivals    *)
(* too (_attach).                                                            *)
THEOREM CasesMoveAlong == FileSpec => [][Advances(file, file')]_fileVars
<1>1. FileHolds /\ [FileNext]_fileVars => Advances(file, file')
  BY FileStep
<1> QED
  BY <1>1, FileHoldsAlways, PTL DEF FileSpec

(* The case file has its types: snapshots within their caps, and no alert,   *)
(* link or listed case without its case.                                     *)
THEOREM FileTyped == FileSpec => []FileTypeOK
<1>1. ASSUME FileHolds, ListingHolds  PROVE FileTypeOK
  <2>1. /\ DOMAIN file.alerts = { alert.id : alert \in Of(file.stored) }
        /\ \A id \in DOMAIN file.alerts : file.alerts[id] \in DOMAIN file.cases
    BY <1>1 DEF FileHolds, DbHolds, DbShape, Of
  <2>2. ASSUME NEW case \in DOMAIN file.cases
        PROVE  /\ file.cases[case].evidence \in Snapshots
               /\ Len(file.cases[case].evidence.entities) <= MaxEntities
    BY <1>1 DEF FileHolds, DbHolds, CaseStandsFor, Whole
  <2>3. file.links \subseteq (DOMAIN file.cases) \X Entities
    BY <1>1 DEF FileHolds, DbHolds, DbShape
  <2>4. session.open \in BOOLEAN /\ session.left \subseteq Alerts \X Nat
    BY <1>1 DEF FileHolds, SessionHolds, Brought
  <2>5. listing.phase \in {"idle", "paging", "shown"} /\ listing.there \subseteq DOMAIN file.cases
    BY <1>1 DEF ListingHolds, ListingShape
  <2> QED
    BY <2>1, <2>2, <2>3, <2>4, <2>5 DEF FileTypeOK
<1> QED
  BY <1>1, ListingHoldsAlways, PTL
=============================================================================
