------------------------ MODULE IngestPipelineProofs ------------------------
(***************************************************************************)
(* Proofs about IngestPipeline, for any number of writers and alerts, any   *)
(* batch size and stream length, and every length of run.                   *)
(*                                                                          *)
(* The argument: what a writer holds (Writer) is enough to know that its    *)
(* batch is filed when it commits, and stays true of it while other writers *)
(* and analysts only add entries, rows and cases (WriterKept).  So each     *)
(* step is checked for the one writer that takes it.                        *)
(***************************************************************************)
EXTENDS IngestPipeline, FiniteSetTheorems, WellFoundedInduction, TLAPS

-----------------------------------------------------------------------------
(* Facts about sets and functions *)

(* A finite function has a finite range. *)
LEMMA FiniteRange ==
  ASSUME NEW f, IsFiniteSet(DOMAIN f)
  PROVE  IsFiniteSet(Range(f))
<1> DEFINE g == [x \in DOMAIN f |-> f[x]]
<1>1. g \in Surjection(DOMAIN f, Range(f))
  BY DEF Range, Surjection
<1>2. QED
  BY <1>1, FS_Surjection

(* A nonempty set of entries has a last one: the one with the fewest after   *)
(* it.                                                                       *)
LEMMA LastExists ==
  ASSUME NEW n \in Nat, NEW S \in SUBSET (1 .. n), S # {}
  PROVE  \E e \in S : \A f \in S : f <= e
<1> DEFINE After(e) == { f \in S : e < f }
           T == { After(e) : e \in S }
<1>0. \A e \in S : e \in Int
  OBVIOUS
<1>1. IsFiniteSet(S)
  <2>1. IsFiniteSet(1 .. n)
    BY FS_Interval
  <2>2. QED
    BY <2>1, FS_Subset
<1>2. IsWellFoundedOn(StrictSubsetOrdering(S), FiniteSubsetsOf(S))
  BY FS_StrictSubsetOrderingWellFounded
<1>3. T \subseteq FiniteSubsetsOf(S) /\ T # {}
  <2>1. \A e \in S : After(e) \in SUBSET S
    OBVIOUS
  <2>2. \A e \in S : IsFiniteSet(After(e))
    <3> HIDE DEF After
    <3> QED
      BY <1>1, <2>1, FS_Subset
  <2>3. T # {}
    OBVIOUS
  <2> HIDE DEF After
  <2>4. QED
    BY <2>1, <2>2, <2>3 DEF FiniteSubsetsOf
<1>4. PICK least \in T : \A other \in T : <<other, least>> \notin StrictSubsetOrdering(S)
  <2> HIDE DEF T
  <2> QED
    BY <1>2, <1>3, WFMin
<1>5. PICK e \in S : least = After(e)
  BY <1>4
<1>6. ASSUME NEW f \in S, ~(f <= e) PROVE FALSE
  <2>1. e \in Int /\ f \in Int /\ e < f
    BY <1>0, <1>6
  <2>2. After(f) \in T
    OBVIOUS
  <2>3. ASSUME NEW g \in After(f) PROVE g \in After(e)
    <3>1. g \in S /\ g \in Int /\ f < g
      BY <1>0
    <3>2. e < g
      BY <2>1, <3>1
    <3>3. QED
      BY <3>1, <3>2
  <2>4. f \in After(e) /\ f \notin After(f)
    BY <2>1
  <2>5. <<After(f), After(e)>> \in StrictSubsetOrdering(S)
    BY <2>3, <2>4 DEF StrictSubsetOrdering
  <2>6. QED
    BY <1>4, <1>5, <2>2, <2>5
<1>7. QED
  BY <1>6

-----------------------------------------------------------------------------
(* The inductive invariant *)

(* What is known of a writer: its place in the loop, and the batch it holds. *)
(* While it writes, each entry of the batch has been parsed, and its row is  *)
(* one that the transaction inserted or one that was committed before.  The  *)
(* cases it has read exist, and are of the fingerprint it looked for.  Once  *)
(* it has committed, the batch is filed.                                     *)

FiledIn(alert, rows) == \E row \in rows : IsRowOf(row, alert)

Parsed(state, q, rows) ==
  /\ DOMAIN state.rows = state.batch
  /\ state.inserted \subseteq Range(state.rows)
  /\ \A e \in state.batch :
       /\ state.rows[e] \in Rows
       /\ IsRowOf(state.rows[e], q[e])
       /\ state.rows[e] \in state.inserted \cup rows

Found(reading, fp, cases) ==
  /\ reading.case \in cases
  /\ reading.case.fingerprint = fp
  /\ reading.alert_count \in Nat

Writer(state, q, last, rows, cases) ==
  /\ DOMAIN state = {"phase", "source", "batch", "rows", "inserted", "day", "seen", "touched"}
  /\ state.phase \in Phases /\ state.source \in Phases
  /\ state.batch \subseteq 1 .. last
  /\ state.phase \in {"count", "group"} => Parsed(state, q, rows)
  /\ \A fp \in DOMAIN state.seen : state.seen[fp] # None => Found(state.seen[fp], fp, cases)
  /\ state.phase \in {"announce", "ack"} => \A e \in state.batch : FiledIn(q[e], rows)
  /\ state.touched \subseteq cases

WriterOK(state) == Writer(state, queue, delivered, DOMAIN alerts, DOMAIN incidents)

WritersOK ==
  /\ DOMAIN worker = Consumers
  /\ \A c \in Consumers : WriterOK(worker[c])

StreamOK ==
  /\ now \in Nat /\ faults \in Nat
  /\ queue \in Seq(Alerts) /\ trimmed \in Nat /\ delivered \in 0 .. Len(queue)
  /\ idle \subseteq pending /\ pending \subseteq 1 .. delivered

CasesOK ==
  /\ DOMAIN incidents \subseteq Case
  /\ IsFiniteSet(DOMAIN incidents)
  /\ \A case \in DOMAIN incidents : incidents[case] \in [open : BOOLEAN, alert_count : Nat]

RowsOK ==
  /\ DOMAIN alerts \subseteq Rows
  /\ \A row \in DOMAIN alerts : alerts[row] \in DOMAIN incidents
  /\ stats \in [Tenants -> Nat]

IInv ==
  /\ StreamOK
  /\ CasesOK
  /\ RowsOK
  /\ WritersOK
  /\ AcknowledgedIsFiled
  /\ OneOpenCase
  /\ AnnouncedExists

(* A writer with nothing in hand, or with a batch and nothing done about it. *)
LEMMA FreeIsOK ==
  ASSUME NEW phase \in {"claim", "read", "down"},
         NEW q, NEW last, NEW rows, NEW cases, NEW batch \in SUBSET (1 .. last)
  PROVE  /\ Writer(Free(phase), q, last, rows, cases)
         /\ Writer([Free(phase) EXCEPT !.phase = "insert", !.batch = batch], q, last, rows, cases)
BY DEF Writer, Free, Phases

(* A writer is not disturbed by entries, rows and cases that come to be. *)
LEMMA WriterKept ==
  ASSUME NEW state, NEW q, NEW last \in Nat, NEW rows, NEW cases,
         Writer(state, q, last, rows, cases),
         NEW q2, NEW last2 \in Nat, NEW rows2, NEW cases2,
         last <= last2, \A e \in 1 .. last : q2[e] = q[e],
         rows \subseteq rows2, cases \subseteq cases2
  PROVE  Writer(state, q2, last2, rows2, cases2)
<1>1. state.batch \subseteq 1 .. last /\ state.batch \subseteq 1 .. last2
  BY DEF Writer
<1>2. \A e \in state.batch : q2[e] = q[e]
  BY <1>1
<1>3. Parsed(state, q, rows) => Parsed(state, q2, rows2)
  BY <1>2 DEF Parsed
<1>4. \A fp : Found(state.seen[fp], fp, cases) => Found(state.seen[fp], fp, cases2)
  BY DEF Found
<1>5. \A e \in state.batch : FiledIn(q[e], rows) => FiledIn(q2[e], rows2)
  BY <1>2 DEF FiledIn
<1>6. QED
  BY <1>1, <1>3, <1>4, <1>5 DEF Writer

(* One writer changes, in a way that is right, and the rest only grows. *)
Grows ==
  /\ delivered \in Nat /\ delivered' \in Nat /\ delivered <= delivered'
  /\ \A e \in 1 .. delivered : queue'[e] = queue[e]
  /\ DOMAIN alerts \subseteq DOMAIN alerts'
  /\ DOMAIN incidents \subseteq DOMAIN incidents'

LEMMA WritersKept ==
  ASSUME WritersOK, Grows,
         \/ UNCHANGED worker
         \/ \E state : \E c \in Consumers :
              /\ Becomes(c, state)
              /\ Writer(state, queue', delivered', DOMAIN alerts', DOMAIN incidents')
  PROVE  WritersOK'
<1>1. \A c \in Consumers :
        Writer(worker[c], queue', delivered', DOMAIN alerts', DOMAIN incidents')
  BY WriterKept DEF WritersOK, WriterOK, Grows
<1>2. CASE UNCHANGED worker
  BY <1>1, <1>2 DEF WritersOK, WriterOK
<1>3. ASSUME NEW c \in Consumers, NEW state, Becomes(c, state),
             Writer(state, queue', delivered', DOMAIN alerts', DOMAIN incidents')
      PROVE  WritersOK'
  <2>1. /\ DOMAIN worker' = Consumers
        /\ worker'[c] = state
        /\ \A d \in Consumers \ {c} : worker'[d] = worker[d]
    BY <1>3 DEF Becomes, WritersOK
  <2>2. ASSUME NEW d \in Consumers
        PROVE  Writer(worker'[d], queue', delivered', DOMAIN alerts', DOMAIN incidents')
    BY <1>1, <1>3, <2>1
  <2>3. QED
    BY <2>1, <2>2 DEF WritersOK, WriterOK
<1>4. QED
  BY <1>2, <1>3

-----------------------------------------------------------------------------
(* The steps that change nothing but a writer *)

(* A step that touches neither stream nor database, and at most one writer.  *)
LEMMA QuietStep ==
  ASSUME IInv, UNCHANGED <<redis, database>>, now' \in Nat, faults' \in Nat,
         announced' \subseteq DOMAIN incidents,
         \/ UNCHANGED worker
         \/ \E state : \E c \in Consumers : Becomes(c, state) /\ WriterOK(state)
  PROVE  IInv'
<1>1. /\ UNCHANGED <<queue, trimmed, delivered, pending, idle>>
      /\ UNCHANGED <<alerts, incidents, stats>>
  BY DEF redis, database
<1>2. Grows
  BY <1>1 DEF Grows, IInv, StreamOK
<1>3. WritersOK'
  <2>1. WritersOK
    BY DEF IInv
  <2>2. QED
    BY <1>1, <1>2, <2>1, WritersKept DEF WriterOK
<1>4. StreamOK' /\ CasesOK' /\ RowsOK'
  BY <1>1 DEF IInv, StreamOK, CasesOK, RowsOK
<1>5. AcknowledgedIsFiled' /\ OneOpenCase' /\ AnnouncedExists'
  BY <1>1 DEF IInv, AcknowledgedIsFiled, OneOpenCase, AnnouncedExists, Filed, Live, Entries
<1>6. QED
  BY <1>3, <1>4, <1>5 DEF IInv

(* The fields of a writer. *)
LEMMA WriterFields ==
  ASSUME IInv, NEW c \in Consumers
  PROVE  /\ WriterOK(worker[c])
         /\ DOMAIN worker[c] = {"phase", "source", "batch", "rows", "inserted", "day", "seen", "touched"}
         /\ worker[c].phase \in Phases /\ worker[c].source \in Phases
         /\ worker[c].batch \subseteq 1 .. delivered
         /\ \A e \in worker[c].batch : e \in Entries /\ queue[e] \in Alerts
BY DEF IInv, WritersOK, WriterOK, Writer, StreamOK, Entries

(* Time passes. *)
LEMMA TickKeeps == IInv /\ Tick => IInv'
<1> SUFFICES ASSUME IInv, Tick PROVE IInv'
  OBVIOUS
<1>1. /\ UNCHANGED <<redis, database>>
      /\ now' \in Nat /\ faults' \in Nat
      /\ announced' \subseteq DOMAIN incidents
      /\ UNCHANGED worker
  BY DEF Tick, IInv, StreamOK, AnnouncedExists
<1>2. QED
  BY <1>1, QuietStep

(* Whatever goes wrong, the writer starts over with nothing in hand. *)
LEMMA FreeKeeps ==
  ASSUME IInv, NEW c \in Consumers, NEW phase \in {"claim", "read", "down"},
         Becomes(c, Free(phase)), UNCHANGED <<now, redis, database, announced>>, faults' \in Nat
  PROVE  IInv'
<1>1. WriterOK(Free(phase))
  BY FreeIsOK DEF WriterOK
<1>2. now' \in Nat /\ announced' \subseteq DOMAIN incidents
  BY DEF IInv, StreamOK, AnnouncedExists
<1>3. QED
  BY <1>1, <1>2, QuietStep

(* Restart, crash and failure. *)
LEMMA RestartCrashFailKeep ==
  ASSUME IInv, NEW c \in Consumers, Restart(c) \/ Crash(c) \/ Fails(c)
  PROVE  IInv'
<1>1. faults' \in Nat
  BY DEF IInv, StreamOK, Restart, Crash, Fails
<1>2. CASE Restart(c)
  BY <1>1, <1>2, FreeKeeps DEF Restart
<1>3. CASE Crash(c)
  BY <1>1, <1>3, FreeKeeps DEF Crash
<1>4. CASE Fails(c)
  BY <1>1, <1>4, FreeKeeps DEF Fails, Abort
<1>5. QED
  BY <1>2, <1>3, <1>4

(* Parsing makes a row of an alert. *)
LEMMA RowOfIsRow ==
  ASSUME now \in Nat, NEW alert \in Alerts
  PROVE  RowOf(alert) \in Rows /\ IsRowOf(RowOf(alert), alert)
<1>1. alert \in [ tenant : Tenants, wazuh_id : Keys, group : Groups, timestamp : Nat \cup {None} ]
  BY IngestPipelineAssumption
<1>2. CASE alert.timestamp = None
  BY <1>1, <1>2 DEF RowOf, Rows, IsRowOf
<1>3. CASE alert.timestamp # None
  BY <1>1, <1>3 DEF RowOf, Rows, IsRowOf
<1>4. QED
  BY <1>2, <1>3

(* The rows inserted, and those that were there, are the rows of the batch. *)
LEMMA InsertKeeps ==
  ASSUME IInv, NEW c \in Consumers, Insert(c)
  PROVE  IInv'
<1> DEFINE rows  == [e \in worker[c].batch |-> RowOf(queue[e])]
           state == [worker[c] EXCEPT !.phase = "count", !.rows = rows,
                                      !.inserted = Range(rows) \ DOMAIN alerts]
<1>1. /\ UNCHANGED <<now, redis, database, announced, faults>>
      /\ Becomes(c, state) \/ Abort(c)
  BY DEF Insert, Abort
<1>2. faults' \in Nat /\ now' \in Nat /\ now \in Nat /\ announced' \subseteq DOMAIN incidents
  BY <1>1 DEF IInv, StreamOK, AnnouncedExists
<1>3. CASE Abort(c)
  BY <1>1, <1>2, <1>3, FreeKeeps DEF Abort
<1>4. CASE Becomes(c, state)
  <2>1. Parsed(state, queue, DOMAIN alerts)
    <3>1. /\ state.batch = worker[c].batch
          /\ state.rows = rows
          /\ state.inserted = Range(rows) \ DOMAIN alerts
      BY WriterFields
    <3>2. \A e \in worker[c].batch : rows[e] \in Rows /\ IsRowOf(rows[e], queue[e])
      BY <1>2, WriterFields, RowOfIsRow
    <3> HIDE DEF state
    <3>3. QED
      BY <3>1, <3>2 DEF Parsed, Range
  <2>2. WriterOK(state)
    <3>1. /\ DOMAIN state = DOMAIN worker[c]
          /\ state.phase = "count" /\ state.source = worker[c].source
          /\ state.batch = worker[c].batch
          /\ state.seen = worker[c].seen /\ state.touched = worker[c].touched
      BY WriterFields
    <3> HIDE DEF state
    <3>2. QED
      BY <2>1, <3>1, WriterFields DEF WriterOK, Writer, Phases
  <2> HIDE DEF state
  <2>3. QED
    BY <1>1, <1>2, <1>4, <2>2, QuietStep
<1>5. QED
  BY <1>1, <1>3, <1>4

(* Taking the lock on ingest_stats changes nothing of the batch. *)
LEMMA CountStatsKeeps ==
  ASSUME IInv, NEW c \in Consumers, CountStats(c)
  PROVE  IInv'
<1> DEFINE state == [worker[c] EXCEPT !.phase = "group", !.day = Day(now)]
<1>1. /\ UNCHANGED <<now, redis, database, announced, faults>>
      /\ Becomes(c, state)
      /\ worker[c].phase = "count"
  BY DEF CountStats
<1>2. faults' \in Nat /\ now' \in Nat /\ announced' \subseteq DOMAIN incidents
  BY <1>1 DEF IInv, StreamOK, AnnouncedExists
<1>3. /\ DOMAIN state = DOMAIN worker[c]
      /\ state.phase = "group" /\ state.source = worker[c].source
      /\ state.batch = worker[c].batch /\ state.rows = worker[c].rows
      /\ state.inserted = worker[c].inserted
      /\ state.seen = worker[c].seen /\ state.touched = worker[c].touched
  BY WriterFields
<1> HIDE DEF state
<1>4. WriterOK(state)
  BY <1>1, <1>3, WriterFields DEF WriterOK, Writer, Parsed, Phases
<1>5. QED
  BY <1>1, <1>2, <1>4, QuietStep

(* What the query for the open case finds is a case of that fingerprint. *)
LEMMA LookKeeps ==
  ASSUME IInv, NEW c \in Consumers, NEW fp, Look(c, fp)
  PROVE  IInv'
<1> DEFINE found == IF OpenCases(fp) = {} THEN None
                    ELSE LET case == CHOOSE case \in OpenCases(fp) : TRUE
                         IN  [case |-> case, alert_count |-> incidents[case].alert_count]
           seen  == [f \in DOMAIN worker[c].seen \cup {fp} |->
                       IF f = fp THEN found ELSE worker[c].seen[f]]
           state == [worker[c] EXCEPT !.seen = seen]
<1>1. /\ UNCHANGED <<now, redis, database, announced, faults>>
      /\ Becomes(c, state)
      /\ worker[c].phase = "group"
  BY WriterFields DEF Look
<1>2. faults' \in Nat /\ now' \in Nat /\ announced' \subseteq DOMAIN incidents
  BY <1>1 DEF IInv, StreamOK, AnnouncedExists
<1>3. /\ DOMAIN state = DOMAIN worker[c]
      /\ state.phase = worker[c].phase /\ state.source = worker[c].source
      /\ state.batch = worker[c].batch /\ state.rows = worker[c].rows
      /\ state.inserted = worker[c].inserted
      /\ state.seen = seen /\ state.touched = worker[c].touched
  BY WriterFields
<1>4. found # None => Found(found, fp, DOMAIN incidents)
  BY DEF Found, OpenCases, IInv, CasesOK
<1> HIDE DEF state, found
<1>5. WriterOK(state)
  BY <1>1, <1>3, <1>4, WriterFields DEF WriterOK, Writer, Parsed
<1>6. QED
  BY <1>1, <1>2, <1>5, QuietStep

(* The cases announced are those the commit has written. *)
LEMMA AnnounceKeeps ==
  ASSUME IInv, NEW c \in Consumers, Announce(c)
  PROVE  IInv'
<1> DEFINE state == [worker[c] EXCEPT !.phase = "ack", !.touched = {}]
<1>1. /\ UNCHANGED <<now, redis, database, faults>>
      /\ Becomes(c, state)
      /\ worker[c].phase = "announce"
      /\ announced' = announced \cup worker[c].touched
  BY DEF Announce
<1>2. faults' \in Nat /\ now' \in Nat /\ announced' \subseteq DOMAIN incidents
  BY <1>1, WriterFields DEF IInv, StreamOK, AnnouncedExists, WriterOK, Writer
<1>3. /\ DOMAIN state = DOMAIN worker[c]
      /\ state.phase = "ack" /\ state.source = worker[c].source
      /\ state.batch = worker[c].batch /\ state.seen = worker[c].seen /\ state.touched = {}
  BY WriterFields
<1> HIDE DEF state
<1>4. WriterOK(state)
  BY <1>1, <1>3, WriterFields DEF WriterOK, Writer, Phases
<1>5. QED
  BY <1>1, <1>2, <1>4, QuietStep

-----------------------------------------------------------------------------
(* The steps on the stream *)

(* A step that leaves the database alone and acks nothing that is not filed. *)
LEMMA StreamStep ==
  ASSUME IInv, UNCHANGED <<database, announced>>, StreamOK', Grows, WritersOK',
         \A e \in Live' : e <= delivered' => e \in pending' \/ Filed(e)'
  PROVE  IInv'
<1>1. UNCHANGED <<alerts, incidents, stats>>
  BY DEF database
<1>2. CasesOK' /\ RowsOK'
  BY <1>1 DEF IInv, CasesOK, RowsOK
<1>3. OneOpenCase' /\ AnnouncedExists'
  BY <1>1 DEF IInv, OneOpenCase, AnnouncedExists
<1>4. AcknowledgedIsFiled'
  BY DEF AcknowledgedIsFiled
<1>5. QED
  BY <1>2, <1>3, <1>4 DEF IInv

(* An entry becomes idle. *)
LEMMA GoesIdleKeeps ==
  ASSUME IInv, NEW entry \in Entries, GoesIdle(entry)
  PROVE  IInv'
<1>1. UNCHANGED <<now, queue, trimmed, delivered, pending, database, announced, worker, faults>>
  BY DEF GoesIdle
<1>2. StreamOK' /\ Grows
  BY <1>1 DEF GoesIdle, IInv, StreamOK, Grows, database
<1>3. WritersOK'
  BY <1>1, <1>2, WritersKept DEF IInv
<1>4. \A e \in Live' : e <= delivered' => e \in pending' \/ Filed(e)'
  BY <1>1 DEF IInv, AcknowledgedIsFiled, Filed, Live, Entries, database
<1>5. QED
  BY <1>1, <1>2, <1>3, <1>4, StreamStep

(* An entry is added, and old ones may be trimmed. *)
LEMMA PublishKeeps ==
  ASSUME IInv, NEW alert \in Alerts, Publish(alert)
  PROVE  IInv'
<1>1. /\ UNCHANGED <<now, delivered, pending, idle, database, announced, worker, faults>>
      /\ queue' = Append(queue, alert)
      /\ queue \in Seq(Alerts) /\ trimmed \in Nat /\ delivered \in 0 .. Len(queue)
  BY DEF Publish, IInv, StreamOK
<1>2. /\ Len(queue') = Len(queue) + 1
      /\ \A e \in 1 .. Len(queue) : queue'[e] = queue[e]
      /\ queue' \in Seq(Alerts)
  BY <1>1
<1>3. trimmed' \in Nat /\ trimmed <= trimmed'
  BY <1>1, <1>2, IngestPipelineAssumption DEF Publish
<1>4. Grows
  BY <1>1, <1>2 DEF Grows, database
<1>5. StreamOK'
  BY <1>1, <1>2, <1>3 DEF IInv, StreamOK
<1>6. WritersOK'
  BY <1>1, <1>4, WritersKept DEF IInv
<1>7. ASSUME NEW e \in Live', e <= delivered' PROVE e \in pending' \/ Filed(e)'
  <2>1. e \in Live /\ e <= delivered
    BY <1>1, <1>2, <1>3, <1>7 DEF Live, Entries
  <2>2. e \in pending \/ Filed(e)
    BY <2>1 DEF IInv, AcknowledgedIsFiled
  <2>3. queue'[e] = queue[e] /\ DOMAIN alerts' = DOMAIN alerts
    BY <1>1, <1>2, <2>1 DEF Live, Entries, database
  <2>4. QED
    BY <1>1, <2>2, <2>3 DEF Filed
<1>8. QED
  BY <1>1, <1>4, <1>5, <1>6, <1>7, StreamStep

(* Claiming hands over entries that are pending, and forgets trimmed ones. *)
LEMMA ClaimKeeps ==
  ASSUME IInv, NEW c \in Consumers, Claim(c)
  PROVE  IInv'
<1>1. /\ UNCHANGED <<now, queue, trimmed, delivered, database, announced, faults>>
      /\ pending' = pending \ (idle \ Live)
  BY DEF Claim
<1>2. PICK batch \in FirstBatch(idle \cap Live) :
        /\ idle' = (idle \cap Live) \ batch
        /\ Becomes(c, IF batch = {} THEN Free("read")
                      ELSE [Free("claim") EXCEPT !.phase = "insert", !.batch = batch])
  BY DEF Claim
<1>3. batch \subseteq idle /\ batch \in SUBSET (1 .. delivered)
  BY DEF FirstBatch, IInv, StreamOK
<1>4. StreamOK' /\ Grows
  BY <1>1, <1>2 DEF IInv, StreamOK, Grows, database
<1>5. WritersOK'
  <2>1. \E state : Becomes(c, state)
                   /\ Writer(state, queue', delivered', DOMAIN alerts', DOMAIN incidents')
    <3>1. CASE batch = {}
      BY <1>2, <3>1, FreeIsOK
    <3>2. CASE batch # {}
      BY <1>1, <1>2, <1>3, <3>2, FreeIsOK
    <3>3. QED
      BY <3>1, <3>2
  <2>2. QED
    BY <1>4, <2>1, WritersKept DEF IInv
<1>6. \A e \in Live' : e <= delivered' => e \in pending' \/ Filed(e)'
  BY <1>1 DEF IInv, AcknowledgedIsFiled, Filed, Live, Entries, database
<1>7. QED
  BY <1>1, <1>4, <1>5, <1>6, StreamStep

(* The group hands out entries in their order: all that are left behind were *)
(* handed out before or trimmed.                                             *)
LEMMA ReadKeeps ==
  ASSUME IInv, NEW c \in Consumers, Read(c)
  PROVE  IInv'
<1> DEFINE new == {e \in Live : e > delivered}
<1>1. UNCHANGED <<now, queue, trimmed, idle, database, announced, faults>>
  BY DEF Read
<1>2. PICK batch \in FirstBatch(new) :
        /\ delivered' = IF batch = {} THEN delivered
                        ELSE CHOOSE e \in batch : \A f \in batch : f <= e
        /\ pending' = pending \cup batch
        /\ Becomes(c, IF batch = {} THEN Free("claim")
                      ELSE [Free("read") EXCEPT !.phase = "insert", !.batch = batch])
  BY DEF Read
<1>3. /\ queue \in Seq(Alerts) /\ Len(queue) \in Nat
      /\ delivered \in 0 .. Len(queue)
      /\ trimmed \in Nat
      /\ pending \subseteq 1 .. delivered
  BY DEF IInv, StreamOK
<1>4. /\ batch \in SUBSET (1 .. Len(queue))
      /\ \A e \in batch : delivered < e
      /\ \A e \in batch, later \in new \ batch : e < later
  BY DEF FirstBatch, Live, Entries
<1>5. /\ delivered' \in 0 .. Len(queue)
      /\ delivered <= delivered'
      /\ \A e \in batch : e <= delivered'
      /\ batch # {} => delivered' \in batch
      /\ batch = {} => delivered' = delivered
  <2>1. CASE batch = {}
    BY <1>2, <1>3, <2>1
  <2>2. CASE batch # {}
    <3>1. delivered' \in batch /\ \A f \in batch : f <= delivered'
      BY <1>2, <1>3, <1>4, <2>2, LastExists
    <3>2. QED
      BY <1>3, <1>4, <2>2, <3>1
  <2>3. QED
    BY <2>1, <2>2
<1>6. batch \in SUBSET (1 .. delivered') /\ pending \subseteq 1 .. delivered'
  BY <1>3, <1>4, <1>5
<1>7. StreamOK'
  BY <1>1, <1>2, <1>3, <1>5, <1>6 DEF IInv, StreamOK
<1>8. Grows
  BY <1>1, <1>3, <1>5 DEF Grows, database
<1>9. WritersOK'
  <2>1. \E state : Becomes(c, state)
                   /\ Writer(state, queue', delivered', DOMAIN alerts', DOMAIN incidents')
    <3>1. CASE batch = {}
      BY <1>2, <3>1, FreeIsOK
    <3>2. CASE batch # {}
      BY <1>2, <1>6, <3>2, FreeIsOK
    <3>3. QED
      BY <3>1, <3>2
  <2>2. QED
    BY <1>8, <2>1, WritersKept DEF IInv
<1>10. ASSUME NEW e \in Live', e <= delivered' PROVE e \in pending' \/ Filed(e)'
  <2>1. e \in Live /\ e \in 1 .. Len(queue)
    BY <1>1 DEF Live, Entries
  <2>2. CASE e <= delivered
    <3>1. e \in pending \/ Filed(e)
      BY <2>1, <2>2 DEF IInv, AcknowledgedIsFiled
    <3>2. Filed(e) => Filed(e)'
      BY <1>1 DEF Filed, database
    <3>3. QED
      BY <1>2, <3>1, <3>2
  <2>3. CASE ~(e <= delivered)
    <3>1. e \in new /\ batch # {}
      BY <1>3, <1>5, <1>10, <2>1, <2>3
    <3>2. e \in batch
      BY <1>3, <1>4, <1>5, <1>10, <2>1, <3>1
    <3>3. QED
      BY <1>2, <3>2
  <2>4. QED
    BY <2>2, <2>3
<1>11. QED
  BY <1>1, <1>7, <1>8, <1>9, <1>10, StreamStep

(* What is acked has been filed by the writer that acks it. *)
LEMMA AckKeeps ==
  ASSUME IInv, NEW c \in Consumers, Ack(c)
  PROVE  IInv'
<1>1. /\ UNCHANGED <<now, queue, trimmed, delivered, database, announced, faults>>
      /\ worker[c].phase = "ack"
      /\ pending' = pending \ worker[c].batch
      /\ idle' = idle \ worker[c].batch
      /\ Becomes(c, Free(NextPhase(worker[c].source)))
  BY DEF Ack
<1>2. StreamOK' /\ Grows
  <2>1. idle \subseteq pending /\ pending \subseteq 1 .. delivered
    BY DEF IInv, StreamOK
  <2>2. idle' \subseteq pending' /\ pending' \subseteq 1 .. delivered
    BY <1>1, <2>1
  <2>3. Grows
    BY <1>1 DEF IInv, StreamOK, Grows, database
  <2>4. QED
    BY <1>1, <2>2, <2>3 DEF IInv, StreamOK
<1>3. WritersOK'
  <2>1. NextPhase(worker[c].source) \in {"claim", "read", "down"}
    BY DEF NextPhase
  <2>2. Writer(Free(NextPhase(worker[c].source)), queue', delivered', DOMAIN alerts', DOMAIN incidents')
    BY <2>1, FreeIsOK
  <2>3. QED
    BY <1>1, <1>2, <2>2, WritersKept DEF IInv
<1>4. \A e \in worker[c].batch : Filed(e)
  BY <1>1, WriterFields DEF WriterOK, Writer, FiledIn, Filed
<1>5. ASSUME NEW e \in Live', e <= delivered' PROVE e \in pending' \/ Filed(e)'
  <2>1. e \in pending \/ Filed(e)
    BY <1>1, <1>5 DEF IInv, AcknowledgedIsFiled, Live, Entries
  <2>2. Filed(e) => Filed(e)'
    BY <1>1 DEF Filed, database
  <2>3. QED
    BY <1>1, <1>4, <2>1, <2>2
<1>6. QED
  BY <1>1, <1>2, <1>3, <1>5, StreamStep

-----------------------------------------------------------------------------
(* The steps on the database *)

(* Copies of a row in a batch can be counted. *)
LEMMA CopiesAreCounted ==
  ASSUME IInv, NEW c \in Consumers
  PROVE  /\ IsFiniteSet(worker[c].batch)
         /\ \A fp : Copies(worker[c], fp) \in Nat
<1>1. delivered \in Nat
  BY DEF IInv, StreamOK
<1>2. IsFiniteSet(1 .. delivered)
  BY <1>1, FS_Interval
<1>3. IsFiniteSet(worker[c].batch)
  BY <1>2, WriterFields, FS_Subset
<1>4. ASSUME NEW fp PROVE Copies(worker[c], fp) \in Nat
  <2> DEFINE copies == { e \in worker[c].batch : worker[c].rows[e] \in worker[c].inserted
                                                 /\ Fingerprint(worker[c].rows[e]) = fp }
  <2>1. copies \in SUBSET worker[c].batch
    OBVIOUS
  <2>2. IsFiniteSet(copies)
    <3> HIDE DEF copies
    <3> QED
      BY <1>3, <2>1, FS_Subset
  <2>3. Cardinality(copies) \in Nat
    <3> HIDE DEF copies
    <3> QED
      BY <2>2, FS_CardinalityType
  <2>4. QED
    BY <2>3 DEF Copies
<1>5. QED
  BY <1>3, <1>4

(* A case that is new is of the fingerprint it is made for. *)
LEMMA NewCaseType ==
  ASSUME IInv, NEW fp \in Tenants \X Groups
  PROVE  NewCase(fp) \in Case /\ NewCase(fp).fingerprint = fp
<1> DEFINE cases == { case \in DOMAIN incidents : case.fingerprint = fp }
<1>1. cases \in SUBSET DOMAIN incidents /\ IsFiniteSet(DOMAIN incidents)
  BY DEF IInv, CasesOK
<1>2. Cardinality(cases) \in Nat
  <2> HIDE DEF cases
  <2> QED
    BY <1>1, FS_Subset, FS_CardinalityType
<1>3. 1 + Cardinality(cases) \in Nat \ {0}
  <2> HIDE DEF cases
  <2> QED
    BY <1>2
<1>4. QED
  BY <1>3 DEF NewCase, Case

(* The fingerprints of a transaction are of its rows, and finitely many. *)
LEMMA FreshGroupsType ==
  ASSUME IInv, NEW c \in Consumers, worker[c].phase = "group"
  PROVE  /\ FreshGroups(worker[c]) \subseteq Tenants \X Groups
         /\ IsFiniteSet(FreshGroups(worker[c]))
         /\ worker[c].inserted \subseteq Rows
<1> DEFINE rows == worker[c].rows
           marks == [row \in worker[c].inserted |-> Fingerprint(row)]
<1>1. /\ DOMAIN rows = worker[c].batch
      /\ worker[c].inserted \subseteq Range(rows)
      /\ \A e \in worker[c].batch : rows[e] \in Rows
  BY WriterFields DEF WriterOK, Writer, Parsed
<1>2. IsFiniteSet(Range(rows))
  <2> HIDE DEF rows
  <2> QED
    BY <1>1, CopiesAreCounted, FiniteRange
<1>3. IsFiniteSet(worker[c].inserted)
  BY <1>1, <1>2, FS_Subset
<1>4. Range(marks) = FreshGroups(worker[c])
  BY DEF FreshGroups, Range
<1>5. IsFiniteSet(DOMAIN marks)
  BY <1>3
<1>6. IsFiniteSet(Range(marks))
  <2> HIDE DEF marks
  <2> QED
    BY <1>5, FiniteRange
<1>7. worker[c].inserted \subseteq Rows
  BY <1>1 DEF Range
<1>8. \A row \in Rows : Fingerprint(row) \in Tenants \X Groups
  BY DEF Rows, Fingerprint
<1>9. QED
  BY <1>4, <1>6, <1>7, <1>8 DEF FreshGroups

(* What a transaction writes: for each of its fingerprints the case that it  *)
(* found, with a new count, or a new case, open.                             *)
LEMMA WrittenCase ==
  ASSUME IInv, NEW c \in Consumers, worker[c].phase = "group",
         DOMAIN worker[c].seen = FreshGroups(worker[c]),
         NEW fp \in DOMAIN worker[c].seen
  PROVE  LET case == CaseOf(worker[c], fp)
         IN  /\ case \in Case
             /\ case.fingerprint = fp
             /\ case \in DOMAIN Written(worker[c])
             /\ Written(worker[c])[case] \in [open : BOOLEAN, alert_count : Nat]
             /\ IF worker[c].seen[fp] = None
                THEN case = NewCase(fp) /\ Written(worker[c])[case].open
                ELSE /\ case \in DOMAIN incidents
                     /\ Written(worker[c])[case].open = incidents[case].open
<1> DEFINE state == worker[c]
           case == CaseOf(state, fp)
<1>1. fp \in Tenants \X Groups
  BY FreshGroupsType
<1>2. case \in DOMAIN Written(state)
  BY DEF Written
<1>3. Copies(state, fp) \in Nat
  BY CopiesAreCounted
<1>4. CASE state.seen[fp] = None
  <2>1. case = NewCase(fp)
    BY <1>4 DEF CaseOf
  <2>2. case \in Case /\ case.fingerprint = fp
    BY <1>1, <2>1, NewCaseType
  <2>3. Written(state)[case] = [open |-> TRUE, alert_count |-> Copies(state, fp)]
    <3> HIDE DEF case, state
    <3> QED
      BY <1>2, <1>4, <2>2 DEF Written
  <2>4. QED
    BY <1>2, <1>3, <1>4, <2>1, <2>2, <2>3
<1>5. CASE state.seen[fp] # None
  <2>1. case = state.seen[fp].case
    BY <1>5 DEF CaseOf
  <2>2. /\ case \in DOMAIN incidents /\ case.fingerprint = fp
        /\ state.seen[fp].alert_count \in Nat
    BY <1>5, <2>1, WriterFields DEF WriterOK, Writer, Found
  <2>3. case \in Case /\ incidents[case] \in [open : BOOLEAN, alert_count : Nat]
    BY <2>2 DEF IInv, CasesOK
  <2>4. Written(state)[case] =
          [incidents[case] EXCEPT !.alert_count = state.seen[fp].alert_count + Copies(state, fp)]
    <3> HIDE DEF case, state
    <3> QED
      BY <1>2, <1>5, <2>2 DEF Written
  <2>5. QED
    BY <1>2, <1>3, <1>5, <2>2, <2>3, <2>4
<1>6. QED
  BY <1>4, <1>5

(* The cases that are there after a commit, and which of them are open. *)
LEMMA CommittedCases ==
  ASSUME IInv, NEW c \in Consumers, worker[c].phase = "group",
         DOMAIN worker[c].seen = FreshGroups(worker[c]),
         incidents' = Over(Written(worker[c]), incidents)
  PROVE  /\ CasesOK'
         /\ DOMAIN incidents' = DOMAIN incidents \cup DOMAIN Written(worker[c])
         /\ \A case \in DOMAIN incidents' : incidents'[case].open =>
              \/ case \in DOMAIN incidents /\ incidents[case].open
              \/ /\ case.fingerprint \in DOMAIN worker[c].seen
                 /\ worker[c].seen[case.fingerprint] = None
                 /\ case = NewCase(case.fingerprint)
<1> DEFINE state   == worker[c]
           written == Written(state)
           caseOf  == [fp \in DOMAIN state.seen |-> CaseOf(state, fp)]
<1>1. /\ DOMAIN incidents \subseteq Case
      /\ IsFiniteSet(DOMAIN incidents)
      /\ \A case \in DOMAIN incidents : incidents[case] \in [open : BOOLEAN, alert_count : Nat]
  BY DEF IInv, CasesOK
<1>2. /\ DOMAIN incidents' = DOMAIN incidents \cup DOMAIN written
      /\ \A case \in DOMAIN written : incidents'[case] = written[case]
      /\ \A case \in DOMAIN incidents \ DOMAIN written : incidents'[case] = incidents[case]
  <2>1. incidents' = Over(written, incidents)
    OBVIOUS
  <2> HIDE DEF written
  <2>2. QED
    BY <2>1 DEF Over
<1>3. DOMAIN written = Range(caseOf)
  BY DEF Written, Range
<1>4. IsFiniteSet(DOMAIN written)
  <2>1. IsFiniteSet(DOMAIN caseOf)
    BY FreshGroupsType
  <2> HIDE DEF caseOf, written
  <2>2. QED
    BY <1>3, <2>1, FiniteRange
<1>5. IsFiniteSet(DOMAIN incidents')
  <2> HIDE DEF written
  <2>1. IsFiniteSet(DOMAIN incidents \cup DOMAIN written)
    BY <1>1, <1>4, FS_Union
  <2>2. QED
    BY <1>2, <2>1
<1>6. ASSUME NEW case \in DOMAIN written
      PROVE  /\ case \in Case
             /\ written[case] \in [open : BOOLEAN, alert_count : Nat]
             /\ written[case].open =>
                  \/ case \in DOMAIN incidents /\ incidents[case].open
                  \/ /\ case.fingerprint \in DOMAIN state.seen
                     /\ state.seen[case.fingerprint] = None
                     /\ case = NewCase(case.fingerprint)
  <2>1. PICK fp \in DOMAIN state.seen : case = CaseOf(state, fp)
    BY DEF Written
  <2>2. /\ case \in Case /\ case.fingerprint = fp
        /\ written[case] \in [open : BOOLEAN, alert_count : Nat]
        /\ IF state.seen[fp] = None
           THEN case = NewCase(fp)
           ELSE case \in DOMAIN incidents /\ written[case].open = incidents[case].open
    BY <2>1, WrittenCase
  <2> HIDE DEF written, state
  <2>3. QED
    BY <2>2
<1> HIDE DEF written, state
<1>7. CasesOK'
  BY <1>1, <1>2, <1>5, <1>6 DEF CasesOK
<1>8. \A case \in DOMAIN incidents' : incidents'[case].open =>
         \/ case \in DOMAIN incidents /\ incidents[case].open
         \/ /\ case.fingerprint \in DOMAIN state.seen
            /\ state.seen[case.fingerprint] = None
            /\ case = NewCase(case.fingerprint)
  BY <1>2, <1>6
<1>9. QED
  BY <1>2, <1>7, <1>8 DEF state, written

(* The commit: what was in hand is filed, under cases that are there, and    *)
(* the index has seen to it that no fingerprint has two of them open.        *)
LEMMA CommitKeeps ==
  ASSUME IInv, NEW c \in Consumers, Commit(c)
  PROVE  IInv'
<1> DEFINE state   == worker[c]
           linked  == [row \in state.inserted |-> CaseOf(state, Fingerprint(row))]
           after   == [Free(state.source) EXCEPT
                         !.phase = "announce", !.batch = state.batch,
                         !.touched = DOMAIN Written(state)]
           created == { fp \in DOMAIN state.seen : state.seen[fp] = None }
<1>1. /\ UNCHANGED <<now, redis, faults>>
      /\ state.phase = "group"
      /\ DOMAIN state.seen = FreshGroups(state)
  BY DEF Commit
<1>2. CASE Abort(c)
  <2>1. faults' \in Nat
    BY <1>1 DEF IInv, StreamOK
  <2>2. QED
    BY <1>1, <1>2, <2>1, FreeKeeps DEF Abort
<1>3. CASE /\ IndexAdmits(created)
           /\ incidents' = Over(Written(state), incidents)
           /\ alerts' = Over(linked, alerts)
           /\ stats' = [tenant \in Tenants |->
                          stats[tenant] + Cardinality({ e \in state.batch :
                                                          state.rows[e].tenant = tenant })]
           /\ Becomes(c, after)
           /\ UNCHANGED announced
  <2>1. /\ CasesOK'
        /\ DOMAIN incidents' = DOMAIN incidents \cup DOMAIN Written(state)
        /\ \A case \in DOMAIN incidents' : incidents'[case].open =>
             \/ case \in DOMAIN incidents /\ incidents[case].open
             \/ /\ case.fingerprint \in DOMAIN state.seen
                /\ state.seen[case.fingerprint] = None
                /\ case = NewCase(case.fingerprint)
    BY <1>1, <1>3, CommittedCases
  <2>2. /\ DOMAIN alerts' = DOMAIN alerts \cup state.inserted
        /\ \A row \in state.inserted : alerts'[row] = CaseOf(state, Fingerprint(row))
        /\ \A row \in DOMAIN alerts \ state.inserted : alerts'[row] = alerts[row]
    <3>1. DOMAIN linked = state.inserted
      OBVIOUS
    <3>2. \A row \in state.inserted : linked[row] = CaseOf(state, Fingerprint(row))
      OBVIOUS
    <3>3. alerts' = Over(linked, alerts)
      BY <1>3
    <3> HIDE DEF linked, state
    <3>4. /\ DOMAIN alerts' = DOMAIN linked \cup DOMAIN alerts
          /\ \A row \in DOMAIN linked : alerts'[row] = linked[row]
          /\ \A row \in DOMAIN alerts \ DOMAIN linked : alerts'[row] = alerts[row]
      BY <3>3 DEF Over
    <3>5. QED
      BY <3>1, <3>2, <3>4
  <2>3. UNCHANGED <<queue, trimmed, delivered, pending, idle>>
    BY <1>1 DEF redis
  <2>4. StreamOK' /\ Grows
    <3> HIDE DEF state
    <3> QED
      BY <1>1, <2>1, <2>2, <2>3 DEF IInv, StreamOK, Grows
  <2>5. RowsOK'
    <3>1. state.inserted \subseteq Rows
      BY <1>1, FreshGroupsType
    <3>2. \A row \in state.inserted : alerts'[row] \in DOMAIN incidents'
      <4>1. ASSUME NEW row \in state.inserted PROVE alerts'[row] \in DOMAIN Written(state)
        <5>1. Fingerprint(row) \in DOMAIN state.seen
          BY <1>1 DEF FreshGroups
        <5>2. CaseOf(state, Fingerprint(row)) \in DOMAIN Written(state)
          BY <1>1, <5>1, WrittenCase
        <5>3. QED
          BY <2>2, <5>2
      <4> HIDE DEF state
      <4>2. QED
        BY <2>1, <4>1
    <3>3. stats' \in [Tenants -> Nat]
      <4>1. ASSUME NEW tenant \in Tenants
            PROVE  Cardinality({ e \in state.batch : state.rows[e].tenant = tenant }) \in Nat
        <5> DEFINE counted == { e \in state.batch : state.rows[e].tenant = tenant }
        <5>1. counted \in SUBSET state.batch /\ IsFiniteSet(state.batch)
          BY CopiesAreCounted
        <5> HIDE DEF counted, state
        <5>2. Cardinality(counted) \in Nat
          BY <5>1, FS_Subset, FS_CardinalityType
        <5>3. QED
          BY <5>2 DEF counted
      <4>2. stats \in [Tenants -> Nat]
        BY DEF IInv, RowsOK
      <4> HIDE DEF state
      <4>3. QED
        BY <1>3, <4>1, <4>2
    <3> HIDE DEF state
    <3>4. QED
      BY <2>1, <2>2, <3>1, <3>2, <3>3 DEF IInv, RowsOK
  <2>6. WritersOK'
    <3>1. /\ DOMAIN after = DOMAIN state
          /\ after.phase = "announce" /\ after.source = state.source
          /\ after.batch = state.batch /\ after.touched = DOMAIN Written(state)
          /\ after.seen = << >>
      BY WriterFields DEF Free
    <3>2. ASSUME NEW e \in state.batch PROVE FiledIn(queue[e], DOMAIN alerts')
      <4>1. /\ IsRowOf(state.rows[e], queue[e])
            /\ state.rows[e] \in state.inserted \cup DOMAIN alerts
        BY <1>1, WriterFields DEF WriterOK, Writer, Parsed
      <4> HIDE DEF state
      <4>2. QED
        BY <2>2, <4>1 DEF FiledIn
    <3>3. Writer(after, queue', delivered', DOMAIN alerts', DOMAIN incidents')
      <4>1. /\ DOMAIN state = {"phase", "source", "batch", "rows", "inserted", "day", "seen", "touched"}
            /\ state.source \in Phases /\ state.batch \subseteq 1 .. delivered
        BY WriterFields
      <4> HIDE DEF after, state
      <4>2. QED
        BY <2>1, <2>3, <3>1, <3>2, <4>1 DEF Writer, Phases
    <3> HIDE DEF after, state
    <3>4. QED
      BY <1>3, <2>4, <3>3, WritersKept DEF IInv
  <2>7. AcknowledgedIsFiled'
    BY <2>2, <2>3 DEF IInv, AcknowledgedIsFiled, Filed, Live, Entries
  <2>8. OneOpenCase'
    <3>1. SUFFICES ASSUME NEW one \in DOMAIN incidents', NEW other \in DOMAIN incidents',
                          incidents'[one].open, incidents'[other].open,
                          one.fingerprint = other.fingerprint
                   PROVE  one = other
      BY DEF OneOpenCase
    <3>2. \A fp \in DOMAIN state.seen : state.seen[fp] = None =>
            ~ \E case \in DOMAIN incidents : case.fingerprint = fp /\ incidents[case].open
      BY <1>3 DEF IndexAdmits, OpenCases
    <3> HIDE DEF state
    <3>3. QED
      BY <2>1, <3>1, <3>2 DEF IInv, OneOpenCase
  <2>9. AnnouncedExists'
    <3> HIDE DEF state
    <3> QED
      BY <1>3, <2>1 DEF IInv, AnnouncedExists
  <2>10. QED
    BY <2>1, <2>4, <2>5, <2>6, <2>7, <2>8, <2>9 DEF IInv
<1>4. QED
  BY <1>2, <1>3 DEF Commit

(* An analyst opens or closes a case and changes nothing else. *)
LEMMA ReviewKeeps ==
  ASSUME IInv, NEW case \in DOMAIN incidents, Resolve(case) \/ Reopen(case)
  PROVE  IInv'
<1>1. /\ UNCHANGED <<now, redis, alerts, stats, announced, worker, faults>>
      /\ \E open \in BOOLEAN : incidents' = [incidents EXCEPT ![case].open = open]
  BY DEF Resolve, Reopen
<1>2. UNCHANGED <<queue, trimmed, delivered, pending, idle>>
  BY <1>1 DEF redis
<1>3. DOMAIN incidents' = DOMAIN incidents /\ CasesOK'
  BY <1>1 DEF IInv, CasesOK
<1>4. StreamOK' /\ RowsOK' /\ Grows
  BY <1>1, <1>2, <1>3 DEF IInv, StreamOK, RowsOK, Grows
<1>5. WritersOK'
  BY <1>1, <1>4, WritersKept DEF IInv
<1>6. AcknowledgedIsFiled' /\ AnnouncedExists'
  BY <1>1, <1>2, <1>3 DEF IInv, AcknowledgedIsFiled, AnnouncedExists, Filed, Live, Entries
<1>7. OneOpenCase'
  <2>1. \A other \in DOMAIN incidents : incidents[other] \in [open : BOOLEAN, alert_count : Nat]
    BY DEF IInv, CasesOK
  <2>2. CASE Resolve(case)
    BY <1>3, <2>1, <2>2 DEF Resolve, IInv, OneOpenCase
  <2>3. CASE Reopen(case)
    <3>1. \A other \in DOMAIN incidents :
            other.fingerprint = case.fingerprint => ~incidents[other].open
      BY <2>3 DEF Reopen, IndexAdmits, OpenCases
    <3>2. \A other \in DOMAIN incidents \ {case} : incidents'[other] = incidents[other]
      BY <2>3 DEF Reopen
    <3>3. QED
      BY <1>3, <3>1, <3>2 DEF IInv, OneOpenCase
  <2>4. QED
    BY <2>2, <2>3
<1>8. QED
  BY <1>3, <1>4, <1>5, <1>6, <1>7 DEF IInv

-----------------------------------------------------------------------------
(* The theorems *)

(* The invariant holds at the start, *)
LEMMA InitEstablishesIInv == Init => IInv
<1> SUFFICES ASSUME Init PROVE IInv
  OBVIOUS
<1>1. StreamOK
  BY DEF Init, StreamOK
<1>2. CasesOK /\ RowsOK /\ OneOpenCase /\ AnnouncedExists
  BY FS_EmptySet DEF Init, CasesOK, RowsOK, OneOpenCase, AnnouncedExists
<1>3. WritersOK
  <2>1. WriterOK(Free("claim"))
    BY FreeIsOK DEF WriterOK
  <2>2. QED
    BY <2>1 DEF Init, WritersOK
<1>4. AcknowledgedIsFiled
  BY DEF Init, AcknowledgedIsFiled, Live, Entries
<1>5. QED
  BY <1>1, <1>2, <1>3, <1>4 DEF IInv

(* and every step keeps it. *)
LEMMA StepKeepsIInv == IInv /\ [Next]_vars => IInv'
<1> SUFFICES ASSUME IInv, [Next]_vars PROVE IInv'
  OBVIOUS
<1>1. CASE Tick
  BY <1>1, TickKeeps
<1>2. ASSUME NEW alert \in Alerts, Publish(alert) PROVE IInv'
  BY <1>2, PublishKeeps
<1>3. ASSUME NEW entry \in Entries, GoesIdle(entry) PROVE IInv'
  BY <1>3, GoesIdleKeeps
<1>4. ASSUME NEW c \in Consumers, Step(c) \/ Crash(c) \/ Fails(c) PROVE IInv'
  BY <1>4, ClaimKeeps, ReadKeeps, InsertKeeps, CountStatsKeeps, LookKeeps, CommitKeeps,
     AnnounceKeeps, AckKeeps, RestartCrashFailKeep
     DEF Step
<1>5. ASSUME NEW case \in DOMAIN incidents, Resolve(case) \/ Reopen(case) PROVE IInv'
  BY <1>5, ReviewKeeps
<1>6. CASE UNCHANGED vars
  <2>1. /\ UNCHANGED <<redis, database>> /\ UNCHANGED worker
        /\ now' \in Nat /\ faults' \in Nat /\ announced' \subseteq DOMAIN incidents
    BY <1>6 DEF vars, IInv, StreamOK, AnnouncedExists
  <2>2. QED
    BY <2>1, QuietStep
<1>7. QED
  BY <1>1, <1>2, <1>3, <1>4, <1>5, <1>6 DEF Next

(* The inductive invariant holds of every reachable state. *)
THEOREM PipelineInvariant == Spec => []IInv
<1>1. QED
  BY InitEstablishesIInv, StepKeepsIInv, PTL DEF Spec

(* Stream, tables and writers keep their types, for any alerts and writers,  *)
(* and whatever crashes.                                                     *)
THEOREM TypeCorrect == Spec => []TypeOK
<1>1. IInv => TypeOK
  BY DEF IInv, StreamOK, CasesOK, RowsOK, WritersOK, WriterOK, Writer, TypeOK
<1>2. QED
  BY <1>1, PipelineInvariant, PTL

(* No ack gets ahead of its commit: an entry the group has handed out and no *)
(* longer holds has become a row.                                            *)
THEOREM AcknowledgedIsFiledAlways == Spec => []AcknowledgedIsFiled
<1>1. IInv => AcknowledgedIsFiled
  BY DEF IInv
<1>2. QED
  BY <1>1, PipelineInvariant, PTL

(* Writers and analysts never leave a fingerprint with two open cases.       *)
THEOREM OneOpenCaseAlways == Spec => []OneOpenCase
<1>1. IInv => OneOpenCase
  BY DEF IInv
<1>2. QED
  BY <1>1, PipelineInvariant, PTL

(* Nobody is told of a case that a rollback took back.                       *)
THEOREM AnnouncedExistsAlways == Spec => []AnnouncedExists
<1>1. IInv => AnnouncedExists
  BY DEF IInv
<1>2. QED
  BY <1>1, PipelineInvariant, PTL

-----------------------------------------------------------------------------
(***************************************************************************)
(* The proof that IngestPipeline implements AlertLedger (its safety), for   *)
(* alerts whose timestamps parse: the row of an alert that does not carry a *)
(* time is made when it is parsed, and is another each time.                *)
(*                                                                          *)
(* The argument: only a commit files alerts and only a commit or an analyst *)
(* moves cases; everything else is the buffer's.  A commit files what it    *)
(* inserted, which nobody else can have filed meanwhile (the row locks:     *)
(* Exclusive), and a case it creates is one that never was (Numbered).      *)
(***************************************************************************)

-----------------------------------------------------------------------------
(* The inductive invariant of the refinement *)

(* Every case has an alert. *)
Founded == Range(alerts) = DOMAIN incidents

(* The cases of a fingerprint are numbered from one, none skipped. *)
CasesOf(fp, cases) == { case \in cases : case.fingerprint = fp }
NumberedIn(cases) == \A case \in cases : case.nth <= Cardinality(CasesOf(case.fingerprint, cases))
Numbered == NumberedIn(DOMAIN incidents)

(* A transaction's rows are no one else's and not yet there. *)
Writes(c) == worker[c].phase \in {"count", "group"}
Exclusive ==
  \A c \in Consumers : Writes(c) =>
    /\ worker[c].inserted \cap DOMAIN alerts = {}
    /\ \A d \in Consumers \ {c} : Writes(d) => worker[c].inserted \cap worker[d].inserted = {}

(* The table maps rows to cases, and nothing else. *)
Table == alerts = [row \in DOMAIN alerts |-> alerts[row]]

LInv == IInv /\ Founded /\ Numbered /\ Exclusive /\ Table

-----------------------------------------------------------------------------
(* Exclusive: what the row locks are for *)

(* A writer that does not write disturbs nobody. *)
LEMMA ExclusiveKept ==
  ASSUME IInv, Exclusive, UNCHANGED alerts, NEW c \in Consumers, NEW state, Becomes(c, state),
         \/ state.phase \notin {"count", "group"}
         \/ Writes(c) /\ state.inserted = worker[c].inserted
  PROVE  Exclusive'
<1>1. /\ worker'[c] = state
      /\ \A d \in Consumers \ {c} : worker'[d] = worker[d]
  BY DEF Becomes, IInv, WritersOK
<1>2. \A d \in Consumers : Writes(d)' => Writes(d) /\ worker'[d].inserted = worker[d].inserted
  BY <1>1 DEF Writes
<1>3. QED
  BY <1>2 DEF Exclusive, Writes

(* Inserting waits for the rows that others are inserting. *)
LEMMA InsertKeepsExclusive ==
  ASSUME IInv, Exclusive, NEW c \in Consumers, Insert(c)
  PROVE  Exclusive'
<1> DEFINE rows  == [e \in worker[c].batch |-> RowOf(queue[e])]
           state == [worker[c] EXCEPT !.phase = "count", !.rows = rows,
                                      !.inserted = Range(rows) \ DOMAIN alerts]
<1>1. /\ Becomes(c, state) \/ Becomes(c, Free("claim"))
      /\ Range(rows) \cap LockedRows(c) = {}
      /\ UNCHANGED alerts
  BY DEF Insert, Abort, database
<1>2. CASE Becomes(c, Free("claim"))
  <2>1. Free("claim").phase \notin {"count", "group"}
    BY DEF Free
  <2>2. QED
    BY <1>1, <1>2, <2>1, ExclusiveKept
<1>3. CASE Becomes(c, state)
  <2>1. state.phase = "count" /\ state.inserted = Range(rows) \ DOMAIN alerts
    BY WriterFields
  <2> HIDE DEF state
  <2>2. /\ worker'[c] = state
        /\ \A d \in Consumers \ {c} : worker'[d] = worker[d]
    BY <1>3 DEF Becomes, IInv, WritersOK
  <2>3. \A d \in Consumers \ {c} : Writes(d) => Range(rows) \cap worker[d].inserted = {}
    BY <1>1 DEF LockedRows, Writes
  <2> HIDE DEF rows
  <2>4. QED
    BY <1>1, <2>1, <2>2, <2>3 DEF Exclusive, Writes
<1>4. QED
  BY <1>1, <1>2, <1>3

(* A commit files rows that are its own. *)
LEMMA CommitKeepsExclusive ==
  ASSUME IInv, Exclusive, NEW c \in Consumers, NEW state, Becomes(c, state), Writes(c),
         state.phase \notin {"count", "group"},
         DOMAIN alerts' = DOMAIN alerts \cup worker[c].inserted
  PROVE  Exclusive'
<1>1. /\ worker'[c] = state
      /\ \A d \in Consumers \ {c} : worker'[d] = worker[d]
  BY DEF Becomes, IInv, WritersOK
<1>2. \A d \in Consumers : Writes(d)' => d # c /\ Writes(d) /\ worker'[d] = worker[d]
  BY <1>1 DEF Writes
<1>3. \A d \in Consumers \ {c} : Writes(d) => worker[d].inserted \cap DOMAIN alerts' = {}
  BY DEF Exclusive
<1>4. QED
  BY <1>2, <1>3 DEF Exclusive, Writes

-----------------------------------------------------------------------------
(* Numbered: a new case is new *)

LEMMA NewCaseIsNew ==
  ASSUME IInv, Numbered, NEW fp \in Tenants \X Groups
  PROVE  /\ NewCase(fp) \notin DOMAIN incidents
         /\ NewCase(fp).nth = 1 + Cardinality(CasesOf(fp, DOMAIN incidents))
         /\ IsFiniteSet(CasesOf(fp, DOMAIN incidents))
         /\ Cardinality(CasesOf(fp, DOMAIN incidents)) \in Nat
<1> DEFINE cases == CasesOf(fp, DOMAIN incidents)
<1>1. cases \in SUBSET DOMAIN incidents /\ IsFiniteSet(DOMAIN incidents)
  BY DEF IInv, CasesOK, CasesOf
<1>2. IsFiniteSet(cases) /\ Cardinality(cases) \in Nat
  <2> HIDE DEF cases
  <2> QED
    BY <1>1, FS_Subset, FS_CardinalityType
<1>3. NewCase(fp).nth = 1 + Cardinality(cases) /\ NewCase(fp).fingerprint = fp
  BY DEF NewCase, CasesOf
<1> HIDE DEF cases
<1>4. NewCase(fp) \in DOMAIN incidents => NewCase(fp).nth <= Cardinality(cases)
  BY <1>3 DEF Numbered, NumberedIn, cases
<1>5. QED
  BY <1>2, <1>3, <1>4 DEF cases

(* The numbering survives the cases that a commit adds. *)
LEMMA NumberedKept ==
  ASSUME IInv, Numbered, NEW cases, IsFiniteSet(cases), DOMAIN incidents \subseteq cases,
         \A case \in cases \ DOMAIN incidents :
            /\ case.fingerprint \in Tenants \X Groups
            /\ case = NewCase(case.fingerprint)
  PROVE  NumberedIn(cases)
<1> SUFFICES ASSUME NEW case \in cases
             PROVE  case.nth <= Cardinality(CasesOf(case.fingerprint, cases))
  BY DEF NumberedIn
<1> DEFINE fp     == case.fingerprint
           before == CasesOf(fp, DOMAIN incidents)
           after  == CasesOf(fp, cases)
<1>1. IsFiniteSet(after) /\ Cardinality(after) \in Nat
  <2>1. after \in SUBSET cases
    BY DEF CasesOf
  <2> HIDE DEF after
  <2>2. QED
    BY <2>1, FS_Subset, FS_CardinalityType
<1>2. CASE case \in DOMAIN incidents
  <2>1. case.nth <= Cardinality(before) /\ case.nth \in Nat
    BY <1>2 DEF Numbered, NumberedIn, IInv, CasesOK, Case
  <2>2. before \in SUBSET after
    BY DEF CasesOf
  <2>3. Cardinality(before) <= Cardinality(after) /\ Cardinality(before) \in Nat
    <3> HIDE DEF before, after
    <3> QED
      BY <1>1, <2>2, FS_Subset, FS_CardinalityType
  <2> HIDE DEF before, after
  <2>4. Cardinality(CasesOf(case.fingerprint, cases)) = Cardinality(after)
    BY DEF after
  <2>5. QED
    BY <1>1, <2>1, <2>3, <2>4
<1>3. CASE case \notin DOMAIN incidents
  <2>1. /\ case = NewCase(fp)
        /\ case.nth = 1 + Cardinality(before)
        /\ IsFiniteSet(before) /\ Cardinality(before) \in Nat
    BY <1>3, NewCaseIsNew
  <2>2. case \notin before /\ before \cup {case} \in SUBSET after
    BY <1>3 DEF CasesOf
  <2> HIDE DEF before, after, fp
  <2>3. Cardinality(before \cup {case}) = Cardinality(before) + 1
    BY <2>1, <2>2, FS_AddElement
  <2>4. Cardinality(before \cup {case}) <= Cardinality(after)
    BY <1>1, <2>2, FS_Subset
  <2>5. Cardinality(CasesOf(case.fingerprint, cases)) = Cardinality(after)
    BY DEF after, fp
  <2>6. QED
    BY <1>1, <2>1, <2>3, <2>4, <2>5
<1>4. QED
  BY <1>2, <1>3

-----------------------------------------------------------------------------
(* The steps *)

(* The steps of a writer that neither insert nor commit. *)
LEMMA OtherStepsKeepExclusive ==
  ASSUME IInv, Exclusive, NEW c \in Consumers,
         \/ Claim(c) \/ Read(c) \/ CountStats(c) \/ Announce(c) \/ Ack(c) \/ Restart(c)
         \/ Crash(c) \/ Fails(c) \/ \E fp : Look(c, fp)
  PROVE  UNCHANGED <<alerts, incidents>> /\ Exclusive'
<1>1. UNCHANGED <<alerts, incidents>>
  BY DEF Claim, Read, CountStats, Announce, Ack, Restart, Crash, Fails, Look, Abort, database
<1> SUFFICES Exclusive'
  BY <1>1
<1>2. \A phase : Free(phase).phase = phase
  BY DEF Free
<1>3. ASSUME NEW phase \in {"claim", "read", "down"}, Becomes(c, Free(phase)) PROVE Exclusive'
  <2>1. Free(phase).phase \notin {"count", "group"}
    BY <1>2
  <2>2. QED
    BY <1>1, <1>3, <2>1, ExclusiveKept
<1>4. ASSUME NEW phase, NEW batch,
             Becomes(c, [Free(phase) EXCEPT !.phase = "insert", !.batch = batch])
      PROVE  Exclusive'
  <2> DEFINE state == [Free(phase) EXCEPT !.phase = "insert", !.batch = batch]
  <2>1. state.phase = "insert"
    BY DEF Free
  <2> HIDE DEF state
  <2>2. Becomes(c, state) /\ state.phase \notin {"count", "group"}
    BY <1>4, <2>1 DEF state
  <2>3. QED
    BY <1>1, <2>2, ExclusiveKept
<1>5. CASE Claim(c)
  <2>1. PICK batch :
          Becomes(c, IF batch = {} THEN Free("read")
                     ELSE [Free("claim") EXCEPT !.phase = "insert", !.batch = batch])
    BY <1>5 DEF Claim
  <2>2. QED
    BY <1>3, <1>4, <2>1
<1>6. CASE Read(c)
  <2>1. PICK batch :
          Becomes(c, IF batch = {} THEN Free("claim")
                     ELSE [Free("read") EXCEPT !.phase = "insert", !.batch = batch])
    BY <1>6 DEF Read
  <2>2. QED
    BY <1>3, <1>4, <2>1
<1>7. CASE Ack(c)
  <2>1. NextPhase(worker[c].source) \in {"claim", "read", "down"}
    BY DEF NextPhase
  <2>2. Becomes(c, Free(NextPhase(worker[c].source)))
    BY <1>7 DEF Ack
  <2>3. QED
    BY <1>3, <2>1, <2>2
<1>8. CASE Restart(c) \/ Crash(c) \/ Fails(c)
  <2>1. Becomes(c, Free("claim")) \/ Becomes(c, Free("down"))
    BY <1>8 DEF Restart, Crash, Fails, Abort
  <2>2. QED
    BY <1>3, <2>1
<1>9. CASE CountStats(c)
  <2> DEFINE state == [worker[c] EXCEPT !.phase = "group", !.day = Day(now)]
  <2>1. Becomes(c, state) /\ Writes(c) /\ state.inserted = worker[c].inserted
    BY <1>9, WriterFields DEF CountStats, Writes
  <2> HIDE DEF state
  <2>2. QED
    BY <1>1, <2>1, ExclusiveKept
<1>10. CASE Announce(c)
  <2> DEFINE state == [worker[c] EXCEPT !.phase = "ack", !.touched = {}]
  <2>1. Becomes(c, state) /\ state.phase \notin {"count", "group"}
    BY <1>10, WriterFields DEF Announce
  <2> HIDE DEF state
  <2>2. QED
    BY <1>1, <2>1, ExclusiveKept
<1>11. ASSUME NEW fp, Look(c, fp) PROVE Exclusive'
  <2>1. PICK found : Becomes(c, [worker[c] EXCEPT !.seen = [f \in DOMAIN @ \cup {fp} |->
                                                           IF f = fp THEN found ELSE @[f]]])
    BY <1>11 DEF Look
  <2> DEFINE state == [worker[c] EXCEPT !.seen = [f \in DOMAIN @ \cup {fp} |->
                                                    IF f = fp THEN found ELSE @[f]]]
  <2>2. Becomes(c, state) /\ Writes(c) /\ state.inserted = worker[c].inserted
    BY <1>11, <2>1, WriterFields DEF Look, Writes
  <2> HIDE DEF state
  <2>3. QED
    BY <1>1, <2>2, ExclusiveKept
<1>12. QED
  BY <1>5, <1>6, <1>7, <1>8, <1>9, <1>10, <1>11

(* The ledger as the pipeline shows it. *)
Accepted == { queue[e] : e \in Live \cup InHand } \cup DOMAIN alerts
Opened   == { case \in DOMAIN incidents : incidents[case].open }

(* A step that neither files nor moves a case is the buffer's. *)
LEMMA BufferStep ==
  ASSUME UNCHANGED <<alerts, incidents>>
  PROVE  Ledger!Buffer
BY DEF Ledger!Buffer

LEMMA LedgerOpenCases ==
  OneOpenCase => Ledger!OneOpenCaseEach(Opened)
BY DEF OneOpenCase, Ledger!OneOpenCaseEach, Opened

(* What an analyst does is a review. *)
LEMMA ReviewStep ==
  ASSUME LInv, IInv', NEW case \in DOMAIN incidents, Resolve(case) \/ Reopen(case)
  PROVE  Founded' /\ Numbered' /\ Exclusive' /\ Table' /\ Ledger!Review
<1>1. /\ UNCHANGED <<redis, alerts, worker>>
      /\ DOMAIN incidents' = DOMAIN incidents
  BY DEF Resolve, Reopen
<1>2. UNCHANGED <<queue, trimmed, delivered, pending, idle>>
  BY <1>1 DEF redis
<1>3. Founded' /\ Numbered' /\ Table'
  BY <1>1 DEF LInv, Founded, Numbered, Table
<1>4. Exclusive'
  BY <1>1 DEF LInv, Exclusive, Writes
<1>5. Accepted' = Accepted
  BY <1>1, <1>2 DEF Accepted, Live, Entries, InHand
<1>6. Opened' \subseteq Range(alerts)
  BY <1>1 DEF LInv, Founded, Opened
<1>7. Ledger!OneOpenCaseEach(Opened')
  BY LedgerOpenCases DEF IInv, OneOpenCase, Ledger!OneOpenCaseEach, Opened
<1>8. Ledger!Review <=> /\ Opened' \subseteq Range(alerts)
                        /\ Ledger!OneOpenCaseEach(Opened')
                        /\ UNCHANGED <<Accepted, alerts>>
  BY DEF Ledger!Review, Accepted, Opened, Range, Ledger!Range
<1>9. QED
  BY <1>1, <1>3, <1>4, <1>5, <1>6, <1>7, <1>8

-----------------------------------------------------------------------------
(* Commits are filings *)

Dated == \A alert \in Alerts : alert.timestamp # None

(* The row of an alert that carries its time is the alert. *)
LEMMA RowIsAlert ==
  ASSUME Dated, NEW alert \in Alerts, NEW row \in Rows, IsRowOf(row, alert)
  PROVE  row = alert
<1>1. /\ alert \in [ tenant : Tenants, wazuh_id : Keys, group : Groups,
                     timestamp : Nat \cup {None} ]
      /\ alert.timestamp # None
  BY IngestPipelineAssumption DEF Dated
<1>2. row = [alert EXCEPT !.timestamp = alert.timestamp]
  BY <1>1 DEF IsRowOf
<1>3. QED
  BY <1>1, <1>2

(* What a transaction inserted are alerts of its batch. *)
LEMMA InsertedAreInHand ==
  ASSUME IInv, Dated, NEW c \in Consumers, worker[c].phase = "group"
  PROVE  worker[c].inserted \subseteq { queue[e] : e \in worker[c].batch }
<1> SUFFICES ASSUME NEW row \in worker[c].inserted
             PROVE  \E e \in worker[c].batch : row = queue[e]
  OBVIOUS
<1>1. /\ DOMAIN worker[c].rows = worker[c].batch
      /\ worker[c].inserted \subseteq Range(worker[c].rows)
      /\ \A e \in worker[c].batch :
           worker[c].rows[e] \in Rows /\ IsRowOf(worker[c].rows[e], queue[e])
  BY WriterFields DEF WriterOK, Writer, Parsed
<1>2. PICK e \in worker[c].batch : row = worker[c].rows[e]
  BY <1>1 DEF Range
<1>3. QED
  BY <1>1, <1>2, WriterFields, RowIsAlert

(* The commit, seen from the ledger. *)
Files(c) ==
  LET state == worker[c]
  IN  /\ state.phase = "group"
      /\ DOMAIN state.seen = FreshGroups(state)
      /\ incidents' = Over(Written(state), incidents)
      /\ DOMAIN alerts' = DOMAIN alerts \cup state.inserted
      /\ \A row \in state.inserted : alerts'[row] = CaseOf(state, Fingerprint(row))
      /\ \A row \in DOMAIN alerts \ state.inserted : alerts'[row] = alerts[row]
      /\ Table'
      /\ \E after : /\ Becomes(c, after)
                    /\ after.phase = "announce" /\ after.batch = state.batch
                    /\ DOMAIN after.seen = {}
      /\ UNCHANGED redis

LEMMA CommitFiles ==
  ASSUME IInv, NEW c \in Consumers, Commit(c)
  PROVE  Files(c) \/ Abort(c)
<1> DEFINE state  == worker[c]
           linked == [row \in state.inserted |-> CaseOf(state, Fingerprint(row))]
           after  == [Free(state.source) EXCEPT
                        !.phase = "announce", !.batch = state.batch,
                        !.touched = DOMAIN Written(state)]
<1>1. /\ state.phase = "group"
      /\ DOMAIN state.seen = FreshGroups(state)
      /\ UNCHANGED redis
  BY DEF Commit
<1>2. SUFFICES ASSUME incidents' = Over(Written(state), incidents),
                      alerts' = Over(linked, alerts),
                      Becomes(c, after)
               PROVE  Files(c)
  BY DEF Commit
<1>3. after.phase = "announce" /\ after.batch = state.batch /\ DOMAIN after.seen = {}
  BY DEF Free
<1>4. /\ DOMAIN linked = state.inserted
      /\ \A row \in state.inserted : linked[row] = CaseOf(state, Fingerprint(row))
  OBVIOUS
<1> HIDE DEF linked, after
<1>5. /\ DOMAIN alerts' = DOMAIN linked \cup DOMAIN alerts
      /\ \A row \in DOMAIN linked : alerts'[row] = linked[row]
      /\ \A row \in DOMAIN alerts \ DOMAIN linked : alerts'[row] = alerts[row]
      /\ Table'
  BY <1>2 DEF Over, Table
<1>6. \E then : /\ Becomes(c, then) /\ then.phase = "announce" /\ then.batch = state.batch
                /\ DOMAIN then.seen = {}
  BY <1>2, <1>3
<1>7. QED
  BY <1>1, <1>2, <1>4, <1>5, <1>6 DEF Files

(* The cases a commit adds: one for each fingerprint it found no open case   *)
(* of, and each has an alert that the commit files.                          *)
LEMMA NewCases ==
  ASSUME IInv, Founded, Numbered, Exclusive, NEW c \in Consumers, Files(c)
  PROVE  /\ Range(alerts') = Range(alerts) \cup DOMAIN Written(worker[c])
         /\ \A row \in worker[c].inserted :
              /\ row \notin DOMAIN alerts
              /\ alerts'[row] \in DOMAIN Written(worker[c])
              /\ alerts'[row].fingerprint = Fingerprint(row)
         /\ \A row \in DOMAIN alerts : alerts'[row] = alerts[row]
         /\ \A case \in DOMAIN Written(worker[c]) :
              /\ \E row \in worker[c].inserted : alerts'[row] = case
              /\ case.fingerprint \in Tenants \X Groups
              /\ IF case \in DOMAIN incidents
                 THEN Written(worker[c])[case].open = incidents[case].open
                 ELSE Written(worker[c])[case].open /\ case = NewCase(case.fingerprint)
<1> DEFINE state == worker[c]
<1>1. /\ state.phase = "group"
      /\ DOMAIN state.seen = FreshGroups(state)
      /\ DOMAIN alerts' = DOMAIN alerts \cup state.inserted
      /\ \A row \in state.inserted : alerts'[row] = CaseOf(state, Fingerprint(row))
      /\ \A row \in DOMAIN alerts \ state.inserted : alerts'[row] = alerts[row]
  BY DEF Files
<1>2. state.inserted \cap DOMAIN alerts = {}
  BY <1>1 DEF Exclusive, Writes
<1>3. ASSUME NEW row \in state.inserted
      PROVE  /\ alerts'[row] \in DOMAIN Written(state)
             /\ alerts'[row].fingerprint = Fingerprint(row)
  <2>1. Fingerprint(row) \in DOMAIN state.seen
    BY <1>1 DEF FreshGroups
  <2>2. /\ CaseOf(state, Fingerprint(row)) \in DOMAIN Written(state)
        /\ CaseOf(state, Fingerprint(row)).fingerprint = Fingerprint(row)
    BY <1>1, <2>1, WrittenCase
  <2>3. QED
    BY <1>1, <2>2
<1>4. ASSUME NEW case \in DOMAIN Written(state)
      PROVE  /\ \E row \in state.inserted : alerts'[row] = case
             /\ case.fingerprint \in Tenants \X Groups
             /\ IF case \in DOMAIN incidents
                THEN Written(state)[case].open = incidents[case].open
                ELSE Written(state)[case].open /\ case = NewCase(case.fingerprint)
  <2>1. PICK fp \in DOMAIN state.seen : case = CaseOf(state, fp)
    BY DEF Written
  <2>2. /\ case.fingerprint = fp
        /\ IF state.seen[fp] = None
           THEN case = NewCase(fp) /\ Written(state)[case].open
           ELSE /\ case \in DOMAIN incidents
                /\ Written(state)[case].open = incidents[case].open
    BY <1>1, <2>1, WrittenCase
  <2>3. fp \in Tenants \X Groups
    BY <1>1, FreshGroupsType
  <2>4. NewCase(fp) \notin DOMAIN incidents
    BY <2>3, NewCaseIsNew
  <2>5. PICK row \in state.inserted : Fingerprint(row) = fp
    BY <1>1 DEF FreshGroups
  <2> HIDE DEF state
  <2>6. alerts'[row] = case
    BY <1>1, <2>1, <2>5
  <2>7. QED
    BY <2>2, <2>3, <2>4, <2>6
<1> HIDE DEF state
<1>5. Range(alerts') = Range(alerts) \cup DOMAIN Written(state)
  BY <1>1, <1>2, <1>3, <1>4 DEF Range
<1>6. QED
  BY <1>1, <1>2, <1>3, <1>4, <1>5 DEF state

(* A commit keeps the invariant, *)
LEMMA FilesKeepsLInv ==
  ASSUME LInv, NEW c \in Consumers, Files(c)
  PROVE  Founded' /\ Numbered' /\ Exclusive' /\ Table'
<1>1. /\ CasesOK'
      /\ DOMAIN incidents' = DOMAIN incidents \cup DOMAIN Written(worker[c])
  BY CommittedCases DEF LInv, Files
<1>2. Founded'
  BY <1>1, NewCases DEF LInv, Founded
<1>3. Numbered'
  <2>1. \A case \in DOMAIN incidents' \ DOMAIN incidents :
           case.fingerprint \in Tenants \X Groups /\ case = NewCase(case.fingerprint)
    BY <1>1, NewCases DEF LInv
  <2>2. IsFiniteSet(DOMAIN incidents')
    BY <1>1 DEF CasesOK
  <2>3. DOMAIN incidents \subseteq DOMAIN incidents'
    BY <1>1
  <2>4. NumberedIn(DOMAIN incidents')
    BY <2>1, <2>2, <2>3, NumberedKept DEF LInv
  <2>5. QED
    BY <2>4 DEF Numbered
<1>4. Exclusive'
  <2>1. PICK after : Becomes(c, after) /\ after.phase = "announce"
    BY DEF Files
  <2>2. /\ Writes(c)
        /\ DOMAIN alerts' = DOMAIN alerts \cup worker[c].inserted
        /\ after.phase \notin {"count", "group"}
    BY <2>1 DEF Files, Writes
  <2>3. QED
    BY <2>1, <2>2, CommitKeepsExclusive DEF LInv
<1>5. Table'
  BY DEF Files
<1>6. QED
  BY <1>2, <1>3, <1>4, <1>5

(* and is a filing, or, if everything was there already, the buffer's.       *)
LEMMA FilesStep ==
  ASSUME LInv, IInv', Dated, NEW c \in Consumers, Files(c)
  PROVE  Ledger!File \/ Ledger!Buffer
<1> DEFINE inserted == worker[c].inserted
           written  == Written(worker[c])
<1>1. /\ worker[c].phase = "group"
      /\ DOMAIN alerts' = DOMAIN alerts \cup inserted
  BY DEF Files
<1>2. /\ DOMAIN incidents' = DOMAIN incidents \cup DOMAIN written
      /\ \A case \in DOMAIN written : incidents'[case] = written[case]
      /\ \A case \in DOMAIN incidents \ DOMAIN written : incidents'[case] = incidents[case]
  <2>1. incidents' = Over(written, incidents)
    BY DEF Files
  <2> HIDE DEF written
  <2>2. QED
    BY <2>1 DEF Over
<1>3. /\ \A row \in inserted :
           /\ row \notin DOMAIN alerts
           /\ alerts'[row] \in DOMAIN written
           /\ alerts'[row].fingerprint = Fingerprint(row)
      /\ \A row \in DOMAIN alerts : alerts'[row] = alerts[row]
      /\ \A case \in DOMAIN written :
           /\ \E row \in inserted : alerts'[row] = case
           /\ IF case \in DOMAIN incidents
              THEN written[case].open = incidents[case].open
              ELSE written[case].open
  BY NewCases DEF LInv
<1>4. inserted \subseteq { queue[e] : e \in worker[c].batch }
  BY <1>1, InsertedAreInHand DEF LInv
<1>5. /\ UNCHANGED InHand
      /\ worker[c].batch \subseteq InHand
  <2>1. PICK after : Becomes(c, after) /\ after.batch = worker[c].batch
    BY DEF Files
  <2>2. \A d \in Consumers : worker'[d].batch = worker[d].batch
    BY <2>1 DEF Becomes, LInv, IInv, WritersOK
  <2>3. QED
    BY <2>2 DEF InHand
<1> HIDE DEF inserted, written
<1>6. Accepted' = Accepted /\ inserted \subseteq Accepted
  <2>1. UNCHANGED <<queue, trimmed>>
    BY DEF Files, redis
  <2>2. UNCHANGED Live
    BY <2>1 DEF Live, Entries
  <2>3. inserted \subseteq { queue[e] : e \in Live \cup InHand }
    BY <1>4, <1>5
  <2>4. QED
    BY <1>1, <1>5, <2>1, <2>2, <2>3 DEF Accepted
<1>7. DOMAIN alerts' \ DOMAIN alerts = inserted
  BY <1>1, <1>3
<1>8. Opened' = Opened \cup ({ alerts'[row] : row \in inserted } \ Range(alerts))
  <2>1. { alerts'[row] : row \in inserted } = DOMAIN written
    BY <1>3
  <2>2. Range(alerts) = DOMAIN incidents
    BY DEF LInv, Founded
  <2>3. \A case \in DOMAIN incidents : incidents'[case].open <=> incidents[case].open
    BY <1>2, <1>3
  <2>4. \A case \in DOMAIN written \ DOMAIN incidents : incidents'[case].open
    BY <1>2, <1>3
  <2>5. QED
    BY <1>2, <2>1, <2>2, <2>3, <2>4 DEF Opened
<1>9. Ledger!OneOpenCaseEach(Opened')
  BY DEF IInv, OneOpenCase, Ledger!OneOpenCaseEach, Opened
<1>10. CASE inserted = {}
  <2>1. DOMAIN alerts' = DOMAIN alerts /\ Opened' = Opened
    BY <1>1, <1>8, <1>10
  <2>2. alerts' = alerts
    BY <1>3, <2>1 DEF LInv, Files, Table
  <2>3. Ledger!Buffer <=> DOMAIN alerts \subseteq Accepted' /\ UNCHANGED <<alerts, Opened>>
    BY DEF Ledger!Buffer, Accepted, Opened
  <2>4. QED
    BY <1>6, <2>1, <2>2, <2>3 DEF Accepted
<1>11. CASE inserted # {}
  <2>1. /\ DOMAIN alerts \subseteq DOMAIN alerts'
        /\ \A alert \in inserted : alerts'[alert].fingerprint = Ledger!Fingerprint(alert)
    BY <1>1, <1>3 DEF Fingerprint, Ledger!Fingerprint
  <2>2. Ledger!File <=>
          LET batch    == DOMAIN alerts' \ DOMAIN alerts
              newCases == { alerts'[alert] : alert \in batch } \ Range(alerts)
          IN  /\ DOMAIN alerts \subseteq DOMAIN alerts'
              /\ batch # {} /\ batch \subseteq Accepted
              /\ \A alert \in DOMAIN alerts : alerts'[alert] = alerts[alert]
              /\ \A alert \in batch : alerts'[alert].fingerprint = Ledger!Fingerprint(alert)
              /\ Opened' = Opened \cup newCases
              /\ Ledger!OneOpenCaseEach(Opened')
              /\ Accepted' = Accepted
    BY DEF Ledger!File, Accepted, Opened, Range, Ledger!Range
  <2>3. Ledger!File
    BY <1>3, <1>6, <1>7, <1>8, <1>9, <1>11, <2>1, <2>2
  <2>4. QED
    BY <2>3
<1>12. QED
  BY <1>10, <1>11

-----------------------------------------------------------------------------
(* The theorem *)

LEMMA InitEstablishesLInv == Init => LInv /\ Ledger!Init
<1> SUFFICES ASSUME Init PROVE LInv /\ Ledger!Init
  OBVIOUS
<1>1. IInv
  BY InitEstablishesIInv
<1>2. /\ alerts = << >> /\ incidents = << >> /\ queue = << >>
      /\ worker = [c \in Consumers |-> Free("claim")]
  BY DEF Init
<1>3. Founded /\ Numbered /\ Table
  BY <1>2 DEF Founded, Numbered, NumberedIn, Range, Table
<1>4. \A c \in Consumers : worker[c].phase = "claim" /\ worker[c].batch = {}
  BY <1>2 DEF Free
<1>5. Exclusive
  BY <1>4 DEF Exclusive, Writes
<1>6. Accepted = {} /\ Opened = {}
  <2>1. Live = {} /\ InHand = {}
    BY <1>2, <1>4 DEF Live, Entries, InHand
  <2>2. QED
    BY <1>2, <2>1 DEF Accepted, Opened
<1>7. Ledger!Init
  BY <1>2, <1>6 DEF Ledger!Init, Accepted, Opened
<1>8. QED
  BY <1>1, <1>3, <1>5, <1>7 DEF LInv

LEMMA StepImplements ==
  ASSUME LInv, IInv', [Next]_vars
  PROVE  LInv' /\ (Dated => [Ledger!Next]_(Ledger!ledger))
<1>1. ASSUME UNCHANGED <<alerts, incidents>>, Exclusive'
      PROVE  LInv' /\ Ledger!Next
  <2>1. Founded' /\ Numbered' /\ Table'
    BY <1>1 DEF LInv, Founded, Numbered, Table
  <2>2. QED
    BY <1>1, <2>1, BufferStep DEF LInv, Ledger!Next
<1>2. ASSUME UNCHANGED <<alerts, incidents, worker>>
      PROVE  LInv' /\ Ledger!Next
  <2>1. Exclusive'
    BY <1>2 DEF LInv, Exclusive, Writes
  <2>2. QED
    BY <1>1, <1>2, <2>1
<1>3. CASE Tick \/ (\E alert \in Alerts : Publish(alert)) \/ (\E entry \in Entries : GoesIdle(entry))
           \/ UNCHANGED vars
  <2>1. UNCHANGED <<alerts, incidents, worker>>
    BY <1>3 DEF Tick, Publish, GoesIdle, vars, database
  <2>2. QED
    BY <1>2, <2>1
<1>4. ASSUME NEW c \in Consumers, Insert(c) PROVE LInv' /\ Ledger!Next
  <2>1. UNCHANGED <<alerts, incidents>>
    BY <1>4 DEF Insert, Abort, database
  <2>2. QED
    BY <1>1, <1>4, <2>1, InsertKeepsExclusive DEF LInv
<1>5. ASSUME NEW c \in Consumers, Commit(c) PROVE LInv' /\ (Dated => Ledger!Next)
  <2>1. CASE Files(c)
    BY <2>1, FilesKeepsLInv, FilesStep DEF LInv, Ledger!Next
  <2>2. CASE Abort(c)
    <3>1. UNCHANGED <<alerts, incidents>> /\ Becomes(c, Free("claim"))
      BY <2>2 DEF Abort, database
    <3>2. Free("claim").phase \notin {"count", "group"}
      BY DEF Free
    <3>3. QED
      BY <1>1, <3>1, <3>2, ExclusiveKept DEF LInv
  <2>3. QED
    BY <1>5, <2>1, <2>2, CommitFiles DEF LInv
<1>6. ASSUME NEW c \in Consumers, Step(c) \/ Crash(c) \/ Fails(c), ~Insert(c), ~Commit(c)
      PROVE  LInv' /\ Ledger!Next
  <2>1. UNCHANGED <<alerts, incidents>> /\ Exclusive'
    BY <1>6, OtherStepsKeepExclusive DEF Step, LInv
  <2>2. QED
    BY <1>1, <2>1
<1>7. ASSUME NEW case \in DOMAIN incidents, Resolve(case) \/ Reopen(case)
      PROVE  LInv' /\ Ledger!Next
  BY <1>7, ReviewStep DEF LInv, Ledger!Next
<1>8. QED
  BY <1>3, <1>4, <1>5, <1>6, <1>7 DEF Next, Step

(* For alerts whose timestamps parse, the pipeline files each alert once,    *)
(* for good and under a case of its own fingerprint, never with two cases    *)
(* open for it, whatever the writers, crashes and analysts do.               *)
THEOREM PipelineImplementsLedger ==
  ASSUME \A alert \in Alerts : alert.timestamp # None
  PROVE  Spec => ImplementsLedger
<1>1. Dated
  BY DEF Dated
<1>2. Init => LInv /\ Ledger!Init
  BY InitEstablishesLInv
<1>3. IInv' /\ LInv /\ [Next]_vars => LInv' /\ [Ledger!Next]_(Ledger!ledger)
  BY <1>1, StepImplements
<1>4. QED
  BY <1>2, <1>3, PipelineInvariant, PTL DEF Spec, ImplementsLedger, Ledger!Safety

-----------------------------------------------------------------------------
(***************************************************************************)
(* The counts of the cases.  A case carries no lock: a transaction reads    *)
(* the count, and adds to what it read.                                     *)
(***************************************************************************)

(* A writer has looked for cases only if it is about to write them.         *)
Looked ==
  \A c \in Consumers :
    /\ worker[c].phase # "group" => DOMAIN worker[c].seen = {}
    /\ DOMAIN worker[c].seen \subseteq FreshGroups(worker[c])

(* What all steps do but those of a transaction that counts, looks or       *)
(* commits: no count moves, and a writer that moves has nothing in hand.    *)
Quiet ==
  /\ UNCHANGED alerts /\ DOMAIN incidents' = DOMAIN incidents
  /\ \A case \in DOMAIN incidents : incidents'[case].alert_count = incidents[case].alert_count
  /\ delivered <= delivered' /\ \A e \in 1 .. delivered : queue'[e] = queue[e]
  /\ \A c \in Consumers :
       worker'[c] = worker[c] \/ (worker'[c].phase # "group" /\ DOMAIN worker'[c].seen = {})

LEMMA QuietWriter ==
  ASSUME IInv, Looked, NEW c \in Consumers,
         \/ Claim(c) \/ Read(c) \/ Insert(c) \/ Announce(c) \/ Ack(c) \/ Restart(c)
         \/ Crash(c) \/ Fails(c) \/ Abort(c)
  PROVE  \E state : Becomes(c, state) /\ state.phase # "group" /\ DOMAIN state.seen = {}
<1>1. ASSUME NEW phase \in {"claim", "read", "down"}, Becomes(c, Free(phase))
      PROVE  \E state : Becomes(c, state) /\ state.phase # "group" /\ DOMAIN state.seen = {}
  BY <1>1 DEF Free
<1>2. ASSUME NEW phase \in {"claim", "read", "down"}, NEW batch,
             Becomes(c, [Free(phase) EXCEPT !.phase = "insert", !.batch = batch])
      PROVE  \E state : Becomes(c, state) /\ state.phase # "group" /\ DOMAIN state.seen = {}
  <2> DEFINE state == [Free(phase) EXCEPT !.phase = "insert", !.batch = batch]
  <2>1. state.phase = "insert" /\ DOMAIN state.seen = {}
    BY DEF Free
  <2>2. Becomes(c, state)
    BY <1>2
  <2> HIDE DEF state
  <2> QED
    BY <2>1, <2>2
<1>3. CASE Claim(c)
  <2>1. PICK batch :
          Becomes(c, IF batch = {} THEN Free("read")
                     ELSE [Free("claim") EXCEPT !.phase = "insert", !.batch = batch])
    BY <1>3 DEF Claim
  <2> QED
    BY <1>1, <1>2, <2>1
<1>4. CASE Read(c)
  <2>1. PICK batch :
          Becomes(c, IF batch = {} THEN Free("claim")
                     ELSE [Free("read") EXCEPT !.phase = "insert", !.batch = batch])
    BY <1>4 DEF Read
  <2> QED
    BY <1>1, <1>2, <2>1
<1>5. CASE Insert(c)
  <2> DEFINE rows  == [e \in worker[c].batch |-> RowOf(queue[e])]
             state == [worker[c] EXCEPT !.phase = "count", !.rows = rows,
                                        !.inserted = Range(rows) \ DOMAIN alerts]
  <2>1. Becomes(c, state) \/ Becomes(c, Free("claim"))
    BY <1>5 DEF Insert, Abort
  <2>2. state.phase = "count" /\ state.seen = worker[c].seen
    BY WriterFields
  <2>3. DOMAIN worker[c].seen = {}
    BY <1>5 DEF Insert, Looked
  <2> HIDE DEF state
  <2> QED
    BY <1>1, <2>1, <2>2, <2>3
<1>6. CASE Announce(c)
  <2> DEFINE state == [worker[c] EXCEPT !.phase = "ack", !.touched = {}]
  <2>1. Becomes(c, state) /\ state.phase = "ack" /\ state.seen = worker[c].seen
    BY <1>6, WriterFields DEF Announce
  <2>2. DOMAIN worker[c].seen = {}
    BY <1>6 DEF Announce, Looked
  <2> HIDE DEF state
  <2> QED
    BY <2>1, <2>2
<1>7. CASE Ack(c)
  <2>1. NextPhase(worker[c].source) \in {"claim", "read", "down"} /\ Becomes(c, Free(NextPhase(worker[c].source)))
    BY <1>7 DEF Ack, NextPhase
  <2> QED
    BY <1>1, <2>1
<1>8. CASE Restart(c) \/ Crash(c) \/ Fails(c) \/ Abort(c)
  <2>1. Becomes(c, Free("claim")) \/ Becomes(c, Free("down"))
    BY <1>8 DEF Restart, Crash, Fails, Abort
  <2> QED
    BY <1>1, <2>1
<1> QED
  BY <1>3, <1>4, <1>5, <1>6, <1>7, <1>8

LEMMA QuietWriterIsQuiet ==
  ASSUME IInv, IInv', NEW c \in Consumers, NEW state, Becomes(c, state),
         state.phase # "group", DOMAIN state.seen = {},
         UNCHANGED <<alerts, incidents, queue>>, delivered <= delivered'
  PROVE  Quiet
<1>1. worker'[c] = state /\ \A d \in Consumers \ {c} : worker'[d] = worker[d]
  BY DEF Becomes, IInv, WritersOK
<1> QED
  BY <1>1 DEF Quiet

(* Each step is quiet, or one of three of a transaction.                    *)
LEMMA StepsOfCounts ==
  ASSUME IInv, IInv', Looked, [Next]_vars
  PROVE  \/ Quiet
         \/ \E c \in Consumers : CountStats(c) \/ Files(c) \/ \E fp \in FreshGroups(worker[c]) : Look(c, fp)
<1>1. delivered \in Nat /\ delivered' \in Nat /\ queue \in Seq(Alerts) /\ delivered <= Len(queue)
  BY DEF IInv, StreamOK
<1>2. CASE Tick \/ (\E entry \in Entries : GoesIdle(entry)) \/ UNCHANGED vars
  <2>1. UNCHANGED <<alerts, incidents, queue, delivered, worker>>
    BY <1>2 DEF Tick, GoesIdle, vars, redis, database
  <2> QED
    BY <1>1, <2>1 DEF Quiet
<1>3. ASSUME NEW alert \in Alerts, Publish(alert)  PROVE Quiet
  <2>1. UNCHANGED <<alerts, incidents, delivered, worker>> /\ queue' = Append(queue, alert)
    BY <1>3 DEF Publish, database
  <2>2. \A e \in 1 .. delivered : queue'[e] = queue[e]
    BY <1>1, <2>1
  <2> QED
    BY <1>1, <2>1, <2>2 DEF Quiet
<1>4. ASSUME NEW case \in DOMAIN incidents, Resolve(case) \/ Reopen(case)  PROVE Quiet
  <2>1. UNCHANGED <<alerts, queue, delivered, worker>> /\ DOMAIN incidents' = DOMAIN incidents
    BY <1>4 DEF Resolve, Reopen, redis
  <2>2. \A other \in DOMAIN incidents : incidents[other] \in [open : BOOLEAN, alert_count : Nat]
    BY DEF IInv, CasesOK
  <2>3. \A other \in DOMAIN incidents : incidents'[other].alert_count = incidents[other].alert_count
    BY <1>4, <2>2 DEF Resolve, Reopen
  <2> QED
    BY <1>1, <2>1, <2>3 DEF Quiet
<1>5. ASSUME NEW c \in Consumers,
             \/ Claim(c) \/ Insert(c) \/ Announce(c) \/ Ack(c) \/ Restart(c)
             \/ Crash(c) \/ Fails(c) \/ (Commit(c) /\ Abort(c))
      PROVE  Quiet
  <2>1. UNCHANGED <<alerts, incidents, queue, delivered>>
    BY <1>5 DEF Claim, Insert, Announce, Ack, Restart, Crash, Fails, Commit, Abort, redis, database
  <2> QED
    BY <1>1, <1>5, <2>1, QuietWriter, QuietWriterIsQuiet
<1>6. ASSUME NEW c \in Consumers, Read(c)  PROVE Quiet
  <2>1. UNCHANGED <<alerts, incidents, queue>>
    BY <1>6 DEF Read, database
  <2>2. delivered <= delivered'
    <3>1. PICK batch \in FirstBatch({e \in Live : e > delivered}) :
            delivered' = IF batch = {} THEN delivered ELSE CHOOSE e \in batch : \A f \in batch : f <= e
      BY <1>6 DEF Read
    <3>2. batch \subseteq {e \in Live : e > delivered} /\ batch \subseteq 1 .. Len(queue) /\ Len(queue) \in Nat
      BY <1>1, <3>1 DEF FirstBatch, Live, Entries
    <3>3. CASE batch # {}
      <4>1. \E e \in batch : \A f \in batch : f <= e
        BY <3>2, <3>3, LastExists
      <4>2. delivered' \in batch
        BY <3>1, <3>3, <4>1
      <4> QED
        BY <1>1, <3>2, <4>2
    <3> QED
      BY <1>1, <3>1, <3>3
  <2> QED
    BY <1>6, <2>1, <2>2, QuietWriter, QuietWriterIsQuiet
<1>7. ASSUME NEW c \in Consumers, Commit(c)  PROVE Quiet \/ Files(c)
  BY <1>5, <1>7, CommitFiles
<1> QED
  BY <1>2, <1>3, <1>4, <1>5, <1>6, <1>7 DEF Next, Step

(* What those three do to the writer that takes them.                       *)
LEMMA CountStatsShape ==
  ASSUME IInv, NEW c \in Consumers, CountStats(c)
  PROVE  /\ worker[c].phase = "count" /\ worker'[c].phase = "group" /\ worker'[c].day = Day(now)
         /\ worker'[c].batch = worker[c].batch /\ worker'[c].rows = worker[c].rows
         /\ worker'[c].inserted = worker[c].inserted /\ worker'[c].seen = worker[c].seen
         /\ StatsAreFree(c)
         /\ \A d \in Consumers \ {c} : worker'[d] = worker[d]
         /\ UNCHANGED <<now, queue, delivered, alerts, incidents>>
<1> DEFINE after == [worker[c] EXCEPT !.phase = "group", !.day = Day(now)]
<1>1. worker'[c] = after /\ \A d \in Consumers \ {c} : worker'[d] = worker[d]
  BY DEF CountStats, Becomes, IInv, WritersOK
<1>2. /\ after.phase = "group" /\ after.day = Day(now)
      /\ after.batch = worker[c].batch /\ after.rows = worker[c].rows
      /\ after.inserted = worker[c].inserted /\ after.seen = worker[c].seen
  BY WriterFields
<1>3. /\ worker[c].phase = "count" /\ StatsAreFree(c)
      /\ UNCHANGED <<now, queue, delivered, alerts, incidents>>
  BY DEF CountStats, redis, database
<1> HIDE DEF after
<1> QED
  BY <1>1, <1>2, <1>3

LEMMA LookShape ==
  ASSUME IInv, NEW c \in Consumers, NEW fp, Look(c, fp)
  PROVE  /\ worker[c].phase = "group" /\ worker'[c].phase = "group"
         /\ worker'[c].batch = worker[c].batch /\ worker'[c].rows = worker[c].rows
         /\ worker'[c].inserted = worker[c].inserted
         /\ fp \in FreshGroups(worker[c])
         /\ DOMAIN worker'[c].seen = DOMAIN worker[c].seen \cup {fp}
         /\ \A f \in DOMAIN worker[c].seen : worker'[c].seen[f] = worker[c].seen[f]
         /\ worker'[c].seen[fp] # None =>
              /\ worker'[c].seen[fp].case \in DOMAIN incidents
              /\ worker'[c].seen[fp].alert_count = incidents[worker'[c].seen[fp].case].alert_count
         /\ \A d \in Consumers \ {c} : worker'[d] = worker[d]
         /\ UNCHANGED <<now, queue, delivered, alerts, incidents>>
<1>1. /\ worker[c].phase = "group"
      /\ fp \in FreshGroups(worker[c]) \ DOMAIN worker[c].seen
      /\ UNCHANGED <<now, queue, delivered, alerts, incidents>>
  BY DEF Look, redis, database
<1> DEFINE case  == CHOOSE case \in OpenCases(fp) : TRUE
           found == IF OpenCases(fp) = {} THEN None
                    ELSE [case |-> case, alert_count |-> incidents[case].alert_count]
           seen  == [f \in DOMAIN worker[c].seen \cup {fp} |->
                       IF f = fp THEN found ELSE worker[c].seen[f]]
           after == [worker[c] EXCEPT !.seen = seen]
<1>2. worker'[c] = after /\ \A d \in Consumers \ {c} : worker'[d] = worker[d]
  BY WriterFields DEF Look, Becomes, IInv, WritersOK
<1>3. found # None => /\ found.case \in DOMAIN incidents
                      /\ found.alert_count = incidents[found.case].alert_count
  <2>1. OpenCases(fp) # {} => case \in OpenCases(fp)
    OBVIOUS
  <2> HIDE DEF case
  <2> QED
    BY <2>1 DEF OpenCases
<1> HIDE DEF found
<1>4. /\ DOMAIN seen = DOMAIN worker[c].seen \cup {fp} /\ seen[fp] = found
      /\ \A f \in DOMAIN worker[c].seen : seen[f] = worker[c].seen[f]
  BY <1>1
<1> HIDE DEF seen
<1>5. /\ after.phase = worker[c].phase /\ after.batch = worker[c].batch
      /\ after.rows = worker[c].rows /\ after.inserted = worker[c].inserted /\ after.seen = seen
  BY WriterFields
<1> HIDE DEF after
<1> QED
  BY <1>1, <1>2, <1>3, <1>4, <1>5

LEMMA FilesShape ==
  ASSUME IInv, NEW c \in Consumers, Files(c)
  PROVE  /\ worker[c].phase = "group" /\ worker'[c].phase = "announce"
         /\ DOMAIN worker[c].seen = FreshGroups(worker[c]) /\ DOMAIN worker'[c].seen = {}
         /\ \A d \in Consumers \ {c} : worker'[d] = worker[d]
         /\ UNCHANGED <<queue, delivered>>
<1>1. PICK after : Becomes(c, after) /\ after.phase = "announce" /\ DOMAIN after.seen = {}
  BY DEF Files
<1>2. worker'[c] = after /\ \A d \in Consumers \ {c} : worker'[d] = worker[d]
  BY <1>1 DEF Becomes, IInv, WritersOK
<1> QED
  BY <1>1, <1>2 DEF Files, redis

LEMMA LookedKept ==
  ASSUME IInv, IInv', Looked, [Next]_vars
  PROVE  Looked'
<1> SUFFICES ASSUME NEW c \in Consumers
             PROVE  /\ worker'[c].phase # "group" => DOMAIN worker'[c].seen = {}
                    /\ DOMAIN worker'[c].seen \subseteq FreshGroups(worker'[c])
  BY DEF Looked
<1>1. /\ worker[c].phase # "group" => DOMAIN worker[c].seen = {}
      /\ DOMAIN worker[c].seen \subseteq FreshGroups(worker[c])
  BY DEF Looked
<1>2. CASE Quiet
  BY <1>1, <1>2 DEF Quiet
<1>3. ASSUME NEW d \in Consumers, CountStats(d)
      PROVE  /\ worker'[c].phase # "group" => DOMAIN worker'[c].seen = {}
             /\ DOMAIN worker'[c].seen \subseteq FreshGroups(worker'[c])
  BY <1>1, <1>3, CountStatsShape DEF FreshGroups
<1>4. ASSUME NEW d \in Consumers, Files(d)
      PROVE  /\ worker'[c].phase # "group" => DOMAIN worker'[c].seen = {}
             /\ DOMAIN worker'[c].seen \subseteq FreshGroups(worker'[c])
  BY <1>1, <1>4, FilesShape
<1>5. ASSUME NEW d \in Consumers, NEW fp \in FreshGroups(worker[d]), Look(d, fp)
      PROVE  /\ worker'[c].phase # "group" => DOMAIN worker'[c].seen = {}
             /\ DOMAIN worker'[c].seen \subseteq FreshGroups(worker'[c])
  <2>1. CASE c = d
    BY <1>1, <1>5, <2>1, LookShape DEF FreshGroups
  <2>2. CASE c # d
    BY <1>1, <1>5, <2>2, LookShape
  <2> QED
    BY <2>1, <2>2
<1> QED
  BY <1>2, <1>3, <1>4, <1>5, StepsOfCounts

(* What a commit writes of a case: what the transaction read of it, and its *)
(* own copies.                                                              *)
LEMMA WrittenCount ==
  ASSUME IInv, NEW c \in Consumers, worker[c].phase = "group",
         DOMAIN worker[c].seen = FreshGroups(worker[c]),
         NEW fp \in DOMAIN worker[c].seen
  PROVE  /\ worker[c].seen[fp] = None =>
              Written(worker[c])[CaseOf(worker[c], fp)].alert_count = Copies(worker[c], fp)
         /\ worker[c].seen[fp] # None =>
              /\ worker[c].seen[fp].alert_count \in Nat
              /\ CaseOf(worker[c], fp) = worker[c].seen[fp].case
              /\ Written(worker[c])[CaseOf(worker[c], fp)].alert_count =
                   worker[c].seen[fp].alert_count + Copies(worker[c], fp)
<1> DEFINE state == worker[c]
           case == CaseOf(state, fp)
<1>1. case \in DOMAIN Written(state) /\ case.fingerprint = fp
  BY WrittenCase
<1>2. CASE state.seen[fp] = None
  <2>1. Written(state)[case] = [open |-> TRUE, alert_count |-> Copies(state, fp)]
    <3> HIDE DEF case, state
    <3> QED
      BY <1>1, <1>2 DEF Written
  <2> QED
    BY <1>2, <2>1
<1>3. CASE state.seen[fp] # None
  <2>1. case = state.seen[fp].case
    BY <1>3 DEF CaseOf
  <2>2. case \in DOMAIN incidents /\ state.seen[fp].alert_count \in Nat
    BY <1>3, <2>1, WriterFields DEF WriterOK, Writer, Found
  <2>3. incidents[case] \in [open : BOOLEAN, alert_count : Nat]
    BY <2>2 DEF IInv, CasesOK
  <2>4. Written(state)[case] =
          [incidents[case] EXCEPT !.alert_count = state.seen[fp].alert_count + Copies(state, fp)]
    <3> HIDE DEF case, state
    <3> QED
      BY <1>1, <1>3 DEF Written
  <2> QED
    BY <1>3, <2>1, <2>2, <2>3, <2>4
<1> QED
  BY <1>2, <1>3

(* The counts after a commit, and the rows that are new.                    *)
Mine(state, fp) ==
  { e \in state.batch : state.rows[e] \in state.inserted /\ Fingerprint(state.rows[e]) = fp }

LEMMA FilesCounts ==
  ASSUME LInv, NEW c \in Consumers, Files(c)
  PROVE  /\ DOMAIN alerts' = DOMAIN alerts \cup worker[c].inserted
         /\ \A row \in DOMAIN alerts : row \notin worker[c].inserted /\ alerts'[row] = alerts[row]
         /\ \A row \in worker[c].inserted :
              alerts'[row] = CaseOf(worker[c], Fingerprint(row)) /\ Fingerprint(row) \in DOMAIN worker[c].seen
         /\ \A fp \in DOMAIN worker[c].seen :
              /\ CaseOf(worker[c], fp).fingerprint = fp
              /\ worker[c].seen[fp] = None =>
                   /\ CaseOf(worker[c], fp) \notin DOMAIN incidents
                   /\ incidents'[CaseOf(worker[c], fp)].alert_count = Copies(worker[c], fp)
              /\ worker[c].seen[fp] # None =>
                   /\ worker[c].seen[fp].alert_count \in Nat
                   /\ CaseOf(worker[c], fp) = worker[c].seen[fp].case
                   /\ CaseOf(worker[c], fp) \in DOMAIN incidents
                   /\ incidents'[CaseOf(worker[c], fp)].alert_count =
                        worker[c].seen[fp].alert_count + Copies(worker[c], fp)
         /\ \A case \in DOMAIN incidents' :
              \/ case \in DOMAIN incidents /\ incidents'[case] = incidents[case]
              \/ \E fp \in DOMAIN worker[c].seen : case = CaseOf(worker[c], fp)
<1> DEFINE written == Written(worker[c])
<1>1. worker[c].phase = "group" /\ DOMAIN worker[c].seen = FreshGroups(worker[c])
  BY DEF Files
<1>2. incidents' = Over(written, incidents)
  BY DEF Files
<1>3. /\ DOMAIN incidents' = DOMAIN incidents \cup DOMAIN written
      /\ \A case \in DOMAIN written : incidents'[case] = written[case]
      /\ \A case \in DOMAIN incidents \ DOMAIN written : incidents'[case] = incidents[case]
  <2> HIDE DEF written
  <2> QED
    BY <1>2 DEF Over
<1>4. \A case \in DOMAIN written : \E fp \in DOMAIN worker[c].seen : case = CaseOf(worker[c], fp)
  BY DEF Written
<1>5. worker[c].inserted \cap DOMAIN alerts = {}
  BY <1>1 DEF LInv, Exclusive, Writes
<1>6. ASSUME NEW fp \in DOMAIN worker[c].seen
      PROVE  /\ CaseOf(worker[c], fp).fingerprint = fp
             /\ worker[c].seen[fp] = None =>
                   /\ CaseOf(worker[c], fp) \notin DOMAIN incidents
                   /\ incidents'[CaseOf(worker[c], fp)].alert_count = Copies(worker[c], fp)
             /\ worker[c].seen[fp] # None =>
                   /\ worker[c].seen[fp].alert_count \in Nat
                   /\ CaseOf(worker[c], fp) = worker[c].seen[fp].case
                   /\ CaseOf(worker[c], fp) \in DOMAIN incidents
                   /\ incidents'[CaseOf(worker[c], fp)].alert_count =
                        worker[c].seen[fp].alert_count + Copies(worker[c], fp)
  <2>1. fp \in Tenants \X Groups
    BY <1>1, FreshGroupsType DEF LInv
  <2>2. NewCase(fp) \notin DOMAIN incidents
    BY <2>1, NewCaseIsNew DEF LInv
  <2>3. /\ CaseOf(worker[c], fp) \in DOMAIN written
        /\ CaseOf(worker[c], fp).fingerprint = fp
        /\ IF worker[c].seen[fp] = None
           THEN CaseOf(worker[c], fp) = NewCase(fp)
           ELSE CaseOf(worker[c], fp) \in DOMAIN incidents
    BY <1>1, WrittenCase DEF LInv
  <2>4. incidents'[CaseOf(worker[c], fp)] = written[CaseOf(worker[c], fp)]
    BY <1>3, <2>3
  <2>5. /\ worker[c].seen[fp] = None =>
              written[CaseOf(worker[c], fp)].alert_count = Copies(worker[c], fp)
        /\ worker[c].seen[fp] # None =>
              /\ worker[c].seen[fp].alert_count \in Nat
              /\ CaseOf(worker[c], fp) = worker[c].seen[fp].case
              /\ written[CaseOf(worker[c], fp)].alert_count =
                   worker[c].seen[fp].alert_count + Copies(worker[c], fp)
    BY <1>1, WrittenCount DEF LInv
  <2> HIDE DEF written
  <2> QED
    BY <2>2, <2>3, <2>4, <2>5
<1>7. \A row \in worker[c].inserted :
         alerts'[row] = CaseOf(worker[c], Fingerprint(row)) /\ Fingerprint(row) \in DOMAIN worker[c].seen
  BY <1>1 DEF Files, FreshGroups
<1>8. /\ DOMAIN alerts' = DOMAIN alerts \cup worker[c].inserted
      /\ \A row \in DOMAIN alerts : row \notin worker[c].inserted /\ alerts'[row] = alerts[row]
  BY <1>5 DEF Files
<1> HIDE DEF written
<1> QED
  BY <1>3, <1>4, <1>6, <1>7, <1>8

(* A transaction's own entries are finitely many, and its batch's.          *)
LEMMA MineIsFinite ==
  ASSUME IInv, NEW c \in Consumers, NEW fp
  PROVE  /\ Mine(worker[c], fp) \subseteq 1 .. delivered
         /\ IsFiniteSet(Mine(worker[c], fp))
         /\ Cardinality(Mine(worker[c], fp)) = Copies(worker[c], fp)
         /\ Copies(worker[c], fp) \in Nat
<1>1. Mine(worker[c], fp) \subseteq worker[c].batch
  BY DEF Mine
<1>2. IsFiniteSet(worker[c].batch) /\ Copies(worker[c], fp) \in Nat
  BY CopiesAreCounted
<1>3. IsFiniteSet(Mine(worker[c], fp))
  BY <1>1, <1>2, FS_Subset
<1>4. Cardinality(Mine(worker[c], fp)) = Copies(worker[c], fp)
  BY DEF Mine, Copies
<1> QED
  BY <1>1, <1>2, <1>3, <1>4, WriterFields

-----------------------------------------------------------------------------
(* Redelivery: no count exceeds the entries that carry the case's alerts.   *)

Carriers(case) == { e \in 1 .. delivered : \E row \in RowsUnder(case) : IsRowOf(row, queue[e]) }

(* Nor does a count that a transaction has in hand.                         *)
ReadWithin ==
  \A c \in Consumers : \A fp \in DOMAIN worker[c].seen :
    worker[c].seen[fp] # None =>
      worker[c].seen[fp].alert_count <= Cardinality(Carriers(worker[c].seen[fp].case))

RInv == RedeliveryIsNotCounted /\ ReadWithin /\ Looked

LEMMA CarriersAreCounted ==
  ASSUME IInv, NEW case
  PROVE  /\ Carriers(case) \subseteq 1 .. delivered
         /\ IsFiniteSet(Carriers(case)) /\ Cardinality(Carriers(case)) \in Nat
<1>1. delivered \in Nat
  BY DEF IInv, StreamOK
<1>2. IsFiniteSet(1 .. delivered)
  BY <1>1, FS_Interval
<1>3. Carriers(case) \in SUBSET (1 .. delivered)
  BY DEF Carriers
<1> QED
  BY <1>2, <1>3, FS_Subset, FS_CardinalityType

(* Carriers only come to be.                                                *)
LEMMA CarriersGrow ==
  ASSUME IInv, IInv', NEW case, delivered <= delivered',
         \A e \in 1 .. delivered : queue'[e] = queue[e],
         \A row \in DOMAIN alerts : row \in DOMAIN alerts' /\ alerts'[row] = alerts[row]
  PROVE  /\ Carriers(case) \subseteq Carriers(case)'
         /\ IsFiniteSet(Carriers(case)') /\ Cardinality(Carriers(case)') \in Nat
         /\ Cardinality(Carriers(case)) \in Nat
         /\ Cardinality(Carriers(case)) <= Cardinality(Carriers(case)')
<1>1. delivered \in Nat /\ delivered' \in Nat
  BY DEF IInv, StreamOK
<1>2. ASSUME NEW e \in Carriers(case)  PROVE e \in Carriers(case)'
  <2>1. e \in 1 .. delivered /\ e \in 1 .. delivered' /\ queue'[e] = queue[e]
    BY <1>1 DEF Carriers
  <2>2. PICK row \in DOMAIN alerts : alerts[row] = case /\ IsRowOf(row, queue[e])
    BY DEF Carriers, RowsUnder
  <2>3. row \in DOMAIN alerts' /\ alerts'[row] = case /\ IsRowOf(row, queue'[e])
    BY <2>1, <2>2
  <2> QED
    BY <2>1, <2>3 DEF Carriers, RowsUnder
<1>3. Carriers(case)' \in SUBSET (1 .. delivered')
  BY DEF Carriers
<1>4. IsFiniteSet(1 .. delivered')
  BY <1>1, FS_Interval
<1>5. IsFiniteSet(Carriers(case)')
  BY <1>3, <1>4, FS_Subset
<1>6. Carriers(case) \in SUBSET (Carriers(case)')
  BY <1>2
<1> QED
  BY <1>5, <1>6, CarriersAreCounted, FS_Subset, FS_CardinalityType

(* A commit's own entries carry alerts that no row of the case was made of. *)
LEMMA FilesCarriers ==
  ASSUME LInv, IInv', Dated, NEW c \in Consumers, Files(c),
         NEW fp \in DOMAIN worker[c].seen, NEW case, case = CaseOf(worker[c], fp)
  PROVE  Cardinality(Carriers(case)) + Copies(worker[c], fp) <= Cardinality(Carriers(case)')
<1> DEFINE old  == Carriers(case)
           mine == Mine(worker[c], fp)
           new  == Carriers(case)'
<1>1. UNCHANGED <<queue, delivered>> /\ worker[c].phase = "group"
  BY FilesShape DEF LInv
<1>2. /\ DOMAIN alerts' = DOMAIN alerts \cup worker[c].inserted
      /\ \A row \in DOMAIN alerts : row \notin worker[c].inserted /\ alerts'[row] = alerts[row]
      /\ \A row \in worker[c].inserted : alerts'[row] = CaseOf(worker[c], Fingerprint(row))
  BY FilesCounts
<1>3. /\ old \subseteq new /\ IsFiniteSet(new) /\ Cardinality(new) \in Nat
      /\ Cardinality(old) \in Nat
  <2>1. delivered \in Nat /\ delivered <= delivered'
    BY <1>1 DEF LInv, IInv, StreamOK
  <2> QED
    BY <1>1, <1>2, <2>1, CarriersGrow DEF LInv
<1>4. IsFiniteSet(old)
  BY CarriersAreCounted DEF LInv
<1>5. /\ mine \subseteq 1 .. delivered /\ IsFiniteSet(mine)
      /\ Cardinality(mine) = Copies(worker[c], fp) /\ Copies(worker[c], fp) \in Nat
  BY MineIsFinite DEF LInv
<1>6. ASSUME NEW e \in mine
      PROVE  /\ e \in 1 .. delivered /\ worker[c].rows[e] \in worker[c].inserted
             /\ Fingerprint(worker[c].rows[e]) = fp
             /\ IsRowOf(worker[c].rows[e], queue[e])
             /\ worker[c].rows[e] = queue[e]
             /\ queue[e] \in Alerts
  <2>1. e \in worker[c].batch /\ worker[c].rows[e] \in worker[c].inserted
        /\ Fingerprint(worker[c].rows[e]) = fp
    BY DEF Mine
  <2>2. worker[c].rows[e] \in Rows /\ IsRowOf(worker[c].rows[e], queue[e])
    BY <1>1, <2>1, WriterFields DEF LInv, WriterOK, Writer, Parsed
  <2>3. e \in 1 .. delivered /\ queue[e] \in Alerts
    BY <2>1, WriterFields DEF LInv
  <2> QED
    BY <2>1, <2>2, <2>3, RowIsAlert
<1>7. mine \subseteq new
  <2> SUFFICES ASSUME NEW e \in mine PROVE e \in new
    OBVIOUS
  <2>1. worker[c].rows[e] \in DOMAIN alerts' /\ alerts'[worker[c].rows[e]] = case
    BY <1>2, <1>6
  <2>2. e \in 1 .. delivered' /\ IsRowOf(worker[c].rows[e], queue'[e])
    BY <1>1, <1>6
  <2> QED
    BY <2>1, <2>2 DEF Carriers, RowsUnder
<1>8. old \cap mine = {}
  <2> SUFFICES ASSUME NEW e \in old, e \in mine PROVE FALSE
    OBVIOUS
  <2>1. PICK row \in DOMAIN alerts : IsRowOf(row, queue[e])
    BY DEF Carriers, RowsUnder
  <2>2. row \in Rows
    BY DEF LInv, IInv, RowsOK
  <2>3. row = queue[e]
    BY <1>6, <2>1, <2>2, RowIsAlert
  <2> QED
    BY <1>2, <1>6, <2>1, <2>3
<1> HIDE DEF old, mine, new
<1>9. Cardinality(old \cup mine) = Cardinality(old) + Cardinality(mine)
  <2>1. Cardinality(old \cup mine) = Cardinality(old) + Cardinality(mine) - Cardinality(old \cap mine)
    BY <1>4, <1>5, FS_Union
  <2>2. Cardinality(old \cap mine) = 0
    BY <1>8, FS_EmptySet
  <2> QED
    BY <1>3, <1>5, <2>1, <2>2
<1>10. Cardinality(old \cup mine) <= Cardinality(new)
  <2>1. old \cup mine \in SUBSET new
    BY <1>3, <1>7
  <2> QED
    BY <1>3, <2>1, FS_Subset
<1> QED
  BY <1>5, <1>9, <1>10 DEF old, new

LEMMA FilesKeepsRInv ==
  ASSUME Dated, LInv, IInv', RInv, NEW c \in Consumers, Files(c)
  PROVE  RedeliveryIsNotCounted' /\ ReadWithin'
<1>1. /\ DOMAIN worker'[c].seen = {}
      /\ \A d \in Consumers \ {c} : worker'[d] = worker[d]
      /\ UNCHANGED <<queue, delivered>>
  BY FilesShape DEF LInv
<1>2. /\ \A row \in DOMAIN alerts : row \in DOMAIN alerts' /\ alerts'[row] = alerts[row]
      /\ delivered \in Nat /\ delivered <= delivered'
  <2>1. \A row \in DOMAIN alerts : row \in DOMAIN alerts' /\ alerts'[row] = alerts[row]
    BY FilesCounts
  <2>2. delivered \in Nat /\ delivered <= delivered'
    BY <1>1 DEF LInv, IInv, StreamOK
  <2> QED
    BY <2>1, <2>2
<1>3. ASSUME NEW case
      PROVE  /\ Cardinality(Carriers(case)) \in Nat /\ Cardinality(Carriers(case)') \in Nat
             /\ Cardinality(Carriers(case)) <= Cardinality(Carriers(case)')
  BY <1>1, <1>2, CarriersGrow DEF LInv
<1>4. RedeliveryIsNotCounted'
  <2> SUFFICES ASSUME NEW case \in DOMAIN incidents'
               PROVE  incidents'[case].alert_count <= Cardinality(Carriers(case)')
    BY DEF RedeliveryIsNotCounted, Carriers
  <2>1. CASE case \in DOMAIN incidents /\ incidents'[case] = incidents[case]
    <3>1. incidents[case].alert_count <= Cardinality(Carriers(case))
      BY <2>1 DEF RInv, RedeliveryIsNotCounted, Carriers
    <3>2. incidents[case].alert_count \in Nat
      BY <2>1 DEF LInv, IInv, CasesOK
    <3> QED
      BY <1>3, <2>1, <3>1, <3>2
  <2>2. ASSUME NEW fp \in DOMAIN worker[c].seen, case = CaseOf(worker[c], fp)
        PROVE  incidents'[case].alert_count <= Cardinality(Carriers(case)')
    <3>1. Cardinality(Carriers(case)) + Copies(worker[c], fp) <= Cardinality(Carriers(case)')
      BY <2>2, FilesCarriers
    <3>2. Copies(worker[c], fp) \in Nat
      BY MineIsFinite DEF LInv
    <3>3. CASE worker[c].seen[fp] = None
      <4>1. incidents'[case].alert_count = Copies(worker[c], fp)
        BY <2>2, <3>3, FilesCounts
      <4> QED
        BY <1>3, <3>1, <3>2, <4>1
    <3>4. CASE worker[c].seen[fp] # None
      <4>1. /\ worker[c].seen[fp].alert_count \in Nat
            /\ worker[c].seen[fp].case = case
            /\ incidents'[case].alert_count = worker[c].seen[fp].alert_count + Copies(worker[c], fp)
        BY <2>2, <3>4, FilesCounts
      <4>2. worker[c].seen[fp].alert_count <= Cardinality(Carriers(case))
        BY <3>4, <4>1 DEF RInv, ReadWithin
      <4> QED
        BY <1>3, <3>1, <3>2, <4>1, <4>2
    <3> QED
      BY <3>3, <3>4
  <2>3. \/ case \in DOMAIN incidents /\ incidents'[case] = incidents[case]
        \/ \E fp \in DOMAIN worker[c].seen : case = CaseOf(worker[c], fp)
    BY FilesCounts
  <2> QED
    BY <2>1, <2>2, <2>3
<1>5. ReadWithin'
  <2> SUFFICES ASSUME NEW d \in Consumers, NEW fp \in DOMAIN worker'[d].seen,
                      worker'[d].seen[fp] # None, NEW case, case = worker'[d].seen[fp].case
               PROVE  worker'[d].seen[fp].alert_count <= Cardinality(Carriers(case)')
    BY DEF ReadWithin, Carriers, RowsUnder
  <2>1. d # c /\ worker'[d] = worker[d]
    BY <1>1
  <2>2. case = worker[d].seen[fp].case
    BY <2>1
  <2>3. worker[d].seen[fp].alert_count <= Cardinality(Carriers(case))
    BY <2>1, <2>2 DEF RInv, ReadWithin
  <2>4. worker[d].seen[fp].alert_count \in Nat
    BY <2>1, WriterFields DEF LInv, WriterOK, Writer, Found
  <2> QED
    BY <1>3, <2>1, <2>3, <2>4
<1> QED
  BY <1>4, <1>5

(* The other steps move no count, and what a transaction reads is a count.  *)
LEMMA OthersKeepRInv ==
  ASSUME LInv, IInv', RInv,
         Quiet \/ \E c \in Consumers : CountStats(c) \/ \E fp \in FreshGroups(worker[c]) : Look(c, fp)
  PROVE  RedeliveryIsNotCounted' /\ ReadWithin'
<1>1. /\ UNCHANGED alerts /\ DOMAIN incidents' = DOMAIN incidents
      /\ \A case \in DOMAIN incidents : incidents'[case].alert_count = incidents[case].alert_count
      /\ delivered <= delivered' /\ \A e \in 1 .. delivered : queue'[e] = queue[e]
  <2>1. delivered \in Nat
    BY DEF LInv, IInv, StreamOK
  <2> QED
    BY <2>1, CountStatsShape, LookShape DEF Quiet, LInv
<1>2. ASSUME NEW case
      PROVE  /\ Cardinality(Carriers(case)) \in Nat /\ Cardinality(Carriers(case)') \in Nat
             /\ Cardinality(Carriers(case)) <= Cardinality(Carriers(case)')
  BY <1>1, CarriersGrow DEF LInv
<1>3. ASSUME NEW case \in DOMAIN incidents
      PROVE  /\ incidents[case].alert_count \in Nat
             /\ incidents[case].alert_count <= Cardinality(Carriers(case))
             /\ incidents[case].alert_count <= Cardinality(Carriers(case)')
  <2>1. incidents[case].alert_count <= Cardinality(Carriers(case)) /\ incidents[case].alert_count \in Nat
    BY DEF RInv, RedeliveryIsNotCounted, Carriers, LInv, IInv, CasesOK
  <2> QED
    BY <1>2, <2>1
<1>4. RedeliveryIsNotCounted'
  BY <1>1, <1>3 DEF RedeliveryIsNotCounted, Carriers
<1>5. ASSUME NEW d \in Consumers, NEW fp, fp \in DOMAIN worker[d].seen, worker[d].seen[fp] # None,
             NEW case, case = worker[d].seen[fp].case
      PROVE  worker[d].seen[fp].alert_count <= Cardinality(Carriers(case)')
  <2>1. worker[d].seen[fp].alert_count <= Cardinality(Carriers(case))
    BY <1>5 DEF RInv, ReadWithin
  <2>2. worker[d].seen[fp].alert_count \in Nat
    BY <1>5, WriterFields DEF LInv, WriterOK, Writer, Found
  <2> QED
    BY <1>2, <2>1, <2>2
<1>6. ReadWithin'
  <2> SUFFICES ASSUME NEW d \in Consumers, NEW fp, fp \in DOMAIN worker'[d].seen,
                      worker'[d].seen[fp] # None, NEW case, case = worker'[d].seen[fp].case
               PROVE  worker'[d].seen[fp].alert_count <= Cardinality(Carriers(case)')
    BY DEF ReadWithin, Carriers, RowsUnder
  <2>1. CASE fp \in DOMAIN worker[d].seen /\ worker'[d].seen[fp] = worker[d].seen[fp]
    BY <1>5, <2>1
  <2>2. CASE /\ worker'[d].seen[fp].case \in DOMAIN incidents
             /\ worker'[d].seen[fp].alert_count = incidents[worker'[d].seen[fp].case].alert_count
    BY <1>3, <2>2
  <2>3. CASE Quiet
    BY <2>1, <2>3 DEF Quiet
  <2>4. ASSUME NEW c \in Consumers, CountStats(c)
        PROVE  fp \in DOMAIN worker[d].seen /\ worker'[d].seen[fp] = worker[d].seen[fp]
    BY <2>4, CountStatsShape DEF LInv
  <2>5. ASSUME NEW c \in Consumers, NEW f, Look(c, f)
        PROVE  \/ fp \in DOMAIN worker[d].seen /\ worker'[d].seen[fp] = worker[d].seen[fp]
               \/ /\ worker'[d].seen[fp].case \in DOMAIN incidents
                  /\ worker'[d].seen[fp].alert_count = incidents[worker'[d].seen[fp].case].alert_count
    BY <2>5, LookShape DEF LInv
  <2> QED
    BY <2>1, <2>2, <2>3, <2>4, <2>5
<1> QED
  BY <1>4, <1>6

(* For alerts whose timestamps parse, a case counts no more than the entries *)
(* that carry its alerts: an entry that is claimed, or read again after a    *)
(* crash or a lost ack, is not counted a second time (ON CONFLICT DO NOTHING *)
(* and the rows that write_batch gets back from it).                         *)
THEOREM RedeliveryIsNotCountedEver ==
  ASSUME \A alert \in Alerts : alert.timestamp # None
  PROVE  Spec => []RedeliveryIsNotCounted
<1>1. Dated
  BY DEF Dated
<1>2. Init => LInv /\ RInv
  <2> SUFFICES ASSUME Init PROVE LInv /\ RInv
    OBVIOUS
  <2>1. incidents = << >> /\ \A c \in Consumers : DOMAIN worker[c].seen = {}
    BY DEF Init, Free
  <2>2. RedeliveryIsNotCounted /\ ReadWithin /\ Looked
    BY <2>1 DEF RedeliveryIsNotCounted, ReadWithin, Looked
  <2> QED
    BY <2>2, InitEstablishesLInv DEF RInv
<1>3. IInv' /\ LInv /\ RInv /\ [Next]_vars => LInv' /\ RInv'
  <2> SUFFICES ASSUME IInv', LInv, RInv, [Next]_vars PROVE LInv' /\ RInv'
    OBVIOUS
  <2>1. LInv'
    BY StepImplements
  <2>2. Looked'
    BY LookedKept DEF LInv, RInv
  <2>3. RedeliveryIsNotCounted' /\ ReadWithin'
    BY <1>1, FilesKeepsRInv, OthersKeepRInv, StepsOfCounts DEF LInv, RInv
  <2> QED
    BY <2>1, <2>2, <2>3 DEF RInv
<1>4. RInv => RedeliveryIsNotCounted
  BY DEF RInv
<1> QED
  BY <1>2, <1>3, <1>4, PipelineInvariant, PTL DEF Spec

-----------------------------------------------------------------------------
(* Lost updates: no count falls short of the rows, while no transaction     *)
(* spans midnight.                                                          *)

(* The lock on ingest_stats keeps two transactions of a tenant apart.       *)
Apart ==
  \A c, d \in Consumers :
    c # d /\ worker[c].phase = "group" /\ worker[d].phase = "group"
    => TenantsOf(c) \cap TenantsOf(d) = {}

(* So the count that one has in hand is still the case's.                   *)
Latest ==
  \A c \in Consumers : \A fp \in DOMAIN worker[c].seen :
    worker[c].seen[fp] # None =>
      worker[c].seen[fp].alert_count = incidents[worker[c].seen[fp].case].alert_count

NInv == NoAlertIsUncounted /\ IsFiniteSet(DOMAIN alerts) /\ Apart /\ Latest /\ Looked

LEMMA RowsAreCounted ==
  ASSUME IInv, IsFiniteSet(DOMAIN alerts), NEW case
  PROVE  IsFiniteSet(RowsUnder(case)) /\ Cardinality(RowsUnder(case)) \in Nat
<1>1. RowsUnder(case) \in SUBSET DOMAIN alerts
  BY DEF RowsUnder
<1> QED
  BY <1>1, FS_Subset, FS_CardinalityType

(* The tenant of a fingerprint that a transaction has rows for is one of    *)
(* the transaction's.                                                       *)
LEMMA TenantOfGroup ==
  ASSUME IInv, NEW c \in Consumers, worker[c].phase = "group", NEW fp \in FreshGroups(worker[c])
  PROVE  fp[1] \in TenantsOf(c)
<1>1. worker[c].inserted \subseteq Range(worker[c].rows)
  BY WriterFields DEF WriterOK, Writer, Parsed
<1>2. PICK row \in worker[c].inserted : fp = Fingerprint(row)
  BY DEF FreshGroups
<1> QED
  BY <1>1, <1>2 DEF TenantsOf, Fingerprint

(* The new rows of a case are no more than the entries they were made of.   *)
LEMMA NewRowsAreCounted ==
  ASSUME IInv, NEW c \in Consumers, worker[c].phase = "group", NEW fp
  PROVE  LET rows == { row \in worker[c].inserted : Fingerprint(row) = fp }
         IN  IsFiniteSet(rows) /\ Cardinality(rows) <= Copies(worker[c], fp)
<1> DEFINE rows == { row \in worker[c].inserted : Fingerprint(row) = fp }
           mine == Mine(worker[c], fp)
           made == [e \in mine |-> worker[c].rows[e]]
<1>1. /\ DOMAIN worker[c].rows = worker[c].batch
      /\ worker[c].inserted \subseteq Range(worker[c].rows)
  BY WriterFields DEF WriterOK, Writer, Parsed
<1>2. \A e \in mine : worker[c].rows[e] \in rows
  BY DEF Mine
<1>3. \A row \in rows : \E e \in mine : worker[c].rows[e] = row
  BY <1>1 DEF Mine, Range
<1>4. IsFiniteSet(mine) /\ Cardinality(mine) = Copies(worker[c], fp)
  BY MineIsFinite
<1>5. made \in Surjection(mine, rows)
  <2> HIDE DEF mine, rows
  <2> QED
    BY <1>2, <1>3 DEF Surjection
<1>6. IsFiniteSet(rows) /\ Cardinality(rows) <= Cardinality(mine)
  <2> HIDE DEF made, mine, rows
  <2> QED
    BY <1>4, <1>5, FS_Surjection
<1> QED
  BY <1>4, <1>6

(* The rows under a case after a commit.                                    *)
LEMMA RowsAfterFiles ==
  ASSUME LInv, NInv, IInv', NEW c \in Consumers, Files(c), NEW case
  PROVE  /\ IsFiniteSet(DOMAIN alerts')
         /\ (\A fp \in DOMAIN worker[c].seen : case # CaseOf(worker[c], fp))
              => RowsUnder(case)' = RowsUnder(case)
         /\ \A fp \in DOMAIN worker[c].seen : case = CaseOf(worker[c], fp) =>
              Cardinality(RowsUnder(case)') <= Cardinality(RowsUnder(case)) + Copies(worker[c], fp)
<1>1. /\ DOMAIN alerts' = DOMAIN alerts \cup worker[c].inserted
      /\ \A row \in DOMAIN alerts : row \notin worker[c].inserted /\ alerts'[row] = alerts[row]
      /\ \A row \in worker[c].inserted :
           alerts'[row] = CaseOf(worker[c], Fingerprint(row)) /\ Fingerprint(row) \in DOMAIN worker[c].seen
      /\ \A fp \in DOMAIN worker[c].seen : CaseOf(worker[c], fp).fingerprint = fp
  BY FilesCounts
<1>2. worker[c].phase = "group" /\ IInv /\ IsFiniteSet(DOMAIN alerts)
  BY DEF Files, LInv, NInv
<1>3. IsFiniteSet(DOMAIN alerts')
  <2>1. /\ DOMAIN worker[c].rows = worker[c].batch
        /\ worker[c].inserted \subseteq Range(worker[c].rows)
    BY <1>2, WriterFields DEF WriterOK, Writer, Parsed
  <2>2. IsFiniteSet(Range(worker[c].rows))
    BY <1>2, <2>1, CopiesAreCounted, FiniteRange
  <2>3. IsFiniteSet(worker[c].inserted)
    BY <2>1, <2>2, FS_Subset
  <2>4. IsFiniteSet(DOMAIN alerts \cup worker[c].inserted)
    BY <1>2, <2>3, FS_Union
  <2> QED
    BY <1>1, <2>4
<1>4. ASSUME \A fp \in DOMAIN worker[c].seen : case # CaseOf(worker[c], fp)
      PROVE  RowsUnder(case)' = RowsUnder(case)
  BY <1>1, <1>4 DEF RowsUnder
<1>5. ASSUME NEW fp \in DOMAIN worker[c].seen, case = CaseOf(worker[c], fp)
      PROVE  Cardinality(RowsUnder(case)') <= Cardinality(RowsUnder(case)) + Copies(worker[c], fp)
  <2> DEFINE rows == { row \in worker[c].inserted : Fingerprint(row) = fp }
             old  == RowsUnder(case)
  <2>1. RowsUnder(case)' \subseteq old \cup rows
    BY <1>1, <1>5 DEF RowsUnder
  <2>2. IsFiniteSet(rows) /\ Cardinality(rows) <= Copies(worker[c], fp)
    BY <1>2, NewRowsAreCounted
  <2>3. Copies(worker[c], fp) \in Nat
    BY <1>2, MineIsFinite
  <2>4. IsFiniteSet(old) /\ Cardinality(old) \in Nat
    BY <1>2, RowsAreCounted
  <2>5. IsFiniteSet(RowsUnder(case)')
    <3>1. RowsUnder(case)' \in SUBSET DOMAIN alerts'
      BY DEF RowsUnder
    <3> QED
      BY <1>3, <3>1, FS_Subset
  <2>6. RowsUnder(case)' \in SUBSET (old \cup rows)
    BY <2>1
  <2> HIDE DEF rows, old
  <2>7. /\ IsFiniteSet(old \cup rows)
        /\ Cardinality(old \cup rows) = Cardinality(old) + Cardinality(rows) - Cardinality(old \cap rows)
    BY <2>2, <2>4, FS_Union
  <2>8. /\ Cardinality(rows) \in Nat /\ Cardinality(old \cap rows) \in Nat
        /\ Cardinality(old \cup rows) \in Nat /\ Cardinality(RowsUnder(case)') \in Nat
    <3>1. old \cap rows \in SUBSET old
      OBVIOUS
    <3> QED
      BY <2>2, <2>4, <2>5, <2>7, <3>1, FS_Subset, FS_CardinalityType
  <2>9. Cardinality(RowsUnder(case)') <= Cardinality(old \cup rows)
    BY <2>6, <2>7, FS_Subset
  <2>10. Cardinality(RowsUnder(case)') <= Cardinality(old) + Copies(worker[c], fp)
    BY <2>2, <2>3, <2>4, <2>7, <2>8, <2>9
  <2> QED
    BY <2>10 DEF old
<1> QED
  BY <1>3, <1>4, <1>5

LEMMA FilesKeepsNInv ==
  ASSUME LInv, NInv, IInv', NEW c \in Consumers, Files(c)
  PROVE  NoAlertIsUncounted' /\ IsFiniteSet(DOMAIN alerts') /\ Apart' /\ Latest'
<1>0. IInv /\ worker[c].phase = "group" /\ DOMAIN worker[c].seen = FreshGroups(worker[c])
  BY DEF LInv, Files
<1>1. /\ worker'[c].phase = "announce" /\ DOMAIN worker'[c].seen = {}
      /\ \A d \in Consumers \ {c} : worker'[d] = worker[d]
  BY FilesShape DEF LInv
<1>2. \A case \in DOMAIN incidents' :
        \/ case \in DOMAIN incidents /\ incidents'[case] = incidents[case]
        \/ \E fp \in DOMAIN worker[c].seen : case = CaseOf(worker[c], fp)
  BY FilesCounts
<1>3. NoAlertIsUncounted'
  <2> SUFFICES ASSUME NEW case \in DOMAIN incidents'
               PROVE  Cardinality(RowsUnder(case)') <= incidents'[case].alert_count
    BY DEF NoAlertIsUncounted, RowsUnder
  <2>1. CASE \A fp \in DOMAIN worker[c].seen : case # CaseOf(worker[c], fp)
    <3>1. case \in DOMAIN incidents /\ incidents'[case] = incidents[case]
      BY <1>2, <2>1
    <3>2. RowsUnder(case)' = RowsUnder(case)
      BY <2>1, RowsAfterFiles
    <3>3. Cardinality(RowsUnder(case)) <= incidents[case].alert_count
      BY <3>1 DEF NInv, NoAlertIsUncounted
    <3> QED
      BY <3>1, <3>2, <3>3
  <2>2. ASSUME NEW fp \in DOMAIN worker[c].seen, case = CaseOf(worker[c], fp)
        PROVE  Cardinality(RowsUnder(case)') <= incidents'[case].alert_count
    <3>1. Cardinality(RowsUnder(case)') <= Cardinality(RowsUnder(case)) + Copies(worker[c], fp)
      BY <2>2, RowsAfterFiles
    <3>2. Copies(worker[c], fp) \in Nat /\ Cardinality(RowsUnder(case)) \in Nat
      BY <1>0, MineIsFinite, RowsAreCounted DEF NInv
    <3>3. IsFiniteSet(RowsUnder(case)') /\ Cardinality(RowsUnder(case)') \in Nat
      <4>1. RowsUnder(case)' \in SUBSET DOMAIN alerts'
        BY DEF RowsUnder
      <4>2. IsFiniteSet(DOMAIN alerts')
        BY RowsAfterFiles
      <4> QED
        BY <4>1, <4>2, FS_Subset, FS_CardinalityType
    <3>4. CASE worker[c].seen[fp] = None
      <4>1. case \notin DOMAIN incidents /\ incidents'[case].alert_count = Copies(worker[c], fp)
        BY <2>2, <3>4, FilesCounts
      <4>2. RowsUnder(case) = {}
        BY <1>0, <4>1 DEF RowsUnder, IInv, RowsOK
      <4>3. Cardinality(RowsUnder(case)) = 0
        BY <4>2, FS_EmptySet
      <4> QED
        BY <3>1, <3>2, <3>3, <4>1, <4>3
    <3>5. CASE worker[c].seen[fp] # None
      <4>0. /\ worker[c].seen[fp].alert_count \in Nat
            /\ CaseOf(worker[c], fp) = worker[c].seen[fp].case
            /\ CaseOf(worker[c], fp) \in DOMAIN incidents
            /\ incidents'[CaseOf(worker[c], fp)].alert_count =
                 worker[c].seen[fp].alert_count + Copies(worker[c], fp)
        BY <3>5, FilesCounts
      <4>1. /\ case \in DOMAIN incidents /\ case = worker[c].seen[fp].case
            /\ worker[c].seen[fp].alert_count \in Nat
            /\ incidents'[case].alert_count = worker[c].seen[fp].alert_count + Copies(worker[c], fp)
        BY <2>2, <4>0
      <4>2. worker[c].seen[fp].alert_count = incidents[case].alert_count
        BY <3>5, <4>1 DEF NInv, Latest
      <4>3. Cardinality(RowsUnder(case)) <= incidents[case].alert_count
        BY <4>1 DEF NInv, NoAlertIsUncounted
      <4> QED
        BY <3>1, <3>2, <3>3, <4>1, <4>2, <4>3
    <3> QED
      BY <3>4, <3>5
  <2> QED
    BY <2>1, <2>2
<1>4. Apart'
  BY <1>1 DEF NInv, Apart, TenantsOf
<1>5. Latest'
  <2> SUFFICES ASSUME NEW d \in Consumers, NEW fp, fp \in DOMAIN worker'[d].seen,
                      worker'[d].seen[fp] # None
               PROVE  worker'[d].seen[fp].alert_count = incidents'[worker'[d].seen[fp].case].alert_count
    BY DEF Latest
  <2>1. d # c /\ worker'[d] = worker[d]
    BY <1>1
  <2>2. worker[d].phase = "group" /\ fp \in FreshGroups(worker[d])
    BY <2>1 DEF NInv, Looked
  <2> DEFINE case == worker[d].seen[fp].case
  <2>3. case \in DOMAIN incidents /\ case.fingerprint = fp
    BY <1>0, <2>1, WriterFields DEF WriterOK, Writer, Found
  <2>4. case \in DOMAIN incidents'
    BY <2>1, WriterFields DEF IInv, WritersOK, WriterOK, Writer, Found
  <2>5. fp \notin DOMAIN worker[c].seen
    <3>1. TenantsOf(c) \cap TenantsOf(d) = {}
      BY <1>0, <2>1, <2>2 DEF NInv, Apart
    <3> QED
      BY <1>0, <2>2, <3>1, TenantOfGroup
  <2>6. \A f \in DOMAIN worker[c].seen : case # CaseOf(worker[c], f)
    <3>1. \A f \in DOMAIN worker[c].seen : CaseOf(worker[c], f).fingerprint = f
      BY FilesCounts
    <3> QED
      BY <2>3, <2>5, <3>1
  <2>7. incidents'[case] = incidents[case]
    BY <1>2, <2>4, <2>6
  <2> QED
    BY <2>1, <2>7 DEF NInv, Latest
<1> QED
  BY <1>3, <1>4, <1>5, RowsAfterFiles

(* The other steps.  A transaction that goes on to look for cases has waited *)
(* for those of its tenants that had counted today.                         *)
LEMMA OthersKeepNInv ==
  ASSUME LInv, NInv, IInv', SameDay,
         Quiet \/ \E c \in Consumers : CountStats(c) \/ \E fp \in FreshGroups(worker[c]) : Look(c, fp)
  PROVE  NoAlertIsUncounted' /\ IsFiniteSet(DOMAIN alerts') /\ Apart' /\ Latest'
<1>1. /\ UNCHANGED alerts /\ DOMAIN incidents' = DOMAIN incidents
      /\ \A case \in DOMAIN incidents : incidents'[case].alert_count = incidents[case].alert_count
  BY CountStatsShape, LookShape DEF Quiet, LInv
<1>2. NoAlertIsUncounted' /\ IsFiniteSet(DOMAIN alerts')
  BY <1>1 DEF NInv, NoAlertIsUncounted, RowsUnder
<1>3. Apart'
  <2> SUFFICES ASSUME NEW c \in Consumers, NEW d \in Consumers, c # d,
                      worker'[c].phase = "group", worker'[d].phase = "group"
               PROVE  TenantsOf(c)' \cap TenantsOf(d)' = {}
    BY DEF Apart
  <2>1. ASSUME NEW e \in Consumers, worker'[e].rows = worker[e].rows
        PROVE  TenantsOf(e)' = TenantsOf(e)
    BY <2>1 DEF TenantsOf
  <2>2. CASE Quiet
    <3>1. worker'[c] = worker[c] /\ worker'[d] = worker[d]
      BY <2>2 DEF Quiet
    <3> QED
      BY <2>1, <3>1 DEF NInv, Apart
  <2>3. ASSUME NEW e \in Consumers, CountStats(e)
        PROVE  TenantsOf(c)' \cap TenantsOf(d)' = {}
    <3>1. /\ worker'[e].rows = worker[e].rows
          /\ \A f \in Consumers \ {e} : worker'[f] = worker[f]
          /\ StatsAreFree(e)
      BY <2>3, CountStatsShape DEF LInv
    <3>2. TenantsOf(c)' = TenantsOf(c) /\ TenantsOf(d)' = TenantsOf(d)
      BY <2>1, <3>1
    <3>3. ASSUME NEW f \in Consumers, f # e, worker[f].phase = "group"
          PROVE  TenantsOf(e) \cap TenantsOf(f) = {}
      <4>1. worker[f].day = Day(now)
        BY <3>3 DEF SameDay
      <4> QED
        BY <3>1, <3>3, <4>1 DEF StatsAreFree
    <3>4. CASE c # e /\ d # e
      BY <3>1, <3>2, <3>4 DEF NInv, Apart
    <3>5. CASE c = e
      BY <3>1, <3>2, <3>3, <3>5
    <3>6. CASE d = e
      BY <3>1, <3>2, <3>3, <3>6
    <3> QED
      BY <3>4, <3>5, <3>6
  <2>4. ASSUME NEW e \in Consumers, NEW fp, Look(e, fp)
        PROVE  TenantsOf(c)' \cap TenantsOf(d)' = {}
    <3>1. /\ worker'[e].rows = worker[e].rows /\ worker[e].phase = "group"
          /\ \A f \in Consumers \ {e} : worker'[f] = worker[f]
      BY <2>4, LookShape DEF LInv
    <3>2. TenantsOf(c)' = TenantsOf(c) /\ TenantsOf(d)' = TenantsOf(d)
      BY <2>1, <3>1
    <3> QED
      BY <3>1, <3>2 DEF NInv, Apart
  <2> QED
    BY <2>2, <2>3, <2>4
<1>4. Latest'
  <2> SUFFICES ASSUME NEW d \in Consumers, NEW fp, fp \in DOMAIN worker'[d].seen,
                      worker'[d].seen[fp] # None
               PROVE  worker'[d].seen[fp].alert_count = incidents'[worker'[d].seen[fp].case].alert_count
    BY DEF Latest
  <2>1. CASE fp \in DOMAIN worker[d].seen /\ worker'[d].seen[fp] = worker[d].seen[fp]
    <3>1. worker[d].seen[fp].case \in DOMAIN incidents
      BY <2>1, WriterFields DEF LInv, WriterOK, Writer, Found
    <3> QED
      BY <1>1, <2>1, <3>1 DEF NInv, Latest
  <2>2. CASE /\ worker'[d].seen[fp].case \in DOMAIN incidents
             /\ worker'[d].seen[fp].alert_count = incidents[worker'[d].seen[fp].case].alert_count
    BY <1>1, <2>2
  <2>3. CASE Quiet
    BY <2>1, <2>3 DEF Quiet
  <2>4. ASSUME NEW c \in Consumers, CountStats(c)
        PROVE  fp \in DOMAIN worker[d].seen /\ worker'[d].seen[fp] = worker[d].seen[fp]
    BY <2>4, CountStatsShape DEF LInv
  <2>5. ASSUME NEW c \in Consumers, NEW f, Look(c, f)
        PROVE  \/ fp \in DOMAIN worker[d].seen /\ worker'[d].seen[fp] = worker[d].seen[fp]
               \/ /\ worker'[d].seen[fp].case \in DOMAIN incidents
                  /\ worker'[d].seen[fp].alert_count = incidents[worker'[d].seen[fp].case].alert_count
    BY <2>5, LookShape DEF LInv
  <2> QED
    BY <2>1, <2>2, <2>3, <2>4, <2>5
<1> QED
  BY <1>2, <1>3, <1>4

(* As long as no transaction that has counted its alerts spans midnight, no *)
(* case counts fewer alerts than there are rows under it: two writers never *)
(* add to the same count, for write_batch holds the ingest_stats rows of its *)
(* tenants for the day from before it groups until it commits.              *)
THEOREM NoAlertIsUncountedInADay ==
  Spec /\ []SameDay => []NoAlertIsUncounted
<1>1. Init => LInv /\ NInv
  <2> SUFFICES ASSUME Init PROVE LInv /\ NInv
    OBVIOUS
  <2>1. /\ incidents = << >> /\ alerts = << >>
        /\ \A c \in Consumers : DOMAIN worker[c].seen = {} /\ worker[c].phase = "claim"
    BY DEF Init, Free
  <2>2. DOMAIN alerts = {} /\ IsFiniteSet({})
    BY <2>1, FS_EmptySet
  <2>3. NoAlertIsUncounted /\ Apart /\ Latest /\ Looked
    BY <2>1 DEF NoAlertIsUncounted, Apart, Latest, Looked
  <2> QED
    BY <2>2, <2>3, InitEstablishesLInv DEF NInv
<1>2. IInv' /\ LInv /\ NInv /\ SameDay /\ [Next]_vars => LInv' /\ NInv'
  <2> SUFFICES ASSUME IInv', LInv, NInv, SameDay, [Next]_vars PROVE LInv' /\ NInv'
    OBVIOUS
  <2>1. LInv'
    BY StepImplements
  <2>2. Looked'
    BY LookedKept DEF LInv, NInv
  <2>3. NoAlertIsUncounted' /\ IsFiniteSet(DOMAIN alerts') /\ Apart' /\ Latest'
    BY FilesKeepsNInv, OthersKeepNInv, StepsOfCounts DEF LInv, NInv
  <2> QED
    BY <2>1, <2>2, <2>3 DEF NInv
<1>3. NInv => NoAlertIsUncounted
  BY DEF NInv
<1> QED
  BY <1>1, <1>2, <1>3, PipelineInvariant, PTL DEF Spec
=============================================================================
