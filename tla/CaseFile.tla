------------------------------ MODULE CaseFile ------------------------------
(***************************************************************************)
(* What a case holds of its alerts when they are gone: its columns           *)
(* (incidents/grouping.py), its evidence snapshot (incidents/evidence.py),   *)
(* and the entities seen in them (incidents/entities.py).  The ingest        *)
(* consumer folds alerts in one after another, a batch in a transaction,     *)
(* some of them late or delivered again, while somebody pages through the    *)
(* list of cases (api/v1/incidents.py).  One tenant: the consumers of a      *)
(* tenant wait for each other (IngestPipeline).                              *)
(***************************************************************************)
EXTENDS Keyset, Ascending

CONSTANTS
  None,
  Alerts,        \* records: id, timestamp, group, related entities, size of the document
  BatchSize,     \* BATCH_SIZE
  PageSize,      \* the page size of the list
  Sorts,         \* columns it is sorted by
  MaxPerType,    \* MAX_PER_TYPE, of entities.py
  MaxEntities,   \* MAX_ENTITIES_PER_TYPE, of evidence.py
  FewEntities,   \* what a snapshot over its budget keeps of them
  MaxBytes       \* MAX_BYTES, in units of one entity

Entities == UNION { Range(alert.related) : alert \in Alerts }

Documents == [of : { alert.id : alert \in Alerts }, ecs : Nat]
Snapshots == [first : Documents, latest : Documents, entities : Seq(Entities), truncated : BOOLEAN]
EntityRow == [first_seen : Nat, last_seen : Nat, alert_count : Nat]

ASSUME CaseFileAssumption ==
  /\ {BatchSize, PageSize, MaxPerType, MaxEntities, FewEntities, MaxBytes} \subseteq Nat \ {0}
  /\ FewEntities <= MaxBytes /\ FewEntities <= MaxEntities
  /\ Sorts \subseteq {"last_seen", "first_seen", "number", "alert_count"}
  /\ \A alert \in Alerts : /\ alert.related \in Seq(Entities) /\ IsInjective(alert.related)
                           /\ alert.timestamp \in Nat /\ alert.ecs \in Nat
  /\ \A one, other \in Alerts : one.id = other.id => one = other     \* the primary key
  /\ None \notin Snapshots \cup EntityRow /\ Start \notin Int \X Int

VARIABLES
  file,     \* the database: alerts, with the case of each; cases; entities; links; and, a
            \* ghost, stored: the copies of alerts that came with the batches that stored them
  session,  \* the consumer's: [open, db : as its transaction sees it, left : copies to be grouped]
  listing   \* the list somebody is paging through

fileVars == <<file, session, listing>>

-----------------------------------------------------------------------------
(* The evidence snapshot *)

Document(alert) == [of |-> alert.id, ecs |-> alert.ecs]

Size(snapshot) == snapshot.first.ecs + snapshot.latest.ecs + Len(snapshot.entities)

Fits(snapshot) == Size(snapshot) <= MaxBytes

Cut(values, n) == SubSeq(values, 1, IF Len(values) < n THEN Len(values) ELSE n)

(* _merge_entities: each value where it occurs first                         *)
Merge(seen, values) ==
  LET all    == seen \o values
      firsts == { i \in DOMAIN all : \A j \in 1 .. i - 1 : all[j] # all[i] }
  IN Cut([k \in 1 .. Cardinality(firsts) |-> all[Nth(firsts, k)]], MaxEntities)

(* What is shed of a snapshot over its budget, the least valuable part first *)
Shed(snapshot) ==
  LET lean == [snapshot EXCEPT !.latest.ecs = 0, !.truncated = TRUE]
      few  == [lean EXCEPT !.entities = Cut(@, FewEntities)]
  IN CASE Fits(snapshot) -> snapshot
       [] ~Fits(snapshot) /\ Fits(lean) -> lean
       [] ~Fits(lean) /\ Fits(few) -> few
       [] OTHER -> [few EXCEPT !.first.ecs = 0]

(* Mutant: the mark is set anew for each alert. *)
WasCutNow(evidence) == FALSE

WasCut(evidence) == evidence # None /\ evidence.truncated

Update(evidence, alert) ==
  Shed([first     |-> IF evidence = None THEN Document(alert) ELSE evidence.first,
        latest    |-> Document(alert),
        entities  |-> Merge(IF evidence = None THEN << >> ELSE evidence.entities, alert.related),
        truncated |-> WasCut(evidence)])

-----------------------------------------------------------------------------
(* One alert is folded in *)

Earlier(one, other) == IF one < other THEN one ELSE other

(* Mutant: the time of the alert that came last. *)
LastArrived(one, other) == other

Later(one, other) == IF one > other THEN one ELSE other

(* _create; opened_by is a ghost.                                            *)
Create(alert) ==
  [group |-> alert.group, open |-> TRUE, first_seen |-> alert.timestamp, last_seen |-> alert.timestamp,
   alert_count |-> 1, opened_by |-> alert.id, evidence |-> Update(None, alert)]

(* _attach                                                                   *)
Attach(row, alert) ==
  [row EXCEPT !.last_seen = Later(@, alert.timestamp), !.first_seen = Earlier(@, alert.timestamp),
              !.alert_count = @ + 1, !.evidence = Update(@, alert)]

Upsert(row, at) ==
  IF row = None THEN [first_seen |-> at, last_seen |-> at, alert_count |-> 1]
  ELSE [row EXCEPT !.first_seen = Earlier(@, at), !.last_seen = Later(@, at), !.alert_count = @ + 1]

Touched(alert) == Range(Cut(alert.related, MaxPerType))

(* attach_or_create and upsert_and_link                                      *)
Grouped(db, alert) ==
  LET open == { case \in DOMAIN db.cases : db.cases[case].group = alert.group /\ db.cases[case].open }
      case == IF open = {} THEN Len(db.cases) + 1 ELSE CHOOSE c \in open : TRUE
  IN [alerts   |-> [ id \in DOMAIN db.alerts \cup {alert.id} |->
                       IF id = alert.id THEN case ELSE db.alerts[id] ],
      cases    |-> IF open = {} THEN Append(db.cases, Create(alert))
                   ELSE [db.cases EXCEPT ![case] = Attach(@, alert)],
      entities |-> [ entity \in Entities |->
                       IF entity \in Touched(alert) THEN Upsert(db.entities[entity], alert.timestamp)
                       ELSE db.entities[entity] ],
      links    |-> db.links \cup { <<case, entity>> : entity \in Touched(alert) },
      stored   |-> db.stored]

-----------------------------------------------------------------------------
(* The consumer's transaction *)

Empty == [alerts |-> << >>, cases |-> << >>, entities |-> [entity \in Entities |-> None], links |-> {},
          stored |-> {}]

Closed == [open |-> FALSE, db |-> Empty, left |-> {}]

(* A batch may bring an alert more than once.                                *)
Copies(batch) == { copy \in Alerts \X (1 .. BatchSize) : copy[2] <= batch[copy[1]] }

(* The rows of a batch whose key was not there; each copy passes for the one *)
(* that the insert has stored.                                               *)
Fresh(batch) == { copy \in Copies(batch) : copy[1].id \notin DOMAIN file.alerts }

WriteBatch(batch) ==
  /\ ~session.open /\ Cardinality(Copies(batch)) \in 1 .. BatchSize
  /\ session' = [open |-> TRUE, db |-> [file EXCEPT !.stored = @ \cup Fresh(batch)], left |-> Fresh(batch)]
  /\ UNCHANGED <<file, listing>>

(* _group: one row at a time, in the order of their timestamps               *)
Group(copy) ==
  /\ copy \in session.left /\ \A other \in session.left : copy[1].timestamp <= other[1].timestamp
  /\ session' = [session EXCEPT !.db = Grouped(@, copy[1]), !.left = @ \ {copy}]
  /\ UNCHANGED <<file, listing>>

Commit ==
  /\ session.open /\ session.left = {}
  /\ file' = session.db /\ session' = Closed
  /\ UNCHANGED listing

(* The transaction fails; its alerts are delivered again.                    *)
Fail == session.open /\ session' = Closed /\ UNCHANGED <<file, listing>>

(* A case is resolved; the next alert of its group opens another one.  What  *)
(* happens beside a transaction that has the case is in CaseTransactions.    *)
Resolve(case) ==
  /\ case \in DOMAIN file.cases /\ file.cases[case].open /\ ~session.open
  /\ file' = [file EXCEPT !.cases[case].open = FALSE]
  /\ UNCHANGED <<session, listing>>

-----------------------------------------------------------------------------
(* The list of cases *)

Key(sort, case) == IF sort = "number" THEN case ELSE file.cases[case][sort]

Matching(open_only) == { case \in DOMAIN file.cases : open_only => file.cases[case].open }

NoListing == [phase |-> "idle", sort |-> "number", descending |-> TRUE, open_only |-> FALSE,
              cursor |-> Start, listed |-> << >>, there |-> {}, still |-> {}, tied |-> {}]

(* Ghosts: what the pages showed, the cases that were there at the first one *)
(* and match ever since, those of them that have kept their place, and those *)
(* that were tied with the last one of a page when it was read.              *)
ListCases(state) ==
  LET rows == { <<Key(state.sort, case), case>> : case \in Matching(state.open_only) }
      page == Page(rows, state.cursor, state.descending, PageSize)
      next == NextCursor(rows, state.cursor, state.descending, PageSize)
  IN listing' = [state EXCEPT
                  !.phase = IF next = Start THEN "shown" ELSE "paging", !.cursor = next,
                  !.listed = @ \o [ i \in DOMAIN page |-> page[i][2] ],
                  !.there = @ \cap Matching(state.open_only), !.still = @ \cap rows,
                  !.tied = IF next = Start THEN @ ELSE @ \cup Tied(rows, next, state.descending)]

FirstCases(sort, descending, open_only) ==
  /\ listing.phase = "idle"
  /\ ListCases([NoListing EXCEPT !.sort = sort, !.descending = descending, !.open_only = open_only,
                   !.there = Matching(open_only),
                   !.still = { <<Key(sort, case), case>> : case \in Matching(open_only) }])
  /\ UNCHANGED <<file, session>>

FurtherCases == listing.phase = "paging" /\ ListCases(listing) /\ UNCHANGED <<file, session>>

CloseCases == listing.phase = "shown" /\ listing' = NoListing /\ UNCHANGED <<file, session>>

FileInit ==
  /\ file = Empty /\ session = Closed /\ listing = NoListing

FileNext ==
  \/ \E batch \in [Alerts -> 0 .. BatchSize] : WriteBatch(batch)
  \/ \E copy \in session.left : Group(copy)
  \/ Commit \/ Fail
  \/ \E case \in DOMAIN file.cases : Resolve(case)
  \/ \E sort \in Sorts, descending, open_only \in BOOLEAN : FirstCases(sort, descending, open_only)
  \/ FurtherCases \/ CloseCases

FileSpec == FileInit /\ [][FileNext]_fileVars

-----------------------------------------------------------------------------
(* Properties *)

CopiesOf(db, case) == { copy \in db.stored : db.alerts[copy[1].id] = case }
Naming(db, entity) == { copy \in db.stored : entity \in Touched(copy[1]) }

Of(copies) == { copy[1] : copy \in copies }

IsFirstAndLast(row, alerts) ==
  /\ \A alert \in alerts : alert.timestamp \in row.first_seen .. row.last_seen
  /\ {row.first_seen, row.last_seen} \subseteq { alert.timestamp : alert \in alerts }

FileTypeOK ==
  /\ DOMAIN file.alerts = { alert.id : alert \in Of(file.stored) }
  /\ \A id \in DOMAIN file.alerts : file.alerts[id] \in DOMAIN file.cases
  /\ \A case \in DOMAIN file.cases : /\ file.cases[case].evidence \in Snapshots
                                     /\ Len(file.cases[case].evidence.entities) <= MaxEntities
  /\ file.links \subseteq (DOMAIN file.cases) \X Entities
  /\ session.open \in BOOLEAN /\ session.left \subseteq Alerts \X Nat
  /\ listing.phase \in {"idle", "paging", "shown"} /\ listing.there \subseteq DOMAIN file.cases

(* A case spans the times of its alerts and counts, of each, the copies that *)
(* came with the batch that stored it: in whatever order, and not one that   *)
(* was delivered later.                                                      *)
CaseSpansItsAlerts(db) ==
  \A case \in DOMAIN db.cases :
    /\ db.cases[case].alert_count = Cardinality(CopiesOf(db, case))
    /\ IsFirstAndLast(db.cases[case], Of(CopiesOf(db, case)))

(* "first_seen only ever moves backwards, for a late arrival; last_seen only *)
(* forwards": an entity's row agrees with the alerts that name it, and it is *)
(* linked to their cases and no others.                                      *)
EntitiesAddUp(db) ==
  \A entity \in Entities :
    LET row    == db.entities[entity]
        naming == Naming(db, entity)
    IN /\ (row = None) <=> (naming = {})
       /\ row # None => row.alert_count = Cardinality(naming) /\ IsFirstAndLast(row, Of(naming))
       /\ { link \in db.links : link[2] = entity } = { <<db.alerts[alert.id], entity>> : alert \in Of(naming) }

(* Cases and entities come out as if the batches that stored something had   *)
(* come once and in the order of their alerts.                               *)
RowsAddUp == CaseSpansItsAlerts(file) /\ EntitiesAddUp(file)

(* A snapshot that lacks anything says so: without "truncated" it holds the  *)
(* document of the alert that opened the case, a latest one, and the         *)
(* entities of all its alerts, up to the cap.                                *)
EvidenceIsHonest(db) ==
  \A case \in DOMAIN db.cases :
    LET evidence == db.cases[case].evidence
        named    == UNION { Range(alert.related) : alert \in Of(CopiesOf(db, case)) }
    IN /\ evidence.first.of = db.cases[case].opened_by
       /\ evidence.truncated
          \/ /\ { evidence.first, evidence.latest }
                  \subseteq { Document(alert) : alert \in Of(CopiesOf(db, case)) }
             /\ Len(evidence.entities) = MaxEntities \/ Range(evidence.entities) = named

(* "`first` is what an analyst reads in a closed case, so it goes last": the *)
(* first document is given up only when it does not fit beside the few       *)
(* entities that are always kept, and no snapshot exceeds the budget.        *)
FirstGoesLast(db) ==
  \A case \in DOMAIN db.cases :
    LET evidence == db.cases[case].evidence
        opener   == CHOOSE alert \in Alerts : alert.id = db.cases[case].opened_by
    IN /\ Fits(evidence)
       /\ evidence.first.ecs # opener.ecs => opener.ecs + FewEntities > MaxBytes

(* Cutting a snapshot to size says what it has lost and loses the first last. *)
SnapshotKeepsFaith == EvidenceIsHonest(file) /\ FirstGoesLast(file)

(* Alerts move cases in the list while somebody pages through it.  A case    *)
(* that keeps its place is shown.  In the order that cases move along, none  *)
(* is left out that was there all the time; both but for those that were     *)
(* tied with the last one of a page.  In the other order, none is shown      *)
(* twice.                                                                    *)
CaseListIsWhole ==
  LET shown == { listing.listed[i] : i \in DOMAIN listing.listed }
      along == listing.descending = (listing.sort = "first_seen")
  IN listing.phase = "shown" =>
       /\ { row[2] : row \in listing.still } \subseteq shown \cup listing.tied
       /\ along \/ listing.sort = "number" => listing.there \subseteq shown \cup listing.tied
       /\ ~along \/ listing.sort = "number" => IsInjective(listing.listed)
       /\ listing.sort = "number" => listing.tied = {}

(* "Every list endpoint over `alerts` or `incidents` uses a keyset cursor",  *)
(* as offsets produce "duplicate and skipped rows while an analyst pages     *)
(* through it": no case is skipped, in any order, those tied apart.          *)
NoCaseIsSkipped ==
  listing.phase = "shown" =>
    listing.there \ listing.tied \subseteq { listing.listed[i] : i \in DOMAIN listing.listed }

(* "`id` is the tiebreaker, which matters far more on a low-cardinality       *)
(* column": a case that keeps its place is shown, also one that shares its    *)
(* column with others.                                                       *)
KeptCasesAreShown ==
  listing.phase = "shown" =>
    { row[2] : row \in listing.still } \subseteq { listing.listed[i] : i \in DOMAIN listing.listed }
=============================================================================
