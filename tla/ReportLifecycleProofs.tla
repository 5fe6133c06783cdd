----------------------- MODULE ReportLifecycleProofs -----------------------
(***************************************************************************)
(* Proofs about ReportLifecycle, for any number of requests, cases and      *)
(* periods.  The invariant says what each request holds in hand: which      *)
(* reports it may still write, which numbers lie below its own, and what its *)
(* queries saw of the cases nobody touched since.                           *)
(***************************************************************************)
EXTENDS ReportLifecycle, WellFoundedInduction, TLAPS

Statuses == OpenStatuses \cup ClosedStatuses
Building == {"closed", "open", "number", "insert"}

CaseOK(row) == row \in [status : Statuses, created_at : Times, closed_at : Times \cup {None}]

Columns == { "kind", "phase", "id", "loaded", "period", "seen", "opened", "closed", "stillOpen",
             "number", "touched", "moved", "raced" }

RequestOK(state) ==
  /\ state = [column \in Columns |-> state[column]]
  /\ state.phase \in Building \cup {"start", "write"}
  /\ state.phase \in Building => state.kind = "create" /\ state.period \in Periods
  /\ state.opened \in SUBSET Cases /\ state.closed \in SUBSET Cases /\ state.stillOpen \in SUBSET Cases
  /\ state.raced \in BOOLEAN /\ (state.phase = "insert" => state.number \in Nat \ {0})
  /\ state.phase = "write" =>
       state.kind \in {"edit", "issue", "delete"} /\ state.id \in Ids /\ state.loaded = "draft"

Typed ==
  /\ now \in Times /\ used \in 0 .. MaxReports
  /\ cases = [c \in Cases |-> cases[c]]
  /\ \A c \in Known : CaseOK(cases[c])
  /\ reports = [id \in Ids |-> reports[id]]
  /\ \A id \in Stored : reports[id] \in Report /\ id <= used
  /\ freed \subseteq Nat \ {0}
  /\ request = [r \in Requests |-> request[r]]
  /\ \A r \in Requests : RequestOK(request[r])

OpenedIn(period) == { c \in Known : InPeriod(cases[c].created_at, period) }

ClosedIn(c, period) == cases[c].status \in ClosedStatuses /\ InPeriod(cases[c].closed_at, period)

(* What a request that builds a report has found, of the cases that nobody  *)
(* has touched since its first query, and since its second.                 *)
Found(state) ==
  /\ state.phase \in Building => state.opened \subseteq OpenedIn(state.period)
  /\ state.phase \in {"closed", "open"} =>
       \A c \in Known \ state.touched : state.seen[c] \in {None, cases[c].status}
  /\ state.phase = "open" =>
       /\ \A c \in Known \ state.moved : c \in state.closed <=> ClosedIn(c, state.period)
       /\ \A c \in Known \ state.touched : c \in state.closed => state.seen[c] = cases[c].status

Reported == \A id \in Stored : reports[id].figures.opened \subseteq OpenedIn(reports[id].period)

(* A number was given out: a report has it, or a deleted draft had it.      *)
Given(n) == n \in freed \/ \E id \in Stored : reports[id].number = n

(* What a request that read the highest number knows: all below its own have *)
(* been given out, and its own is above those in use if nobody stored since.  *)
Numbered(state) ==
  state.phase = "insert" =>
    /\ state.number <= used + 1
    /\ \A n \in 1 .. state.number - 1 : Given(n)
    /\ ~state.raced => \A id \in Stored : reports[id].number < state.number

NumbersOK ==
  /\ \A id \in Stored : reports[id].number <= used
  /\ \A id \in Stored : \A n \in 1 .. reports[id].number : Given(n)
  /\ \A r \in Requests : Numbered(request[r])

IInv ==
  /\ Typed
  /\ \A r \in Requests : Found(request[r])
  /\ Reported
  /\ NumbersOK

-----------------------------------------------------------------------------
(* One request moves on, or ends.                                           *)

LEMMA NoRequestOK == RequestOK(NoRequest) /\ Found(NoRequest) /\ Numbered(NoRequest)
BY DEF RequestOK, Found, Numbered, NoRequest, Building, Columns

LEMMA OneMoves ==
  ASSUME Typed, NEW r \in Requests, NEW state, RequestOK(state), Becomes(r, state)
  PROVE  /\ request' = [q \in Requests |-> request'[q]]
         /\ \A q \in Requests : request'[q] = IF q = r THEN state ELSE request[q]
         /\ \A q \in Requests : RequestOK(request'[q])
BY DEF Typed, Becomes

(* A request moves on and the database stays as it was.                     *)
LEMMA QuietStep ==
  ASSUME IInv, NEW r \in Requests, NEW state, RequestOK(state), Found(state), Numbered(state),
         Becomes(r, state), UNCHANGED <<now, cases, reports, used, freed>>
  PROVE  IInv'
<1>1. Typed'
  BY OneMoves DEF IInv, Typed, Known, Stored
<1>2. ASSUME NEW q \in Requests  PROVE Found(request[q])' /\ Numbered(request[q])'
  <2>1. Found(request'[q]) /\ Numbered(request'[q])
    BY OneMoves DEF IInv, NumbersOK
  <2> QED
    BY <2>1 DEF Found, OpenedIn, ClosedIn, Known, Numbered, Given, Stored
<1>3. Reported' /\ NumbersOK'
  BY <1>2 DEF IInv, Reported, NumbersOK, Given, OpenedIn, Known, Stored
<1> QED
  BY <1>1, <1>2, <1>3 DEF IInv

-----------------------------------------------------------------------------
(* The builder *)

LEMMA SeenIs ==
  ASSUME NEW state, NEW found, NEW c \in Cases
  PROVE  Seen(state, found)[c] =
           IF state.seen[c] = None /\ c \in found THEN cases[c].status ELSE state.seen[c]
BY DEF Seen

LEMMA StartKeeps ==
  ASSUME IInv, NEW r \in Requests, NEW period \in Periods, StartReport(r, period)
  PROVE  IInv'
<1> DEFINE opened == OpenedIn(period)
           state  == [NoRequest EXCEPT !.kind = "create", !.phase = "closed", !.period = period,
                        !.opened = opened, !.seen = Seen(NoRequest, opened)]
<1>1. Becomes(r, state) /\ UNCHANGED <<now, cases, reports, used, freed>>
  BY DEF StartReport, Begins, OpenedIn, table
<1>2. RequestOK(state)
  BY DEF RequestOK, NoRequest, Building, Columns, OpenedIn, Known
<1>3. /\ state.phase = "closed" /\ state.opened = opened /\ state.period = period
      /\ state.seen = Seen(NoRequest, opened)
  BY DEF NoRequest
<1>4. ASSUME NEW c \in Known  PROVE state.seen[c] \in {None, cases[c].status}
  <2>1. c \in Cases /\ NoRequest.seen[c] = None
    BY DEF Known, NoRequest
  <2> QED
    BY <1>3, <2>1, SeenIs
<1>5. Found(state) /\ Numbered(state)
  BY <1>3, <1>4 DEF Found, Numbered
<1> QED
  BY <1>1, <1>2, <1>5, QuietStep

LEMMA QueryClosedKeeps ==
  ASSUME IInv, NEW r \in Requests, QueryClosed(r)  PROVE IInv'
<1> DEFINE old    == request[r]
           closed == { c \in Known : ClosedIn(c, old.period) }
           state  == [old EXCEPT !.phase = "open", !.closed = closed, !.moved = {}, !.seen = Seen(old, closed)]
<1>1. /\ Becomes(r, state) /\ UNCHANGED <<now, cases, reports, used, freed>>
      /\ old.phase = "closed"
  BY DEF QueryClosed, ClosedIn, table
<1>2. RequestOK(old) /\ Found(old)
  BY DEF IInv, Typed
<1>3. RequestOK(state)
  BY <1>1, <1>2 DEF RequestOK, Building, Columns, Known
<1>4. /\ state.phase = "open" /\ state.closed = closed /\ state.seen = Seen(old, closed)
      /\ state.opened = old.opened /\ state.period = old.period /\ state.touched = old.touched
  BY <1>2 DEF RequestOK, Columns
<1>5. ASSUME NEW c \in Known \ old.touched
      PROVE  /\ state.seen[c] \in {None, cases[c].status}
             /\ c \in closed => state.seen[c] = cases[c].status
  <2>1. c \in Cases /\ old.seen[c] \in {None, cases[c].status}
    BY <1>1, <1>2 DEF Found, Building, Known
  <2> QED
    BY <1>4, <2>1, SeenIs
<1>6. ASSUME NEW c \in Known  PROVE c \in closed <=> ClosedIn(c, old.period)
  OBVIOUS
<1>7. state.opened \subseteq OpenedIn(state.period)
  BY <1>1, <1>2, <1>4 DEF Found, Building
<1> HIDE DEF closed, state
<1>8. Found(state) /\ Numbered(state)
  BY <1>4, <1>5, <1>6, <1>7 DEF Found, Numbered
<1> QED
  BY <1>1, <1>3, <1>8, QuietStep

LEMMA QueryStillOpenKeeps ==
  ASSUME IInv, NEW r \in Requests, QueryStillOpen(r)  PROVE IInv'
<1> DEFINE old   == request[r]
           state == [old EXCEPT !.phase = "number", !.touched = {}, !.moved = {},
                                !.stillOpen = Outstanding(old.period)]
<1>1. /\ Becomes(r, state) /\ UNCHANGED <<now, cases, reports, used, freed>>
      /\ old.phase = "open"
  BY DEF QueryStillOpen, table
<1>2. RequestOK(old) /\ Found(old)
  BY DEF IInv, Typed
<1>3. RequestOK(state)
  BY <1>1, <1>2 DEF RequestOK, Building, Columns, Outstanding, Known
<1>4. state.phase = "number" /\ state.opened = old.opened /\ state.period = old.period
  BY <1>2 DEF RequestOK, Columns
<1> HIDE DEF state
<1>5. Found(state) /\ Numbered(state)
  BY <1>1, <1>2, <1>4 DEF Found, Numbered, Building
<1> QED
  BY <1>1, <1>3, <1>5, QuietStep

LEMMA PreviewKeeps ==
  ASSUME IInv, NEW r \in Requests, Preview(r)  PROVE IInv'
BY NoRequestOK, QuietStep DEF Preview, table

LEMMA SmallestIs ==
  ASSUME NEW S \in SUBSET Nat, S # {}
  PROVE  \E i \in S : \A j \in S : i <= j
<1>1. PICK i \in S : \A j \in S : ~(<<j, i>> \in OpToRel(<, Nat))
  BY NatLessThanWellFounded, WFMin
<1>2. \A j \in S : ~(j < i)
  BY <1>1 DEF OpToRel
<1> QED
  BY <1>2

(* The highest number in use is one, and no higher than the last key.       *)
LEMMA HighestIs ==
  ASSUME IInv
  PROVE  /\ Highest \in 0 .. used
         /\ \A id \in Stored : reports[id].number <= Highest
         /\ Highest = 0 \/ \E id \in Stored : reports[id].number = Highest
<1>0. used \in Nat /\ \A id \in Stored : reports[id].number \in Nat \ {0} /\ reports[id].number <= used
  BY ReportLifecycleAssumption DEF IInv, Typed, Report, NumbersOK
<1>1. CASE Stored = {}
  BY <1>0, <1>1 DEF Highest
<1>2. CASE Stored # {}
  <2> DEFINE numbers == { reports[id].number : id \in Stored }
             above   == { n \in Nat : \A m \in numbers : m <= n }
  <2>1. numbers \subseteq Nat /\ numbers # {} /\ above # {}
    <3>1. used \in above
      BY <1>0
    <3> QED
      BY <1>0, <1>2, <3>1
  <2>2. PICK top \in above : \A n \in above : top <= n
    <3> HIDE DEF above
    <3>1. above \subseteq Nat
      BY DEF above
    <3> QED
      BY <2>1, <3>1, SmallestIs
  <2>3. top \in numbers
    <3> SUFFICES ASSUME top \notin numbers  PROVE FALSE
      OBVIOUS
    <3>1. top \in Nat /\ \A m \in numbers : m <= top
      BY <2>2
    <3>2. \A m \in numbers : m \in Nat /\ m # top /\ m <= top - 1
      <4> HIDE DEF numbers
      <4> QED
        BY <2>1, <3>1
    <3>3. top - 1 \in Nat
      <4> HIDE DEF numbers
      <4>1. PICK m \in numbers : TRUE
        BY <2>1
      <4> QED
        BY <3>1, <3>2, <4>1
    <3>4. top - 1 \in above
      <4> HIDE DEF numbers
      <4> QED
        BY <3>2, <3>3
    <3> QED
      <4> HIDE DEF above
      <4> QED
        BY <2>2, <3>1, <3>3, <3>4
  <2>4. \E n \in numbers : \A id \in Stored : reports[id].number <= n
    BY <2>2, <2>3
  <2>5. Highest \in numbers /\ \A id \in Stored : reports[id].number <= Highest
    BY <1>2, <2>4 DEF Highest
  <2> QED
    BY <1>0, <2>5
<1> QED
  BY <1>1, <1>2

LEMMA NextNumberKeeps ==
  ASSUME IInv, NEW r \in Requests, NextNumber(r)  PROVE IInv'
<1> DEFINE old   == request[r]
           state == [old EXCEPT !.phase = "insert", !.number = Highest + 1]
<1>1. /\ Becomes(r, state) /\ UNCHANGED <<now, cases, reports, used, freed>>
      /\ old.phase = "number"
  BY DEF NextNumber, table
<1>2. RequestOK(old) /\ Found(old) /\ used \in Nat
  BY ReportLifecycleAssumption DEF IInv, Typed
<1>3. Highest \in Nat /\ Highest <= used
  BY <1>2, HighestIs
<1>4. /\ state.phase = "insert" /\ state.opened = old.opened /\ state.period = old.period
      /\ state.kind = old.kind /\ state.number = Highest + 1 /\ state.raced = old.raced
  BY <1>2 DEF RequestOK, Columns
<1>5. RequestOK(state)
  <2>1. /\ state = [column \in Columns |-> state[column]]
        /\ state.closed = old.closed /\ state.stillOpen = old.stillOpen
    BY <1>2 DEF RequestOK, Columns
  <2> HIDE DEF state
  <2> QED
    BY <1>1, <1>2, <1>3, <1>4, <2>1 DEF RequestOK, Building
<1> HIDE DEF state
<1>6. Found(state)
  BY <1>1, <1>2, <1>4 DEF Found, Building
<1>7. ASSUME NEW n \in 1 .. Highest  PROVE Given(n)
  <2>1. PICK id \in Stored : reports[id].number = Highest
    BY <1>3, HighestIs
  <2> QED
    BY <2>1 DEF IInv, NumbersOK
<1>8. \A id \in Stored : reports[id].number < Highest + 1
  <2>1. \A id \in Stored : reports[id].number <= Highest /\ reports[id].number \in Nat
    BY HighestIs DEF IInv, Typed, Report
  <2> QED
    BY <1>3, <2>1
<1>9. Numbered(state)
  BY <1>2, <1>3, <1>4, <1>7, <1>8 DEF Numbered
<1> QED
  BY <1>1, <1>5, <1>6, <1>9, QuietStep

LEMMA LoadKeeps ==
  ASSUME IInv, NEW r \in Requests, NEW id \in Ids, NEW kind \in {"edit", "issue", "delete"},
         Load(r, kind, id)
  PROVE  IInv'
<1> DEFINE state == [NoRequest EXCEPT !.kind = kind, !.phase = "write", !.id = id,
                       !.loaded = reports[id].status]
<1>1. Becomes(r, state) /\ UNCHANGED <<now, cases, reports, used, freed>> /\ reports[id].status = "draft"
  BY DEF Load, Begins, table
<1>2. RequestOK(state)
  BY <1>1 DEF RequestOK, NoRequest, Building, Columns
<1>3. Found(state) /\ Numbered(state)
  BY DEF Found, Numbered, NoRequest, Building
<1> QED
  BY <1>1, <1>2, <1>3, QuietStep

-----------------------------------------------------------------------------
(* The table of reports *)

(* The cases stay, and a request ends.                                      *)
LEMMA EndStep ==
  ASSUME IInv, NEW r \in Requests, Becomes(r, NoRequest), UNCHANGED <<now, cases>>
  PROVE  /\ request' = [q \in Requests |-> request'[q]]
         /\ \A q \in Requests : RequestOK(request[q])' /\ Found(request[q])'
<1>1. ASSUME NEW q \in Requests  PROVE Found(request'[q])
  BY OneMoves, NoRequestOK DEF IInv
<1>2. ASSUME NEW q \in Requests  PROVE Found(request[q])'
  BY <1>1 DEF Found, OpenedIn, ClosedIn, Known
<1> QED
  BY <1>2, OneMoves, NoRequestOK DEF IInv

LEMMA RefuseKeeps ==
  ASSUME IInv, NEW r \in Requests, Refuse(r)  PROVE IInv'
BY NoRequestOK, QuietStep DEF Refuse, table

(* The requests beside one that stores a report learn only that it did.     *)
LEMMA Beside ==
  ASSUME IInv, NEW r \in Requests, Insert(r), NEW q \in Requests
  PROVE  /\ RequestOK(request'[q]) /\ Found(request'[q])
         /\ request'[q].phase = "insert" =>
              request[q].phase = "insert" /\ request'[q].number = request[q].number /\ request'[q].raced
<1> DEFINE old == request[q]
           new == IF q = r THEN NoRequest ELSE [old EXCEPT !.raced = @ \/ old.phase = "insert"]
<1>1. request'[q] = new
  BY DEF Insert
<1>2. RequestOK(old) /\ Found(old)
  BY DEF IInv, Typed
<1>3. CASE q = r
  BY <1>1, <1>3, NoRequestOK DEF NoRequest
<1>4. CASE q # r
  <2>1. /\ new = [column \in Columns |-> new[column]]
        /\ new.kind = old.kind /\ new.phase = old.phase /\ new.id = old.id /\ new.loaded = old.loaded
        /\ new.period = old.period /\ new.seen = old.seen /\ new.opened = old.opened
        /\ new.closed = old.closed /\ new.stillOpen = old.stillOpen /\ new.number = old.number
        /\ new.touched = old.touched /\ new.moved = old.moved
        /\ new.raced = (old.raced \/ old.phase = "insert")
    BY <1>2, <1>4 DEF RequestOK, Columns
  <2> HIDE DEF new
  <2>2. RequestOK(new)
    BY <1>2, <2>1 DEF RequestOK, Building
  <2>3. Found(new)
    BY <1>2, <2>1 DEF Found
  <2> QED
    BY <1>1, <2>1, <2>2, <2>3
<1> QED
  BY <1>3, <1>4

LEMMA InsertKeeps ==
  ASSUME IInv, NEW r \in Requests, Insert(r)  PROVE IInv'
<1> DEFINE old == request[r]
           row == [ number |-> old.number, status |-> "draft", wording |-> "first",
                    period |-> old.period, figures |-> Figures(old), issued_at |-> None ]
<1>1. /\ old.phase = "insert" /\ used < MaxReports /\ UNCHANGED <<now, cases, freed>>
      /\ reports' = [reports EXCEPT ![used + 1] = row] /\ used' = used + 1
      /\ request' = [q \in Requests |-> request'[q]]
  BY DEF Insert
<1>2. ASSUME NEW q \in Requests  PROVE RequestOK(request[q])' /\ Found(request[q])'
  BY <1>1, Beside DEF Found, OpenedIn, ClosedIn, Known
<1>3. RequestOK(old) /\ Found(old) /\ Numbered(old)
  BY DEF IInv, Typed, NumbersOK
<1>4. used \in Nat /\ used + 1 \in Ids /\ used + 1 \in 0 .. MaxReports
  BY <1>1, ReportLifecycleAssumption DEF IInv, Typed, Ids
<1>5. /\ reports' = [id \in Ids |-> reports'[id]]
      /\ \A id \in Ids : reports'[id] = IF id = used + 1 THEN row ELSE reports[id]
  BY <1>1, <1>4 DEF IInv, Typed
<1>6. row \in Report
  <2>1. Figures(old) \in Figure
    BY <1>3 DEF Figures, Figure, RequestOK
  <2> QED
    BY <1>1, <1>3, <2>1 DEF Report, RequestOK, Building
<1>7. row.figures.opened \subseteq OpenedIn(row.period) /\ row.number = old.number
  BY <1>1, <1>3 DEF Figures, Found, Building
<1>8. old.number \in Nat \ {0} /\ old.number <= used + 1 /\ \A n \in 1 .. old.number - 1 : Given(n)
  BY <1>1, <1>3 DEF RequestOK, Numbered
<1>9. row # None
  BY <1>6, ReportLifecycleAssumption
<1> HIDE DEF row
<1>10. /\ used + 1 \notin Stored /\ Stored' = Stored \cup {used + 1}
       /\ reports'[used + 1] = row /\ \A id \in Stored : reports'[id] = reports[id]
  BY <1>4, <1>5, <1>9 DEF Stored, IInv, Typed
<1>11. Typed'
  <2>1. \A id \in Stored' : reports'[id] \in Report /\ id <= used'
    <3>1. \A id \in Stored : id \in Nat /\ id <= used /\ reports[id] \in Report
      BY DEF IInv, Typed, Stored, Ids
    <3> QED
      BY <1>1, <1>4, <1>6, <1>10, <3>1
  <2> QED
    BY <2>1, <1>1, <1>2, <1>4, <1>5, <1>6, <1>10 DEF IInv, Typed, Known
<1>12. Reported'
  BY <1>1, <1>7, <1>10 DEF IInv, Reported, OpenedIn, Known
<1>13. ASSUME NEW n, Given(n)  PROVE Given(n)'
  BY <1>1, <1>10, <1>13 DEF Given
<1>14. ASSUME NEW n, n = old.number  PROVE Given(n)'
  BY <1>7, <1>10, <1>14 DEF Given
<1>15. ASSUME NEW n \in 1 .. old.number  PROVE Given(n)'
  <2>1. n = old.number \/ n \in 1 .. old.number - 1
    BY <1>8
  <2> QED
    BY <1>8, <1>13, <1>14, <2>1
<1>16. NumbersOK'
  <2>1. \A id \in Stored' : reports'[id].number <= used'
    BY <1>1, <1>4, <1>7, <1>8, <1>10 DEF IInv, Typed, Report, NumbersOK
  <2>2. \A id \in Stored' : \A n \in 1 .. reports'[id].number : Given(n)'
    BY <1>7, <1>10, <1>13, <1>15 DEF IInv, NumbersOK
  <2>3. ASSUME NEW q \in Requests, request'[q].phase = "insert"
        PROVE  /\ request'[q].number <= used' + 1 /\ request'[q].raced
               /\ \A n \in 1 .. request'[q].number - 1 : Given(n)'
    <3>1. /\ request[q].phase = "insert" /\ request'[q].number = request[q].number
          /\ request'[q].raced /\ request[q].number \in Nat
      BY <2>3, Beside DEF IInv, Typed, RequestOK
    <3> QED
      BY <1>1, <1>4, <1>13, <3>1 DEF IInv, NumbersOK, Numbered
  <2> QED
    BY <2>1, <2>2, <2>3 DEF NumbersOK, Numbered
<1> QED
  BY <1>2, <1>11, <1>12, <1>16 DEF IInv

(* What a write leaves of a row.                                            *)
LEMMA WrittenRow ==
  ASSUME IInv, NEW row \in Report, NEW kind \in {"edit", "issue"}
  PROVE  /\ Written(kind, row) \in Report
         /\ Written(kind, row).number = row.number
         /\ Written(kind, row).period = row.period
         /\ Written(kind, row).figures = row.figures
<1>1. CASE kind = "edit"
  BY <1>1 DEF Written, Report
<1>2. CASE kind = "issue"
  BY <1>2 DEF Written, Report, IInv, Typed
<1> QED
  BY <1>1, <1>2

LEMMA WriteKeeps ==
  ASSUME IInv, NEW r \in Requests, Write(r)  PROVE IInv'
<1> DEFINE old == request[r]
<1>1. /\ old.phase = "write" /\ Becomes(r, NoRequest) /\ UNCHANGED <<now, cases, used>>
  BY DEF Write
<1>2. /\ request' = [q \in Requests |-> request'[q]]
      /\ \A q \in Requests : RequestOK(request[q])' /\ Found(request[q])'
  BY <1>1, EndStep
<1>3. /\ old.id \in Ids /\ old.kind \in {"edit", "issue", "delete"} /\ used \in Nat
      /\ \A id \in Stored : reports[id] \in Report
  BY <1>1, ReportLifecycleAssumption DEF IInv, Typed, RequestOK
<1>4. /\ reports' = [id \in Ids |-> reports'[id]]
      /\ \A id \in Stored' :
           /\ id \in Stored
           /\ \/ reports'[id] = reports[id]
              \/ \E kind \in {"edit", "issue"} : reports'[id] = Written(kind, reports[id])
      /\ \A id \in Stored : id \in Stored' \/ reports[id].number \in freed'
      /\ freed \subseteq freed' /\ freed' \subseteq Nat \ {0}
  <2>1. CASE reports[old.id] = None
    BY <1>3, <2>1 DEF Write, IInv, Typed, Stored
  <2>2. CASE reports[old.id] # None /\ old.kind = "delete"
    <3>1. /\ reports' = [reports EXCEPT ![old.id] = None]
          /\ freed' = freed \cup {reports[old.id].number}
      BY <2>2 DEF Write
    <3>2. reports[old.id].number \in Nat \ {0}
      BY <1>3, <2>2 DEF Stored, Report
    <3> QED
      BY <1>3, <2>2, <3>1, <3>2 DEF IInv, Typed, Stored
  <2>3. CASE reports[old.id] # None /\ old.kind # "delete"
    <3>1. reports' = [reports EXCEPT ![old.id] = Written(old.kind, @)] /\ freed' = freed
      BY <2>3 DEF Write
    <3>2. old.id \in Stored /\ Written(old.kind, reports[old.id]) # None
      BY <1>3, <2>3, WrittenRow, ReportLifecycleAssumption DEF Stored
    <3> QED
      BY <1>3, <2>3, <3>1, <3>2 DEF IInv, Typed, Stored
  <2> QED
    BY <2>1, <2>2, <2>3
<1>5. ASSUME NEW id \in Stored'
      PROVE  /\ id \in Stored /\ reports'[id] \in Report
             /\ reports'[id].number = reports[id].number
             /\ reports'[id].period = reports[id].period
             /\ reports'[id].figures = reports[id].figures
  BY <1>3, <1>4, WrittenRow
<1>6. Typed'
  BY <1>1, <1>2, <1>4, <1>5 DEF IInv, Typed, Known
<1>7. Reported'
  BY <1>1, <1>5 DEF IInv, Reported, OpenedIn, Known
<1>8. ASSUME NEW n, Given(n)  PROVE Given(n)'
  BY <1>4, <1>5, <1>8 DEF Given
<1>9. ASSUME NEW q \in Requests  PROVE Numbered(request[q])'
  <2>1. request'[q] = NoRequest \/ request'[q] = request[q]
    BY <1>1, OneMoves, NoRequestOK DEF IInv
  <2> QED
    BY <1>1, <1>5, <1>8, <2>1, NoRequestOK DEF IInv, NumbersOK, Numbered, NoRequest
<1>10. NumbersOK'
  BY <1>1, <1>5, <1>8, <1>9 DEF IInv, NumbersOK
<1> QED
  BY <1>2, <1>6, <1>7, <1>10 DEF IInv

-----------------------------------------------------------------------------
(* The cases, and the clock *)

(* One case changes, or appears, and stays as old as it was; the requests   *)
(* that build a report are marked.                                          *)
LEMMA CaseStep ==
  ASSUME IInv, NEW c \in Cases, NEW row, CaseOK(row),
         c \in Known => row.created_at = cases[c].created_at,
         cases' = [cases EXCEPT ![c] = row], Touch(c), UNCHANGED <<now, reports, used, freed>>
  PROVE  IInv'
<1>1. /\ cases' = [d \in Cases |-> cases'[d]]
      /\ \A d \in Cases : cases'[d] = IF d = c THEN row ELSE cases[d]
  BY DEF IInv, Typed
<1>2. Known \subseteq Known' /\ Known' \subseteq Known \cup {c}
  <2>1. c \in Known => row # None
    <3>1. row \in [status : Statuses, created_at : Int, closed_at : Int \cup {None}]
      BY ReportLifecycleAssumption DEF CaseOK, Times
    <3> QED
      BY <3>1, ReportLifecycleAssumption DEF Statuses
  <2> QED
    BY <1>1, <2>1 DEF Known
<1>3. ASSUME NEW period  PROVE OpenedIn(period) \subseteq OpenedIn(period)'
  BY <1>1, <1>2 DEF OpenedIn, Known
<1>4. ASSUME NEW q \in Requests
      PROVE  RequestOK(request[q])' /\ Found(request[q])' /\ Numbered(request[q])'
  <2> DEFINE old == request[q]
             new == request'[q]
  <2>1. /\ RequestOK(old) /\ Found(old)
        /\ new = IF old.phase \in {"closed", "open"}
                 THEN [old EXCEPT !.touched = @ \cup {c}, !.moved = @ \cup {c}] ELSE old
    BY DEF IInv, Typed, Touch
  <2>2. CASE old.phase \notin {"closed", "open"}
    <3>1. new = old
      BY <2>1, <2>2
    <3> QED
      BY <1>3, <2>1, <2>2, <3>1 DEF Found, Numbered, Given, Stored, RequestOK, IInv, NumbersOK
  <2>3. CASE old.phase \in {"closed", "open"}
    <3>1. /\ new = [column \in Columns |-> new[column]]
          /\ new.kind = old.kind /\ new.phase = old.phase /\ new.id = old.id
          /\ new.loaded = old.loaded /\ new.period = old.period /\ new.seen = old.seen
          /\ new.opened = old.opened /\ new.closed = old.closed /\ new.stillOpen = old.stillOpen
          /\ new.touched = old.touched \cup {c} /\ new.moved = old.moved \cup {c}
          /\ new.number = old.number /\ new.raced = old.raced
      BY <2>1, <2>3 DEF RequestOK, Columns
    <3>2. \A d \in Known' \ {c} : d \in Known /\ cases'[d] = cases[d]
      BY <1>1, <1>2 DEF Known
    <3>3. RequestOK(request[q])'
      BY <2>1, <2>3, <3>1 DEF RequestOK
    <3>4. Found(request[q])'
      BY <1>3, <2>1, <2>3, <3>1, <3>2 DEF Found, ClosedIn, Building
    <3> QED
      BY <2>3, <3>1, <3>3, <3>4 DEF Numbered
  <2> QED
    BY <2>2, <2>3
<1>5. request' = [q \in Requests |-> request'[q]]
  BY DEF Touch
<1>6. Typed'
  BY <1>1, <1>2, <1>4, <1>5 DEF IInv, Typed, Stored, Known
<1>7. Reported' /\ NumbersOK'
  BY <1>3, <1>4 DEF IInv, Reported, NumbersOK, Given, Stored
<1> QED
  BY <1>4, <1>6, <1>7 DEF IInv

LEMMA CaseOpensKeeps ==
  ASSUME IInv, NEW c \in Cases, CaseOpens(c)  PROVE IInv'
<1> DEFINE row == [status |-> "new", created_at |-> now, closed_at |-> None]
<1>1. CaseOK(row)
  BY DEF IInv, Typed, CaseOK, Statuses, OpenStatuses
<1>2. /\ c \notin Known /\ cases' = [cases EXCEPT ![c] = row] /\ Touch(c)
      /\ UNCHANGED <<now, reports, used, freed>>
  BY DEF CaseOpens, Known, table
<1> QED
  BY <1>1, <1>2, CaseStep

LEMMA CaseMovesKeeps ==
  ASSUME IInv, NEW c \in Cases, NEW status \in MovesTo, CaseMoves(c, status)  PROVE IInv'
<1> DEFINE closed == IF status \in ClosedStatuses THEN now ELSE None
           row    == [cases[c] EXCEPT !.status = status, !.closed_at = closed]
<1>1. c \in Known /\ CaseOK(cases[c])
  BY DEF CaseMoves, IInv, Typed
<1>2. CaseOK(row) /\ row.created_at = cases[c].created_at
  BY <1>1 DEF IInv, Typed, CaseOK, Statuses, MovesTo, OpenStatuses
<1>3. cases' = [cases EXCEPT ![c] = row]
  BY <1>1 DEF CaseMoves, IInv, Typed, CaseOK
<1>4. Touch(c) /\ UNCHANGED <<now, reports, used, freed>>
  BY DEF CaseMoves, table
<1> QED
  BY <1>2, <1>3, <1>4, CaseStep

LEMMA TickKeeps ==
  ASSUME IInv, Tick  PROVE IInv'
<1>1. now' \in Times
  BY ReportLifecycleAssumption DEF IInv, Typed, Tick, Times
<1>2. Typed'
  BY <1>1 DEF IInv, Typed, Tick, Known, Stored, table
<1>3. \A q \in Requests : Found(request[q])' /\ Numbered(request[q])'
  BY DEF IInv, Tick, Found, Numbered, NumbersOK, Given, OpenedIn, ClosedIn, Known, Stored, table
<1>4. Reported' /\ NumbersOK'
  BY <1>3 DEF IInv, Tick, Reported, NumbersOK, Given, OpenedIn, Known, Stored, table
<1> QED
  BY <1>2, <1>3, <1>4 DEF IInv

-----------------------------------------------------------------------------
(* The invariant *)

LEMMA InitIInv ==
  ASSUME Init  PROVE IInv
<1>1. Known = {} /\ Stored = {}
  BY DEF Init, Known, Stored
<1>2. Typed
  BY <1>1, NoRequestOK, ReportLifecycleAssumption DEF Init, Typed, Times
<1> QED
  BY <1>1, <1>2, NoRequestOK DEF Init, IInv, Reported, NumbersOK

LEMMA NextIInv ==
  ASSUME IInv, [Next]_vars  PROVE IInv'
<1>1. CASE UNCHANGED vars
  <2>1. UNCHANGED <<now, cases, reports, used, freed, request, made>>
    BY <1>1 DEF vars, table
  <2>2. Typed' /\ Reported'
    BY <2>1 DEF IInv, Typed, Reported, OpenedIn, Known, Stored
  <2>3. \A q \in Requests : Found(request[q])'
    BY <2>1 DEF IInv, Found, OpenedIn, ClosedIn, Known
  <2>4. NumbersOK'
    BY <2>1 DEF IInv, NumbersOK, Numbered, Given, Stored
  <2> QED
    BY <2>2, <2>3, <2>4 DEF IInv
<1>2. CASE Next
  BY <1>2, StartKeeps, QueryClosedKeeps, QueryStillOpenKeeps, PreviewKeeps, NextNumberKeeps,
     RefuseKeeps, InsertKeeps, LoadKeeps, WriteKeeps, CaseOpensKeeps, CaseMovesKeeps, TickKeeps
  DEF Next
<1> QED
  BY <1>1, <1>2

LEMMA Invariance == Spec => []IInv
BY InitIInv, NextIInv, PTL DEF Spec

(* Only a refusal brings a request that holds a number back to the start     *)
(* without a report; and a number that was the highest is taken only by      *)
(* a report stored since.                                                    *)
LEMMA RefusedRaced ==
  ASSUME IInv, [Next]_vars, NEW r \in Requests, request[r].phase = "insert",
         request'[r].phase = "start", used' = used
  PROVE  request[r].raced
<1>1. CASE UNCHANGED request
  BY <1>1
<1>2. ASSUME NEW q \in Requests, NEW state, Becomes(q, state), request[q].phase # "insert"
      PROVE  FALSE
  BY <1>2 DEF Becomes, IInv, Typed
<1>3. ASSUME NEW q \in Requests, NEW state, Begins(q, state)  PROVE FALSE
  BY <1>3, <1>2 DEF Begins, NoRequest
<1>4. ASSUME NEW q \in Requests, Refuse(q)  PROVE request[r].raced
  <2>1. q = r /\ ~NumberIsFree(request[r].number)
    BY <1>4 DEF Refuse, Becomes, IInv, Typed
  <2>2. Numbered(request[r]) /\ \A id \in Stored : reports[id].number \in Nat
    BY DEF IInv, Typed, NumbersOK, Report
  <2> QED
    BY <2>1, <2>2 DEF NumberIsFree, Numbered, RequestOK, IInv, Typed
<1>5. ASSUME NEW q \in Requests, Insert(q)  PROVE FALSE
  <2>1. used' = used + 1 /\ used \in Nat
    BY <1>5, ReportLifecycleAssumption DEF Insert, IInv, Typed
  <2> QED
    BY <2>1
<1>6. ASSUME NEW c \in Cases, Touch(c)  PROVE FALSE
  BY <1>6 DEF Touch
<1>7. CASE Next
  <2>1. ASSUME NEW q \in Requests, QueryClosed(q) \/ QueryStillOpen(q) \/ Preview(q) \/ NextNumber(q) \/ Write(q)
        PROVE  FALSE
    BY <1>2, <2>1 DEF QueryClosed, QueryStillOpen, Preview, NextNumber, Write
  <2>2. ASSUME NEW q \in Requests, NEW period, StartReport(q, period)  PROVE FALSE
    BY <1>3, <2>2 DEF StartReport
  <2>3. ASSUME NEW q \in Requests, NEW kind, NEW id, Load(q, kind, id)  PROVE FALSE
    BY <1>3, <2>3 DEF Load
  <2>4. ASSUME NEW c \in Cases, CaseOpens(c) \/ (\E status \in MovesTo : CaseMoves(c, status))  PROVE FALSE
    BY <1>6, <2>4 DEF CaseOpens, CaseMoves
  <2>5. CASE Tick
    BY <1>1, <2>5 DEF Tick
  <2> QED
    BY <1>4, <1>5, <1>7, <2>1, <2>2, <2>3, <2>4, <2>5 DEF Next
<1> QED
  BY <1>1, <1>7 DEF vars

(* Numbers follow on each other without a lock: none is passed over, for any *)
(* reports stored and deleted while others are on the way; and a create is   *)
(* refused only if another report was stored since it read the highest        *)
(* number.                                                                   *)
THEOREM NumbersSequential == Spec => NumbersAreSequential
<1>1. IInv => NumbersHaveNoGaps
  BY DEF IInv, NumbersOK, Given, NumbersHaveNoGaps
<1> DEFINE Raced == \A r \in Requests :
                      request[r].phase = "insert" /\ request'[r].phase = "start" /\ used' = used
                        => request[r].raced
<1>2. IInv /\ [Next]_vars => [Raced]_vars
  BY RefusedRaced
<1> QED
  BY <1>1, <1>2, Invariance, PTL DEF Spec, NumbersAreSequential, RefusedOnlyInARace

LEMMA OpenedApart ==
  ASSUME IInv  PROVE OpenedOnce
<1> SUFFICES ASSUME NEW one \in Stored, NEW other \in Stored,
                    reports[one].period.end <= reports[other].period.start,
                    NEW c \in reports[one].figures.opened, c \in reports[other].figures.opened
             PROVE  FALSE
  BY DEF OpenedOnce
<1>1. /\ InPeriod(cases[c].created_at, reports[one].period)
      /\ InPeriod(cases[c].created_at, reports[other].period)
      /\ CaseOK(cases[c])
  BY DEF IInv, Typed, Reported, OpenedIn
<1>2. /\ reports[one].period \in [start : Int, end : Int]
      /\ reports[other].period \in [start : Int, end : Int]
  BY ReportLifecycleAssumption DEF IInv, Typed, Report
<1>3. cases[c].created_at \in Int
  BY <1>1, ReportLifecycleAssumption DEF CaseOK, Times
<1> QED
  BY <1>1, <1>2, <1>3 DEF InPeriod

(* A case is opened in at most one of any number of adjoining periods.      *)
THEOREM CasesOpenedOnce == Spec => []OpenedOnce
BY OpenedApart, Invariance, PTL

(* A request gets to its number by the third query only.                    *)
LEMMA OnlyByTheThird ==
  ASSUME IInv, Next, NEW r \in Requests, request[r].phase = "open", request'[r].phase = "number"
  PROVE  QueryStillOpen(r)
<1>1. ASSUME NEW q \in Requests, NEW state, Becomes(q, state), q # r \/ state.phase # "number"
      PROVE  FALSE
  BY <1>1 DEF Becomes, IInv, Typed
<1>2. ASSUME NEW q \in Requests, NEW state, Begins(q, state)  PROVE FALSE
  BY <1>2 DEF Begins, NoRequest, Becomes, IInv, Typed
<1>3. ASSUME NEW q \in Requests, QueryClosed(q) \/ NextNumber(q)  PROVE FALSE
  <2>1. RequestOK(request[q])
    BY DEF IInv, Typed
  <2>2. CASE QueryClosed(q)
    <3> DEFINE state == [request[q] EXCEPT !.phase = "open", !.moved = {},
                           !.closed = { c \in Known : /\ cases[c].status \in ClosedStatuses
                                                      /\ InPeriod(cases[c].closed_at, request[q].period) },
                           !.seen = Seen(request[q], { c \in Known : /\ cases[c].status \in ClosedStatuses
                                                      /\ InPeriod(cases[c].closed_at, request[q].period) })]
    <3>1. state.phase = "open" /\ Becomes(q, state)
      BY <2>1, <2>2 DEF QueryClosed, RequestOK, Columns
    <3> QED
      BY <1>1, <3>1
  <2>3. CASE NextNumber(q)
    BY <2>1, <2>3, <1>1 DEF NextNumber, RequestOK, Columns, Becomes, IInv, Typed
  <2> QED
    BY <1>3, <2>2, <2>3
<1>4. ASSUME NEW q \in Requests, Preview(q) \/ Refuse(q) \/ Write(q)  PROVE FALSE
  BY <1>1, <1>4 DEF Preview, Refuse, Write, NoRequest
<1>5. ASSUME NEW q \in Requests, Insert(q)  PROVE FALSE
  <2>1. request'[r] = IF r = q THEN NoRequest
                     ELSE [request[r] EXCEPT !.raced = @ \/ request[r].phase = "insert"]
    BY <1>5 DEF Insert
  <2>2. RequestOK(request[r]) /\ NoRequest.phase = "start"
    BY DEF IInv, Typed, NoRequest
  <2> QED
    BY <2>1, <2>2 DEF RequestOK, Columns
<1>6. ASSUME NEW c \in Cases, Touch(c)  PROVE FALSE
  <2>1. request'[r].phase = [request[r] EXCEPT !.touched = @ \cup {c}, !.moved = @ \cup {c}].phase
    BY <1>6 DEF Touch
  <2>2. RequestOK(request[r])
    BY DEF IInv, Typed
  <2> QED
    BY <2>1, <2>2 DEF RequestOK, Columns
<1>7. ASSUME NEW q \in Requests, QueryStillOpen(q)  PROVE q = r
  BY <1>7 DEF QueryStillOpen, Becomes, IInv, Typed
<1> QED
  BY <1>2, <1>3, <1>4, <1>5, <1>6, <1>7
  DEF Next, StartReport, Load, CaseOpens, CaseMoves, Tick

(* What the figures of a report say of a case that stood still.             *)
LEMMA UntouchedCases ==
  ASSUME IInv, NEW r \in Requests, QueryStillOpen(r), NEW c \in Known
  PROVE  LET figures == Figures(request'[r])
             closed  == cases[c].status \in ClosedStatuses
         IN /\ c \notin request[r].moved =>
                 /\ c \in figures.stillOpen <=> ~closed
                 /\ c \in figures.closed <=> closed /\ InPeriod(cases[c].closed_at, request[r].period)
            /\ c \notin request[r].touched =>
                 (c \in figures.falsePositives <=> c \in figures.closed /\ cases[c].status = "false_positive")
<1> DEFINE old == request[r]
<1>1. RequestOK(old) /\ Found(old) /\ old.phase = "open" /\ cases[c].status \in Statuses
  BY DEF IInv, Typed, CaseOK, QueryStillOpen
<1>2. /\ request'[r].closed = old.closed /\ request'[r].seen = old.seen
      /\ request'[r].stillOpen = Outstanding(old.period)
  BY <1>1 DEF QueryStillOpen, Becomes, IInv, Typed, RequestOK, Columns
<1>3. c \notin old.moved => (c \in old.closed <=> ClosedIn(c, old.period))
  BY <1>1 DEF Found
<1>4. c \notin old.touched => (c \in old.closed => old.seen[c] = cases[c].status)
  BY <1>1 DEF Found
<1>5. c \in Outstanding(old.period) <=> cases[c].status \notin ClosedStatuses
  BY <1>1 DEF Outstanding, Statuses, OpenStatuses, ClosedStatuses
<1> QED
  BY <1>2, <1>3, <1>4, <1>5 DEF Figures, ClosedIn

(* Of a case that nobody touches between the second query and the third, the *)
(* figures agree with each other and with the case, for any number of others *)
(* moving meanwhile; one that moves between them is left open here.          *)
THEOREM UntouchedAddUp == Spec => UntouchedCasesAddUp
<1> DEFINE AddUp == \A r \in Requests : request[r].phase = "open" /\ request'[r].phase = "number" =>
       \A c \in Known :
         LET figures == Figures(request'[r])
             closed  == cases[c].status \in ClosedStatuses
         IN /\ c \notin request[r].moved =>
                 /\ c \in figures.stillOpen <=> ~closed
                 /\ c \in figures.closed <=> closed /\ InPeriod(cases[c].closed_at, request[r].period)
            /\ c \notin request[r].touched =>
                 (c \in figures.falsePositives <=> c \in figures.closed /\ cases[c].status = "false_positive")
<1>1. ASSUME IInv, Next  PROVE AddUp
  BY <1>1, OnlyByTheThird, UntouchedCases
<1>2. IInv /\ [Next]_vars => [AddUp]_vars
  BY <1>1
<1> QED
  BY <1>2, Invariance, PTL DEF Spec, UntouchedCasesAddUp

(* Only Insert and Write change a report: one takes a free place, the other *)
(* follows a load of the draft.                                             *)
LEMMA IssuedStays ==
  ASSUME IInv, Next, NEW id \in Ids,
         reports[id] # None, Overtaken(id) = {}
  PROVE  reports'[id] = reports[id]
<1>1. ASSUME NEW r \in Requests, Insert(r)  PROVE reports'[id] = reports[id]
  <2>1. id <= used /\ id # used + 1
    BY ReportLifecycleAssumption DEF IInv, Typed, Stored, Ids
  <2> QED
    BY <1>1, <2>1 DEF Insert, IInv, Typed
<1>2. ASSUME NEW r \in Requests, Write(r)  PROVE reports'[id] = reports[id]
  <2>1. request[r].loaded = "draft" /\ request[r].id # id
    BY <1>2 DEF Write, IInv, Typed, RequestOK, Overtaken
  <2> QED
    BY <1>2, <2>1 DEF Write, IInv, Typed
<1>3. CASE UNCHANGED reports
  BY <1>3
<1> QED
  BY <1>1, <1>2, <1>3
  DEF Next, StartReport, QueryClosed, QueryStillOpen, Preview, NextNumber, Refuse, Load, CaseOpens,
      CaseMoves, Tick, table

(* An issued report changes or goes only through a request that had loaded  *)
(* it while it was a draft.                                                 *)
THEOREM IssuedFinalOnceSettled == Spec => IssuedIsFinalOnceSettled
<1> DEFINE Final == \A id \in Ids :
                      reports[id] # None /\ reports[id].status = "issued" /\ Overtaken(id) = {}
                        => reports'[id] = reports[id]
<1>1. IInv /\ [Next]_vars => [Final]_reports
  BY IssuedStays DEF vars, table
<1> QED
  BY <1>1, Invariance, PTL DEF Spec, IssuedIsFinalOnceSettled

(* Both together: cases that stand still between two queries, and the      *)
(* neighbours of a report.                                                  *)
THEOREM UntouchedFigures == Spec => UntouchedFiguresAgree
BY CasesOpenedOnce, UntouchedAddUp, PTL DEF UntouchedFiguresAgree

=============================================================================
