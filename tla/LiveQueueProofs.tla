--------------------------- MODULE LiveQueueProofs ---------------------------
(***************************************************************************)
(* Proofs about LiveQueue, for any finite set of cases, any writers, and    *)
(* any number of changes and faults.                                        *)
(*                                                                          *)
(* A case is created once (Commit needs that it is not there), so one event *)
(* at most says so, and at any time it is in the outbox of one writer, or   *)
(* on the wire, or counted by the pill (Singles).  Details that have been   *)
(* read, or are shown and not invalidated, are the case as it is, as long as *)
(* no event of it is under way, dropped or used up (Fresh); a pane is not    *)
(* left with details that are invalidated (Attended); and a case a click of *)
(* the pill is owed is on a page still to be read, or was read after it      *)
(* (Owed).                                                                  *)
(***************************************************************************)
EXTENDS LiveQueue, FiniteSetTheorems, TLAPS

Writer   == [phase : {"idle", "written", "publishing"}, outbox : Seq(Event)]
Versions == [Scope -> Nat]
Phases   == {"idle", "asked", "read"}
Lists    == [has : BOOLEAN, shown : Versions, phase : Phases, more : BOOLEAN, todo : SUBSET Scope,
             snapshot : Versions, owes : SUBSET Scope]
Details  == [has : BOOLEAN, shown : Nat, phase : Phases, snapshot : Nat, invalid : BOOLEAN]

ListTypes == list \in Lists /\ list.owes \subseteq fits /\ fits \in SUBSET Scope
PaneTypes == detail \in [Scope -> Details] /\ pane \in Scope \cup {None}

Types ==
  /\ cases \in [Cases -> Nat] /\ \A case \in Cases : cases[case] <= MaxChanges[case]
  /\ writer \in [Writers -> Writer]
  /\ \A w \in Writers : writer[w].phase # "idle" => writer[w].outbox # << >>
  /\ connection \in {"none", "opening", "open", "subscribed", "ended"}
  /\ wire \in Seq(Event) /\ CasesOf(wire) \subseteq Scope
  /\ state \in {"connecting", "live", "offline"} /\ token \in {"good", "expired", None}
  /\ pending \in Nat /\ counted \in SUBSET Scope
  /\ ListTypes /\ PaneTypes

New(case) == [kind |-> "created", case |-> case]

(* No event of a creation is there twice.                                   *)
Once(events) ==
  \A i, j \in 1 .. Len(events) : events[i] = events[j] /\ events[i].kind = "created" => i = j

(* A writer is about to publish that a case was created.                    *)
Holds(w, case) == writer[w].phase = "publishing" /\ New(case) \in Range(writer[w].outbox)

(* A creation is told in one place: by one writer, or on the wire, or on the *)
(* pill.                                                                    *)
Single(case) ==
  /\ New(case) \in Range(wire) => cases[case] > 0 /\ case \notin counted
  /\ case \in counted => cases[case] > 0
  /\ \A w \in Writers : Holds(w, case) =>
       /\ cases[case] > 0 /\ case \notin counted /\ New(case) \notin Range(wire)
       /\ \A v \in Writers : Holds(v, case) => v = w

Singles ==
  /\ Once(wire) /\ \A w \in Writers : Once(writer[w].outbox)
  /\ \A case \in Cases : Single(case)

(* No event of the case is under way, was dropped, or was used up by a fetch *)
(* that had read it.                                                      *)
Heard(case) == case \notin lost /\ case \notin used /\ ~Announced(case)

(* The details of a case that has told all: what a fetch has read, and what is *)
(* there and not invalidated, is the case as it is.                         *)
FreshOf(case) ==
  /\ detail[case].phase = "read" => detail[case].snapshot = cases[case]
  /\ detail[case].phase = "idle" /\ detail[case].has /\ ~detail[case].invalid =>
       detail[case].shown = cases[case]

Fresh == \A case \in Scope : Heard(case) => FreshOf(case)

(* What a pane shows at rest is not invalidated, unless its fetch failed.    *)
AttendedOf(case) ==
  pane = case /\ detail[case].phase = "idle" /\ detail[case].has /\ case \notin lost =>
    ~detail[case].invalid

Attended == \A case \in Scope : AttendedOf(case)

(* What a click is owed is there, and on a page that is still to be read, or *)
(* in what was read since.                                                  *)
Owed ==
  /\ list.phase = "idle" => list.owes = {}
  /\ \A case \in list.owes :
       /\ cases[case] > 0
       /\ list.has => (list.phase = "asked" /\ case \in list.todo) \/ list.snapshot[case] > 0

IInv == Types /\ Singles /\ PillCountsEachOnce /\ Fresh /\ Attended /\ Owed

-----------------------------------------------------------------------------
(* Sequences of events *)

LEMMA ConstantFacts ==
  /\ Scope \subseteq Cases /\ None \notin Cases /\ None \notin Scope
  /\ IsFiniteSet(Cases) /\ IsFiniteSet(Scope)
BY LiveQueueAssumption, FS_Subset

LEMMA RangeIs ==
  ASSUME NEW s \in Seq(Event)
  PROVE  /\ \A i \in 1 .. Len(s) : s[i] \in Range(s)
         /\ \A e \in Range(s) : e \in Event /\ \E i \in 1 .. Len(s) : s[i] = e
BY DEF Range

LEMMA CasesOfIs ==
  ASSUME NEW s \in Seq(Event)
  PROVE  /\ CasesOf(s) \subseteq Cases
         /\ \A e \in Range(s) : e.case \in CasesOf(s)
         /\ \A case \in CasesOf(s) : \E e \in Range(s) : e.case = case
BY RangeIs DEF CasesOf, Event

LEMMA TailIs ==
  ASSUME NEW s \in Seq(Event), s # << >>
  PROVE  /\ Len(s) \in Nat /\ Len(s) >= 1
         /\ Head(s) \in Event /\ Head(s) = s[1] /\ Head(s) \in Range(s)
         /\ Tail(s) \in Seq(Event) /\ Len(Tail(s)) = Len(s) - 1
         /\ \A i \in 1 .. Len(s) - 1 : Tail(s)[i] = s[i + 1]
<1>1. Len(s) \in Nat /\ Len(s) >= 1
  OBVIOUS
<1>2. Head(s) = s[1] /\ s[1] \in Event
  BY <1>1
<1>3. Tail(s) \in Seq(Event) /\ Len(Tail(s)) = Len(s) - 1
  BY <1>1
<1>4. \A i \in 1 .. Len(s) - 1 : Tail(s)[i] = s[i + 1]
  BY <1>1
<1> QED
  BY <1>1, <1>2, <1>3, <1>4, RangeIs

LEMMA EmptyIs ==
  /\ << >> \in Seq(Event) /\ Len(<< >>) = 0 /\ Once(<< >>) /\ Range(<< >>) = {}
  /\ \A s \in Seq(Event) : Len(s) = 0 => s = << >>
<1>1. << >> \in Seq(Event) /\ Len(<< >>) = 0 /\ \A s \in Seq(Event) : Len(s) = 0 => s = << >>
  OBVIOUS
<1>2. \A i \in 1 .. Len(<< >>) : FALSE
  BY <1>1
<1> QED
  BY <1>1, <1>2, RangeIs DEF Once

LEMMA RangeTail ==
  ASSUME NEW s \in Seq(Event), s # << >>
  PROVE  Range(s) = {Head(s)} \cup Range(Tail(s))
<1>1. ASSUME NEW e \in Range(s)
      PROVE  e = Head(s) \/ e \in Range(Tail(s))
  <2>1. PICK i \in 1 .. Len(s) : s[i] = e
    BY RangeIs
  <2>2. CASE i = 1
    BY <2>1, <2>2, TailIs
  <2>3. CASE i # 1
    <3>1. i - 1 \in 1 .. Len(s) - 1 /\ Tail(s)[i - 1] = s[(i - 1) + 1]
      BY <2>1, <2>3, TailIs
    <3>2. Tail(s)[i - 1] = e /\ i - 1 \in 1 .. Len(Tail(s)) /\ Tail(s) \in Seq(Event)
      BY <2>1, <3>1, TailIs
    <3> QED
      BY <3>2, RangeIs
  <2> QED
    BY <2>2, <2>3
<1>2. ASSUME NEW e \in Range(Tail(s))
      PROVE  e \in Range(s)
  <2>0. Tail(s) \in Seq(Event) /\ Len(Tail(s)) = Len(s) - 1 /\ Len(s) \in Nat
    BY TailIs
  <2>1. PICK i \in 1 .. Len(Tail(s)) : Tail(s)[i] = e
    BY <2>0, RangeIs
  <2>2. s[i + 1] = e /\ i + 1 \in 1 .. Len(s)
    BY <2>0, <2>1, TailIs
  <2> QED
    BY <2>2, RangeIs
<1> QED
  BY <1>1, <1>2, TailIs

LEMMA RangeAppend ==
  ASSUME NEW s \in Seq(Event), NEW e \in Event
  PROVE  /\ Append(s, e) \in Seq(Event) /\ Len(Append(s, e)) = Len(s) + 1
         /\ \A i \in 1 .. Len(s) : Append(s, e)[i] = s[i]
         /\ Append(s, e)[Len(s) + 1] = e
         /\ Range(Append(s, e)) = Range(s) \cup {e}
<1> DEFINE t == Append(s, e)
<1>1. t \in Seq(Event) /\ Len(t) = Len(s) + 1 /\ Len(s) \in Nat
  OBVIOUS
<1>2. (\A i \in 1 .. Len(s) : t[i] = s[i]) /\ t[Len(s) + 1] = e
  BY <1>1
<1> HIDE DEF t
<1>3. ASSUME NEW x \in Range(t)
      PROVE  x \in Range(s) \cup {e}
  <2>1. PICK i \in 1 .. Len(t) : t[i] = x
    BY <1>1, RangeIs
  <2>2. i \in 1 .. Len(s) \/ i = Len(s) + 1
    BY <1>1
  <2> QED
    BY <1>2, <2>1, <2>2, RangeIs
<1>4. ASSUME NEW x \in Range(s)
      PROVE  x \in Range(t)
  <2>1. PICK i \in 1 .. Len(s) : s[i] = x
    BY RangeIs
  <2>2. i \in 1 .. Len(t) /\ t[i] = x
    BY <1>1, <1>2, <2>1
  <2> QED
    BY <1>1, <2>2, RangeIs
<1>5. e \in Range(t)
  <2>1. Len(s) + 1 \in 1 .. Len(t)
    BY <1>1
  <2> QED
    BY <1>1, <1>2, <2>1, RangeIs
<1> QED
  BY <1>1, <1>2, <1>3, <1>4, <1>5 DEF t

LEMMA OnceTail ==
  ASSUME NEW s \in Seq(Event), s # << >>, Once(s)
  PROVE  /\ Once(Tail(s))
         /\ Head(s).kind = "created" => Head(s) \notin Range(Tail(s))
<1>1. ASSUME NEW i \in 1 .. Len(Tail(s))
      PROVE  i + 1 \in 1 .. Len(s) /\ Tail(s)[i] = s[i + 1] /\ i + 1 # 1
  BY TailIs
<1>2. Once(Tail(s))
  <2> SUFFICES ASSUME NEW i \in 1 .. Len(Tail(s)), NEW j \in 1 .. Len(Tail(s)),
                      Tail(s)[i] = Tail(s)[j], Tail(s)[i].kind = "created"
               PROVE  i = j
    BY DEF Once
  <2>1. i + 1 = j + 1
    BY <1>1 DEF Once
  <2> QED
    BY <2>1, TailIs
<1>3. ASSUME Head(s).kind = "created", Head(s) \in Range(Tail(s))
      PROVE  FALSE
  <2>1. PICK i \in 1 .. Len(Tail(s)) : Tail(s)[i] = Head(s)
    BY <1>3, TailIs, RangeIs
  <2>2. s[i + 1] = s[1] /\ s[1].kind = "created" /\ 1 \in 1 .. Len(s)
    BY <1>1, <1>3, <2>1, TailIs
  <2> QED
    BY <1>1, <2>2 DEF Once
<1> QED
  BY <1>2, <1>3

LEMMA OnceAppend ==
  ASSUME NEW s \in Seq(Event), NEW e \in Event, Once(s), e.kind = "created" => e \notin Range(s)
  PROVE  Once(Append(s, e))
<1> SUFFICES ASSUME NEW i \in 1 .. Len(Append(s, e)), NEW j \in 1 .. Len(Append(s, e)),
                    Append(s, e)[i] = Append(s, e)[j], Append(s, e)[i].kind = "created"
             PROVE  i = j
  BY DEF Once
<1>1. Len(s) \in Nat /\ Len(Append(s, e)) = Len(s) + 1
  BY RangeAppend
<1>2. CASE i \in 1 .. Len(s) /\ j \in 1 .. Len(s)
  BY <1>2, RangeAppend DEF Once
<1>3. CASE i \in 1 .. Len(s) /\ j = Len(s) + 1
  BY <1>3, RangeAppend, RangeIs
<1>4. CASE i = Len(s) + 1 /\ j \in 1 .. Len(s)
  BY <1>4, RangeAppend, RangeIs
<1> QED
  BY <1>1, <1>2, <1>3, <1>4

(* The outbox of a batch: each of its events once.                          *)
LEMMA SetToSeqIs ==
  ASSUME NEW S \in SUBSET Event, IsFiniteSet(S), S # {}
  PROVE  SetToSeq(S) \in Seq(Event) /\ SetToSeq(S) # << >> /\ Once(SetToSeq(S))
<1>1. Cardinality(S) \in Nat /\ ExistsBijection(1 .. Cardinality(S), S)
  BY FS_CardinalityType
<1>2. \E f \in [1 .. Cardinality(S) -> S] : IsInjective(f)
  BY <1>1 DEF ExistsBijection, Bijection, Injection
<1>3. SetToSeq(S) \in [1 .. Cardinality(S) -> S] /\ IsInjective(SetToSeq(S))
  BY <1>2 DEF SetToSeq
<1>4. Cardinality(S) # 0
  BY FS_EmptySet
<1> HIDE DEF SetToSeq
<1>5. SetToSeq(S) \in Seq(Event) /\ Len(SetToSeq(S)) = Cardinality(S)
  BY <1>1, <1>3
<1>6. SetToSeq(S) # << >>
  BY <1>4, <1>5
<1> QED
  BY <1>3, <1>5, <1>6 DEF IsInjective, Once

-----------------------------------------------------------------------------
(* Steps of the writers *)

(* One event leaves the outbox, the others are still to come.               *)
LEMMA PublishedIs ==
  ASSUME Types, NEW w \in Writers, writer[w].phase = "publishing", Published(w)
  PROVE  LET outbox == writer[w].outbox
         IN /\ outbox \in Seq(Event) /\ outbox # << >> /\ Head(outbox) \in Event /\ Head(outbox) \in Range(outbox)
            /\ writer' \in [Writers -> Writer]
            /\ \A v \in Writers \ {w} : writer'[v] = writer[v]
            /\ writer'[w].phase # "idle" => writer'[w].outbox # << >>
            /\ writer'[w] = NoWriter \/ (writer'[w].phase = "publishing" /\ writer'[w].outbox = Tail(outbox))
            /\ \A e \in Range(outbox) :
                 e = Head(outbox) \/ (writer'[w].phase = "publishing" /\ e \in Range(writer'[w].outbox))
<1> DEFINE outbox == writer[w].outbox
           next   == IF Len(outbox) = 1 THEN NoWriter ELSE [writer[w] EXCEPT !.outbox = Tail(@)]
<1>1. writer[w] \in Writer /\ outbox \in Seq(Event) /\ outbox # << >>
  BY DEF Types, Writer
<1>2. /\ Head(outbox) \in Event /\ Head(outbox) \in Range(outbox) /\ Tail(outbox) \in Seq(Event)
      /\ Len(outbox) \in Nat /\ Len(outbox) >= 1 /\ Len(Tail(outbox)) = Len(outbox) - 1
      /\ Range(outbox) = {Head(outbox)} \cup Range(Tail(outbox))
  BY <1>1, TailIs, RangeTail
<1>3. writer' = [writer EXCEPT ![w] = next]
  BY DEF Published, Becomes
<1>4. CASE Len(outbox) = 1
  <2>1. next = NoWriter /\ NoWriter \in Writer /\ NoWriter.phase = "idle"
    BY <1>4 DEF NoWriter, Writer
  <2>2. Range(Tail(outbox)) = {}
    <3> HIDE DEF outbox
    <3>1. Tail(outbox) \in Seq(Event) /\ Len(Tail(outbox)) = 0
      BY <1>2, <1>4
    <3>2. Tail(outbox) = << >>
      BY <3>1, EmptyIs
    <3> QED
      BY <3>2, EmptyIs
  <2> HIDE DEF next, outbox
  <2>3. /\ writer' \in [Writers -> Writer] /\ writer'[w] = NoWriter
        /\ \A v \in Writers \ {w} : writer'[v] = writer[v]
    BY <1>3, <2>1 DEF Types
  <2> QED
    BY <1>1, <1>2, <2>1, <2>2, <2>3 DEF outbox
<1>5. CASE Len(outbox) # 1
  <2>1. next = [writer[w] EXCEPT !.outbox = Tail(outbox)]
    BY <1>5
  <2>2. Tail(outbox) # << >>
    <3> HIDE DEF outbox
    <3>1. Len(Tail(outbox)) # 0
      BY <1>2, <1>5
    <3> QED
      BY <3>1, EmptyIs
  <2> HIDE DEF next, outbox
  <2>3. next \in Writer /\ next.phase = "publishing" /\ next.outbox = Tail(outbox)
    BY <1>1, <1>2, <2>1 DEF Writer
  <2>4. /\ writer' \in [Writers -> Writer] /\ writer'[w] = next
        /\ \A v \in Writers \ {w} : writer'[v] = writer[v]
    BY <1>3, <2>3 DEF Types
  <2> QED
    BY <1>1, <1>2, <2>2, <2>3, <2>4 DEF outbox
<1> QED
  BY <1>4, <1>5

LEMMA WriteIs ==
  ASSUME Types, NEW w \in Writers, NEW touched \in (SUBSET Cases) \ {{}}, Write(w, touched)
  PROVE  /\ writer' \in [Writers -> Writer]
         /\ \A v \in Writers \ {w} : writer'[v] = writer[v]
         /\ writer'[w].phase = "written" /\ writer'[w].outbox # << >> /\ Once(writer'[w].outbox)
         /\ writer[w].phase = "idle"
<1> DEFINE Told(case) == [kind |-> IF cases[case] = 0 THEN "created" ELSE "updated", case |-> case]
           events == { Told(case) : case \in touched }
           next   == [phase |-> "written", outbox |-> SetToSeq(events)]
<1>1. events \in SUBSET Event /\ events # {}
  <2>1. ASSUME NEW case \in touched
        PROVE  Told(case) \in Event
    BY DEF Event
  <2> QED
    BY <2>1
<1>2. IsFiniteSet(events)
  <2>1. IsFiniteSet(touched)
    BY ConstantFacts, FS_Subset
  <2> HIDE DEF Told
  <2> DEFINE f == [case \in touched |-> Told(case)]
  <2>2. f \in Surjection(touched, events)
    BY DEF Surjection
  <2> HIDE DEF f, events
  <2> QED
    BY <2>1, <2>2, FS_Surjection
<1>3. SetToSeq(events) \in Seq(Event) /\ SetToSeq(events) # << >> /\ Once(SetToSeq(events))
  BY <1>1, <1>2, SetToSeqIs
<1>4. writer' = [writer EXCEPT ![w] = next] /\ writer[w] = NoWriter
  BY DEF Write, Becomes
<1> HIDE DEF Told, events
<1>5. next \in Writer
  BY <1>3 DEF Writer
<1> QED
  BY <1>3, <1>4, <1>5 DEF Types, NoWriter

LEMMA CommitIs ==
  ASSUME Types, NEW w \in Writers, Commit(w)
  PROVE  LET outbox == writer[w].outbox
         IN /\ outbox \in Seq(Event) /\ writer[w].phase = "written"
            /\ \A case \in Cases : New(case) \in Range(outbox) => cases[case] = 0
            /\ cases' \in [Cases -> Nat]
            /\ \A case \in Cases :
                 /\ cases'[case] <= MaxChanges[case] /\ cases'[case] >= cases[case]
                 /\ case \in CasesOf(outbox) => cases'[case] > 0
                 /\ case \notin CasesOf(outbox) => cases'[case] = cases[case]
            /\ writer' \in [Writers -> Writer]
            /\ \A v \in Writers \ {w} : writer'[v] = writer[v]
            /\ writer'[w].phase = "publishing" /\ writer'[w].outbox = outbox /\ outbox # << >>
<1> DEFINE outbox == writer[w].outbox
<1>1. writer[w] \in Writer /\ outbox \in Seq(Event) /\ outbox # << >> /\ writer[w].phase = "written"
  BY DEF Types, Writer, Commit
<1>2. ASSUME NEW case \in Cases, New(case) \in Range(outbox)
      PROVE  cases[case] = 0
  <2>1. New(case).kind = "created" /\ New(case).case = case
    BY DEF New
  <2> QED
    BY <1>2, <2>1 DEF Commit
<1>3. /\ cases' \in [Cases -> Nat]
      /\ \A case \in Cases :
           /\ cases'[case] <= MaxChanges[case] /\ cases'[case] >= cases[case]
           /\ case \in CasesOf(outbox) => cases'[case] > 0
           /\ case \notin CasesOf(outbox) => cases'[case] = cases[case]
  <2>1. /\ cases' = [case \in Cases |-> IF case \in CasesOf(outbox) THEN cases[case] + 1 ELSE cases[case]]
        /\ \A case \in CasesOf(outbox) : cases[case] < MaxChanges[case]
    BY DEF Commit
  <2> HIDE DEF outbox
  <2>2. cases \in [Cases -> Nat] /\ \A case \in Cases : cases[case] <= MaxChanges[case] /\ MaxChanges[case] \in Nat
    BY LiveQueueAssumption DEF Types
  <2> QED
    BY <2>1, <2>2
<1>4. writer' = [writer EXCEPT ![w] = [writer[w] EXCEPT !.phase = "publishing"]]
  BY DEF Commit, Becomes
<1> DEFINE next == [writer[w] EXCEPT !.phase = "publishing"]
<1>5. next \in Writer /\ next.phase = "publishing" /\ next.outbox = outbox
  BY <1>1 DEF Writer
<1> HIDE DEF next
<1>6. writer' = [writer EXCEPT ![w] = next]
  BY <1>4 DEF next
<1> QED
  BY <1>1, <1>2, <1>3, <1>5, <1>6 DEF Types

(* The batch fails before its commit, or the process dies after it.         *)
LEMMA NoWriterIs ==
  ASSUME Types, NEW w \in Writers, Becomes(w, NoWriter)
  PROVE  /\ writer' \in [Writers -> Writer] /\ writer'[w] = NoWriter
         /\ \A v \in Writers \ {w} : writer'[v] = writer[v]
         /\ NoWriter.phase = "idle" /\ Once(NoWriter.outbox) /\ Range(NoWriter.outbox) = {}
<1>1. NoWriter \in Writer /\ NoWriter.phase = "idle" /\ NoWriter.outbox = << >>
  BY EmptyIs DEF NoWriter, Writer
<1> QED
  BY <1>1, EmptyIs DEF Types, Becomes

-----------------------------------------------------------------------------
(* Types *)

(* What the connection does without an event.                               *)
Connects == Accept \/ Subscribe \/ Expire \/ OnOpen \/ OnError \/ Reconnect

(* What the list does without the pill.                                     *)
ListSteps == Poll \/ LoadMore \/ Read \/ ListShown \/ ListFails

PaneSteps(case) ==
  OpenPane(case) \/ Forget(case) \/ PaneRead(case) \/ PaneShown(case) \/ PaneFails(case)

Quiet == Connects \/ ListSteps \/ (\E case \in Scope : PaneSteps(case)) \/ ClosePane \/ UNCHANGED vars

Writes(w) ==
  \/ \E touched \in (SUBSET Cases) \ {{}} : Write(w, touched)
  \/ Commit(w) \/ Fails(w) \/ Publish(w) \/ PublishFails(w) \/ Crash(w)

LEMMA NextIs ==
  [Next]_vars <=> \/ \E w \in Writers : Writes(w)
                  \/ Quiet \/ Receive \/ Merge \/ Breaks
BY DEF Next, Console, Quiet, Connects, ListSteps, PaneSteps, Writes

LEMMA ConnectsKeeps ==
  ASSUME Connects
  PROVE  UNCHANGED <<cases, writer, wire, pending, counted, fits, list, detail, pane, lost, used>>
BY DEF Connects, Accept, Subscribe, Expire, OnOpen, OnError, Reconnect, screen

LEMMA ListKeeps ==
  ASSUME ListSteps
  PROVE  UNCHANGED <<cases, writer, connection, wire, state, token, pending, counted, detail, pane, lost, used>>
BY DEF ListSteps, Poll, LoadMore, Read, ListRead, ListShown, ListFails, ListBecomes, stream

LEMMA PaneKeeps ==
  ASSUME NEW case \in Scope, PaneSteps(case)
  PROVE  UNCHANGED <<cases, writer, connection, wire, state, token, fits, pending, counted, list>>
BY DEF PaneSteps, OpenPane, Forget, PaneRead, PaneShown, PaneFails, DetailBecomes, stream

LEMMA CloseKeeps ==
  ASSUME ClosePane
  PROVE  /\ UNCHANGED <<cases, writer, connection, wire, state, token, pending, counted, detail, fits, list, lost, used>>
         /\ pane' = None
BY DEF ClosePane, stream

LEMMA QuietKeeps ==
  ASSUME Quiet
  PROVE  UNCHANGED <<cases, writer, wire, pending, counted>>
<1>1. CASE UNCHANGED vars
  BY <1>1 DEF vars, stream, screen
<1> QED
  BY <1>1, ConnectsKeeps, ListKeeps, PaneKeeps, CloseKeeps DEF Quiet

LEMMA WritesKeeps ==
  ASSUME NEW w \in Writers, Writes(w)
  PROVE  UNCHANGED <<connection, state, token, pending, counted, detail, pane, used>>
BY DEF Writes, Write, Commit, Fails, Publish, PublishFails, Crash, stream, screen

LEMMA VisibleIs ==
  ASSUME Types
  PROVE  /\ Visible \in Versions
         /\ \A case \in Scope : case \in fits => Visible[case] = cases[case]
BY ConstantFacts DEF Types, Visible, Versions

LEMMA FromTheTopIs ==
  ASSUME Types, NEW owed \in SUBSET Scope
  PROVE  /\ FromTheTop(owed) \in Lists
         /\ FromTheTop(owed).phase = "asked" /\ FromTheTop(owed).todo = Scope
         /\ FromTheTop(owed).owes = owed \cap fits
<1>1. list \in Lists /\ Nothing \in Versions
  BY DEF Types, ListTypes, Nothing, Versions
<1> QED
  BY <1>1 DEF FromTheTop, Lists, Phases

LEMMA AtRestIs ==
  ASSUME Types
  PROVE  AtRest \in Lists /\ AtRest.phase = "idle" /\ AtRest.owes = {}
<1>1. list \in Lists /\ Nothing \in Versions
  BY DEF Types, ListTypes, Nothing, Versions
<1> QED
  BY <1>1 DEF AtRest, Lists, Phases

(* The steps of the list, by the fields                                      *)
LEMMA ShownIs ==
  ASSUME Types, ListShown
  PROVE  /\ list' \in Lists /\ list'.phase = "idle" /\ list'.owes = {}
         /\ list.phase = "read" /\ list'.shown = list.snapshot
<1>1. list' = [AtRest EXCEPT !.has = TRUE, !.shown = list.snapshot] /\ list.phase = "read"
  BY DEF ListShown, ListBecomes
<1>2. AtRest \in Lists /\ AtRest.phase = "idle" /\ AtRest.owes = {} /\ list.snapshot \in Versions
  BY AtRestIs DEF Types, ListTypes, Lists
<1> HIDE DEF AtRest
<1> QED
  BY <1>1, <1>2 DEF Lists

LEMMA ReadIs ==
  ASSUME Types, NEW page \in SUBSET list.todo, ListRead(page)
  PROVE  /\ list' \in Lists /\ list.phase = "asked"
         /\ list'.phase = IF page = list.todo THEN "read" ELSE "asked"
         /\ list'.has = list.has /\ list'.owes = list.owes /\ list'.todo = list.todo \ page
         /\ \A case \in Scope :
              list'.snapshot[case] = IF case \in page THEN Visible[case] ELSE list.snapshot[case]
<1> DEFINE snapshot == [case \in Scope |-> IF case \in page THEN Visible[case] ELSE list.snapshot[case]]
<1>1. list \in Lists /\ Visible \in Versions
  BY VisibleIs DEF Types, ListTypes
<1>2. snapshot \in Versions
  <2> HIDE DEF Visible
  <2> QED
    BY <1>1 DEF Versions, Lists
<1>3. list' = [list EXCEPT !.phase = IF page = list.todo THEN "read" ELSE "asked",
                           !.todo = list.todo \ page, !.snapshot = snapshot]
      /\ list.phase = "asked"
  BY DEF ListRead, ListBecomes
<1>4. \A case \in Scope : snapshot[case] = IF case \in page THEN Visible[case] ELSE list.snapshot[case]
  OBVIOUS
<1> HIDE DEF snapshot
<1> QED
  BY <1>1, <1>2, <1>3, <1>4 DEF Lists, Phases

LEMMA MoreIs ==
  ASSUME Types, LoadMore
  PROVE  list' \in Lists /\ list'.phase = "asked" /\ list'.owes = {} /\ fits' \in SUBSET Scope
<1>1. list \in Lists
  BY DEF Types, ListTypes
<1>2. list' = [list EXCEPT !.phase = "asked", !.more = TRUE, !.todo = fits' \ fits,
                           !.snapshot = list.shown, !.owes = {}]
      /\ fits' \in SUBSET Scope
  BY DEF LoadMore, ListBecomes
<1>3. fits' \ fits \in SUBSET Scope
  BY <1>2
<1> QED
  BY <1>1, <1>2, <1>3 DEF Lists, Phases

LEMMA MergeIs ==
  ASSUME Types, Merge
  PROVE  /\ list' \in Lists /\ list'.owes \subseteq (list.owes \cup counted) \cap fits
         /\ fits' = fits /\ cases' = cases
         /\ list'.phase # "idle"
         /\ list'.has => list'.phase = "asked" /\ list'.todo = Scope
<1>1. list \in Lists /\ list.owes \subseteq fits /\ fits \in SUBSET Scope /\ counted \in SUBSET Scope
  BY DEF Types, ListTypes
<1>2. list.owes \cup counted \in SUBSET Scope /\ fits' = fits /\ cases' = cases
  BY <1>1 DEF Merge, ListBecomes, Lists
<1>3. CASE StartsOver(list)
  <2>1. list' = FromTheTop(list.owes \cup counted)
    BY <1>3 DEF Merge, ListBecomes
  <2> QED
    BY <1>2, <2>1, FromTheTopIs
<1>4. CASE ~StartsOver(list)
  <2>1. list' = [list EXCEPT !.owes = list.owes \cup (counted \cap fits)]
    BY <1>4 DEF Merge, ListBecomes
  <2>2. ~list.has /\ list.phase # "idle" /\ list.owes \cup (counted \cap fits) \in SUBSET Scope
    BY <1>1, <1>4 DEF StartsOver, Lists
  <2> QED
    BY <1>1, <1>2, <2>1, <2>2 DEF Lists
<1> QED
  BY <1>3, <1>4

LEMMA CommitListIs ==
  ASSUME Types, NEW w \in Writers, Commit(w)
  PROVE  LET touched == CasesOf(writer[w].outbox)
         IN /\ list' \in Lists /\ fits' \in SUBSET Scope
            /\ list'.phase = list.phase /\ list'.has = list.has /\ list'.snapshot = list.snapshot
            /\ list'.owes = (list.owes \ touched) \cap fits'
            /\ \A case \in list'.owes : list.phase = "asked" /\ case \in list.todo => case \in list'.todo
<1> DEFINE touched == CasesOf(writer[w].outbox)
<1>1. list \in Lists
  BY DEF Types, ListTypes
<1>2. fits' \in SUBSET Scope
  BY DEF Commit
<1>3. PICK behind \in SUBSET (touched \cap Scope) :
        list' = [list EXCEPT !.todo = IF list.phase = "asked" THEN (list.todo \ touched) \cup behind ELSE list.todo,
                             !.owes = (list.owes \ touched) \cap fits']
  BY DEF Commit
<1> HIDE DEF touched
<1> DEFINE todo == IF list.phase = "asked" THEN (list.todo \ touched) \cup behind ELSE list.todo
           owes == (list.owes \ touched) \cap fits'
<1>4. todo \in SUBSET Scope /\ owes \in SUBSET Scope
  BY <1>1 DEF Lists
<1>5. \A case \in owes : list.phase = "asked" /\ case \in list.todo => case \in todo
  OBVIOUS
<1>6. list' = [list EXCEPT !.todo = todo, !.owes = owes]
  BY <1>3
<1> HIDE DEF todo, owes
<1>7. /\ list' \in Lists /\ list'.phase = list.phase /\ list'.has = list.has /\ list'.snapshot = list.snapshot
      /\ list'.owes = owes /\ list'.todo = todo
  BY <1>1, <1>4, <1>6 DEF Lists
<1> QED
  BY <1>2, <1>5, <1>7 DEF owes, touched

LEMMA ListTypesStep ==
  ASSUME Types, ListSteps
  PROVE  ListTypes'
<1>0. list.owes \subseteq fits /\ fits \in SUBSET Scope
  BY DEF Types, ListTypes
<1>1. CASE Poll
  <2>1. list' = FromTheTop({}) /\ fits' = fits
    BY <1>1 DEF Poll, ListBecomes
  <2> QED
    BY <1>0, <2>1, FromTheTopIs DEF ListTypes
<1>2. CASE LoadMore
  BY <1>2, MoreIs DEF ListTypes
<1>3. CASE Read
  <2>1. PICK page \in SUBSET list.todo : ListRead(page)
    BY <1>3 DEF Read
  <2>2. fits' = fits
    BY <2>1 DEF ListRead
  <2> QED
    BY <1>0, <2>1, <2>2, ReadIs DEF ListTypes
<1>4. CASE ListShown
  <2>1. fits' = fits
    BY <1>4 DEF ListShown
  <2> QED
    BY <1>0, <1>4, <2>1, ShownIs DEF ListTypes
<1>5. CASE ListFails
  <2>1. fits' = fits /\ list' = AtRest
    BY <1>5 DEF ListFails, ListBecomes
  <2> QED
    BY <1>0, <2>1, AtRestIs DEF ListTypes
<1> QED
  BY <1>1, <1>2, <1>3, <1>4, <1>5 DEF ListSteps

(* The steps of the details of one case, by the fields                        *)
LEMMA DetailIs ==
  ASSUME Types, NEW case \in Scope, NEW query \in Details, DetailBecomes(case, query)
  PROVE  /\ detail' \in [Scope -> Details] /\ detail'[case] = query
         /\ \A other \in Scope \ {case} : detail'[other] = detail[other]
BY DEF DetailBecomes, Types, PaneTypes

LEMMA PaneStepIs ==
  ASSUME Types, NEW case \in Scope, PaneSteps(case)
  PROVE  /\ detail' \in [Scope -> Details]
         /\ \A other \in Scope \ {case} : detail'[other] = detail[other]
         /\ \/ /\ OpenPane(case) /\ pane' = case /\ UNCHANGED <<lost, used>>
               /\ \/ detail'[case].phase = "asked"
                  \/ detail'[case] = detail[case]
                     /\ (detail[case].phase = "idle" => detail[case].has /\ ~detail[case].invalid)
            \/ /\ Forget(case) /\ ~detail'[case].has /\ detail'[case].phase = "idle"
               /\ UNCHANGED <<pane, lost, used>>
            \/ /\ PaneRead(case) /\ detail'[case].phase = "read" /\ detail'[case].snapshot = cases[case]
               /\ lost' = lost \ {case} /\ used' = used \ {case} /\ pane' = pane
            \/ /\ PaneShown(case) /\ detail'[case].phase = "idle" /\ ~detail'[case].invalid
               /\ detail[case].phase = "read" /\ detail'[case].shown = detail[case].snapshot
               /\ UNCHANGED <<pane, lost, used>>
            \/ /\ PaneFails(case) /\ detail'[case].phase = "idle"
               /\ lost' = lost \cup {case} /\ UNCHANGED <<pane, used>>
<1> DEFINE query == detail[case]
<1>0. query \in Details /\ detail \in [Scope -> Details] /\ cases[case] \in Nat
  BY ConstantFacts DEF Types, PaneTypes
<1>1. CASE OpenPane(case)
  <2>0. pane' = case /\ UNCHANGED <<lost, used>>
    BY <1>1 DEF OpenPane
  <2>1. CASE DetailBecomes(case, [query EXCEPT !.phase = "asked"])
    <3>1. [query EXCEPT !.phase = "asked"] \in Details /\ [query EXCEPT !.phase = "asked"].phase = "asked"
      BY <1>0 DEF Details, Phases
    <3> QED
      BY <1>1, <2>0, <2>1, <3>1, DetailIs
  <2>2. CASE DetailBecomes(case, query) /\ (query.phase = "idle" => query.has /\ ~query.invalid)
    BY <1>0, <1>1, <2>0, <2>2, DetailIs
  <2> QED
    BY <1>1, <2>1, <2>2 DEF OpenPane
<1>2. CASE Forget(case)
  <2>1. DetailBecomes(case, NoDetail) /\ UNCHANGED <<pane, lost, used>>
    BY <1>2 DEF Forget
  <2>2. NoDetail \in Details /\ ~NoDetail.has /\ NoDetail.phase = "idle"
    BY DEF NoDetail, Details, Phases
  <2> QED
    BY <1>2, <2>1, <2>2, DetailIs
<1>3. CASE PaneRead(case)
  <2> DEFINE next == [query EXCEPT !.phase = "read", !.snapshot = cases[case]]
  <2>1. DetailBecomes(case, next) /\ lost' = lost \ {case} /\ used' = used \ {case} /\ pane' = pane
    BY <1>3 DEF PaneRead
  <2>2. next \in Details /\ next.phase = "read" /\ next.snapshot = cases[case]
    BY <1>0 DEF Details, Phases
  <2> HIDE DEF next
  <2> QED
    BY <1>3, <2>1, <2>2, DetailIs
<1>4. CASE PaneShown(case)
  <2> DEFINE next == [has |-> TRUE, shown |-> query.snapshot, phase |-> "idle", snapshot |-> 0, invalid |-> FALSE]
  <2>1. DetailBecomes(case, next) /\ UNCHANGED <<pane, lost, used>> /\ query.phase = "read"
    BY <1>4 DEF PaneShown
  <2>2. next \in Details /\ next.phase = "idle" /\ ~next.invalid /\ next.shown = query.snapshot
    BY <1>0 DEF Details, Phases
  <2> HIDE DEF next
  <2> QED
    BY <1>4, <2>1, <2>2, DetailIs
<1>5. CASE PaneFails(case)
  <2> DEFINE next == [query EXCEPT !.phase = "idle", !.snapshot = 0]
  <2>1. DetailBecomes(case, next) /\ lost' = lost \cup {case} /\ UNCHANGED <<pane, used>>
    BY <1>5 DEF PaneFails
  <2>2. next \in Details /\ next.phase = "idle"
    BY <1>0 DEF Details, Phases
  <2> HIDE DEF next
  <2> QED
    BY <1>5, <2>1, <2>2, DetailIs
<1> QED
  BY <1>1, <1>2, <1>3, <1>4, <1>5 DEF PaneSteps

(* An event that comes: the details of every case are invalidated, and fetched *)
(* if they are looked at.                                                   *)
LEMMA ReceiveDetailIs ==
  ASSUME Types, Receive
  PROVE  /\ detail' \in [Scope -> Details]
         /\ \A case \in Scope :
              /\ detail'[case].has = detail[case].has /\ detail'[case].shown = detail[case].shown
              /\ detail'[case].snapshot = detail[case].snapshot
              /\ detail'[case].phase = IF Refetch(case) THEN "asked" ELSE detail[case].phase
              /\ detail'[case].invalid = detail[case].has
<1>1. detail \in [Scope -> Details]
  BY DEF Types, PaneTypes
<1>2. detail' = [case \in Scope |->
        [detail[case] EXCEPT !.phase = IF Refetch(case) THEN "asked" ELSE detail[case].phase,
                             !.invalid = detail[case].has]]
  BY DEF Receive
<1>3. ASSUME NEW case \in Scope
      PROVE  LET next == [detail[case] EXCEPT !.phase = IF Refetch(case) THEN "asked" ELSE detail[case].phase,
                                              !.invalid = detail[case].has]
             IN /\ next \in Details /\ detail'[case] = next
                /\ next.has = detail[case].has /\ next.shown = detail[case].shown
                /\ next.snapshot = detail[case].snapshot
                /\ next.phase = IF Refetch(case) THEN "asked" ELSE detail[case].phase
                /\ next.invalid = detail[case].has
  <2>1. detail[case] \in Details
    BY <1>1
  <2> HIDE DEF Refetch
  <2> QED
    BY <1>2, <2>1 DEF Details, Phases
<1>4. detail' \in [Scope -> Details]
  <2>1. \A case \in Scope : detail'[case] \in Details
    BY <1>3, Zenon
  <2>2. DOMAIN detail' = Scope /\ detail' = [case \in Scope |-> detail'[case]]
    BY <1>2, Zenon
  <2> QED
    BY <2>1, <2>2, Zenon
<1> QED
  BY <1>3, <1>4, Zenon

LEMMA QuietTypes ==
  ASSUME Types, Quiet
  PROVE  Types'
<1>1. CASE Connects
  <2>1. /\ connection' \in {"none", "opening", "open", "subscribed", "ended"}
        /\ state' \in {"connecting", "live", "offline"} /\ token' \in {"good", "expired", None}
    BY <1>1 DEF Connects, Accept, Subscribe, Expire, OnOpen, OnError, Reconnect, Types
  <2> QED
    BY <1>1, <2>1, ConnectsKeeps DEF Types, ListTypes, PaneTypes
<1>2. CASE ListSteps
  BY <1>2, ListKeeps, ListTypesStep DEF Types, PaneTypes
<1>3. ASSUME NEW case \in Scope, PaneSteps(case)
      PROVE  Types'
  <2>1. PaneTypes'
    BY <1>3, PaneStepIs DEF Types, PaneTypes
  <2> QED
    BY <1>3, <2>1, PaneKeeps DEF Types, ListTypes
<1>4. CASE ClosePane \/ UNCHANGED vars
  <2>1. UNCHANGED <<cases, writer, connection, wire, state, token, pending, counted, detail, fits, list>>
        /\ pane' \in {pane, None}
    BY <1>4, CloseKeeps DEF vars, stream, screen
  <2> QED
    BY <2>1 DEF Types, ListTypes, PaneTypes
<1> QED
  BY <1>1, <1>2, <1>3, <1>4 DEF Quiet

LEMMA WritesTypes ==
  ASSUME Types, NEW w \in Writers, Writes(w)
  PROVE  Types'
<1>1. /\ writer' \in [Writers -> Writer]
      /\ \A v \in Writers : writer'[v].phase # "idle" => writer'[v].outbox # << >>
  <2>1. ASSUME NEW touched \in (SUBSET Cases) \ {{}}, Write(w, touched)
        PROVE  /\ writer' \in [Writers -> Writer]
               /\ \A v \in Writers : writer'[v].phase # "idle" => writer'[v].outbox # << >>
    BY <2>1, WriteIs DEF Types
  <2>2. CASE Commit(w)
    BY <2>2, CommitIs DEF Types
  <2>3. CASE Fails(w) \/ Crash(w)
    BY <2>3, NoWriterIs DEF Types, Fails, Crash
  <2>4. CASE Publish(w) \/ PublishFails(w)
    BY <2>4, PublishedIs DEF Types, Publish, PublishFails
  <2> QED
    BY <2>1, <2>2, <2>3, <2>4 DEF Writes
<1>2. cases' \in [Cases -> Nat] /\ \A case \in Cases : cases'[case] <= MaxChanges[case]
  <2>1. CASE Commit(w)
    BY <2>1, CommitIs
  <2>2. CASE ~Commit(w)
    BY <2>2 DEF Writes, Write, Fails, Publish, PublishFails, Crash, Types
  <2> QED
    BY <2>1, <2>2
<1>3. wire' \in Seq(Event) /\ CasesOf(wire') \subseteq Scope
  <2>1. CASE Publish(w)
    <3> DEFINE event == Head(writer[w].outbox)
    <3>1. event \in Event
      BY <2>1, PublishedIs DEF Publish
    <3>2. wire' = wire \/ (wire' = Append(wire, event) /\ event.case \in Scope)
      BY <2>1 DEF Publish
    <3> HIDE DEF event
    <3>3. wire \in Seq(Event) /\ CasesOf(wire) \subseteq Scope
      BY DEF Types
    <3>4. CASE wire' = Append(wire, event) /\ event.case \in Scope
      <4>1. wire' \in Seq(Event) /\ Range(wire') = Range(wire) \cup {event}
        BY <3>1, <3>3, <3>4, RangeAppend
      <4> QED
        BY <3>3, <3>4, <4>1 DEF CasesOf
    <3> QED
      BY <3>2, <3>3, <3>4
  <2>2. CASE ~Publish(w)
    <3>1. wire' = wire
      BY <2>2 DEF Writes, Write, Commit, Fails, PublishFails, Crash, stream
    <3> QED
      BY <3>1 DEF Types
  <2> QED
    BY <2>1, <2>2
<1>4. ListTypes'
  <2>1. CASE Commit(w)
    BY <2>1, CommitListIs DEF ListTypes
  <2>2. CASE ~Commit(w)
    <3>1. UNCHANGED <<fits, list>>
      BY <2>2 DEF Writes, Write, Fails, Publish, PublishFails, Crash
    <3> QED
      BY <3>1 DEF Types, ListTypes
  <2> QED
    BY <2>1, <2>2
<1>5. UNCHANGED <<connection, state, token, pending, counted, detail, pane>>
  BY WritesKeeps
<1> QED
  BY <1>1, <1>2, <1>3, <1>4, <1>5 DEF Types, PaneTypes

LEMMA ReceiveIs ==
  ASSUME Types, Receive
  PROVE  /\ wire # << >> /\ Head(wire) \in Event /\ Head(wire) \in Range(wire)
         /\ wire' \in Seq(Event) /\ Range(wire) = {Head(wire)} \cup Range(wire')
         /\ Head(wire).case \in Scope
         /\ Head(wire).kind = "created" => Head(wire) = New(Head(wire).case)
<1>1. wire \in Seq(Event) /\ wire # << >> /\ wire' = Tail(wire)
  BY DEF Types, Receive
<1>2. /\ Head(wire) \in Event /\ Head(wire) \in Range(wire) /\ wire' \in Seq(Event)
      /\ Range(wire) = {Head(wire)} \cup Range(wire')
  BY <1>1, TailIs, RangeTail
<1>3. Head(wire).case \in Scope
  BY <1>1, <1>2, CasesOfIs DEF Types
<1>4. Head(wire).kind = "created" => Head(wire) = New(Head(wire).case)
  BY <1>2 DEF Event, New
<1> QED
  BY <1>1, <1>2, <1>3, <1>4

LEMMA TypesNext ==
  ASSUME Types, [Next]_vars
  PROVE  Types'
<1>1. CASE Receive
  <2>1. wire' \in Seq(Event) /\ CasesOf(wire') \subseteq Scope
    BY <1>1, ReceiveIs DEF CasesOf, Types
  <2>2. pending' \in Nat /\ counted' \in SUBSET Scope
    <3>1. Head(wire).case \in Scope
      BY <1>1, ReceiveIs
    <3>2. /\ pending' = IF Head(wire).kind = "created" THEN pending + 1 ELSE pending
          /\ counted' = IF Head(wire).kind = "created" THEN counted \cup {Head(wire).case} ELSE counted
      BY <1>1 DEF Receive
    <3>3. pending \in Nat /\ counted \in SUBSET Scope
      BY DEF Types
    <3> QED
      BY <3>1, <3>2, <3>3
  <2>3. UNCHANGED <<cases, writer, connection, state, token, fits, list, pane>>
    BY <1>1 DEF Receive
  <2>4. PaneTypes'
    BY <1>1, <2>3, ReceiveDetailIs DEF Types, PaneTypes
  <2> QED
    BY <2>1, <2>2, <2>3, <2>4 DEF Types, ListTypes
<1>2. CASE Merge
  <2>1. ListTypes'
    BY <1>2, MergeIs DEF Types, ListTypes
  <2>2. UNCHANGED <<cases, writer, connection, wire, state, token, detail, pane>>
    BY <1>2 DEF Merge, ListBecomes, stream
  <2>3. pending' \in Nat /\ counted' \in SUBSET Scope
    BY <1>2 DEF Merge
  <2> QED
    BY <2>1, <2>2, <2>3 DEF Types, PaneTypes
<1>3. CASE Breaks
  <2>1. wire' \in Seq(Event) /\ CasesOf(wire') \subseteq Scope
    BY <1>3, EmptyIs DEF Breaks, CasesOf
  <2> QED
    BY <1>3, <2>1 DEF Breaks, Types, ListTypes, PaneTypes, screen
<1> QED
  BY <1>1, <1>2, <1>3, QuietTypes, WritesTypes, NextIs

LEMMA TypesInit == Init => Types
<1> SUFFICES ASSUME Init
             PROVE  Types
  OBVIOUS
<1>1. NoWriter \in Writer /\ NoWriter.phase = "idle"
  BY EmptyIs DEF NoWriter, Writer
<1>2. cases \in [Cases -> Nat] /\ \A case \in Cases : cases[case] <= MaxChanges[case]
  BY LiveQueueAssumption DEF Init
<1>3. ListTypes
  BY DEF Init, ListTypes, Lists, Versions, Phases, Nothing
<1>4. PaneTypes
  BY DEF Init, PaneTypes, Details, NoDetail, Phases
<1>5. wire \in Seq(Event) /\ CasesOf(wire) \subseteq Scope
  BY EmptyIs DEF Init, CasesOf
<1> QED
  BY <1>1, <1>2, <1>3, <1>4, <1>5 DEF Init, Types

-----------------------------------------------------------------------------
(* A creation is told in one place *)

(* The writers other than w keep what they hold, and so does w, or less.    *)
LEMMA HoldsLess ==
  ASSUME NEW w \in Writers, NEW case \in Cases,
         \A v \in Writers \ {w} : writer'[v] = writer[v],
         Holds(w, case)' => Holds(w, case)
  PROVE  \A v \in Writers : Holds(v, case)' => Holds(v, case)
BY DEF Holds

LEMMA PublishHolds ==
  ASSUME Types, Singles, NEW w \in Writers, writer[w].phase = "publishing", Published(w)
  PROVE  /\ \A v \in Writers : Once(writer'[v].outbox)
         /\ \A case \in Cases : \A v \in Writers : Holds(v, case)' => Holds(v, case)
         /\ \A case \in Cases : Head(writer[w].outbox) = New(case) =>
              Holds(w, case) /\ \A v \in Writers : ~ Holds(v, case)'
<1> DEFINE outbox == writer[w].outbox
<1>1. /\ outbox \in Seq(Event) /\ outbox # << >> /\ Head(outbox) \in Range(outbox) /\ Once(outbox)
      /\ \A v \in Writers \ {w} : writer'[v] = writer[v]
      /\ writer'[w] = NoWriter \/ (writer'[w].phase = "publishing" /\ writer'[w].outbox = Tail(outbox))
  BY PublishedIs DEF Singles
<1>2. Range(outbox) = {Head(outbox)} \cup Range(Tail(outbox)) /\ Once(Tail(outbox))
      /\ (Head(outbox).kind = "created" => Head(outbox) \notin Range(Tail(outbox)))
  BY <1>1, RangeTail, OnceTail
<1> HIDE DEF outbox
<1>3. NoWriter.phase = "idle" /\ Once(NoWriter.outbox)
  BY EmptyIs DEF NoWriter
<1>4. \A v \in Writers : Once(writer'[v].outbox)
  BY <1>1, <1>2, <1>3 DEF Singles
<1>5. ASSUME NEW case \in Cases
      PROVE  /\ \A v \in Writers : Holds(v, case)' => Holds(v, case)
             /\ Head(outbox) = New(case) => ~ Holds(w, case)' /\ Holds(w, case)
  <2>1. Holds(w, case)' => New(case) \in Range(Tail(outbox))
    BY <1>1, <1>3 DEF Holds
  <2>2. Holds(w, case)' => Holds(w, case)
    BY <1>2, <2>1 DEF Holds, outbox
  <2>3. New(case).kind = "created"
    BY DEF New
  <2>4. Head(outbox) = New(case) => ~ Holds(w, case)'
    BY <1>2, <2>1, <2>3
  <2>5. Head(outbox) = New(case) => Holds(w, case)
    BY <1>1 DEF Holds, outbox
  <2> QED
    BY <1>1, <2>2, <2>4, <2>5, HoldsLess
<1>6. ASSUME NEW case \in Cases, Head(outbox) = New(case), NEW v \in Writers
      PROVE  ~ Holds(v, case)'
  BY <1>5, <1>6 DEF Singles, Single
<1> QED
  BY <1>4, <1>5, <1>6 DEF outbox

(* What holds less, and has cases that are there still, is single still.    *)
LEMMA SingleLess ==
  ASSUME NEW case \in Cases, Single(case), cases[case] \in Nat, cases'[case] \in Nat,
         cases'[case] >= cases[case],
         New(case) \in Range(wire)' => New(case) \in Range(wire),
         case \in counted' => case \in counted,
         \A v \in Writers : Holds(v, case)' => Holds(v, case)
  PROVE  Single(case)'
<1>1. cases[case] > 0 => cases'[case] > 0
  OBVIOUS
<1> QED
  BY <1>1 DEF Single

LEMMA WritesSingles ==
  ASSUME Types, Singles, NEW w \in Writers, Writes(w)
  PROVE  Singles'
<1>0. \A case \in Cases : cases[case] \in Nat /\ Single(case)
  BY DEF Types, Singles
<1>1. ASSUME NEW touched \in (SUBSET Cases) \ {{}}, Write(w, touched)
      PROVE  Singles'
  <2>1. /\ \A v \in Writers \ {w} : writer'[v] = writer[v]
        /\ writer'[w].phase = "written" /\ Once(writer'[w].outbox)
    BY <1>1, WriteIs
  <2>2. UNCHANGED <<cases, wire, counted>>
    BY <1>1 DEF Write, stream, screen
  <2>3. ASSUME NEW case \in Cases
        PROVE  Single(case)'
    <3>1. ~ Holds(w, case)'
      BY <2>1 DEF Holds
    <3> QED
      BY <1>0, <2>1, <2>2, <3>1, HoldsLess, SingleLess
  <2> QED
    BY <2>1, <2>2, <2>3 DEF Singles
<1>2. CASE Commit(w)
  <2> DEFINE outbox == writer[w].outbox
  <2>1. /\ outbox \in Seq(Event) /\ writer[w].phase = "written" /\ writer'[w].outbox = outbox
        /\ \A v \in Writers \ {w} : writer'[v] = writer[v]
        /\ \A case \in Cases : New(case) \in Range(outbox) => cases[case] = 0
        /\ \A case \in Cases : /\ cases'[case] >= cases[case] /\ cases'[case] \in Nat
                               /\ case \in CasesOf(outbox) => cases'[case] > 0
    BY <1>2, CommitIs
  <2>2. UNCHANGED <<wire, counted>>
    BY <1>2 DEF Commit, stream, screen
  <2>3. \A v \in Writers : writer'[v].outbox = writer[v].outbox
    BY <2>1
  <2> HIDE DEF outbox
  <2>4. ASSUME NEW case \in Cases, New(case) \in Range(outbox)
        PROVE  Single(case)'
    <3>1. cases[case] = 0 /\ ~ (cases[case] > 0)
      BY <2>1, <2>4
    <3>2. New(case) \notin Range(wire) /\ case \notin counted /\ \A v \in Writers : ~ Holds(v, case)
      BY <1>0, <3>1 DEF Single
    <3>3. cases'[case] > 0
      <4>1. New(case).case = case
        BY DEF New
      <4> QED
        BY <2>1, <2>4, <4>1, CasesOfIs
    <3>4. \A v \in Writers : Holds(v, case)' => v = w
      BY <2>1, <3>2 DEF Holds
    <3> QED
      BY <2>2, <3>2, <3>3, <3>4 DEF Single
  <2>5. ASSUME NEW case \in Cases, New(case) \notin Range(outbox)
        PROVE  Single(case)'
    <3>1. ~ Holds(w, case)'
      BY <2>1, <2>5 DEF Holds
    <3> QED
      BY <1>0, <2>1, <2>2, <3>1, HoldsLess, SingleLess
  <2> QED
    BY <2>2, <2>3, <2>4, <2>5 DEF Singles
<1>3. CASE Fails(w) \/ Crash(w)
  <2>1. /\ \A v \in Writers \ {w} : writer'[v] = writer[v]
        /\ writer'[w].phase = "idle" /\ Once(writer'[w].outbox)
    BY <1>3, NoWriterIs DEF Fails, Crash
  <2>2. UNCHANGED <<cases, wire, counted>>
    BY <1>3 DEF Fails, Crash, stream, screen
  <2>3. ASSUME NEW case \in Cases
        PROVE  Single(case)'
    <3>1. ~ Holds(w, case)'
      BY <2>1 DEF Holds
    <3> QED
      BY <1>0, <2>1, <2>2, <3>1, HoldsLess, SingleLess
  <2> QED
    BY <2>1, <2>2, <2>3 DEF Singles
<1>4. CASE PublishFails(w)
  <2>1. UNCHANGED <<cases, wire, counted>>
    BY <1>4 DEF PublishFails, stream, screen
  <2>2. /\ \A v \in Writers : Once(writer'[v].outbox)
        /\ \A case \in Cases : \A v \in Writers : Holds(v, case)' => Holds(v, case)
    BY <1>4, PublishHolds DEF PublishFails
  <2>3. \A case \in Cases : Single(case)'
    BY <1>0, <2>1, <2>2, SingleLess
  <2> QED
    BY <2>1, <2>2, <2>3 DEF Singles
<1>5. CASE Publish(w)
  <2> DEFINE event == Head(writer[w].outbox)
  <2>1. UNCHANGED <<cases, counted>> /\ event \in Event /\ wire \in Seq(Event) /\ Once(wire)
    BY <1>5, PublishedIs DEF Publish, screen, Types, Singles
  <2>2. wire' = wire \/ wire' = Append(wire, event)
    BY <1>5 DEF Publish
  <2>3. /\ \A v \in Writers : Once(writer'[v].outbox)
        /\ \A case \in Cases : \A v \in Writers : Holds(v, case)' => Holds(v, case)
        /\ \A case \in Cases : event = New(case) => Holds(w, case) /\ \A v \in Writers : ~ Holds(v, case)'
    BY <1>5, PublishHolds DEF Publish
  <2> HIDE DEF event
  <2>4. CASE wire' = wire
    <3>1. \A case \in Cases : Single(case)'
      BY <1>0, <2>1, <2>3, <2>4, SingleLess
    <3> QED
      BY <2>1, <2>3, <2>4, <3>1 DEF Singles
  <2>5. CASE wire' = Append(wire, event)
    <3>1. Range(wire') = Range(wire) \cup {event}
      BY <2>1, <2>5, RangeAppend
    <3>2. Once(wire')
      <4>1. ASSUME event.kind = "created"
            PROVE  event \notin Range(wire)
        <5>1. event = New(event.case) /\ event.case \in Cases
          BY <2>1, <4>1 DEF Event, New
        <5>2. Holds(w, event.case)
          BY <2>3, <5>1
        <5>3. New(event.case) \notin Range(wire)
          BY <1>0, <5>1, <5>2 DEF Single
        <5> QED
          BY <5>1, <5>3
      <4> QED
        BY <2>1, <2>5, <4>1, OnceAppend
    <3>3. ASSUME NEW case \in Cases, event = New(case)
          PROVE  Single(case)'
      <4>1. Holds(w, case) /\ \A v \in Writers : ~ Holds(v, case)'
        BY <2>3, <3>3
      <4>2. cases[case] > 0 /\ case \notin counted
        BY <1>0, <4>1 DEF Single
      <4> QED
        BY <2>1, <4>1, <4>2 DEF Single
    <3>4. ASSUME NEW case \in Cases, event # New(case)
          PROVE  Single(case)'
      BY <1>0, <2>1, <2>3, <3>1, <3>4, SingleLess
    <3> QED
      BY <2>3, <3>2, <3>3, <3>4 DEF Singles
  <2> QED
    BY <2>2, <2>4, <2>5
<1> QED
  BY <1>1, <1>2, <1>3, <1>4, <1>5 DEF Writes

LEMMA SinglesNext ==
  ASSUME Types, Singles, [Next]_vars
  PROVE  Singles'
<1>0. \A case \in Cases : cases[case] \in Nat /\ Single(case)
  BY DEF Types, Singles
<1>1. CASE Receive
  <2> DEFINE event == Head(wire)
  <2>1. UNCHANGED <<cases, writer>> /\ wire' = Tail(wire)
    BY <1>1 DEF Receive
  <2>2. /\ wire # << >> /\ event \in Event /\ event \in Range(wire) /\ Range(wire) = {event} \cup Range(wire')
        /\ event.kind = "created" => event = New(event.case)
    BY <1>1, ReceiveIs
  <2>3. Once(wire') /\ (event.kind = "created" => event \notin Range(wire'))
    BY <2>1, <2>2, OnceTail DEF Types, Singles
  <2>4. counted' = IF event.kind = "created" THEN counted \cup {event.case} ELSE counted
    BY <1>1 DEF Receive
  <2> HIDE DEF event
  <2>5. ASSUME NEW case \in Cases, event = New(case)
        PROVE  Single(case)'
    <3>1. event.kind = "created" /\ event.case = case
      BY <2>5 DEF New
    <3>2. New(case) \in Range(wire) /\ New(case) \notin Range(wire')
      BY <2>2, <2>3, <2>5, <3>1
    <3>3. cases[case] > 0 /\ \A v \in Writers : ~ Holds(v, case)
      BY <1>0, <3>2 DEF Single
    <3>4. \A v \in Writers : ~ Holds(v, case)'
      BY <2>1, <3>3 DEF Holds
    <3> QED
      BY <2>1, <3>2, <3>3, <3>4 DEF Single
  <2>6. ASSUME NEW case \in Cases, event # New(case)
        PROVE  Single(case)'
    <3>1. event.kind = "created" => event.case # case
      BY <2>2, <2>6
    <3>2. case \in counted' => case \in counted
      BY <2>4, <3>1
    <3>3. \A v \in Writers : Holds(v, case)' => Holds(v, case)
      BY <2>1 DEF Holds
    <3> QED
      BY <1>0, <2>1, <2>2, <3>2, <3>3, SingleLess
  <2> QED
    BY <2>1, <2>3, <2>5, <2>6 DEF Singles
<1>2. CASE Merge
  <2>1. UNCHANGED <<cases, writer, wire>> /\ counted' = {}
    BY <1>2 DEF Merge, ListBecomes, stream
  <2>2. \A case \in Cases : \A v \in Writers : Holds(v, case)' => Holds(v, case)
    BY <2>1 DEF Holds
  <2>3. \A case \in Cases : Single(case)'
    BY <1>0, <2>1, <2>2, SingleLess
  <2> QED
    BY <2>1, <2>3 DEF Singles
<1>3. CASE Breaks
  <2>1. UNCHANGED <<cases, writer, counted>> /\ wire' = << >>
    BY <1>3 DEF Breaks, screen
  <2>2. \A case \in Cases : \A v \in Writers : Holds(v, case)' => Holds(v, case)
    BY <2>1 DEF Holds
  <2>3. Range(wire') = {} /\ Once(wire')
    BY <2>1, EmptyIs
  <2>4. \A case \in Cases : Single(case)'
    BY <1>0, <2>1, <2>2, <2>3, SingleLess
  <2> QED
    BY <2>1, <2>3, <2>4 DEF Singles
<1>4. CASE Quiet
  <2>1. UNCHANGED <<cases, writer, wire, counted>>
    BY <1>4, QuietKeeps
  <2>2. \A case \in Cases : \A v \in Writers : Holds(v, case)' => Holds(v, case)
    BY <2>1 DEF Holds
  <2>3. \A case \in Cases : Single(case)'
    BY <1>0, <2>1, <2>2, SingleLess
  <2> QED
    BY <2>1, <2>3 DEF Singles
<1> QED
  BY <1>1, <1>2, <1>3, <1>4, WritesSingles, NextIs

LEMMA PillNext ==
  ASSUME Types, Singles, PillCountsEachOnce, [Next]_vars
  PROVE  PillCountsEachOnce'
<1>1. IsFiniteSet(counted) /\ counted \in SUBSET Scope
  BY ConstantFacts, FS_Subset DEF Types
<1>2. CASE Receive
  <2>1. CASE Head(wire).kind = "created"
    <3> DEFINE case == Head(wire).case
    <3>1. pending' = pending + 1 /\ counted' = counted \cup {case}
      BY <1>2, <2>1 DEF Receive
    <3>2. New(case) \in Range(wire) /\ case \in Cases
      BY <1>2, <2>1, ReceiveIs, ConstantFacts
    <3>3. case \notin counted
      BY <3>2 DEF Singles, Single
    <3> HIDE DEF case
    <3> QED
      BY <1>1, <3>1, <3>3, FS_AddElement DEF PillCountsEachOnce
  <2>2. CASE Head(wire).kind # "created"
    BY <1>2, <2>2 DEF Receive, PillCountsEachOnce
  <2> QED
    BY <2>1, <2>2
<1>3. CASE Merge
  BY <1>3, FS_EmptySet DEF Merge, PillCountsEachOnce
<1>4. CASE Breaks \/ Quiet
  BY <1>4, QuietKeeps DEF Breaks, screen, PillCountsEachOnce
<1>5. ASSUME NEW w \in Writers, Writes(w)
      PROVE  PillCountsEachOnce'
  BY <1>5 DEF Writes, Write, Commit, Fails, Publish, PublishFails, Crash, screen, PillCountsEachOnce
<1> QED
  BY <1>2, <1>3, <1>4, <1>5, NextIs

-----------------------------------------------------------------------------
(* The pane *)

(* As long as the details of a case stay, it has an event under way, or one *)
(* that was dropped or used up, or neither and is as it was.                *)
LEMMA FreshStays ==
  ASSUME NEW case \in Scope, Fresh, detail'[case] = detail[case],
         Heard(case)' => Heard(case) /\ cases'[case] = cases[case]
  PROVE  (Heard(case) => FreshOf(case))'
BY DEF Fresh, FreshOf

LEMMA HeardStays ==
  ASSUME NEW case \in Scope, used' = used, Heard(case)',
         \/ Announced(case)' \/ case \in lost'
         \/ case \notin lost /\ ~Announced(case) /\ cases'[case] = cases[case]
  PROVE  Heard(case) /\ cases'[case] = cases[case]
BY DEF Heard

LEMMA MissedIs ==
  ASSUME NEW event \in Event
  PROVE  event.case \in Scope => event.case \in Missed(<<event>>)
<1>1. <<event>> \in Seq(Event) /\ Len(<<event>>) = 1 /\ <<event>>[1] = event
  OBVIOUS
<1>2. event \in Range(<<event>>)
  <2>1. 1 \in 1 .. Len(<<event>>)
    BY <1>1
  <2> QED
    BY <1>1, <2>1, RangeIs
<1> QED
  BY <1>2 DEF Missed, CasesOf

(* An event leaves an outbox for the wire, or is lost.                      *)
LEMMA PublishTells ==
  ASSUME Types, NEW w \in Writers, writer[w].phase = "publishing", Published(w), NEW case \in Cases,
         Announced(case),
         \A e \in Range(wire) : e \in Range(wire)'
  PROVE  Announced(case)' \/ case = Head(writer[w].outbox).case
<1>1. CASE case \in CasesOf(wire)
  <2>1. case \in CasesOf(wire)'
    BY <1>1 DEF CasesOf
  <2> QED
    BY <2>1 DEF Announced
<1>2. ASSUME NEW v \in Writers, v # w, writer[v].phase = "publishing", case \in CasesOf(writer[v].outbox)
      PROVE  Announced(case)'
  <2>1. writer'[v] = writer[v]
    BY <1>2, PublishedIs
  <2> QED
    BY <1>2, <2>1 DEF Announced, CasesOf
<1>3. ASSUME case \in CasesOf(writer[w].outbox), case # Head(writer[w].outbox).case
      PROVE  Announced(case)'
  <2>1. PICK e \in Range(writer[w].outbox) : e.case = case
    BY <1>3 DEF CasesOf
  <2>2. writer'[w].phase = "publishing" /\ e \in Range(writer'[w].outbox)
    BY <1>3, <2>1, PublishedIs
  <2> QED
    BY <2>1, <2>2 DEF Announced, CasesOf
<1> QED
  BY <1>1, <1>2, <1>3 DEF Announced

LEMMA WritesFresh ==
  ASSUME Types, Fresh, NEW w \in Writers, Writes(w)
  PROVE  Fresh'
<1>1. UNCHANGED <<detail, used>> /\ Scope \subseteq Cases
  BY ConstantFacts, WritesKeeps
<1> SUFFICES ASSUME NEW case \in Scope
             PROVE  \/ Announced(case)' \/ case \in lost'
                    \/ case \notin lost /\ ~Announced(case) /\ cases'[case] = cases[case]
  <2>1. ASSUME NEW case \in Scope
        PROVE  (Heard(case) => FreshOf(case))'
    <3>1. \/ Announced(case)' \/ case \in lost'
          \/ case \notin lost /\ ~Announced(case) /\ cases'[case] = cases[case]
      OBVIOUS
    <3>2. Heard(case)' => Heard(case) /\ cases'[case] = cases[case]
      BY <1>1, <3>1, HeardStays
    <3> QED
      BY <1>1, <3>2, FreshStays
  <2> QED
    BY <2>1 DEF Fresh
<1>2. ASSUME wire' = wire, \A v \in Writers \ {w} : writer'[v] = writer[v],
             writer[w].phase # "publishing", Announced(case)
      PROVE  Announced(case)'
  BY <1>2 DEF Announced, CasesOf
<1>3. ASSUME NEW touched \in (SUBSET Cases) \ {{}}, Write(w, touched)
      PROVE  \/ Announced(case)' \/ case \in lost'
             \/ case \notin lost /\ ~Announced(case) /\ cases'[case] = cases[case]
  <2>1. (\A v \in Writers \ {w} : writer'[v] = writer[v]) /\ writer[w].phase # "publishing"
    BY <1>3, WriteIs
  <2>2. UNCHANGED <<cases, wire, lost>>
    BY <1>3 DEF Write, stream
  <2> QED
    BY <1>2, <2>1, <2>2
<1>4. CASE Commit(w)
  <2>1. /\ \A v \in Writers \ {w} : writer'[v] = writer[v]
        /\ writer[w].phase # "publishing" /\ writer'[w].phase = "publishing"
        /\ writer'[w].outbox = writer[w].outbox
        /\ case \notin CasesOf(writer[w].outbox) => cases'[case] = cases[case]
    BY <1>1, <1>4, CommitIs
  <2>2. UNCHANGED <<wire, lost>>
    BY <1>4 DEF Commit, stream
  <2>3. CASE case \in CasesOf(writer[w].outbox)
    BY <2>1, <2>3 DEF Announced
  <2>4. CASE case \notin CasesOf(writer[w].outbox)
    BY <1>2, <2>1, <2>2, <2>4
  <2> QED
    BY <2>3, <2>4
<1>5. CASE Fails(w)
  <2>1. (\A v \in Writers \ {w} : writer'[v] = writer[v]) /\ writer[w].phase # "publishing"
    BY <1>5, NoWriterIs DEF Fails
  <2>2. UNCHANGED <<cases, wire, lost>>
    BY <1>5 DEF Fails, stream
  <2> QED
    BY <1>2, <2>1, <2>2
<1>6. CASE Crash(w)
  <2>1. \A v \in Writers \ {w} : writer'[v] = writer[v]
    BY <1>6, NoWriterIs DEF Crash
  <2>2. UNCHANGED <<cases, wire>> /\ lost' = lost \cup (CasesOf(writer[w].outbox) \cap Scope)
    BY <1>6 DEF Crash, stream, Missed
  <2>3. Announced(case) => Announced(case)' \/ case \in lost'
    BY <2>1, <2>2 DEF Announced, CasesOf
  <2> QED
    BY <2>2, <2>3
<1>7. CASE PublishFails(w)
  <2> DEFINE event == Head(writer[w].outbox)
  <2>0. event \in Event
    BY <1>7, PublishedIs DEF PublishFails
  <2>1. UNCHANGED <<cases, wire>> /\ lost' = lost \cup Missed(<<event>>)
    BY <1>7 DEF PublishFails, stream
  <2>2. Announced(case) => Announced(case)' \/ case = event.case
    BY <1>1, <1>7, <2>1, PublishTells DEF PublishFails
  <2> HIDE DEF event
  <2>3. case = event.case => case \in Missed(<<event>>)
    BY <2>0, MissedIs
  <2> QED
    BY <2>1, <2>2, <2>3
<1>8. CASE Publish(w)
  <2> DEFINE event == Head(writer[w].outbox)
  <2>0. event \in Event /\ wire \in Seq(Event)
    BY <1>8, PublishedIs DEF Publish, Types
  <2>1. /\ cases' = cases /\ lost \subseteq lost'
        /\ wire' = wire \/ wire' = Append(wire, event)
        /\ event.case \in Scope => wire' = Append(wire, event) \/ Missed(<<event>>) \subseteq lost'
    BY <1>8 DEF Publish
  <2> HIDE DEF event
  <2>3. wire' = Append(wire, event) => Range(wire') = Range(wire) \cup {event}
    BY <2>0, RangeAppend
  <2>4. Announced(case) => Announced(case)' \/ case = event.case
    <3>1. \A e \in Range(wire) : e \in Range(wire)'
      BY <2>1, <2>3
    <3> QED
      BY <1>1, <1>8, <3>1, PublishTells DEF Publish, event
  <2>5. ASSUME case = event.case
        PROVE  Announced(case)' \/ case \in lost'
    <3>1. CASE wire' = Append(wire, event)
      BY <2>3, <2>5, <3>1 DEF Announced, CasesOf
    <3>2. CASE Missed(<<event>>) \subseteq lost'
      BY <2>0, <2>5, <3>2, MissedIs
    <3> QED
      BY <2>1, <2>5, <3>1, <3>2
  <2> QED
    BY <2>1, <2>4, <2>5
<1> QED
  BY <1>3, <1>4, <1>5, <1>6, <1>7, <1>8 DEF Writes

(* A fetch of the event's case that had read it, and is not started over, uses *)
(* the event up; otherwise the details are invalidated or fetched.           *)
LEMMA ReceiveFresh ==
  ASSUME Types, Fresh, Receive
  PROVE  Fresh'
<1> DEFINE event == Head(wire)
<1>1. /\ UNCHANGED <<cases, writer, lost>> /\ used \subseteq used'
      /\ detail[event.case].phase = "read" /\ ~Refetch(event.case) => event.case \in used'
  BY DEF Receive, Refetch
<1>2. event \in Event /\ event.case \in Scope /\ Range(wire) = {event} \cup Range(wire')
  BY ReceiveIs
<1>3. \A case \in Scope :
        /\ detail'[case].has = detail[case].has /\ detail'[case].shown = detail[case].shown
        /\ detail'[case].snapshot = detail[case].snapshot
        /\ detail'[case].phase = IF Refetch(case) THEN "asked" ELSE detail[case].phase
        /\ detail'[case].invalid = detail[case].has
  BY ReceiveDetailIs
<1> HIDE DEF event
<1> SUFFICES ASSUME NEW case \in Scope, Heard(case)'
             PROVE  FreshOf(case)'
  BY DEF Fresh
<1>4. ~(detail'[case].phase = "idle" /\ detail'[case].has /\ ~detail'[case].invalid)
  BY <1>3
<1>5. ASSUME detail'[case].phase = "read"
      PROVE  detail'[case].snapshot = cases'[case]
  <2>1. detail[case].phase = "read" /\ ~Refetch(case)
    <3> HIDE DEF Refetch
    <3> QED
      BY <1>3, <1>5
  <2>2. case # event.case
    BY <1>1, <2>1 DEF Heard
  <2>3. Announced(case) => Announced(case)'
    BY <1>1, <1>2, <2>2 DEF Announced, CasesOf
  <2>4. Heard(case)
    BY <1>1, <2>3 DEF Heard
  <2>5. detail[case].snapshot = cases[case]
    BY <2>1, <2>4 DEF Fresh, FreshOf
  <2> QED
    BY <1>1, <1>3, <2>5
<1> QED
  BY <1>4, <1>5 DEF FreshOf

LEMMA PaneFresh ==
  ASSUME Types, Fresh, NEW case \in Scope, PaneSteps(case)
  PROVE  Fresh'
<1>1. UNCHANGED <<cases, writer, wire>>
  BY PaneKeeps
<1>2. \A other \in Scope : Announced(other)' <=> Announced(other)
  BY <1>1 DEF Announced, CasesOf
<1>3. ASSUME NEW other \in Scope, other # case
      PROVE  (Heard(other) => FreshOf(other))'
  <2>1. /\ detail'[other] = detail[other]
        /\ other \notin lost' => other \notin lost
        /\ other \notin used' => other \notin used
    BY <1>3, PaneStepIs
  <2>2. Heard(other)' => Heard(other)
    BY <1>2, <2>1 DEF Heard
  <2> QED
    BY <1>1, <2>1, <2>2, FreshStays
<1>4. (Heard(case) => FreshOf(case))'
  <2> SUFFICES ASSUME Heard(case)'
               PROVE  FreshOf(case)'
    OBVIOUS
  <2>1. CASE detail'[case].phase = "asked" \/ (detail'[case].phase = "idle" /\ ~detail'[case].has)
    BY <2>1 DEF FreshOf
  <2>2. CASE detail'[case].phase = "read" /\ detail'[case].snapshot = cases[case]
    BY <1>1, <2>2 DEF FreshOf
  <2>3. CASE UNCHANGED <<lost, used>> /\ detail'[case] = detail[case]
    <3>1. Heard(case)
      BY <1>2, <2>3 DEF Heard
    <3> QED
      BY <1>1, <2>3, <3>1, FreshStays
  <2>4. CASE /\ UNCHANGED <<lost, used>> /\ detail'[case].phase = "idle"
             /\ detail[case].phase = "read" /\ detail'[case].shown = detail[case].snapshot
    <3>1. Heard(case)
      BY <1>2, <2>4 DEF Heard
    <3>2. detail[case].snapshot = cases[case]
      BY <2>4, <3>1 DEF Fresh, FreshOf
    <3> QED
      BY <1>1, <2>4, <3>2 DEF FreshOf
  <2>5. CASE lost' = lost \cup {case}
    BY <2>5 DEF Heard
  <2> QED
    BY <2>1, <2>2, <2>3, <2>4, <2>5, PaneStepIs
<1> QED
  BY <1>3, <1>4 DEF Fresh

LEMMA FreshNext ==
  ASSUME Types, Fresh, [Next]_vars
  PROVE  Fresh'
<1>1. ASSUME UNCHANGED <<cases, writer, detail, used>>,
             \/ UNCHANGED <<wire, lost>>
             \/ lost' = lost \cup Missed(wire)
      PROVE  Fresh'
  <2>1. ASSUME NEW case \in Scope
        PROVE  (Heard(case) => FreshOf(case))'
    <3>1. Announced(case) => Announced(case)' \/ case \in lost'
      BY <1>1 DEF Announced, CasesOf, Missed
    <3>2. lost \subseteq lost'
      BY <1>1
    <3>3. Heard(case)' => Heard(case)
      BY <1>1, <3>1, <3>2 DEF Heard
    <3> QED
      BY <1>1, <3>3, FreshStays
  <2> QED
    BY <2>1 DEF Fresh
<1>2. CASE Merge
  BY <1>1, <1>2 DEF Merge, ListBecomes, stream
<1>3. CASE Breaks
  BY <1>1, <1>3 DEF Breaks, screen
<1>4. CASE Connects \/ ListSteps \/ ClosePane
  BY <1>1, <1>4, ConnectsKeeps, ListKeeps, CloseKeeps
<1>5. CASE UNCHANGED vars
  BY <1>1, <1>5 DEF vars, stream, screen
<1> QED
  BY <1>2, <1>3, <1>4, <1>5, ReceiveFresh, PaneFresh, WritesFresh, NextIs DEF Quiet

LEMMA AttendedNext ==
  ASSUME Types, Attended, [Next]_vars
  PROVE  Attended'
<1>1. ASSUME UNCHANGED <<detail, pane>>, lost \subseteq lost'
      PROVE  Attended'
  BY <1>1 DEF Attended, AttendedOf
<1>2. CASE Receive
  <2> SUFFICES ASSUME NEW case \in Scope
               PROVE  AttendedOf(case)'
    BY DEF Attended
  <2>1. pane' = pane
    BY <1>2 DEF Receive
  <2>2. detail'[case].phase = IF Refetch(case) THEN "asked" ELSE detail[case].phase
    BY <1>2, ReceiveDetailIs
  <2>3. pane = case /\ detail[case].phase = "idle" => Refetch(case)
    BY DEF Refetch, StartsOver
  <2> HIDE DEF Refetch
  <2> QED
    BY <2>1, <2>2, <2>3 DEF AttendedOf
<1>3. ASSUME NEW case \in Scope, PaneSteps(case)
      PROVE  Attended'
  <2>1. ASSUME NEW other \in Scope, other # case
        PROVE  AttendedOf(other)'
    <3>1. /\ detail'[other] = detail[other]
          /\ other \notin lost' => other \notin lost
          /\ pane' = other => pane = other
      BY <1>3, <2>1, PaneStepIs
    <3> QED
      BY <3>1 DEF Attended, AttendedOf
  <2>2. AttendedOf(case)'
    BY <1>3, PaneStepIs DEF Attended, AttendedOf
  <2> QED
    BY <2>1, <2>2 DEF Attended
<1>4. CASE ClosePane
  BY <1>4, CloseKeeps, ConstantFacts DEF Attended, AttendedOf
<1>5. CASE Merge
  BY <1>1, <1>5 DEF Merge, ListBecomes
<1>6. CASE Breaks
  BY <1>1, <1>6 DEF Breaks, screen
<1>7. CASE Connects \/ ListSteps
  BY <1>1, <1>7, ConnectsKeeps, ListKeeps
<1>8. CASE UNCHANGED vars
  BY <1>1, <1>8 DEF vars, screen
<1>9. ASSUME NEW w \in Writers, Writes(w)
      PROVE  Attended'
  <2>1. lost \subseteq lost'
    BY <1>9 DEF Writes, Write, Commit, Fails, Publish, PublishFails, Crash
  <2> QED
    BY <1>1, <1>9, <2>1, WritesKeeps
<1> QED
  BY <1>2, <1>3, <1>4, <1>5, <1>6, <1>7, <1>8, <1>9, NextIs DEF Quiet

-----------------------------------------------------------------------------
(* The list *)

LEMMA CasesGrow ==
  ASSUME Types, [Next]_vars
  PROVE  \A case \in Cases : cases[case] \in Nat /\ cases'[case] \in Nat /\ cases'[case] >= cases[case]
<1>0. \A case \in Cases : cases[case] \in Nat
  BY DEF Types
<1>1. ASSUME NEW w \in Writers, Writes(w)
      PROVE  \A case \in Cases : cases'[case] \in Nat /\ cases'[case] >= cases[case]
  <2>1. CASE Commit(w)
    BY <2>1, CommitIs
  <2>2. CASE ~Commit(w)
    <3>1. cases' = cases
      BY <1>1, <2>2 DEF Writes, Write, Fails, Publish, PublishFails, Crash
    <3> QED
      BY <1>0, <3>1
  <2> QED
    BY <2>1, <2>2
<1>2. CASE Quiet \/ Receive \/ Merge \/ Breaks
  <2>1. cases' = cases
    BY <1>2, QuietKeeps DEF Receive, Merge, ListBecomes, Breaks
  <2> QED
    BY <1>0, <2>1
<1> QED
  BY <1>0, <1>1, <1>2, NextIs

LEMMA OwedNext ==
  ASSUME Types, Singles, Owed, [Next]_vars
  PROVE  Owed'
<1>0. /\ list.owes \subseteq Cases /\ list.owes \subseteq Scope /\ list.owes \subseteq fits
      /\ counted \subseteq Cases /\ list \in Lists /\ fits \subseteq Scope
  BY ConstantFacts DEF Types, ListTypes, Lists
<1>1. \A case \in Cases : cases[case] \in Nat /\ cases'[case] \in Nat /\ cases'[case] >= cases[case]
  BY CasesGrow
<1>2. \A case \in list.owes : cases[case] > 0 /\ cases'[case] > 0
  <2> SUFFICES ASSUME NEW case \in list.owes
               PROVE  cases[case] > 0 /\ cases'[case] > 0
    OBVIOUS
  <2>1. cases[case] > 0 /\ cases[case] \in Nat /\ cases'[case] \in Nat /\ cases'[case] >= cases[case]
    BY <1>0, <1>1 DEF Owed
  <2> QED
    BY <2>1
<1>3. ASSUME list' = list
      PROVE  Owed'
  BY <1>2, <1>3 DEF Owed
<1>4. CASE Merge
  <2>1. /\ list'.owes \subseteq (list.owes \cup counted) \cap fits
        /\ cases' = cases /\ list'.phase # "idle"
        /\ list'.has => list'.phase = "asked" /\ list'.todo = Scope
    BY <1>4, MergeIs
  <2>2. \A case \in counted : cases[case] > 0
    BY <1>0 DEF Singles, Single
  <2> QED
    BY <1>0, <1>2, <2>1, <2>2 DEF Owed
<1>5. CASE Read
  <2>1. PICK page \in SUBSET list.todo : ListRead(page)
    BY <1>5 DEF Read
  <2>2. /\ list.phase = "asked" /\ list'.phase = IF page = list.todo THEN "read" ELSE "asked"
        /\ list'.has = list.has /\ list'.owes = list.owes /\ list'.todo = list.todo \ page
        /\ \A case \in Scope :
             list'.snapshot[case] = IF case \in page THEN Visible[case] ELSE list.snapshot[case]
    BY <2>1, ReadIs
  <2>3. \A case \in list.owes : Visible[case] > 0
    BY <1>0, <1>2, VisibleIs
  <2> HIDE DEF Visible
  <2>4. ASSUME NEW case \in list.owes, list.has
        PROVE  (list'.phase = "asked" /\ case \in list'.todo) \/ list'.snapshot[case] > 0
    <3>1. CASE case \in page
      BY <1>0, <2>2, <2>3, <3>1
    <3>2. CASE case \notin page /\ case \in list.todo
      BY <2>2, <3>2
    <3>3. CASE case \notin page /\ case \notin list.todo
      BY <1>0, <2>2, <2>4, <3>3 DEF Owed
    <3> QED
      BY <3>1, <3>2, <3>3
  <2> QED
    BY <1>2, <2>2, <2>4 DEF Owed
<1>6. ASSUME list'.owes = {}
      PROVE  Owed'
  BY <1>6 DEF Owed
<1>7. CASE Poll \/ LoadMore \/ ListShown \/ ListFails
  <2>1. CASE Poll
    <3>1. list' = FromTheTop({})
      BY <2>1 DEF Poll, ListBecomes
    <3>2. FromTheTop({}).owes = {}
      BY FromTheTopIs
    <3>3. list'.owes = {}
      BY <3>1, <3>2
    <3> QED
      BY <1>6, <3>3
  <2>2. CASE ListFails
    <3>1. list' = AtRest
      BY <2>2 DEF ListFails, ListBecomes
    <3>2. list'.owes = {}
      BY <3>1, AtRestIs
    <3> QED
      BY <1>6, <3>2
  <2> QED
    BY <1>6, <1>7, <2>1, <2>2, MoreIs, ShownIs
<1>8. ASSUME NEW w \in Writers, Writes(w)
      PROVE  Owed'
  <2>1. CASE Commit(w)
    <3>1. /\ list'.phase = list.phase /\ list'.has = list.has /\ list'.snapshot = list.snapshot
          /\ list'.owes \subseteq list.owes
          /\ \A case \in list'.owes : list.phase = "asked" /\ case \in list.todo => case \in list'.todo
      BY <2>1, CommitListIs
    <3> QED
      BY <1>2, <3>1 DEF Owed
  <2>2. CASE ~Commit(w)
    BY <1>3, <1>8, <2>2 DEF Writes, Write, Fails, Publish, PublishFails, Crash
  <2> QED
    BY <2>1, <2>2
<1>9. CASE Receive \/ Breaks \/ Connects \/ ClosePane \/ UNCHANGED vars
  BY <1>3, <1>9, ConnectsKeeps, CloseKeeps DEF Receive, Breaks, vars
<1>10. ASSUME NEW case \in Scope, PaneSteps(case)
       PROVE  Owed'
  BY <1>3, <1>10, PaneKeeps
<1> QED
  BY <1>4, <1>5, <1>7, <1>8, <1>9, <1>10, NextIs DEF Quiet, ListSteps

-----------------------------------------------------------------------------
(* The theorems *)

(* The strengthened invariant of one screen and the writers it hears from: a *)
(* creation is told in one place, details follow the events that came, and   *)
(* what a click of the pill is owed is still to be read or was read after it. *)
THEOREM LiveQueueInvariant == Spec => []IInv
<1>1. Init => IInv
  <2> SUFFICES ASSUME Init
               PROVE  IInv
    OBVIOUS
  <2>1. Types
    BY TypesInit
  <2>2. Singles
    <3>1. wire = << >> /\ \A w \in Writers : writer[w].phase = "idle" /\ writer[w].outbox = << >>
      BY DEF Init, NoWriter
    <3>2. counted = {}
      BY DEF Init
    <3> QED
      BY <3>1, <3>2, EmptyIs DEF Singles, Single, Holds
  <2>3. PillCountsEachOnce
    BY FS_EmptySet DEF Init, PillCountsEachOnce
  <2>4. Fresh /\ Attended
    BY DEF Init, NoDetail, Fresh, FreshOf, Attended, AttendedOf
  <2>5. Owed
    BY DEF Init, Owed
  <2> QED
    BY <2>1, <2>2, <2>3, <2>4, <2>5 DEF IInv
<1>2. IInv /\ [Next]_vars => IInv'
  BY TypesNext, SinglesNext, PillNext, FreshNext, AttendedNext, OwedNext DEF IInv
<1> QED
  BY <1>1, <1>2, PTL DEF Spec

(* Type correctness of the writers, the stream and the screen: the wire     *)
(* carries events of the token's tenants only (the filter of generate() in  *)
(* api/v1/stream.py), and the pill counts nothing else.                     *)
THEOREM TypeCorrect == Spec => []TypeOK
<1>1. IInv => TypeOK
  <2> SUFFICES ASSUME IInv
               PROVE  TypeOK
    OBVIOUS
  <2>1. ASSUME NEW w \in Writers
        PROVE  writer[w].phase \in {"idle", "written", "publishing"} /\ Range(writer[w].outbox) \subseteq Event
    <3>1. writer[w] \in Writer
      BY DEF IInv, Types
    <3> QED
      BY <3>1, RangeIs DEF Writer
  <2>2. Range(wire) \subseteq Event
    BY RangeIs DEF IInv, Types
  <2>3. list \in Lists /\ list.owes \subseteq fits /\ fits \subseteq Scope
    BY DEF IInv, Types, ListTypes
  <2>4. /\ list.todo \subseteq Scope /\ list.shown \in [Scope -> Nat] /\ list.snapshot \in [Scope -> Nat]
        /\ list.phase \in {"idle", "asked", "read"} /\ list.has \in BOOLEAN /\ list.more \in BOOLEAN
    BY <2>3 DEF Lists, Versions, Phases
  <2>5. /\ detail \in [Scope -> [has : BOOLEAN, shown : Nat, phase : {"idle", "asked", "read"},
                                 snapshot : Nat, invalid : BOOLEAN]]
        /\ pane \in Scope \cup {None}
    BY DEF IInv, Types, PaneTypes, Details, Phases
  <2> QED
    BY <2>1, <2>2, <2>3, <2>4, <2>5 DEF IInv, Types, TypeOK
<1> QED
  BY <1>1, LiveQueueInvariant, PTL

(* The number on the pill is the number of cases it stands for: the worker  *)
(* tells of a creation once, after the commit that made the case, and       *)
(* neither a reconnection, nor a crash of the writer, nor a batch that      *)
(* creates several cases counts one of them twice in one pill.              *)
THEOREM PillIsExact == Spec => []PillCountsEachOnce
BY LiveQueueInvariant, PTL DEF IInv

(* A details pane at rest shows the case as it is, unless an event of the   *)
(* case is still to come, was dropped, or came when a fetch that nothing     *)
(* starts over (the first of its details, or one of a pane that was closed)  *)
(* had read the case: a pane that has its details is never left with an event *)
(* a fetch from before the change has used up (useIncidentStream.ts:88).     *)
THEOREM PaneCurrent == Spec => []PaneIsCurrent
<1>1. IInv => PaneIsCurrent
  <2> SUFFICES ASSUME IInv, pane # None, pane \notin lost \cup used, ~Announced(pane),
                      detail[pane].phase = "idle", detail[pane].has
               PROVE  detail[pane].shown = cases[pane]
    BY DEF PaneIsCurrent
  <2>1. pane \in Scope
    BY DEF IInv, Types, PaneTypes
  <2>2. ~detail[pane].invalid
    BY <2>1 DEF IInv, Attended, AttendedOf
  <2> QED
    BY <2>1, <2>2 DEF IInv, Fresh, FreshOf, Heard
<1> QED
  BY <1>1, LiveQueueInvariant, PTL

(* Once the list has been loaded, a click on the pill brings in every case   *)
(* the pill counted, as far as the filters and the pages loaded let it        *)
(* through, unless the fetch fails and says so, "Load more" gives it up, or   *)
(* the case changes again meanwhile: every page of the fetch was read after   *)
(* the click, also when one was under way (invalidateQueries starts it over). *)
THEOREM MergeShows == Spec => MergeShowsTheNewCases
<1>1. IInv /\ [Next]_vars =>
        [\A case \in list.owes :
           list.has /\ list.phase = "read" /\ list'.phase = "idle" => list'.shown[case] > 0]_list
  <2> SUFFICES ASSUME IInv, [Next]_vars, list' # list, list.has, list.phase = "read", list'.phase = "idle",
                      NEW case \in list.owes
               PROVE  list'.shown[case] > 0
    OBVIOUS
  <2>0. Types
    BY DEF IInv
  <2>1. list.snapshot[case] > 0
    BY DEF IInv, Owed
  <2>2. ~Merge
    BY <2>0, MergeIs
  <2>3. ~Poll /\ ~LoadMore /\ ~Read /\ ~ListFails
    BY <2>0, MoreIs DEF Poll, Read, ListRead, ListFails
  <2>4. ASSUME NEW w \in Writers
        PROVE  ~Writes(w)
    <3>1. ~Commit(w)
      BY <2>0, CommitListIs
    <3> QED
      BY <3>1 DEF Writes, Write, Fails, Publish, PublishFails, Crash
  <2>5. ~Receive /\ ~Breaks /\ ~Connects /\ ~ClosePane /\ ~(UNCHANGED vars) /\ \A c \in Scope : ~PaneSteps(c)
    BY ConnectsKeeps, CloseKeeps, PaneKeeps DEF Receive, Breaks, vars
  <2>6. ListShown
    BY <2>2, <2>3, <2>4, <2>5, NextIs DEF Quiet, ListSteps
  <2> QED
    BY <2>0, <2>1, <2>6, ShownIs
<1> QED
  BY <1>1, LiveQueueInvariant, PTL DEF Spec, MergeShowsTheNewCases
=============================================================================
