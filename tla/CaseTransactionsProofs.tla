----------------------- MODULE CaseTransactionsProofs -----------------------
(***************************************************************************)
(* The proof that a fingerprint has one open case, for any number of        *)
(* sessions, cases and requests.  What the index guarantees is about rows   *)
(* that nobody can see yet, so the invariant is about what each session     *)
(* would leave: its own rows over the committed ones.                       *)
(***************************************************************************)
EXTENDS CaseTransactions, FiniteSetTheorems, TLAPS

OpenRow(row) == row # None /\ row.status \in OpenStatuses

(* What Columns makes of a row, for a session that is in a given state.     *)
Overlay(state, case, row) ==
  IF state.read[case] = None \/ row = None THEN state.written[case]
  ELSE [column \in DOMAIN row |->
          IF state.written[case][column] = state.read[case][column]
          THEN row[column] ELSE state.written[case][column]]

LEMMA ColumnsIs ==
  ASSUME NEW s, NEW case, NEW row
  PROVE  Columns(s, case, row) = Overlay(session[s], case, row)
BY DEF Columns, Overlay

(* The row of a case as a session in that state sees it                     *)
Row(state, case) ==
  IF case \in state.flushed THEN Overlay(state, case, incidents[case]) ELSE incidents[case]

Fields == {"phase", "at", "request", "list", "read", "written", "flushed", "absent"}

SessionOK(state) ==
  /\ state = [field \in Fields |-> state[field]]
  /\ state.list \in Seq(Cases) /\ IsInjective(state.list)
  /\ state.flushed \subseteq Cases
  /\ \A i \in DOMAIN state.list : state.list[i] \notin state.flushed
  /\ \A case \in state.flushed : case \in DOMAIN state.read /\ case \in DOMAIN state.written
  /\ state.phase \in {"read", "flush"} => state.list # << >>
  /\ state.phase = "flush" => Head(state.list) \in DOMAIN state.read
                              /\ Head(state.list) \in DOMAIN state.written

(* A session sees one open case of a fingerprint.                           *)
Single(state) ==
  \A a, b \in Cases :
    Fingerprint[a] = Fingerprint[b] /\ OpenRow(Row(state, a)) /\ OpenRow(Row(state, b)) => a = b

(* Sessions hold different rows, and where one has opened a case, the other *)
(* holds none of the fingerprint that is open.                              *)
Apart(one, other) ==
  /\ one.flushed \cap other.flushed = {}
  /\ \A a \in one.flushed, b \in other.flushed :
       Fingerprint[a] = Fingerprint[b] /\ OpenRow(Row(one, a)) /\ ~OpenRow(incidents[a])
         => ~OpenRow(incidents[b]) /\ ~OpenRow(Row(other, b))

SessionsOK ==
  /\ session = [s \in Sessions |-> session[s]]
  /\ \A s \in Sessions : SessionOK(session[s])

IInv ==
  /\ SessionsOK
  /\ Single(NoSession)
  /\ \A s \in Sessions : Single(session[s])
  /\ \A s, t \in Sessions : s # t => Apart(session[s], session[t])

-----------------------------------------------------------------------------
(* One session moves on and nothing is committed.                           *)

LEMMA NoSessionOK ==
  /\ SessionOK(NoSession)
  /\ NoSession.flushed = {}
  /\ \A other : Apart(NoSession, other) /\ Apart(other, NoSession)
<1>1. NoSession.flushed = {} /\ NoSession.list = << >>
  BY DEF NoSession
<1>2. SessionOK(NoSession)
  <2>1. NoSession = [field \in Fields |-> NoSession[field]] /\ NoSession.phase = "begin"
    BY DEF NoSession, Fields
  <2>2. << >> \in Seq(Cases) /\ IsInjective(<< >>) /\ DOMAIN << >> = {}
    BY DEF IsInjective
  <2> QED
    BY <1>1, <2>1, <2>2 DEF SessionOK
<1> QED
  BY <1>1, <1>2 DEF Apart

LEMMA Step ==
  ASSUME IInv, NEW s \in Sessions, NEW new, SessionOK(new), Becomes(s, new), UNCHANGED incidents,
         Single(new),
         \A t \in Sessions \ {s} : Apart(new, session[t]) /\ Apart(session[t], new)
  PROVE  IInv'
<1>1. /\ session' = [t \in Sessions |-> session'[t]]
      /\ \A t \in Sessions : session'[t] = IF t = s THEN new ELSE session[t]
  BY DEF IInv, SessionsOK, Becomes
<1>2. SessionsOK'
  BY <1>1 DEF IInv, SessionsOK, SessionOK
<1>3. \A t \in Sessions : Single(session'[t])
  BY <1>1 DEF IInv
<1>4. Single(NoSession)' /\ (\A t \in Sessions : Single(session[t])')
  BY <1>3 DEF IInv, Single, Row, Overlay
<1>5. \A t, u \in Sessions : t # u => Apart(session[t], session[u])'
  <2> SUFFICES ASSUME NEW t \in Sessions, NEW u \in Sessions, t # u
               PROVE  Apart(session[t], session[u])'
    OBVIOUS
  <2>1. Apart(session'[t], session'[u])
    BY <1>1 DEF IInv
  <2>2. \A case : /\ Row(session[t], case)' = Row(session'[t], case)
                  /\ Row(session[u], case)' = Row(session'[u], case)
    BY DEF Row, Overlay
  <2> QED
    BY <2>1, <2>2 DEF Apart
<1> QED
  BY <1>2, <1>4, <1>5 DEF IInv

(* It has written nothing since.                                            *)
LEMMA SameRowsStep ==
  ASSUME IInv, NEW s \in Sessions, NEW new, SessionOK(new), Becomes(s, new), UNCHANGED incidents,
         new.flushed = session[s].flushed,
         \A case \in new.flushed : /\ new.read[case] = session[s].read[case]
                                   /\ new.written[case] = session[s].written[case]
  PROVE  IInv'
<1>1. \A case : Row(new, case) = Row(session[s], case)
  BY DEF Row, Overlay
<1>2. Single(new)
  BY <1>1 DEF IInv, Single
<1>3. \A t \in Sessions \ {s} : Apart(new, session[t]) /\ Apart(session[t], new)
  BY <1>1 DEF IInv, Apart
<1> QED
  BY <1>2, <1>3, Step

(* It gives up.                                                             *)
LEMMA GiveUpStep ==
  ASSUME IInv, NEW s \in Sessions, Becomes(s, NoSession), UNCHANGED incidents
  PROVE  IInv'
BY NoSessionOK, Step DEF IInv

-----------------------------------------------------------------------------
LEMMA BeginKeeps ==
  ASSUME IInv, NEW s \in Sessions, NEW request \in Requests, Begin(s, request)
  PROVE  IInv'
<1> DEFINE new == [NoSession EXCEPT !.phase = "read", !.at = now, !.request = request,
                                    !.list = request.list]
<1>1. Becomes(s, new) /\ UNCHANGED incidents /\ session[s].flushed = {}
  BY NoSessionOK DEF Begin
<1>2. /\ new = [field \in Fields |-> new[field]]
      /\ new.phase = "read" /\ new.list = request.list /\ new.flushed = {}
  BY DEF NoSession, Fields
<1> HIDE DEF new
<1>3. SessionOK(new)
  BY <1>2, CaseTransactionsAssumption DEF SessionOK
<1> QED
  BY <1>1, <1>2, <1>3, SameRowsStep

LEMMA TailOK ==
  ASSUME NEW list \in Seq(Cases), list # << >>, IsInjective(list)
  PROVE  /\ Head(list) \in Cases /\ Tail(list) \in Seq(Cases) /\ IsInjective(Tail(list))
         /\ \A i \in DOMAIN Tail(list) :
              Tail(list)[i] # Head(list) /\ \E j \in DOMAIN list : Tail(list)[i] = list[j]
<1>1. /\ Tail(list) \in Seq(Cases) /\ Len(Tail(list)) = Len(list) - 1 /\ Len(list) \in Nat
      /\ \A i \in DOMAIN Tail(list) : Tail(list)[i] = list[i + 1]
      /\ Head(list) = list[1] /\ Len(list) > 0
  OBVIOUS
<1>2. \A i \in DOMAIN Tail(list) : i + 1 \in DOMAIN list /\ i + 1 # 1 /\ i \in Int
  BY <1>1
<1>3. 1 \in DOMAIN list
  BY <1>1
<1>4. IsInjective(Tail(list))
  BY <1>1, <1>2 DEF IsInjective
<1> QED
  BY <1>1, <1>2, <1>3, <1>4 DEF IsInjective

(* The case at the head of the list is not among those written, nor are the *)
(* ones behind it among those written once it is.                           *)
LEMMA HeadAndTail ==
  ASSUME NEW state, SessionOK(state), state.list # << >>
  PROVE  /\ Head(state.list) \in Cases /\ Head(state.list) \notin state.flushed
         /\ Tail(state.list) \in Seq(Cases) /\ IsInjective(Tail(state.list))
         /\ \A i \in DOMAIN Tail(state.list) :
              Tail(state.list)[i] \notin state.flushed \cup {Head(state.list)}
<1>1. Head(state.list) = state.list[1] /\ 1 \in DOMAIN state.list
  BY DEF SessionOK
<1>2. /\ state.list \in Seq(Cases) /\ IsInjective(state.list)
      /\ \A i \in DOMAIN state.list : state.list[i] \notin state.flushed
  BY DEF SessionOK
<1>3. /\ Head(state.list) \in Cases /\ Tail(state.list) \in Seq(Cases) /\ IsInjective(Tail(state.list))
      /\ \A i \in DOMAIN Tail(state.list) :
           /\ Tail(state.list)[i] # Head(state.list)
           /\ \E j \in DOMAIN state.list : Tail(state.list)[i] = state.list[j]
  <2>1. PICK list \in Seq(Cases) : list = state.list
    BY <1>2
  <2> QED
    BY <1>2, <2>1, TailOK
<1>4. \A i \in DOMAIN Tail(state.list) : Tail(state.list)[i] \notin state.flushed
  BY <1>2, <1>3
<1> QED
  BY <1>1, <1>2, <1>3, <1>4

LEMMA ReadKeeps ==
  ASSUME IInv, NEW s \in Analysts, Read(s)
  PROVE  IInv'
<1> DEFINE state == session[s]
           case  == Head(state.list)
           at    == IF state.request.kind = "bulk" THEN state.at ELSE now
           rest  == [state EXCEPT !.list = Tail(@), !.phase = IF Tail(state.list) = << >> THEN "commit" ELSE "read",
                                  !.absent = IF incidents[case] = None THEN @ \cup {case} ELSE @]
           taken == [state EXCEPT !.phase = "flush",
                       !.read = [c \in DOMAIN @ \cup {case} |-> IF c = case THEN incidents[case] ELSE @[c]],
                       !.written = [c \in DOMAIN @ \cup {case} |->
                                     IF c = case THEN Computed(state.request, incidents[case], at) ELSE @[c]]]
<1>1. s \in Sessions /\ SessionOK(state) /\ state.phase = "read" /\ UNCHANGED incidents
      /\ (Becomes(s, taken) \/ Becomes(s, rest))
  BY Zenon DEF IInv, SessionsOK, Sessions, Read
<1>2. state = [field \in Fields |-> state[field]] /\ state.list # << >>
  BY <1>1 DEF SessionOK
<1>3. /\ rest = [field \in Fields |-> rest[field]]
      /\ rest.list = Tail(state.list) /\ rest.read = state.read /\ rest.written = state.written
      /\ rest.flushed = state.flushed
      /\ rest.phase = "commit" \/ (rest.phase = "read" /\ Tail(state.list) # << >>)
  BY <1>2 DEF Fields
<1>4. /\ taken = [field \in Fields |-> taken[field]]
      /\ taken.list = state.list /\ taken.flushed = state.flushed /\ taken.phase = "flush"
      /\ DOMAIN taken.read = DOMAIN state.read \cup {case}
      /\ DOMAIN taken.written = DOMAIN state.written \cup {case}
      /\ \A c \in DOMAIN state.read : c # case => taken.read[c] = state.read[c]
      /\ \A c \in DOMAIN state.written : c # case => taken.written[c] = state.written[c]
  BY <1>2 DEF Fields
<1>5. /\ case \notin state.flushed
      /\ Tail(state.list) \in Seq(Cases) /\ IsInjective(Tail(state.list))
      /\ \A i \in DOMAIN Tail(state.list) : Tail(state.list)[i] \notin state.flushed
  BY <1>1, <1>2, HeadAndTail
<1>6. /\ state.list \in Seq(Cases) /\ IsInjective(state.list)
      /\ state.flushed \subseteq Cases
      /\ \A i \in DOMAIN state.list : state.list[i] \notin state.flushed
      /\ \A c \in state.flushed : c \in DOMAIN state.read /\ c \in DOMAIN state.written
  BY <1>1 DEF SessionOK
<1>7. CASE Becomes(s, rest)
  <2> HIDE DEF rest, state, case
  <2>1. SessionOK(rest)
    BY <1>3, <1>5, <1>6 DEF SessionOK
  <2> QED
    BY <1>1, <1>3, <1>7, <2>1, SameRowsStep DEF state
<1>8. CASE Becomes(s, taken)
  <2> HIDE DEF taken
  <2>1. SessionOK(taken)
    BY <1>2, <1>4, <1>6 DEF SessionOK
  <2>2. \A c \in taken.flushed : taken.read[c] = state.read[c] /\ taken.written[c] = state.written[c]
    BY <1>4, <1>5, <1>6
  <2> QED
    BY <1>1, <1>4, <1>8, <2>1, <2>2, SameRowsStep
<1> QED
  BY <1>1, <1>7, <1>8

LEMMA AlertKeeps ==
  ASSUME IInv, NEW s \in Workers, NEW fp, NEW level, Alert(s, fp, level)
  PROVE  IInv'
<1> DEFINE Opened(case, row) ==
             [NoSession EXCEPT !.phase = "flush", !.list = <<case>>,
                !.read = [c \in {case} |-> incidents[case]],
                !.written = [c \in {case} |-> row]]
<1>0. PICK case \in Cases : \E row : Becomes(s, Opened(case, row))
  BY Zenon DEF Alert
<1>1. PICK row : Becomes(s, Opened(case, row))
  BY <1>0, Zenon
<1> DEFINE new == [NoSession EXCEPT !.phase = "flush", !.list = <<case>>,
                     !.read = [c \in {case} |-> incidents[case]],
                     !.written = [c \in {case} |-> row]]
<1>2. /\ s \in Sessions /\ session[s] = NoSession /\ UNCHANGED incidents /\ Becomes(s, new)
  BY <1>1 DEF Alert, Sessions
<1>3. /\ new = [field \in Fields |-> new[field]]
      /\ new.list = <<case>> /\ new.flushed = {} /\ new.phase = "flush"
      /\ DOMAIN new.read = {case} /\ DOMAIN new.written = {case}
  BY DEF NoSession, Fields
<1>4. <<case>> \in Seq(Cases) /\ IsInjective(<<case>>) /\ <<case>> # << >> /\ Head(<<case>>) = case
  BY DEF IsInjective
<1> HIDE DEF new
<1>5. SessionOK(new)
  BY <1>3, <1>4 DEF SessionOK
<1> QED
  BY <1>2, <1>3, <1>5, NoSessionOK, SameRowsStep

(* The row goes out: the index has refused a second open case of the session's *)
(* own, and the wait has kept it from one that another session opens.          *)
LEMMA FlushKeeps ==
  ASSUME IInv, NEW s \in Sessions, Flush(s)
  PROVE  IInv'
<1> DEFINE state == session[s]
           case  == Head(state.list)
           new   == [state EXCEPT !.flushed = @ \cup {case}, !.list = Tail(@),
                       !.phase = IF Tail(state.list) = << >> THEN "commit" ELSE "read"]
<1>1. /\ SessionOK(state) /\ state.phase = "flush" /\ UNCHANGED incidents /\ Locked(case) = {}
      /\ Columns(s, case, incidents[case]).status \in OpenStatuses => ~IndexIsBusy(s, case)
      /\ Becomes(s, NoSession) \/ (~Conflicts(s, case) /\ Becomes(s, new))
  BY Zenon DEF IInv, SessionsOK, Flush
<1>2. state.list # << >> /\ state = [field \in Fields |-> state[field]]
  BY <1>1 DEF SessionOK
<1>3. /\ case \in Cases /\ case \notin state.flushed
      /\ Tail(state.list) \in Seq(Cases) /\ IsInjective(Tail(state.list))
      /\ \A i \in DOMAIN Tail(state.list) : Tail(state.list)[i] \notin state.flushed \cup {case}
  BY <1>1, <1>2, HeadAndTail
<1>4. /\ new = [field \in Fields |-> new[field]]
      /\ new.flushed = state.flushed \cup {case} /\ new.list = Tail(state.list)
      /\ new.read = state.read /\ new.written = state.written
      /\ new.phase = "commit" \/ (new.phase = "read" /\ Tail(state.list) # << >>)
  BY <1>2 DEF Fields
<1>5. CASE Becomes(s, NoSession)
  BY <1>1, <1>5, GiveUpStep
<1>6. ASSUME ~Conflicts(s, case), Becomes(s, new)
      PROVE  IInv'
  <2>1. /\ state.flushed \subseteq Cases /\ case \in DOMAIN state.read /\ case \in DOMAIN state.written
        /\ \A c \in state.flushed : c \in DOMAIN state.read /\ c \in DOMAIN state.written
    BY <1>1 DEF SessionOK
  <2> HIDE DEF new, state, case
  <2>2. SessionOK(new)
    BY <1>3, <1>4, <2>1 DEF SessionOK
  <2>3. /\ \A c : c # case => Row(new, c) = Row(state, c)
        /\ Row(state, case) = incidents[case]
        /\ Row(new, case) = Columns(s, case, incidents[case])
    BY <1>3, <1>4, ColumnsIs DEF Row, Overlay, state
  <2>4. \A t \in Sessions \ {s} : case \notin session[t].flushed
    BY <1>1 DEF Locked
  <2>5. ASSUME NEW t \in Sessions \ {s}, NEW other \in session[t].flushed,
               Fingerprint[other] = Fingerprint[case], OpenRow(Row(new, case))
        PROVE  ~OpenRow(incidents[other]) /\ ~OpenRow(Row(session[t], other))
    <3>1. other \in Cases
      BY DEF IInv, SessionsOK, SessionOK
    <3>2. ~IndexIsBusy(s, case)
      BY <1>1, <2>3, <2>5 DEF OpenRow
    <3>3. other \notin OpenOf(Fingerprint[other])
          /\ Columns(t, other, incidents[other]).status \notin OpenStatuses
      BY <2>5, <3>2 DEF IndexIsBusy
    <3>4. Row(session[t], other) = Columns(t, other, incidents[other])
      BY <2>5, ColumnsIs DEF Row
    <3> QED
      BY <3>1, <3>3, <3>4 DEF OpenOf, OpenRow
  <2>6. Single(new)
    <3>1. ASSUME NEW b \in Cases, b # case, Fingerprint[b] = Fingerprint[case],
                 OpenRow(Row(new, case)), OpenRow(Row(state, b))
          PROVE  FALSE
      <4>1. CASE OpenRow(incidents[case])
        BY <1>3, <2>3, <3>1, <4>1 DEF IInv, Single, state
      <4>2. CASE ~OpenRow(incidents[case])
        <5>1. OtherOpen(s, case)
          BY <3>1, ColumnsIs DEF OtherOpen, OpenRow, Row, state
        <5>2. Conflicts(s, case)
          BY <2>3, <3>1, <4>2, <5>1 DEF Conflicts, OpenRow
        <5> QED
          BY <1>6, <5>2
      <4> QED
        BY <4>1, <4>2
    <3> QED
      BY <2>3, <3>1 DEF IInv, Single, state
  <2>7. ASSUME NEW t \in Sessions \ {s}
        PROVE  Apart(new, session[t])
    <3>1. Apart(state, session[t])
      BY DEF IInv, state
    <3>2. new.flushed \cap session[t].flushed = {}
      BY <1>4, <2>4, <3>1 DEF Apart
    <3> QED
      BY <1>4, <2>3, <2>5, <3>1, <3>2 DEF Apart
  <2>8. ASSUME NEW t \in Sessions \ {s}
        PROVE  Apart(session[t], new)
    <3>1. Apart(session[t], state) /\ Single(session[t])
      BY DEF IInv, state
    <3>2. session[t].flushed \cap new.flushed = {} /\ session[t].flushed \subseteq Cases
      BY <1>4, <2>4, <3>1 DEF Apart, IInv, SessionsOK, SessionOK
    <3>3. ASSUME NEW a \in session[t].flushed, Fingerprint[a] = Fingerprint[case],
                 OpenRow(Row(session[t], a))
          PROVE  ~OpenRow(incidents[case]) /\ ~OpenRow(Row(new, case))
      <4>1. Row(session[t], case) = incidents[case] /\ a # case
        BY <2>4, <3>3 DEF Row
      <4> QED
        BY <1>3, <2>5, <3>1, <3>2, <3>3, <4>1 DEF Single
    <3> QED
      BY <1>4, <2>3, <3>1, <3>2, <3>3 DEF Apart
  <2> QED
    BY <1>1, <1>6, <2>2, <2>6, <2>7, <2>8, Step
<1> QED
  BY <1>1, <1>5, <1>6

(* What the session saw is what everybody sees.                             *)
LEMMA CommitKeeps ==
  ASSUME IInv, NEW s \in Sessions, Commit(s)
  PROVE  IInv'
<1>1. /\ incidents' = [case \in Cases |-> Row(session[s], case)]
      /\ session' = [session EXCEPT ![s] = NoSession]
  BY ColumnsIs DEF Commit, Row, Becomes
<1>2. \A case \in Cases : incidents'[case] = Row(session[s], case)
  BY <1>1
<1>3. /\ session' = [t \in Sessions |-> session'[t]]
      /\ session'[s] = NoSession
      /\ \A t \in Sessions \ {s} : session'[t] = session[t]
  BY <1>1 DEF IInv, SessionsOK
<1>4. SessionsOK'
  <2>1. \A t \in Sessions : SessionOK(session'[t])
    BY <1>3, NoSessionOK DEF IInv, SessionsOK
  <2> QED
    BY <1>3, <2>1 DEF SessionsOK, SessionOK
<1>5. Single(NoSession)'
  <2>1. \A case \in Cases : Row(NoSession, case)' = Row(session[s], case)
    BY <1>2, NoSessionOK DEF Row
  <2> QED
    BY <2>1 DEF IInv, Single
<1>6. ASSUME NEW t \in Sessions \ {s}, NEW case \in session[t].flushed
      PROVE  /\ case \in Cases /\ case \notin session[s].flushed /\ incidents'[case] = incidents[case]
             /\ Row(session[t], case)' = Row(session[t], case)
  <2>1. case \in Cases /\ case \notin session[s].flushed
    BY DEF IInv, Apart, SessionsOK, SessionOK
  <2>2. incidents'[case] = incidents[case]
    BY <1>2, <2>1 DEF Row
  <2>3. session'[t] = session[t]
    BY <1>3
  <2> QED
    BY <2>1, <2>2, <2>3 DEF Row, Overlay
<1>7. ASSUME NEW t \in Sessions \ {s}
      PROVE  Single(session[t])'
  <2>1. \A case \in Cases \ session[t].flushed : Row(session[t], case)' = Row(session[s], case)
    BY <1>2, <1>3 DEF Row
  <2>2. ASSUME NEW a \in session[t].flushed, NEW b \in Cases \ session[t].flushed,
               Fingerprint[a] = Fingerprint[b],
               OpenRow(Row(session[t], a)), OpenRow(Row(session[s], b))
        PROVE  FALSE
    <3>1. Row(session[t], b) = incidents[b] /\ a \in Cases /\ a # b
      BY <1>6 DEF Row
    <3>2. ~OpenRow(incidents[b])
      BY <2>2, <3>1 DEF IInv, Single
    <3>3. b \in session[s].flushed
      BY <2>2, <3>2 DEF Row
    <3> QED
      BY <2>2, <3>2, <3>3 DEF IInv, Apart
  <2>3. Single(session[s]) /\ Single(session[t])
    BY DEF IInv
  <2>4. ASSUME NEW a \in Cases, NEW b \in Cases, Fingerprint[a] = Fingerprint[b],
               OpenRow(Row(session[t], a)'), OpenRow(Row(session[t], b)')
        PROVE  a = b
    BY <1>6, <2>1, <2>2, <2>3, <2>4 DEF Single
  <2> QED
    BY <2>4 DEF Single, OpenRow
<1>8. ASSUME NEW t \in Sessions \ {s}, NEW u \in Sessions \ {s}, t # u
      PROVE  Apart(session[t], session[u])'
  <2>1. Apart(session[t], session[u]) /\ session'[t] = session[t] /\ session'[u] = session[u]
    BY <1>3, <1>8 DEF IInv
  <2>2. session[t].flushed' = session[t].flushed /\ session[u].flushed' = session[u].flushed
    BY <2>1
  <2> QED
    BY <1>6, <2>1, <2>2 DEF Apart, OpenRow
<1>9. \A t, u \in Sessions : t # u => Apart(session[t], session[u])'
  <2>1. ASSUME NEW t \in Sessions, NEW u \in Sessions, t # u, t = s \/ u = s
        PROVE  Apart(session[t], session[u])'
    BY <1>3, <2>1, NoSessionOK DEF Apart
  <2> QED
    BY <1>8, <2>1
<1>10. Single(session[s])'
  BY <1>3, <1>5 DEF Single, Row
<1> QED
  BY <1>4, <1>5, <1>7, <1>9, <1>10 DEF IInv

LEMMA NextKeeps ==
  ASSUME IInv, [Next]_vars
  PROVE  IInv'
<1>1. ASSUME UNCHANGED <<incidents, session>>
      PROVE  IInv'
  <2>1. SessionsOK'
    BY <1>1 DEF IInv, SessionsOK, SessionOK
  <2>2. \A state, case : Row(state, case)' = Row(state, case)
    BY <1>1 DEF Row, Overlay
  <2>3. Single(NoSession)'
    BY <1>1, <2>2 DEF IInv, Single
  <2>4. ASSUME NEW s \in Sessions
        PROVE  Single(session[s])'
    BY <1>1 DEF IInv, Single, Row, Overlay
  <2>5. ASSUME NEW s \in Sessions, NEW t \in Sessions, s # t
        PROVE  Apart(session[s], session[t])'
    <3>1. Apart(session[s], session[t])
      BY <2>5 DEF IInv
    <3> QED
      BY <1>1, <3>1 DEF Apart, Row, Overlay
  <2> QED
    BY <2>1, <2>3, <2>4, <2>5 DEF IInv
<1>2. CASE Tick
  BY <1>1, <1>2 DEF Tick
<1>3. CASE UNCHANGED vars
  BY <1>1, <1>3 DEF vars
<1>4. ASSUME NEW s \in Sessions, Fails(s)
      PROVE  IInv'
  BY <1>4, GiveUpStep DEF Fails
<1>5. ASSUME NEW s \in Analysts, (\E request \in Requests : Begin(s, request)) \/ Read(s)
      PROVE  IInv'
  BY <1>5, BeginKeeps, ReadKeeps DEF Sessions
<1>6. ASSUME NEW s \in Workers, NEW fp, NEW level, Alert(s, fp, level)
      PROVE  IInv'
  BY <1>6, AlertKeeps
<1>7. ASSUME NEW s \in Sessions, Flush(s) \/ Commit(s) \/ Fails(s)
      PROVE  IInv'
  BY <1>4, <1>7, FlushKeeps, CommitKeeps
<1>8. CASE Next
  BY <1>2, <1>5, <1>6, <1>7, <1>8, Zenon DEF Next
<1> QED
  BY <1>3, <1>8

LEMMA InitHolds ==
  ASSUME Init
  PROVE  IInv
<1>1. \A s \in Sessions : session[s] = NoSession
  BY DEF Init
<1>2. Single(NoSession)
  BY NoSessionOK DEF Init, Single, Row, OpenRow
<1> QED
  BY <1>1, <1>2, NoSessionOK DEF IInv, SessionsOK, Init

-----------------------------------------------------------------------------
(* No two open cases of one fingerprint, whatever reopens, bulk changes and *)
(* new alerts commit beside each other: the partial unique index            *)
(* incidents_open_fingerprint_uq, with the rows its own waits let through.  *)
THEOREM OneOpen == Spec => []OneOpenCase
<1>1. ASSUME IInv
      PROVE  OneOpenCase
  <2> SUFFICES ASSUME NEW fp
               PROVE  Cardinality(OpenOf(fp)) <= 1
    BY DEF OneOpenCase
  <2>1. \A a, b \in OpenOf(fp) : a = b
    BY <1>1, NoSessionOK DEF IInv, Single, OpenOf, OpenRow, Row
  <2>2. CASE OpenOf(fp) = {}
    BY <2>2, FS_EmptySet
  <2>3. ASSUME NEW a \in OpenOf(fp)
        PROVE  Cardinality(OpenOf(fp)) <= 1
    <3>1. OpenOf(fp) = {a}
      BY <2>1
    <3> QED
      BY <3>1, FS_Singleton
  <2> QED
    BY <2>2, <2>3
<1> QED
  BY <1>1, InitHolds, NextKeeps, PTL DEF Spec

-----------------------------------------------------------------------------
(* What the handlers make of one row, at whatever time they took: bulk_update *)
(* takes it before it reads, so a hold may seem to begin after it.            *)

(* The stamps of a row follow its status.                                   *)
Steady(row) ==
  /\ row \in Incident
  /\ (row.paused_at # None) <=> (row.status = PausedStatus)
  /\ (row.closed_at # None) <=> (row.status \in ClosedStatuses)

SameHold(row, next) ==
  /\ next.status = row.status /\ next.closed_at = row.closed_at
  /\ next.paused_at = row.paused_at /\ next.paused_seconds = row.paused_seconds

(* The deadlines of an answered row move with the held time only.           *)
Frozen(row, next) ==
  row.first_response_at # None =>
    /\ next.first_response_at = row.first_response_at
    /\ next.respond_by = Pushed(row.respond_by, next.paused_seconds - row.paused_seconds)
    /\ next.resolve_by = Pushed(row.resolve_by, next.paused_seconds - row.paused_seconds)

LEMMA PushedAdds ==
  ASSUME NEW deadline \in OptionalTime, NEW one \in Int, NEW other \in Int
  PROVE  /\ Pushed(deadline, 0) = deadline /\ Pushed(deadline, one) \in OptionalTime
         /\ Pushed(Pushed(deadline, one), other) = Pushed(deadline, one + other)
BY SlaClockAssumption DEF Pushed, OptionalTime

LEMMA IncidentIs ==
  ASSUME NEW row \in Incident
  PROVE  /\ row.status \in Statuses /\ row.severity \in Nat /\ row.first_seen \in Int
         /\ row.respond_by \in OptionalTime /\ row.resolve_by \in OptionalTime
         /\ row.first_response_at \in OptionalTime /\ row.paused_at \in OptionalTime
         /\ row.paused_seconds \in Nat /\ row.closed_at \in OptionalTime
BY DEF Incident

LEMMA FrozenSame ==
  ASSUME NEW row \in Incident, NEW next \in Incident,
         next.paused_seconds = row.paused_seconds,
         row.first_response_at # None =>
           /\ next.first_response_at = row.first_response_at
           /\ next.respond_by = row.respond_by /\ next.resolve_by = row.resolve_by
  PROVE  Frozen(row, next)
<1>1. next.paused_seconds - row.paused_seconds = 0
  BY IncidentIs
<1> QED
  BY <1>1, IncidentIs, PushedAdds DEF Frozen

LEMMA FrozenTwice ==
  ASSUME NEW row \in Incident, NEW mid \in Incident, NEW next \in Incident,
         Frozen(row, mid), Frozen(mid, next)
  PROVE  Frozen(row, next)
<1> DEFINE one == mid.paused_seconds - row.paused_seconds
           other == next.paused_seconds - mid.paused_seconds
<1>1. one \in Int /\ other \in Int /\ one + other = next.paused_seconds - row.paused_seconds
  BY IncidentIs
<1>2. ASSUME row.first_response_at # None
      PROVE  /\ next.first_response_at = row.first_response_at
             /\ next.respond_by = Pushed(Pushed(row.respond_by, one), other)
             /\ next.resolve_by = Pushed(Pushed(row.resolve_by, one), other)
  BY <1>2 DEF Frozen
<1> HIDE DEF one, other
<1>3. \A deadline \in OptionalTime :
        Pushed(Pushed(deadline, one), other) = Pushed(deadline, next.paused_seconds - row.paused_seconds)
  BY <1>1, PushedAdds
<1>4. row.respond_by \in OptionalTime /\ row.resolve_by \in OptionalTime
  BY IncidentIs
<1> QED
  BY <1>2, <1>3, <1>4 DEF Frozen

LEMMA WholeSecondsIs ==
  ASSUME NEW ticks \in Int
  PROVE  WholeSeconds(ticks) \in Nat
<1>1. ticks % TicksPerSecond \in 0 .. TicksPerSecond - 1
  BY SlaClockAssumption
<1>2. ticks >= 0 => ticks % TicksPerSecond <= ticks
  BY SlaClockAssumption
<1> QED
  BY <1>1, <1>2, SlaClockAssumption DEF WholeSeconds

(* The first response is stamped once, and nothing else is touched.         *)
LEMMA MarkIs ==
  ASSUME NEW row \in Incident, NEW at \in Int
  PROVE  /\ MarkFirstResponse(row, at) \in Incident
         /\ SameHold(row, MarkFirstResponse(row, at)) /\ Frozen(row, MarkFirstResponse(row, at))
         /\ MarkFirstResponse(row, at).severity = row.severity
<1>1. /\ MarkFirstResponse(row, at) \in Incident
      /\ SameHold(row, MarkFirstResponse(row, at))
      /\ MarkFirstResponse(row, at).severity = row.severity
  BY DEF MarkFirstResponse, Incident, OptionalTime, SameHold
<1>2. row.first_response_at # None => MarkFirstResponse(row, at) = row
  BY DEF MarkFirstResponse
<1> QED
  BY <1>1, <1>2, FrozenSame DEF SameHold

(* A hold that ends pushes both deadlines by what it adds to the held time. *)
LEMMA ResumeIs ==
  ASSUME NEW row \in Incident, NEW at \in Int
  PROVE  /\ Resume(row, at) \in Incident /\ Frozen(row, Resume(row, at))
         /\ Resume(row, at).status = row.status /\ Resume(row, at).closed_at = row.closed_at
         /\ Resume(row, at).severity = row.severity
         /\ Resume(row, at).paused_at = None
<1>1. CASE row.paused_at = None
  BY <1>1, FrozenSame DEF Resume
<1>2. CASE row.paused_at # None
  <2> DEFINE held == WholeSeconds(at - row.paused_at)
  <2>1. held \in Nat
    BY <1>2, IncidentIs, WholeSecondsIs DEF OptionalTime
  <2>2. Resume(row, at) = [row EXCEPT !.respond_by     = Pushed(row.respond_by, held),
                                      !.resolve_by     = Pushed(row.resolve_by, held),
                                      !.paused_seconds = row.paused_seconds + held,
                                      !.paused_at      = None]
    BY <1>2 DEF Resume, Incident
  <2> HIDE DEF held
  <2>3. /\ Pushed(row.respond_by, held) \in OptionalTime /\ Pushed(row.resolve_by, held) \in OptionalTime
        /\ row.paused_seconds + held \in Nat /\ row.paused_seconds + held - row.paused_seconds = held
    <3>1. /\ row.respond_by \in OptionalTime /\ row.resolve_by \in OptionalTime
          /\ row.paused_seconds \in Nat /\ held \in Int
      BY <2>1, IncidentIs
    <3>2. Pushed(row.respond_by, held) \in OptionalTime /\ Pushed(row.resolve_by, held) \in OptionalTime
      BY <3>1, PushedAdds
    <3> QED
      BY <2>1, <3>1, <3>2
  <2>4. /\ Resume(row, at) \in Incident
        /\ Resume(row, at).status = row.status /\ Resume(row, at).closed_at = row.closed_at
        /\ Resume(row, at).severity = row.severity /\ Resume(row, at).paused_at = None
        /\ Resume(row, at).first_response_at = row.first_response_at
        /\ Resume(row, at).respond_by = Pushed(row.respond_by, held)
        /\ Resume(row, at).resolve_by = Pushed(row.resolve_by, held)
        /\ Resume(row, at).paused_seconds = row.paused_seconds + held
    BY <2>2, <2>3 DEF Incident, OptionalTime
  <2>5. Resume(row, at).paused_seconds - row.paused_seconds = held
    <3>1. row.paused_seconds \in Nat /\ Resume(row, at).paused_seconds = row.paused_seconds + held
      BY <2>4, IncidentIs
    <3> HIDE DEF Resume
    <3> QED
      BY <2>1, <3>1
  <2>6. Frozen(row, Resume(row, at))
    <3> HIDE DEF Resume
    <3> QED
      BY <2>4, <2>5, Zenon DEF Frozen
  <2> QED
    BY <2>4, <2>6
<1> QED
  BY <1>1, <1>2

(* apply_status_transition, whichever status follows whichever.             *)
LEMMA TransitionIs ==
  ASSUME NEW row, Steady(row), NEW status \in Statuses, status # row.status, NEW at \in Int
  PROVE  /\ Steady(ApplyStatusTransition(row, status, at))
         /\ ApplyStatusTransition(row, status, at).status = status
         /\ ApplyStatusTransition(row, status, at).severity = row.severity
         /\ Frozen(row, ApplyStatusTransition(row, status, at))
<1> DEFINE held   == HoldOrRelease(row, status, at)
           closed == CloseOrReopen(held, status, at)
           marked == AnswerBy(closed, status, at)
           next   == [marked EXCEPT !.status = status]
<1>0. row \in Incident /\ None \notin Int /\ at # None /\ at \in OptionalTime
  BY SlaClockAssumption DEF Steady, OptionalTime
<1>1. /\ held \in Incident /\ Frozen(row, held)
      /\ held.status = row.status /\ held.closed_at = row.closed_at /\ held.severity = row.severity
      /\ (held.paused_at # None) <=> (status = PausedStatus)
  <2>1. CASE row.status = PausedStatus
    <3>1. held = Resume(row, at)
      BY <2>1 DEF HoldOrRelease
    <3> HIDE DEF held
    <3> QED
      BY <1>0, <2>1, <3>1, ResumeIs
  <2>2. CASE row.status # PausedStatus /\ status = PausedStatus
    <3>1. held = [row EXCEPT !.paused_at = at]
      BY <2>2 DEF HoldOrRelease, Pause, Steady
    <3>2. /\ held \in Incident /\ held.paused_at = at
          /\ held.status = row.status /\ held.closed_at = row.closed_at /\ held.severity = row.severity
          /\ held.first_response_at = row.first_response_at /\ held.paused_seconds = row.paused_seconds
          /\ held.respond_by = row.respond_by /\ held.resolve_by = row.resolve_by
      BY <1>0, <3>1 DEF Incident
    <3> HIDE DEF held
    <3> QED
      BY <1>0, <2>2, <3>2, FrozenSame
  <2>3. CASE row.status # PausedStatus /\ status # PausedStatus
    <3>1. held = row
      BY <2>3 DEF HoldOrRelease
    <3> HIDE DEF held
    <3> QED
      BY <1>0, <2>3, <3>1, FrozenSame DEF Steady
  <2> QED
    BY <2>1, <2>2, <2>3
<1> HIDE DEF held
<1>2. /\ closed \in Incident /\ Frozen(held, closed)
      /\ closed.severity = held.severity /\ closed.paused_at = held.paused_at
      /\ (closed.closed_at # None) <=> (status \in ClosedStatuses)
  <2>1. CASE status \in ClosedStatuses
    <3>1. held.paused_at = None
      BY <1>1, <2>1 DEF PausedStatus, ClosedStatuses
    <3>2. closed = [held EXCEPT !.closed_at = at]
      BY <1>1, <2>1, <3>1 DEF CloseOrReopen, Resume, Incident
    <3>3. /\ closed \in Incident /\ closed.closed_at = at
          /\ closed.severity = held.severity /\ closed.paused_at = held.paused_at
          /\ closed.first_response_at = held.first_response_at /\ closed.paused_seconds = held.paused_seconds
          /\ closed.respond_by = held.respond_by /\ closed.resolve_by = held.resolve_by
      BY <1>0, <1>1, <3>2 DEF Incident
    <3> HIDE DEF closed
    <3> QED
      BY <1>0, <1>1, <2>1, <3>3, FrozenSame
  <2>2. CASE status \notin ClosedStatuses /\ row.status \in ClosedStatuses
    <3>1. closed = [held EXCEPT !.closed_at = None]
      BY <1>1, <2>2 DEF CloseOrReopen
    <3>2. /\ closed \in Incident /\ closed.closed_at = None
          /\ closed.severity = held.severity /\ closed.paused_at = held.paused_at
          /\ closed.first_response_at = held.first_response_at /\ closed.paused_seconds = held.paused_seconds
          /\ closed.respond_by = held.respond_by /\ closed.resolve_by = held.resolve_by
      BY <1>1, <3>1 DEF Incident, OptionalTime
    <3> HIDE DEF closed
    <3> QED
      BY <1>1, <2>2, <3>2, FrozenSame
  <2>3. CASE status \notin ClosedStatuses /\ row.status \notin ClosedStatuses
    <3>1. closed = held /\ held.closed_at = None
      BY <1>1, <2>3 DEF CloseOrReopen, Steady
    <3> HIDE DEF closed
    <3> QED
      BY <1>1, <2>3, <3>1, FrozenSame
  <2> QED
    BY <2>1, <2>2, <2>3
<1> HIDE DEF closed
<1>3. /\ marked \in Incident /\ Frozen(closed, marked)
      /\ marked.severity = closed.severity
      /\ marked.closed_at = closed.closed_at /\ marked.paused_at = closed.paused_at
  <2>1. marked = MarkFirstResponse(closed, at) \/ marked = closed
    BY DEF AnswerBy
  <2> HIDE DEF marked
  <2> QED
    BY <1>2, <2>1, MarkIs, FrozenSame DEF SameHold
<1> HIDE DEF marked
<1>4. /\ next \in Incident /\ next.status = status
      /\ next.severity = marked.severity
      /\ next.closed_at = marked.closed_at /\ next.paused_at = marked.paused_at
      /\ next.first_response_at = marked.first_response_at /\ next.paused_seconds = marked.paused_seconds
      /\ next.respond_by = marked.respond_by /\ next.resolve_by = marked.resolve_by
  BY <1>3 DEF Incident
<1>5. ApplyStatusTransition(row, status, at) = next
  BY DEF ApplyStatusTransition, held, closed, marked
<1> HIDE DEF next
<1>6. Frozen(marked, next)
  BY <1>3, <1>4, FrozenSame
<1>7. Frozen(row, next)
  BY <1>0, <1>1, <1>2, <1>3, <1>4, <1>6, FrozenTwice
<1> QED
  BY <1>1, <1>2, <1>3, <1>4, <1>5, <1>7 DEF Steady

(* The operators of IncidentClock at a given time, with this tenant's policy *)
LEMMA HandlersAre ==
  ASSUME NEW row, NEW at
  PROVE  /\ \A status : Handlers(at)!Transition(row, status) =
              IF status \in {None, row.status} THEN row ELSE ApplyStatusTransition(row, status, at)
         /\ \A assignee : Handlers(at)!Assign(row, assignee) =
              CASE assignee = "somebody" -> MarkFirstResponse([row EXCEPT !.assigned = TRUE], at)
                [] assignee = "nobody"   -> [row EXCEPT !.assigned = FALSE]
                [] OTHER                 -> row
         /\ \A band : Handlers(at)!ApplyOnEscalation(row, band) = ApplyOnEscalation(row, band)
         /\ \A severity : Handlers(at)!BandFor(Policy, severity) = BandFor(Policy, severity)
<1>1. \A status : Handlers(at)!ApplyStatusTransition(row, status, at) = ApplyStatusTransition(row, status, at)
  BY DEF ApplyStatusTransition, AnswerBy, CloseOrReopen, HoldOrRelease, Resume, Pause, MarkFirstResponse,
         WholeSeconds, Pushed, PausedStatus, ClosedStatuses,
         Handlers!ApplyStatusTransition, Handlers!AnswerBy, Handlers!CloseOrReopen, Handlers!HoldOrRelease,
         Handlers!Resume, Handlers!Pause, Handlers!MarkFirstResponse, Handlers!WholeSeconds,
         Handlers!Pushed, Handlers!PausedStatus, Handlers!ClosedStatuses
<1>2. \A status : Handlers(at)!Transition(row, status) =
              IF status \in {None, row.status} THEN row ELSE ApplyStatusTransition(row, status, at)
  BY <1>1 DEF Handlers!Transition
<1>3. \A assignee : Handlers(at)!Assign(row, assignee) =
              CASE assignee = "somebody" -> MarkFirstResponse([row EXCEPT !.assigned = TRUE], at)
                [] assignee = "nobody"   -> [row EXCEPT !.assigned = FALSE]
                [] OTHER                 -> row
  BY DEF Handlers!Assign, Handlers!MarkFirstResponse, MarkFirstResponse
<1>4. \A band : Handlers(at)!ApplyOnEscalation(row, band) = ApplyOnEscalation(row, band)
  BY DEF Handlers!ApplyOnEscalation, Handlers!WithDeadlines, ApplyOnEscalation, WithDeadlines
<1>5. \A severity : Handlers(at)!BandFor(Policy, severity) = BandFor(Policy, severity)
  BY DEF Handlers!BandFor, BandFor
<1> QED
  BY <1>2, <1>3, <1>4, <1>5

LEMMA BandIs ==
  ASSUME NEW severity \in Nat
  PROVE  BandFor(Policy, severity) \in SlaRow \cup {None}
BY CaseTransactionsAssumption DEF BandFor

LEMMA EscalationIs ==
  ASSUME NEW row, Steady(row), NEW band \in SlaRow \cup {None}
  PROVE  /\ Steady(ApplyOnEscalation(row, band)) /\ SameHold(row, ApplyOnEscalation(row, band))
         /\ ApplyOnEscalation(row, band).first_response_at = row.first_response_at
         /\ row.first_response_at # None => ApplyOnEscalation(row, band) = row
<1>1. CASE row.first_response_at # None \/ band = None
  BY <1>1 DEF ApplyOnEscalation, SameHold
<1>2. CASE row.first_response_at = None /\ band \in SlaRow
  <2> DEFINE respond == row.first_seen + band.respond + row.paused_seconds
             resolve == row.first_seen + band.resolve + row.paused_seconds
  <2>1. row \in Incident /\ respond \in OptionalTime /\ resolve \in OptionalTime
    BY <1>2, IncidentIs DEF Steady, SlaRow, OptionalTime
  <2>2. CASE band # None
    <3>1. ApplyOnEscalation(row, band) = [row EXCEPT !.respond_by = respond, !.resolve_by = resolve]
      BY <1>2, <2>2 DEF ApplyOnEscalation, WithDeadlines
    <3> HIDE DEF respond, resolve
    <3> QED
      BY <1>2, <2>1, <3>1 DEF Steady, SameHold, Incident
  <2> QED
    BY <1>1, <2>2
<1> QED
  BY <1>1, <1>2

LEMMA AssignIs ==
  ASSUME NEW row, Steady(row), NEW at \in Int, NEW assignee
  PROVE  LET next == Handlers(at)!Assign(row, assignee)
         IN Steady(next) /\ SameHold(row, next) /\ Frozen(row, next)
<1> DEFINE next == Handlers(at)!Assign(row, assignee)
           Set(value) == [row EXCEPT !.assigned = value]
<1>1. ASSUME NEW value \in BOOLEAN
      PROVE  /\ Set(value) \in Incident /\ SameHold(row, Set(value)) /\ Frozen(row, Set(value))
  <2>1. /\ Set(value) \in Incident /\ SameHold(row, Set(value))
        /\ Set(value).first_response_at = row.first_response_at
        /\ Set(value).respond_by = row.respond_by /\ Set(value).resolve_by = row.resolve_by
    BY DEF Steady, SameHold, Incident
  <2> HIDE DEF Set
  <2> QED
    BY <2>1, FrozenSame DEF Steady, SameHold
<1>2. next = MarkFirstResponse(Set(TRUE), at) \/ next = Set(FALSE) \/ next = row
  BY HandlersAre
<1> HIDE DEF Set, next
<1>3. CASE next = MarkFirstResponse(Set(TRUE), at)
  <2>1. next \in Incident /\ SameHold(Set(TRUE), next) /\ Frozen(Set(TRUE), next)
    BY <1>1, <1>3, MarkIs
  <2>2. Frozen(row, next)
    BY <1>1, <2>1, FrozenTwice DEF Steady
  <2> QED
    BY <1>1, <2>1, <2>2 DEF Steady, SameHold, next
<1>4. CASE next = Set(FALSE)
  BY <1>1, <1>4 DEF Steady, SameHold, next
<1>5. CASE next = row
  BY <1>5, FrozenSame DEF Steady, SameHold, next
<1> QED
  BY <1>2, <1>3, <1>4, <1>5 DEF next

LEMMA MovedIs ==
  ASSUME NEW row, Steady(row), NEW at \in Int, NEW status \in Statuses \cup {None}
  PROVE  LET next == Handlers(at)!Transition(row, status)
         IN /\ Steady(next) /\ Frozen(row, next)
            /\ status # None => next.status = status
<1>1. CASE status \in {None, row.status}
  <2>1. Handlers(at)!Transition(row, status) = row
    BY <1>1, HandlersAre
  <2> QED
    BY <1>1, <2>1, FrozenSame DEF Steady
<1>2. CASE status \notin {None, row.status}
  <2>1. Handlers(at)!Transition(row, status) = ApplyStatusTransition(row, status, at)
    BY <1>2, HandlersAre
  <2> QED
    BY <1>2, <2>1, TransitionIs
<1> QED
  BY <1>1, <1>2

LEMMA UpdatedIs ==
  ASSUME NEW row, Steady(row), NEW at \in Int, NEW status \in Statuses \cup {None},
         NEW severity \in Nat \cup {None}, NEW assignee
  PROVE  LET next == Handlers(at)!Updated(row, status, severity, assignee)
         IN /\ Steady(next) /\ Frozen(row, next)
            /\ status # None => next.status = status
<1> DEFINE assigned == Handlers(at)!Assign(row, assignee)
           rated    == IF severity = None THEN assigned ELSE [assigned EXCEPT !.severity = severity]
           moved    == Handlers(at)!Transition(rated, status)
           eased    == ApplyOnEscalation(moved, BandFor(Policy, moved.severity))
           next     == Handlers(at)!Updated(row, status, severity, assignee)
<1>1. Steady(assigned) /\ SameHold(row, assigned) /\ Frozen(row, assigned)
  BY AssignIs
<1>2. next = moved \/ next = eased
  <2>1. /\ Handlers(at)!ApplyOnEscalation(moved, BandFor(Policy, moved.severity)) = eased
        /\ Handlers(at)!BandFor(Policy, moved.severity) = BandFor(Policy, moved.severity)
    <3> HIDE DEF moved
    <3>1. \A band : Handlers(at)!ApplyOnEscalation(moved, band) = ApplyOnEscalation(moved, band)
      BY HandlersAre
    <3>2. \A level : Handlers(at)!BandFor(Policy, level) = BandFor(Policy, level)
      BY HandlersAre
    <3> QED
      BY <3>1, <3>2
  <2>2. \/ next = moved
        \/ next = Handlers(at)!ApplyOnEscalation(moved, Handlers(at)!BandFor(Policy, moved.severity))
    BY Zenon DEF Handlers!Updated
  <2> QED
    BY <2>1, <2>2
<1> HIDE DEF assigned
<1>3. Steady(rated) /\ SameHold(row, rated) /\ Frozen(row, rated)
  <2>1. CASE severity = None
    BY <1>1, <2>1
  <2>2. CASE severity \in Nat /\ severity # None
    <3>1. rated = [assigned EXCEPT !.severity = severity]
      BY <2>2
    <3> HIDE DEF rated
    <3>2. /\ rated \in Incident /\ SameHold(assigned, rated)
          /\ rated.first_response_at = assigned.first_response_at
          /\ rated.respond_by = assigned.respond_by /\ rated.resolve_by = assigned.resolve_by
      BY <1>1, <2>2, <3>1 DEF Steady, SameHold, Incident
    <3>3. Frozen(assigned, rated)
      BY <1>1, <3>2, FrozenSame DEF Steady, SameHold
    <3>4. Frozen(row, rated)
      BY <1>1, <3>2, <3>3, FrozenTwice DEF Steady
    <3> QED
      BY <1>1, <3>2, <3>4 DEF Steady, SameHold
  <2> QED
    BY <2>1, <2>2
<1> HIDE DEF rated
<1>4. Steady(moved) /\ Frozen(rated, moved) /\ (status # None => moved.status = status)
  BY <1>3, MovedIs
<1>5. Frozen(row, moved)
  BY <1>3, <1>4, FrozenTwice DEF Steady
<1> HIDE DEF moved
<1>6. /\ Steady(eased) /\ SameHold(moved, eased)
      /\ eased.first_response_at = moved.first_response_at
      /\ moved.first_response_at # None => eased = moved
  <2>1. moved.severity \in Nat
    BY <1>4, IncidentIs DEF Steady
  <2> QED
    BY <1>4, <2>1, BandIs, EscalationIs
<1> HIDE DEF eased
<1>7. Frozen(moved, eased)
  BY <1>4, <1>6, FrozenSame DEF Steady, SameHold
<1>8. Frozen(row, eased)
  BY <1>4, <1>5, <1>6, <1>7, FrozenTwice DEF Steady
<1> HIDE DEF next
<1>9. Steady(next) /\ Frozen(row, next) /\ (status # None => next.status = status)
  BY <1>2, <1>4, <1>5, <1>6, <1>8 DEF SameHold
<1> QED
  BY <1>9 DEF next

(* What a request makes of a row                                            *)
LEMMA ComputedIs ==
  ASSUME NEW row, Steady(row), NEW at \in Int, NEW request \in Requests
  PROVE  /\ Steady(Computed(request, row, at)) /\ Frozen(row, Computed(request, row, at))
         /\ request.status # None => Computed(request, row, at).status = request.status
<1>0. /\ request.kind \in {"patch", "bulk", "comment"}
      /\ request.status \in Statuses \cup {None} /\ request.severity \in Nat \cup {None}
      /\ request.kind = "comment" => request.status = None
  BY CaseTransactionsAssumption
<1>1. CASE request.kind = "comment"
  <2>1. Computed(request, row, at) = MarkFirstResponse(row, at)
    BY <1>1 DEF Computed
  <2> QED
    BY <1>0, <1>1, <2>1, MarkIs DEF Steady, SameHold
<1>2. CASE request.kind = "bulk"
  <2> DEFINE assigned == Handlers(at)!Assign(row, request.assignee)
             next     == Handlers(at)!Transition(assigned, request.status)
  <2>1. Computed(request, row, at) = next
    BY <1>2 DEF Computed
  <2>2. Steady(assigned) /\ Frozen(row, assigned)
    BY AssignIs
  <2> HIDE DEF assigned
  <2>3. Steady(next) /\ Frozen(assigned, next) /\ (request.status # None => next.status = request.status)
    BY <1>0, <2>2, MovedIs
  <2> HIDE DEF next
  <2> QED
    BY <2>1, <2>2, <2>3, FrozenTwice DEF Steady
<1>3. CASE request.kind = "patch"
  <2> DEFINE next == Handlers(at)!Updated(row, request.status, request.severity, request.assignee)
  <2>1. Computed(request, row, at) = next
    BY <1>3 DEF Computed
  <2>2. Steady(next) /\ Frozen(row, next) /\ (request.status # None => next.status = request.status)
    <3>1. PICK status \in Statuses \cup {None}, severity \in Nat \cup {None},
               assignee \in {request.assignee} :
            status = request.status /\ severity = request.severity /\ assignee = request.assignee
      BY <1>0
    <3> QED
      BY <3>1, UpdatedIs
  <2> HIDE DEF next
  <2> QED
    BY <2>1, <2>2
<1> QED
  BY <1>0, <1>1, <1>2, <1>3

(* and an alert that joins a case, or opens one.                            *)
LEMMA AttachedIs ==
  ASSUME NEW row, Steady(row), NEW at \in Int, NEW level \in Nat
  PROVE  LET next == Handlers(at)!Attached(row, at, level)
         IN Steady(next) /\ SameHold(row, next) /\ Frozen(row, next)
<1> DEFINE seen  == IF at < row.first_seen THEN [row EXCEPT !.first_seen = at] ELSE row
           rated == [seen EXCEPT !.severity = level]
           eased == ApplyOnEscalation(rated, BandFor(Policy, level))
           next  == Handlers(at)!Attached(row, at, level)
<1>1. next = seen \/ next = eased
  <2>1. /\ Handlers(at)!ApplyOnEscalation(rated, BandFor(Policy, level)) = eased
        /\ Handlers(at)!BandFor(Policy, level) = BandFor(Policy, level)
    <3> HIDE DEF rated
    <3> QED
      BY HandlersAre
  <2>2. \/ next = seen
        \/ next = Handlers(at)!ApplyOnEscalation(rated, Handlers(at)!BandFor(Policy, level))
    BY Zenon DEF Handlers!Attached
  <2> QED
    BY <2>1, <2>2
<1>2. /\ seen \in Incident /\ SameHold(row, seen) /\ seen.first_response_at = row.first_response_at
      /\ seen.respond_by = row.respond_by /\ seen.resolve_by = row.resolve_by
  BY DEF Steady, SameHold, Incident
<1> HIDE DEF seen
<1>3. /\ rated \in Incident /\ SameHold(seen, rated) /\ rated.first_response_at = seen.first_response_at
      /\ rated.respond_by = seen.respond_by /\ rated.resolve_by = seen.resolve_by
  BY <1>2 DEF SameHold, Incident
<1> HIDE DEF rated
<1>4. Steady(seen) /\ Steady(rated)
  BY <1>2, <1>3 DEF Steady, SameHold
<1>5. /\ Steady(eased) /\ SameHold(rated, eased)
      /\ eased.first_response_at = rated.first_response_at
      /\ rated.first_response_at # None => eased = rated
  BY <1>4, BandIs, EscalationIs
<1> HIDE DEF eased
<1>6. Frozen(row, seen)
  BY <1>2, FrozenSame DEF Steady, SameHold
<1>7. Frozen(row, eased)
  <2>1. eased \in Incident /\ row \in Incident /\ eased.paused_seconds = row.paused_seconds
    BY <1>2, <1>3, <1>5 DEF Steady, SameHold
  <2> QED
    BY <1>2, <1>3, <1>5, <2>1, FrozenSame
<1> HIDE DEF next
<1>8. Steady(next) /\ SameHold(row, next) /\ Frozen(row, next)
  BY <1>1, <1>2, <1>3, <1>4, <1>5, <1>6, <1>7 DEF SameHold
<1> QED
  BY <1>8 DEF next

LEMMA CreatedIs ==
  ASSUME NEW at \in Int, NEW level \in Nat
  PROVE  Steady(Handlers(at)!Created(Policy, at, level))
<1> DEFINE fresh == [ status |-> "new", severity |-> level, assigned |-> FALSE, first_seen |-> at,
                      respond_by |-> None, resolve_by |-> None, first_response_at |-> None,
                      paused_at |-> None, paused_seconds |-> 0, closed_at |-> None ]
           band  == BandFor(Policy, level)
           next  == Handlers(at)!Created(Policy, at, level)
<1>1. next = IF band = None THEN [fresh EXCEPT !.respond_by = None, !.resolve_by = None]
             ELSE [fresh EXCEPT !.respond_by = at + band.respond + 0, !.resolve_by = at + band.resolve + 0]
  <2>1. Handlers(at)!BandFor(Policy, level) = band
    BY HandlersAre
  <2> HIDE DEF band
  <2>2. next = Handlers(at)!ApplyOnCreate(fresh, band)
    BY <2>1 DEF Handlers!Created
  <2>3. fresh.first_seen = at
    OBVIOUS
  <2> HIDE DEF fresh, next
  <2> QED
    BY <2>2, <2>3 DEF Handlers!ApplyOnCreate, Handlers!WithDeadlines
<1>2. band \in SlaRow \cup {None}
  BY BandIs
<1> HIDE DEF band
<1>3. band # None => at + band.respond + 0 \in OptionalTime /\ at + band.resolve + 0 \in OptionalTime
  BY <1>2 DEF SlaRow, OptionalTime
<1>4. fresh \in Incident /\ fresh.paused_at = None /\ fresh.closed_at = None /\ fresh.status = "new"
  BY DEF Incident, Statuses, OpenStatuses, OptionalTime
<1> HIDE DEF fresh, next
<1>5. None \in OptionalTime
  BY DEF OptionalTime
<1>6. next \in Incident /\ next.paused_at = None /\ next.closed_at = None /\ next.status = "new"
  BY <1>1, <1>3, <1>4, <1>5 DEF Incident
<1>7. Steady(next)
  BY <1>6 DEF Steady, PausedStatus, ClosedStatuses
<1> QED
  BY <1>7 DEF next

-----------------------------------------------------------------------------
(* A case between those who have it in hand                                 *)

(* What a session is about to write of a case.  An insert is of a case      *)
(* nobody else knows; the worker leaves the hold alone; the hold of a case  *)
(* an analyst has in hand is as it was when he read it.                     *)
InHand(s, case) ==
  LET read    == session[s].read[case]
      written == session[s].written[case]
  IN /\ case \in Cases /\ case \in DOMAIN session[s].written /\ Steady(written)
     /\ read = None => /\ s \in Workers /\ incidents[case] = None
                       /\ \A t \in Sessions \ {s} : case \notin DOMAIN session[t].read
     /\ read # None => Steady(read) /\ incidents[case] # None /\ Frozen(read, written)
     /\ s \in Workers /\ read # None => SameHold(read, written)
     /\ s \in Analysts => /\ case \in Range(session[s].request.list) /\ SameHold(read, incidents[case])
                          /\ session[s].request.status # None => written.status = session[s].request.status

(* A case of the list is still to be read, or in hand, or was not there, or *)
(* is as the request asks.                                                  *)
Covered(s, case) ==
  \/ case \in Range(session[s].list) \cup session[s].flushed \cup session[s].absent
  \/ session[s].request.status = None
  \/ incidents[case] # None /\ incidents[case].status = session[s].request.status

Asking(s) ==
  session[s].phase # "begin" =>
    /\ session[s].request \in Requests /\ session[s].at \in Int
    /\ Range(session[s].list) \subseteq Range(session[s].request.list)
    /\ session[s].phase = "commit" => session[s].list = << >>
    /\ \A case \in Range(session[s].request.list) : Covered(s, case)

HInv ==
  /\ now \in Int
  /\ \A case \in Cases : incidents[case] = None \/ Steady(incidents[case])
  /\ \A s \in Sessions : \A case \in DOMAIN session[s].read : InHand(s, case)
  /\ \A s \in Sessions : session[s].phase = "begin" => session[s] = NoSession
  /\ \A s \in Analysts : Asking(s)

(* The columns of a row under another's changes                             *)
LEMMA MergedIs ==
  ASSUME NEW read \in Incident, NEW written \in Incident, NEW row \in Incident, NEW merged,
         merged = [column \in DOMAIN row |->
                     IF written[column] = read[column] THEN row[column] ELSE written[column]]
  PROVE  /\ merged \in Incident
         /\ merged.status = IF written.status = read.status THEN row.status ELSE written.status
         /\ merged.closed_at = IF written.closed_at = read.closed_at THEN row.closed_at ELSE written.closed_at
         /\ merged.paused_at = IF written.paused_at = read.paused_at THEN row.paused_at ELSE written.paused_at
         /\ merged.paused_seconds = IF written.paused_seconds = read.paused_seconds
                                    THEN row.paused_seconds ELSE written.paused_seconds
         /\ merged.first_response_at = IF written.first_response_at = read.first_response_at
                                       THEN row.first_response_at ELSE written.first_response_at
         /\ merged.respond_by = IF written.respond_by = read.respond_by THEN row.respond_by ELSE written.respond_by
         /\ merged.resolve_by = IF written.resolve_by = read.resolve_by THEN row.resolve_by ELSE written.resolve_by
<1> DEFINE Names == {"status", "severity", "assigned", "first_seen", "respond_by", "resolve_by",
                     "first_response_at", "paused_at", "paused_seconds", "closed_at"}
<1>1. DOMAIN row = Names
  BY DEF Incident
<1>2. /\ merged = [column \in Names |-> merged[column]]
      /\ \A column \in Names : merged[column] =
           IF written[column] = read[column] THEN row[column] ELSE written[column]
  BY <1>1
<1>3. \A column \in Names : merged[column] \in {row[column], written[column]}
  BY <1>2
<1>4. merged \in Incident
  BY <1>2, <1>3 DEF Incident
<1> QED
  BY <1>2, <1>4

(* What a session commits of a case it has written                          *)
LEMMA WrittenIs ==
  ASSUME IInv, HInv, NEW s \in Sessions, NEW case \in session[s].flushed
  PROVE  LET row == Columns(s, case, incidents[case])
         IN /\ case \in DOMAIN session[s].read /\ case \in Cases /\ InHand(s, case) /\ Steady(row)
            /\ s \in Workers /\ incidents[case] # None => SameHold(incidents[case], row)
            /\ s \in Analysts => SameHold(session[s].written[case], row)
<1> DEFINE read    == session[s].read[case]
           written == session[s].written[case]
           row     == Columns(s, case, incidents[case])
<1>1. case \in DOMAIN session[s].read /\ case \in Cases
  BY DEF IInv, SessionsOK, SessionOK
<1>2. InHand(s, case)
  BY <1>1 DEF HInv
<1>3. CASE read = None
  <2>1. row = written /\ Steady(written) /\ s \in Workers /\ incidents[case] = None
    BY <1>2, <1>3 DEF Columns, InHand
  <2>2. s \notin Analysts
    BY <2>1, CaseTransactionsAssumption
  <2> HIDE DEF row, written
  <2> QED
    BY <1>1, <1>2, <2>1, <2>2 DEF row, written
<1>4. CASE read # None
  <2>1. /\ Steady(read) /\ Steady(written) /\ incidents[case] # None /\ Steady(incidents[case])
        /\ s \in Workers => SameHold(read, written)
        /\ s \in Analysts => SameHold(read, incidents[case])
    BY <1>1, <1>2, <1>4 DEF InHand, HInv
  <2>2. row = [column \in DOMAIN incidents[case] |->
                 IF written[column] = read[column] THEN incidents[case][column] ELSE written[column]]
    BY <1>4, <2>1 DEF Columns
  <2> HIDE DEF row, written, read
  <2>3. /\ row \in Incident
        /\ row.status = IF written.status = read.status THEN incidents[case].status ELSE written.status
        /\ row.closed_at = IF written.closed_at = read.closed_at THEN incidents[case].closed_at ELSE written.closed_at
        /\ row.paused_at = IF written.paused_at = read.paused_at THEN incidents[case].paused_at ELSE written.paused_at
        /\ row.paused_seconds = IF written.paused_seconds = read.paused_seconds
                                THEN incidents[case].paused_seconds ELSE written.paused_seconds
    BY <2>1, <2>2, MergedIs DEF Steady
  <2>4. /\ s \in Workers => SameHold(incidents[case], row)
        /\ s \in Analysts => SameHold(written, row)
    BY <2>1, <2>3 DEF SameHold
  <2>5. s \in Workers \/ s \in Analysts
    BY DEF Sessions
  <2>6. Steady(row)
    BY <2>1, <2>3, <2>4, <2>5 DEF Steady, SameHold
  <2> QED
    BY <1>1, <1>2, <2>4, <2>6 DEF row, written
<1> QED
  BY <1>3, <1>4

LEMMA RangeHeadTail ==
  ASSUME NEW list \in Seq(Cases), list # << >>
  PROVE  Range(list) = {Head(list)} \cup Range(Tail(list))
<1>1. /\ Tail(list) \in Seq(Cases) /\ Len(Tail(list)) = Len(list) - 1 /\ Len(list) \in Nat /\ Len(list) > 0
      /\ \A i \in 1 .. Len(list) - 1 : Tail(list)[i] = list[i + 1]
      /\ Head(list) = list[1] /\ DOMAIN list = 1 .. Len(list) /\ DOMAIN Tail(list) = 1 .. Len(list) - 1
  OBVIOUS
<1>2. ASSUME NEW i \in DOMAIN list
      PROVE  list[i] = Head(list) \/ list[i] \in Range(Tail(list))
  <2>1. CASE i = 1
    BY <1>1, <2>1
  <2>2. CASE i # 1
    <3>1. i - 1 \in DOMAIN Tail(list) /\ Tail(list)[i - 1] = list[(i - 1) + 1] /\ (i - 1) + 1 = i
      BY <1>1, <2>2
    <3> QED
      BY <3>1 DEF Range
  <2> QED
    BY <2>1, <2>2
<1>3. ASSUME NEW i \in DOMAIN Tail(list)
      PROVE  Tail(list)[i] \in Range(list)
  <2>1. i + 1 \in DOMAIN list /\ Tail(list)[i] = list[i + 1]
    BY <1>1
  <2> QED
    BY <2>1 DEF Range
<1>4. 1 \in DOMAIN list
  BY <1>1
<1> QED
  BY <1>1, <1>2, <1>3, <1>4 DEF Range

(* One session moves on, nothing is committed, and what the others are      *)
(* about to insert it does not take in hand.                                *)
LEMMA HandsStep ==
  ASSUME IInv, HInv, NEW s \in Sessions, NEW new, Becomes(s, new), UNCHANGED <<now, incidents>>,
         \A case \in DOMAIN new.read : InHand(s, case)',
         \A t \in Sessions \ {s} : \A case \in DOMAIN session[t].read :
           session[t].read[case] = None => case \notin DOMAIN new.read,
         new.phase = "begin" => new = NoSession,
         s \in Analysts => Asking(s)'
  PROVE  HInv'
<1>1. session'[s] = new /\ \A t \in Sessions \ {s} : session'[t] = session[t]
  BY DEF IInv, SessionsOK, Becomes
<1>2. ASSUME NEW t \in Sessions \ {s}, NEW case \in DOMAIN session[t].read
      PROVE  InHand(t, case)'
  <2>1. InHand(t, case)
    BY DEF HInv
  <2>2. ASSUME session[t].read[case] = None, NEW u \in Sessions \ {t}
        PROVE  case \notin DOMAIN session'[u].read
    BY <1>1, <2>1, <2>2 DEF InHand
  <2> QED
    BY <1>1, <2>1, <2>2 DEF InHand
<1>3. \A t \in Sessions : \A case \in DOMAIN session'[t].read : InHand(t, case)'
  BY <1>1, <1>2
<1>4. \A t \in Analysts : Asking(t)'
  <2>1. ASSUME NEW t \in Analysts, t # s
        PROVE  Asking(t)'
    BY <1>1, <2>1 DEF HInv, Asking, Covered, Sessions
  <2> QED
    BY <2>1
<1>5. \A t \in Sessions : session'[t].phase = "begin" => session'[t] = NoSession
  BY <1>1 DEF HInv
<1> QED
  BY <1>3, <1>4, <1>5 DEF HInv

LEMMA EmptyHands == NoSession.phase = "begin" /\ DOMAIN NoSession.read = {}
BY DEF NoSession

LEMMA GiveUpHands ==
  ASSUME IInv, HInv, NEW s \in Sessions, Becomes(s, NoSession), UNCHANGED <<now, incidents>>
  PROVE  HInv'
<1>1. session'[s] = NoSession
  BY DEF IInv, SessionsOK, Becomes
<1>2. Asking(s)'
  BY <1>1, EmptyHands DEF Asking
<1> QED
  BY <1>2, EmptyHands, HandsStep

(* It has what it had in hand.                                              *)
LEMMA SameHands ==
  ASSUME IInv, HInv, NEW s \in Sessions, NEW new, Becomes(s, new), UNCHANGED <<now, incidents>>,
         new.read = session[s].read, new.written = session[s].written, new.request = session[s].request,
         new.phase # "begin",
         s \in Analysts => Asking(s)'
  PROVE  HInv'
<1>1. session'[s] = new /\ \A t \in Sessions \ {s} : session'[t] = session[t]
  BY DEF IInv, SessionsOK, Becomes
<1>2. ASSUME NEW case \in DOMAIN new.read
      PROVE  InHand(s, case)'
  <2>1. InHand(s, case)
    BY DEF HInv
  <2> QED
    BY <1>1, <2>1 DEF InHand
<1>3. ASSUME NEW t \in Sessions \ {s}, NEW case \in DOMAIN session[t].read, session[t].read[case] = None
      PROVE  case \notin DOMAIN new.read
  <2>1. InHand(t, case)
    BY DEF HInv
  <2> QED
    BY <1>3, <2>1 DEF InHand
<1> QED
  BY <1>2, <1>3, HandsStep

LEMMA BeginHands ==
  ASSUME IInv, HInv, NEW s \in Analysts, NEW request \in Requests, Begin(s, request)
  PROVE  HInv'
<1> DEFINE new == [NoSession EXCEPT !.phase = "read", !.at = now, !.request = request,
                                    !.list = request.list]
<1>1. /\ s \in Sessions /\ Becomes(s, new) /\ UNCHANGED <<now, incidents>>
      /\ new.phase = "read" /\ new.at = now /\ new.request = request /\ new.list = request.list
      /\ DOMAIN new.read = {}
  BY DEF Begin, Sessions, NoSession
<1> HIDE DEF new
<1>2. session'[s] = new
  BY <1>1 DEF IInv, SessionsOK, Becomes
<1>3. Asking(s)'
  BY <1>1, <1>2 DEF HInv, Asking, Covered
<1> QED
  BY <1>1, <1>3, HandsStep

LEMMA ReadHands ==
  ASSUME IInv, HInv, NEW s \in Analysts, Read(s)
  PROVE  HInv'
<1> DEFINE state == session[s]
           case  == Head(state.list)
           row   == incidents[case]
           at    == IF state.request.kind = "bulk" THEN state.at ELSE now
           rest  == [state EXCEPT !.list = Tail(@), !.phase = IF Tail(state.list) = << >> THEN "commit" ELSE "read",
                                  !.absent = IF row = None THEN @ \cup {case} ELSE @]
           read  == [c \in DOMAIN state.read \cup {case} |-> IF c = case THEN row ELSE state.read[c]]
           written == [c \in DOMAIN state.written \cup {case} |->
                         IF c = case THEN Computed(state.request, row, at) ELSE state.written[c]]
           taken == [state EXCEPT !.phase = "flush", !.read = read, !.written = written]
<1>1. /\ s \in Sessions /\ SessionOK(state) /\ state.phase = "read" /\ UNCHANGED <<now, incidents>>
      /\ \/ Becomes(s, taken) /\ row # None
         \/ Becomes(s, rest) /\ (row = None \/ ~ Asks(state.request, row))
  BY Zenon DEF IInv, SessionsOK, Sessions, Read
<1>2. state = [field \in Fields |-> state[field]] /\ state.list # << >> /\ state.list \in Seq(Cases)
  BY <1>1 DEF SessionOK
<1>3. case \in Cases /\ Range(state.list) = {case} \cup Range(Tail(state.list))
  BY <1>1, <1>2, HeadAndTail, RangeHeadTail
<1>4. /\ state.request \in Requests /\ state.at \in Int /\ at \in Int
      /\ Range(state.list) \subseteq Range(state.request.list)
      /\ \A c \in Range(state.request.list) : Covered(s, c)
  BY <1>1 DEF HInv, Asking
<1>5. CASE Becomes(s, rest) /\ (row = None \/ ~ Asks(state.request, row))
  <2>1. /\ rest.list = Tail(state.list) /\ rest.read = state.read /\ rest.written = state.written
        /\ rest.flushed = state.flushed /\ rest.request = state.request /\ rest.at = state.at
        /\ rest.absent = IF row = None THEN state.absent \cup {case} ELSE state.absent
        /\ rest.phase = "commit" => rest.list = << >>
        /\ rest.phase \in {"commit", "read"}
    BY <1>2 DEF Fields
  <2>2. row # None => state.request.status \in {None, row.status}
    BY <1>5 DEF Asks
  <2> HIDE DEF rest, row
  <2>3. session'[s] = rest
    BY <1>1, <1>5 DEF IInv, SessionsOK, Becomes
  <2> HIDE DEF state, case
  <2>4. ASSUME NEW c \in Range(state.request.list)
        PROVE  Covered(s, c)'
    <3>1. CASE c # case
      BY <1>1, <1>3, <1>4, <2>1, <2>3, <3>1 DEF Covered, state
    <3>2. CASE c = case
      BY <1>1, <2>1, <2>2, <2>3, <3>2 DEF Covered, row
    <3> QED
      BY <3>1, <3>2
  <2>5. Asking(s)'
    BY <1>3, <1>4, <2>1, <2>3, <2>4 DEF Asking
  <2> QED
    BY <1>1, <1>5, <2>1, <2>5, SameHands DEF state
<1>6. CASE Becomes(s, taken) /\ row # None
  <2>1. /\ taken.list = state.list /\ taken.read = read /\ taken.written = written
        /\ taken.flushed = state.flushed /\ taken.request = state.request /\ taken.at = state.at
        /\ taken.absent = state.absent /\ taken.phase = "flush"
    BY <1>2 DEF Fields
  <2>2. Steady(row)
    BY <1>3, <1>6 DEF HInv
  <2>3. /\ Steady(Computed(state.request, row, at)) /\ Frozen(row, Computed(state.request, row, at))
        /\ state.request.status # None => Computed(state.request, row, at).status = state.request.status
    BY <1>4, <2>2, ComputedIs
  <2>4. /\ DOMAIN read = DOMAIN state.read \cup {case} /\ DOMAIN written = DOMAIN state.written \cup {case}
        /\ read[case] = row /\ written[case] = Computed(state.request, row, at)
        /\ \A c \in DOMAIN state.read : c # case => read[c] = state.read[c]
        /\ \A c \in DOMAIN state.written : c # case => written[c] = state.written[c]
    OBVIOUS
  <2> HIDE DEF taken, read, written, at
  <2>5. session'[s] = taken /\ \A t \in Sessions \ {s} : session'[t] = session[t]
    BY <1>1, <1>6 DEF IInv, SessionsOK, Becomes
  <2>6. s \notin Workers
    BY CaseTransactionsAssumption
  <2>7. ASSUME NEW c \in DOMAIN taken.read, c = case
        PROVE  InHand(s, c)'
    BY <1>1, <1>3, <1>4, <1>6, <2>1, <2>2, <2>3, <2>4, <2>5, <2>6, <2>7 DEF InHand, SameHold
  <2>8. ASSUME NEW c \in DOMAIN taken.read, c # case
        PROVE  InHand(s, c)'
    <3>1. c \in DOMAIN state.read /\ InHand(s, c)
      BY <1>1, <2>1, <2>4, <2>8 DEF HInv
    <3>2. state.read[c] # None /\ c \in DOMAIN state.written
      BY <2>6, <3>1 DEF InHand
    <3>3. taken.read[c] = state.read[c] /\ taken.written[c] = state.written[c] /\ c \in DOMAIN taken.written
      BY <2>1, <2>4, <2>8, <3>1, <3>2
    <3> QED
      BY <1>1, <2>1, <2>5, <2>6, <3>1, <3>2, <3>3 DEF InHand
  <2>9. ASSUME NEW t \in Sessions \ {s}, NEW c \in DOMAIN session[t].read, session[t].read[c] = None
        PROVE  c \notin DOMAIN taken.read
    <3>1. InHand(t, c)
      BY DEF HInv
    <3>2. incidents[c] = None /\ c \notin DOMAIN state.read
      BY <1>1, <2>9, <3>1 DEF InHand
    <3> QED
      BY <1>6, <2>1, <2>4, <3>2
  <2>10. Asking(s)'
    BY <1>1, <1>4, <2>1, <2>5 DEF Asking, Covered
  <2> QED
    BY <1>1, <1>6, <2>1, <2>7, <2>8, <2>9, <2>10, HandsStep
<1> QED
  BY <1>1, <1>5, <1>6

LEMMA FlushHands ==
  ASSUME IInv, HInv, NEW s \in Sessions, Flush(s)
  PROVE  HInv'
<1> DEFINE state == session[s]
           case  == Head(state.list)
           new   == [state EXCEPT !.flushed = @ \cup {case}, !.list = Tail(@),
                       !.phase = IF Tail(state.list) = << >> THEN "commit" ELSE "read"]
<1>1. /\ SessionOK(state) /\ state.phase = "flush" /\ UNCHANGED <<now, incidents>>
      /\ Becomes(s, NoSession) \/ Becomes(s, new)
  BY Zenon DEF IInv, SessionsOK, Flush
<1>2. state = [field \in Fields |-> state[field]] /\ state.list # << >> /\ state.list \in Seq(Cases)
  BY <1>1 DEF SessionOK
<1>3. Range(state.list) = {case} \cup Range(Tail(state.list))
  BY <1>2, RangeHeadTail
<1>4. /\ new.list = Tail(state.list) /\ new.read = state.read /\ new.written = state.written
      /\ new.flushed = state.flushed \cup {case} /\ new.request = state.request /\ new.at = state.at
      /\ new.absent = state.absent
      /\ new.phase = "commit" => new.list = << >>
      /\ new.phase \in {"commit", "read"}
  BY <1>2 DEF Fields
<1>5. CASE Becomes(s, new)
  <2> HIDE DEF new
  <2>1. session'[s] = new
    BY <1>5 DEF IInv, SessionsOK, Becomes
  <2> HIDE DEF case
  <2>2. ASSUME s \in Analysts
        PROVE  Asking(s)'
    <3>1. /\ state.request \in Requests /\ state.at \in Int
          /\ Range(state.list) \subseteq Range(state.request.list)
          /\ \A c \in Range(state.request.list) : Covered(s, c)
      BY <1>1, <2>2 DEF HInv, Asking
    <3>2. ASSUME NEW c \in Range(state.request.list)
          PROVE  Covered(s, c)'
      <4>1. Covered(s, c)
        BY <3>1
      <4>2. c \in Range(state.list) => c \in Range(new.list) \cup new.flushed
        BY <1>3, <1>4
      <4>3. state.flushed \subseteq new.flushed
        BY <1>4
      <4> QED
        BY <1>1, <1>4, <2>1, <4>1, <4>2, <4>3 DEF Covered
    <3> QED
      BY <1>3, <1>4, <2>1, <3>1, <3>2 DEF Asking
  <2> QED
    BY <1>1, <1>4, <1>5, <2>2, SameHands
<1> QED
  BY <1>1, <1>5, GiveUpHands

LEMMA AlertHands ==
  ASSUME IInv, HInv, NEW s \in Workers, NEW fp, NEW level \in Levels, Alert(s, fp, level)
  PROVE  HInv'
<1>1. PICK case \in Cases :
        /\ IF OpenOf(fp) = {}
           THEN incidents[case] = None /\ \A t \in Sessions : case \notin DOMAIN session[t].read
           ELSE case \in OpenOf(fp)
        /\ Becomes(s, [NoSession EXCEPT
             !.phase = "flush", !.list = <<case>>,
             !.read = [c \in {case} |-> incidents[case]],
             !.written = [c \in {case} |->
                IF OpenOf(fp) = {} THEN Handlers(now)!Created(Policy, now, level)
                                   ELSE Handlers(now)!Attached(incidents[case], now, level)]])
  BY Zenon DEF Alert
<1> DEFINE row == IF OpenOf(fp) = {} THEN Handlers(now)!Created(Policy, now, level)
                                     ELSE Handlers(now)!Attached(incidents[case], now, level)
           new == [NoSession EXCEPT !.phase = "flush", !.list = <<case>>,
                     !.read = [c \in {case} |-> incidents[case]],
                     !.written = [c \in {case} |-> row]]
<1>2. /\ s \in Sessions /\ UNCHANGED <<now, incidents>> /\ Becomes(s, new)
      /\ now \in Int /\ level \in Nat /\ s \notin Analysts
  BY <1>1, CaseTransactionsAssumption DEF Alert, Sessions, HInv
<1>3. /\ Steady(row)
      /\ incidents[case] = None => \A t \in Sessions : case \notin DOMAIN session[t].read
      /\ incidents[case] # None =>
           Steady(incidents[case]) /\ SameHold(incidents[case], row) /\ Frozen(incidents[case], row)
  <2>1. CASE OpenOf(fp) = {}
    BY <1>1, <1>2, <2>1, CreatedIs
  <2>2. CASE OpenOf(fp) # {}
    <3>1. incidents[case] # None /\ Steady(incidents[case])
      BY <1>1, <2>2 DEF OpenOf, HInv
    <3> QED
      BY <1>2, <2>2, <3>1, AttachedIs
  <2> QED
    BY <2>1, <2>2
<1> HIDE DEF row
<1>4. /\ new.phase = "flush" /\ DOMAIN new.read = {case} /\ DOMAIN new.written = {case}
      /\ new.read[case] = incidents[case] /\ new.written[case] = row
  BY DEF NoSession
<1> HIDE DEF new
<1>5. session'[s] = new /\ \A t \in Sessions \ {s} : session'[t] = session[t]
  BY <1>2 DEF IInv, SessionsOK, Becomes
<1>6. InHand(s, case)'
  BY <1>2, <1>3, <1>4, <1>5 DEF InHand
<1>7. ASSUME NEW t \in Sessions \ {s}, NEW c \in DOMAIN session[t].read, session[t].read[c] = None
      PROVE  c \notin DOMAIN new.read
  <2>1. incidents[c] = None
    BY <1>7 DEF HInv, InHand
  <2> QED
    BY <1>3, <1>4, <2>1
<1> QED
  BY <1>2, <1>4, <1>6, <1>7, HandsStep

LEMMA CommitHands ==
  ASSUME IInv, HInv, Undisturbed, NEW s \in Sessions, Commit(s)
  PROVE  HInv'
<1>1. /\ session'[s] = NoSession /\ \A t \in Sessions \ {s} : session'[t] = session[t]
      /\ session[s].phase = "commit" /\ now' = now
      /\ \A case \in Cases : incidents'[case] =
           IF case \in session[s].flushed THEN Columns(s, case, incidents[case]) ELSE incidents[case]
  BY DEF IInv, SessionsOK, Commit, Becomes
<1>2. ASSUME NEW case \in session[s].flushed
      PROVE  /\ case \in DOMAIN session[s].read /\ InHand(s, case)
             /\ incidents'[case] # None /\ Steady(incidents'[case])
             /\ s \in Workers /\ incidents[case] # None => SameHold(incidents[case], incidents'[case])
  <2>1. /\ case \in DOMAIN session[s].read /\ case \in Cases /\ InHand(s, case)
        /\ Steady(Columns(s, case, incidents[case]))
        /\ s \in Workers /\ incidents[case] # None => SameHold(incidents[case], Columns(s, case, incidents[case]))
    BY WrittenIs
  <2>2. incidents'[case] = Columns(s, case, incidents[case])
    BY <1>1, <2>1
  <2>3. incidents'[case] # None
    BY <2>1, <2>2, CaseTransactionsAssumption DEF Steady
  <2> QED
    BY <2>1, <2>2, <2>3
<1>3. ASSUME NEW case \in Cases
      PROVE  /\ incidents[case] # None => incidents'[case] # None
             /\ incidents'[case] = None \/ Steady(incidents'[case])
             /\ case \notin session[s].flushed => incidents'[case] = incidents[case]
  BY <1>1, <1>2 DEF HInv
<1>4. ASSUME NEW t \in Analysts, t # s, session[t].phase # "begin",
             NEW case \in Range(session[t].request.list), case \in Cases, incidents[case] # None
      PROVE  SameHold(incidents[case], incidents'[case])
  <2>1. CASE case \notin session[s].flushed
    BY <1>3, <1>4, <2>1 DEF SameHold
  <2>2. CASE case \in session[s].flushed /\ s \in Workers
    BY <1>2, <1>4, <2>2
  <2>3. CASE case \in session[s].flushed /\ s \in Analysts
    <3>1. case \in Range(session[s].request.list)
      BY <1>2, <2>3 DEF InHand
    <3> QED
      BY <1>1, <1>4, <2>3, <3>1 DEF Undisturbed
  <2> QED
    BY <2>1, <2>2, <2>3 DEF Sessions
<1>5. ASSUME NEW t \in Sessions, NEW case \in DOMAIN session'[t].read
      PROVE  InHand(t, case)'
  <2>1. /\ t # s /\ session'[t] = session[t] /\ case \in DOMAIN session[t].read /\ InHand(t, case)
        /\ session[t].phase # "begin" /\ case \in Cases
    BY <1>1, <1>5, EmptyHands DEF HInv, InHand
  <2>2. CASE session[t].read[case] = None
    <3>1. /\ t \in Workers /\ t \notin Analysts /\ incidents[case] = None
          /\ \A u \in Sessions \ {t} : case \notin DOMAIN session[u].read
      BY <2>1, <2>2, CaseTransactionsAssumption DEF InHand
    <3>2. case \notin session[s].flushed
      BY <1>2, <2>1, <3>1
    <3>3. \A u \in Sessions \ {t} : case \notin DOMAIN session'[u].read
      BY <1>1, <3>1, EmptyHands
    <3> QED
      BY <1>3, <2>1, <2>2, <3>1, <3>2, <3>3 DEF InHand
  <2>3. CASE session[t].read[case] # None
    <3>1. incidents[case] # None /\ incidents'[case] # None
      BY <1>3, <2>1, <2>3 DEF InHand
    <3>2. ASSUME t \in Analysts
          PROVE  SameHold(session[t].read[case], incidents'[case])
      <4>1. case \in Range(session[t].request.list) /\ SameHold(session[t].read[case], incidents[case])
        BY <2>1, <3>2 DEF InHand
      <4>2. SameHold(incidents[case], incidents'[case])
        BY <1>4, <2>1, <3>1, <3>2, <4>1
      <4> QED
        BY <4>1, <4>2 DEF SameHold
    <3> QED
      BY <2>1, <2>3, <3>1, <3>2 DEF InHand
  <2> QED
    BY <2>2, <2>3
<1>6. ASSUME NEW t \in Analysts
      PROVE  Asking(t)'
  <2>1. CASE t = s
    BY <1>1, <2>1, EmptyHands DEF Asking
  <2>2. CASE t # s /\ session[t].phase # "begin"
    <3>1. session'[t] = session[t] /\ Asking(t)
      BY <1>1, <2>2 DEF HInv, Sessions
    <3>2. ASSUME NEW case \in Range(session[t].request.list)
          PROVE  Covered(t, case)'
      <4>1. Covered(t, case) /\ case \in Cases
        BY <2>2, <3>1, CaseTransactionsAssumption DEF Asking, Range
      <4>2. incidents[case] # None => incidents'[case] # None /\ incidents'[case].status = incidents[case].status
        BY <1>3, <1>4, <2>2, <4>1 DEF SameHold
      <4> QED
        BY <3>1, <4>1, <4>2 DEF Covered
    <3> QED
      BY <2>2, <3>1, <3>2 DEF Asking
  <2>3. CASE t # s /\ session[t].phase = "begin"
    BY <1>1, <2>3 DEF Asking, Sessions
  <2> QED
    BY <2>1, <2>2, <2>3
<1>7. \A t \in Sessions : session'[t].phase = "begin" => session'[t] = NoSession
  BY <1>1 DEF HInv
<1> QED
  BY <1>1, <1>3, <1>5, <1>6, <1>7 DEF HInv

LEMMA HandsNext ==
  ASSUME IInv, HInv, Undisturbed, [Next]_vars
  PROVE  HInv'
<1>1. ASSUME UNCHANGED <<incidents, session>>, now' \in Int
      PROVE  HInv'
  <2>1. ASSUME NEW s \in Sessions, NEW case \in DOMAIN session[s].read
        PROVE  InHand(s, case)'
    <3>1. InHand(s, case)
      BY DEF HInv
    <3> QED
      BY <1>1, <3>1 DEF InHand
  <2>2. \A s \in Analysts : Asking(s)'
    BY <1>1 DEF HInv, Asking, Covered
  <2> QED
    BY <1>1, <2>1, <2>2 DEF HInv
<1>2. CASE Tick
  BY <1>1, <1>2 DEF Tick, HInv
<1>3. CASE UNCHANGED vars
  BY <1>1, <1>3 DEF vars, HInv
<1>4. ASSUME NEW s \in Analysts, (\E request \in Requests : Begin(s, request)) \/ Read(s)
      PROVE  HInv'
  BY <1>4, BeginHands, ReadHands
<1>5. ASSUME NEW s \in Workers, NEW fp, NEW level \in Levels, Alert(s, fp, level)
      PROVE  HInv'
  BY <1>5, AlertHands
<1>6. ASSUME NEW s \in Sessions, Flush(s) \/ Commit(s) \/ Fails(s)
      PROVE  HInv'
  BY <1>6, FlushHands, CommitHands, GiveUpHands DEF Fails
<1>7. CASE Next
  BY <1>2, <1>4, <1>5, <1>6, <1>7, Zenon DEF Next
<1> QED
  BY <1>3, <1>7

LEMMA HandsInit ==
  ASSUME Init
  PROVE  HInv
<1>1. \A s \in Sessions : session[s] = NoSession
  BY DEF Init
<1> QED
  BY <1>1, EmptyHands DEF Init, HInv, Asking, Sessions

(* While no two requests under way name the same case, the invariants of the *)
(* transactions hold over incidents.py's sessions and the worker's _attach.  *)
(* Two that do name the same case break it: see ClosedIsNotHeld.             *)
THEOREM HandsInvariant == Spec /\ []Undisturbed => [](IInv /\ HInv)
<1>1. Init => IInv /\ HInv
  BY InitHolds, HandsInit
<1>2. IInv /\ HInv /\ Undisturbed /\ [Next]_vars => IInv' /\ HInv'
  BY NextKeeps, HandsNext
<1> QED
  BY <1>1, <1>2, PTL DEF Spec

(* A case is held exactly while it is pending and closed exactly while its   *)
(* status says so, although the worker's _attach writes to it from rows read *)
(* before a status change of incidents.py committed.                         *)
THEOREM StampsFollow == Spec /\ []Undisturbed => []StampsFollowStatus
<1>1. HInv => StampsFollowStatus
  BY DEF HInv, Steady, StampsFollowStatus, Committed
<1> QED
  BY <1>1, HandsInvariant, PTL

(* Rows change when a session commits, and not else.                         *)
LEMMA OnlyCommits ==
  ASSUME IInv, [Next]_vars, incidents' # incidents
  PROVE  \E s \in Sessions : Commit(s) /\ \A t \in Sessions \ {s} : session'[t] = session[t]
<1>1. ASSUME NEW s \in Sessions, Flush(s) \/ Commit(s) \/ Fails(s)
      PROVE  Commit(s)
  BY <1>1 DEF Flush, Fails
<1>2. ~ UNCHANGED vars /\ ~ Tick
  BY DEF vars, Tick
<1>3. ASSUME NEW s \in Analysts
      PROVE  ~ ((\E request \in Requests : Begin(s, request)) \/ Read(s))
  BY DEF Begin, Read
<1>4. ASSUME NEW s \in Workers, NEW fp, NEW level
      PROVE  ~ Alert(s, fp, level)
  BY DEF Alert
<1>5. PICK s \in Sessions : Commit(s)
  BY <1>1, <1>2, <1>3, <1>4, Zenon DEF Next
<1>6. \A t \in Sessions \ {s} : session'[t] = session[t]
  BY <1>5 DEF IInv, SessionsOK, Commit, Becomes
<1> QED
  BY <1>5, <1>6

LEMMA CommittedIs ==
  ASSUME NEW s \in Sessions, Commit(s), NEW case \in Cases
  PROVE  incidents'[case] = IF case \in session[s].flushed THEN Columns(s, case, incidents[case])
                                                         ELSE incidents[case]
BY DEF Commit

LEMMA FrozenStep ==
  ASSUME IInv, HInv, NEW s \in Sessions, Commit(s), NEW case \in Cases,
         Committed(case), incidents[case].first_response_at # None, Settled(case)
  PROVE  Frozen(incidents[case], incidents'[case])
<1>1. incidents[case] # None /\ incidents[case] \in Incident
  BY DEF Committed, HInv, Steady
<1>2. CASE case \notin session[s].flushed
  <2>1. incidents'[case] = incidents[case]
    BY <1>2, CommittedIs
  <2> QED
    BY <1>1, <2>1, FrozenSame
<1>3. CASE case \in session[s].flushed
  <2>1. case \in DOMAIN session[s].read /\ InHand(s, case)
    BY <1>3, WrittenIs
  <2>2. PICK read, written, row, merged :
          /\ read = session[s].read[case] /\ written = session[s].written[case]
          /\ row = incidents[case] /\ merged = incidents'[case]
    OBVIOUS
  <2>3. /\ read # None /\ read.first_response_at # None
        /\ read.respond_by = row.respond_by /\ read.resolve_by = row.resolve_by
    BY <2>1, <2>2 DEF Settled
  <2>4. /\ read \in Incident /\ written \in Incident /\ row \in Incident /\ Frozen(read, written)
        /\ s \in Workers => SameHold(read, written)
        /\ s \in Analysts => SameHold(read, row)
    BY <1>1, <2>1, <2>2, <2>3 DEF InHand, Steady
  <2>5. merged = [column \in DOMAIN row |->
                    IF written[column] = read[column] THEN row[column] ELSE written[column]]
    BY <1>1, <1>3, <2>2, <2>3, CommittedIs DEF Columns
  <2>6. /\ merged.paused_seconds = IF written.paused_seconds = read.paused_seconds
                                   THEN row.paused_seconds ELSE written.paused_seconds
        /\ merged.first_response_at = IF written.first_response_at = read.first_response_at
                                      THEN row.first_response_at ELSE written.first_response_at
        /\ merged.respond_by = IF written.respond_by = read.respond_by THEN row.respond_by ELSE written.respond_by
        /\ merged.resolve_by = IF written.resolve_by = read.resolve_by THEN row.resolve_by ELSE written.resolve_by
        /\ merged \in Incident
    BY <2>4, <2>5, MergedIs
  <2>7. /\ written.first_response_at = read.first_response_at
        /\ written.respond_by = Pushed(read.respond_by, written.paused_seconds - read.paused_seconds)
        /\ written.resolve_by = Pushed(read.resolve_by, written.paused_seconds - read.paused_seconds)
    BY <2>3, <2>4 DEF Frozen
  <2>8. merged.first_response_at = row.first_response_at
    BY <2>6, <2>7
  <2>9. CASE s \in Workers
    <3>1. written.paused_seconds = read.paused_seconds /\ written.paused_seconds - read.paused_seconds = 0
      BY <2>4, <2>9, IncidentIs DEF SameHold
    <3>2. written.respond_by = read.respond_by /\ written.resolve_by = read.resolve_by
      BY <2>4, <2>7, <3>1, IncidentIs, PushedAdds
    <3>3. /\ merged.respond_by = row.respond_by /\ merged.resolve_by = row.resolve_by
          /\ merged.paused_seconds = row.paused_seconds
      BY <2>6, <3>1, <3>2
    <3> QED
      BY <2>2, <2>4, <2>6, <2>8, <3>3, FrozenSame
  <2>10. CASE s \in Analysts
    <3>1. read.paused_seconds = row.paused_seconds /\ merged.paused_seconds = written.paused_seconds
      BY <2>4, <2>6, <2>10 DEF SameHold
    <3>2. merged.respond_by = written.respond_by /\ merged.resolve_by = written.resolve_by
      BY <2>3, <2>6
    <3> QED
      BY <2>2, <2>3, <2>7, <2>8, <3>1, <3>2 DEF Frozen
  <2> QED
    BY <2>9, <2>10 DEF Sessions
<1> QED
  BY <1>2, <1>3

(* The deadlines of an answered case move with the held time only, through   *)
(* every commit of a session that knew the case as answered: the freeze of   *)
(* apply_on_escalation, which reads first_response_at of its own copy.       *)
THEOREM FrozenSettled == Spec /\ []Undisturbed => FrozenOnceSettled
<1>1. ASSUME IInv, HInv, [Next]_vars, incidents' # incidents, NEW case \in Cases,
             Committed(case), incidents[case].first_response_at # None, Settled(case)
      PROVE  Frozen(incidents[case], incidents'[case])
  BY <1>1, OnlyCommits, FrozenStep
<1>2. IInv /\ HInv /\ [Next]_vars =>
        [\A case \in Cases :
           Committed(case) /\ incidents[case].first_response_at # None /\ Settled(case) =>
             LET row  == incidents[case]
                 next == incidents'[case]
                 held == next.paused_seconds - row.paused_seconds
             IN /\ next.first_response_at = row.first_response_at
                /\ next.respond_by = Pushed(row.respond_by, held)
                /\ next.resolve_by = Pushed(row.resolve_by, held)]_incidents
  BY <1>1 DEF Frozen
<1> QED
  BY <1>2, HandsInvariant, PTL DEF FrozenOnceSettled, Spec

LEMMA BulkStep ==
  ASSUME IInv, HInv, NEW s \in Analysts, Commit(s), session[s].request.status # None,
         NEW case \in Range(session[s].request.list) \ session[s].absent
  PROVE  Committed(case) /\ incidents'[case].status = session[s].request.status
<1>1. /\ s \in Sessions /\ s \notin Workers /\ session[s].phase = "commit"
      /\ session[s].list = << >> /\ Covered(s, case) /\ case \in Cases
  BY CaseTransactionsAssumption DEF Sessions, Commit, HInv, Asking, Range
<1>2. CASE case \in session[s].flushed
  <2>1. /\ InHand(s, case) /\ case \in DOMAIN session[s].read
        /\ SameHold(session[s].written[case], Columns(s, case, incidents[case]))
    BY <1>1, <1>2, WrittenIs
  <2>2. /\ session[s].read[case] # None /\ incidents[case] # None
        /\ session[s].written[case].status = session[s].request.status
    BY <1>1, <2>1 DEF InHand
  <2>3. incidents'[case] = Columns(s, case, incidents[case])
    BY <1>1, <1>2, CommittedIs
  <2> QED
    BY <2>1, <2>2, <2>3 DEF Committed, SameHold
<1>3. CASE case \notin session[s].flushed
  <2>1. incidents[case] # None /\ incidents[case].status = session[s].request.status
    BY <1>1, <1>3 DEF Covered, Range
  <2>2. incidents'[case] = incidents[case]
    BY <1>1, <1>3, CommittedIs
  <2> QED
    BY <2>1, <2>2 DEF Committed
<1> QED
  BY <1>2, <1>3

(* "half of it landing is worse than none of it landing" (bulk_update): when *)
(* a change of status over a list commits, every case of the list that was   *)
(* there has the status asked for.                                           *)
THEOREM BulkWhole == Spec /\ []Undisturbed => BulkIsWhole
<1>1. ASSUME IInv, HInv, [Next]_vars, incidents' # incidents, NEW s \in Analysts,
             session'[s] # session[s], session[s].request.status # None,
             NEW case \in Range(session[s].request.list) \ session[s].absent
      PROVE  Committed(case) /\ incidents'[case].status = session[s].request.status
  <2>1. Commit(s)
    BY <1>1, OnlyCommits DEF Sessions
  <2> QED
    BY <1>1, <2>1, BulkStep
<1>2. IInv /\ HInv /\ [Next]_vars =>
        [\A s \in Analysts :
           LET request == session[s].request
           IN session[s].phase \in {"read", "commit"} /\ incidents' # incidents
                /\ session'[s] # session[s] /\ request.status # None
              => \A case \in Range(request.list) \ session[s].absent :
                   Committed(case) /\ incidents'[case].status = request.status]_vars
  BY <1>1, Zenon
<1> QED
  BY <1>2, HandsInvariant, PTL DEF BulkIsWhole, Spec
=============================================================================
