----------------------------- MODULE LiveQueue -----------------------------
(***************************************************************************)
(* How a change of a case comes to a screen: the event published after the  *)
(* commit (workers/ingest_consumer.py, api/v1/incidents.py, events.py), the *)
(* stream that carries it (api/v1/stream.py), and the queue of the console  *)
(* with its pill and its details pane (hooks/useIncidentStream.ts,          *)
(* routes/Incidents.tsx, components/IncidentPane.tsx).  Redis forgets an    *)
(* event nobody is subscribed to; a screen that missed one has to catch up  *)
(* by fetching.  One screen.                                                *)
(***************************************************************************)
EXTENDS Integers, Sequences, FiniteSets, SequencesExt

CONSTANTS
  None,
  Cases,
  Scope,       \* the cases of the tenants the token may hear about
  Workers,     \* the ingest worker's transactions
  Analysts,    \* and those of the API
  MaxChanges,  \* bound on the changes of each case
  MaxFaults    \* bound on what goes wrong

Writers == Workers \cup Analysts

ASSUME LiveQueueAssumption ==
  /\ Scope \subseteq Cases /\ None \notin Cases /\ IsFiniteSet(Cases)
  /\ MaxChanges \in [Cases -> Nat] /\ MaxFaults \in Nat

VARIABLES
  cases,       \* how often each case has changed, 0 before it is created
  writer,      \* [phase, outbox : the events it will publish]
  connection,  \* of the EventSource: none, opening, open, subscribed, or ended
  wire,        \* events on it
  state,       \* what the hook makes of it: connecting, live or offline
  token,       \* the access token: good, expired, or None
  fits,        \* the cases the filters let through, as far down as pages are loaded
  pending,     \* the number on the pill
  counted,     \* ghost: the cases it counts
  list,        \* the query of the list
  detail,      \* the query of each case's details
  pane,        \* the case whose pane is open
  lost,        \* ghost: cases with an event that did not come, unless read since
  used,        \* ghost: cases with an event whose fetch had read the case before it
  faults

stream == <<connection, wire, state, token>>
screen == <<pending, counted, detail, pane>>
vars   == <<cases, writer, stream, screen, fits, list, lost, used, faults>>

Event     == [kind : {"created", "updated"}, case : Cases]
NoWriter  == [phase |-> "idle", outbox |-> << >>]
CasesOf(events) == { event.case : event \in Range(events) }
Missed(events) == CasesOf(events) \cap Scope

Becomes(w, value) == writer' = [writer EXCEPT ![w] = value]

Fault == faults < MaxFaults /\ faults' = faults + 1

Nothing == [case \in Scope |-> 0]

(* What a fetch of the list reads.                                           *)
Visible == [case \in Scope |-> IF case \in fits THEN cases[case] ELSE 0]

-----------------------------------------------------------------------------
(* Writers *)

(* A batch creates cases and adds alerts to them; an analyst changes what is   *)
(* there.  The screen treats an alert on a case like any other change of it.   *)
Write(w, touched) ==
  /\ writer[w] = NoWriter
  /\ \A case \in touched : cases[case] = 0 => w \in Workers
  /\ Becomes(w, [phase |-> "written", outbox |-> SetToSeq({
       [kind |-> IF cases[case] = 0 THEN "created" ELSE "updated", case |-> case] : case \in touched })])
  /\ UNCHANGED <<cases, stream, screen, fits, list, lost, used, faults>>

(* The open-fingerprint index lets one worker create a case.  The rows of the  *)
(* list are others afterwards, and a case that has changed may lie before the *)
(* cursor of a fetch under way or behind it.                                 *)
Commit(w) ==
  LET touched == CasesOf(writer[w].outbox)
      created == { event.case : event \in { e \in Range(writer[w].outbox) : e.kind = "created" } }
  IN /\ writer[w].phase = "written"
     /\ \A case \in created : cases[case] = 0
     /\ \A case \in touched : cases[case] < MaxChanges[case]
     /\ cases' = [case \in Cases |-> IF case \in touched THEN cases[case] + 1 ELSE cases[case]]
     /\ fits' \in SUBSET Scope
     /\ \E behind \in SUBSET (touched \cap Scope) :
          list' = [list EXCEPT !.todo = IF list.phase = "asked" THEN (@ \ touched) \cup behind ELSE @,
                               !.owes = (@ \ touched) \cap fits']
     /\ Becomes(w, [writer[w] EXCEPT !.phase = "publishing"])
     /\ UNCHANGED <<stream, screen, lost, used, faults>>

Fails(w) ==
  /\ writer[w].phase = "written"
  /\ Becomes(w, NoWriter)
  /\ UNCHANGED <<cases, stream, screen, fits, list, lost, used, faults>>

Published(w) ==
  Becomes(w, IF Len(writer[w].outbox) = 1 THEN NoWriter ELSE [writer[w] EXCEPT !.outbox = Tail(@)])

(* events.publish, and the route that passes on what the token may hear      *)
Publish(w) ==
  LET event == Head(writer[w].outbox)
  IN /\ writer[w].phase = "publishing"
     /\ Published(w)
     /\ wire' = IF connection = "subscribed" /\ event.case \in Scope THEN Append(wire, event) ELSE wire
     /\ lost' = IF connection = "subscribed" THEN lost ELSE lost \cup Missed(<<event>>)
     /\ UNCHANGED <<cases, connection, state, token, screen, fits, list, used, faults>>

(* Mutant: an event whose publication ends in an error is published again. *)
PublishAgain(w) ==
  /\ writer[w].phase = "publishing" /\ Fault
  /\ wire' = IF connection = "subscribed" /\ Head(writer[w].outbox).case \in Scope
             THEN Append(wire, Head(writer[w].outbox)) ELSE wire
  /\ UNCHANGED <<cases, writer, connection, state, token, screen, fits, list, lost, used>>

(* Redis cannot be reached: the error is logged and the write stands.        *)
PublishFails(w) ==
  /\ writer[w].phase = "publishing" /\ Fault
  /\ Published(w)
  /\ lost' = lost \cup Missed(<<Head(writer[w].outbox)>>)
  /\ UNCHANGED <<cases, stream, screen, fits, list, used>>

(* The process dies after its commit.                                        *)
Crash(w) ==
  /\ writer[w].phase = "publishing" /\ Fault
  /\ Becomes(w, NoWriter)
  /\ lost' = lost \cup Missed(writer[w].outbox)
  /\ UNCHANGED <<cases, stream, screen, fits, list, used>>

-----------------------------------------------------------------------------
(* The connection *)

(* _subscriber: the headers of an answer go out before generate() begins.    *)
Accept ==
  /\ connection = "opening"
  /\ connection' = IF token = "good" THEN "open" ELSE "ended"
  /\ UNCHANGED <<cases, writer, wire, state, token, screen, fits, list, lost, used, faults>>

Subscribe ==
  /\ connection = "open"
  /\ connection' = "subscribed"
  /\ UNCHANGED <<cases, writer, wire, state, token, screen, fits, list, lost, used, faults>>

(* The API or Redis restarts, or the network drops it.                       *)
Breaks ==
  /\ connection \in {"opening", "open", "subscribed"} /\ Fault
  /\ connection' = "ended"
  /\ wire' = << >>
  /\ lost' = lost \cup Missed(wire)
  /\ UNCHANGED <<cases, writer, state, token, screen, fits, list, used>>

Expire ==
  /\ token = "good" /\ Fault
  /\ token' = "expired"
  /\ UNCHANGED <<cases, writer, connection, wire, state, screen, fits, list, lost, used>>

OnOpen ==
  /\ connection \in {"open", "subscribed"} /\ state # "live"
  /\ state' = "live"
  /\ UNCHANGED <<cases, writer, connection, wire, token, screen, fits, list, lost, used, faults>>

OnError ==
  /\ connection = "ended"
  /\ connection' = "none" /\ state' = "offline"
  /\ UNCHANGED <<cases, writer, wire, token, screen, fits, list, lost, used, faults>>

(* The timer of onerror: a new token, or none when the refresh is refused, or  *)
(* the old one when it cannot be asked for; and the effect runs again.        *)
Reconnect ==
  /\ connection = "none" /\ state = "offline"
  /\ \/ token' = "good" /\ UNCHANGED faults
     \/ token' \in {token, None} /\ Fault
  /\ IF token' = None THEN state' = "connecting" /\ UNCHANGED connection
                      ELSE connection' = "opening" /\ UNCHANGED state
  /\ UNCHANGED <<cases, writer, wire, screen, fits, list, lost, used>>

-----------------------------------------------------------------------------
(* The screen.  A query has data once a fetch has ended well.  Invalidated, it *)
(* is fetched, and with data a fetch under way starts over; the first fetch is *)
(* joined (TanStack Query 5), and its answer ends the invalidation.           *)

StartsOver(query) == query.has \/ query.phase = "idle"

NoDetail == [has |-> FALSE, shown |-> 0, phase |-> "idle", snapshot |-> 0, invalid |-> FALSE]

(* Mutant: an event that comes during a fetch of the pane is left to it. *)
RefetchIdle(case) == case = pane /\ detail[case].phase = "idle"

(* Invalidation fetches only what is on the screen.                          *)
Refetch(case) == case = pane /\ StartsOver(detail[case])

(* The listener: the list stays as it is, the details are out of date whatever *)
(* case the event is about.                                                   *)
Receive ==
  LET event == Head(wire)
      new   == event.kind = "created"
  IN /\ wire # << >> /\ state = "live"
     /\ wire' = Tail(wire)
     /\ pending' = IF new THEN pending + 1 ELSE pending
     /\ counted' = IF new THEN counted \cup {event.case} ELSE counted
     /\ detail' = [case \in Scope |->
                    [detail[case] EXCEPT !.phase = IF Refetch(case) THEN "asked" ELSE @,
                                         !.invalid = detail[case].has]]
     /\ used' = used \cup { case \in {event.case} : detail[case].phase = "read"
                                                   /\ ~(case = pane /\ StartsOver(detail[case])) }
     /\ UNCHANGED <<cases, writer, connection, state, token, fits, list, pane, lost, faults>>

(* A fetch of all the pages that are loaded, one after the other             *)
FromTheTop(owes) ==
  [list EXCEPT !.phase = "asked", !.more = FALSE, !.todo = Scope, !.snapshot = Nothing,
               !.owes = owes \cap fits]

ListBecomes(value) ==
  list' = value /\ UNCHANGED <<cases, writer, stream, detail, pane, lost, used>>

(* Mutant: a live list is not fetched again on its own. *)
PollOffline ==
  /\ list.phase = "idle" /\ state # "live"
  /\ ListBecomes(FromTheTop({})) /\ UNCHANGED <<pending, counted, fits, faults>>

(* refetchInterval: every 120 s when live, every 30 s when not               *)
Poll ==
  /\ list.phase = "idle"
  /\ ListBecomes(FromTheTop({})) /\ UNCHANGED <<pending, counted, fits, faults>>

(* Mutant: a fetch that is under way is not started over. *)
MergeJoins ==
  /\ pending > 0 /\ pending' = 0 /\ counted' = {}
  /\ ListBecomes(IF list.phase = "idle" THEN FromTheTop(counted)
                                        ELSE [list EXCEPT !.owes = @ \cup (counted \cap fits)])
  /\ UNCHANGED <<fits, faults>>

(* A click on the pill                                                       *)
Merge ==
  /\ pending > 0 /\ pending' = 0 /\ counted' = {}
  /\ ListBecomes(IF StartsOver(list) THEN FromTheTop(list.owes \cup counted)
                                     ELSE [list EXCEPT !.owes = @ \cup (counted \cap fits)])
  /\ UNCHANGED <<fits, faults>>

(* A click on "Load more": the next page is fetched, and a fetch of all of     *)
(* them that is under way is given up.                                        *)
LoadMore ==
  /\ list.has /\ ~list.more
  /\ fits' \in { reach \in SUBSET Scope : fits \subseteq reach /\ fits # reach }
  /\ ListBecomes([list EXCEPT !.phase = "asked", !.more = TRUE, !.todo = fits' \ fits,
                              !.snapshot = list.shown, !.owes = {}])
  /\ UNCHANGED <<pending, counted, faults>>

ListRead(page) ==
  /\ list.phase = "asked" /\ page \subseteq list.todo
  /\ ListBecomes([list EXCEPT !.phase = IF page = list.todo THEN "read" ELSE "asked",
                              !.todo = @ \ page,
                              !.snapshot = [case \in Scope |->
                                             IF case \in page THEN Visible[case] ELSE @[case]]])
  /\ UNCHANGED <<pending, counted, fits, faults>>

AtRest == [list EXCEPT !.phase = "idle", !.more = FALSE, !.todo = {}, !.snapshot = Nothing,
                       !.owes = {}]

ListShown ==
  /\ list.phase = "read"
  /\ ListBecomes([AtRest EXCEPT !.has = TRUE, !.shown = list.snapshot])
  /\ UNCHANGED <<pending, counted, fits, faults>>

(* retry: 1; the list stays as it was.                                       *)
ListFails ==
  /\ list.phase = "asked" /\ Fault
  /\ ListBecomes(AtRest) /\ UNCHANGED <<pending, counted, fits>>

DetailBecomes(case, query) ==
  /\ detail' = [detail EXCEPT ![case] = query]
  /\ UNCHANGED <<cases, writer, stream, fits, pending, counted, list>>

(* A click on a row.  Details younger than the staleTime, and not invalidated, *)
(* are shown as they are; a fetch under way is joined.                        *)
OpenPane(case) ==
  LET query == detail[case]
  IN /\ pane # case /\ list.shown[case] > 0
     /\ pane' = case
     /\ \/ query.phase = "idle" /\ DetailBecomes(case, [query EXCEPT !.phase = "asked"])
        \/ (query.phase = "idle" => query.has /\ ~query.invalid) /\ DetailBecomes(case, query)
     /\ UNCHANGED <<lost, used, faults>>

ClosePane ==
  /\ pane # None
  /\ pane' = None
  /\ UNCHANGED <<cases, writer, stream, pending, counted, detail, fits, list, lost, used, faults>>

(* gcTime: details nobody looks at are dropped.                              *)
Forget(case) ==
  /\ pane # case /\ detail[case].phase = "idle" /\ detail[case].has
  /\ DetailBecomes(case, NoDetail)
  /\ UNCHANGED <<pane, lost, used, faults>>

PaneRead(case) ==
  /\ detail[case].phase = "asked"
  /\ DetailBecomes(case, [detail[case] EXCEPT !.phase = "read", !.snapshot = cases[case]])
  /\ lost' = lost \ {case} /\ used' = used \ {case}
  /\ UNCHANGED <<pane, faults>>

PaneShown(case) ==
  /\ detail[case].phase = "read"
  /\ DetailBecomes(case, [has |-> TRUE, shown |-> detail[case].snapshot, phase |-> "idle",
                          snapshot |-> 0, invalid |-> FALSE])
  /\ UNCHANGED <<pane, lost, used, faults>>

PaneFails(case) ==
  /\ detail[case].phase = "asked" /\ Fault
  /\ DetailBecomes(case, [detail[case] EXCEPT !.phase = "idle", !.snapshot = 0])
  /\ lost' = lost \cup {case}
  /\ UNCHANGED <<pane, used>>

-----------------------------------------------------------------------------
Init ==
  /\ cases = [case \in Cases |-> 0]
  /\ writer = [w \in Writers |-> NoWriter]
  /\ connection = "opening" /\ wire = << >> /\ state = "connecting" /\ token = "good"
  /\ pending = 0 /\ counted = {} /\ fits = Scope
  /\ list = [has |-> FALSE, shown |-> Nothing, phase |-> "asked", more |-> FALSE, todo |-> Scope,
             snapshot |-> Nothing, owes |-> {}]
  /\ detail = [case \in Scope |-> NoDetail] /\ pane = None
  /\ lost = {} /\ used = {} /\ faults = 0

Read == \E page \in SUBSET list.todo : ListRead(page)

Console ==
  \/ Accept \/ Subscribe \/ OnOpen \/ OnError \/ Reconnect \/ Receive
  \/ Poll \/ Read \/ ListShown
  \/ \E case \in Scope : PaneRead(case) \/ PaneShown(case) \/ Forget(case)

Next ==
  \/ \E w \in Writers : \/ \E touched \in (SUBSET Cases) \ {{}} : Write(w, touched)
                        \/ Commit(w) \/ Fails(w) \/ Publish(w) \/ PublishFails(w) \/ Crash(w)
  \/ Console \/ Merge \/ LoadMore \/ ClosePane \/ (\E case \in Scope : OpenPane(case))
  \/ Breaks \/ Expire \/ ListFails \/ (\E case \in Scope : PaneFails(case))

Spec == Init /\ [][Next]_vars

(* The server answers, the browser's timers fire, and answers arrive.  Nobody *)
(* has to click, and no writer has to publish.                                *)
FairSpec ==
  /\ Spec
  /\ WF_vars(Accept) /\ WF_vars(Subscribe) /\ WF_vars(OnOpen) /\ WF_vars(OnError) /\ WF_vars(Reconnect)
  /\ WF_vars(Poll) /\ WF_vars(Read) /\ WF_vars(ListShown)
  /\ \A case \in Scope : WF_vars(PaneRead(case)) /\ WF_vars(PaneShown(case))

-----------------------------------------------------------------------------
(* Properties *)

(* The wire carries only what the token may hear.                            *)
TypeOK ==
  /\ cases \in [Cases -> Nat] /\ \A case \in Cases : cases[case] <= MaxChanges[case]
  /\ \A w \in Writers : /\ writer[w].phase \in {"idle", "written", "publishing"}
                        /\ Range(writer[w].outbox) \subseteq Event
  /\ connection \in {"none", "opening", "open", "subscribed", "ended"}
  /\ Range(wire) \subseteq Event /\ CasesOf(wire) \subseteq Scope
  /\ state \in {"connecting", "live", "offline"} /\ token \in {"good", "expired", None}
  /\ pending \in Nat /\ counted \subseteq Scope
  /\ fits \subseteq Scope /\ list.todo \subseteq Scope /\ list.owes \subseteq fits
  /\ list.shown \in [Scope -> Nat] /\ list.snapshot \in [Scope -> Nat]
  /\ list.phase \in {"idle", "asked", "read"} /\ list.has \in BOOLEAN /\ list.more \in BOOLEAN
  /\ detail \in [Scope -> [has : BOOLEAN, shown : Nat, phase : {"idle", "asked", "read"},
                           snapshot : Nat, invalid : BOOLEAN]]
  /\ pane \in Scope \cup {None}

(* "3 new incidents" are three: no reconnection, crash or batch counts a case *)
(* twice in one pill.                                                         *)
PillCountsEachOnce == pending = Cardinality(counted)

(* Clicking the pill shows the cases it counted, whatever fetch of a list that *)
(* has been loaded was under way when it was clicked: their events were        *)
(* published after their commits.  It does not show a case the filters keep    *)
(* out or that lies beyond the pages loaded, nor, for certain, one that changes *)
(* its place between two pages, and not if "Load more" is clicked meanwhile.    *)
MergeShowsTheNewCases ==
  [][\A case \in list.owes :
       list.has /\ list.phase = "read" /\ list'.phase = "idle" => list'.shown[case] > 0]_list

Announced(case) ==
  \/ case \in CasesOf(wire)
  \/ \E w \in Writers : writer[w].phase = "publishing" /\ case \in CasesOf(writer[w].outbox)

(* A pane at rest shows the case as it is, unless an event of the case is on   *)
(* its way, was dropped, or came when the first fetch, or one of a pane that was *)
(* closed, had read the case.                                                 *)
PaneIsCurrent ==
  pane # None /\ pane \notin lost \cup used /\ ~Announced(pane)
    => LET query == detail[pane] IN query.phase = "idle" /\ query.has => query.shown = cases[pane]

(* "A dropped event costs one refresh cycle, not a missed incident": a list     *)
(* that is behind catches up in the end, whatever became of the events.        *)
QueueCatchesUp ==
  \A case \in Scope : list.shown[case] # Visible[case] ~> list.shown[case] = Visible[case]

(* A screen that lost its stream, or never had one, has one again in the end,  *)
(* unless its session is over.                                                *)
StreamReturns == connection # "subscribed" ~> (connection = "subscribed" /\ state = "live") \/ token = None

(* Whatever is lost between the worker and the screen, both come back. *)
ScreenRecovers == QueueCatchesUp /\ StreamReturns

(* "The client refetches on receipt" (events.py): no event is used up by a     *)
(* fetch that read the case before the change.                                *)
RefetchesOnReceipt ==
  pane # None /\ pane \notin lost /\ ~Announced(pane)
    => LET query == detail[pane] IN query.phase = "idle" /\ query.has => query.shown = cases[pane]

(* "A dropped event costs one refresh cycle" (events.py), for the pane.        *)
PaneCatchesUp ==
  \A case \in Scope :
    pane = case /\ detail[case].has /\ detail[case].shown # cases[case]
      ~> pane # case \/ detail[case].shown = cases[case]

(* "3 new incidents - click to show": the pill counts what the list will have. *)
PillCountsTheList == counted \subseteq fits

(* A click during the first load of the list shows the cases, if they fit in it. *)
FirstLoadShowsCounted ==
  [][\A case \in list.owes :
       list.phase = "read" /\ list'.phase = "idle" => list'.shown[case] > 0]_list
=============================================================================
