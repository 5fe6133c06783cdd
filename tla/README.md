# AWDSoc in TLA+

AWDSoc is a multi-tenant SOC console: alerts from clients' Wazuh managers come
in over a webhook, wait in a Redis stream, are written to PostgreSQL and grouped
into cases ("incidents") by a worker, and are worked on by analysts and clients
through a FastAPI backend and a React console. The code is in `backend/app/`
(paths below are relative to it), `frontend/` and `deploy/`.

This directory holds TLA+ models of its core logic, the TLC configurations that
check them on small instances, and TLAPS proofs of the properties that matter
most. `PROJECT.json` maps each definition to the lines it stands for.

## 1. Inventory

| Component | State it keeps | Operations | Correct when | Model |
|---|---|---|---|---|
| SLA clock, `incidents/sla.py` | the SLA columns of `incidents`; `tenant_slas` | create, escalate, first response, pause, resume, change of status, breach verdicts | the clock stops exactly while the client is awaited; deadlines freeze once answered; verdicts that are in stand | `SlaClock`, `IncidentClock`, `CaseStopwatch` |
| Incident handlers, `api/v1/incidents.py` | `incidents`, `incident_comments`, `audit_log` | list, read, update, comment, timeline, bulk update | each handler applies the clock's rules; concurrent writers lose nothing; a bulk change lands whole | `IncidentClock` (one step each), `CaseTransactions` (as transactions), `CaseFile` (the list) |
| Stream producer, `ingest/stream.py` | Redis: nonces, rate counters, the stream, the consumer group | publish (one Lua script), create group, depth | a signature is spent once; the rate limit holds and lifts; the stream is bounded | `IngestGate` (the script), `IngestPipeline` (the stream) |
| Ingest consumer, `workers/ingest_consumer.py` | the group's pending entries; one transaction per batch | claim orphans, read, write batch, announce, ack | every accepted alert becomes one row under one case, whatever crashes | `IngestPipeline`, `AlertLedger` |
| Grouping, `incidents/grouping.py` | `incidents`, `tenant_counters` | fingerprint, attach or create, number | one open case per fingerprint; counts and times are exact | `IngestPipeline`, `CaseFile`, `IncidentClock` |
| Ingest endpoint and authentication, `api/v1/ingest.py`, `ingest/auth.py` | per-process cache of tenants (soft, hard and negative TTL) | authenticate, accept, invalidate | a rotated secret stops working within its TTL; ingestion survives an outage of PostgreSQL | `IngestGate` |
| Integrator, `deploy/wazuh/custom-awd-console` | none | deliver with retries | an alert is tried again while that can help; what it takes for delivered is queued | `IngestGate` |
| Parser, `ingest/parser.py` | none | parse | never raises; the row always lands | `IngestPipeline` (timestamp only) |
| Normalisation, `normalisation/` | none (YAML maps) | map, relate | total; deterministic per version of the map | not modelled; its outcome in `AlertStorage` |
| Evidence, `incidents/evidence.py`; entities, `incidents/entities.py` | `incidents.evidence`; `entities` and links | fold an alert in; trim; upsert and link | the first alert goes last; the size is bounded; a cut says so; counts are exact | `CaseFile` |
| Reprocessing, `workers/reprocess.py` | job progress in Redis; rewrites `alerts` | replay with a cursor | each alert of the range is mapped anew, but those tied with the last of a batch | `AlertStorage`, `Keyset` |
| Partitions, `workers/partitions.py` | partitions of `alerts` | ensure, drop | every day inside retention has its month; nothing inside it is dropped | `AlertStorage` |
| Pagination, `pagination.py`, with the lists of alerts and cases | the cursor a page comes with | first page, further page | nothing is skipped, but rows tied with the last of a page; nothing is shown twice | `Keyset`, `AlertStorage`, `CaseFile` |
| Reports, `api/v1/reports.py`, `reports/builder.py` | `reports` | generate, preview, edit, issue, delete | figures agree on cases that stand still; numbers are sequential; an issued report does not change | `ReportLifecycle` |
| Agent sync, `wazuh/` | `agents`, sync columns of `wazuh_connections` | sync a tenant, sweep, prune | a quiet group is cached exactly; `synced_at` is honest; every sweep ends | `AgentSync` |
| Rule cache, `api/v1/rules.py` | two Redis keys per rule | get, fall back | fresh, then stale, then what alerts recorded | not modelled |
| Sessions, `api/v1/auth.py`, `security.py`, `deps/auth.py`, `redis_client.py` | revoked token ids in Redis | login, refresh, logout, switch tenant | a spent refresh token stays refused; a page keeps its session | `Accounts` |
| Users, `api/v1/users.py`, `bootstrap.py`, `cli.py` | `users` | create, update, reset, bootstrap | roles stay in bounds; an administrator remains | `Accounts` (create, update) |
| Tenants, `api/v1/tenants.py` | `tenants`, `tenant_slas`, connections | create, update, rotate, replace the policy | policy changes touch no case; rotation takes effect | `IncidentClock` (the policy), `IngestGate` (secret and status) |
| Live events, `events.py`, `api/v1/stream.py` | Redis pub/sub, SSE connections | publish, stream | what is announced exists; what is lost is caught up | `IngestPipeline` (announcement after commit), `LiveQueue` |
| Console, `frontend/src` | tokens of a page; the incident queue, its pill and its pane | refresh, stream, refetch, merge | a click shows what the pill counted and the pages loaded hold; no list stays behind | `Accounts` (`api/client.ts`, `useAuth.ts`), `LiveQueue` |
| Tenancy, `deps/tenancy.py`, `deps/rbac.py` | the token's tenant | scope a query | nobody reads another tenant's rows | not modelled |
| Views, `api/v1/overview.py`, `coverage.py`, `audit_log.py`, `health.py`, `ingest_status.py` | none | queries | - | not modelled: they change nothing |

How they interact. The integrator posts an alert; the endpoint authenticates it
against the cache and publishes it with one Lua call. The consumer, a task in
the worker process, reads the stream as a member of one consumer group, writes
each batch in one transaction that also groups it, publishes one event for each
case it touched, and acks. Analysts change the same cases through the API, each
request in a transaction of its own; PostgreSQL runs at READ COMMITTED and no
query takes a row lock explicitly. Events reach the console through Redis
pub/sub and SSE and only tell it to refetch. Cron jobs in the worker maintain
partitions and sync agents.

Hard behaviour, and where the hazards in `PROJECT.json` come from: redelivery
and duplicates in the stream; crashes between commit and ack; two writers on one
batch; read-modify-write of a case by transactions that do not lock it; sequences
of status changes and edits that move deadlines already judged; caches that are
invalidated before a commit; check-then-act on reports, numbers and tokens;
reads of a list, a manager or a report that take several queries while the rows
move; rows that share the key a cursor compares; events that nobody hears, or that a
fetch under way uses up; sub-second truncation, midnight, month and TTL
boundaries.

## 2. Modules

| Module | Content |
|---|---|
| `SlaClock` | the functions of `sla.py` as operators on an incident record |
| `IncidentClock` | one case under everything that can move its clock |
| `CaseStopwatch` | what the clock promises, without absolute times |
| `IngestGate` | from a manager's script to the stream: signatures, cache, rate limit |
| `IngestPipeline` | from the stream to cases: writers, transactions, crashes, an analyst |
| `AlertLedger` | what the pipeline promises, without queue or transaction |
| `CaseTransactions` | the handlers of `IncidentClock` as database transactions, beside the worker |
| `CaseFile` | what a case holds of its alerts: columns, evidence, entities; the list of cases |
| `AlertStorage` | the table of alerts over months: partitions, replay, the list of alerts |
| `Keyset` | keyset pagination |
| `Ascending` | the numbers of a set in ascending order |
| `ReportLifecycle` | building, numbering, editing, issuing and deleting reports |
| `Accounts` | tokens of a page, and administrators who change users |
| `AgentSync` | sweeps that copy the managers' agents into the cache |
| `LiveQueue` | from a commit to the screen: events, stream, list, pill, pane |
| `IncidentClockProofs`, `IngestGateProofs`, `IngestPipelineProofs`, `CaseTransactionsProofs`, `ReportLifecycleProofs`, `AccountsProofs`, `LiveQueueProofs` | the proofs about the module each is named after, refinements included |
| `StorageProofs` | the proofs about `AlertStorage`, `CaseFile` and `AgentSync`, and the lemmas about `Keyset` and `Ascending` they share |
| `MC...` | small instances for TLC, one for each module with a state |

`IncidentClock` and `CaseTransactions` extend `SlaClock`, and `CaseTransactions`
instantiates `IncidentClock` to apply its handlers to a row as it was read.
`IncidentClock` instantiates `CaseStopwatch`, `IngestPipeline` instantiates
`AlertLedger`; `AlertStorage` and `CaseFile` extend `Keyset`, `CaseFile` and
`AgentSync` extend `Ascending`. Each module has a type invariant, `TypeOK`. In
`CaseFile` and `AgentSync` it is `FileTypeOK` and `SyncTypeOK`, and their
specifications are `FileSpec` and `SyncSpec`, because one module of proofs extends
them both. Operators marked "Mutant" are plausible bugs, used only
to confirm that each property can fail; no specification uses them.

### The clock (`SlaClock`, `IncidentClock`)

The state is the case's row (`inc`), the tenant's policy, the wall clock, and
a ghost (`heldTicks`) that counts the time really spent in `pending`. Each handler is
one atomic action made of the operators it calls, in the order it calls them:
`Updated` is assignment, severity, status, and the recomputation that follows a
status change made together with a change of severity.

Time is a number of ticks and never runs backwards. `TicksPerSecond` ticks are
a second: `resume()` counts whole seconds of timestamps that carry microseconds,
and the truncation is modelled by `WholeSeconds`. Policy targets are given in
ticks. Left out because no property is about them: title, classification,
`updated_at`, audit rows, events, and who the assignee is.

### The gate (`IngestGate`)

A script's delivery goes through its attempts (`Post`, pauses that double, a
verdict on the answer), each stamped by the manager's clock and signed anew. A
handler is split where `authenticate` and `ingest` await: it looks at the
cache, may load the row from PostgreSQL, stores what it loaded under the time at
which it asked, verifies against the row it holds, and hands everything to the
Lua script, which is one step: nonce, counter, XADD. `rows` keeps the tenant's
row as each commit left it, so that a decision can be related to the row it was
made on; `editing` is the change an administrator has flushed, for which the
cache is invalidated before the commit. PostgreSQL may be down, the API process
restarted, an answer lost, a request repeated by the network. Requests carry an
alert, a stamp and the secret they are signed with; a signature is valid exactly
if that is the row's secret. Left out: bodies that are no JSON or over the byte
limit, which no script sends.

### The pipeline (`IngestPipeline`)

A writer's `phase` says where in the loop of `run()` it is: `claim`
(`reclaim_orphans`), `read` (`_drain_once`), the three places where a
transaction lets others in (`insert`, `count`, `group`), `announce`, `ack`.
An exception (`Abort`) returns it to the top of the loop and leaves its batch
pending; a crash takes it `down` and a restart brings it back. What PostgreSQL
and Redis do is modelled from how the code uses them: an insert waits for an
uncommitted row with its key (`LockedRows`), the upsert into `ingest_stats`
waits for the transaction that holds the tenant's row of the day
(`StatsAreFree`), the partial unique index refuses a second open case
(`IndexAdmits`), acks and claims go by entry and not by holder, and the trim of
`MAXLEN ~` may remove any number of the surplus entries. `_group` reads the open
case of each fingerprint (`Look`) and writes back what it computed from that
reading (`Commit`): the ORM's `UPDATE` sets the value, it does not add to it.

An alert is its unique key and its group, which stands for rule, agent and
primary entity. A case is known by its fingerprint and its place among those
that had it. The deadlock that PostgreSQL may detect between two inserts is one
of the failures `Fails` covers. Left out: malformed stream entries (no producer
makes them), an unknown tenant (the foreign key of `ingest_stats` makes it a
failing batch like that of a stray alert), byte counts, evidence and entities,
case numbers (the counter's row is locked in the same transaction), the link to
a resolved case, and the second of writes that Redis may lose under
`appendfsync everysec`.

### Cases as transactions (`CaseTransactions`)

A session of the API or of the worker reads the rows of its list, one by one,
computes from what it has read with the operators of `IncidentClock`, flushes
and commits. As SQLAlchemy does, an `UPDATE` names only the columns that differ
from what was read (`Columns`), over the row as it then is; a flushed row is
locked until its session ends; an insert or reopening that another session's
uncommitted row would violate waits on the index, and one a committed row
violates fails the whole session. `bulk_update` goes through its list in one
session, and reading the next case flushes the one before it (autoflush). A case
of the list that is not there is skipped and reported (`absent`). The id of a new
case is its own: nobody has a case in hand before it is committed.

Two requests of analysts that name the same case can undo each other's columns
(section 4). `Undisturbed` says that no two under way do. It is no part of the
specification: it is the hypothesis of the theorems about stamps, the freeze and
bulk changes, and the run `cases`, which has one analyst, satisfies it.

### What a case keeps (`CaseFile`)

The consumer has one transaction at a time (`session`), in which it sees its own
writes (`db`) and nobody else does. `WriteBatch` finds the rows that are new; a batch
may bring an alert more than once, the insert stores one row, and every copy is new
to the code that looks for its key, so each is grouped and counted. `Group`
files one copy under the open case of its group or a new one and folds it into
the case's columns, its evidence and the entities, earliest timestamp first, and
`Commit` shows it all at once; `Fail` loses it, and the alerts come again. A ghost,
`stored`, keeps the copies that came with the batch that stored an alert. A document
is its alert and a size; `Shed` is the order in which a
snapshot over its budget gives things up. The list of cases is paged through by
any column (`FirstCases`, `FurtherCases`, `CloseCases`) while commits move the keys it
is sorted by; a ghost, `tied`, keeps the cases a page boundary passes over. Writers of
one tenant wait for each other, which `IngestPipeline` is about, so
they do not interleave here, and a case is resolved between transactions only:
what happens beside one is in `CaseTransactions`.

### Alerts over months (`AlertStorage`, `Keyset`)

Time is counted in days, and a month is a number of them. The daily job makes
this month and the next ones, then drops expired ones, each from its own reading
of the clock; it may be down (`missed` remembers for how long). An alert finds
its partition or is refused. Replays, several beside each other, walk their ranges
with a keyset cursor, a commit for each batch; a job is killed and given up, or run
again from the start when the worker restarts. `beside` is a ghost: the versions
that ran beside a job, its own among them. Somebody pages through the list. Days
begin with the system, so an alert dated before the month of its installation does
not occur.

A row of `Keyset` is a pair of key and id. Rows are ordered by both, but the
condition of a further page, written as a comparison of two Python tuples, reaches
SQL as a comparison of their first places: `Beyond` compares keys only. `Tied` are
the rows that share the key of a page's last row and come after it, which no further
page reaches. A cursor is the last row of a page, which is what encoding and decoding
one preserves. The order of a page is given by `Rank`, the number of rows that come
before one, and not by a sorting function: that is what `ORDER BY` promises, and what
can be reasoned about.

### Reports (`ReportLifecycle`)

Building a report is three queries over the cases, each of its own moment, with
the rows an earlier one returned kept by the session (`Seen`). The number is the
highest plus one, read before the insert and refused by the unique constraint if
somebody else had it. Edit, issue and delete load a row, check that it is a
draft, and write later. Ghosts of a request are the cases that changed since its first
query (`touched`) and since its second (`moved`), and whether a report was stored since
it read the highest number (`raced`); `freed` are the numbers deleted drafts had.

### Accounts (`Accounts`)

Ticks are half a second, because tokens and denials end at whole ones. One page
holds a pair of tokens, signs in and out, switches tenant, and lets at most one
refresh be in flight; answers can be lost. A refresh on the server is a check of
the denied keys, a read of the user, and the spending and minting, each of which
lets other requests in. Administrators of both kinds load themselves, then the
target, then write. Ghosts say who let a token go and whether a spent token was
taken while it had a second to live.

### Agents (`AgentSync`)

A sweep visits each tenant that was active when it began: it pages the tenant's
group by offset, then replaces the tenant's rows in one transaction at READ
COMMITTED. That is three steps. `UpsertAgents` waits for rows other transactions have
written; `PruneAgents` finds the rows to delete (`doomed`) among those committed when it
begins, so it misses what another sweep has not committed; `CommitAgents` waits for
their locks and makes everything visible. Two transactions that wait for each other
are a deadlock, and PostgreSQL fails one of them. An upsert is refused (`Refused`) if
it names an agent twice, if an agent's `ip` is a string that is no address, or if it
has more bind parameters than a statement may. All of it happens outside the `try`
that keeps one tenant's errors from the others, so it ends the sweep (`Raise`).
Groups change, agents move, managers fail or count agents they do not list, and
tenants are suspended, all of it between any two steps. `faulty` are the tenants
with an error as the sweep loaded them, because the ORM writes only what differs from
that. Ghosts say which sweeps have had a group change under them (`quiet`) and which
store, or have stored, beside another one (`company`); `Undisturbed` is neither.
`changes`, the number of changes of a group, is the clock; `MaxEvents` bounds the
changes and the upsets together.

### The screen (`LiveQueue`)

Writers commit and then publish, one event for each case, and may crash or fail
in between. Redis passes an event to whoever is subscribed. The browser's
connection goes from `opening` to `open` when the headers arrive and to
`subscribed` when the generator has subscribed, in that order. `Receive`,
`OnOpen`, `OnError`, `Reconnect` and `Merge` are the callbacks of
`useIncidentStream`.

The list, and the details of each case, are queries of TanStack Query 5: data or
none (`has`), a fetch that is idle, asked for or read, and what it has read. A fetch
asked for while one is under way starts it over if the query has data
(`StartsOver`); the first fetch is joined, and its answer ends an invalidation that
came meanwhile. The list is filtered and read page by page: `fits` are the cases
the filters let through as far down as pages are loaded, and any commit may change
it; `todo` is what the fetch has still to read. `LoadMore` adds a page and gives up
a fetch of all of them that is under way. The list is fetched by clicks and, by
`refetchInterval`, in every state of the stream; the details by events and by
opening the pane, and never at an interval. A pane that is closed keeps its details
for a while (`Forget`).

Ghosts: the cases the pill counts, the cases a fetch owes since a click (`owes`), the
cases with an event that did not come (`lost`), and those with an event that came
when a fetch it did not start over had read the case (`used`). Left out: what this
screen's own changes of a case invalidate, a window that is hidden, the counters of
the overview, and the length of intervals.

## 3. Runs

| Run | Bounds | What it shows |
|---|---|---|
| `clock` | 2 ticks a second, 6 ticks, 2 severities, 2 policies, stamps before and at creation | held time, the freeze, verdicts that stand, and that the clock implements `CaseStopwatch` |
| `gate` | 2 handlers, one body of 2 alerts, TTLs 1, 1 and 2, skew 1, margin 1, 2 alerts in a window of 2, 2 attempts, a manager's clock one ahead or one behind, 3 ticks, 1 edit, 1 fault | a signature is spent once, retired rows die, a retry is no replay, the rate limit is exact, what is taken for delivered is queued |
| `ingest` | 2 writers, 2 alerts of one case, 2 entries, batches of 2, trim at 1, 1 fault, 2 ticks of one day | four invariants, and that the pipeline implements `AlertLedger` (safety) |
| `counts` | 2 writers, 3 alerts of one case, 3 entries, batches of 1, no fault, one day | no alert is missing from the count of its case |
| `drain` | 2 writers, 2 alerts of one case, 2 entries, batches of 1, 1 fault | every accepted alert is filed in the end |
| `cases` | 2 cases of one fingerprint, 1 analyst and 1 worker, 5 requests, 2 severities, 2 ticks | the index holds, stamps follow the status, the freeze outlasts escalations read after the answer, a bulk change is whole |
| `file` | 3 alerts of 2 groups, batches of 3 copies, pages of 1, all sorts, a budget of 5, late and repeated delivery | columns and entities add up, snapshots keep faith, the list shows what keeps its place, skips nothing in the order its keys move along and repeats nothing in the other, ties with the end of a page apart |
| `storage` | 2 alerts of 2 stamps, months of 2 days, retention 3, 1 month ahead, 2 jobs, batches and pages of 1, 5 days, 1 kill | partitions follow retention; replays reach all of their range, and the list is whole, ties apart |
| `reports` | 2 requests at a time, 3 in all, 1 case, 2 adjoining periods, 2 reports, 1 tick | numbers are sequential, figures agree on cases that stand still, and only a request that had loaded the draft changes an issued report |
| `accounts` | 2 platform administrators and a third user, 1 tenant, 2 handlers, access of 1 and refresh of 3 half-seconds, 3 ticks, 2 pairs, 2 events | a spent token is refused, a page keeps its session, roles stay in bounds, the last administrator goes only in a race |
| `sync` | 2 tenants, 3 agents, one without an address, 2 sweeps, pages of 1, at most 3 agents, 2 rows in a statement, 1 event | quiet sweeps are exact and break off only for an address or their size, `synced_at` is honest, every sweep ends |
| `live` | one case that is created and changes once, 1 worker, 1 fault | the pill counts the case once, a click shows it if it is on the pages loaded, the pane is current but for events dropped or used up, list and stream recover |

Why the bounds are enough. `clock`: six ticks are three seconds, so two holds of
whole and of fractional seconds, a breach before, inside and after a hold, and
closing and reopening around it all occur; a policy has an upper and a lower
band, and one with no band for mild cases. `ingest`: two entries are enough for
two copies of an alert, two alerts of a case in one batch or in two, a batch
claimed from a live writer, and a redelivery after a commit; two writers are
enough for every pairwise race, and one fault for a crash at each step. `counts`
is a run of its own because its race needs a case that exists and two
transactions that join it, so three entries. `gate`: one handler can hold a row
while the other sees it invalidated, replaced and loaded again, on either side
of each TTL; a body fills the window, so its retry is refused for the rate or
let in as the window ends; one skew either way puts a request at both edges of
freshness. `cases`: a request over two cases and a worker are enough for every
order of read, flush, wait and commit; two analysts are the subject of section
4. `file` and `storage`: pages and batches of one put every boundary between any
two rows, tied or not; the documents fit, crowd out the rest, or fit nowhere; retention ends
inside a month. `reports`: the two periods adjoin, and three requests are
creation, issue and an edit beside it. `accounts`: a token is worth a refresh
before and after it ends, and two administrators and two handlers are enough for
the race about the last one. `sync`: one tenant's group has as many agents as a
statement takes, and the one that may join it comes first in order, so the page after
that has an agent twice, and a later sweep has a row too many; the one that may leave
it makes the next page miss one, and two sweeps on either side of it deadlock; the
other tenant's group is refused for its address. `file`: three cases of two groups
come to be, two copies and another alert fit in one batch. `live`:
one fault is an outage at any step, the change can fall into every phase of a fetch,
and the case is on the pages loaded, beyond them or filtered out. Several cases, cases
the token may not hear about, and writers that race to publish are left to the proofs,
which cover all but liveness. Counters are bounded by the constants named `Max...` and
by nothing else.

Interchangeable writers, handlers, requests and jobs are symmetric in `ingest`,
`counts`, `gate`, `reports`, `accounts` and `storage`; the runs with liveness,
`drain`, `sync` and `live`, use no symmetry. `CHECK_DEADLOCK FALSE` stands where a bounded run may end:
the pipeline, the gate, the accounts and the storage. The others are checked for
deadlock.

Fairness. `IngestPipeline`: a writer that can take its next step does, and one that
crashed restarts, because `run()` loops until it is stopped and the platform
restarts the container; an entry that stays pending becomes idle, because time
passes. Publishing, analysts, crashes and failures are not fair; faults are
bounded. `AcceptedIsFiled` makes one exception: an analyst who reopens old cases
for ever, each time between the query and the flush of a transaction, can make
the index refuse it every time. `AgentSync`: a sweep that began takes its next
step, because each request to a manager is an await with a timeout; who waits for a
row gets it before those who ask later, in the queue of its lock, so upsert and commit
are strongly fair; nobody has to begin a sweep.
`LiveQueue`: the server answers, the browser's timers fire, the list is fetched
at its interval, which wants a window that has the focus, and answers arrive. Nobody
has to click or to change a case, and faults are bounded.

## 4. Where the code and its documents differ

Each of these sentences of the repository is written down as a property beside
those that hold, with a configuration in which TLC finds a counterexample. A
configuration named `..._Differs` lists several: TLC stops at the first, and with the
other names deleted it shows the one that is left. These configurations are not among
the runs, which all pass.

| Sentence | What the code does | Property and configuration |
|---|---|---|
| "a pause cannot un-breach it" (`DESIGN.md:336`) | a hold after a late answer moves the response deadline past the answer (`incidents/sla.py:122`) | `LateAnswerStaysLate`, `MCIncidentClock_Differs` |
| "A manual severity change on an unanswered case re-tightens the clock." (`api/v1/incidents.py:307`) | the recomputation stands behind a transition that has answered the case | `SeverityIncreaseRetightens`, `MCIncidentClock_Differs` |
| "It starts at `first_seen`" (`incidents/sla.py:6`) | an older alert moves `first_seen` and not the deadlines (`incidents/grouping.py:173`) | `ClockStartsAtFirstSeen`, `MCIncidentClock_Differs` |
| "Only rows that actually landed get grouped" (`workers/ingest_consumer.py:113`) | two copies of an alert in one batch are both counted (`:163`) | `CountIsExact`, `MCIngestPipeline_Differs` |
| "exactly one incident with `alert_count == N`" (`DESIGN.md:905`) | across midnight two transactions lock different rows of `ingest_stats`, and one count is lost (`incidents/grouping.py:174`) | `NoAlertIsUncounted`, `MCIngestPipeline_Midnight` |
| "a redelivered alert is a no-op" (`workers/ingest_consumer.py:5`) | an alert without a usable timestamp is keyed by the time it is parsed (`ingest/parser.py:92`) | `OneRowPerEntry`, `MCIngestPipeline_Undated` |
| "An alert after resolution creates a new incident" (`incidents/grouping.py:107`) | an alert joins a case resolved between the query and the flush (`:157`) | `ClosedCaseTakesNoAlert`, `MCIngestPipeline_Differs` |
| "the row still lands" (`ingest/parser.py:10`) | one alert that no partition covers fails the batch it is in (`workers/ingest_consumer.py:109`) | `OthersAreFiled`, `MCIngestPipeline_Stray` |
| "A case closed while paused stops holding time" (`incidents/sla.py:146`) | of two requests that read one case, one holds it and the other closes it; it is closed and held (`api/v1/incidents.py:278`) | `ClosedIsNotHeld`, `MCCaseTransactions_TwoAnalysts` |
| "an issued report ... is never rewritten" (`models/report.py:30`) | an edit or delete that had loaded the draft writes after the issue (`api/v1/reports.py:263`) | `IssuedIsFinal`, `MCReportLifecycle_IssuedIsFinal` |
| "Nobody may change their own role or deactivate themselves" keeps an administrator (`api/v1/users.py:11`) | two administrators do it to each other (`:162`) | `AnAdminRemains`, `MCAccounts_LastAdmin` |
| "A partial read must never be mistaken for a decommissioned fleet" (`wazuh/sync.py:16`) | an agent that leaves between two pages moves the rest, and the one skipped is pruned (`:138`) | `NoAgentIsForgotten`, `MCAgentSync_Differs` |
| offsets produce "duplicate and skipped rows", a keyset does not (`pagination.py:3`) | the list of cases is sorted by keys that move, and a case jumps over the page boundary (`api/v1/incidents.py:190`) | `NoCaseIsSkipped`, `MCCaseFile_Differs` |
| "Keyset, not offset: a page boundary stays correct while rows arrive." (`api/v1/alerts.py:111`) | tuples of Python are compared, and only the timestamps reach SQL (`:112`): alerts tied with the last one of a page are skipped | `NoAlertIsSkipped`, `MCAlertStorage_Differs` |
| "run this across a time range. It re-runs the engine against the stored `raw` column" (`workers/reprocess.py:3`) | the same comparison (`:75`) passes by the alerts tied with the last one of a batch | `ReplayPassesNoneBy`, `MCAlertStorage_Differs` |
| "`id` is the tiebreaker, which matters far more on a low-cardinality column" (`api/v1/incidents.py:193`) | the same comparison (`:195`) skips the cases tied with the last one of a page | `KeptCasesAreShown`, `MCCaseFile_Differs` |
| "The old secret stops working immediately" (`api/v1/tenants.py:261`) | the cache is invalidated before the commit (`:280`); a load in between keeps the old secret for the soft TTL | `RotationIsImmediate`, `MCIngestGate_RotationIsImmediate` |
| "Never raises"; "one bad tenant must not stop the sweep" (`wazuh/sync.py:94`, `:103`) | what PostgreSQL or the driver refuses is raised outside the `try` (`:112`), and ends the sweep | `NoTenantStopsTheSweep`, `MCAgentSync_Differs` |
| "anything the manager cannot express as an address is dropped rather than allowed to fail the whole upsert" (`wazuh/sync.py:58`) | any string that is not empty is passed to an `inet` column (`:62`) | `AddressesAreDropped`, `MCAgentSync_Differs` |
| "a projection of what a client's manager said the last time we could reach it" (`wazuh/sync.py:3`) | of two syncs that store together, neither prunes the rows the other has not committed (`:136`), so rows of two readings remain | `CacheIsOneReading`, `MCAgentSync_Differs` |
| "the client refetches on receipt" (`events.py:11`) | an event that comes while the first fetch of a pane has read the case, or one of a pane that is closed, is used up by it (`useIncidentStream.ts:88`) | `RefetchesOnReceipt`, `MCLiveQueue_Differs` |
| "A dropped event costs one refresh cycle, not a missed incident" (`events.py:11`) | the pane is not fetched at an interval (`IncidentPane.tsx:50`), and stays behind until another event | `PaneCatchesUp`, `MCLiveQueue_Differs` |
| "3 new incidents — click to show" (`Incidents.tsx:389`) | the pill counts every case that is created, the list is filtered and paged (`:114`) | `PillCountsTheList`, `MCLiveQueue_Differs` |
| the same | a click during the first load of the list joins it, and a case that came after its read is not shown | `FirstLoadShowsCounted`, `MCLiveQueue_Differs` |

The runs check what does hold beside them: `IssuedIsFinalOnceSettled`,
`LastAdminGoesOnlyInARace`, `QuietSweepIsExact`, `ListIsWhole` and `PaneIsCurrent`
with their exceptions, and so on.

Others were met while reading. `/healthz` reports as backlog the length of a
stream whose entries are acked and never deleted (`ingest/stream.py:124`). The
schema orders a policy's times to respond and not its times to resolve, so an
escalation may loosen the resolution target (`schemas/tenant.py:111`). A case may
enter `pending` with nothing asked of the client (`DESIGN.md:334`). Correcting one
closed status to the other stamps `closed_at` again (`incidents/sla.py:145`). A
case that is closed or reopened between the second and the third query of a report is
counted as both closed and outstanding, or as neither (`reports/builder.py:185`).
"Load more" gives up a fetch that a click on the pill has started, and shows the new
cases only at the next interval. The list's own
interval inserts new cases, where `DESIGN.md:651` says never to. Two alerts
without an id and with one timestamp get one synthetic id (`ingest/parser.py:103`).
A script gives up on a 429 as on any 4xx. A refresh in flight at a sign-out
stores its tokens afterwards (`useAuth.ts:66`).

## 5. Proofs

The assumptions are those of the modules, each named in an `ASSUME`. For the clock:
ticks, stamps and severities are integers, `None` is not one, and the policies are
those the schema accepts. For the pipeline: bounds are natural numbers, and the
unique key of the table identifies an alert. For the others: lengths and bounds
are natural numbers, positive where the code divides by them or waits for them,
and a soft TTL is no longer than the hard one; accounts are in the beginning what
`create_user` and the check constraints admit; there are finitely many cases on a
screen; a list of cases names none twice, as the console selects a set; the id of
an alert is its primary key, the caps of a snapshot are positive and the few
entities it always keeps fit its budget; agents are numbers and the groups are
finite in the beginning. Everything is proved for every value of the constants that satisfies them, runs of any length
included. Seven theorems have a hypothesis beside the specification, each named
below with what it excludes and why it is needed.

### The clock

`IncidentClockProofs` proves all that `clock` checks, the refinement included, and that the stamps follow the status and whoever was touched was
answered. The invariants are not inductive as they stand. `TouchedIsAnswered`, for
one, needs that a running hold implies the status `pending`, and `VerdictsStand` needs that whoever is on hold or closed was answered before. The
strengthening `IInv` is the type invariant, `Consistent` (hold, closing and
answer agree with the status, and the answer and the hold lie in the past) and
`Hold` (the ghost counts at least the holds that ended and the one that runs).
The argument goes through one lemma, `NextIsRowStep`: whatever the handler, a
step leaves the clock of the row as it was, starts a hold, ends one, or is an
alert joining an open case. Each property, and each step of the stopwatch, is
then proved of those four cases instead of eight handlers.

### The gate

`IngestGateProofs` proves type correctness, `SignatureSpentOnce`, `RetiredRowDies`
and `DeliveredIsQueued`, for any number of handlers, scripts, edits and faults.
`RetiredRowDies` is about decisions, and follows from what is true of every
handler and cache entry on the way to one: the row it holds was still current
at most the age it is stored with before the request, and a hit is never older
than its TTL. Its second half, `QuietEditIsImmediate`, is that a replaced row decides
nothing that comes after the commit if nobody was loading it between the invalidation
and the commit; that the old secret always stops at the commit is not true (section 4). The argument does not need that an invalidation arrives: a load
that began before it and ends after it is dated to its beginning.
`SignatureSpentOnce` says that no signed request is queued twice. It holds because
the nonce of a queued request lasts until two skews and a margin after it was
spent, it was spent no earlier than one skew before its stamp, and it is fresh no
later than one skew after it; so freshness ends before the nonce does, provided
the call to Redis takes less than the margin. That is an assumption of the model,
built into `Tick`: the client is made without a timeout (`redis_client.py:13`), and
nothing in the code bounds the call. `DeliveredIsQueued` rests on what the handlers and
answers on the wire say about the queue.

`RetryIsNotReplay` has an invariant of its own, `SInv`. A script posts with a
stamp later than all that it has posted (`StampedBefore`), because its pauses are
a second or more and it does not post twice at one time; so a request that is
posted is nowhere yet. On its first way it is on the wire, or in the hands of one
handler, and its nonce is not spent before that handler spends it (`OnItsWay`,
`FirstHand`); only a request that the network repeats is met again (`SecondHand`).
The pause is a number that each failure doubles, as in the code, so that no power
of two has to be reasoned about.

`LimitIsExact` takes a third, `WInv`. In the window that runs, the counter stands
between what was queued in it and what was spent in it (`Counting`): it never
lags behind the queue, so the limit holds, and never runs ahead of the nonces, so a
refusal has more than the limit behind it. The first half needs that a new window
begins after all that was queued before; the second that no request is counted
twice, which is the argument for `SignatureSpentOnce` over again, now for refused
requests too (`StampsLast`). How many alerts there are in a set of bodies is the
cardinality of a set of pairs, so the lemmas about it (`SizeGrows`,
`SizeOfOneMore`) follow from the library's facts about finite sets.

### The pipeline

`IngestPipelineProofs` proves type correctness, `AcknowledgedIsFiled`,
`OneOpenCase` and `AnnouncedExists`, for any number of writers and alerts and any
batch size. `AcknowledgedIsFiled` is about entries no writer holds, so it
says nothing of what an ack is about to release; the strengthening describes what
each writer has in hand (`Writer`): while it writes, every entry of its batch
has been parsed into a row that the transaction inserted or another one
committed; the cases it has read exist and have the fingerprint it looked for;
once it has committed, its batch is filed. `WriterKept` shows that no one else's
step disturbs this, because entries, rows and cases are only ever added, so each
step is checked for the one writer that takes it. `OneOpenCase` rests on the
index alone, and not on what a transaction has read.

The same module proves that the pipeline implements `AlertLedger`, assuming that timestamps parse: the row of an alert without one is made when it
is parsed, and is another at each delivery (section 4). The
invariant grows by three parts. `Exclusive`: the rows a transaction has inserted
are nobody else's and not in the table, which is what the row locks give.
`Founded`: every case has an alert, so a case the ledger sees as new is one the
commit created. `Numbered`: the cases of a fingerprint are numbered without a
gap, so a case the commit creates never was before. A commit is then a filing, or
nothing the ledger sees if all its rows were there; closing and reopening is a
review; every other step is the buffer's.

The counts of the cases are bounded from both sides. `RedeliveryIsNotCounted`, an
upper bound, is proved under the same hypothesis about timestamps. A transaction
adds to a count the rows it has inserted (`FilesCounts`), each of which an entry
carries that carried no row of the case before, because the row is new; and what it
adds them to, a count it read earlier, is within the bound too, since entries that
carry a case's alerts only come to be (`ReadWithin`). That two transactions may
overwrite each other's counts does no harm here: counts get less. `NoAlertIsUncounted`
is the lower bound, and there it does. It is proved of runs in which no transaction
goes on past midnight once it has counted its alerts in `ingest_stats`
(`Spec /\ []SameDay`); section 4 has the counterexample without this. Within a day,
the row of `ingest_stats` keeps the transactions of a tenant apart (`Apart`), so the
count that one of them has read is still that of the case when it commits
(`Latest`).

### Cases as transactions

`CaseTransactionsProofs` proves `OneOpenCase` for any lists, sessions and
fingerprints. The database alone does not give it in this form, because a session
holds rows it has flushed and not committed. The invariant has three parts.
`SessionOK`: what a session has flushed, it has read and computed. `Single`: the
rows a session would leave, over the committed ones, have one open case for each
fingerprint. `Apart`: sessions hold different rows, and where one has opened a
case no other has an open one of its fingerprint. A flush keeps the second part
by the index and the third by its wait; a commit makes the second part true of
the table, and leaves it true of the others by the third.

`StampsFollowStatus`, `FrozenOnceSettled` and `BulkIsWhole` are proved for any
number of analysts and workers, as long as no two requests under way name the same
case (`Spec /\ []Undisturbed`). The invariant says what a session has in hand
(`InHand`): the row it read and the row it would write are in order (`Steady`: held
exactly while pending, closed exactly while the status says so), the deadlines
between the two are frozen (`Frozen`), a worker changes nothing of the hold
(`SameHold`), and the hold of a case an analyst has in hand is still the one that was
read. So whatever columns are merged into the committed row, either all of the
hold's come from one side or none differ. For `BulkIsWhole`, each case of a request
is still to be read, in hand, was not there, or has the status asked for already
(`Covered`).

### Reports

`ReportLifecycleProofs` proves `NumbersAreSequential`, `UntouchedFiguresAgree` and
`IssuedIsFinalOnceSettled`. Numbers: whatever a request read as the highest number was
in use when it was read, and every number below one in use is in use or was freed by a
deletion, also while requests hold numbers that are not stored yet; and a request
whose number is taken has had another report stored since. `UntouchedFiguresAgree`
speaks of quiet cases only: `Found` says what the queries a request
has made so far saw of each case nobody touched since, and nothing is said of a case
that moves between two queries, which may count twice or not at all. For adjoining
periods it speaks of all cases: `Reported` says that what is
stored keeps the period in which it was opened, and a case has one time of
creation, which lies in one of two adjoining periods.

### Alerts over months

`StorageProofs` proves all that `storage` checks. `PartitionsFollowRetention`: a partition is dropped if
the month after it begins no later than the month of the cutoff, and months are
monotone in days (`MonthIsMonotone`), so none of its days is inside retention. For
coverage, the months from that of the horizon to the last ensured one plus those
made ahead are there: dropping takes only earlier ones, and a tick moves the
horizon forward.

`ListIsWhole` and `ReplayReachesAll` rest on one lemma about keyset pages, `Pages`:
of any finite set of rows, a page holds rows beyond the cursor, none twice, and
every other row beyond the cursor comes after its last, so it is beyond the next cursor
or tied with it; it is empty only if there are none. It follows from the ranks of the rows: different rows have different
ranks (`RankIsUnique`), and every number below that of the rows is one
(`RankIsOnto`). For the list, `Browsing` says between two pages that what was shown
does not lie beyond the cursor, so it is not shown again, and that what was there
all the time was shown, lies beyond it, or is tied with the end of a page; rows arrive
and go, but none moves
(`Settled`) and no id is used twice (`Arrivals`). For the replay, `Owing` says that
each alert it owes is beyond its cursor, tied with the end of a batch, or mapped by the
version asked for or that of a replay beside it; a replay
that starts over has everything beyond its cursor again. The ties are exempt because
the code passes them by (section 4), and nothing else is.

### What a case keeps

`StorageProofs` proves `RowsAddUp`, `SnapshotKeepsFaith` and `FileTypeOK`, for any set
of alerts, finite or not, and any batches and caps. Counts are those of the copies that
came with the batch that stored an alert, which is one unless a batch brings it twice
(section 4); what is delivered in a later batch is not counted. The model folds one copy
in a step,
so no induction over a batch is needed, only that one more copy keeps what is
true of those before it. That is said of one row and the alerts behind it:
`CaseStandsFor` (count, first and last time, snapshot) and `EntityStandsFor`. `DbHolds`
says it of every row of a database, and that ids, cases and links refer to what is
there; `GroupedKeeps` proves that `Grouped` keeps it, from one lemma for the case that
takes the alert and one for the entities it touches. The invariant, `FileHolds`,
is that `DbHolds` is true of what is committed and of what the transaction sees,
which is more than what is committed by no copy that is still to be grouped
(`SessionHolds`); so a commit needs no argument of its own.

For the snapshot, `MergeAdds` says that merging appends what is not there yet, up
to the cap, which rests on the positions of first occurrences being numbered
without a gap (the lemmas about `Ascending`), and `ShedKeeps` what each
level of shedding gives up. "Truncated" once set stays set, so a snapshot without
the mark has never lost anything, and the entities it holds are those of all
alerts. The first document is given up only at the last level, and then it does
not fit beside the few entities. That the opener of a case is one alert is the
primary key's doing.

### The list of cases

`CaseListIsWhole` reuses `Pages`, of rows that now move between two pages.
`CasesMoveAlong`, a theorem of its own, says how: no step takes a case away, and
`first_seen` only moves back, `last_seen` and the count only forward. What is true
between two pages, `Leafing`, has three parts. A case that kept its place was shown,
lies beyond the cursor, or was tied with the end of a page. In the order that keys move along (`WithThem`), so was
one that was there all the time, because a case beyond the cursor can only move
further. In the other order (`Against`), no case that was shown lies beyond it,
because it can only move back. `SeatsMove` carries them over a commit and
`CasesListed` over a page.

### Agents

`StorageProofs` proves `SyncedAtIsHonest` and `QuietSweepIsExact`, for any tenants,
sweeps and page sizes. `SyncedAtIsHonest` is about rows; its invariant says the
same of what is on the way to them: an agent that a sweep has collected was in the
tenant's group at the time the sweep will write or later (`Held`), and `lastIn`
never goes back. `QuietSweepIsExact` is about steps: the commit of a sweep that is
`Undisturbed` leaves the group, and one that is refused has an agent without an address
or more agents than a statement takes.
`Exact` says that, as long as the group has not changed under it, what a sweep has
collected is the first part of the group in order, up to its offset; `InOrderAscends`
and `BelowIsOnto` say that the list of a finite set has every member once, so a quiet
reading never has an agent twice. And as long as nobody else stores the tenant's rows,
what the pruning has found is all that is in the cache beside what the sweep brings.

### Accounts

`AccountsProofs` proves all that `accounts` checks. The invariant has three parts
beside types and the fact that whatever a token, a page or a handler names was
issued. `Administered`: what a request of an administrator is about to write fits
the row it is for when it is written, because of a row only role and active flag
ever change, and never between staff and clients. `Denied`: a spent token is denied
until its last second or is in it. `Kept`, for `PageKeepsItsSession`: the page's
token has not been denied, was let go, or is in the hands of the one exchange that
the page waits for (`Stored`, `OneFlight`); a handler that checks a token finds one
that is good (`Checked`); the pair a handler has minted is new to everybody else
(`Fresh`); and whoever is refused for a spent token has one that was let go
(`Told`). `LastAdminGoesOnlyInARace` is a step's property: nobody can write to
their own row, so who takes the last administrator away is not one.

### The screen

`LiveQueueProofs` proves `PillCountsEachOnce`, `PaneIsCurrent` and
`MergeShowsTheNewCases`, for any finite set of cases and any number of writers,
changes and faults. `Singles`: a case is created once, so one event at most says
that it is new, and that event is in the outbox of one writer, or on the wire, or
counted by the pill; the number on the pill is a cardinality, and an event adds a
case that is not in it. `Fresh`: details whose case has told all (`Heard`: no event of it
is under way, was dropped, or was used up by a fetch it joined) are the case as it is,
if they have been read, or are there and not invalidated. `Attended`: what an open pane
shows at rest is not invalidated. The two make `PaneIsCurrent`, whose exceptions are
those of `Heard`. `Owed`: a case the list owes since a click exists, and, once the list
has been loaded, is on a page that is still to be read or in what was read since; a
fetch that starts over reads all pages again. It owes what the filters and the pages
loaded let through, and no longer what changes, or what "Load more" gives up.

### Only model-checked

Liveness under fairness, which is beyond the prover: `AcceptedIsFiled`,
`SweepEnds`, `ScreenRecovers`. Every other property of the runs is a theorem.

## 6. Plan

Done, in this order: the clock and its stopwatch; the pipeline and its ledger;
the gate; cases as transactions; reports; accounts; agents; storage; the case file;
the live queue; proofs of every property of the runs but liveness.

Next: a ledger for `LiveQueue` that forgets the stream; reopening in `CaseFile`, so
that the alerts of a group may return to an old case; `entities.py` with notes and
roles.

## 7. Not modelled

- Normalisation: pure functions over documents, driven by a YAML map. The work is
  data; the version or failure mark a row is left with is in `AlertStorage`.
- The rule cache: two Redis keys written together with expiry by Redis; one choice
  among fresh, fetched and stale, and no state that two steps could disagree on.
- Tenancy and roles: a condition added to each query and a test of the role, with
  no state. `Accounts` models which rows administrators may change, `LiveQueue`
  which events a screen hears.
- Overview, coverage, audit log, health and ingest status: queries that change
  nothing.
- Password resets, the bootstrap administrator and the command line; entity notes;
  tenant colours and the text of the install block; titles, classifications and
  audit rows: single writes that no other step reads.
- Wording and layout of reports, and the console's other routes: presentation.
