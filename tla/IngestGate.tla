----------------------------- MODULE IngestGate -----------------------------
(***************************************************************************)
(* The way of a client's alert into the stream: the integrator's script on  *)
(* the client's manager (deploy/wazuh/custom-awd-console), the webhook      *)
(* (api/v1/ingest.py), the cache of tenants it authenticates against        *)
(* (ingest/auth.py), the Lua script that admits and queues (ingest/stream.py)*)
(* and the administrator's changes to the tenant (api/v1/tenants.py).       *)
(* A handler is split at its awaits: the query of the tenant, the end of    *)
(* its session, and the call of the script.                                 *)
(***************************************************************************)
EXTENDS Integers, Sequences, FiniteSets

CONSTANTS
  None,
  Handlers,     \* requests in flight in the API process
  Alerts,       \* bodies that scripts deliver, one script each
  Count,        \* the number of alerts in a body
  SoftTtl,      \* tenant_cache_soft_ttl
  NegativeTtl,  \* tenant_cache_negative_ttl
  HardTtl,      \* tenant_cache_hard_ttl
  Skew,         \* ingest_max_skew_seconds
  Margin,       \* the 5 seconds a nonce outlives two skews
  Limit,        \* alerts a window admits
  Window,       \* and its length (rate_limit)
  MaxBatch,     \* ingest_max_batch
  Attempts,     \* ATTEMPTS of the script
  ClockErrors,  \* how far a manager's clock may be off
  MaxTime,      \* bound on the clock
  MaxEdits,     \* bound on committed changes of the tenant
  MaxFaults     \* bound on outages, restarts, lost answers and repeated requests

ASSUME IngestGateAssumption ==
  /\ {SoftTtl, NegativeTtl, HardTtl, Skew, MaxBatch, MaxTime, MaxEdits, MaxFaults} \subseteq Nat
  /\ {Margin, Limit, Window, Attempts} \subseteq Nat \ {0}
  /\ SoftTtl <= HardTtl /\ NegativeTtl <= HardTtl
  /\ ClockErrors \subseteq Int /\ ClockErrors # {}
  /\ Count \in [Alerts -> Nat]
  /\ None \notin Int /\ None \notin Alerts

ASSUME AnswersAssumption ==
  None \notin {"accepted", "replay", "limited", "unauthorised", "too large", "unavailable"}

ASSUME CounterAssumption == None \notin [used : Nat, until : Nat]

VARIABLES
  now,        \* seconds, of every clock but the manager's
  error,      \* how far the manager's clock is ahead
  rows,       \* the tenant's row, as each commit left it; none before it is created
  editing,    \* the uncommitted change of the tenant, if any
  unloaded,   \* ghost: nobody was loading the tenant since that change dropped the cache
  quiet,      \* ghost: the versions of the row replaced by such a change
  databaseUp, \* whether PostgreSQL answers
  cache,      \* TenantAuthCache: [row, at]; row 0 stands for "no such tenant"
  handler,    \* what each handler is doing
  wire,       \* requests sent that have not arrived
  known,      \* requests that were answered; any of them may arrive again
  nonces,     \* spent signatures, and when Redis forgets them
  rate,       \* the counter of the window: [used, until]
  queue,      \* what was added to the stream: [request, at]
  installed,  \* the secret in the manager's configuration
  script,     \* the delivery of each body
  faults

tenant == <<rows, editing, unloaded, quiet>>
redis  == <<nonces, rate, queue>>
vars   == <<now, error, tenant, databaseUp, cache, handler, wire, known, redis,
            installed, script, faults>>

Times    == 0 .. MaxTime
Versions == 1 .. Len(rows)

(* A signature is over the body and the time stamp, under a secret. *)
Requests == [alert : Alerts, stamp : Int, secret : Nat]

(* A request for a slug nobody has set up: nothing it is signed with fits. *)
Stranger == [alert |-> None, stamp |-> 0, secret |-> 0]

-----------------------------------------------------------------------------
(* The integrator's script *)

Idle == [phase |-> "start", attempt |-> 0, request |-> Stranger, since |-> 0, delay |-> 1]

(* Mutant: no pause between attempts. *)
NoDelay(state) == 0

(* time.sleep(delay): BACKOFF_SECONDS before the second attempt *)
Delay(state) == IF state.phase = "pause" THEN state.delay ELSE 0

(* post(): stamped and signed anew; the next delay is twice this one *)
Post(a) ==
  LET request == [alert |-> a, stamp |-> now + error, secret |-> installed]
  IN /\ script[a].phase \in {"start", "pause"}
     /\ now >= script[a].since + Delay(script[a])
     /\ installed # 0
     /\ wire' = wire \cup {request}
     /\ script' = [script EXCEPT ![a] = [phase |-> "wait", attempt |-> @.attempt + 1,
                                         request |-> request, since |-> now,
                     delay |-> IF @.phase = "pause" THEN 2 * @.delay ELSE @.delay]]
     /\ UNCHANGED <<now, error, tenant, databaseUp, cache, handler, known, redis,
                    installed, faults>>

(* The loop of deliver(), after an attempt that may be tried again *)
TryAgain(state) ==
  [state EXCEPT !.phase = IF @ # "wait" THEN @
                          ELSE IF state.attempt < Attempts THEN "pause" ELSE "failed",
                !.since = now]

(* The connection breaks, or five seconds pass without an answer. *)
Loses(a) ==
  /\ script[a].phase = "wait"
  /\ faults < MaxFaults /\ faults' = faults + 1
  /\ script' = [script EXCEPT ![a] = TryAgain(@)]
  /\ UNCHANGED <<now, error, tenant, databaseUp, cache, handler, wire, known, redis, installed>>

(* Mutant: whatever is not an error of the server is success. *)
DeliveryUnlessError(state, answer) ==
  IF answer = "unavailable" THEN TryAgain(state) ELSE [state EXCEPT !.phase = "done"]

(* deliver(): 2xx is success, 4xx the end of it, anything else another try *)
Delivery(state, answer) ==
  CASE answer = "accepted"    -> [state EXCEPT !.phase = "done"]
    [] answer = "unavailable" -> TryAgain(state)
    [] OTHER                  -> [state EXCEPT !.phase = "refused"]

-----------------------------------------------------------------------------
(* The webhook *)

Free == [ phase |-> "free", request |-> Stranger, again |-> FALSE, arrived |-> 0,
          row |-> None, source |-> "cache", decided |-> 0, answer |-> None ]

Becomes(h, state) == handler' = [handler EXCEPT ![h] = state]

Answered(state, answer) == [state EXCEPT !.phase = "answer", !.answer = answer]

(* timestamp_is_fresh *)
IsFresh(stamp) == stamp - now <= Skew /\ now - stamp <= Skew

(* authenticate(): everything after the tenant is known *)
Authentic(request, row) ==
  /\ IsFresh(request.stamp)
  /\ row # 0
  /\ request.secret = rows[row].secret
  /\ rows[row].admits          \* ip_is_allowed, of the manager's address
  /\ rows[row].active

(* authenticate() and the rest of the handler, up to the call of the script *)
Judged(state, row, source) ==
  LET judged == [state EXCEPT !.row = row, !.source = source, !.decided = now]
      size   == Count[state.request.alert]
  IN CASE ~Authentic(state.request, row) -> Answered(judged, "unauthorised")
       [] Authentic(state.request, row) /\ size = 0 -> Answered(judged, "accepted")
       [] Authentic(state.request, row) /\ size > MaxBatch -> Answered(judged, "too large")
       [] OTHER -> [judged EXCEPT !.phase = "publish"]

Ttl(row) == IF row = 0 THEN NegativeTtl ELSE SoftTtl

(* get(), up to the query: a fresh entry is used, one past the hard TTL is   *)
(* dropped, and one in between is kept in case the query fails.              *)
Lookup(h, request, again) ==
  LET state == [Free EXCEPT !.phase = "load", !.request = request, !.again = again,
                            !.arrived = now]
  IN IF cache = None
     THEN Becomes(h, state) /\ UNCHANGED cache
     ELSE IF now - cache.at < Ttl(cache.row)
     THEN Becomes(h, Judged(state, cache.row, "cache")) /\ UNCHANGED cache
     ELSE IF now - cache.at > HardTtl
     THEN Becomes(h, state) /\ cache' = None
     ELSE Becomes(h, [state EXCEPT !.row = cache.row]) /\ UNCHANGED cache

Arrives(h, request) ==
  /\ handler[h].phase = "free"
  /\ \/ request \in wire /\ wire' = wire \ {request} /\ Lookup(h, request, FALSE)
        /\ UNCHANGED faults
     \/ request \in known /\ UNCHANGED wire /\ Lookup(h, request, TRUE)
        /\ faults < MaxFaults /\ faults' = faults + 1
     \/ request = Stranger /\ rows = << >> /\ UNCHANGED <<wire, faults>>
        /\ Lookup(h, request, TRUE)
  /\ unloaded' = (unloaded /\ handler'[h].phase # "load")
  /\ UNCHANGED <<now, error, rows, editing, quiet, databaseUp, known, redis, installed, script>>

(* _load: the query *)
Load(h) ==
  /\ handler[h].phase = "load" /\ databaseUp
  /\ Becomes(h, [handler[h] EXCEPT !.phase = "store", !.row = Len(rows)])
  /\ UNCHANGED <<now, error, tenant, databaseUp, cache, wire, known, redis, installed,
                 script, faults>>

(* _load fails: the entry kept is served, if there is one *)
LoadFails(h) ==
  /\ handler[h].phase = "load" /\ ~databaseUp
  /\ Becomes(h, IF handler[h].row = None THEN Answered(handler[h], "unavailable")
                ELSE Judged(handler[h], handler[h].row, "stale"))
  /\ UNCHANGED <<now, error, tenant, databaseUp, cache, wire, known, redis, installed,
                 script, faults>>

(* Mutant: the entry is dated to when it is stored. *)
StoreDatedLate(h) ==
  /\ handler[h].phase = "store"
  /\ cache' = [row |-> handler[h].row, at |-> now]
  /\ Becomes(h, Judged(handler[h], handler[h].row, "query"))
  /\ UNCHANGED <<now, error, tenant, databaseUp, wire, known, redis, installed, script, faults>>

(* The session has closed: the entry is dated to before the query. *)
Store(h) ==
  /\ handler[h].phase = "store"
  /\ cache' = [row |-> handler[h].row, at |-> handler[h].arrived]
  /\ Becomes(h, Judged(handler[h], handler[h].row, "query"))
  /\ UNCHANGED <<now, error, tenant, databaseUp, wire, known, redis, installed, script, faults>>

-----------------------------------------------------------------------------
(* _PUBLISH_LUA, atomic in Redis *)

(* Mutant: a nonce lives as long as a time stamp is fresh on one side. *)
OneSidedTtl == Skew + Margin

NonceTtl == 2 * Skew + Margin

IsSpent(request) == request \in DOMAIN nonces /\ now < nonces[request]

Used == IF rate # None /\ (rate.until = None \/ now < rate.until) THEN rate.used ELSE 0

(* Mutant: EXPIRE if the counter stands at one. *)
CountedFromOne(size) ==
  [used  |-> Used + size,
   until |-> IF Used + size = 1 THEN now + Window ELSE IF Used = 0 THEN None ELSE rate.until]

(* INCRBY, and EXPIRE if this was the first of the window *)
Counted(size) ==
  [used  |-> Used + size,
   until |-> IF Used = 0 THEN now + Window ELSE rate.until]

Publish(h) ==
  LET request == handler[h].request
      counted == Counted(Count[request.alert])
  IN /\ handler[h].phase = "publish"
     /\ \/ /\ IsSpent(request)
           /\ Becomes(h, Answered(handler[h], "replay"))
           /\ UNCHANGED redis
        \/ /\ ~IsSpent(request)
           /\ nonces' = [r \in DOMAIN nonces \cup {request} |->
                          IF r = request THEN now + NonceTtl ELSE nonces[r]]
           /\ rate' = counted
           /\ IF counted.used > Limit
              THEN Becomes(h, Answered(handler[h], "limited")) /\ UNCHANGED queue
              ELSE /\ Becomes(h, Answered(handler[h], "accepted"))
                   /\ queue' = Append(queue, [request |-> request, at |-> now])
     /\ UNCHANGED <<now, error, tenant, databaseUp, cache, wire, known, installed, script, faults>>

(* The response: to the script that still waits for it, or to nobody. *)
Respond(h) ==
  LET state == handler[h]
      a     == state.request.alert
  IN /\ state.phase = "answer"
     /\ Becomes(h, Free)
     /\ known' = IF state.request = Stranger THEN known ELSE known \cup {state.request}
     /\ script' = IF ~state.again /\ script[a].phase = "wait" /\ script[a].request = state.request
                  THEN [script EXCEPT ![a] = Delivery(@, state.answer)]
                  ELSE script
     /\ UNCHANGED <<now, error, tenant, databaseUp, cache, wire, redis, installed, faults>>

-----------------------------------------------------------------------------
(* The administrator *)

FirstRow == [secret |-> 1, active |-> TRUE, admits |-> TRUE, at |-> now]

(* create_tenant: nothing is invalidated *)
Create ==
  /\ rows = << >> /\ databaseUp
  /\ rows' = <<FirstRow>>
  /\ UNCHANGED <<now, error, editing, unloaded, quiet, databaseUp, cache, handler, wire, known, redis,
                 installed, script, faults>>

Edits == {"secret", "status", "ingest_cidrs"}

Edited(row, edit) ==
  CASE edit = "secret"       -> [row EXCEPT !.secret = @ + 1, !.at = now]
    [] edit = "status"       -> [row EXCEPT !.active = ~@, !.at = now]
    [] edit = "ingest_cidrs" -> [row EXCEPT !.admits = ~@, !.at = now]

(* rotate_secret, update_tenant: the entry is dropped before the commit *)
Edit(edit) ==
  /\ rows # << >> /\ databaseUp /\ editing = None /\ Len(rows) <= MaxEdits
  /\ editing' = edit
  /\ cache' = None
  /\ unloaded' = \A h \in Handlers : handler[h].phase \notin {"load", "store"}
  /\ UNCHANGED <<now, error, rows, quiet, databaseUp, handler, wire, known, redis, installed,
                 script, faults>>

Commit ==
  /\ editing # None /\ databaseUp
  /\ rows' = Append(rows, Edited(rows[Len(rows)], editing))
  /\ editing' = None /\ unloaded' = FALSE
  /\ quiet' = IF unloaded THEN quiet \cup {Len(rows)} ELSE quiet
  /\ UNCHANGED <<now, error, databaseUp, cache, handler, wire, known, redis, installed,
                 script, faults>>

(* The block that create_tenant or rotate_secret returned is installed. *)
Install ==
  /\ rows # << >> /\ installed # rows[Len(rows)].secret
  /\ installed' = rows[Len(rows)].secret
  /\ UNCHANGED <<now, error, tenant, databaseUp, cache, handler, wire, known, redis,
                 script, faults>>

-----------------------------------------------------------------------------
(* The surroundings *)

(* PostgreSQL goes away, and the change that was not committed with it. *)
GoesDown ==
  /\ databaseUp /\ faults < MaxFaults
  /\ databaseUp' = FALSE /\ editing' = None /\ unloaded' = FALSE /\ faults' = faults + 1
  /\ UNCHANGED <<now, error, rows, quiet, cache, handler, wire, known, redis, installed, script>>

ComesBack ==
  /\ ~databaseUp
  /\ databaseUp' = TRUE
  /\ UNCHANGED <<now, error, tenant, cache, handler, wire, known, redis, installed, script,
                 faults>>

(* The API process restarts: what it had in memory and in flight is gone. *)
Restart ==
  /\ faults < MaxFaults /\ faults' = faults + 1
  /\ cache' = None /\ handler' = [h \in Handlers |-> Free]
  /\ known' = known \cup { handler[h].request : h \in { g \in Handlers :
                             handler[g].phase # "free" /\ handler[g].request # Stranger } }
  /\ editing' = None /\ unloaded' = FALSE
  /\ UNCHANGED <<now, error, rows, quiet, databaseUp, wire, redis, installed, script>>

(* The call of the Lua script takes less than Margin. *)
Tick ==
  /\ now < MaxTime
  /\ \A h \in Handlers : handler[h].phase = "publish" => now + 1 < handler[h].decided + Margin
  /\ now' = now + 1
  /\ UNCHANGED <<error, tenant, databaseUp, cache, handler, wire, known, redis, installed,
                 script, faults>>

Init ==
  /\ now = 0 /\ error \in ClockErrors
  /\ rows = << >> /\ editing = None /\ unloaded = FALSE /\ quiet = {} /\ databaseUp = TRUE
  /\ cache = None /\ handler = [h \in Handlers |-> Free]
  /\ wire = {} /\ known = {}
  /\ nonces = << >> /\ rate = None /\ queue = << >>
  /\ installed = 0 /\ script = [a \in Alerts |-> Idle]
  /\ faults = 0

Next ==
  \/ \E a \in Alerts : Post(a) \/ Loses(a)
  \/ \E h \in Handlers :
       \/ \E request \in wire \cup known \cup {Stranger} : Arrives(h, request)
       \/ Load(h) \/ LoadFails(h) \/ Store(h) \/ Publish(h) \/ Respond(h)
  \/ Create \/ Commit \/ Install
  \/ \E edit \in Edits : Edit(edit)
  \/ GoesDown \/ ComesBack \/ Restart \/ Tick

Spec == Init /\ [][Next]_vars

-----------------------------------------------------------------------------
(* Properties *)

StateTypeOK ==
  /\ now \in Times /\ error \in ClockErrors /\ databaseUp \in BOOLEAN
  /\ rows \in Seq([secret : Nat, active : BOOLEAN, admits : BOOLEAN, at : Times])
  /\ editing \in Edits \cup {None}
  /\ cache = None \/ cache \in [row : Versions \cup {0}, at : Times]
  /\ handler \in [Handlers -> [ phase : {"free", "load", "store", "publish", "answer"},
       request : Requests \cup {Stranger}, again : BOOLEAN, arrived : Times,
       row : Versions \cup {0, None}, source : {"cache", "query", "stale"}, decided : Times,
       answer : {"accepted", "replay", "limited", "unauthorised", "too large", "unavailable", None} ]]
  /\ wire \subseteq Requests /\ known \subseteq Requests
  /\ DOMAIN nonces \subseteq Requests /\ \A r \in DOMAIN nonces : nonces[r] \in Nat
  /\ rate = None \/ rate \in [used : Nat \ {0}, until : Nat \cup {None}]
  /\ queue \in Seq([request : Requests, at : Times])
  /\ installed \in Nat /\ faults \in 0 .. MaxFaults
  /\ script \in [Alerts -> [ phase : {"start", "wait", "pause", "done", "refused", "failed"},
       attempt : 0 .. Attempts, request : Requests \cup {Stranger}, since : Times, delay : Nat \ {0} ]]

TypeOK == StateTypeOK /\ unloaded \in BOOLEAN /\ quiet \subseteq Versions

(* "A given (tenant, signature) may be spent once": however late, however    *)
(* often and however many at a time its copies arrive, a request is queued   *)
(* once - the nonce outlives the time stamp whichever clock is ahead.        *)
SignatureSpentOnce ==
  \A i, j \in DOMAIN queue : queue[i].request = queue[j].request => i = j

(* When a version of the row stopped being the current one *)
RetiredAt(version) == IF version < Len(rows) THEN rows[version + 1].at ELSE now

(* How long after its replacement a row may still be used *)
Grace(row, source) ==
  CASE source = "query" -> 0 [] source = "cache" -> Ttl(row) [] source = "stale" -> HardTtl

(* A row that a commit replaced decides about no request that came more than *)
(* the TTL later, nor, while the database is away, more than the hard TTL    *)
(* later, whatever loads, invalidations and commits ran beside each other.   *)
RetiredWithinTtl ==
  \A h \in Handlers :
    LET state == handler[h]
    IN state.phase \in {"publish", "answer"} /\ state.row # None
       => state.arrived <= RetiredAt(state.row) + Grace(state.row, state.source)

(* An administrator's change during which nobody was loading the tenant takes *)
(* effect with its commit: neither the cache nor a request that has yet to be  *)
(* decided holds the row that it replaced.                                     *)
QuietEditIsImmediate ==
  \A version \in quiet :
    /\ cache = None \/ cache.row # version
    /\ \A h \in Handlers : handler[h].phase \in {"load", "store"} => handler[h].row # version

(* The two bounds on what a replaced row still decides: at once if nobody was  *)
(* loading it while it was replaced, and within the TTL otherwise.             *)
RetiredRowDies == RetiredWithinTtl /\ QuietEditIsImmediate

(* "The old secret stops working immediately" (rotate_secret): no request      *)
(* that came after a rotation committed is admitted on the secret before it.   *)
(* The cache is dropped before the commit, and a load in between brings the    *)
(* old secret back for the soft TTL.                                           *)
RotationIsImmediate ==
  \A h \in Handlers : \A version \in Versions :
    handler[h].phase = "publish" /\ version > handler[h].row
        /\ rows[version].secret # rows[handler[h].row].secret
      => handler[h].arrived <= rows[version].at

(* Each attempt of the script is signed anew, so no retry is refused as a    *)
(* replay of the attempt before it, even if that one was queued after all.   *)
RetryIsNotReplay ==
  \A h \in Handlers : handler[h].answer = "replay" => handler[h].again

(* When the window that the counter counts began; Redis keeps one without a TTL for ever. *)
WindowStart == IF rate.until = None THEN 0 ELSE rate.until - Window

(* How many alerts there are in the bodies of a set of requests *)
Bodies(requests) == UNION { {request} \X (1 .. Count[request.alert]) : request \in requests }
Size(requests)   == Cardinality(Bodies(requests))

(* From the start of a window to its end the stream takes no more than Limit *)
(* alerts, in whatever bodies and however the refused ones are counted.      *)
LimitHolds ==
  rate # None =>
    Size({ queue[i].request : i \in { j \in DOMAIN queue : queue[j].at >= WindowStart } })
      <= Limit

(* A request is refused for the rate only if more than Limit alerts came in  *)
(* the last Window seconds: no counter outlives its window.                  *)
LimitIsEarned ==
  \A h \in Handlers :
    handler[h].answer = "limited" =>
      Size({ r \in DOMAIN nonces : nonces[r] - NonceTtl > handler[h].decided - Window }) > Limit

(* The window neither admits more than it may nor refuses what it need not. *)
LimitIsExact == LimitHolds /\ LimitIsEarned

(* A body that its manager takes for delivered is in the stream. *)
DeliveredIsQueued ==
  \A a \in Alerts :
    script[a].phase = "done" /\ Count[a] > 0 => \E i \in DOMAIN queue : queue[i].request.alert = a
=============================================================================
