--------------------------- MODULE IngestGateProofs ---------------------------
(***************************************************************************)
(* Proofs about IngestGate, for any number of handlers and scripts and any  *)
(* lifetimes: a signature is spent once, a replaced row dies, what a script *)
(* takes for delivered is queued, a retry is no replay, and a window admits *)
(* what its limit says.                                                     *)
(***************************************************************************)
EXTENDS IngestGate, FiniteSetTheorems, TLAPS

Phases  == {"free", "load", "store", "publish", "answer"}
Sources == {"cache", "query", "stale"}
Answers == {"accepted", "replay", "limited", "unauthorised", "too large", "unavailable", None}

HandlerRecord ==
  [ phase : Phases, request : Requests \cup {Stranger}, again : BOOLEAN, arrived : Times,
    row : Versions \cup {0, None}, source : Sources, decided : Times, answer : Answers ]

RowRecord   == [secret : Nat, active : BOOLEAN, admits : BOOLEAN, at : Times]
QueueRecord == [request : Requests, at : Times]
ScriptRecord ==
  [ phase : {"start", "wait", "pause", "done", "refused", "failed"},
    attempt : 0 .. Attempts, request : Requests \cup {Stranger}, since : Times, delay : Nat \ {0} ]

LEMMA TypeIs ==
  StateTypeOK <=>
    /\ now \in Times /\ error \in ClockErrors /\ databaseUp \in BOOLEAN
    /\ rows \in Seq(RowRecord)
    /\ editing \in Edits \cup {None}
    /\ cache = None \/ cache \in [row : Versions \cup {0}, at : Times]
    /\ handler \in [Handlers -> HandlerRecord]
    /\ wire \subseteq Requests /\ known \subseteq Requests
    /\ DOMAIN nonces \subseteq Requests /\ \A r \in DOMAIN nonces : nonces[r] \in Nat
    /\ rate = None \/ rate \in [used : Nat \ {0}, until : Nat \cup {None}]
    /\ queue \in Seq(QueueRecord)
    /\ installed \in Nat /\ faults \in 0 .. MaxFaults
    /\ script \in [Alerts -> ScriptRecord]
BY DEF StateTypeOK, RowRecord, HandlerRecord, Phases, Sources, Answers, QueueRecord, ScriptRecord

-----------------------------------------------------------------------------
(* The invariant *)

Delivered(a) == Count[a] > 0 => \E i \in DOMAIN queue : queue[i].request.alert = a

(* The row a handler has was current not long before its request came.      *)
Dated(state) ==
  /\ state.arrived <= now
  /\ state.phase = "load" /\ state.row # None => state.arrived <= RetiredAt(state.row) + HardTtl
  /\ state.phase = "store" => state.row # None /\ state.arrived <= RetiredAt(state.row)
  /\ state.phase \in {"publish", "answer"} /\ state.row # None
       => state.arrived <= RetiredAt(state.row) + Grace(state.row, state.source)

(* A request about to be queued was fresh less than Margin ago.             *)
Timely(state) ==
  state.phase = "publish" =>
    /\ state.request \in Requests /\ Count[state.request.alert] # 0
    /\ state.request.stamp - state.decided <= Skew
    /\ state.decided - state.request.stamp <= Skew
    /\ state.decided <= now /\ now < state.decided + Margin

Accounted(state) ==
  state.phase = "answer" /\ state.answer = "accepted" => Delivered(state.request.alert)

HandlersOK == \A h \in Handlers : Dated(handler[h]) /\ Timely(handler[h]) /\ Accounted(handler[h])

RowsOK  == \A version \in Versions : rows[version].secret # 0 /\ rows[version].at <= now
CacheOK == cache # None => cache.at <= RetiredAt(cache.row)
EditOK  == editing # None => rows # << >>

(* The nonce of what is queued outlives the freshness of its stamp.         *)
SpentLongEnough(entry) ==
  /\ entry.request \in DOMAIN nonces
  /\ nonces[entry.request] >= entry.at + NonceTtl
  /\ entry.at >= entry.request.stamp - Skew

QueueOK == \A i \in DOMAIN queue : SpentLongEnough(queue[i])

AttemptsLeft ==
  \A a \in Alerts : script[a].phase \in {"start", "pause"} => script[a].attempt < Attempts

IInv ==
  /\ StateTypeOK /\ HandlersOK /\ RowsOK /\ CacheOK /\ EditOK /\ QueueOK
  /\ SignatureSpentOnce /\ DeliveredIsQueued /\ AttemptsLeft

LEMMA Numbers ==
  /\ SoftTtl \in Nat /\ NegativeTtl \in Nat /\ HardTtl \in Nat /\ Skew \in Nat
  /\ MaxBatch \in Nat /\ MaxTime \in Nat /\ MaxEdits \in Nat /\ MaxFaults \in Nat
  /\ Margin \in Nat /\ Margin > 0 /\ Limit \in Nat /\ Window \in Nat
  /\ Attempts \in Nat /\ Attempts > 0
  /\ NonceTtl \in Nat /\ NonceTtl = 2 * Skew + Margin
BY IngestGateAssumption DEF NonceTtl

LEMMA RetiredBy ==
  ASSUME StateTypeOK, RowsOK, NEW version \in Versions \cup {0}
  PROVE  RetiredAt(version) \in Int /\ RetiredAt(version) <= now
<1>1. CASE version < Len(rows)
  <2>1. version + 1 \in Versions /\ Len(rows) \in Nat /\ rows[version + 1] \in RowRecord
    BY <1>1, TypeIs DEF Versions
  <2> QED
    BY <1>1, <2>1 DEF RetiredAt, RowsOK, RowRecord, Times
<1>2. CASE ~(version < Len(rows))
  BY <1>2, Numbers, TypeIs DEF RetiredAt, Times
<1> QED
  BY <1>1, <1>2

-----------------------------------------------------------------------------
(* Steps that leave clock, rows and stream alone: one handler moves.        *)

LEMMA Moved ==
  ASSUME StateTypeOK, NEW h \in Handlers, NEW state \in HandlerRecord, Becomes(h, state)
  PROVE  /\ handler' \in [Handlers -> HandlerRecord]
         /\ \A g \in Handlers : handler'[g] = IF g = h THEN state ELSE handler[g]
BY TypeIs DEF Becomes

LEMMA MovedOK ==
  ASSUME IInv, NEW h \in Handlers, NEW state \in HandlerRecord, Becomes(h, state),
         Dated(state), Timely(state), Accounted(state),
         UNCHANGED <<now, rows, queue>>
  PROVE  HandlersOK' /\ handler' \in [Handlers -> HandlerRecord] /\ HandlerRecord' = HandlerRecord
<1>1. HandlerRecord' = HandlerRecord
  BY DEF HandlerRecord, Versions
<1>2. ASSUME NEW g \in Handlers
      PROVE  Dated(handler'[g]) /\ Timely(handler'[g]) /\ Accounted(handler'[g])
  BY Moved DEF IInv, HandlersOK
<1>3. HandlersOK'
  BY <1>2 DEF HandlersOK, Dated, Timely, Accounted, RetiredAt, Grace, Delivered, Ttl
<1> QED
  BY <1>1, <1>3, Moved DEF IInv

(* authenticate(): what it leaves in a handler.                             *)
LEMMA JudgedOK ==
  ASSUME IInv, NEW state \in HandlerRecord, NEW row \in Versions \cup {0}, NEW source \in Sources,
         state.arrived <= now, state.arrived <= RetiredAt(row) + Grace(row, source)
  PROVE  /\ Judged(state, row, source) \in HandlerRecord
         /\ Dated(Judged(state, row, source))
         /\ Timely(Judged(state, row, source))
         /\ Accounted(Judged(state, row, source))
<1> DEFINE judged == [state EXCEPT !.row = row, !.source = source, !.decided = now]
           size   == Count[state.request.alert]
<1>1. /\ judged \in HandlerRecord
      /\ judged.arrived = state.arrived /\ judged.request = state.request
      /\ judged.row = row /\ judged.source = source /\ judged.decided = now
  BY TypeIs DEF IInv, HandlerRecord
<1>2. row # None
  BY IngestGateAssumption DEF Versions
<1> HIDE DEF judged
<1>3. ASSUME NEW answer \in Answers, answer = "accepted" => size = 0
      PROVE  /\ Answered(judged, answer) \in HandlerRecord
             /\ Dated(Answered(judged, answer))
             /\ Timely(Answered(judged, answer))
             /\ Accounted(Answered(judged, answer))
  <2> DEFINE new == Answered(judged, answer)
  <2>1. /\ new \in HandlerRecord /\ new.phase = "answer" /\ new.answer = answer
        /\ new.arrived = state.arrived /\ new.request = state.request
        /\ new.row = row /\ new.source = source
    BY <1>1 DEF Answered, HandlerRecord, Phases
  <2> HIDE DEF new
  <2>2. Dated(new) /\ Timely(new)
    BY <2>1 DEF Dated, Timely
  <2>3. Accounted(new)
    BY <2>1, <1>3 DEF Accounted, Delivered
  <2> QED
    BY <2>1, <2>2, <2>3 DEF new
<1>4. ASSUME Authentic(state.request, row), size # 0
      PROVE  LET new == [judged EXCEPT !.phase = "publish"]
             IN /\ new \in HandlerRecord /\ Dated(new) /\ Timely(new) /\ Accounted(new)
  <2> DEFINE new == [judged EXCEPT !.phase = "publish"]
  <2>1. /\ new \in HandlerRecord /\ new.phase = "publish" /\ new.decided = now
        /\ new.arrived = state.arrived /\ new.request = state.request
        /\ new.row = row /\ new.source = source
    BY <1>1 DEF HandlerRecord, Phases
  <2> HIDE DEF new
  <2>2. Dated(new) /\ Accounted(new)
    BY <2>1 DEF Dated, Accounted
  <2>3. state.request \in Requests
    <3>1. row \in Versions
      BY <1>4, IngestGateAssumption DEF Authentic
    <3>2. state.request # Stranger
      BY <1>4, <3>1 DEF Authentic, IInv, RowsOK, Stranger
    <3> QED
      BY <3>2 DEF HandlerRecord
  <2>4. Timely(new)
    BY <1>4, <2>1, <2>3, Numbers, TypeIs DEF Timely, Authentic, IsFresh, IInv, Times
  <2> QED
    BY <2>1, <2>2, <2>4 DEF new
<1>5. Judged(state, row, source) =
        CASE ~Authentic(state.request, row) -> Answered(judged, "unauthorised")
          [] Authentic(state.request, row) /\ size = 0 -> Answered(judged, "accepted")
          [] Authentic(state.request, row) /\ size > MaxBatch -> Answered(judged, "too large")
          [] OTHER -> [judged EXCEPT !.phase = "publish"]
  BY DEF Judged, judged
<1> HIDE DEF size
<1>6. CASE ~Authentic(state.request, row)
  <2>1. Judged(state, row, source) = Answered(judged, "unauthorised")
    BY <1>5, <1>6
  <2> QED
    BY <1>3, <2>1 DEF Answers
<1>7. CASE Authentic(state.request, row) /\ size = 0
  <2>1. size = 0 /\ ~(size > MaxBatch)
    BY <1>7, Numbers
  <2>2. Judged(state, row, source) = Answered(judged, "accepted")
    BY <1>5, <1>7, <2>1
  <2> QED
    BY <1>3, <2>1, <2>2 DEF Answers
<1>8. CASE Authentic(state.request, row) /\ size # 0 /\ size > MaxBatch
  <2>1. Judged(state, row, source) = Answered(judged, "too large")
    BY <1>5, <1>8
  <2> QED
    BY <1>3, <2>1 DEF Answers
<1>9. CASE Authentic(state.request, row) /\ size # 0 /\ ~(size > MaxBatch)
  <2>1. Judged(state, row, source) = [judged EXCEPT !.phase = "publish"]
    BY <1>5, <1>9
  <2> QED
    BY <1>4, <1>9, <2>1
<1> QED
  BY <1>6, <1>7, <1>8, <1>9

(* What else such a step may change: requests on their way, the cache, and  *)
(* the scripts that hear an answer.                                         *)
CacheFits(entry) ==
  entry # None => entry \in [row : Versions \cup {0}, at : Times] /\ entry.at <= RetiredAt(entry.row)

ScriptsFit(scripts) ==
  /\ scripts \in [Alerts -> ScriptRecord]
  /\ \A a \in Alerts :
       /\ scripts[a].phase = "done" => Delivered(a)
       /\ scripts[a].phase \in {"start", "pause"} => scripts[a].attempt < Attempts

LEMMA HandlerStep ==
  ASSUME IInv, NEW h \in Handlers, NEW state \in HandlerRecord, Becomes(h, state),
         Dated(state), Timely(state), Accounted(state),
         UNCHANGED <<now, error, rows, editing, databaseUp, redis, installed>>,
         wire' \subseteq Requests, known' \subseteq Requests, faults' \in 0 .. MaxFaults,
         CacheFits(cache'), ScriptsFit(script')
  PROVE  IInv'
<1>1. UNCHANGED <<now, error, rows, editing, databaseUp, nonces, rate, queue, installed>>
  BY DEF tenant, redis
<1>2. HandlersOK' /\ handler' \in [Handlers -> HandlerRecord] /\ HandlerRecord' = HandlerRecord
  BY <1>1, MovedOK
<1>3. cache' = None \/ cache' \in [row : Versions \cup {0}, at : Times]
  BY DEF CacheFits
<1>4. StateTypeOK'
  BY <1>1, <1>2, <1>3, TypeIs
  DEF IInv, ScriptsFit, StateTypeOK, HandlerRecord, Phases, Sources, Answers, ScriptRecord, Versions
<1>5. RowsOK' /\ EditOK' /\ QueueOK' /\ SignatureSpentOnce'
  BY <1>1 DEF IInv, RowsOK, EditOK, Versions, QueueOK, SpentLongEnough, SignatureSpentOnce
<1>6. CacheOK'
  BY <1>1 DEF CacheFits, CacheOK, RetiredAt
<1>7. DeliveredIsQueued' /\ AttemptsLeft'
  BY <1>1 DEF ScriptsFit, Delivered, DeliveredIsQueued, AttemptsLeft
<1> QED
  BY <1>2, <1>4, <1>5, <1>6, <1>7 DEF IInv

LEMMA CacheFitsNow ==
  ASSUME IInv  PROVE CacheFits(cache) /\ CacheFits(None) /\ ScriptsFit(script)
BY TypeIs DEF IInv, CacheOK, CacheFits, ScriptsFit, DeliveredIsQueued, Delivered, AttemptsLeft

LEMMA FreeOK ==
  /\ Free \in HandlerRecord /\ Free.phase = "free" /\ Free.row = None /\ Free.answer = None
  /\ Free.arrived = 0
BY Numbers DEF Free, HandlerRecord, Phases, Sources, Answers, Times

LEMMA LookupKeeps ==
  ASSUME IInv, NEW h \in Handlers, NEW request \in Requests \cup {Stranger}, NEW again \in BOOLEAN,
         Lookup(h, request, again),
         wire' \subseteq wire, faults' \in 0 .. MaxFaults,
         UNCHANGED <<now, error, rows, editing, databaseUp, known, redis, installed, script>>
  PROVE  IInv'
<1> DEFINE state == [Free EXCEPT !.phase = "load", !.request = request, !.again = again,
                                 !.arrived = now]
<1>1. /\ state \in HandlerRecord /\ state.phase = "load" /\ state.row = None /\ state.arrived = now
  BY FreeOK, TypeIs DEF IInv, HandlerRecord, Phases
<1>2. now \in Int
  BY TypeIs, Numbers DEF IInv, Times
<1> HIDE DEF state
<1>3. Dated(state) /\ Timely(state) /\ Accounted(state)
  BY <1>1, <1>2 DEF Dated, Timely, Accounted
<1>4. wire' \subseteq Requests /\ known' \subseteq Requests
  BY TypeIs DEF IInv
<1>5. ScriptsFit(script')
  BY CacheFitsNow
<1>6. CASE Becomes(h, state) /\ cache' \in {cache, None}
  <2>1. CacheFits(cache')
    BY <1>6, CacheFitsNow
  <2> QED
    BY <1>1, <1>3, <1>4, <1>5, <1>6, <2>1, HandlerStep
<1>7. ASSUME cache # None
      PROVE  /\ cache.row \in Versions \cup {0} /\ cache.at \in Int /\ cache.at <= RetiredAt(cache.row)
             /\ RetiredAt(cache.row) \in Int /\ Ttl(cache.row) \in Nat
  <2>1. /\ cache.row \in Versions \cup {0} /\ cache.at \in Int /\ cache.at <= RetiredAt(cache.row)
    BY <1>7, TypeIs, Numbers DEF IInv, CacheOK, Times
  <2> QED
    BY <2>1, RetiredBy, Numbers DEF IInv, Ttl
<1>8. CASE /\ cache # None /\ now - cache.at < Ttl(cache.row) /\ UNCHANGED cache
           /\ Becomes(h, Judged(state, cache.row, "cache"))
  <2>1. state.arrived <= now /\ state.arrived <= RetiredAt(cache.row) + Grace(cache.row, "cache")
    BY <1>1, <1>2, <1>7, <1>8 DEF Grace
  <2>2. "cache" \in Sources
    BY DEF Sources
  <2>3. /\ Judged(state, cache.row, "cache") \in HandlerRecord
        /\ Dated(Judged(state, cache.row, "cache"))
        /\ Timely(Judged(state, cache.row, "cache"))
        /\ Accounted(Judged(state, cache.row, "cache"))
    BY <1>1, <1>7, <1>8, <2>1, <2>2, JudgedOK
  <2>4. CacheFits(cache')
    BY <1>8, CacheFitsNow
  <2> QED
    BY <1>4, <1>5, <1>8, <2>3, <2>4, HandlerStep
<1>9. CASE /\ cache # None /\ ~(now - cache.at > HardTtl) /\ UNCHANGED cache
           /\ Becomes(h, [state EXCEPT !.row = cache.row])
  <2> DEFINE kept == [state EXCEPT !.row = cache.row]
  <2>1. /\ kept \in HandlerRecord /\ kept.phase = "load" /\ kept.row = cache.row /\ kept.arrived = now
    BY <1>1, <1>7, <1>9 DEF HandlerRecord
  <2> HIDE DEF kept
  <2>2. Dated(kept) /\ Timely(kept) /\ Accounted(kept)
    BY <1>2, <1>7, <1>9, <2>1, Numbers DEF Dated, Timely, Accounted
  <2>3. CacheFits(cache')
    BY <1>9, CacheFitsNow
  <2> QED
    BY <1>4, <1>5, <1>9, <2>1, <2>2, <2>3, HandlerStep DEF kept
<1> QED
  BY <1>6, <1>8, <1>9 DEF Lookup, state

LEMMA ArrivesKeeps ==
  ASSUME IInv, NEW h \in Handlers, NEW request \in wire \cup known \cup {Stranger}, Arrives(h, request)
  PROVE  IInv'
<1>1. request \in Requests \cup {Stranger} /\ faults \in 0 .. MaxFaults
  BY TypeIs DEF IInv
<1>2. UNCHANGED <<now, error, rows, editing, databaseUp, known, redis, installed, script>>
  BY DEF Arrives
<1>3. /\ wire' \subseteq wire /\ faults' \in 0 .. MaxFaults
      /\ \E again \in BOOLEAN : Lookup(h, request, again)
  <2>1. CASE request \in wire /\ wire' = wire \ {request} /\ Lookup(h, request, FALSE) /\ UNCHANGED faults
    BY <1>1, <2>1
  <2>2. CASE /\ request \in known /\ UNCHANGED wire /\ Lookup(h, request, TRUE)
             /\ faults < MaxFaults /\ faults' = faults + 1
    <3>1. faults' \in 0 .. MaxFaults
      BY <1>1, <2>2, Numbers
    <3> QED
      BY <2>2, <3>1
  <2>3. CASE /\ request = Stranger /\ rows = << >> /\ UNCHANGED <<wire, faults>>
             /\ Lookup(h, request, TRUE)
    BY <1>1, <2>3
  <2> QED
    BY <2>1, <2>2, <2>3, Zenon DEF Arrives
<1> QED
  BY <1>1, <1>2, <1>3, LookupKeeps

LEMMA LoadKeeps ==
  ASSUME IInv, NEW h \in Handlers, Load(h)  PROVE IInv'
<1> DEFINE old   == handler[h]
           state == [old EXCEPT !.phase = "store", !.row = Len(rows)]
<1>1. /\ old \in HandlerRecord /\ old.phase = "load" /\ Dated(old) /\ Len(rows) \in Nat
  BY TypeIs DEF IInv, HandlersOK, Load
<1>2. /\ state \in HandlerRecord /\ state.phase = "store" /\ state.row = Len(rows)
      /\ state.arrived = old.arrived
  <2>1. Len(rows) \in Versions \cup {0}
    BY <1>1 DEF Versions
  <2> QED
    BY <1>1, <2>1 DEF HandlerRecord, Phases
<1>3. RetiredAt(Len(rows)) = now /\ Len(rows) # None
  BY <1>1, IngestGateAssumption DEF RetiredAt
<1>4. Becomes(h, state)
  BY DEF Load
<1> HIDE DEF state
<1>5. Dated(state) /\ Timely(state) /\ Accounted(state)
  BY <1>1, <1>2, <1>3 DEF Dated, Timely, Accounted
<1>6. CacheFits(cache') /\ ScriptsFit(script')
  BY CacheFitsNow DEF Load
<1>7. wire' \subseteq Requests /\ known' \subseteq Requests /\ faults' \in 0 .. MaxFaults
  BY TypeIs DEF IInv, Load
<1>8. UNCHANGED <<now, error, tenant, databaseUp, redis, installed>>
  BY DEF Load
<1> QED
  BY <1>2, <1>4, <1>5, <1>6, <1>7, <1>8, HandlerStep DEF tenant

LEMMA LoadFailsKeeps ==
  ASSUME IInv, NEW h \in Handlers, LoadFails(h)  PROVE IInv'
<1> DEFINE old == handler[h]
<1>1. /\ old \in HandlerRecord /\ old.phase = "load" /\ Dated(old)
  BY TypeIs DEF IInv, HandlersOK, LoadFails
<1>2. CacheFits(cache') /\ ScriptsFit(script')
  BY CacheFitsNow DEF LoadFails
<1>3. wire' \subseteq Requests /\ known' \subseteq Requests /\ faults' \in 0 .. MaxFaults
  BY TypeIs DEF IInv, LoadFails
<1>4. UNCHANGED <<now, error, tenant, databaseUp, redis, installed>>
  BY DEF LoadFails
<1>5. CASE old.row = None
  <2> DEFINE state == Answered(old, "unavailable")
  <2>1. /\ state \in HandlerRecord /\ state.phase = "answer" /\ state.row = None
        /\ state.arrived = old.arrived /\ state.answer = "unavailable"
    BY <1>1, <1>5 DEF Answered, HandlerRecord, Phases, Answers
  <2>2. Becomes(h, state)
    BY <1>5 DEF LoadFails
  <2> HIDE DEF state
  <2>3. Dated(state) /\ Timely(state) /\ Accounted(state)
    BY <1>1, <2>1 DEF Dated, Timely, Accounted
  <2> QED
    BY <1>2, <1>3, <1>4, <2>1, <2>2, <2>3, HandlerStep DEF tenant
<1>6. CASE old.row # None
  <2> DEFINE state == Judged(old, old.row, "stale")
  <2>1. old.row \in Versions \cup {0} /\ "stale" \in Sources
    BY <1>1, <1>6 DEF HandlerRecord, Sources
  <2>2. old.arrived <= now /\ old.arrived <= RetiredAt(old.row) + Grace(old.row, "stale")
    BY <1>1, <1>6 DEF Dated, Grace
  <2>3. state \in HandlerRecord /\ Dated(state) /\ Timely(state) /\ Accounted(state)
    BY <1>1, <2>1, <2>2, JudgedOK
  <2>4. Becomes(h, state)
    BY <1>6 DEF LoadFails
  <2> HIDE DEF state
  <2> QED
    BY <1>2, <1>3, <1>4, <2>3, <2>4, HandlerStep DEF tenant
<1> QED
  BY <1>5, <1>6

LEMMA StoreKeeps ==
  ASSUME IInv, NEW h \in Handlers, Store(h)  PROVE IInv'
<1> DEFINE old   == handler[h]
           state == Judged(old, old.row, "query")
           entry == [row |-> old.row, at |-> old.arrived]
<1>1. /\ old \in HandlerRecord /\ old.phase = "store" /\ Dated(old)
  BY TypeIs DEF IInv, HandlersOK, Store
<1>2. /\ old.row \in Versions \cup {0} /\ "query" \in Sources /\ old.arrived \in Times
      /\ old.arrived <= now /\ old.arrived <= RetiredAt(old.row)
  BY <1>1 DEF HandlerRecord, Sources, Dated
<1>3. old.arrived <= RetiredAt(old.row) + Grace(old.row, "query")
  <2>1. RetiredAt(old.row) \in Int
    BY <1>2, RetiredBy DEF IInv
  <2> QED
    BY <1>2, <2>1 DEF Grace
<1>4. state \in HandlerRecord /\ Dated(state) /\ Timely(state) /\ Accounted(state)
  BY <1>1, <1>2, <1>3, JudgedOK
<1>5. Becomes(h, state) /\ cache' = entry
  BY DEF Store
<1>6. CacheFits(entry)
  BY <1>2 DEF CacheFits
<1>7. CacheFits(cache') /\ ScriptsFit(script')
  BY <1>5, <1>6, CacheFitsNow DEF Store
<1>8. wire' \subseteq Requests /\ known' \subseteq Requests /\ faults' \in 0 .. MaxFaults
  BY TypeIs DEF IInv, Store
<1>9. UNCHANGED <<now, error, tenant, databaseUp, redis, installed>>
  BY DEF Store
<1> HIDE DEF state, entry
<1> QED
  BY <1>4, <1>5, <1>7, <1>8, <1>9, HandlerStep DEF tenant

-----------------------------------------------------------------------------
(* The script in Redis *)

(* The nonce of whatever was queued outlasts the time in which the same     *)
(* request can be judged fresh and published.                               *)
LEMMA NotYetQueued ==
  ASSUME IInv, NEW h \in Handlers, handler[h].phase = "publish", ~IsSpent(handler[h].request),
         NEW i \in DOMAIN queue
  PROVE  queue[i].request # handler[h].request
<1> DEFINE state == handler[h]
           entry == queue[i]
<1>1. /\ state.request \in Requests /\ state.decided \in Int /\ now \in Int
      /\ state.decided - state.request.stamp <= Skew
      /\ now < state.decided + Margin
  BY TypeIs, Numbers DEF IInv, HandlersOK, Timely, HandlerRecord, Times
<1>2. /\ entry \in QueueRecord /\ entry.at \in Int
      /\ SpentLongEnough(entry) /\ nonces[entry.request] \in Int
  <2>1. queue \in Seq(QueueRecord) /\ SpentLongEnough(entry)
    BY TypeIs DEF IInv, QueueOK
  <2>2. entry \in QueueRecord
    BY <2>1
  <2> QED
    BY <2>1, <2>2, TypeIs, Numbers DEF IInv, SpentLongEnough, QueueRecord, Times
<1> SUFFICES ASSUME entry.request = state.request  PROVE FALSE
  OBVIOUS
<1>3. /\ nonces[state.request] <= now
      /\ nonces[state.request] >= entry.at + NonceTtl
      /\ entry.at >= state.request.stamp - Skew
  BY <1>1, <1>2 DEF IsSpent, SpentLongEnough
<1>4. state.request.stamp \in Int
  BY <1>1 DEF Requests
<1> QED
  BY <1>1, <1>2, <1>3, <1>4, Numbers

LEMMA QueueGrows ==
  ASSUME StateTypeOK, NEW entry \in QueueRecord, queue' = Append(queue, entry)
  PROVE  /\ queue' \in Seq(QueueRecord)
         /\ \A i \in DOMAIN queue' :
              \/ i \in DOMAIN queue /\ queue'[i] = queue[i]
              \/ i = Len(queue) + 1 /\ queue'[i] = entry
         /\ \A i \in DOMAIN queue : i \in DOMAIN queue' /\ queue'[i] = queue[i]
         /\ Len(queue) + 1 \in DOMAIN queue' /\ queue'[Len(queue) + 1] = entry
BY TypeIs

LEMMA PublishKeeps ==
  ASSUME IInv, NEW h \in Handlers, Publish(h)  PROVE IInv'
<1> DEFINE old     == handler[h]
           request == old.request
           size    == Count[request.alert]
           entry   == [request |-> request, at |-> now]
<1>1. /\ old \in HandlerRecord /\ old.phase = "publish" /\ Dated(old) /\ Timely(old)
      /\ request \in Requests /\ size \in Nat \ {0} /\ now \in Nat
  BY TypeIs, Numbers, IngestGateAssumption
  DEF IInv, HandlersOK, Publish, Timely, Requests, Times
<1>2. ASSUME NEW answer \in Answers, answer # "accepted"
      PROVE  LET new == Answered(old, answer)
             IN new \in HandlerRecord /\ Dated(new) /\ Timely(new) /\ Accounted(new)
  <2> DEFINE new == Answered(old, answer)
  <2>1. /\ new \in HandlerRecord /\ new.phase = "answer" /\ new.answer = answer
        /\ new.row = old.row /\ new.source = old.source /\ new.arrived = old.arrived
    BY <1>1 DEF Answered, HandlerRecord, Phases
  <2> HIDE DEF new
  <2>2. Dated(new) /\ Timely(new) /\ Accounted(new)
    BY <1>1, <1>2, <2>1 DEF Dated, Timely, Accounted
  <2> QED
    BY <2>1, <2>2 DEF new
<1>3. UNCHANGED <<now, error, tenant, databaseUp, cache, wire, known, installed, script, faults>>
  BY DEF Publish
<1>4. CASE IsSpent(request) /\ Becomes(h, Answered(old, "replay")) /\ UNCHANGED redis
  <2>1. CacheFits(cache') /\ ScriptsFit(script') /\ "replay" \in Answers
    BY <1>3, CacheFitsNow DEF Answers
  <2>2. wire' \subseteq Requests /\ known' \subseteq Requests /\ faults' \in 0 .. MaxFaults
    BY <1>3, TypeIs DEF IInv
  <2> QED
    BY <1>2, <1>3, <1>4, <2>1, <2>2, HandlerStep DEF tenant
<1>5. ASSUME ~IsSpent(request),
             nonces' = [r \in DOMAIN nonces \cup {request} |->
                          IF r = request THEN now + NonceTtl ELSE nonces[r]],
             rate' = Counted(size),
             NEW answer \in {"accepted", "limited"}, Becomes(h, Answered(old, answer)),
             queue' = IF answer = "accepted" THEN Append(queue, entry) ELSE queue
      PROVE  IInv'
  <2> DEFINE new == Answered(old, answer)
  <2>1. /\ new \in HandlerRecord /\ new.phase = "answer" /\ new.answer = answer
        /\ new.request = request /\ new.row = old.row /\ new.source = old.source
        /\ new.arrived = old.arrived
    BY <1>1 DEF Answered, HandlerRecord, Phases, Answers
  <2> HIDE DEF new
  <2>2. Dated(new) /\ Timely(new)
    BY <1>1, <2>1 DEF Dated, Timely
  <2>3. /\ handler' \in [Handlers -> HandlerRecord]
        /\ \A g \in Handlers : handler'[g] = IF g = h THEN new ELSE handler[g]
    BY <1>5, <2>1, Moved DEF IInv, new
  <2>4. entry \in QueueRecord
    BY <1>1, TypeIs DEF IInv, QueueRecord
  <2>5. /\ queue' \in Seq(QueueRecord)
        /\ \A i \in DOMAIN queue' :
             \/ i \in DOMAIN queue /\ queue'[i] = queue[i]
             \/ i = Len(queue) + 1 /\ queue'[i] = entry
        /\ \A i \in DOMAIN queue : i \in DOMAIN queue' /\ queue'[i] = queue[i]
        /\ answer = "accepted" =>
             Len(queue) + 1 \in DOMAIN queue' /\ queue'[Len(queue) + 1] = entry
    BY <1>5, <2>4, QueueGrows, TypeIs DEF IInv
  <2>6. \A a : Delivered(a) => Delivered(a)'
    BY <2>5 DEF Delivered
  <2>7. answer = "accepted" => \E i \in DOMAIN queue' : queue'[i].request.alert = request.alert
    BY <2>5
  <2>8. HandlersOK'
    <3> SUFFICES ASSUME NEW g \in Handlers
                 PROVE  (Dated(handler[g]) /\ Timely(handler[g]) /\ Accounted(handler[g]))'
      BY DEF HandlersOK
    <3>1. UNCHANGED <<now, rows>>
      BY <1>3 DEF tenant
    <3>2. Dated(handler'[g]) /\ Timely(handler'[g])
      BY <2>2, <2>3 DEF IInv, HandlersOK
    <3>3. Dated(handler[g])' /\ Timely(handler[g])'
      BY <3>1, <3>2 DEF Dated, Timely, RetiredAt, Grace, Ttl
    <3>4. Accounted(handler[g])'
      <4>1. CASE g = h
        BY <4>1, <2>1, <2>3, <2>7 DEF Accounted, Delivered
      <4>2. CASE g # h
        <5>1. handler'[g] = handler[g] /\ Accounted(handler[g])
          BY <4>2, <2>3 DEF IInv, HandlersOK
        <5> QED
          BY <5>1, <2>6 DEF Accounted
      <4> QED
        BY <4>1, <4>2
    <3> QED
      BY <3>3, <3>4
  <2>9. /\ DOMAIN nonces' \subseteq Requests /\ \A r \in DOMAIN nonces' : nonces'[r] \in Nat
        /\ \A r \in DOMAIN nonces : r \in DOMAIN nonces' /\ nonces'[r] >= nonces[r]
        /\ request \in DOMAIN nonces' /\ nonces'[request] = now + NonceTtl
    BY <1>1, <1>5, TypeIs, Numbers DEF IInv, IsSpent
  <2>10. rate' \in [used : Nat \ {0}, until : Nat \cup {None}]
    <3>1. Used \in Nat /\ (Used # 0 => rate # None)
      BY TypeIs DEF IInv, Used
    <3>2. Used # 0 => rate.until \in Nat \cup {None}
      BY <3>1, TypeIs DEF IInv
    <3> QED
      BY <1>1, <1>5, <3>1, <3>2, Numbers DEF Counted
  <2>11. StateTypeOK'
    <3>1. HandlerRecord' = HandlerRecord
      BY <1>3 DEF HandlerRecord, Versions, tenant
    <3>2. handler' \in [Handlers -> HandlerRecord']
      BY <2>3, <3>1
    <3> QED
      BY <1>3, <2>5, <2>9, <2>10, <3>2, TypeIs
      DEF IInv, StateTypeOK, tenant, HandlerRecord, Phases, Sources, Answers, QueueRecord, ScriptRecord, Versions
  <2>12. QueueOK'
    <3> SUFFICES ASSUME NEW i \in DOMAIN queue'
                 PROVE  /\ queue'[i].request \in DOMAIN nonces'
                        /\ nonces'[queue'[i].request] >= queue'[i].at + NonceTtl
                        /\ queue'[i].at >= queue'[i].request.stamp - Skew
      BY DEF QueueOK, SpentLongEnough
    <3>1. CASE i \in DOMAIN queue /\ queue'[i] = queue[i]
      <4>1. /\ SpentLongEnough(queue[i]) /\ queue[i] \in QueueRecord
        BY <3>1, TypeIs DEF IInv, QueueOK
      <4>2. queue[i].at \in Int /\ nonces[queue[i].request] \in Int /\ nonces'[queue[i].request] \in Int
        BY <4>1, <2>9, TypeIs, Numbers DEF IInv, SpentLongEnough, QueueRecord, Times
      <4> QED
        BY <3>1, <4>1, <4>2, <2>9, Numbers DEF SpentLongEnough
    <3>2. CASE queue'[i] = entry
      <4>1. /\ request.stamp - old.decided <= Skew /\ old.decided <= now
            /\ request.stamp \in Int /\ old.decided \in Int
        BY <1>1, Numbers DEF Timely, Requests, HandlerRecord, Times
      <4> QED
        BY <3>2, <4>1, <2>9, <1>1, Numbers
    <3> QED
      BY <3>1, <3>2, <2>5
  <2>13. SignatureSpentOnce'
    <3>1. \A i \in DOMAIN queue : queue[i].request # request
      BY <1>1, <1>5, NotYetQueued
    <3> QED
      BY <2>5, <3>1 DEF IInv, SignatureSpentOnce
  <2>14. DeliveredIsQueued' /\ AttemptsLeft'
    BY <1>3, <2>6 DEF IInv, DeliveredIsQueued, Delivered, AttemptsLeft
  <2>15. RowsOK' /\ CacheOK' /\ EditOK'
    BY <1>3 DEF IInv, RowsOK, CacheOK, EditOK, RetiredAt, Versions, tenant
  <2> QED
    BY <2>8, <2>11, <2>12, <2>13, <2>14, <2>15 DEF IInv
<1>6. CASE /\ ~IsSpent(request)
           /\ nonces' = [r \in DOMAIN nonces \cup {request} |->
                          IF r = request THEN now + NonceTtl ELSE nonces[r]]
           /\ rate' = Counted(size)
           /\ IF Counted(size).used > Limit
              THEN Becomes(h, Answered(old, "limited")) /\ UNCHANGED queue
              ELSE Becomes(h, Answered(old, "accepted")) /\ queue' = Append(queue, entry)
  BY <1>5, <1>6
<1> QED
  BY <1>4, <1>6, Zenon DEF Publish

(* An answer: the script, if it still waits, goes on by it.                 *)
LEMMA TryAgainOK ==
  ASSUME StateTypeOK, NEW state \in ScriptRecord, state.phase # "done"
  PROVE  /\ TryAgain(state) \in ScriptRecord /\ TryAgain(state).phase # "done"
         /\ state.phase = "wait" /\ TryAgain(state).phase \in {"start", "pause"}
              => TryAgain(state).attempt < Attempts
BY TypeIs DEF TryAgain, ScriptRecord

LEMMA DeliveryOK ==
  ASSUME StateTypeOK, NEW state \in ScriptRecord, state.phase = "wait", NEW answer
  PROVE  /\ Delivery(state, answer) \in ScriptRecord
         /\ Delivery(state, answer).phase = "done" => answer = "accepted"
         /\ Delivery(state, answer).phase \in {"start", "pause"}
              => Delivery(state, answer).attempt < Attempts
<1>1. CASE answer = "accepted"
  BY <1>1 DEF Delivery, ScriptRecord
<1>2. CASE answer = "unavailable"
  BY <1>2, TryAgainOK DEF Delivery
<1>3. CASE answer # "accepted" /\ answer # "unavailable"
  <2>1. Delivery(state, answer) = [state EXCEPT !.phase = "refused"]
    BY <1>3 DEF Delivery
  <2> QED
    BY <2>1 DEF ScriptRecord
<1> QED
  BY <1>1, <1>2, <1>3

LEMMA RespondKeeps ==
  ASSUME IInv, NEW h \in Handlers, Respond(h)  PROVE IInv'
<1> DEFINE state == handler[h]
           a     == state.request.alert
<1>1. /\ state \in HandlerRecord /\ state.phase = "answer" /\ Accounted(state) /\ now \in Int
  BY TypeIs, Numbers DEF IInv, HandlersOK, Respond, Times
<1>2. Becomes(h, Free) /\ UNCHANGED <<now, error, tenant, databaseUp, cache, wire, redis, installed, faults>>
  BY DEF Respond
<1>3. Dated(Free) /\ Timely(Free) /\ Accounted(Free) /\ Free \in HandlerRecord
  <2>1. 0 <= now
    BY TypeIs, Numbers DEF IInv, Times
  <2> QED
    BY FreeOK, <2>1 DEF Dated, Timely, Accounted
<1>4. known' \subseteq Requests
  <2>1. known' \subseteq known \cup {state.request} /\ (state.request = Stranger => known' = known)
    BY DEF Respond
  <2>2. known \subseteq Requests /\ state.request \in Requests \cup {Stranger}
    BY <1>1, TypeIs DEF IInv, HandlerRecord
  <2> QED
    BY <2>1, <2>2
<1>5. ScriptsFit(script')
  <2>1. CASE UNCHANGED script
    BY <2>1, CacheFitsNow
  <2>2. CASE /\ script[a].phase = "wait" /\ a \in Alerts
             /\ script' = [script EXCEPT ![a] = Delivery(script[a], state.answer)]
    <3>1. /\ script \in [Alerts -> ScriptRecord]
          /\ \A b \in Alerts :
               /\ script[b].phase = "done" => Delivered(b)
               /\ script[b].phase \in {"start", "pause"} => script[b].attempt < Attempts
      BY CacheFitsNow DEF ScriptsFit
    <3>2. /\ Delivery(script[a], state.answer) \in ScriptRecord
          /\ Delivery(script[a], state.answer).phase = "done" => Delivered(a)
          /\ Delivery(script[a], state.answer).phase \in {"start", "pause"}
               => Delivery(script[a], state.answer).attempt < Attempts
      BY <2>2, <3>1, <1>1, DeliveryOK DEF IInv, Accounted
    <3> QED
      BY <2>2, <3>1, <3>2 DEF ScriptsFit
  <2>3. CASE a \notin Alerts
    <3>1. script' = script
      BY <2>3, TypeIs DEF Respond, IInv
    <3> QED
      BY <3>1, CacheFitsNow
  <2> QED
    BY <2>1, <2>2, <2>3 DEF Respond
<1>6. wire' \subseteq Requests /\ faults' \in 0 .. MaxFaults /\ CacheFits(cache')
  BY <1>2, CacheFitsNow, TypeIs DEF IInv
<1> QED
  BY <1>2, <1>3, <1>4, <1>5, <1>6, HandlerStep DEF tenant

-----------------------------------------------------------------------------
(* Steps of the scripts, the administrator and the surroundings             *)

LEMMA OutsideStep ==
  ASSUME IInv, UNCHANGED <<now, error, rows, handler, known, redis>>,
         databaseUp' \in BOOLEAN, editing' \in Edits \cup {None}, wire' \subseteq Requests,
         installed' \in Nat, faults' \in 0 .. MaxFaults,
         CacheFits(cache'), ScriptsFit(script'), EditOK'
  PROVE  IInv'
<1>1. UNCHANGED <<now, error, rows, handler, known, nonces, rate, queue>>
  BY DEF redis
<1>2. cache' = None \/ cache' \in [row : Versions \cup {0}, at : Times]
  BY DEF CacheFits
<1>3. StateTypeOK'
  BY <1>1, <1>2, TypeIs
  DEF IInv, ScriptsFit, StateTypeOK, HandlerRecord, Phases, Sources, Answers, ScriptRecord, Versions
<1>4. HandlersOK'
  BY <1>1 DEF IInv, HandlersOK, Dated, Timely, Accounted, RetiredAt, Grace, Delivered, Ttl
<1>5. RowsOK' /\ QueueOK' /\ SignatureSpentOnce'
  BY <1>1 DEF IInv, RowsOK, Versions, QueueOK, SpentLongEnough, SignatureSpentOnce
<1>6. CacheOK'
  BY <1>1 DEF CacheFits, CacheOK, RetiredAt
<1>7. DeliveredIsQueued' /\ AttemptsLeft'
  BY <1>1 DEF ScriptsFit, Delivered, DeliveredIsQueued, AttemptsLeft
<1> QED
  BY <1>3, <1>4, <1>5, <1>6, <1>7 DEF IInv

LEMMA PostKeeps ==
  ASSUME IInv, NEW a \in Alerts, Post(a)  PROVE IInv'
<1> DEFINE request == [alert |-> a, stamp |-> now + error, secret |-> installed]
           new     == [phase |-> "wait", attempt |-> script[a].attempt + 1,
                       request |-> request, since |-> now,
                       delay |-> IF script[a].phase = "pause" THEN 2 * script[a].delay ELSE script[a].delay]
<1>1. /\ now \in Times /\ now \in Int /\ error \in Int /\ installed \in Nat
      /\ wire \subseteq Requests /\ script \in [Alerts -> ScriptRecord]
  <2>1. now \in Times /\ error \in ClockErrors
    BY TypeIs DEF IInv
  <2>2. now \in Int /\ error \in Int
    BY <2>1, Numbers, IngestGateAssumption DEF Times
  <2> QED
    BY <2>1, <2>2, TypeIs DEF IInv
<1>2. request \in Requests
  BY <1>1 DEF Requests
<1>3. /\ script' = [script EXCEPT ![a] = new] /\ wire' = wire \cup {request}
      /\ UNCHANGED <<now, error, tenant, databaseUp, cache, handler, known, redis, installed, faults>>
  BY DEF Post
<1>4. new \in ScriptRecord /\ new.phase = "wait"
  <2>1. script[a].attempt \in 0 .. Attempts /\ script[a].attempt < Attempts
    BY <1>1 DEF IInv, AttemptsLeft, Post, ScriptRecord
  <2>2. script[a].attempt + 1 \in 0 .. Attempts
    BY <2>1, Numbers
  <2> QED
    BY <1>1, <1>2, <2>2 DEF ScriptRecord
<1> HIDE DEF new, request
<1>5. ScriptsFit(script')
  BY <1>3, <1>4, CacheFitsNow DEF ScriptsFit
<1>6. /\ UNCHANGED <<now, error, rows, handler, known, redis>>
      /\ databaseUp' \in BOOLEAN /\ editing' \in Edits \cup {None} /\ wire' \subseteq Requests
      /\ installed' \in Nat /\ faults' \in 0 .. MaxFaults /\ CacheFits(cache') /\ EditOK'
  BY <1>2, <1>3, CacheFitsNow, TypeIs DEF IInv, EditOK, tenant
<1> QED
  BY <1>5, <1>6, OutsideStep

LEMMA LosesKeeps ==
  ASSUME IInv, NEW a \in Alerts, Loses(a)  PROVE IInv'
<1>1. /\ script' = [script EXCEPT ![a] = TryAgain(script[a])] /\ script[a].phase = "wait"
      /\ UNCHANGED <<now, error, tenant, databaseUp, cache, handler, wire, known, redis, installed>>
  BY DEF Loses
<1>2. faults' \in 0 .. MaxFaults
  BY TypeIs, Numbers DEF IInv, Loses
<1>3. /\ script[a] \in ScriptRecord /\ TryAgain(script[a]) \in ScriptRecord
      /\ TryAgain(script[a]).phase # "done"
      /\ TryAgain(script[a]).phase \in {"start", "pause"} => TryAgain(script[a]).attempt < Attempts
  BY <1>1, TryAgainOK, TypeIs DEF IInv
<1>4. ScriptsFit(script')
  BY <1>1, <1>3, CacheFitsNow DEF ScriptsFit
<1>5. /\ UNCHANGED <<now, error, rows, handler, known, redis>>
      /\ databaseUp' \in BOOLEAN /\ editing' \in Edits \cup {None} /\ wire' \subseteq Requests
      /\ installed' \in Nat /\ CacheFits(cache') /\ EditOK'
  BY <1>1, CacheFitsNow, TypeIs DEF IInv, EditOK, tenant
<1> QED
  BY <1>2, <1>4, <1>5, OutsideStep

LEMMA AdministratorKeeps ==
  ASSUME IInv, (\E edit \in Edits : Edit(edit)) \/ Install \/ GoesDown \/ ComesBack
  PROVE  IInv'
<1>1. /\ UNCHANGED <<now, error, rows, handler, known, redis, wire, script>>
      /\ cache' \in {cache, None}
  BY DEF Edit, Install, GoesDown, ComesBack, tenant
<1>2. CacheFits(cache') /\ ScriptsFit(script') /\ wire' \subseteq Requests
  BY <1>1, CacheFitsNow, TypeIs DEF IInv
<1>3. databaseUp' \in BOOLEAN /\ editing' \in Edits \cup {None} /\ EditOK'
  BY <1>1, TypeIs DEF IInv, Edit, Install, GoesDown, ComesBack, EditOK, tenant
<1>4. installed' \in Nat
  <2>1. CASE Install
    <3>1. rows # << >> /\ rows \in Seq(RowRecord) /\ installed' = rows[Len(rows)].secret
      BY <2>1, TypeIs DEF IInv, Install
    <3>2. rows[Len(rows)] \in RowRecord
      BY <3>1
    <3> QED
      BY <3>1, <3>2 DEF RowRecord
  <2>2. CASE UNCHANGED installed
    BY <2>2, TypeIs DEF IInv
  <2> QED
    BY <2>1, <2>2 DEF Edit, GoesDown, ComesBack
<1>5. faults' \in 0 .. MaxFaults
  <2>1. CASE GoesDown
    BY <2>1, TypeIs, Numbers DEF IInv, GoesDown
  <2>2. CASE UNCHANGED faults
    BY <2>2, TypeIs DEF IInv
  <2> QED
    BY <2>1, <2>2 DEF Edit, Install, ComesBack
<1> QED
  BY <1>1, <1>2, <1>3, <1>4, <1>5, OutsideStep

LEMMA RestartKeeps ==
  ASSUME IInv, Restart  PROVE IInv'
<1>1. /\ UNCHANGED <<now, error, rows, databaseUp, wire, nonces, rate, queue, installed, script>>
      /\ cache' = None /\ handler' = [h \in Handlers |-> Free] /\ editing' = None
  BY DEF Restart, redis
<1>2. known' \subseteq Requests
  <2>1. \A h \in Handlers : handler[h].request \in Requests \cup {Stranger}
    BY TypeIs DEF IInv, HandlerRecord
  <2> QED
    BY <2>1, TypeIs DEF IInv, Restart
<1>3. faults' \in 0 .. MaxFaults
  BY TypeIs, Numbers DEF IInv, Restart
<1>4. handler' \in [Handlers -> HandlerRecord']
  BY <1>1, FreeOK DEF HandlerRecord, Versions
<1>5. StateTypeOK'
  BY <1>1, <1>2, <1>3, <1>4, TypeIs
  DEF IInv, StateTypeOK, HandlerRecord, Phases, Sources, Answers, Versions
<1>6. HandlersOK'
  <2>1. 0 <= now
    BY TypeIs, Numbers DEF IInv, Times
  <2> QED
    BY <1>1, <2>1, FreeOK DEF HandlersOK, Dated, Timely, Accounted
<1> QED
  BY <1>1, <1>5, <1>6
  DEF IInv, RowsOK, CacheOK, EditOK, QueueOK, SpentLongEnough, SignatureSpentOnce,
      DeliveredIsQueued, AttemptsLeft, Versions

-----------------------------------------------------------------------------
(* The clock, and the commits of the administrator                          *)

LEMMA LaterStep ==
  ASSUME IInv, UNCHANGED <<handler, redis, cache, script>>, now <= now', now' \in Int,
         \A version \in Versions \cup {0} :
           RetiredAt(version)' \in Int /\ RetiredAt(version) <= RetiredAt(version)',
         StateTypeOK', RowsOK', EditOK', \A h \in Handlers : Timely(handler[h])'
  PROVE  IInv'
<1>1. UNCHANGED <<handler, nonces, rate, queue, cache, script>>
  BY DEF redis
<1>2. CacheOK'
  <2>1. cache = None \/ (cache.row \in Versions \cup {0} /\ cache.at \in Int)
    BY TypeIs, Numbers DEF IInv, Times
  <2>2. ASSUME cache # None  PROVE cache.at <= RetiredAt(cache.row)'
    <3>1. /\ RetiredAt(cache.row) \in Int /\ RetiredAt(cache.row)' \in Int
          /\ RetiredAt(cache.row) <= RetiredAt(cache.row)'
      BY <1>1, <2>1, <2>2, RetiredBy DEF IInv, RetiredAt
    <3> QED
      BY <1>1, <2>1, <2>2, <3>1 DEF IInv, CacheOK
  <2> QED
    BY <1>1, <2>2 DEF CacheOK, RetiredAt
<1>3. ASSUME NEW h \in Handlers  PROVE Dated(handler[h])'
  <2> DEFINE state == handler[h]
  <2>1. /\ state \in HandlerRecord /\ Dated(state) /\ handler' = handler
        /\ state.arrived \in Int /\ now \in Int
    BY <1>1, TypeIs, Numbers DEF IInv, HandlersOK, HandlerRecord, Times
  <2>2. CASE state.row = None
    BY <2>1, <2>2 DEF Dated
  <2>3. CASE state.row # None
    <3>1. state.row \in Versions \cup {0} /\ state.source \in Sources
      BY <2>1, <2>3 DEF HandlerRecord
    <3>2. /\ RetiredAt(state.row) \in Int /\ RetiredAt(state.row)' \in Int
          /\ RetiredAt(state.row) <= RetiredAt(state.row)'
      BY <2>1, <3>1, RetiredBy DEF IInv, RetiredAt
    <3>3. Grace(state.row, state.source) \in Nat
      BY <3>1, Numbers DEF Grace, Ttl, Sources
    <3>4. Grace(state.row, state.source)' = Grace(state.row, state.source)
      BY <2>1 DEF Grace, Ttl
    <3> QED
      BY <2>1, <2>3, <3>2, <3>3, <3>4, Numbers DEF Dated
  <2> QED
    BY <2>2, <2>3
<1>4. HandlersOK'
  BY <1>1, <1>3 DEF IInv, HandlersOK, Accounted, Delivered
<1> QED
  BY <1>1, <1>2, <1>4
  DEF IInv, QueueOK, SpentLongEnough, SignatureSpentOnce, DeliveredIsQueued, AttemptsLeft

LEMMA TickKeeps ==
  ASSUME IInv, Tick  PROVE IInv'
<1>1. /\ UNCHANGED <<error, rows, editing, databaseUp, cache, handler, wire, known, nonces, rate,
                      queue, installed, script, faults>>
      /\ now' = now + 1 /\ now < MaxTime
  BY DEF Tick, tenant, redis
<1>2. now \in Int /\ now' \in Times /\ now' \in Int /\ now <= now'
  BY <1>1, TypeIs, Numbers DEF IInv, Times
<1>3. StateTypeOK'
  BY <1>1, <1>2, TypeIs
  DEF IInv, StateTypeOK, HandlerRecord, Phases, Sources, Answers, RowRecord, QueueRecord, ScriptRecord, Versions
<1>4. ASSUME NEW version \in Versions \cup {0}
      PROVE  RetiredAt(version)' \in Int /\ RetiredAt(version) <= RetiredAt(version)'
  <2>1. RetiredAt(version) \in Int /\ RetiredAt(version) <= now
    BY RetiredBy DEF IInv
  <2> QED
    BY <1>1, <1>2, <2>1 DEF RetiredAt
<1>5. RowsOK'
  <2>1. \A version \in Versions : rows[version] \in RowRecord
    BY TypeIs DEF IInv, Versions
  <2> QED
    BY <1>1, <1>2, <2>1, Numbers DEF IInv, RowsOK, Versions, RowRecord, Times
<1>6. ASSUME NEW h \in Handlers  PROVE Timely(handler[h])'
  <2>1. Timely(handler[h]) /\ handler[h] \in HandlerRecord /\ handler[h].decided \in Int
    BY TypeIs, Numbers DEF IInv, HandlersOK, HandlerRecord, Times
  <2>2. handler[h].phase = "publish" => now + 1 < handler[h].decided + Margin
    BY DEF Tick
  <2> QED
    BY <1>1, <1>2, <2>1, <2>2 DEF Timely
<1>7. EditOK'
  BY <1>1 DEF IInv, EditOK
<1> QED
  BY <1>1, <1>2, <1>3, <1>4, <1>5, <1>6, <1>7, LaterStep DEF redis

LEMMA CommitKeeps ==
  ASSUME IInv, Create \/ Commit  PROVE IInv'
<1>1. /\ UNCHANGED <<now, error, databaseUp, cache, handler, wire, known, nonces, rate,
                      queue, installed, script, faults>>
      /\ editing' \in Edits \cup {None}
  BY TypeIs DEF IInv, Create, Commit, redis
<1>2. /\ now \in Int /\ now \in Times /\ Len(rows) \in Nat /\ rows \in Seq(RowRecord)
      /\ DOMAIN rows = 1 .. Len(rows)
  BY TypeIs, Numbers DEF IInv, Times
<1>3. PICK row \in RowRecord : rows' = Append(rows, row) /\ row.at = now /\ row.secret # 0
  <2>1. CASE Create
    <3>1. FirstRow \in RowRecord /\ FirstRow.at = now /\ FirstRow.secret # 0
      BY <1>2 DEF FirstRow, RowRecord
    <3>2. rows' = Append(rows, FirstRow)
      BY <2>1 DEF Create
    <3> QED
      BY <3>1, <3>2
  <2>2. CASE Commit
    <3> DEFINE last == rows[Len(rows)]
    <3>1. editing \in Edits /\ rows' = Append(rows, Edited(last, editing))
      BY <2>2, TypeIs DEF IInv, Commit
    <3>2. last \in RowRecord /\ last.secret # 0
      <4>1. rows # << >>
        BY <2>2 DEF IInv, EditOK, Commit
      <4>2. Len(rows) \in Versions
        BY <1>2, <4>1 DEF Versions
      <4> QED
        BY <1>2, <4>2 DEF IInv, RowsOK, Versions
    <3> HIDE DEF last
    <3>3. ASSUME NEW edit \in Edits
          PROVE  /\ Edited(last, edit) \in RowRecord
                 /\ Edited(last, edit).at = now /\ Edited(last, edit).secret # 0
      <4>1. CASE edit = "secret"
        <5>1. Edited(last, edit) = [last EXCEPT !.secret = last.secret + 1, !.at = now]
          BY <4>1 DEF Edited
        <5>2. last.secret + 1 \in Nat /\ last.secret + 1 # 0
          BY <3>2 DEF RowRecord
        <5> QED
          BY <1>2, <3>2, <5>1, <5>2 DEF RowRecord
      <4>2. CASE edit = "status"
        <5>1. Edited(last, edit) = [last EXCEPT !.active = ~@, !.at = now]
          BY <4>2 DEF Edited
        <5> QED
          BY <1>2, <3>2, <5>1 DEF RowRecord
      <4>3. CASE edit = "ingest_cidrs"
        <5>1. Edited(last, edit) = [last EXCEPT !.admits = ~@, !.at = now]
          BY <4>3 DEF Edited
        <5> QED
          BY <1>2, <3>2, <5>1 DEF RowRecord
      <4> QED
        BY <4>1, <4>2, <4>3 DEF Edits
    <3> QED
      BY <3>1, <3>3
  <2> QED
    BY <2>1, <2>2
<1>4. /\ rows' \in Seq(RowRecord) /\ Len(rows') = Len(rows) + 1 /\ Versions \subseteq Versions'
      /\ \A version \in Versions : rows'[version] = rows[version]
      /\ rows'[Len(rows) + 1] = row
  BY <1>2, <1>3 DEF Versions
<1>5. StateTypeOK'
  <2>1. handler \in [Handlers -> HandlerRecord]
    BY TypeIs DEF IInv
  <2>2. HandlerRecord \subseteq HandlerRecord'
    BY <1>4 DEF HandlerRecord
  <2>3. handler' \in [Handlers -> HandlerRecord']
    BY <1>1, <2>1, <2>2
  <2>4. cache' = None \/ cache' \in [row : Versions' \cup {0}, at : Times]
    BY <1>1, <1>4, TypeIs DEF IInv
  <2> QED
    BY <1>1, <1>4, <2>3, <2>4, TypeIs
    DEF IInv, StateTypeOK, HandlerRecord, Phases, Sources, Answers, RowRecord, QueueRecord, ScriptRecord
<1>6. ASSUME NEW version \in Versions \cup {0}
      PROVE  RetiredAt(version)' \in Int /\ RetiredAt(version) <= RetiredAt(version)'
  <2>1. RetiredAt(version) \in Int
    BY RetiredBy DEF IInv
  <2>2. CASE version < Len(rows)
    <3>1. version + 1 \in Versions /\ version < Len(rows')
      BY <1>2, <1>4, <2>2 DEF Versions
    <3> QED
      BY <1>4, <2>1, <2>2, <3>1 DEF RetiredAt
  <2>3. CASE ~(version < Len(rows))
    <3>1. version \in 0 .. Len(rows)
      BY <1>2 DEF Versions
    <3>2. version = Len(rows)
      <4>1. \A n \in Nat : \A v \in 0 .. n : ~(v < n) => v = n
        OBVIOUS
      <4> QED
        BY <1>2, <2>3, <3>1, <4>1
    <3>3. version < Len(rows')
      BY <1>2, <1>4, <3>2
    <3> QED
      BY <1>2, <1>3, <1>4, <3>2, <3>3 DEF RetiredAt
  <2> QED
    BY <2>2, <2>3
<1>7. RowsOK'
  <2> SUFFICES ASSUME NEW version \in Versions'
               PROVE  rows'[version].secret # 0 /\ rows'[version].at <= now
    BY <1>1 DEF RowsOK
  <2>1. CASE version \in Versions
    BY <1>4, <2>1 DEF IInv, RowsOK
  <2>2. CASE version = Len(rows) + 1
    BY <1>2, <1>3, <1>4, <2>2
  <2> QED
    BY <1>2, <1>4, <2>1, <2>2 DEF Versions
<1>8. EditOK'
  BY <1>2, <1>4 DEF EditOK
<1>9. \A h \in Handlers : Timely(handler[h])'
  BY <1>1 DEF IInv, HandlersOK, Timely
<1> QED
  BY <1>1, <1>2, <1>5, <1>6, <1>7, <1>8, <1>9, LaterStep DEF redis

-----------------------------------------------------------------------------
(* The theorems *)

LEMMA InitIInv ==
  ASSUME Init  PROVE IInv
<1>1. 0 \in Times /\ 0 \in 0 .. MaxFaults /\ 0 \in 0 .. Attempts
  BY Numbers DEF Times
<1>2. Idle \in ScriptRecord /\ Idle.phase = "start" /\ Idle.attempt = 0
  BY <1>1 DEF Idle, ScriptRecord
<1>3. rows = << >> /\ rows \in Seq(RowRecord) /\ queue = << >> /\ queue \in Seq(QueueRecord)
  BY DEF Init
<1>4. Versions = {}
  BY <1>3 DEF Versions
<1>5. handler \in [Handlers -> HandlerRecord] /\ script \in [Alerts -> ScriptRecord]
  BY <1>2, FreeOK DEF Init
<1>6. DOMAIN nonces = {} /\ DOMAIN queue = {}
  BY DEF Init
<1>7. StateTypeOK
  BY <1>1, <1>3, <1>5, <1>6, TypeIs DEF Init
<1>8. HandlersOK
  BY FreeOK DEF Init, HandlersOK, Dated, Timely, Accounted
<1>9. RowsOK /\ CacheOK /\ EditOK /\ QueueOK /\ SignatureSpentOnce
  BY <1>4, <1>6 DEF Init, RowsOK, CacheOK, EditOK, QueueOK, SignatureSpentOnce
<1>10. DeliveredIsQueued /\ AttemptsLeft
  BY <1>2, Numbers DEF Init, DeliveredIsQueued, AttemptsLeft
<1> QED
  BY <1>7, <1>8, <1>9, <1>10 DEF IInv

LEMMA NextIInv ==
  ASSUME IInv, [Next]_vars  PROVE IInv'
<1>1. CASE UNCHANGED vars
  <2>1. UNCHANGED <<now, error, rows, handler, known, redis, databaseUp, editing, wire, installed,
                    faults, cache, script>>
    BY <1>1 DEF vars, tenant
  <2>2. CacheFits(cache') /\ ScriptsFit(script') /\ EditOK'
    BY <2>1, CacheFitsNow DEF IInv, EditOK
  <2> QED
    BY <2>1, <2>2, OutsideStep, TypeIs DEF IInv
<1>2. CASE Next
  BY <1>2, PostKeeps, LosesKeeps, ArrivesKeeps, LoadKeeps, LoadFailsKeeps, StoreKeeps, PublishKeeps,
     RespondKeeps, AdministratorKeeps, RestartKeeps, TickKeeps, CommitKeeps
  DEF Next
<1> QED
  BY <1>1, <1>2

LEMMA Invariance == Spec => []IInv
BY InitIInv, NextIInv, PTL DEF Spec

(* A request is queued once, for any skew, any clock error of the manager   *)
(* and any number of copies, as long as a call of the script in Redis takes *)
(* less than the margin.                                                    *)
THEOREM SpentOnce == Spec => []SignatureSpentOnce
<1>1. IInv => SignatureSpentOnce
  BY DEF IInv
<1> QED
  BY <1>1, Invariance, PTL

(* What nobody loaded is nowhere: while a quiet change is under way, and     *)
(* after it, nothing that can still decide holds the row before it.         *)
QuietOK ==
  /\ unloaded \in BOOLEAN /\ quiet \subseteq 1 .. Len(rows) - 1
  /\ unloaded => /\ cache = None
                 /\ \A h \in Handlers : handler[h].phase \notin {"load", "store"}
  /\ QuietEditIsImmediate

(* A handler moves on without having looked the tenant up.                  *)
LEMMA QuietHandler ==
  ASSUME IInv, QuietOK, NEW h \in Handlers, NEW state, Becomes(h, state),
         UNCHANGED <<rows, editing, unloaded, quiet>>,
         cache' # None /\ cache' # cache => ~unloaded /\ cache'.row \notin quiet,
         state.phase \in {"load", "store"} => ~unloaded /\ state.row \notin quiet
  PROVE  QuietOK'
<1>1. \A g \in Handlers : handler'[g] = IF g = h THEN state ELSE handler[g]
  BY TypeIs DEF Becomes, IInv
<1>2. QuietEditIsImmediate'
  BY <1>1 DEF QuietOK, QuietEditIsImmediate
<1> QED
  BY <1>1, <1>2 DEF QuietOK

LEMMA JudgedPhase ==
  ASSUME IInv, NEW state \in HandlerRecord, NEW row \in Versions \cup {0}, NEW source \in Sources
  PROVE  Judged(state, row, source).phase \in {"answer", "publish"}
<1> DEFINE judged == [state EXCEPT !.row = row, !.source = source, !.decided = now]
<1>1. /\ \A answer : Answered(judged, answer).phase = "answer"
      /\ [judged EXCEPT !.phase = "publish"].phase = "publish"
  BY DEF HandlerRecord, Answered
<1> HIDE DEF judged
<1>2. Judged(state, row, source) \in
        { Answered(judged, "unauthorised"), Answered(judged, "accepted"), Answered(judged, "too large"),
          [judged EXCEPT !.phase = "publish"] }
  BY DEF Judged, judged
<1> QED
  BY <1>1, <1>2

LEMMA ArrivesQuiet ==
  ASSUME IInv, QuietOK, NEW h \in Handlers, NEW request \in Requests \cup {Stranger}, Arrives(h, request)
  PROVE  QuietOK'
<1>1. PICK again \in BOOLEAN : Lookup(h, request, again)
  BY DEF Arrives
<1> DEFINE state == [Free EXCEPT !.phase = "load", !.request = request, !.again = again,
                            !.arrived = now]
           kept  == [state EXCEPT !.row = cache.row]
<1>2. UNCHANGED <<rows, editing, quiet>> /\ unloaded' = (unloaded /\ handler'[h].phase # "load")
  BY DEF Arrives
<1>3. /\ state \in HandlerRecord /\ state.phase = "load" /\ state.row = None
      /\ cache # None => kept.phase = "load" /\ kept.row = cache.row /\ cache.row \in Versions \cup {0}
      /\ None \notin quiet /\ unloaded \in BOOLEAN
  <2>1. state \in HandlerRecord /\ state.phase = "load" /\ state.row = None
    BY FreeOK, TypeIs DEF HandlerRecord, IInv, Phases
  <2>2. kept.phase = "load" /\ kept.row = cache.row
    BY <2>1 DEF HandlerRecord
  <2>3. cache # None => cache.row \in Versions \cup {0}
    BY TypeIs DEF IInv
  <2>4. None \notin quiet /\ unloaded \in BOOLEAN
    <3>1. quiet \subseteq Int /\ unloaded \in BOOLEAN
      BY DEF QuietOK
    <3> QED
      BY <3>1, IngestGateAssumption
  <2> QED
    BY <2>1, <2>2, <2>3, <2>4
<1>4. \/ Becomes(h, state) /\ cache' \in {cache, None}
      \/ cache # None /\ Becomes(h, kept) /\ cache' = cache
      \/ cache # None /\ Becomes(h, Judged(state, cache.row, "cache")) /\ cache' = cache
  BY <1>1 DEF Lookup
<1> HIDE DEF state, kept
<1>5. ASSUME NEW new, Becomes(h, new)  PROVE \A g \in Handlers : handler'[g] = IF g = h THEN new ELSE handler[g]
  BY <1>5, TypeIs DEF Becomes, IInv
<1>6. CASE Becomes(h, state) /\ cache' \in {cache, None}
  <2>1. unloaded' = FALSE
    BY <1>2, <1>3, <1>5, <1>6
  <2> QED
    BY <1>2, <1>3, <1>5, <1>6, <2>1 DEF QuietOK, QuietEditIsImmediate
<1>7. CASE cache # None /\ Becomes(h, kept) /\ cache' = cache
  <2>1. unloaded' = FALSE
    BY <1>2, <1>3, <1>5, <1>7
  <2> QED
    BY <1>2, <1>3, <1>5, <1>7, <2>1 DEF QuietOK, QuietEditIsImmediate
<1>8. CASE cache # None /\ Becomes(h, Judged(state, cache.row, "cache")) /\ cache' = cache
  <2>1. Judged(state, cache.row, "cache").phase \in {"answer", "publish"}
    BY <1>3, <1>8, JudgedPhase DEF Sources
  <2>2. unloaded' = unloaded /\ ~unloaded
    BY <1>2, <1>3, <1>5, <1>8, <2>1 DEF QuietOK
  <2> QED
    BY <1>2, <1>5, <1>8, <2>1, <2>2 DEF QuietOK, QuietEditIsImmediate
<1> QED
  BY <1>4, <1>6, <1>7, <1>8

LEMMA NextQuiet ==
  ASSUME IInv, QuietOK, [Next]_vars  PROVE QuietOK'
<1>1. CASE UNCHANGED <<rows, editing, unloaded, quiet, cache, handler>>
  BY <1>1 DEF QuietOK, QuietEditIsImmediate
<1>2. ASSUME NEW h \in Handlers  PROVE handler[h] \in HandlerRecord /\ Len(rows) \notin quiet /\ Len(rows) \in Nat
  BY TypeIs DEF IInv, QuietOK
<1>3. ASSUME NEW h \in Handlers, Load(h)  PROVE QuietOK'
  <2> DEFINE state == [handler[h] EXCEPT !.phase = "store", !.row = Len(rows)]
  <2>1. state.phase = "store" /\ state.row = Len(rows)
    BY <1>2 DEF HandlerRecord
  <2>2. Becomes(h, state) /\ UNCHANGED <<rows, editing, unloaded, quiet, cache>> /\ ~unloaded
    BY <1>3 DEF Load, tenant, QuietOK
  <2> QED
    BY <1>2, <2>1, <2>2, QuietHandler
<1>4. ASSUME NEW h \in Handlers, LoadFails(h)  PROVE QuietOK'
  <2>1. UNCHANGED <<rows, editing, unloaded, quiet, cache>>
    BY <1>4 DEF LoadFails, tenant
  <2>2. CASE handler[h].row = None
    <3>1. Answered(handler[h], "unavailable").phase = "answer"
      BY <1>2 DEF Answered, HandlerRecord
    <3> QED
      BY <1>4, <2>1, <2>2, <3>1, QuietHandler DEF LoadFails
  <2>3. CASE handler[h].row # None
    <3>1. Judged(handler[h], handler[h].row, "stale").phase \in {"answer", "publish"}
      BY <1>2, <2>3, JudgedPhase DEF HandlerRecord, Sources
    <3> QED
      BY <1>4, <2>1, <2>3, <3>1, QuietHandler DEF LoadFails
  <2> QED
    BY <2>2, <2>3
<1>5. ASSUME NEW h \in Handlers, Store(h)  PROVE QuietOK'
  <2>1. /\ handler[h].phase = "store" /\ UNCHANGED <<rows, editing, unloaded, quiet>>
        /\ cache' = [row |-> handler[h].row, at |-> handler[h].arrived]
        /\ Becomes(h, Judged(handler[h], handler[h].row, "query"))
    BY <1>5 DEF Store, tenant
  <2>2. ~unloaded /\ handler[h].row \notin quiet /\ cache'.row = handler[h].row
    BY <2>1 DEF QuietOK, QuietEditIsImmediate
  <2>3. handler[h].row \in Versions \cup {0}
    BY <1>2, <2>1 DEF IInv, HandlersOK, Dated, HandlerRecord
  <2>4. Judged(handler[h], handler[h].row, "query").phase \in {"answer", "publish"}
    BY <1>2, <2>3, JudgedPhase DEF Sources
  <2> QED
    BY <2>1, <2>2, <2>4, QuietHandler
<1>6. ASSUME NEW h \in Handlers, Publish(h)  PROVE QuietOK'
  <2>1. PICK answer : Becomes(h, Answered(handler[h], answer))
    BY <1>6 DEF Publish
  <2>2. Answered(handler[h], answer).phase = "answer"
    BY <1>2 DEF Answered, HandlerRecord
  <2>3. UNCHANGED <<rows, editing, unloaded, quiet, cache>>
    BY <1>6 DEF Publish, tenant
  <2> QED
    BY <2>1, <2>2, <2>3, QuietHandler
<1>7. ASSUME NEW h \in Handlers, Respond(h)  PROVE QuietOK'
  <2>1. Becomes(h, Free) /\ UNCHANGED <<rows, editing, unloaded, quiet, cache>>
    BY <1>7 DEF Respond, tenant
  <2> QED
    BY <2>1, FreeOK, QuietHandler
<1>8. ASSUME Create  PROVE QuietOK'
  <2>1. rows' = <<FirstRow>> /\ UNCHANGED <<editing, unloaded, quiet, cache, handler>> /\ rows = << >>
    BY <1>8 DEF Create
  <2>2. Len(rows) = 0 /\ Len(rows') = 1
    BY <2>1
  <2>3. quiet = {}
    BY <2>2 DEF QuietOK
  <2> QED
    BY <2>1, <2>2, <2>3 DEF QuietOK, QuietEditIsImmediate
<1>9. ASSUME NEW edit \in Edits, Edit(edit)  PROVE QuietOK'
  BY <1>9 DEF Edit, QuietOK, QuietEditIsImmediate
<1>10. ASSUME Commit  PROVE QuietOK'
  <2>1. /\ UNCHANGED <<cache, handler>> /\ editing # None /\ unloaded' = FALSE
        /\ quiet' = IF unloaded THEN quiet \cup {Len(rows)} ELSE quiet
        /\ rows' = Append(rows, Edited(rows[Len(rows)], editing))
    BY <1>10 DEF Commit
  <2>2. rows \in Seq(RowRecord) /\ rows # << >>
    BY <2>1, TypeIs DEF IInv, EditOK
  <2>3. Len(rows') = Len(rows) + 1 /\ Len(rows) \in Nat /\ Len(rows) # 0
    <3>1. Len(rows) \in Nat /\ Len(rows) # 0
      BY <2>2
    <3>2. ASSUME NEW row  PROVE Len(Append(rows, row)) = Len(rows) + 1
      BY <2>2
    <3> QED
      BY <2>1, <3>1, <3>2
  <2>4. quiet' \subseteq 1 .. Len(rows') - 1
    <3>1. quiet' \subseteq quiet \cup {Len(rows)} /\ quiet \subseteq 1 .. Len(rows) - 1
      BY <2>1 DEF QuietOK
    <3>2. Len(rows) \in 1 .. Len(rows') - 1 /\ 1 .. Len(rows) - 1 \subseteq 1 .. Len(rows') - 1
      BY <2>3
    <3> QED
      BY <3>1, <3>2
  <2> QED
    BY <2>1, <2>4 DEF QuietOK, QuietEditIsImmediate
<1>11. ASSUME Restart  PROVE QuietOK'
  <2>1. UNCHANGED <<rows, quiet>> /\ unloaded' = FALSE /\ cache' = None /\ handler' = [h \in Handlers |-> Free]
    BY <1>11 DEF Restart
  <2> QED
    BY <2>1, FreeOK DEF QuietOK, QuietEditIsImmediate
<1>12. ASSUME GoesDown  PROVE QuietOK'
  BY <1>12 DEF GoesDown, QuietOK, QuietEditIsImmediate
<1>13. CASE Next
  <2>1. ASSUME NEW h \in Handlers, NEW request \in wire \cup known \cup {Stranger}, Arrives(h, request)
        PROVE  QuietOK'
    BY <2>1, ArrivesQuiet, TypeIs DEF IInv
  <2>2. ASSUME NEW a \in Alerts, Post(a) \/ Loses(a)  PROVE QuietOK'
    BY <1>1, <2>2 DEF Post, Loses, tenant
  <2>3. CASE Install \/ ComesBack \/ Tick
    BY <1>1, <2>3 DEF Install, ComesBack, Tick, tenant
  <2> QED
    BY <1>3, <1>4, <1>5, <1>6, <1>7, <1>8, <1>9, <1>10, <1>11, <1>12, <1>13, <2>1, <2>2, <2>3 DEF Next
<1> QED
  BY <1>1, <1>13 DEF vars, tenant

LEMMA QuietInvariance == Spec => []QuietOK
<1>1. Init => QuietOK
  BY FreeOK DEF Init, QuietOK, QuietEditIsImmediate
<1>2. IInv /\ QuietOK /\ [Next]_vars => QuietOK'
  BY NextQuiet
<1> QED
  BY <1>1, <1>2, Invariance, PTL DEF Spec

(* Every variable keeps its type, whatever arrives, fails or restarts.      *)
THEOREM TypeCorrect == Spec => []TypeOK
<1>1. IInv /\ QuietOK => TypeOK
  <2>1. IInv => Len(rows) \in Nat
    BY TypeIs DEF IInv
  <2> QED
    BY <2>1 DEF IInv, QuietOK, TypeOK, Versions
<1> QED
  BY <1>1, Invariance, QuietInvariance, PTL

(* No row decides about a request later than its lifetime in the cache      *)
(* after it was replaced, and none that nobody was loading when it was       *)
(* replaced decides about anything afterwards.                               *)
THEOREM RetiredRowsDie == Spec => []RetiredRowDies
<1>1. IInv /\ QuietOK => RetiredRowDies
  BY DEF IInv, HandlersOK, Dated, QuietOK, RetiredRowDies, RetiredWithinTtl
<1> QED
  BY <1>1, Invariance, QuietInvariance, PTL

(* A body that its manager takes for delivered is in the stream.            *)
THEOREM DeliveredQueued == Spec => []DeliveredIsQueued
<1>1. IInv => DeliveredIsQueued
  BY DEF IInv
<1> QED
  BY <1>1, Invariance, PTL

-----------------------------------------------------------------------------
(* A retry is not a replay: what a script posts carries a later time stamp  *)
(* than all it posted before, and what it posted is in one place only until *)
(* it was answered.                                                         *)

Held(h, request) == handler[h].phase # "free" /\ handler[h].request = request

Sent(request) ==
  \/ request \in wire \cup known \cup DOMAIN nonces
  \/ \E h \in Handlers : Held(h, request)

(* A request on its first way is with one handler, not answered before, and *)
(* its signature is not spent before that handler has spent it.             *)
FirstHand(h) ==
  LET state == handler[h]
  IN ~ state.again =>
       /\ state.request \in Requests \ known
       /\ \A g \in Handlers \ {h} : ~ Held(g, state.request)
       /\ state.phase # "answer" => state.request \notin DOMAIN nonces
       /\ state.answer # "replay"

SecondHand(h) == handler[h].again => handler[h].request \in known \cup {Stranger}

SentBefore == \A a \in Alerts : script[a].since <= now

StampedBefore ==
  \A request \in Requests :
    Sent(request) => /\ script[request.alert].phase # "start"
                     /\ request.stamp <= script[request.alert].since + error

OnItsWay ==
  \A request \in wire : request \notin known \cup DOMAIN nonces /\ \A h \in Handlers : ~ Held(h, request)

InHand(h) == IF handler[h].phase = "free" THEN handler[h] = Free ELSE FirstHand(h) /\ SecondHand(h)

SInv == SentBefore /\ StampedBefore /\ OnItsWay /\ \A h \in Handlers : InHand(h)

ScriptsGoOn ==
  \A a \in Alerts :
    /\ script[a].since <= script'[a].since /\ script'[a].since <= now'
    /\ script[a].phase # "start" => script'[a].phase # "start"

LEMMA ScriptTimes ==
  ASSUME StateTypeOK
  PROVE  now \in Int /\ error \in Int /\ \A a \in Alerts : script[a].since \in Int /\ script[a].delay \in Nat \ {0}
<1>1. now \in Times /\ error \in ClockErrors /\ script \in [Alerts -> ScriptRecord]
  BY TypeIs
<1>2. \A time \in Times : time \in Int
  BY Numbers DEF Times
<1>3. error \in Int
  BY <1>1, IngestGateAssumption
<1>4. \A a \in Alerts : script[a].since \in Times /\ script[a].delay \in Nat \ {0}
  BY <1>1 DEF ScriptRecord
<1> QED
  BY <1>1, <1>2, <1>3, <1>4

LEMMA StampsKeep ==
  ASSUME IInv, IInv', SInv, ScriptsGoOn, UNCHANGED error,
         \A request \in Requests : Sent(request)' => Sent(request)
  PROVE  SentBefore' /\ StampedBefore'
<1>1. SentBefore'
  BY DEF ScriptsGoOn, SentBefore
<1>2. ASSUME NEW request \in Requests, Sent(request)'
      PROVE  /\ script'[request.alert].phase # "start"
             /\ request.stamp <= script'[request.alert].since + error'
  <2>1. request.alert \in Alerts /\ request.stamp \in Int
    BY DEF Requests
  <2>2. script[request.alert].phase # "start" /\ request.stamp <= script[request.alert].since + error
    BY <1>2 DEF SInv, StampedBefore
  <2>3. script[request.alert].since \in Int /\ error \in Int
    BY <2>1, ScriptTimes DEF IInv
  <2>4. script'[request.alert].since \in Int
    <3>1. script' \in [Alerts -> ScriptRecord] /\ now' \in Times
      BY DEF IInv, StateTypeOK, ScriptRecord
    <3>2. script'[request.alert].since \in Times
      BY <2>1, <3>1 DEF ScriptRecord
    <3> QED
      BY <3>2, Numbers DEF Times
  <2> QED
    BY <2>1, <2>2, <2>3, <2>4 DEF ScriptsGoOn
<1> QED
  BY <1>1, <1>2 DEF StampedBefore

LEMMA ScriptsStay ==
  ASSUME IInv, SInv, UNCHANGED <<now, script>>
  PROVE  ScriptsGoOn
<1>1. ASSUME NEW a \in Alerts
      PROVE  script[a].since <= script'[a].since /\ script'[a].since <= now'
  <2>1. script[a].since \in Int /\ script[a].since <= now
    BY ScriptTimes DEF IInv, SInv, SentBefore
  <2> QED
    BY <2>1
<1> QED
  BY <1>1 DEF ScriptsGoOn

(* One handler moves.                                                       *)
LEMMA HandMoves ==
  ASSUME IInv, IInv', SInv, NEW h \in Handlers, NEW new, Becomes(h, new),
         ScriptsGoOn, UNCHANGED error,
         \A request \in Requests : Sent(request)' => Sent(request),
         wire' \subseteq wire, known \subseteq known',
         \A request \in wire' : /\ request \notin known' \cup DOMAIN nonces'
                                /\ new.phase # "free" => new.request # request,
         \A g \in Handlers \ {h} :
           handler[g].phase # "free" /\ ~ handler[g].again =>
             /\ handler[g].request \notin known'
             /\ handler[g].phase # "answer" => handler[g].request \notin DOMAIN nonces'
             /\ new.phase # "free" => new.request # handler[g].request,
         InHand(h)'
  PROVE  SInv'
<1>1. handler'[h] = new /\ \A g \in Handlers \ {h} : handler'[g] = handler[g]
  BY TypeIs DEF IInv, Becomes
<1>2. OnItsWay'
  BY <1>1 DEF SInv, OnItsWay, Held
<1>3. ASSUME NEW g \in Handlers \ {h}
      PROVE  InHand(g)'
  <2>1. InHand(g) /\ handler'[g] = handler[g]
    BY <1>1 DEF SInv
  <2>2. CASE handler[g].phase = "free"
    BY <2>1, <2>2 DEF InHand
  <2>3. CASE handler[g].phase # "free" /\ handler[g].again
    BY <2>1, <2>3 DEF InHand, FirstHand, SecondHand
  <2>4. CASE handler[g].phase # "free" /\ ~ handler[g].again
    <3>1. \A other \in Handlers \ {g} : ~ Held(other, handler[g].request)'
      BY <1>1, <2>1, <2>4 DEF InHand, FirstHand, Held
    <3> QED
      BY <2>1, <2>4, <3>1 DEF InHand, FirstHand, SecondHand
  <2> QED
    BY <2>2, <2>3, <2>4
<1> QED
  BY <1>2, <1>3, StampsKeep DEF SInv

(* It goes on with the request it has.                                      *)
LEMMA HandGoesOn ==
  ASSUME IInv, IInv', SInv, NEW h \in Handlers, NEW new, Becomes(h, new),
         handler[h].phase \notin {"free", "answer"}, new.phase # "free",
         new.request = handler[h].request, new.again = handler[h].again,
         ~ new.again => new.answer # "replay",
         UNCHANGED <<now, error, wire, known, nonces, script>>
  PROVE  SInv'
<1>1. handler'[h] = new /\ \A g \in Handlers \ {h} : handler'[g] = handler[g]
  BY TypeIs DEF IInv, Becomes
<1>2. \A request \in Requests : Sent(request)' => Sent(request)
  BY <1>1 DEF Sent, Held
<1>3. InHand(h) /\ Held(h, new.request)
  BY DEF SInv, Held
<1>4. ASSUME NEW g \in Handlers \ {h}, handler[g].phase # "free", ~ handler[g].again
      PROVE  /\ handler[g].request \notin known'
             /\ handler[g].phase # "answer" => handler[g].request \notin DOMAIN nonces'
             /\ new.request # handler[g].request
  BY <1>3, <1>4 DEF SInv, InHand, FirstHand
<1>5. \A request \in wire' : request \notin known' \cup DOMAIN nonces' /\ new.request # request
  BY <1>3 DEF SInv, OnItsWay
<1>6. \A g \in Handlers \ {h} : Held(g, new.request)' <=> Held(g, new.request)
  BY <1>1 DEF Held
<1>7. InHand(h)'
  BY <1>1, <1>3, <1>6 DEF InHand, FirstHand, SecondHand, Held
<1>8. wire' \subseteq wire /\ known \subseteq known' /\ ScriptsGoOn
  BY ScriptsStay
<1> QED
  BY <1>2, <1>4, <1>5, <1>7, <1>8, HandMoves

LEMMA JudgedGoesOn ==
  ASSUME NEW state \in HandlerRecord, NEW row, NEW source
  PROVE  /\ Judged(state, row, source).phase \in {"publish", "answer"}
         /\ Judged(state, row, source).request = state.request
         /\ Judged(state, row, source).again = state.again
         /\ state.answer # "replay" => Judged(state, row, source).answer # "replay"
<1> DEFINE judged == [state EXCEPT !.row = row, !.source = source, !.decided = now]
           passed == [judged EXCEPT !.phase = "publish"]
<1>1. \/ \E answer \in {"unauthorised", "accepted", "too large"} :
           Judged(state, row, source) = Answered(judged, answer)
      \/ Judged(state, row, source) = passed
  BY DEF Judged
<1>2. judged.request = state.request /\ judged.again = state.again /\ judged.answer = state.answer
  BY DEF HandlerRecord
<1>3. ASSUME NEW answer \in {"unauthorised", "accepted", "too large"}
      PROVE  /\ Answered(judged, answer).phase = "answer" /\ Answered(judged, answer).request = judged.request
             /\ Answered(judged, answer).again = judged.again /\ Answered(judged, answer).answer = answer
  BY DEF Answered, HandlerRecord
<1>4. /\ passed.phase = "publish" /\ passed.request = judged.request /\ passed.again = judged.again
      /\ passed.answer = judged.answer
  BY DEF HandlerRecord
<1> HIDE DEF judged, passed
<1> QED
  BY <1>1, <1>2, <1>3, <1>4

LEMMA WorkIsFirstHand ==
  ASSUME IInv, IInv', SInv, NEW h \in Handlers, Load(h) \/ LoadFails(h) \/ Store(h)
  PROVE  SInv'
<1> DEFINE old == handler[h]
<1>1. /\ old \in HandlerRecord /\ old.phase \in {"load", "store"}
      /\ ~ old.again => old.answer # "replay"
      /\ UNCHANGED <<now, error, wire, known, nonces, script>>
  <2>1. old.phase \in {"load", "store"} /\ UNCHANGED <<now, error, wire, known, nonces, script>>
    BY DEF Load, LoadFails, Store, redis
  <2>2. InHand(h)
    BY DEF SInv
  <2> QED
    BY <2>1, <2>2, TypeIs DEF IInv, InHand, FirstHand
<1>2. \E new : /\ Becomes(h, new) /\ new.phase # "free" /\ new.request = old.request /\ new.again = old.again
               /\ ~ new.again => new.answer # "replay"
  <2>1. ASSUME NEW row, NEW source, Becomes(h, Judged(old, row, source))
        PROVE  <1>2!:
    BY <1>1, <2>1, JudgedGoesOn
  <2>2. CASE Becomes(h, Answered(old, "unavailable"))
    <3>1. /\ Answered(old, "unavailable").phase = "answer" /\ Answered(old, "unavailable").request = old.request
          /\ Answered(old, "unavailable").again = old.again /\ Answered(old, "unavailable").answer = "unavailable"
      BY <1>1 DEF Answered, HandlerRecord
    <3> QED
      BY <2>2, <3>1
  <2>3. CASE Becomes(h, [old EXCEPT !.phase = "store", !.row = Len(rows)])
    <3> DEFINE new == [old EXCEPT !.phase = "store", !.row = Len(rows)]
    <3>1. new.phase = "store" /\ new.request = old.request /\ new.again = old.again /\ new.answer = old.answer
      BY <1>1 DEF HandlerRecord
    <3> HIDE DEF new
    <3>2. Becomes(h, new)
      BY <2>3 DEF new
    <3> QED
      BY <1>1, <3>1, <3>2
  <2> QED
    BY <2>1, <2>2, <2>3 DEF Load, LoadFails, Store
<1> QED
  BY <1>1, <1>2, HandGoesOn

(* A request arrives: for the first time, again, or of a stranger.          *)
LEMMA ArrivesIsFirstHand ==
  ASSUME IInv, IInv', SInv, NEW h \in Handlers, NEW request \in wire \cup known \cup {Stranger},
         Arrives(h, request)
  PROVE  SInv'
<1>1. /\ handler[h].phase = "free" /\ UNCHANGED <<now, error, known, nonces, script>>
      /\ wire' \subseteq wire /\ wire \subseteq Requests /\ known \subseteq Requests
  BY TypeIs DEF IInv, Arrives, redis
<1>2. PICK again \in BOOLEAN :
        /\ Lookup(h, request, again)
        /\ ~ again => request \in wire /\ wire' = wire \ {request}
        /\ again => request \in known \cup {Stranger}
  BY <1>1, Zenon DEF Arrives
<1>3. Stranger \notin Requests
  BY IngestGateAssumption DEF Stranger, Requests
<1>4. PICK new : /\ Becomes(h, new) /\ new.phase # "free" /\ new.request = request /\ new.again = again
                 /\ new.answer # "replay"
  <2> DEFINE state == [Free EXCEPT !.phase = "load", !.request = request, !.again = again, !.arrived = now]
             kept  == [state EXCEPT !.row = cache.row]
  <2>1. state \in HandlerRecord /\ None # "replay"
    <3>1. request \in Requests \cup {Stranger} /\ again \in BOOLEAN
      BY <1>1, <1>2
    <3>2. now \in Times /\ 0 \in Times
      BY TypeIs, Numbers DEF IInv, Times
    <3>3. \A r \in Requests \cup {Stranger}, b \in BOOLEAN, time \in Times :
            [Free EXCEPT !.phase = "load", !.request = r, !.again = b, !.arrived = time] \in HandlerRecord
      BY FreeOK DEF HandlerRecord, Phases
    <3> QED
      BY <3>1, <3>2, <3>3, AnswersAssumption
  <2>2. /\ kept.phase = "load" /\ kept.request = request /\ kept.again = again /\ kept.answer = None
        /\ state.phase = "load" /\ state.request = request /\ state.again = again /\ state.answer = None
    BY <2>1, FreeOK DEF HandlerRecord
  <2>3. \/ Becomes(h, state) \/ Becomes(h, Judged(state, cache.row, "cache")) \/ Becomes(h, kept)
    BY <1>2, Zenon DEF Lookup
  <2> HIDE DEF state, kept
  <2> QED
    BY <2>1, <2>2, <2>3, JudgedGoesOn
<1>5. handler'[h] = new /\ \A g \in Handlers \ {h} : handler'[g] = handler[g]
  BY <1>4, TypeIs DEF IInv, Becomes
<1>6. ASSUME NEW other \in Requests, Sent(other)'
      PROVE  Sent(other)
  <2>1. CASE Held(h, other)'
    BY <1>1, <1>2, <1>3, <1>4, <1>5, <1>6, <2>1 DEF Sent, Held
  <2>2. CASE ~ Held(h, other)'
    BY <1>1, <1>5, <1>6, <2>2 DEF Sent, Held
  <2> QED
    BY <2>1, <2>2
<1>7. ASSUME NEW other \in wire'
      PROVE  other \notin known' \cup DOMAIN nonces' /\ new.request # other
  BY <1>1, <1>2, <1>3, <1>4 DEF SInv, OnItsWay
<1>8. ASSUME NEW g \in Handlers \ {h}, handler[g].phase # "free", ~ handler[g].again
      PROVE  /\ handler[g].request \notin known'
             /\ handler[g].phase # "answer" => handler[g].request \notin DOMAIN nonces'
             /\ new.request # handler[g].request
  <2>1. InHand(g) /\ Held(g, handler[g].request)
    BY <1>8 DEF SInv, Held
  <2> QED
    BY <1>1, <1>2, <1>3, <1>4, <1>8, <2>1 DEF SInv, OnItsWay, InHand, FirstHand
<1>9. InHand(h)'
  <2>1. CASE again
    BY <1>1, <1>2, <1>4, <1>5, <2>1 DEF InHand, FirstHand, SecondHand
  <2>2. CASE ~ again
    <3>1. \A g \in Handlers \ {h} : ~ Held(g, request)'
      BY <1>2, <1>5, <2>2 DEF SInv, OnItsWay, Held
    <3>2. request \in Requests \ known' /\ request \notin DOMAIN nonces'
      BY <1>1, <1>2, <2>2 DEF SInv, OnItsWay
    <3> QED
      BY <1>4, <1>5, <2>2, <3>1, <3>2 DEF InHand, FirstHand, SecondHand
  <2> QED
    BY <2>1, <2>2
<1> QED
  BY <1>1, <1>4, <1>6, <1>7, <1>8, <1>9, ScriptsStay, HandMoves

(* The script in Redis spends the signature of the request it is called for. *)
LEMMA PublishIsFirstHand ==
  ASSUME IInv, IInv', SInv, NEW h \in Handlers, Publish(h)
  PROVE  SInv'
<1> DEFINE old == handler[h]
<1>1. /\ old \in HandlerRecord /\ old.phase = "publish"
      /\ UNCHANGED <<now, error, wire, known, script>>
  BY TypeIs DEF IInv, Publish
<1>2. InHand(h) /\ Held(h, old.request)
  BY <1>1 DEF SInv, Held
<1>3. PICK answer \in {"replay", "limited", "accepted"} :
        /\ Becomes(h, Answered(old, answer))
        /\ DOMAIN nonces \subseteq DOMAIN nonces' /\ DOMAIN nonces' \subseteq DOMAIN nonces \cup {old.request}
        /\ answer = "replay" => old.request \in DOMAIN nonces
  BY DEF Publish, IsSpent, redis
<1>4. PICK new : new = Answered(old, answer)
  OBVIOUS
<1>5. new.phase = "answer" /\ new.request = old.request /\ new.again = old.again /\ new.answer = answer
  BY <1>1, <1>4 DEF Answered, HandlerRecord
<1>6. handler'[h] = new /\ \A g \in Handlers \ {h} : handler'[g] = handler[g]
  BY <1>3, <1>4, TypeIs DEF IInv, Becomes
<1>7. \A request \in Requests : Sent(request)' => Sent(request)
  BY <1>1, <1>2, <1>3, <1>5, <1>6 DEF Sent, Held
<1>8. \A request \in wire' : request \notin known' \cup DOMAIN nonces' /\ new.request # request
  BY <1>1, <1>2, <1>3, <1>5 DEF SInv, OnItsWay
<1>9. ASSUME NEW g \in Handlers \ {h}, handler[g].phase # "free", ~ handler[g].again
      PROVE  /\ handler[g].request \notin known'
             /\ handler[g].phase # "answer" => handler[g].request \notin DOMAIN nonces'
             /\ new.request # handler[g].request
  <2>1. InHand(g)
    BY DEF SInv
  <2> QED
    BY <1>1, <1>2, <1>3, <1>5, <1>9, <2>1 DEF InHand, FirstHand
<1>10. InHand(h)'
  <2>1. \A g \in Handlers \ {h} : ~ old.again => ~ Held(g, new.request)'
    BY <1>1, <1>2, <1>5, <1>6 DEF InHand, FirstHand, Held
  <2> QED
    BY <1>1, <1>2, <1>3, <1>5, <1>6, <2>1 DEF InHand, FirstHand, SecondHand
<1> QED
  BY <1>1, <1>3, <1>4, <1>7, <1>8, <1>9, <1>10, ScriptsStay, HandMoves

(* The response: the request is known from now on, the handler is free.     *)
LEMMA RespondIsFirstHand ==
  ASSUME IInv, IInv', SInv, NEW h \in Handlers, Respond(h)
  PROVE  SInv'
<1> DEFINE old == handler[h]
<1>1. /\ old \in HandlerRecord /\ old.phase = "answer" /\ Becomes(h, Free)
      /\ UNCHANGED <<now, error, wire, nonces>>
      /\ known \subseteq known' /\ known' \subseteq known \cup {old.request}
      /\ old.request = Stranger => known' = known
  BY TypeIs DEF IInv, Respond, redis
<1>2. InHand(h) /\ Held(h, old.request)
  BY <1>1 DEF SInv, Held
<1>3. handler'[h] = Free /\ \A g \in Handlers \ {h} : handler'[g] = handler[g]
  BY <1>1, TypeIs DEF IInv, Becomes
<1>4. Free.phase = "free"
  BY FreeOK
<1>5. ScriptsGoOn
  <2>1. ASSUME NEW a \in Alerts, script[a].phase = "wait", NEW answer,
               script' = [script EXCEPT ![a] = Delivery(script[a], answer)]
        PROVE  ScriptsGoOn
    <3>1. script[a] \in ScriptRecord
      BY TypeIs DEF IInv
    <3>2. Delivery(script[a], answer).phase # "start" /\ Delivery(script[a], answer).since \in {script[a].since, now}
      BY <2>1, <3>1 DEF Delivery, TryAgain, ScriptRecord
    <3>3. script'[a] = Delivery(script[a], answer) /\ \A b \in Alerts \ {a} : script'[b] = script[b]
      BY <2>1, TypeIs DEF IInv
    <3>4. now \in Int /\ \A b \in Alerts : script[b].since \in Int /\ script[b].since <= now
      BY ScriptTimes DEF IInv, SInv, SentBefore
    <3> QED
      BY <1>1, <3>2, <3>3, <3>4 DEF ScriptsGoOn
  <2>2. CASE script' = script
    BY <1>1, <2>2, ScriptsStay
  <2>3. script' # script => old.request.alert \in Alerts /\ script[old.request.alert].phase = "wait"
          /\ script' = [script EXCEPT ![old.request.alert] = Delivery(script[old.request.alert], old.answer)]
    BY TypeIs DEF IInv, Respond
  <2> QED
    BY <2>1, <2>2, <2>3
<1>6. \A request \in Requests : Sent(request)' => Sent(request)
  BY <1>1, <1>2, <1>3, <1>4 DEF Sent, Held
<1>7. \A request \in wire' : request \notin known' \cup DOMAIN nonces'
  BY <1>1, <1>2 DEF SInv, OnItsWay
<1>8. ASSUME NEW g \in Handlers \ {h}, handler[g].phase # "free", ~ handler[g].again
      PROVE  /\ handler[g].request \notin known'
             /\ handler[g].phase # "answer" => handler[g].request \notin DOMAIN nonces'
  <2>1. InHand(g)
    BY DEF SInv
  <2> QED
    BY <1>1, <1>2, <1>8, <2>1 DEF InHand, FirstHand
<1>9. InHand(h)'
  BY <1>3, <1>4 DEF InHand
<1>10. wire' \subseteq wire
  BY <1>1
<1> QED
  BY <1>1, <1>4, <1>5, <1>6, <1>7, <1>8, <1>9, <1>10, HandMoves

(* Whoever waits for an answer has it signed anew, later by its delay.      *)
LEMMA PostIsLater ==
  ASSUME IInv, IInv', SInv, NEW a \in Alerts, Post(a)
  PROVE  SInv'
<1> DEFINE request == [alert |-> a, stamp |-> now + error, secret |-> installed]
<1>1. /\ script[a].phase \in {"start", "pause"} /\ now >= script[a].since + Delay(script[a])
      /\ wire' = wire \cup {request} /\ UNCHANGED <<now, error, handler, known, nonces>>
      /\ script'[a].phase = "wait" /\ script'[a].since = now
      /\ \A b \in Alerts \ {a} : script'[b] = script[b]
  BY TypeIs DEF IInv, Post, redis
<1>2. /\ now \in Int /\ error \in Int /\ script[a].since \in Int /\ script[a].delay \in Int
      /\ script[a].delay >= 1
  BY ScriptTimes DEF IInv
<1>3. request \in Requests /\ request.alert = a /\ request.stamp = now + error
  BY <1>2, TypeIs DEF IInv, Requests
<1> HIDE DEF request
<1>4. ~ Sent(request)
  <2>1. CASE script[a].phase = "start"
    BY <1>3, <2>1 DEF SInv, StampedBefore
  <2>2. CASE script[a].phase = "pause"
    <3>1. script[a].since + error < now + error
      BY <1>1, <1>2, <2>2 DEF Delay
    <3> QED
      BY <1>2, <1>3, <3>1 DEF SInv, StampedBefore
  <2> QED
    BY <1>1, <2>1, <2>2
<1>5. SentBefore'
  BY <1>1, <1>2 DEF SInv, SentBefore
<1>6. StampedBefore'
  <2>1. ASSUME NEW other \in Requests, Sent(other)'
        PROVE  script'[other.alert].phase # "start" /\ other.stamp <= script'[other.alert].since + error
    <3>1. CASE other = request
      BY <1>1, <1>2, <1>3, <3>1
    <3>2. CASE other # request
      <4>1. Sent(other)
        BY <1>1, <2>1, <3>2 DEF Sent, Held
      <4>2. other.alert \in Alerts /\ other.stamp \in Int
        BY DEF Requests
      <4>3. script[other.alert].phase # "start" /\ other.stamp <= script[other.alert].since + error
        BY <4>1 DEF SInv, StampedBefore
      <4>4. script[a].since <= now
        BY DEF SInv, SentBefore
      <4>5. CASE other.alert = a
        <5>1. other.stamp <= now + error
          BY <1>2, <4>2, <4>3, <4>4, <4>5
        <5> QED
          BY <1>1, <4>5, <5>1
      <4>6. CASE other.alert # a
        BY <1>1, <4>2, <4>3, <4>6
      <4> QED
        BY <4>5, <4>6
    <3> QED
      BY <3>1, <3>2
  <2> QED
    BY <1>1, <2>1 DEF StampedBefore
<1>7. OnItsWay'
  BY <1>1, <1>4 DEF SInv, OnItsWay, Sent, Held
<1>8. \A h \in Handlers : InHand(h)'
  BY <1>1 DEF SInv, InHand, FirstHand, SecondHand, Held
<1> QED
  BY <1>5, <1>6, <1>7, <1>8 DEF SInv

LEMMA LosesIsLater ==
  ASSUME IInv, IInv', SInv, NEW a \in Alerts, Loses(a)
  PROVE  SInv'
<1>1. /\ script[a].phase = "wait" /\ script' = [script EXCEPT ![a] = TryAgain(script[a])]
      /\ UNCHANGED <<now, error, wire, handler, known, nonces>>
  BY DEF Loses, redis
<1>2. script[a] \in ScriptRecord /\ script \in [Alerts -> ScriptRecord]
  BY TypeIs DEF IInv
<1>3. TryAgain(script[a]).phase # "start" /\ TryAgain(script[a]).since = now
  BY <1>1, <1>2 DEF TryAgain, ScriptRecord
<1>4. now \in Int /\ \A b \in Alerts : script[b].since \in Int /\ script[b].since <= now
  BY ScriptTimes DEF IInv, SInv, SentBefore
<1>5. ScriptsGoOn
  BY <1>1, <1>2, <1>3, <1>4 DEF ScriptsGoOn
<1>6. \A request \in Requests : Sent(request)' => Sent(request)
  BY <1>1 DEF Sent, Held
<1>7. OnItsWay' /\ \A h \in Handlers : InHand(h)'
  BY <1>1 DEF SInv, OnItsWay, InHand, FirstHand, SecondHand, Held
<1> QED
  BY <1>1, <1>5, <1>6, <1>7, StampsKeep DEF SInv

(* A restart: what was in flight may come again, and nobody has it.         *)
LEMMA RestartIsClean ==
  ASSUME IInv, IInv', SInv, Restart
  PROVE  SInv'
<1>1. /\ UNCHANGED <<now, error, wire, nonces, script>> /\ handler' = [h \in Handlers |-> Free]
      /\ known \subseteq known'
      /\ \A request \in known' \ known : \E h \in Handlers : Held(h, request)
  BY DEF Restart, redis, Held
<1>2. \A request \in Requests : Sent(request)' => Sent(request)
  BY <1>1, FreeOK DEF Sent, Held
<1>3. OnItsWay'
  BY <1>1, FreeOK DEF SInv, OnItsWay, Held
<1>4. \A h \in Handlers : InHand(h)'
  BY <1>1, FreeOK DEF InHand
<1> QED
  BY <1>1, <1>2, <1>3, <1>4, ScriptsStay, StampsKeep DEF SInv

LEMMA NothingMoves ==
  ASSUME IInv, IInv', SInv, UNCHANGED <<error, wire, handler, known, nonces, script>>, now <= now'
  PROVE  SInv'
<1>1. now \in Int /\ now' \in Int /\ \A a \in Alerts : script[a].since \in Int /\ script[a].since <= now
  <2>1. now' \in Times
    BY DEF IInv, StateTypeOK
  <2> QED
    BY <2>1, ScriptTimes, Numbers DEF IInv, Times, SInv, SentBefore
<1>2. ScriptsGoOn
  BY <1>1 DEF ScriptsGoOn
<1>3. \A request \in Requests : Sent(request)' => Sent(request)
  BY DEF Sent, Held
<1>4. OnItsWay' /\ \A h \in Handlers : InHand(h)'
  BY DEF SInv, OnItsWay, InHand, FirstHand, SecondHand, Held
<1> QED
  BY <1>2, <1>3, <1>4, StampsKeep DEF SInv

LEMMA NextSInv ==
  ASSUME IInv, SInv, [Next]_vars
  PROVE  SInv'
<1>1. IInv'
  BY NextIInv
<1>2. CASE \/ UNCHANGED vars \/ Create \/ Commit \/ Install \/ (\E edit \in Edits : Edit(edit))
           \/ GoesDown \/ ComesBack \/ Tick
  <2>1. UNCHANGED <<error, wire, handler, known, nonces, script>>
    BY <1>2 DEF vars, redis, tenant, Create, Commit, Install, Edit, GoesDown, ComesBack, Tick
  <2>2. now' = now \/ now' = now + 1
    BY <1>2 DEF vars, redis, tenant, Create, Commit, Install, Edit, GoesDown, ComesBack, Tick
  <2>3. now <= now'
    BY <2>2, ScriptTimes DEF IInv
  <2> QED
    BY <1>1, <2>1, <2>3, NothingMoves
<1>3. CASE \E a \in Alerts : Post(a) \/ Loses(a)
  BY <1>1, <1>3, PostIsLater, LosesIsLater
<1>4. CASE \E h \in Handlers : \/ \E request \in wire \cup known \cup {Stranger} : Arrives(h, request)
                               \/ Load(h) \/ LoadFails(h) \/ Store(h) \/ Publish(h) \/ Respond(h)
  BY <1>1, <1>4, ArrivesIsFirstHand, WorkIsFirstHand, PublishIsFirstHand, RespondIsFirstHand
<1>5. CASE Restart
  BY <1>1, <1>5, RestartIsClean
<1> QED
  BY <1>2, <1>3, <1>4, <1>5, Zenon DEF Next

LEMMA InitSInv ==
  ASSUME Init
  PROVE  SInv
<1>1. \A a \in Alerts : script[a].since = 0
  BY DEF Init, Idle
<1>2. \A request : ~ Sent(request)
  BY FreeOK DEF Init, Sent, Held
<1>3. wire = {} /\ now = 0 /\ \A h \in Handlers : handler[h] = Free
  BY DEF Init
<1> QED
  BY <1>1, <1>2, <1>3, FreeOK DEF SInv, SentBefore, StampedBefore, OnItsWay, InHand

(* Each attempt of the script is signed anew and a second later at least, so *)
(* no retry is refused as a replay of an attempt before it, whether that one *)
(* was queued, is still on its way, or was cut off by a restart.             *)
THEOREM RetriesAreNew == Spec => []RetryIsNotReplay
<1>1. SInv => RetryIsNotReplay
  <2> SUFFICES ASSUME SInv, NEW h \in Handlers, handler[h].answer = "replay"
               PROVE  handler[h].again
    BY DEF RetryIsNotReplay
  <2>1. handler[h].phase # "free"
    BY FreeOK, AnswersAssumption DEF SInv, InHand
  <2> QED
    BY <2>1 DEF SInv, InHand, FirstHand
<1>2. Init => IInv /\ SInv
  BY InitIInv, InitSInv
<1>3. IInv /\ SInv /\ [Next]_vars => IInv' /\ SInv'
  BY NextIInv, NextSInv
<1> QED
  BY <1>1, <1>2, <1>3, PTL DEF Spec

-----------------------------------------------------------------------------
(* The window: what the counter has counted, and what it has let through.   *)

SpentSince(table, time) == { r \in DOMAIN table : table[r] - NonceTtl >= time }
QueuedSince(stream, time) ==
  { stream[i].request : i \in { j \in DOMAIN stream : stream[j].at >= time } }

(* A nonce is spent no earlier than its stamp is fresh.                     *)
StampsLast == \A r \in DOMAIN nonces : nonces[r] >= r.stamp - Skew + NonceTtl

(* Everything queued came before the counter's window ends; the counter      *)
(* stands between what was queued in the window and what was spent in it.    *)
Counting ==
  /\ rate = None => DOMAIN queue = {}
  /\ rate # None =>
       /\ rate.until \in Nat /\ rate.until - Window <= now
       /\ \A i \in DOMAIN queue : queue[i].at < rate.until
       /\ Size(QueuedSince(queue, rate.until - Window)) <= rate.used
       /\ Size(QueuedSince(queue, rate.until - Window)) <= Limit
       /\ rate.used <= Size(SpentSince(nonces, rate.until - Window))

(* A handler that refuses for the rate refuses the request it has just counted. *)
Refused(state) ==
  state.answer = "limited" =>
    /\ state.phase = "answer"
    /\ Size(SpentSince(nonces, state.decided - Window + 1)) > Limit

WInv ==
  /\ IsFiniteSet(Bodies(DOMAIN nonces)) /\ StampsLast /\ Counting
  /\ \A h \in Handlers : Refused(handler[h])

LEMMA SizeGrows ==
  ASSUME NEW S, IsFiniteSet(Bodies(S)), NEW T, T \subseteq S
  PROVE  IsFiniteSet(Bodies(T)) /\ Size(T) \in Nat /\ Size(T) <= Size(S) /\ Size(S) \in Nat
<1>1. Bodies(T) \in SUBSET Bodies(S)
  BY DEF Bodies
<1>2. IsFiniteSet(Bodies(T)) /\ Cardinality(Bodies(T)) <= Cardinality(Bodies(S))
  BY <1>1, FS_Subset
<1>3. Cardinality(Bodies(T)) \in Nat /\ Cardinality(Bodies(S)) \in Nat
  BY <1>2, FS_CardinalityType
<1> QED
  BY <1>2, <1>3 DEF Size

LEMMA SizeOfOne ==
  ASSUME NEW request, Count[request.alert] \in Nat
  PROVE  IsFiniteSet(Bodies({request})) /\ Size({request}) = Count[request.alert]
<1> DEFINE n == Count[request.alert]
<1>1. Bodies({request}) = {request} \X (1 .. n)
  BY DEF Bodies
<1>2. IsFiniteSet(1 .. n) /\ Cardinality(1 .. n) = n
  <2> HIDE DEF n
  <2>1. n \in Nat
    BY DEF n
  <2>2. IsFiniteSet(1 .. n) /\ Cardinality(1 .. n) = IF 1 > n THEN 0 ELSE n - 1 + 1
    BY <2>1, FS_Interval
  <2> QED
    BY <2>1, <2>2
<1>3. IsFiniteSet({request}) /\ Cardinality({request}) = 1
  BY FS_Singleton
<1>4. /\ IsFiniteSet({request} \X (1 .. n))
      /\ Cardinality({request} \X (1 .. n)) = Cardinality({request}) * Cardinality(1 .. n)
  BY <1>2, <1>3, FS_Product
<1>5. 1 * n = n
  OBVIOUS
<1> QED
  BY <1>1, <1>2, <1>3, <1>4, <1>5 DEF Size

(* A request more is at most its alerts more, exactly so if it is new.      *)
LEMMA SizeOfOneMore ==
  ASSUME NEW S, IsFiniteSet(Bodies(S)), NEW request, Count[request.alert] \in Nat
  PROVE  /\ IsFiniteSet(Bodies(S \cup {request}))
         /\ Size(S \cup {request}) <= Size(S) + Count[request.alert]
         /\ request \notin S => Size(S \cup {request}) = Size(S) + Count[request.alert]
<1>1. Bodies(S \cup {request}) = Bodies(S) \cup Bodies({request})
  BY DEF Bodies
<1>2. IsFiniteSet(Bodies({request})) /\ Size({request}) = Count[request.alert]
  BY SizeOfOne
<1>3. /\ IsFiniteSet(Bodies(S) \cup Bodies({request}))
      /\ Cardinality(Bodies(S) \cup Bodies({request})) =
           Cardinality(Bodies(S)) + Cardinality(Bodies({request}))
             - Cardinality(Bodies(S) \cap Bodies({request}))
  BY <1>2, FS_Union
<1>4. IsFiniteSet(Bodies(S) \cap Bodies({request}))
  <2>1. Bodies(S) \cap Bodies({request}) \in SUBSET Bodies(S)
    OBVIOUS
  <2> QED
    BY <2>1, FS_Subset
<1>5. /\ Cardinality(Bodies(S)) \in Nat /\ Cardinality(Bodies({request})) \in Nat
      /\ Cardinality(Bodies(S) \cap Bodies({request})) \in Nat
  BY <1>2, <1>4, FS_CardinalityType
<1>6. ASSUME request \notin S
      PROVE  Cardinality(Bodies(S) \cap Bodies({request})) = 0
  <2>1. Bodies(S) \cap Bodies({request}) = {}
    BY <1>6 DEF Bodies
  <2> QED
    BY <2>1, FS_EmptySet
<1> DEFINE n == Count[request.alert]
           both == Cardinality(Bodies(S) \cap Bodies({request}))
<1>7. Size(S \cup {request}) = Size(S) + n - both
  BY <1>1, <1>2, <1>3 DEF Size
<1>8. Size(S) \in Nat /\ n \in Nat /\ both \in Nat /\ (request \notin S => both = 0)
  BY <1>5, <1>6 DEF Size
<1>9. IsFiniteSet(Bodies(S \cup {request}))
  BY <1>1, <1>3
<1> HIDE DEF n, both
<1>10. /\ Size(S \cup {request}) <= Size(S) + n
       /\ request \notin S => Size(S \cup {request}) = Size(S) + n
  BY <1>7, <1>8
<1> QED
  BY <1>9, <1>10 DEF n

LEMMA NothingHasNoSize == Size({}) = 0 /\ IsFiniteSet(Bodies({}))
<1>1. Bodies({}) = {}
  BY DEF Bodies
<1> QED
  BY <1>1, FS_EmptySet DEF Size

(* Only the script of Redis refuses for the rate.                           *)
LEMMA OthersDoNotLimit ==
  ASSUME IInv, [Next]_vars, ~ (\E h \in Handlers : Publish(h)),
         \A h \in Handlers : handler[h].answer = "limited" => handler[h].phase = "answer"
  PROVE  /\ UNCHANGED redis
         /\ \A h \in Handlers : handler'[h] = handler[h] \/ handler'[h].answer # "limited"
<1>1. \A g \in Handlers : handler[g] \in HandlerRecord
  BY TypeIs DEF IInv
<1>2. Free.answer # "limited"
  BY AnswersAssumption DEF Free
<1>3. ASSUME NEW state, NEW row, NEW source, state \in HandlerRecord, state.answer # "limited"
      PROVE  Judged(state, row, source).answer # "limited"
  <2> DEFINE judged == [state EXCEPT !.row = row, !.source = source, !.decided = now]
  <2>1. judged.answer = state.answer
    BY <1>3 DEF HandlerRecord
  <2>2. [judged EXCEPT !.phase = "publish"].answer = judged.answer
    BY <1>3 DEF HandlerRecord
  <2>3. \A answer : Answered(judged, answer).answer = answer
    BY <1>3 DEF HandlerRecord, Answered
  <2>4. \/ Judged(state, row, source) = Answered(judged, "unauthorised")
        \/ Judged(state, row, source) = Answered(judged, "accepted")
        \/ Judged(state, row, source) = Answered(judged, "too large")
        \/ Judged(state, row, source) = [judged EXCEPT !.phase = "publish"]
    BY DEF Judged
  <2> QED
    BY <1>3, <2>1, <2>2, <2>3, <2>4
<1>4. ASSUME NEW h \in Handlers, NEW state, Becomes(h, state), state.answer # "limited"
      PROVE  \A g \in Handlers : handler'[g] = handler[g] \/ handler'[g].answer # "limited"
  BY <1>1, <1>4, TypeIs DEF Becomes, IInv
<1>5. ASSUME NEW h \in Handlers, NEW request \in wire \cup known \cup {Stranger}, Arrives(h, request)
      PROVE  \A g \in Handlers : handler'[g] = handler[g] \/ handler'[g].answer # "limited"
  <2>1. \E again \in BOOLEAN : Lookup(h, request, again)
    BY <1>5 DEF Arrives
  <2>2. PICK again \in BOOLEAN : Lookup(h, request, again)
    BY <2>1
  <2> DEFINE state == [Free EXCEPT !.phase = "load", !.request = request, !.again = again,
                                   !.arrived = now]
  <2>3. state.answer # "limited" /\ [state EXCEPT !.row = cache.row].answer # "limited"
    BY <1>2 DEF Free
  <2>4. state \in HandlerRecord
    BY FreeOK, TypeIs DEF IInv, HandlerRecord, Phases
  <2>5. Judged(state, cache.row, "cache").answer # "limited"
    BY <1>3, <2>3, <2>4
  <2>6. \E new : Becomes(h, new) /\ new.answer # "limited"
    BY <2>2, <2>3, <2>5 DEF Lookup
  <2> QED
    BY <1>4, <2>6
<1>6. ASSUME NEW h \in Handlers, Load(h) \/ LoadFails(h) \/ Store(h) \/ Respond(h)
      PROVE  \A g \in Handlers : handler'[g] = handler[g] \/ handler'[g].answer # "limited"
  <2>1. CASE Load(h)
    <3>1. [handler[h] EXCEPT !.phase = "store", !.row = Len(rows)].answer # "limited"
      BY <1>1, <2>1 DEF Load, HandlerRecord
    <3> QED
      BY <1>4, <2>1, <3>1 DEF Load
  <2>2. CASE LoadFails(h)
    <3>1. handler[h].answer # "limited"
      BY <2>2 DEF LoadFails
    <3>2. Answered(handler[h], "unavailable").answer # "limited"
      BY <1>1 DEF Answered, HandlerRecord
    <3>3. Judged(handler[h], handler[h].row, "stale").answer # "limited"
      BY <1>1, <1>3, <3>1
    <3> QED
      BY <1>4, <2>2, <3>2, <3>3 DEF LoadFails
  <2>3. CASE Store(h)
    <3>1. Judged(handler[h], handler[h].row, "query").answer # "limited"
      BY <1>1, <1>3, <2>3 DEF Store
    <3> QED
      BY <1>4, <2>3, <3>1 DEF Store
  <2>4. CASE Respond(h)
    BY <1>2, <1>4, <2>4 DEF Respond
  <2> QED
    BY <1>6, <2>1, <2>2, <2>3, <2>4
<1>7. UNCHANGED redis
  BY DEF Next, vars, Post, Loses, Arrives, Load, LoadFails, Store, Respond, Create, Commit, Install,
         Edit, GoesDown, ComesBack, Restart, Tick
<1>8. CASE \/ UNCHANGED vars \/ Create \/ Commit \/ Install \/ (\E edit \in Edits : Edit(edit))
           \/ GoesDown \/ ComesBack \/ Tick \/ (\E a \in Alerts : Post(a) \/ Loses(a))
  <2>1. UNCHANGED handler
    BY <1>8 DEF vars, Create, Commit, Install, Edit, GoesDown, ComesBack, Tick, Post, Loses
  <2> QED
    BY <1>7, <2>1
<1>9. CASE Restart
  BY <1>2, <1>7, <1>9 DEF Restart
<1>10. CASE \E h \in Handlers : \/ \E request \in wire \cup known \cup {Stranger} : Arrives(h, request)
                                \/ Load(h) \/ LoadFails(h) \/ Store(h) \/ Respond(h)
  BY <1>5, <1>6, <1>7, <1>10
<1> QED
  BY <1>8, <1>9, <1>10, Zenon DEF Next

LEMMA QuietStepCounts ==
  ASSUME IInv, WInv, UNCHANGED redis, now \in Int, now' \in Int, now <= now',
         \A h \in Handlers : handler'[h] = handler[h] \/ handler'[h].answer # "limited"
  PROVE  WInv'
<1>1. nonces' = nonces /\ rate' = rate /\ queue' = queue
  BY DEF redis
<1>2. StampsLast' /\ IsFiniteSet(Bodies(DOMAIN nonces))'
  BY <1>1 DEF WInv, StampsLast
<1>3. Counting'
  <2>1. rate' # None => rate'.until - Window <= now'
    BY <1>1, Numbers DEF WInv, Counting
  <2> QED
    BY <1>1, <2>1 DEF WInv, Counting
<1>4. ASSUME NEW h \in Handlers  PROVE Refused(handler[h])'
  BY <1>1 DEF WInv, Refused
<1> QED
  BY <1>2, <1>3, <1>4 DEF WInv

(* A signature whose nonce is no longer there is one that was never spent.  *)
LEMMA NeverSpent ==
  ASSUME IInv, StampsLast, NEW h \in Handlers, handler[h].phase = "publish",
         ~IsSpent(handler[h].request)
  PROVE  handler[h].request \notin DOMAIN nonces
<1> DEFINE request == handler[h].request
<1> SUFFICES ASSUME request \in DOMAIN nonces  PROVE FALSE
  OBVIOUS
<1>1. /\ request \in Requests /\ handler[h].decided \in Int /\ now \in Int
      /\ handler[h].decided - request.stamp <= Skew
      /\ now < handler[h].decided + Margin
  BY TypeIs, Numbers DEF IInv, HandlersOK, Timely, HandlerRecord, Times
<1>2. request.stamp \in Int /\ nonces[request] \in Int
  BY <1>1, TypeIs DEF IInv, Requests
<1>3. nonces[request] <= now /\ nonces[request] >= request.stamp - Skew + NonceTtl
  BY <1>1, <1>2 DEF IsSpent, StampsLast
<1> QED
  BY <1>1, <1>2, <1>3, Numbers

LEMMA PublishCounts ==
  ASSUME IInv, WInv, NEW h \in Handlers, Publish(h)
  PROVE  WInv'
<1> DEFINE old     == handler[h]
           request == old.request
           size    == Count[request.alert]
           entry   == [request |-> request, at |-> now]
<1>1. /\ old \in HandlerRecord /\ old.phase = "publish"
      /\ request \in Requests /\ size \in Nat \ {0} /\ now \in Nat /\ now' = now
      /\ old.decided \in Int /\ request.stamp \in Int
      /\ request.stamp - old.decided <= Skew /\ old.decided <= now
  BY TypeIs, Numbers, IngestGateAssumption
  DEF IInv, HandlersOK, Publish, Timely, Requests, Times, HandlerRecord
<1>2. ASSUME NEW answer
      PROVE  /\ Answered(old, answer).answer = answer /\ Answered(old, answer).phase = "answer"
             /\ Answered(old, answer).decided = old.decided
  BY <1>1 DEF Answered, HandlerRecord
<1>3. ASSUME NEW state, Becomes(h, state)
      PROVE  \A g \in Handlers : handler'[g] = IF g = h THEN state ELSE handler[g]
  BY <1>3, TypeIs DEF IInv, Becomes
<1>4. CASE IsSpent(request) /\ Becomes(h, Answered(old, "replay")) /\ UNCHANGED redis
  <2>1. \A g \in Handlers : handler'[g] = handler[g] \/ handler'[g].answer # "limited"
    BY <1>2, <1>3, <1>4
  <2> QED
    BY <1>1, <1>4, <2>1, QuietStepCounts
<1>5. ASSUME ~IsSpent(request),
             nonces' = [r \in DOMAIN nonces \cup {request} |->
                          IF r = request THEN now + NonceTtl ELSE nonces[r]],
             rate' = Counted(size),
             NEW answer \in {"accepted", "limited"}, Becomes(h, Answered(old, answer)),
             answer = "accepted" <=> Counted(size).used <= Limit,
             queue' = IF answer = "accepted" THEN Append(queue, entry) ELSE queue
      PROVE  WInv'
  <2>1. /\ request \notin DOMAIN nonces /\ DOMAIN nonces' = DOMAIN nonces \cup {request}
        /\ nonces'[request] = now + NonceTtl
        /\ \A r \in DOMAIN nonces : nonces'[r] = nonces[r] /\ nonces[r] \in Int
    BY <1>1, <1>5, NeverSpent, TypeIs DEF IInv, WInv
  <2>2. IsFiniteSet(Bodies(DOMAIN nonces'))
    BY <1>1, <2>1, SizeOfOneMore DEF WInv
  <2>3. ASSUME NEW time \in Int, time <= now
        PROVE  /\ SpentSince(nonces', time) = SpentSince(nonces, time) \cup {request}
               /\ request \notin SpentSince(nonces, time)
    BY <1>1, <2>1, <2>3, Numbers DEF SpentSince
  <2>4. ASSUME NEW time \in Int, NEW later \in Int, time <= later
        PROVE  /\ SpentSince(nonces, later) \subseteq SpentSince(nonces', time)
               /\ SpentSince(nonces', later) \subseteq SpentSince(nonces', time)
               /\ SpentSince(nonces', time) \subseteq DOMAIN nonces'
               /\ SpentSince(nonces, time) \subseteq DOMAIN nonces
    BY <1>1, <2>1, <2>4, Numbers DEF SpentSince
  <2>5. /\ \A i \in DOMAIN queue' : \/ i \in DOMAIN queue /\ queue'[i] = queue[i]
                                    \/ queue'[i] = entry /\ answer = "accepted"
        /\ \A i \in DOMAIN queue : queue[i].at \in Int /\ queue[i].request \in DOMAIN nonces
    <3>1. \A i \in DOMAIN queue : queue[i] \in QueueRecord /\ queue[i].request \in DOMAIN nonces
      BY TypeIs DEF IInv, QueueOK, SpentLongEnough
    <3>2. entry \in QueueRecord
      BY <1>1, TypeIs DEF IInv, QueueRecord
    <3> QED
      BY <1>5, <3>1, <3>2, QueueGrows, Numbers DEF IInv, QueueRecord, Times
  <2>6. StampsLast'
    BY <1>1, <2>1, Numbers DEF WInv, StampsLast
  <2>7. /\ rate' = [used |-> Used + size, until |-> rate'.until] /\ rate' # None
        /\ Used \in Nat /\ rate'.until \in Nat /\ now < rate'.until
        /\ rate'.until - Window <= now
        /\ \A i \in DOMAIN queue : queue[i].at < rate'.until
        /\ Size(QueuedSince(queue, rate'.until - Window)) <= Used
        /\ Size(QueuedSince(queue, rate'.until - Window)) <= Limit
        /\ Size(QueuedSince(queue, rate'.until - Window)) \in Nat
        /\ Used + size <= Size(SpentSince(nonces', rate'.until - Window))
    <3>1. rate # None => rate.used \in Nat \ {0} /\ rate.until \in Nat /\ rate.until # None
      BY TypeIs, IngestGateAssumption DEF IInv, WInv, Counting
    <3>2. CASE rate # None /\ now < rate.until
      <4> DEFINE start == rate.until - Window
      <4>1. Used = rate.used
        BY <3>1, <3>2 DEF Used
      <4>2. rate' = [used |-> Used + size, until |-> rate.until]
        <5>1. Used # 0
          BY <3>1, <3>2, <4>1
        <5>2. Counted(size) = [used |-> Used + size, until |-> rate.until]
          BY <5>1 DEF Counted
        <5> QED
          BY <1>5, <5>2
      <4>3. start \in Int /\ start <= now
        BY <3>1, <3>2, Numbers DEF WInv, Counting
      <4>4. Size(SpentSince(nonces', start)) = Size(SpentSince(nonces, start)) + size
        <5>1. SpentSince(nonces, start) \subseteq DOMAIN nonces
          BY DEF SpentSince
        <5>2. IsFiniteSet(Bodies(SpentSince(nonces, start)))
          BY <5>1, SizeGrows DEF WInv
        <5> QED
          BY <1>1, <2>3, <4>3, <5>2, SizeOfOneMore
      <4>5. Size(SpentSince(nonces, start)) \in Nat /\ Size(QueuedSince(queue, start)) \in Nat
        <5>1. SpentSince(nonces, start) \subseteq DOMAIN nonces
          BY DEF SpentSince
        <5>2. QueuedSince(queue, start) \subseteq DOMAIN nonces
          BY <2>5 DEF QueuedSince
        <5> QED
          BY <5>1, <5>2, SizeGrows DEF WInv
      <4>6. /\ Size(QueuedSince(queue, start)) <= rate.used
            /\ Size(QueuedSince(queue, start)) <= Limit
            /\ rate.used <= Size(SpentSince(nonces, start))
            /\ \A i \in DOMAIN queue : queue[i].at < rate.until
        BY <3>2 DEF WInv, Counting
      <4>7. Used + size <= Size(SpentSince(nonces', start))
        BY <1>1, <3>1, <3>2, <4>1, <4>4, <4>5, <4>6
      <4>8. rate'.until = rate.until /\ rate' = [used |-> Used + size, until |-> rate'.until]
        BY <4>2
      <4>9. rate' # None
        BY <1>1, <3>1, <3>2, <4>1, <4>2, CounterAssumption
      <4> QED
        BY <3>1, <3>2, <4>1, <4>3, <4>5, <4>6, <4>7, <4>8, <4>9
    <3>3. CASE ~ (rate # None /\ now < rate.until)
      <4>1. Used = 0 /\ rate' = [used |-> Used + size, until |-> now + Window]
        BY <1>1, <1>5, <3>1, <3>3 DEF Used, Counted
      <4>2. \A i \in DOMAIN queue : queue[i].at < now
        <5>1. CASE rate = None
          BY <5>1 DEF WInv, Counting
        <5>2. CASE rate # None
          BY <1>1, <2>5, <3>1, <3>3, <5>2 DEF WInv, Counting
        <5> QED
          BY <5>1, <5>2
      <4>3. QueuedSince(queue, now) = {}
        BY <1>1, <2>5, <4>2 DEF QueuedSince
      <4>4. size <= Size(SpentSince(nonces', now))
        <5>1. {request} \subseteq SpentSince(nonces', now) /\ SpentSince(nonces', now) \subseteq DOMAIN nonces'
          BY <1>1, <2>3, <2>4
        <5>2. IsFiniteSet(Bodies(SpentSince(nonces', now)))
          BY <2>2, <5>1, SizeGrows
        <5>3. Size({request}) <= Size(SpentSince(nonces', now))
          BY <5>1, <5>2, SizeGrows
        <5> QED
          BY <1>1, <5>3, SizeOfOne
      <4>5. rate'.until = now + Window /\ rate'.until - Window = now
            /\ rate' = [used |-> Used + size, until |-> rate'.until]
        BY <1>1, <4>1, Numbers
      <4>6. rate' # None
        BY <1>1, <4>1, Numbers, CounterAssumption
      <4>7. now < now + Window /\ now + Window \in Nat
        BY <1>1, IngestGateAssumption
      <4>8. Size(QueuedSince(queue, now)) = 0
        BY <4>3, NothingHasNoSize
      <4>9. \A i \in DOMAIN queue : queue[i].at < now + Window
        BY <1>1, <2>5, <4>2, <4>7
      <4> QED
        BY <1>1, <4>1, <4>4, <4>5, <4>6, <4>7, <4>8, <4>9, Numbers
    <3> QED
      BY <3>2, <3>3
  <2> DEFINE start  == rate'.until - Window
             queued == QueuedSince(queue, start)
  <2>8. /\ Size(QueuedSince(queue', start)) <= Used + size
        /\ Size(QueuedSince(queue', start)) <= Limit
    <3>1. IsFiniteSet(Bodies(queued))
      <4>1. queued \subseteq DOMAIN nonces
        BY <2>5 DEF QueuedSince
      <4> QED
        BY <4>1, SizeGrows DEF WInv
    <3>2. CASE answer = "accepted"
      <4>1. QueuedSince(queue', start) \subseteq queued \cup {request}
        BY <2>5 DEF QueuedSince
      <4>2. /\ IsFiniteSet(Bodies(queued \cup {request}))
            /\ Size(queued \cup {request}) <= Size(queued) + size
        BY <1>1, <3>1, SizeOfOneMore
      <4>3. /\ Size(QueuedSince(queue', start)) <= Size(queued \cup {request})
            /\ Size(QueuedSince(queue', start)) \in Nat /\ Size(queued \cup {request}) \in Nat
        BY <4>1, <4>2, SizeGrows
      <4>4. Used + size <= Limit
        <5>1. Counted(size).used = Used + size
          BY DEF Counted
        <5> QED
          BY <1>5, <3>2, <5>1
      <4> HIDE DEF queued
      <4>5. Size(queued) <= Used /\ Size(queued) \in Nat
        BY <2>7 DEF queued
      <4> QED
        BY <1>1, <2>7, <4>2, <4>3, <4>4, <4>5, Numbers
    <3>3. CASE answer # "accepted"
      BY <1>1, <1>5, <2>7, <3>3, Numbers
    <3> QED
      BY <3>2, <3>3
  <2>9. Counting'
    <3>1. \A i \in DOMAIN queue' : queue'[i].at < rate'.until
      BY <2>5, <2>7
    <3>2. rate'.used = Used + size
      BY <2>7
    <3> QED
      BY <1>1, <2>7, <2>8, <3>1, <3>2 DEF Counting
  <2>10. ASSUME NEW g \in Handlers  PROVE Refused(handler[g])'
    <3> SUFFICES ASSUME handler'[g].answer = "limited"
                 PROVE  /\ handler'[g].phase = "answer"
                        /\ Size(SpentSince(nonces', handler'[g].decided - Window + 1)) > Limit
      BY DEF Refused
    <3> DEFINE since == handler'[g].decided - Window + 1
    <3>1. handler'[g].decided \in Int /\ since \in Int
      <4>1. handler'[g].decided = handler[g].decided
        BY <1>2, <1>3, <1>5
      <4>2. handler[g].decided \in Times
        BY TypeIs DEF IInv, HandlerRecord
      <4> QED
        BY <4>1, <4>2, Numbers DEF Times
    <3>2. SpentSince(nonces', since) \subseteq DOMAIN nonces'
      BY <2>4, <3>1
    <3>3. IsFiniteSet(Bodies(SpentSince(nonces', since)))
      BY <2>2, <3>2, SizeGrows
    <3>4. CASE g = h
      <4>1. /\ handler'[g].phase = "answer" /\ handler'[g].decided = old.decided
            /\ answer = "limited"
        BY <1>2, <1>3, <1>5, <3>4
      <4>2. Used + size > Limit
        <5>1. Counted(size).used = Used + size
          BY DEF Counted
        <5> QED
          BY <1>1, <1>5, <2>7, <4>1, <5>1, Numbers
      <4>3. since <= start /\ start \in Int
        BY <1>1, <2>7, <3>1, <4>1, Numbers
      <4>4. /\ Size(SpentSince(nonces', start)) <= Size(SpentSince(nonces', since))
            /\ Size(SpentSince(nonces', start)) \in Nat /\ Size(SpentSince(nonces', since)) \in Nat
        BY <2>4, <3>1, <3>3, <4>3, SizeGrows
      <4> QED
        BY <1>1, <2>7, <4>1, <4>2, <4>4, Numbers
    <3>5. CASE g # h
      <4>1. handler'[g] = handler[g] /\ Refused(handler[g])
        BY <1>3, <1>5, <3>5 DEF WInv
      <4>2. handler[g].phase = "answer" /\ Size(SpentSince(nonces, since)) > Limit
        BY <4>1 DEF Refused
      <4>3. /\ Size(SpentSince(nonces, since)) <= Size(SpentSince(nonces', since))
            /\ Size(SpentSince(nonces, since)) \in Nat /\ Size(SpentSince(nonces', since)) \in Nat
        BY <2>4, <3>1, <3>3, SizeGrows
      <4> QED
        BY <4>1, <4>2, <4>3, Numbers
    <3> QED
      BY <3>4, <3>5
  <2> QED
    BY <2>2, <2>6, <2>9, <2>10 DEF WInv
<1>6. CASE /\ ~IsSpent(request)
           /\ nonces' = [r \in DOMAIN nonces \cup {request} |->
                          IF r = request THEN now + NonceTtl ELSE nonces[r]]
           /\ rate' = Counted(size)
           /\ IF Counted(size).used > Limit
              THEN Becomes(h, Answered(old, "limited")) /\ UNCHANGED queue
              ELSE Becomes(h, Answered(old, "accepted")) /\ queue' = Append(queue, entry)
  <2>1. Counted(size).used \in Int
    <3>1. Used \in Nat
      BY TypeIs DEF IInv, Used
    <3> QED
      BY <1>1, <3>1 DEF Counted
  <2>2. CASE Counted(size).used > Limit
    BY <1>5, <1>6, <2>1, <2>2, Numbers
  <2>3. CASE ~ (Counted(size).used > Limit)
    BY <1>5, <1>6, <2>1, <2>3, Numbers
  <2> QED
    BY <2>2, <2>3
<1> QED
  BY <1>4, <1>6, Zenon DEF Publish

LEMMA NextWInv ==
  ASSUME IInv, IInv', WInv, [Next]_vars
  PROVE  WInv'
<1>1. CASE \E h \in Handlers : Publish(h)
  BY <1>1, PublishCounts
<1>2. CASE ~ (\E h \in Handlers : Publish(h))
  <2>1. \A h \in Handlers : handler[h].answer = "limited" => handler[h].phase = "answer"
    BY DEF WInv, Refused
  <2>2. /\ UNCHANGED redis
        /\ \A h \in Handlers : handler'[h] = handler[h] \/ handler'[h].answer # "limited"
    BY <1>2, <2>1, OthersDoNotLimit
  <2>3. now \in Int /\ now' \in Int
    <3>1. now \in Times /\ now' \in Times
      BY DEF IInv, StateTypeOK
    <3> QED
      BY <3>1, Numbers DEF Times
  <2>4. now' = now \/ now' = now + 1
    BY <1>2 DEF Next, vars, Post, Loses, Arrives, Load, LoadFails, Store, Respond, Create, Commit,
       Install, Edit, GoesDown, ComesBack, Restart, Tick
  <2> QED
    BY <2>2, <2>3, <2>4, QuietStepCounts
<1> QED
  BY <1>1, <1>2

LEMMA InitWInv ==
  ASSUME Init
  PROVE  WInv
<1>1. DOMAIN nonces = {} /\ rate = None /\ DOMAIN queue = {}
  BY DEF Init
<1>2. \A h \in Handlers : handler[h].answer # "limited"
  BY FreeOK, AnswersAssumption DEF Init
<1> QED
  BY <1>1, <1>2, NothingHasNoSize DEF WInv, StampsLast, Counting, Refused

(* A window admits no more alerts than its limit, whatever bodies they come  *)
(* in and however many handlers ask at once, and a request is refused for    *)
(* the rate only if more than the limit came in the last Window seconds.     *)
THEOREM WindowIsExact == Spec => []LimitIsExact
<1>1. ASSUME IInv, WInv  PROVE LimitHolds
  <2> SUFFICES ASSUME rate # None
               PROVE  Size(QueuedSince(queue, WindowStart)) <= Limit
    BY DEF LimitHolds, QueuedSince
  <2>1. WindowStart = rate.until - Window
    BY <1>1, IngestGateAssumption DEF WInv, Counting, WindowStart
  <2> QED
    BY <1>1, <2>1 DEF WInv, Counting
<1>2. ASSUME IInv, WInv  PROVE LimitIsEarned
  <2> SUFFICES ASSUME NEW h \in Handlers, handler[h].answer = "limited"
               PROVE  Size({ r \in DOMAIN nonces :
                               nonces[r] - NonceTtl > handler[h].decided - Window }) > Limit
    BY DEF LimitIsEarned
  <2>1. handler[h].decided \in Int
    BY <1>2, TypeIs, Numbers DEF IInv, HandlerRecord, Times
  <2>2. { r \in DOMAIN nonces : nonces[r] - NonceTtl > handler[h].decided - Window }
          = SpentSince(nonces, handler[h].decided - Window + 1)
    <3>1. \A r \in DOMAIN nonces : nonces[r] \in Int
      BY <1>2, TypeIs DEF IInv
    <3> QED
      BY <2>1, <3>1, Numbers DEF SpentSince
  <2> QED
    BY <1>2, <2>2 DEF WInv, Refused
<1>3. IInv /\ WInv => LimitIsExact
  BY <1>1, <1>2 DEF LimitIsExact
<1>4. Init => IInv /\ WInv
  BY InitIInv, InitWInv
<1>5. IInv /\ WInv /\ [Next]_vars => IInv' /\ WInv'
  BY NextIInv, NextWInv
<1> QED
  BY <1>3, <1>4, <1>5, PTL DEF Spec
=============================================================================
