----------------------------- MODULE AgentSync -----------------------------
(***************************************************************************)
(* The cache of agents (wazuh/sync.py): sweeps, started by the hourly job or *)
(* by a member of staff, page each tenant's group out of its manager         *)
(* (wazuh/manager_client.py), and replace the tenant's rows with what they   *)
(* read, in a transaction at READ COMMITTED.  The managers change under them *)
(* and fail.  One manager is shared, with a group for each tenant.           *)
(***************************************************************************)
EXTENDS Integers, Sequences, FiniteSets, Ascending

CONSTANTS
  Absent,
  Tenants, Agents,       \* agents are numbers, the order a manager lists them in
  Sweeps,                \* sweeps that may run beside each other
  FirstGroups,           \* the groups at the start
  AgentPage, MaxAgents,  \* AGENT_PAGE, MAX_AGENTS
  MaxRows,               \* rows a statement takes: 11 parameters each, of the driver's 32767
  NoAddress,             \* agents whose "ip" is some other string, "any" for one
  MaxEvents              \* a bound on the changes and the upsets together

ASSUME AgentSyncAssumption ==
  /\ Agents \subseteq Nat /\ Absent \notin Nat
  /\ AgentPage \in Nat \ {0} /\ MaxAgents \in Nat \ {0} /\ MaxEvents \in Nat
  /\ MaxRows \in Nat
  /\ FirstGroups \in [Tenants -> SUBSET Agents] /\ \A t \in Tenants : IsFiniteSet(FirstGroups[t])

VARIABLES
  group,     \* at the managers: the agents in the group of each tenant
  active,    \* the tenants whose status is "active"
  agents,    \* the rows of agents: synced_at of each agent in the cache of a tenant
  errors,    \* the tenants with a last_sync_error
  sweep,     \* what each sweep is doing
  changes,   \* how often a group has changed: the clock of this model
  unserved,  \* agents the managers count and do not list
  lastIn,    \* ghost: when an agent was last in a group, Absent if it never was
  upsets,    \* how often a manager failed or miscounted, or a tenant was suspended
  company    \* ghost: sweeps that store beside another one of their tenant, or have done so

managers == <<group, changes, unserved, lastIn>>
syncVars == <<managers, active, agents, errors, sweep, upsets, company>>

(* faulty are the tenants with an error as the sweep has loaded them, doomed    *)
(* the rows its pruning has found; quiet, a ghost, says that the group has not  *)
(* changed since.                                                              *)
Idle == [phase |-> "idle", left |-> {}, faulty |-> {}, tenant |-> Absent, offset |-> 0,
         collected |-> <<>>, now |-> 0, doomed |-> {}, quiet |-> TRUE]

(* The sweep goes on to its next tenant.                                       *)
Onward(state) == [Idle EXCEPT !.phase = "next", !.left = state.left, !.faulty = state.faulty]

Becomes(s, state) == sweep' = [sweep EXCEPT ![s] = state]

-----------------------------------------------------------------------------
(* A sweep takes the tenants that are active when it begins, or the one the    *)
(* token of the member of staff names.                                         *)
SyncAll(s, tenants) ==
  /\ sweep[s] = Idle
  /\ tenants = active \/ \E t \in active : tenants = {t}
  /\ Becomes(s, [Idle EXCEPT !.phase = "next", !.left = tenants, !.faulty = errors])
  /\ UNCHANGED <<managers, active, agents, errors, upsets, company>>

SyncTenant(s, t) ==
  /\ sweep[s].phase = "next" /\ t \in sweep[s].left
  /\ Becomes(s, [Idle EXCEPT !.phase = "get", !.left = sweep[s].left \ {t}, !.faulty = sweep[s].faulty,
                             !.tenant = t, !.now = changes])
  /\ UNCHANGED <<managers, active, agents, errors, upsets, company>>

Finish(s) ==
  /\ sweep[s].phase = "next" /\ sweep[s].left = {}
  /\ Becomes(s, Idle)
  /\ UNCHANGED <<managers, active, agents, errors, upsets, company>>

(* What a manager lists of a group, it lists in order. *)
Asked(t) == group[t]

(* Mutant: a page of nothing does not end the reading. *)
TrustsTotal(items, offset, total, collected) == offset >= total \/ Len(collected) >= MaxAgents

(* Mutant: a last page of one agent is not asked for. *)
LastOneIsLeft(items, offset, total, collected) ==
  items = <<>> \/ offset + 1 >= total \/ Len(collected) >= MaxAgents

LastPage(items, offset, total, collected) ==
  items = <<>> \/ offset >= total \/ Len(collected) >= MaxAgents

NextOffset(offset, items) == offset + Len(items)

Storing(s) == sweep[s].phase \in {"store", "prune", "commit"}

Beside(s) == { other \in Sweeps \ {s} : Storing(other) /\ sweep[other].tenant = sweep[s].tenant }

(* One page of the group *)
GetPage(s) ==
  LET state     == sweep[s]
      listing   == InOrder(Asked(state.tenant))
      offset    == state.offset
      items     == SubSeq(listing, offset + 1,
                          IF offset + AgentPage < Len(listing) THEN offset + AgentPage ELSE Len(listing))
      collected == state.collected \o items
      last      == LastPage(items, NextOffset(offset, items), Len(listing) + unserved, collected)
  IN /\ state.phase = "get"
     /\ Becomes(s, [state EXCEPT !.offset = NextOffset(offset, items),
                     !.phase = IF last THEN "store" ELSE "get",
                     !.collected = IF last /\ Len(collected) > MaxAgents
                                   THEN SubSeq(collected, 1, MaxAgents) ELSE collected])
     /\ company' = IF last /\ Beside(s) # {} THEN company \cup Beside(s) \cup {s} ELSE company
     /\ UNCHANGED <<managers, active, agents, errors, upsets>>

(* A manager that is not there, refuses the credentials or answers an error.   *)
(* What the row held when it was loaded and still holds is not written again.  *)
ManagerError(s) ==
  LET t == sweep[s].tenant
  IN /\ sweep[s].phase = "get" /\ changes + upsets < MaxEvents
     /\ upsets' = upsets + 1
     /\ errors' = errors \cup {t} \/ (t \in sweep[s].faulty /\ errors' = errors)
     /\ Becomes(s, Onward(sweep[s]))
     /\ UNCHANGED <<managers, active, agents, company>>

-----------------------------------------------------------------------------
(* The transaction that replaces a tenant's rows *)

Seen(state) == { state.collected[i] : i \in DOMAIN state.collected }

(* PostgreSQL refuses an upsert that names one row twice, *)
NamesOneTwice(state) == Cardinality(Seen(state)) < Len(state.collected)

(* and the driver one with too many parameters or with a string for an address.*)
Refused(state) ==
  NamesOneTwice(state) \/ Len(state.collected) > MaxRows \/ Seen(state) \cap NoAddress # {}

(* Rows that other sweeps have written and not committed                       *)
Locked(s) == UNION { Seen(sweep[other]) : other \in { o \in Beside(s) : sweep[o].phase # "store" } }

(* The upsert, as soon as no other transaction has any of its rows; nothing of *)
(* it is seen before the commit.                                               *)
UpsertAgents(s) ==
  /\ sweep[s].phase = "store" /\ ~Refused(sweep[s]) /\ Seen(sweep[s]) \cap Locked(s) = {}
  /\ Becomes(s, [sweep[s] EXCEPT !.phase = "prune"])
  /\ UNCHANGED <<managers, active, agents, errors, upsets, company>>

(* The pruning finds the rows that are committed when it begins.               *)
PruneAgents(s) ==
  /\ sweep[s].phase = "prune"
  /\ Becomes(s, [sweep[s] EXCEPT !.phase = "commit",
                   !.doomed = { a \in Agents : agents[sweep[s].tenant][a] # Absent } \ Seen(sweep[s])])
  /\ UNCHANGED <<managers, active, agents, errors, upsets, company>>

(* Mutant: rows are stamped when they are stored. *)
StampedLate(state) == changes

(* synced_at *)
Stamp(state) == state.now

(* It deletes them, as soon as no other transaction has any, and all of it is  *)
(* committed.  What is gone is not deleted again by a pruning under way.       *)
CommitAgents(s) ==
  LET state == sweep[s]
      t     == state.tenant
  IN /\ state.phase = "commit" /\ state.doomed \cap Locked(s) = {}
     /\ agents' = [agents EXCEPT ![t] = [a \in Agents |-> IF a \in Seen(state) THEN Stamp(state)
                                                        ELSE IF a \in state.doomed THEN Absent
                                                        ELSE agents[t][a]]]
     /\ errors' = IF t \in state.faulty THEN errors \ {t} ELSE errors
     /\ sweep' = [q \in Sweeps |->
                    IF q = s THEN Onward(state)
                    ELSE [sweep[q] EXCEPT !.doomed = IF q \in Beside(s) THEN @ \ state.doomed ELSE @]]
     /\ company' = company \ {s}
     /\ UNCHANGED <<managers, active, upsets>>

(* Two transactions wait for each other, each for a row the other one has.  An *)
(* upsert takes its rows in the order of the group, so one of the two prunes.  *)
Wants(s) == CASE sweep[s].phase = "store"  -> Seen(sweep[s])
              [] sweep[s].phase = "commit" -> sweep[s].doomed
              [] OTHER -> {}

Has(s) == Seen(sweep[s]) \cup sweep[s].doomed

Deadlocked(s) ==
  \E other \in Beside(s) :
    /\ "commit" \in {sweep[s].phase, sweep[other].phase}
    /\ \E one \in Wants(s) \cap Has(other), two \in Wants(other) \cap Has(s) : one # two

(* Nobody catches the error of a statement: it is rolled back, the sweep ends, *)
(* and the tenants that are left wait for the next one.                        *)
Raise(s) ==
  /\ \/ sweep[s].phase = "store" /\ Refused(sweep[s])
     \/ Storing(s) /\ Deadlocked(s)
  /\ Becomes(s, Idle)
  /\ company' = company \ {s}
  /\ UNCHANGED <<managers, active, agents, errors, upsets>>

-----------------------------------------------------------------------------
(* An agent joins a group or leaves it. *)
Regroup(t, a) ==
  /\ changes + upsets < MaxEvents
  /\ changes' = changes + 1
  /\ group' = [group EXCEPT ![t] = IF a \in @ THEN @ \ {a} ELSE @ \cup {a}]
  /\ lastIn' = [lastIn EXCEPT ![t][a] = IF a \in group[t] THEN changes ELSE @]
  /\ sweep' = [s \in Sweeps |-> IF sweep[s].tenant = t THEN [sweep[s] EXCEPT !.quiet = FALSE] ELSE sweep[s]]
  /\ UNCHANGED <<active, agents, errors, unserved, upsets, company>>

Suspend(t) ==
  /\ t \in active /\ changes + upsets < MaxEvents
  /\ active' = active \ {t} /\ upsets' = upsets + 1
  /\ UNCHANGED <<managers, agents, errors, sweep, company>>

(* A manager's count comes to be one too many. *)
Miscount ==
  /\ unserved = 0 /\ changes + upsets < MaxEvents
  /\ unserved' = 1 /\ upsets' = upsets + 1
  /\ UNCHANGED <<group, active, agents, errors, sweep, changes, lastIn, company>>

NoRows == [t \in Tenants |-> [a \in Agents |-> Absent]]

SyncInit ==
  /\ group = FirstGroups /\ active = Tenants
  /\ agents = NoRows /\ lastIn = NoRows /\ errors = {}
  /\ sweep = [s \in Sweeps |-> Idle]
  /\ changes = 0 /\ unserved = 0 /\ upsets = 0 /\ company = {}

Progress(s) ==
  \/ \E t \in Tenants : SyncTenant(s, t)
  \/ GetPage(s) \/ ManagerError(s) \/ UpsertAgents(s) \/ PruneAgents(s) \/ CommitAgents(s) \/ Raise(s) \/ Finish(s)

SyncNext ==
  \/ \E s \in Sweeps : \/ \E tenants \in SUBSET Tenants : SyncAll(s, tenants)
                       \/ Progress(s)
  \/ Miscount
  \/ \E t \in Tenants : Suspend(t) \/ (\E a \in Agents : Regroup(t, a))

(* A sweep that has begun goes on: the job or the request awaits each step,    *)
(* and every request to a manager has a timeout.  Who waits for a row comes    *)
(* before those who ask for it later, in the queue of its lock.                *)
SyncSpec ==
  /\ SyncInit /\ [][SyncNext]_syncVars
  /\ \A s \in Sweeps : WF_syncVars(Progress(s)) /\ SF_syncVars(UpsertAgents(s) \/ CommitAgents(s))

-----------------------------------------------------------------------------
(* Properties *)

Cached(t) == { a \in Agents : agents[t][a] # Absent }

SyncTypeOK ==
  /\ group \in [Tenants -> SUBSET Agents] /\ active \subseteq Tenants /\ errors \subseteq Tenants
  /\ agents \in [Tenants -> [Agents -> {Absent} \cup 0 .. changes]]
  /\ \A s \in Sweeps : /\ sweep[s].phase \in {"idle", "next", "get", "store", "prune", "commit"}
                       /\ (sweep[s].phase \in {"idle", "next"}) <=> (sweep[s].tenant = Absent)
                       /\ Len(sweep[s].collected) <= MaxAgents
                       /\ s \in company => Storing(s)

(* The group has not changed since it was read, and no other sweep stores that *)
(* tenant's rows at the same time.                                             *)
Undisturbed(s) == sweep[s].quiet /\ s \notin company

(* A sync that nobody disturbs leaves exactly the group in the cache, whatever *)
(* pages it came in and whatever syncs went before, unless there is more of it *)
(* than MAX_AGENTS.                                                            *)
QuietSyncIsExact ==
  [][\A s \in Sweeps :
       LET t == sweep[s].tenant
       IN sweep[s].phase = "commit" /\ sweep'[s].phase = "next" /\ Undisturbed(s)
          /\ Cardinality(group[t]) <= MaxAgents
            => { a \in Agents : agents'[t][a] # Absent } = group[t]]_syncVars

(* "Every consumer shows synced_at so an analyst can tell fresh from stale":   *)
(* an agent in the cache was in that tenant's group at its synced_at or later, *)
(* even if it has left by the time the row is written.  No other agent is.     *)
SyncedAtIsHonest ==
  \A t \in Tenants : \A a \in Cached(t) :
    a \in group[t] \/ (lastIn[t][a] # Absent /\ lastIn[t][a] >= agents[t][a])

(* A sweep breaks off before it has come to every tenant only if somebody      *)
(* disturbs it, or if the group has an agent without an address or more agents *)
(* than a statement takes.                                                     *)
QuietSweepReachesAll ==
  [][\A s \in Sweeps :
       LET t == sweep[s].tenant
       IN (Storing(s) /\ sweep'[s].phase = "idle" /\ Undisturbed(s))
            => group[t] \cap NoAddress # {} \/ Cardinality(group[t]) > MaxRows]_syncVars

(* A sweep nobody disturbs leaves what is there and comes to every tenant. *)
QuietSweepIsExact == QuietSyncIsExact /\ QuietSweepReachesAll

(* Every sweep ends, also on a manager that counts more agents than it serves. *)
SweepEnds == \A s \in Sweeps : []<>(sweep[s].phase = "idle")

(* "Pruning is scoped to what this sync could see ... A partial read must      *)
(* never be mistaken for a decommissioned fleet": an agent that has been in    *)
(* the group all the time is not removed from the cache.                       *)
NoAgentIsForgotten ==
  [][\A t \in Tenants : \A a \in Cached(t) \cap FirstGroups[t] \cap group[t] :
       lastIn[t][a] = Absent => agents'[t][a] # Absent]_agents

(* sync_tenant "never raises", as "one bad tenant must not stop the sweep": a  *)
(* sweep that ends has come to all its tenants.                                *)
NoTenantStopsTheSweep ==
  [][\A s \in Sweeps : Storing(s) => sweep'[s].phase # "idle"]_syncVars

(* "Anything the manager cannot express as an address is dropped rather than   *)
(* allowed to fail the whole upsert": the rows of a tenant whose agents are    *)
(* few and are each read once, by one sweep, are stored.                       *)
AddressesAreDropped ==
  [][\A s \in Sweeps :
       Storing(s) /\ sweep'[s].phase = "idle" /\ Undisturbed(s)
         => Cardinality(group[sweep[s].tenant]) > MaxRows]_syncVars

(* The cache is "a projection of what a client's manager said the last time we *)
(* could reach it": the rows of a tenant come from one reading.                *)
CacheIsOneReading ==
  \A t \in Tenants : \A a, b \in Cached(t) : agents[t][a] = agents[t][b]
=============================================================================
