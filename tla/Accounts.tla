------------------------------ MODULE Accounts ------------------------------
(***************************************************************************)
(* Accounts and sessions: the users table and its administration            *)
(* (api/v1/users.py), tokens and their refusal (security.py,                *)
(* redis_client.py, deps/auth.py, api/v1/auth.py), and one page of the      *)
(* console that keeps a session going (api/client.ts, hooks/useAuth.ts).    *)
(* Handlers of the API run beside each other and pause where they wait for  *)
(* PostgreSQL or Redis.  A tick is half a second.                           *)
(***************************************************************************)
EXTENDS Integers, FiniteSets

CONSTANTS
  None,
  Users, Tenants,
  Visitor,               \* the user at the page
  FirstUsers,            \* the rows that are there at the start
  Handlers,
  AccessTtl, RefreshTtl, \* ticks a token lives
  MaxTime, MaxPairs,     \* bounds on the clock and on token pairs
  MaxEvents              \* bound on requests of administrators and on what goes wrong, together

STAFF_ROLES  == {"platform_admin", "soc_analyst"}
CLIENT_ROLES == {"client_admin", "client_viewer"}
ROLES        == STAFF_ROLES \cup CLIENT_ROLES
User         == [role : ROLES, is_staff : BOOLEAN, tenant_id : Tenants \cup {None}, is_active : BOOLEAN]

(* A pair of tokens, the claims of both in one: they differ in when they      *)
(* expire.  Two ghosts, see Pair.                                             *)
TokenClaims  == [role : ROLES, is_staff : BOOLEAN, tenant_id : Tenants \cup {None},
                 active_tenant : Tenants \cup {None}, access_exp : Int, exp : Int,
                 spent : BOOLEAN, let_go : BOOLEAN]

ASSUME AccountsAssumption ==
  /\ {AccessTtl, RefreshTtl, MaxTime, MaxPairs, MaxEvents} \subseteq Nat
  /\ None \notin Users \cup Handlers \cup Tenants \cup User \cup TokenClaims \cup ROLES \cup BOOLEAN
               \cup {"login", "refresh", "switch", "logout", "admin", "revoked"}
  /\ FirstUsers \in [Users -> User \cup {None}]
  /\ Visitor \in Users /\ FirstUsers[Visitor] # None
  /\ \A u \in Users :     \* what create_user and the check constraints make sure of
       FirstUsers[u] # None =>
         /\ FirstUsers[u].is_staff <=> FirstUsers[u].tenant_id = None
         /\ FirstUsers[u].is_staff <=> FirstUsers[u].role \in STAFF_ROLES

VARIABLES
  now,
  users,     \* the row of each user, None if there is none
  tokens,    \* each pair of tokens that was issued
  denied,    \* until when Redis holds the key that denies a refresh token
  page,      \* [access, refresh : the stored tokens, 0 for none; flight : the refresh it waits for]
  handler,   \* what each request is doing
  events     \* requests of administrators, and faults

vars == <<now, users, tokens, denied, page, handler, events>>

Pairs == 1 .. MaxPairs
NoPage == [access |-> 0, refresh |-> 0, flight |-> None]

(* heard: the page waits for the answer.  late: a ghost, the token was spent   *)
(* when it was checked, and had a second of life left.                         *)
Idle == [kind |-> None, phase |-> "idle", token |-> 0, row |-> None, active |-> None, pair |-> 0,
         heard |-> TRUE, why |-> None, late |-> FALSE, actor |-> None, target |-> None, changes |-> None]

Becomes(h, state) == handler' = [handler EXCEPT ![h] = state]

Refused(h, reason) == Becomes(h, [handler[h] EXCEPT !.phase = "refused", !.why = reason, !.row = None, !.active = None])

Occurs == events < MaxEvents /\ events' = events + 1

Whole(ticks) == ticks - (ticks % 2)     \* the whole seconds of a span or of a time

-----------------------------------------------------------------------------
(* Tokens *)

Free == { i \in Pairs : tokens[i] = None }

(* _issue_pair: both claims expire at a whole second.  Two ghosts: the refresh *)
(* token was spent; somebody signed out with it, or does not hear what it was  *)
(* exchanged for.                                                             *)
Pair(row, active) ==
  [ role |-> row.role, is_staff |-> row.is_staff, tenant_id |-> row.tenant_id, active_tenant |-> active,
    access_exp |-> Whole(now + AccessTtl), exp |-> Whole(now + RefreshTtl),
    spent |-> FALSE, let_go |-> FALSE ]

Revoked(i) == now < denied[i]

(* Mutant: the denial is kept for the life of an access token. *)
DenyShort(i) == denied' = [denied EXCEPT ![i] = now + AccessTtl]

(* revoke_token: the key lives for the whole seconds the token has left        *)
Deny(i) == denied' = [denied EXCEPT ![i] = IF Whole(tokens[i].exp - now) <= 0 THEN @
                                           ELSE now + Whole(tokens[i].exp - now)]

Spend(i, signedOut) ==
  tokens' = [tokens EXCEPT ![i].spent = TRUE, ![i].let_go = @ \/ signedOut]

(* get_current_user: a token is good while the account is as it says          *)
Accepted(i) ==
  /\ i # 0 /\ now < tokens[i].access_exp
  /\ LET row == users[Visitor]
     IN /\ row.is_active /\ row.role = tokens[i].role /\ row.is_staff = tokens[i].is_staff
        /\ row.is_staff \/ row.tenant_id = tokens[i].tenant_id

-----------------------------------------------------------------------------
(* What the page asks for *)

Login(h) ==
  /\ handler[h] = Idle /\ page.refresh = 0
  /\ users[Visitor].is_active
  /\ Becomes(h, [Idle EXCEPT !.kind = "login", !.phase = "mint", !.row = users[Visitor]])
  /\ UNCHANGED <<now, users, tokens, denied, page, events>>

(* Mutant: every query that meets a stale token refreshes it. *)
RefreshEach(h) ==
  /\ handler[h] = Idle /\ page.refresh # 0
  /\ Becomes(h, [Idle EXCEPT !.kind = "refresh", !.phase = "check", !.token = page.refresh])
  /\ page' = [page EXCEPT !.flight = h]
  /\ UNCHANGED <<now, users, tokens, denied, events>>

(* refreshAccessToken: on a 401, at the start of a page and when the stream    *)
(* breaks; one at a time                                                      *)
Refresh(h) ==
  /\ handler[h] = Idle /\ page.refresh # 0 /\ page.flight = None
  /\ Becomes(h, [Idle EXCEPT !.kind = "refresh", !.phase = "check", !.token = page.refresh])
  /\ page' = [page EXCEPT !.flight = h]
  /\ UNCHANGED <<now, users, tokens, denied, events>>

SwitchTenant(h, tenant) ==
  /\ handler[h] = Idle /\ Free # {}
  /\ Accepted(page.access) /\ users[Visitor].is_staff
  /\ Becomes(h, [Idle EXCEPT !.kind = "switch", !.phase = "mint", !.row = users[Visitor], !.active = tenant])
  /\ UNCHANGED <<now, users, tokens, denied, page, events>>

SignOut(h) ==
  /\ handler[h] = Idle /\ page.refresh # 0
  /\ Becomes(h, [Idle EXCEPT !.kind = "logout", !.phase = "rotate", !.token = page.refresh])
  /\ UNCHANGED <<now, users, tokens, denied, page, events>>

-----------------------------------------------------------------------------
(* What the API does *)

Check(h) ==
  LET i == handler[h].token
      state == [handler[h] EXCEPT !.late = tokens[i].spent /\ tokens[i].exp - now >= 2]
  IN /\ handler[h].phase = "check"
     /\ CASE now >= tokens[i].exp -> Refused(h, "expired")
          [] now < tokens[i].exp /\ Revoked(i) -> Refused(h, "revoked")
          [] OTHER -> Becomes(h, [state EXCEPT !.phase = "load"])
     /\ UNCHANGED <<now, users, tokens, denied, page, events>>

LoadUser(h) ==
  /\ handler[h].phase = "load"
  /\ IF users[Visitor].is_active
     THEN Becomes(h, [handler[h] EXCEPT !.phase = "rotate", !.row = users[Visitor]])
     ELSE Refused(h, "inactive")
  /\ UNCHANGED <<now, users, tokens, denied, page, events>>

(* The refresh token is spent, by a refresh or by a logout *)
Rotate(h) ==
  LET i == handler[h].token
  IN /\ handler[h].phase = "rotate"
     /\ Deny(i) /\ Spend(i, handler[h].kind = "logout")
     /\ Becomes(h, IF handler[h].kind = "logout" THEN [handler[h] EXCEPT !.phase = "cleared"]
                   ELSE [handler[h] EXCEPT !.phase = "mint",
                           !.active = IF handler[h].row.is_staff THEN tokens[i].active_tenant ELSE None])
     /\ UNCHANGED <<now, users, page, events>>

Mint(h) ==
  LET i == CHOOSE i \in Pairs : tokens[i] = None /\ \A j \in Pairs : tokens[j] = None => i <= j
  IN /\ handler[h].phase = "mint" /\ Free # {}
     /\ tokens' = [tokens EXCEPT ![i] = Pair(handler[h].row, handler[h].active)]
     /\ Becomes(h, [handler[h] EXCEPT !.phase = "minted", !.pair = i, !.row = None, !.active = None])
     /\ UNCHANGED <<now, users, denied, page, events>>

(* What the page holds after an answer: clearTokens, storeTokens, or no change *)
Held(state) ==
  CASE state.kind = "logout" \/ (state.kind = "refresh" /\ state.phase = "refused") ->
         [page EXCEPT !.access = 0, !.refresh = 0]
    [] state.phase = "minted" -> [page EXCEPT !.access = state.pair, !.refresh = state.pair]
    [] OTHER -> page

(* The answer reaches the page: a refresh that is refused empties the store,   *)
(* whatever is in it by then, and a sign-out does.                             *)
Answer(h) ==
  LET state == handler[h]
  IN /\ state.phase \in {"minted", "refused", "cleared"}
     /\ Becomes(h, Idle)
     /\ page' = IF ~state.heard THEN page
                ELSE [Held(state) EXCEPT !.flight = IF state.kind = "refresh" THEN None ELSE @]
     /\ UNCHANGED <<now, users, tokens, denied, events>>

-----------------------------------------------------------------------------
(* What goes wrong *)

PageKinds == {"login", "refresh", "switch", "logout"}

(* A page that is reloaded loses its access token and whoever waited there.    *)
Reload ==
  /\ Occurs /\ page.refresh # 0
  /\ page' = [page EXCEPT !.access = 0, !.flight = None]
  /\ handler' = [h \in Handlers |->
       IF handler[h].kind \in PageKinds
       THEN [handler[h] EXCEPT !.heard = FALSE] ELSE handler[h]]
  /\ tokens' = [i \in Pairs |->
       IF \E h \in Handlers : handler[h].kind = "refresh" /\ handler[h].token = i
       THEN [tokens[i] EXCEPT !.let_go = TRUE] ELSE tokens[i]]
  /\ UNCHANGED <<now, users, denied>>

(* The connection breaks under a refresh: nothing is stored, nothing cleared.  *)
Lose(h) ==
  /\ Occurs /\ page.flight = h /\ handler[h].kind = "refresh" /\ handler[h].heard
  /\ page' = [page EXCEPT !.flight = None]
  /\ Becomes(h, [handler[h] EXCEPT !.heard = FALSE])
  /\ tokens' = [tokens EXCEPT ![handler[h].token].let_go = TRUE]
  /\ UNCHANGED <<now, users, denied>>

ServerError(h) ==
  /\ Occurs /\ handler[h].kind \in PageKinds
  /\ handler[h].phase \in {"check", "load", "rotate", "mint"}
  /\ Refused(h, "error")
  /\ UNCHANGED <<now, users, tokens, denied, page>>

-----------------------------------------------------------------------------
(* User administration.  The token of the one who acts was good when the       *)
(* request came, and the row it was checked against is used from then on.      *)

Begin(h, actor) ==
  LET row == users[actor]
  IN /\ handler[h] = Idle /\ Occurs /\ row # None
     /\ row.is_active /\ row.role \in {"platform_admin", "client_admin"}
     /\ Becomes(h, [Idle EXCEPT !.kind = "admin", !.phase = "target", !.actor = actor, !.row = row])
     /\ UNCHANGED <<now, users, tokens, denied, page>>

(* Mutant: an administrator is an administrator. *)
GuardNobody(actor, target) == TRUE

(* _guard_target *)
GuardTarget(actor, target) ==
  \/ actor.role = "platform_admin"
  \/ target.tenant_id = actor.tenant_id /\ ~target.is_staff

(* Mutant: only a change of one's own role is refused. *)
MayDeactivate(actor, target, role, active) ==
  /\ role # users[target].role =>
       /\ target # actor.id
       /\ (role \in STAFF_ROLES) = users[target].is_staff
       /\ actor.row.role = "platform_admin" \/ role \in CLIENT_ROLES

(* What update_user refuses is not changed: role and active are what the row   *)
(* has, or what it is to have.                                                 *)
MayChange(actor, target, role, active) ==
  /\ role # users[target].role =>
       /\ target # actor.id
       /\ (role \in STAFF_ROLES) = users[target].is_staff
       /\ actor.row.role = "platform_admin" \/ role \in CLIENT_ROLES
  /\ active # users[target].is_active => target # actor.id

(* update_user: the columns that differ from what was read are written later.  *)
Target(h, target, role, active) ==
  LET row == users[target]
      actor == [id |-> handler[h].actor, row |-> handler[h].row]
  IN /\ handler[h].phase = "target" /\ row # None
     /\ GuardTarget(actor.row, row)
     /\ MayChange(actor, target, role, active)
     /\ <<role, active>> # <<row.role, row.is_active>>
     /\ Becomes(h, [handler[h] EXCEPT !.phase = "write", !.target = target,
           !.changes = [role |-> IF role = row.role THEN None ELSE role,
                        is_active |-> IF active = row.is_active THEN None ELSE active]])
     /\ UNCHANGED <<now, users, tokens, denied, page, events>>

Or(new, old) == IF new = None THEN old ELSE new

Write(h) ==
  LET state == handler[h]
  IN /\ state.phase = "write"
     /\ users' = [users EXCEPT ![state.target].role = Or(state.changes.role, @),
                               ![state.target].is_active = Or(state.changes.is_active, @)]
     /\ Becomes(h, Idle)
     /\ UNCHANGED <<now, tokens, denied, page, events>>

(* create_user: the unique email decides                                      *)
Create(h, user, role, tenant) ==
  LET actor == handler[h].row
      tenant_id == IF actor.role = "platform_admin" THEN tenant ELSE actor.tenant_id
  IN /\ handler[h].phase = "target"
     /\ actor.role = "platform_admin" \/ role \in CLIENT_ROLES
     /\ (role \in STAFF_ROLES) = (tenant_id = None)
     /\ users[user] = None
     /\ users' = [users EXCEPT ![user] = [role |-> role, is_staff |-> role \in STAFF_ROLES,
                                          tenant_id |-> tenant_id, is_active |-> TRUE]]
     /\ Becomes(h, Idle)
     /\ UNCHANGED <<now, tokens, denied, page, events>>

(* Nothing to do, nobody there, not allowed or already there                  *)
Decline(h) ==
  /\ handler[h].phase = "target"
  /\ Becomes(h, Idle)
  /\ UNCHANGED <<now, users, tokens, denied, page, events>>

-----------------------------------------------------------------------------
Tick ==
  /\ now < MaxTime
  /\ now' = now + 1
  /\ UNCHANGED <<users, tokens, denied, page, handler, events>>

Init ==
  /\ now = 0 /\ users = FirstUsers
  /\ tokens = [i \in Pairs |-> None] /\ denied = [i \in Pairs |-> 0]
  /\ page = NoPage /\ handler = [h \in Handlers |-> Idle]
  /\ events = 0

Next ==
  \/ \E h \in Handlers :
       \/ Login(h) \/ Refresh(h) \/ SignOut(h) \/ (\E tenant \in Tenants \cup {None} : SwitchTenant(h, tenant))
       \/ Check(h) \/ LoadUser(h) \/ Rotate(h) \/ Mint(h) \/ Answer(h) \/ Lose(h) \/ ServerError(h)
       \/ \E actor \in Users : Begin(h, actor)
       \/ \E user \in Users, role \in ROLES :
            \/ \E active \in BOOLEAN : Target(h, user, role, active)
            \/ \E tenant \in Tenants \cup {None} : Create(h, user, role, tenant)
       \/ Write(h) \/ Decline(h)
  \/ Reload \/ Tick

Spec == Init /\ [][Next]_vars

-----------------------------------------------------------------------------
(* Properties *)

(* The check constraints of the table: staff have a role of the staff and no   *)
(* tenant, clients have both, whichever columns were written beside others.    *)
StaffHaveNoTenant ==
  \A u \in Users : users[u] # None =>
    /\ users[u].is_staff <=> users[u].tenant_id = None
    /\ users[u].is_staff <=> users[u].role \in STAFF_ROLES

(* What the page and the handlers refer to is there. *)
TypeOK ==
  /\ now \in 0 .. MaxTime /\ events \in 0 .. MaxEvents
  /\ users \in [Users -> User \cup {None}]
  /\ StaffHaveNoTenant
  /\ {page.access, page.refresh} \subseteq (Pairs \ Free) \cup {0}
  /\ page.flight # None => handler[page.flight].kind = "refresh" /\ handler[page.flight].heard

(* A refresh token that was spent, by a refresh or a sign-out, is not taken    *)
(* again, as long as it has a second to live: revoke_token denies it for the   *)
(* whole seconds it had left.                                                  *)
SpentIsRefused == \A h \in Handlers : ~handler[h].late

(* "A page of parallel queries ... must not spend the single-use refresh token *)
(* several times over": a page is not told that its session was signed out,    *)
(* unless it was, or an earlier exchange of the token went unheard.            *)
PageKeepsItsSession ==
  \A h \in Handlers : handler[h].why = "revoked" => tokens[handler[h].token].let_go

Admins == { u \in Users : /\ users[u] # None /\ users[u].is_active
                          /\ users[u].role = "platform_admin" }

(* Nobody deactivates or demotes oneself, so the last administrator can only   *)
(* be taken away by a request of somebody who was one when it came and is not  *)
(* any more.                                                                   *)
LastAdminGoesOnlyInARace ==
  [][Admins # {} /\ Admins' = {} =>
       \E h \in Handlers : /\ handler[h].phase = "write" /\ handler'[h] = Idle
                           /\ handler[h].actor \notin Admins]_users

(* Whatever races, a request of a client admin adds or changes client users of *)
(* the admin's own tenant and nobody else, and leaves them there.              *)
ClientAdminStaysHome ==
  [][\A h \in Handlers, u \in Users :
       (/\ handler[h].kind = "admin" /\ handler'[h] = Idle /\ handler[h].row.role = "client_admin"
        /\ users'[u] # users[u])
         => users'[u].tenant_id = handler[h].row.tenant_id /\ users'[u].role \in CLIENT_ROLES]_users

(* No role is held by somebody who may not hold it, or given by somebody who *)
(* may not give it.                                                          *)
RolesStayInBounds == []StaffHaveNoTenant /\ ClientAdminStaysHome

(* "Nobody may change their own role or deactivate themselves.  Both are how   *)
(* an estate ends up with no administrator at all" (users.py): one remains.    *)
(* Two administrators may do it to each other.                                 *)
AnAdminRemains == Admins # {}
=============================================================================
