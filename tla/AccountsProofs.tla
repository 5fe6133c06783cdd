---------------------------- MODULE AccountsProofs ----------------------------
(***************************************************************************)
(* Proofs about Accounts, for any number of users, tenants, handlers and    *)
(* tokens, any lifetimes and every length of run.                           *)
(*                                                                          *)
(* The argument has three parts, over one type invariant.  What a handler   *)
(* of the administration has in hand still fits the row when it writes,     *)
(* since only roles and the active flag of a row ever change (Administered). *)
(* A spent token is denied for as long as it has a second to live (Denied). *)
(* The page waits for one refresh at a time, and a refresh it does not wait *)
(* for has been let go (Kept).                                              *)
(***************************************************************************)
EXTENDS Accounts, WellFoundedInduction, TLAPS

Kinds   == {"login", "refresh", "switch", "logout", "admin"}
Phases  == {"idle", "check", "load", "rotate", "mint", "minted", "refused", "cleared",
            "target", "write"}
Reasons == {"expired", "revoked", "inactive", "error"}

Changes == [role : ROLES \cup {None}, is_active : BOOLEAN \cup {None}]

State ==
  [ kind : Kinds \cup {None}, phase : Phases, token : Pairs \cup {0}, row : User \cup {None},
    active : Tenants \cup {None}, pair : Pairs \cup {0}, heard : BOOLEAN, why : Reasons \cup {None},
    late : BOOLEAN, actor : Users \cup {None}, target : Users \cup {None}, changes : Changes \cup {None} ]

(* What the phase of a handler says about the rest of it.                   *)
Coherent(state) ==
  /\ state.kind = None => state = Idle
  /\ state.phase = "idle" => state.kind = None
  /\ state.phase \in {"check", "load"} => state.kind = "refresh"
  /\ state.phase = "rotate" => state.kind \in {"refresh", "logout"}
  /\ state.phase = "cleared" => state.kind = "logout"
  /\ state.phase \in {"mint", "minted"} => state.kind \in {"login", "refresh", "switch"}
  /\ state.kind = "admin" <=> state.phase \in {"target", "write"}
  /\ state.phase = "mint" \/ (state.phase = "rotate" /\ state.kind = "refresh") => state.row \in User
  /\ state.kind = "admin" => state.row \in User /\ state.actor \in Users
  /\ state.phase = "write" => state.target \in Users /\ state.changes \in Changes
  /\ state.pair # 0 <=> state.phase = "minted"
  /\ state.kind \in {"refresh", "logout"} => state.token # 0

Types ==
  /\ now \in 0 .. MaxTime /\ events \in 0 .. MaxEvents
  /\ users \in [Users -> User \cup {None}] /\ users[Visitor] # None
  /\ tokens \in [Pairs -> TokenClaims \cup {None}]
  /\ denied \in [Pairs -> Nat]
  /\ page \in [access : Pairs \cup {0}, refresh : Pairs \cup {0}, flight : Handlers \cup {None}]
  /\ handler \in [Handlers -> State]
  /\ \A h \in Handlers : Coherent(handler[h])

(* Whatever a token, a page or a handler names has been issued.             *)
Issued ==
  /\ page.access # 0 => tokens[page.access] # None
  /\ page.refresh # 0 => tokens[page.refresh] # None
  /\ \A h \in Handlers :
       /\ handler[h].token # 0 => tokens[handler[h].token] # None
       /\ handler[h].pair # 0 => tokens[handler[h].pair] # None

(* What a request of an administrator is about to write fits the row it is  *)
(* about, which may have changed since it was read.                         *)
Fits(state) ==
  state.phase = "write" =>
    LET row == users[state.target]
    IN /\ row # None
       /\ state.target # state.actor
       /\ state.changes.role # None => (state.changes.role \in STAFF_ROLES <=> row.is_staff)
       /\ state.row.role = "client_admin" => row.tenant_id = state.row.tenant_id /\ ~row.is_staff

Administered ==
  /\ StaffHaveNoTenant
  /\ \A h \in Handlers : Fits(handler[h])

(* A spent token is denied for the whole seconds it had left.               *)
Denied ==
  /\ \A i \in Pairs : tokens[i] # None /\ tokens[i].spent
                        => tokens[i].exp - denied[i] <= 1 \/ tokens[i].exp - now <= 1
  /\ SpentIsRefused

(* A token that was exchanged, and whose exchange the page has heard of or  *)
(* still waits for.                                                         *)
Good(i) == denied[i] = 0 \/ tokens[i].let_go

NeverDenied == \A i \in Pairs : tokens[i] = None => denied[i] = 0

OneFlight ==
  /\ page.flight # None => handler[page.flight].kind = "refresh" /\ handler[page.flight].heard
  /\ \A h \in Handlers : handler[h].kind = "refresh" /\ handler[h].heard => page.flight = h

Unheard ==
  \A h \in Handlers : handler[h].kind = "refresh" /\ ~handler[h].heard => tokens[handler[h].token].let_go

Checked == \A h \in Handlers : handler[h].phase = "check" => Good(handler[h].token)

(* A pair that was made for a handler is new to everybody else.             *)
Fresh ==
  \A h \in Handlers : handler[h].pair # 0 =>
    /\ denied[handler[h].pair] = 0 /\ page.refresh # handler[h].pair
    /\ \A g \in Handlers : /\ handler[g].token # handler[h].pair
                           /\ g # h => handler[g].pair # handler[h].pair

(* The page's refresh token is good, or its exchange is under way.          *)
UnderWay(i) ==
  /\ page.flight # None /\ handler[page.flight].token = i
  /\ handler[page.flight].phase \in {"mint", "minted", "refused"}

Stored == page.refresh # 0 => Good(page.refresh) \/ UnderWay(page.refresh)

Told ==
  \A h \in Handlers : handler[h].why = "revoked" => handler[h].token # 0 /\ tokens[handler[h].token].let_go

Kept == NeverDenied /\ OneFlight /\ Unheard /\ Checked /\ Fresh /\ Stored /\ Told

IInv == Types /\ Issued /\ Administered /\ Denied /\ Kept

-----------------------------------------------------------------------------
(* Types *)

LEMMA ConstantFacts ==
  /\ AccessTtl \in Nat /\ RefreshTtl \in Nat /\ MaxTime \in Nat /\ MaxPairs \in Nat
  /\ MaxEvents \in Nat
  /\ None \notin Users /\ None \notin Handlers /\ None \notin Tenants /\ None \notin User
  /\ None \notin TokenClaims /\ None \notin ROLES /\ None \notin BOOLEAN /\ None \notin Kinds /\ None # "revoked"
  /\ Visitor \in Users
  /\ Pairs \subseteq Nat /\ 0 \notin Pairs
BY AccountsAssumption DEF Kinds, Pairs

LEMMA IdleIsState == Idle \in State /\ Coherent(Idle)
BY ConstantFacts DEF Idle, State, Coherent, Phases, Kinds

(* One handler goes on to another state.                                    *)
LEMMA StateStep ==
  ASSUME Types, NEW h \in Handlers, NEW new, new \in State, Coherent(new), Becomes(h, new)
  PROVE  /\ handler' \in [Handlers -> State]
         /\ \A g \in Handlers : handler'[g] = IF g = h THEN new ELSE handler[g]
         /\ \A g \in Handlers : Coherent(handler'[g])
BY DEF Types, Becomes

LEMMA WholeIs ==
  ASSUME NEW n \in Int
  PROVE  Whole(n) \in Int /\ Whole(n) <= n /\ n - 1 <= Whole(n)
BY DEF Whole

LEMMA PairIsToken ==
  ASSUME Types, NEW row \in User, NEW active \in Tenants \cup {None}
  PROVE  /\ Pair(row, active) \in TokenClaims
         /\ Pair(row, active) # None /\ ~Pair(row, active).spent
<1>1. now \in Int /\ Whole(now + AccessTtl) \in Int /\ Whole(now + RefreshTtl) \in Int
  BY ConstantFacts, WholeIs DEF Types
<1>2. Pair(row, active) \in TokenClaims /\ ~Pair(row, active).spent
  BY <1>1 DEF Pair, TokenClaims, User
<1> QED
  BY <1>2, ConstantFacts

LEMMA RefusedIs ==
  ASSUME NEW state \in State, Coherent(state), NEW reason \in Reasons,
         state.kind \in {"login", "refresh", "switch", "logout"},
         state.phase \in {"check", "load", "rotate", "mint"}
  PROVE  LET new == [state EXCEPT !.phase = "refused", !.why = reason, !.row = None, !.active = None]
         IN new \in State /\ Coherent(new)
<1> DEFINE new == [state EXCEPT !.phase = "refused", !.why = reason, !.row = None, !.active = None]
<1>1. /\ new.phase = "refused" /\ new.kind = state.kind /\ new.pair = state.pair
      /\ new.token = state.token
  BY DEF State
<1>2. new \in State
  BY DEF State, Phases
<1>3. Coherent(new)
  BY <1>1, ConstantFacts DEF Coherent, Kinds
<1> QED
  BY <1>2, <1>3

LEMMA TypesInit == Init => Types
<1> SUFFICES ASSUME Init
             PROVE  Types
  OBVIOUS
<1>1. handler \in [Handlers -> State] /\ \A h \in Handlers : Coherent(handler[h])
  BY IdleIsState DEF Init
<1>2. tokens \in [Pairs -> TokenClaims \cup {None}] /\ denied \in [Pairs -> Nat]
  BY DEF Init
<1>3. page \in [access : Pairs \cup {0}, refresh : Pairs \cup {0}, flight : Handlers \cup {None}]
  BY DEF Init, NoPage
<1> QED
  BY <1>1, <1>2, <1>3, ConstantFacts, AccountsAssumption DEF Init, Types

LEMMA PageSteps ==
  ASSUME Types, NEW h \in Handlers,
         \/ Login(h) \/ Refresh(h) \/ SignOut(h)
         \/ \E tenant \in Tenants \cup {None} : SwitchTenant(h, tenant)
  PROVE  Types'
<1>1. /\ page.refresh \in Pairs \cup {0} /\ users[Visitor] \in User
      /\ None \notin Kinds
      /\ Idle \in State
  BY ConstantFacts, IdleIsState DEF Types
<1>2. CASE Login(h)
  <2> DEFINE new == [Idle EXCEPT !.kind = "login", !.phase = "mint", !.row = users[Visitor]]
  <2>1. new \in State /\ Coherent(new)
    BY <1>1, ConstantFacts DEF Idle, State, Phases, Coherent, Kinds
  <2>2. Becomes(h, new)
    BY <1>2 DEF Login
  <2> QED
    BY <1>2, <2>1, <2>2, StateStep DEF Login, Types
<1>3. CASE Refresh(h)
  <2> DEFINE new == [Idle EXCEPT !.kind = "refresh", !.phase = "check", !.token = page.refresh]
  <2>0. page.refresh # 0
    BY <1>3 DEF Refresh
  <2>1. /\ new.phase = "check" /\ new.kind = "refresh" /\ new.pair = 0 /\ new.token # 0
        /\ new \in State
    BY <1>1, <2>0 DEF Idle, State, Phases, Kinds
  <2>3. Coherent(new)
    BY <2>1, ConstantFacts DEF Coherent, Kinds
  <2>2. Becomes(h, new)
    BY <1>3 DEF Refresh
  <2> QED
    BY <1>3, <2>1, <2>2, <2>3, StateStep DEF Refresh, Types
<1>4. CASE SignOut(h)
  <2> DEFINE new == [Idle EXCEPT !.kind = "logout", !.phase = "rotate", !.token = page.refresh]
  <2>1. new \in State /\ Coherent(new)
    BY <1>1, <1>4, ConstantFacts DEF Idle, State, Phases, Coherent, Kinds, SignOut
  <2>2. Becomes(h, new)
    BY <1>4 DEF SignOut
  <2> QED
    BY <1>4, <2>1, <2>2, StateStep DEF SignOut, Types
<1>5. ASSUME NEW tenant \in Tenants \cup {None}, SwitchTenant(h, tenant)
      PROVE  Types'
  <2> DEFINE new == [Idle EXCEPT !.kind = "switch", !.phase = "mint", !.row = users[Visitor],
                                 !.active = tenant]
  <2>1. new \in State /\ Coherent(new)
    BY <1>1, ConstantFacts DEF Idle, State, Phases, Coherent, Kinds
  <2>2. Becomes(h, new)
    BY <1>5 DEF SwitchTenant
  <2> QED
    BY <1>5, <2>1, <2>2, StateStep DEF SwitchTenant, Types
<1> QED
  BY <1>2, <1>3, <1>4, <1>5

LEMMA SmallestIs ==
  ASSUME NEW S \in SUBSET Nat, S # {}
  PROVE  \E i \in S : \A j \in S : i <= j
<1>1. PICK i \in S : \A j \in S : ~(<<j, i>> \in OpToRel(<, Nat))
  BY NatLessThanWellFounded, WFMin
<1>2. \A j \in S : ~(j < i)
  BY <1>1 DEF OpToRel
<1> QED
  BY <1>2

(* Mint takes a pair that is free.                                          *)
FirstFree == CHOOSE i \in Pairs : tokens[i] = None /\ \A j \in Pairs : tokens[j] = None => i <= j

LEMMA FreeHasFirst ==
  ASSUME Types, Free # {}
  PROVE  FirstFree \in Pairs /\ tokens[FirstFree] = None
<1>1. \E i \in Free : \A j \in Free : i <= j
  BY ConstantFacts, SmallestIs DEF Free
<1>2. \E i \in Pairs : tokens[i] = None /\ \A j \in Pairs : tokens[j] = None => i <= j
  BY <1>1 DEF Free
<1> QED
  BY <1>2 DEF FirstFree

LEMMA CheckTypes ==
  ASSUME Types, NEW h \in Handlers, Check(h)
  PROVE  Types'
<1>1. /\ handler[h] \in State /\ Coherent(handler[h]) /\ handler[h].phase = "check"
      /\ handler[h].kind = "refresh"
  BY DEF Types, Check, Coherent, State
<1>2. ASSUME NEW reason \in Reasons, Refused(h, reason)
      PROVE  handler' \in [Handlers -> State] /\ \A g \in Handlers : Coherent(handler'[g])
  <2> DEFINE refused == [handler[h] EXCEPT !.phase = "refused", !.why = reason, !.row = None, !.active = None]
  <2>1. refused \in State /\ Coherent(refused)
    BY <1>1, RefusedIs
  <2>2. Becomes(h, refused)
    BY <1>2 DEF Refused
  <2> HIDE DEF refused
  <2> QED
    BY <2>1, <2>2, StateStep
<1>3. ASSUME NEW late \in BOOLEAN, Becomes(h, [handler[h] EXCEPT !.late = late, !.phase = "load"])
      PROVE  handler' \in [Handlers -> State] /\ \A g \in Handlers : Coherent(handler'[g])
  <2> DEFINE new == [handler[h] EXCEPT !.late = late, !.phase = "load"]
  <2>1. new \in State
    BY <1>1, <1>3 DEF State, Phases
  <2>2. /\ new.phase = "load" /\ new.kind = "refresh" /\ new.pair = handler[h].pair
        /\ new.token = handler[h].token
    BY <1>1 DEF State
  <2>3. Becomes(h, new)
    BY <1>3
  <2> HIDE DEF new
  <2>4. Coherent(new)
    BY <1>1, <2>2, ConstantFacts DEF Coherent, Kinds
  <2> QED
    BY <2>1, <2>3, <2>4, StateStep
<1>4. \/ \E reason \in Reasons : Refused(h, reason)
      \/ \E late \in BOOLEAN : Becomes(h, [handler[h] EXCEPT !.late = late, !.phase = "load"])
  BY DEF Check, Reasons
<1>5. handler' \in [Handlers -> State] /\ \A g \in Handlers : Coherent(handler'[g])
  BY <1>2, <1>3, <1>4
<1> QED
  BY <1>5 DEF Check, Refused, Becomes, Types

LEMMA LoadTypes ==
  ASSUME Types, NEW h \in Handlers, LoadUser(h)
  PROVE  Types'
<1> DEFINE new == [handler[h] EXCEPT !.phase = "rotate", !.row = users[Visitor]]
<1>1. /\ handler[h] \in State /\ Coherent(handler[h]) /\ handler[h].phase = "load"
      /\ handler[h].kind = "refresh" /\ users[Visitor] \in User
  BY ConstantFacts DEF Types, LoadUser, Coherent
<1>2. /\ new \in State
      /\ new.phase = "rotate" /\ new.kind = "refresh" /\ new.pair = handler[h].pair
      /\ new.token = handler[h].token /\ new.row \in User
  BY <1>1 DEF State, Phases
<1>3. Coherent(new)
  BY <1>1, <1>2, ConstantFacts DEF Coherent, Kinds
<1>4. handler' \in [Handlers -> State] /\ \A g \in Handlers : Coherent(handler'[g])
  <2>1. CASE users[Visitor].is_active
    <3>1. Becomes(h, new)
      BY <2>1 DEF LoadUser
    <3> QED
      BY <1>2, <1>3, <3>1, StateStep
  <2>2. CASE ~users[Visitor].is_active
    <3>1. Refused(h, "inactive")
      BY <2>2 DEF LoadUser
    <3> QED
      BY <1>1, <3>1, RefusedIs, StateStep DEF Refused, Reasons
  <2> QED
    BY <2>1, <2>2
<1> QED
  BY <1>4 DEF LoadUser, Types

LEMMA RotateTypes ==
  ASSUME Types, NEW h \in Handlers, Rotate(h), tokens[handler[h].token] # None
  PROVE  Types'
<1> DEFINE i       == handler[h].token
           cleared == [handler[h] EXCEPT !.phase = "cleared"]
           active  == IF handler[h].row.is_staff THEN tokens[i].active_tenant ELSE None
           mint    == [handler[h] EXCEPT !.phase = "mint", !.active = active]
<1>1. /\ handler[h] \in State /\ Coherent(handler[h]) /\ handler[h].phase = "rotate"
      /\ handler[h].kind \in {"refresh", "logout"} /\ i \in Pairs
      /\ tokens[i] \in TokenClaims
  BY DEF Types, Rotate, Coherent, State
<1>2. denied' \in [Pairs -> Nat]
  <2>1. now \in Int /\ tokens[i].exp \in Int /\ Whole(tokens[i].exp - now) \in Int
    BY <1>1, WholeIs, ConstantFacts DEF Types, TokenClaims
  <2> HIDE DEF i
  <2>2. Deny(i)
    BY DEF Rotate, i
  <2> QED
    BY <1>1, <2>1, <2>2, ConstantFacts DEF Deny, Types
<1>3. tokens' \in [Pairs -> TokenClaims \cup {None}]
  <2> HIDE DEF i
  <2>1. Spend(i, handler[h].kind = "logout")
    BY DEF Rotate, i
  <2>2. [tokens[i] EXCEPT !.spent = TRUE, !.let_go = @ \/ (handler[h].kind = "logout")] \in TokenClaims
    BY <1>1 DEF TokenClaims
  <2>3. tokens' = [tokens EXCEPT ![i] = [tokens[i] EXCEPT !.spent = TRUE,
                                         !.let_go = @ \/ (handler[h].kind = "logout")]]
    BY <1>1, <2>1 DEF Spend, Types
  <2> QED
    BY <1>1, <2>2, <2>3 DEF Types
<1>4. handler' \in [Handlers -> State] /\ \A g \in Handlers : Coherent(handler'[g])
  <2>1. CASE handler[h].kind = "logout"
    <3>1. /\ cleared \in State
          /\ cleared.phase = "cleared" /\ cleared.kind = "logout" /\ cleared.pair = handler[h].pair
          /\ cleared.token = handler[h].token
      BY <1>1, <2>1 DEF State, Phases
    <3>2. Coherent(cleared)
      BY <1>1, <3>1, ConstantFacts DEF Coherent, Kinds
    <3>3. Becomes(h, cleared)
      BY <2>1 DEF Rotate
    <3> QED
      BY <3>1, <3>2, <3>3, StateStep
  <2>2. CASE handler[h].kind # "logout"
    <3>0. active \in Tenants \cup {None}
      BY <1>1 DEF TokenClaims
    <3> HIDE DEF active
    <3>1. /\ mint \in State
          /\ mint.phase = "mint" /\ mint.kind = "refresh" /\ mint.pair = handler[h].pair
          /\ mint.token = handler[h].token /\ mint.row = handler[h].row
      <4>1. handler[h] \in State /\ handler[h].kind = "refresh"
        BY <1>1, <2>2
      <4>2. mint \in State
        BY <3>0, <4>1 DEF State, Phases
      <4> QED
        BY <4>1, <4>2 DEF State
    <3>2. Coherent(mint)
      BY <1>1, <2>2, <3>1, ConstantFacts DEF Coherent, Kinds
    <3>3. Becomes(h, mint)
      BY <2>2 DEF Rotate, active
    <3> QED
      BY <3>1, <3>2, <3>3, StateStep
  <2> QED
    BY <2>1, <2>2
<1> QED
  BY <1>2, <1>3, <1>4 DEF Rotate, Types

LEMMA MintTypes ==
  ASSUME Types, NEW h \in Handlers, Mint(h)
  PROVE  /\ Types'
         /\ FirstFree \in Pairs /\ tokens[FirstFree] = None
         /\ tokens' = [tokens EXCEPT ![FirstFree] = Pair(handler[h].row, handler[h].active)]
         /\ Pair(handler[h].row, handler[h].active) \in TokenClaims
<1> DEFINE new == [handler[h] EXCEPT !.phase = "minted", !.pair = FirstFree, !.row = None, !.active = None]
           pair == Pair(handler[h].row, handler[h].active)
<1>1. FirstFree \in Pairs /\ tokens[FirstFree] = None
  BY FreeHasFirst DEF Mint
<1>2. Becomes(h, new) /\ tokens' = [tokens EXCEPT ![FirstFree] = pair]
  BY DEF Mint, FirstFree
<1>3. /\ handler[h] \in State /\ Coherent(handler[h]) /\ handler[h].phase = "mint"
      /\ handler[h].row \in User /\ handler[h].active \in Tenants \cup {None}
  BY DEF Types, Mint, Coherent, State
<1>4. pair \in TokenClaims
  BY <1>3, PairIsToken
<1> HIDE DEF pair
<1>5. new \in State
  <2>1. handler[h] \in State /\ FirstFree \in Pairs
    BY <1>1, <1>3
  <2> HIDE DEF FirstFree
  <2> QED
    BY <2>1 DEF State, Phases
<1>6. /\ new.phase = "minted" /\ new.kind = handler[h].kind /\ new.pair = FirstFree
      /\ new.token = handler[h].token
  BY <1>3 DEF State
<1>7. Coherent(new)
  BY <1>1, <1>3, <1>6, ConstantFacts DEF Coherent, Kinds
<1>8. Types'
  <2>1. handler' \in [Handlers -> State] /\ \A g \in Handlers : Coherent(handler'[g])
    BY <1>2, <1>5, <1>7, StateStep
  <2>2. tokens' \in [Pairs -> TokenClaims \cup {None}]
    BY <1>1, <1>2, <1>4 DEF Types
  <2> QED
    BY <2>1, <2>2 DEF Mint, Types
<1> QED
  BY <1>1, <1>2, <1>4, <1>8 DEF pair

LEMMA HeldIs ==
  ASSUME Types, NEW h \in Handlers
  PROVE  /\ Held(handler[h]) \in [access : Pairs \cup {0}, refresh : Pairs \cup {0},
                                  flight : Handlers \cup {None}]
         /\ Held(handler[h]).flight = page.flight
         /\ Held(handler[h]).refresh \in {0, page.refresh, handler[h].pair}
         /\ Held(handler[h]).access \in {0, page.access, handler[h].pair}
<1>1. page \in [access : Pairs \cup {0}, refresh : Pairs \cup {0}, flight : Handlers \cup {None}]
  BY DEF Types
<1>2. handler[h].pair \in Pairs \cup {0}
  BY DEF Types, State
<1> QED
  BY <1>1, <1>2 DEF Held

LEMMA AnswerTypes ==
  ASSUME Types, NEW h \in Handlers, Answer(h)
  PROVE  Types'
<1>1. handler' \in [Handlers -> State] /\ \A g \in Handlers : Coherent(handler'[g])
  BY IdleIsState, StateStep DEF Answer
<1>2. page' \in [access : Pairs \cup {0}, refresh : Pairs \cup {0}, flight : Handlers \cup {None}]
  <2>1. page' \in {page, [Held(handler[h]) EXCEPT !.flight = None],
                   [Held(handler[h]) EXCEPT !.flight = page.flight]}
    BY HeldIs DEF Answer
  <2> QED
    BY <2>1, HeldIs DEF Types
<1> QED
  BY <1>1, <1>2 DEF Answer, Types

LEMMA UnheardIs ==
  ASSUME NEW state \in State, Coherent(state), state.kind # None
  PROVE  [state EXCEPT !.heard = FALSE] \in State /\ Coherent([state EXCEPT !.heard = FALSE])
<1> DEFINE new == [state EXCEPT !.heard = FALSE]
<1>1. new \in State
  BY DEF State
<1>2. /\ new.phase = state.phase /\ new.kind = state.kind /\ new.pair = state.pair
      /\ new.token = state.token /\ new.row = state.row /\ new.actor = state.actor
      /\ new.target = state.target /\ new.changes = state.changes
  BY DEF State
<1>3. Coherent(new)
  BY <1>2 DEF Coherent
<1> QED
  BY <1>1, <1>3

LEMMA LetGoIs ==
  ASSUME NEW token \in TokenClaims
  PROVE  /\ [token EXCEPT !.let_go = TRUE] \in TokenClaims
         /\ [token EXCEPT !.let_go = TRUE].let_go
         /\ [token EXCEPT !.let_go = TRUE].exp = token.exp
         /\ [token EXCEPT !.let_go = TRUE].spent = token.spent
BY DEF TokenClaims

LEMMA LoseTypes ==
  ASSUME Types, NEW h \in Handlers, Lose(h), tokens[handler[h].token] # None
  PROVE  Types'
<1>1. /\ handler[h] \in State /\ Coherent(handler[h]) /\ handler[h].kind = "refresh"
      /\ handler[h].token \in Pairs /\ tokens[handler[h].token] \in TokenClaims
  BY DEF Types, Lose, Coherent, State
<1>2. handler' \in [Handlers -> State] /\ \A g \in Handlers : Coherent(handler'[g])
  BY <1>1, ConstantFacts, UnheardIs, StateStep DEF Lose, Kinds
<1>3. tokens' \in [Pairs -> TokenClaims \cup {None}]
  <2>1. tokens' = [tokens EXCEPT ![handler[h].token] = [tokens[handler[h].token] EXCEPT !.let_go = TRUE]]
    BY <1>1 DEF Lose, Types
  <2> QED
    BY <1>1, <2>1, LetGoIs DEF Types
<1>4. page' \in [access : Pairs \cup {0}, refresh : Pairs \cup {0}, flight : Handlers \cup {None}]
  BY DEF Lose, Types
<1>5. events' \in 0 .. MaxEvents
  BY ConstantFacts DEF Lose, Occurs, Types
<1> QED
  BY <1>2, <1>3, <1>4, <1>5 DEF Lose, Types

LEMMA ErrorTypes ==
  ASSUME Types, NEW h \in Handlers, ServerError(h)
  PROVE  Types'
<1>1. /\ handler[h] \in State /\ Coherent(handler[h])
      /\ handler[h].kind \in {"login", "refresh", "switch", "logout"}
      /\ handler[h].phase \in {"check", "load", "rotate", "mint"}
      /\ Refused(h, "error") /\ "error" \in Reasons
  BY DEF Types, ServerError, PageKinds, Reasons
<1>2. handler' \in [Handlers -> State] /\ \A g \in Handlers : Coherent(handler'[g])
  BY <1>1, RefusedIs, StateStep DEF Refused
<1>3. events' \in 0 .. MaxEvents
  BY ConstantFacts DEF ServerError, Occurs, Types
<1> QED
  BY <1>2, <1>3 DEF ServerError, Types

LEMMA ReloadTypes ==
  ASSUME Types, Reload, \A h \in Handlers : handler[h].token # 0 => tokens[handler[h].token] # None
  PROVE  Types'
<1>1. ASSUME NEW h \in Handlers
      PROVE  handler'[h] \in State /\ Coherent(handler'[h])
  BY ConstantFacts, UnheardIs DEF Types, Reload, PageKinds, Kinds
<1>2. ASSUME NEW i \in Pairs
      PROVE  tokens'[i] \in TokenClaims \cup {None}
  <2>1. CASE \E h \in Handlers : handler[h].kind = "refresh" /\ handler[h].token = i
    <3>1. tokens[i] \in TokenClaims
      BY <2>1, ConstantFacts DEF Types
    <3>2. tokens'[i] = [tokens[i] EXCEPT !.let_go = TRUE]
      BY <2>1 DEF Reload
    <3> QED
      BY <3>1, <3>2, LetGoIs
  <2>2. CASE ~\E h \in Handlers : handler[h].kind = "refresh" /\ handler[h].token = i
    BY <2>2 DEF Reload, Types
  <2> QED
    BY <2>1, <2>2
<1>3. handler' = [h \in Handlers |-> handler'[h]] /\ tokens' = [i \in Pairs |-> tokens'[i]]
  BY DEF Reload
<1>4. /\ handler' \in [Handlers -> State] /\ \A h \in Handlers : Coherent(handler'[h])
      /\ tokens' \in [Pairs -> TokenClaims \cup {None}]
  BY <1>1, <1>2, <1>3
<1>5. page' \in [access : Pairs \cup {0}, refresh : Pairs \cup {0}, flight : Handlers \cup {None}]
  BY DEF Reload, Types
<1>6. events' \in 0 .. MaxEvents
  BY ConstantFacts DEF Reload, Occurs, Types
<1> QED
  BY <1>4, <1>5, <1>6 DEF Reload, Types

LEMMA BeginTypes ==
  ASSUME Types, NEW h \in Handlers, NEW actor \in Users, Begin(h, actor)
  PROVE  Types'
<1> DEFINE row == users[actor]
           new == [Idle EXCEPT !.kind = "admin", !.phase = "target", !.actor = actor, !.row = row]
<1>1. row \in User /\ Becomes(h, new)
  BY DEF Begin, Types
<1> HIDE DEF row
<1>2. /\ new \in State /\ new.kind = "admin" /\ new.phase = "target" /\ new.actor = actor
      /\ new.row = row /\ new.pair = 0 /\ new.token = 0
  BY <1>1, ConstantFacts, IdleIsState DEF Idle, State, Phases, Kinds
<1>3. Coherent(new)
  BY <1>1, <1>2, ConstantFacts DEF Coherent, Kinds
<1>4. handler' \in [Handlers -> State] /\ \A g \in Handlers : Coherent(handler'[g])
  BY <1>1, <1>2, <1>3, StateStep
<1>5. events' \in 0 .. MaxEvents
  BY ConstantFacts DEF Begin, Occurs, Types
<1> QED
  BY <1>4, <1>5 DEF Begin, Types

(* What Target makes of a request.                                          *)
ChangesTo(target, role, active) ==
  [role |-> IF role = users[target].role THEN None ELSE role,
   is_active |-> IF active = users[target].is_active THEN None ELSE active]

Asked(state, target, changes) ==
  [state EXCEPT !.phase = "write", !.target = target, !.changes = changes]

LEMMA AskedIs ==
  ASSUME NEW state \in State, NEW target \in Users, NEW changes \in Changes
  PROVE  LET new == Asked(state, target, changes)
         IN /\ new \in State
            /\ new.kind = state.kind /\ new.phase = "write" /\ new.token = state.token
            /\ new.pair = state.pair /\ new.heard = state.heard /\ new.why = state.why
            /\ new.late = state.late /\ new.row = state.row /\ new.actor = state.actor
            /\ new.target = target /\ new.changes = changes
<1> DEFINE new == Asked(state, target, changes)
<1>1. new \in State
  BY DEF Asked, State, Phases
<1>2. /\ new.kind = state.kind /\ new.phase = "write" /\ new.token = state.token
      /\ new.pair = state.pair /\ new.heard = state.heard /\ new.why = state.why
      /\ new.late = state.late /\ new.row = state.row /\ new.actor = state.actor
      /\ new.target = target /\ new.changes = changes
  BY DEF Asked, State
<1> QED
  BY <1>1, <1>2

LEMMA TargetIs ==
  ASSUME Types, NEW h \in Handlers, NEW target \in Users, NEW role \in ROLES, NEW active \in BOOLEAN,
         Target(h, target, role, active)
  PROVE  /\ ChangesTo(target, role, active) \in Changes
         /\ Becomes(h, Asked(handler[h], target, ChangesTo(target, role, active)))
         /\ handler[h] \in State /\ Coherent(handler[h])
         /\ handler[h].phase = "target" /\ handler[h].kind = "admin"
         /\ handler[h].row \in User /\ handler[h].actor \in Users
<1>1. ChangesTo(target, role, active) \in Changes
  BY DEF ChangesTo, Changes
<1>2. Becomes(h, Asked(handler[h], target, ChangesTo(target, role, active)))
  BY DEF Target, Asked, ChangesTo
<1>3. /\ handler[h] \in State /\ Coherent(handler[h]) /\ handler[h].phase = "target"
      /\ handler[h].kind = "admin" /\ handler[h].row \in User /\ handler[h].actor \in Users
  BY DEF Types, Target, Coherent
<1> QED
  BY <1>1, <1>2, <1>3

LEMMA TargetTypes ==
  ASSUME Types, NEW h \in Handlers, NEW target \in Users, NEW role \in ROLES, NEW active \in BOOLEAN,
         Target(h, target, role, active)
  PROVE  Types'
<1> DEFINE changes == ChangesTo(target, role, active)
           new == Asked(handler[h], target, changes)
<1>1. /\ changes \in Changes /\ Becomes(h, new) /\ handler[h] \in State /\ Coherent(handler[h])
      /\ handler[h].phase = "target" /\ handler[h].kind = "admin"
      /\ handler[h].row \in User /\ handler[h].actor \in Users
  BY TargetIs
<1> HIDE DEF changes
<1>2. /\ new \in State /\ new.phase = "write" /\ new.kind = "admin" /\ new.target = target
      /\ new.changes = changes /\ new.pair = handler[h].pair /\ new.row = handler[h].row
      /\ new.actor = handler[h].actor /\ new.token = handler[h].token
  BY <1>1, AskedIs
<1> HIDE DEF new
<1>3. Coherent(new)
  BY <1>1, <1>2, ConstantFacts DEF Coherent, Kinds
<1>4. handler' \in [Handlers -> State] /\ \A g \in Handlers : Coherent(handler'[g])
  BY <1>1, <1>2, <1>3, StateStep
<1> QED
  BY <1>4 DEF Target, Types

(* A write changes the role or the flag of one row.                         *)
LEMMA WriteIs ==
  ASSUME Types, NEW h \in Handlers, Write(h), users[handler[h].target] # None
  PROVE  LET target == handler[h].target
         IN /\ target \in Users /\ users[target] \in User /\ handler[h].changes \in Changes
            /\ handler[h].kind = "admin" /\ handler[h].row \in User /\ handler[h].actor \in Users
            /\ users'[target] \in User
            /\ users'[target].role = Or(handler[h].changes.role, users[target].role)
            /\ users'[target].is_active = Or(handler[h].changes.is_active, users[target].is_active)
            /\ users'[target].is_staff = users[target].is_staff
            /\ users'[target].tenant_id = users[target].tenant_id
            /\ users' = [users EXCEPT ![target] = users'[target]]
<1> DEFINE target == handler[h].target
           changes == handler[h].changes
           row == [users[target] EXCEPT !.role = Or(changes.role, @),
                                        !.is_active = Or(changes.is_active, @)]
<1>1. /\ target \in Users /\ users[target] \in User /\ changes \in Changes
      /\ handler[h].kind = "admin" /\ handler[h].row \in User /\ handler[h].actor \in Users
  BY DEF Types, Write, Coherent
<1>2. users' = [users EXCEPT ![target] = row]
  BY <1>1 DEF Write, Types
<1>3. users'[target] = row
  BY <1>1, <1>2 DEF Types
<1> HIDE DEF target, changes
<1>4. Or(changes.role, users[target].role) \in ROLES
  BY <1>1 DEF Or, Changes, User
<1>5. Or(changes.is_active, users[target].is_active) \in BOOLEAN
  BY <1>1 DEF Or, Changes, User
<1>6. /\ row \in User
      /\ row.role = Or(changes.role, users[target].role)
      /\ row.is_active = Or(changes.is_active, users[target].is_active)
      /\ row.is_staff = users[target].is_staff /\ row.tenant_id = users[target].tenant_id
  BY <1>1, <1>4, <1>5 DEF User
<1> QED
  BY <1>1, <1>2, <1>3, <1>6 DEF target, changes

LEMMA WriteTypes ==
  ASSUME Types, NEW h \in Handlers, Write(h), users[handler[h].target] # None
  PROVE  Types'
<1>1. handler' \in [Handlers -> State] /\ \A g \in Handlers : Coherent(handler'[g])
  BY IdleIsState, StateStep DEF Write
<1>2. users' \in [Users -> User \cup {None}] /\ users'[Visitor] # None
  BY WriteIs, ConstantFacts DEF Types
<1> QED
  BY <1>1, <1>2 DEF Write, Types

LEMMA CreateTypes ==
  ASSUME Types, NEW h \in Handlers, NEW user \in Users, NEW role \in ROLES,
         NEW tenant \in Tenants \cup {None}, Create(h, user, role, tenant)
  PROVE  /\ Types'
         /\ users[user] = None /\ users' = [users EXCEPT ![user] = users'[user]]
         /\ users'[user] \in User
         /\ users'[user].role = role /\ (users'[user].is_staff <=> role \in STAFF_ROLES)
         /\ role \in STAFF_ROLES <=> users'[user].tenant_id = None
         /\ handler[h].row.role # "platform_admin"
              => role \in CLIENT_ROLES /\ users'[user].tenant_id = handler[h].row.tenant_id
         /\ handler[h].kind = "admin" /\ handler[h].row \in User
<1>1. handler' \in [Handlers -> State] /\ \A g \in Handlers : Coherent(handler'[g])
  BY IdleIsState, StateStep DEF Create
<1>2. handler[h].kind = "admin" /\ handler[h].row \in User
  BY DEF Create, Types, Coherent
<1> DEFINE tenant_id == IF handler[h].row.role = "platform_admin" THEN tenant
                        ELSE handler[h].row.tenant_id
           row == [role |-> role, is_staff |-> role \in STAFF_ROLES, tenant_id |-> tenant_id,
                   is_active |-> TRUE]
<1>3. tenant_id \in Tenants \cup {None}
  BY <1>2 DEF User
<1>4. users' = [users EXCEPT ![user] = row] /\ (role \in STAFF_ROLES <=> tenant_id = None)
  BY DEF Create
<1>5. users'[user] = row /\ users[user] = None
  BY <1>4 DEF Create, Types
<1>6. /\ row \in User
      /\ row.role = role /\ (row.is_staff <=> role \in STAFF_ROLES) /\ row.tenant_id = tenant_id
  <2> HIDE DEF tenant_id
  <2>1. row \in User
    BY <1>3 DEF User
  <2> QED
    BY <2>1
<1> HIDE DEF row
<1>7. Types'
  <2>1. users' \in [Users -> User \cup {None}] /\ users'[Visitor] # None
    BY <1>4, <1>6, ConstantFacts DEF Types
  <2> QED
    BY <1>1, <2>1 DEF Create, Types
<1>8. handler[h].row.role # "platform_admin"
        => role \in CLIENT_ROLES /\ tenant_id = handler[h].row.tenant_id
  BY DEF Create
<1> HIDE DEF tenant_id
<1> QED
  BY <1>2, <1>4, <1>5, <1>6, <1>7, <1>8

LEMMA DeclineTypes ==
  ASSUME Types, NEW h \in Handlers, Decline(h)
  PROVE  Types'
BY IdleIsState, StateStep DEF Decline, Types

LEMMA TickTypes ==
  ASSUME Types, Tick
  PROVE  Types'
<1>1. now' \in 0 .. MaxTime
  BY ConstantFacts DEF Tick, Types
<1> QED
  BY <1>1 DEF Tick, Types

LEMMA TypesNext ==
  ASSUME Types, Issued, Administered, [Next]_vars
  PROVE  Types'
<1>1. ASSUME NEW h \in Handlers, Write(h)
      PROVE  Types'
  BY <1>1, WriteTypes DEF Administered, Fits, Write
<1>2. ASSUME NEW h \in Handlers, Rotate(h) \/ Lose(h)
      PROVE  Types'
  <2>1. handler[h].token # 0
    BY <1>2 DEF Types, Coherent, Rotate, Lose
  <2> QED
    BY <1>2, <2>1, RotateTypes, LoseTypes DEF Issued
<1>3. CASE Reload
  BY <1>3, ReloadTypes DEF Issued
<1>4. CASE UNCHANGED vars
  BY <1>4 DEF vars, Types
<1> QED
  BY <1>1, <1>2, <1>3, <1>4, PageSteps, CheckTypes, LoadTypes, MintTypes, AnswerTypes, ErrorTypes,
     BeginTypes, TargetTypes, CreateTypes, DeclineTypes, TickTypes DEF Next

-----------------------------------------------------------------------------
(* What a step makes of the tokens *)

(* An issued token stays, with its lifetime, and what was let go stays so.  *)
TokensStand ==
  \A i \in Pairs : tokens[i] # None =>
    /\ tokens'[i] # None /\ tokens'[i].exp = tokens[i].exp
    /\ tokens[i].let_go => tokens'[i].let_go

LEMMA RotateIs ==
  ASSUME Types, Issued, NEW h \in Handlers, Rotate(h)
  PROVE  LET i == handler[h].token
         IN /\ i \in Pairs /\ tokens[i] \in TokenClaims
            /\ tokens'[i] \in TokenClaims
            /\ tokens'[i].spent /\ tokens'[i].exp = tokens[i].exp
            /\ tokens'[i].let_go <=> tokens[i].let_go \/ handler[h].kind = "logout"
            /\ \A j \in Pairs \ {i} : tokens'[j] = tokens[j] /\ denied'[j] = denied[j]
            /\ denied'[i] = IF Whole(tokens[i].exp - now) <= 0 THEN denied[i]
                            ELSE now + Whole(tokens[i].exp - now)
<1> DEFINE i == handler[h].token
           logout == handler[h].kind = "logout"
           new == [tokens[i] EXCEPT !.spent = TRUE, !.let_go = @ \/ logout]
<1>1. i \in Pairs /\ tokens[i] \in TokenClaims
  BY DEF Types, Issued, Rotate, Coherent, State
<1> HIDE DEF i
<1>2. Spend(i, logout) /\ Deny(i) /\ logout \in BOOLEAN
  BY DEF Rotate, i
<1>3. tokens' = [tokens EXCEPT ![i] = new]
  BY <1>1, <1>2 DEF Spend, Types
<1> HIDE DEF logout
<1>4. new \in TokenClaims /\ new.spent /\ new.exp = tokens[i].exp
      /\ (new.let_go <=> tokens[i].let_go \/ logout)
  BY <1>1, <1>2 DEF TokenClaims
<1> HIDE DEF new
<1>5. tokens'[i] = new /\ \A j \in Pairs \ {i} : tokens'[j] = tokens[j]
  BY <1>1, <1>3 DEF Types
<1>6. /\ \A j \in Pairs \ {i} : denied'[j] = denied[j]
      /\ denied'[i] = IF Whole(tokens[i].exp - now) <= 0 THEN denied[i]
                      ELSE now + Whole(tokens[i].exp - now)
  BY <1>1, <1>2 DEF Deny, Types
<1> QED
  BY <1>1, <1>4, <1>5, <1>6 DEF i, logout

LEMMA LoseIs ==
  ASSUME Types, Issued, NEW h \in Handlers, Lose(h)
  PROVE  LET i == handler[h].token
         IN /\ i \in Pairs /\ tokens[i] \in TokenClaims
            /\ tokens'[i] = [tokens[i] EXCEPT !.let_go = TRUE]
            /\ \A j \in Pairs \ {i} : tokens'[j] = tokens[j]
<1> DEFINE i == handler[h].token
<1>1. i \in Pairs /\ tokens[i] \in TokenClaims
  BY DEF Types, Issued, Lose, Coherent, State
<1>2. tokens' = [tokens EXCEPT ![i].let_go = TRUE] /\ DOMAIN tokens = Pairs
  BY DEF Lose, Types
<1> HIDE DEF i
<1>3. tokens'[i] = [tokens[i] EXCEPT !.let_go = TRUE] /\ \A j \in Pairs \ {i} : tokens'[j] = tokens[j]
  BY <1>1, <1>2
<1> QED
  BY <1>1, <1>3 DEF i

LEMMA ReloadIs ==
  ASSUME Types, Issued, Reload, NEW i \in Pairs
  PROVE  \/ /\ \E h \in Handlers : handler[h].kind = "refresh" /\ handler[h].token = i
            /\ tokens[i] \in TokenClaims
            /\ tokens'[i] = [tokens[i] EXCEPT !.let_go = TRUE]
         \/ /\ ~ \E h \in Handlers : handler[h].kind = "refresh" /\ handler[h].token = i
            /\ tokens'[i] = tokens[i]
<1>1. CASE \E h \in Handlers : handler[h].kind = "refresh" /\ handler[h].token = i
  <2>1. tokens[i] \in TokenClaims
    BY <1>1, ConstantFacts DEF Types, Issued
  <2> QED
    BY <1>1, <2>1 DEF Reload
<1> QED
  BY <1>1 DEF Reload

(* Every other step leaves the tokens and the denials alone.                *)
Others(h) ==
  \/ Login(h) \/ Refresh(h) \/ SignOut(h) \/ (\E tenant \in Tenants \cup {None} : SwitchTenant(h, tenant))
  \/ Check(h) \/ LoadUser(h) \/ Answer(h) \/ ServerError(h)
  \/ \E actor \in Users : Begin(h, actor)
  \/ \E user \in Users, role \in ROLES :
       \/ \E active \in BOOLEAN : Target(h, user, role, active)
       \/ \E tenant \in Tenants \cup {None} : Create(h, user, role, tenant)
  \/ Write(h) \/ Decline(h)

LEMMA NextIs ==
  Next <=> \/ \E h \in Handlers : Others(h) \/ Rotate(h) \/ Mint(h) \/ Lose(h)
           \/ Reload \/ Tick
BY DEF Next, Others

LEMMA OthersKeepTokens ==
  ASSUME NEW h \in Handlers, Others(h)
  PROVE  UNCHANGED <<now, tokens, denied>>
BY DEF Others, Login, Refresh, SignOut, SwitchTenant, Check, LoadUser, Answer, ServerError, Begin,
       Target, Create, Write, Decline

LEMMA TokensAreKept ==
  ASSUME Types, Issued, [Next]_vars
  PROVE  TokensStand
<1>1. ASSUME NEW h \in Handlers, Others(h)
      PROVE  TokensStand
  BY <1>1, OthersKeepTokens DEF TokensStand
<1>2. ASSUME NEW h \in Handlers, Rotate(h)
      PROVE  TokensStand
  BY <1>2, RotateIs, ConstantFacts DEF TokensStand
<1>3. ASSUME NEW h \in Handlers, Mint(h)
      PROVE  TokensStand
  BY <1>3, MintTypes DEF TokensStand, Types
<1>4. ASSUME NEW h \in Handlers, Lose(h)
      PROVE  TokensStand
  <2>1. /\ handler[h].token \in Pairs /\ tokens[handler[h].token] \in TokenClaims
        /\ tokens'[handler[h].token] \in TokenClaims
        /\ tokens'[handler[h].token].let_go
        /\ tokens'[handler[h].token].exp = tokens[handler[h].token].exp
    BY <1>4, LoseIs, LetGoIs
  <2> QED
    BY <1>4, <2>1, LoseIs, ConstantFacts DEF TokensStand
<1>5. CASE Reload
  <2> SUFFICES ASSUME NEW i \in Pairs, tokens[i] # None
               PROVE  /\ tokens'[i] # None /\ tokens'[i].exp = tokens[i].exp
                      /\ tokens[i].let_go => tokens'[i].let_go
    BY DEF TokensStand
  <2>1. CASE tokens'[i] = tokens[i]
    BY <2>1
  <2>2. CASE tokens[i] \in TokenClaims /\ tokens'[i] = [tokens[i] EXCEPT !.let_go = TRUE]
    BY <2>2, LetGoIs, ConstantFacts
  <2> QED
    BY <1>5, <2>1, <2>2, ReloadIs
<1>6. CASE Tick
  BY <1>6 DEF Tick, TokensStand
<1>7. CASE UNCHANGED vars
  BY <1>7 DEF vars, TokensStand
<1> QED
  BY <1>1, <1>2, <1>3, <1>4, <1>5, <1>6, <1>7, NextIs

-----------------------------------------------------------------------------
(* What a step makes of the handlers *)

(* Handler h goes on, with these in its state, and nobody else does.        *)
After(h, kind, phase, token, pair, heard, why, late) ==
  /\ handler'[h].kind = kind /\ handler'[h].phase = phase
  /\ handler'[h].token = token /\ handler'[h].pair = pair
  /\ handler'[h].heard = heard /\ handler'[h].why = why /\ handler'[h].late = late
  /\ \A g \in Handlers \ {h} : handler'[g] = handler[g]

LEMMA BecomesIs ==
  ASSUME Types, NEW h \in Handlers, NEW new, Becomes(h, new)
  PROVE  After(h, new.kind, new.phase, new.token, new.pair, new.heard, new.why, new.late)
BY DEF Types, Becomes, After

LEMMA BeginnersAfter ==
  ASSUME Types, NEW h \in Handlers
  PROVE  /\ Login(h) => After(h, "login", "mint", 0, 0, TRUE, None, FALSE)
         /\ Refresh(h) => After(h, "refresh", "check", page.refresh, 0, TRUE, None, FALSE)
         /\ SignOut(h) => After(h, "logout", "rotate", page.refresh, 0, TRUE, None, FALSE)
         /\ \A tenant \in Tenants \cup {None} :
              SwitchTenant(h, tenant) => After(h, "switch", "mint", 0, 0, TRUE, None, FALSE)
         /\ \A actor \in Users : Begin(h, actor) => After(h, "admin", "target", 0, 0, TRUE, None, FALSE)
<1>1. ASSUME Login(h)
      PROVE  After(h, "login", "mint", 0, 0, TRUE, None, FALSE)
  BY <1>1 DEF Login, Types, Becomes, After, Idle
<1>2. ASSUME Refresh(h)
      PROVE  After(h, "refresh", "check", page.refresh, 0, TRUE, None, FALSE)
  BY <1>2 DEF Refresh, Types, Becomes, After, Idle
<1>3. ASSUME SignOut(h)
      PROVE  After(h, "logout", "rotate", page.refresh, 0, TRUE, None, FALSE)
  BY <1>3 DEF SignOut, Types, Becomes, After, Idle
<1>4. ASSUME NEW tenant \in Tenants \cup {None}, SwitchTenant(h, tenant)
      PROVE  After(h, "switch", "mint", 0, 0, TRUE, None, FALSE)
  BY <1>4 DEF SwitchTenant, Types, Becomes, After, Idle
<1>5. ASSUME NEW actor \in Users, Begin(h, actor)
      PROVE  After(h, "admin", "target", 0, 0, TRUE, None, FALSE)
  BY <1>5 DEF Begin, Types, Becomes, After, Idle
<1> QED
  BY <1>1, <1>2, <1>3, <1>4, <1>5

LEMMA EndersAfter ==
  ASSUME Types, NEW h \in Handlers,
         \/ Answer(h) \/ Write(h) \/ Decline(h)
         \/ \E user \in Users, role \in ROLES, tenant \in Tenants \cup {None} : Create(h, user, role, tenant)
  PROVE  After(h, None, "idle", 0, 0, TRUE, None, FALSE)
<1>1. Becomes(h, Idle)
  BY DEF Answer, Write, Decline, Create
<1> QED
  BY <1>1 DEF Types, Becomes, After, Idle

LEMMA RefusedAfter ==
  ASSUME Types, NEW h \in Handlers, NEW reason, Refused(h, reason)
  PROVE  After(h, handler[h].kind, "refused", handler[h].token, handler[h].pair, handler[h].heard,
               reason, handler[h].late)
<1> DEFINE new == [handler[h] EXCEPT !.phase = "refused", !.why = reason, !.row = None, !.active = None]
<1>1. handler[h] \in State /\ Becomes(h, new)
  BY DEF Types, Refused
<1>2. /\ new.kind = handler[h].kind /\ new.phase = "refused" /\ new.token = handler[h].token
      /\ new.pair = handler[h].pair /\ new.heard = handler[h].heard /\ new.why = reason
      /\ new.late = handler[h].late
  BY <1>1 DEF State
<1> HIDE DEF new
<1> QED
  BY <1>1, <1>2, BecomesIs DEF After

LEMMA TokenIs ==
  ASSUME Types, Issued, NEW h \in Handlers, handler[h].kind \in {"refresh", "logout"}
  PROVE  /\ handler[h].token \in Pairs /\ tokens[handler[h].token] \in TokenClaims
         /\ tokens[handler[h].token].exp \in Int /\ tokens[handler[h].token].spent \in BOOLEAN
<1>1. handler[h].token # 0 /\ handler[h].token \in Pairs \cup {0}
  BY DEF Types, Coherent, State
<1>2. tokens[handler[h].token] \in TokenClaims
  BY <1>1 DEF Types, Issued
<1> QED
  BY <1>1, <1>2 DEF TokenClaims

LEMMA CheckAfter ==
  ASSUME Types, Issued, NEW h \in Handlers, Check(h)
  PROVE  LET i == handler[h].token
             s == handler[h]
         IN /\ s.phase = "check"
            /\ \/ After(h, s.kind, "refused", i, s.pair, s.heard, "expired", s.late)
               \/ Revoked(i) /\ After(h, s.kind, "refused", i, s.pair, s.heard, "revoked", s.late)
               \/ /\ ~Revoked(i)
                  /\ After(h, s.kind, "load", i, s.pair, s.heard, s.why,
                           tokens[i].spent /\ tokens[i].exp - now >= 2)
<1> DEFINE i     == handler[h].token
           late  == tokens[i].spent /\ tokens[i].exp - now >= 2
           new   == [handler[h] EXCEPT !.late = late, !.phase = "load"]
<1>0. handler[h].phase = "check" /\ handler[h] \in State
  BY DEF Check, Types
<1>1. \/ Refused(h, "expired")
      \/ Revoked(i) /\ Refused(h, "revoked")
      \/ ~(now >= tokens[i].exp) /\ ~(now < tokens[i].exp /\ Revoked(i)) /\ Becomes(h, new)
  BY DEF Check
<1>2. ASSUME ~(now >= tokens[i].exp), ~(now < tokens[i].exp /\ Revoked(i)), Becomes(h, new)
      PROVE  /\ ~Revoked(i)
             /\ After(h, handler[h].kind, "load", i, handler[h].pair, handler[h].heard, handler[h].why, late)
  <2>1. ~Revoked(i)
    <3>1. now \in Int
      BY ConstantFacts DEF Types
    <3>2. tokens[i].exp \in Int
      BY <1>0, TokenIs DEF Types, Coherent
    <3> QED
      BY <1>2, <3>1, <3>2
  <2> HIDE DEF late
  <2>2. /\ new.kind = handler[h].kind /\ new.phase = "load" /\ new.token = handler[h].token
        /\ new.pair = handler[h].pair /\ new.heard = handler[h].heard /\ new.why = handler[h].why
        /\ new.late = late
    BY <1>0 DEF State
  <2>3. Becomes(h, new)
    BY <1>2
  <2> HIDE DEF new
  <2> QED
    BY <2>1, <2>2, <2>3, BecomesIs DEF After
<1> HIDE DEF late, new
<1> QED
  BY <1>0, <1>1, <1>2, RefusedAfter DEF late

LEMMA LoadAfter ==
  ASSUME Types, NEW h \in Handlers, LoadUser(h)
  PROVE  LET s == handler[h]
         IN /\ s.phase = "load"
            /\ \/ After(h, s.kind, "rotate", s.token, s.pair, s.heard, s.why, s.late)
               \/ After(h, s.kind, "refused", s.token, s.pair, s.heard, "inactive", s.late)
<1> DEFINE new == [handler[h] EXCEPT !.phase = "rotate", !.row = users[Visitor]]
<1>1. handler[h].phase = "load" /\ handler[h] \in State
  BY DEF LoadUser, Types
<1>2. /\ new.kind = handler[h].kind /\ new.phase = "rotate" /\ new.token = handler[h].token
      /\ new.pair = handler[h].pair /\ new.heard = handler[h].heard /\ new.why = handler[h].why
      /\ new.late = handler[h].late
  BY <1>1 DEF State
<1>3. Becomes(h, new) \/ Refused(h, "inactive")
  BY DEF LoadUser
<1> HIDE DEF new
<1> QED
  BY <1>1, <1>2, <1>3, BecomesIs, RefusedAfter DEF After

LEMMA RotateAfter ==
  ASSUME Types, NEW h \in Handlers, Rotate(h)
  PROVE  LET s == handler[h]
         IN /\ s.phase = "rotate"
            /\ \/ s.kind = "logout" /\ After(h, s.kind, "cleared", s.token, s.pair, s.heard, s.why, s.late)
               \/ s.kind # "logout" /\ After(h, s.kind, "mint", s.token, s.pair, s.heard, s.why, s.late)
<1> DEFINE active  == IF handler[h].row.is_staff THEN tokens[handler[h].token].active_tenant ELSE None
           cleared == [handler[h] EXCEPT !.phase = "cleared"]
           mint    == [handler[h] EXCEPT !.phase = "mint", !.active = active]
<1>1. handler[h].phase = "rotate" /\ handler[h] \in State
  BY DEF Rotate, Types
<1>2. \/ handler[h].kind = "logout" /\ Becomes(h, cleared)
      \/ handler[h].kind # "logout" /\ Becomes(h, mint)
  BY DEF Rotate
<1> HIDE DEF active
<1>3. /\ cleared.kind = handler[h].kind /\ cleared.phase = "cleared" /\ cleared.token = handler[h].token
      /\ cleared.pair = handler[h].pair /\ cleared.heard = handler[h].heard
      /\ cleared.why = handler[h].why /\ cleared.late = handler[h].late
  BY <1>1 DEF State
<1>4. /\ mint.kind = handler[h].kind /\ mint.phase = "mint" /\ mint.token = handler[h].token
      /\ mint.pair = handler[h].pair /\ mint.heard = handler[h].heard
      /\ mint.why = handler[h].why /\ mint.late = handler[h].late
  BY <1>1 DEF State
<1> HIDE DEF cleared, mint
<1> QED
  BY <1>1, <1>2, <1>3, <1>4, BecomesIs DEF After

LEMMA MintAfter ==
  ASSUME Types, NEW h \in Handlers, Mint(h)
  PROVE  LET s == handler[h]
         IN /\ s.phase = "mint"
            /\ After(h, s.kind, "minted", s.token, FirstFree, s.heard, s.why, s.late)
<1> DEFINE new == [handler[h] EXCEPT !.phase = "minted", !.pair = FirstFree, !.row = None, !.active = None]
<1>1. handler[h].phase = "mint" /\ handler[h] \in State /\ Becomes(h, new)
  BY DEF Mint, Types, FirstFree
<1>2. /\ new.kind = handler[h].kind /\ new.phase = "minted" /\ new.token = handler[h].token
      /\ new.pair = FirstFree /\ new.heard = handler[h].heard /\ new.why = handler[h].why
      /\ new.late = handler[h].late
  BY <1>1 DEF State
<1> HIDE DEF new
<1> QED
  BY <1>1, <1>2, BecomesIs DEF After

LEMMA LoseAfter ==
  ASSUME Types, NEW h \in Handlers, Lose(h)
  PROVE  LET s == handler[h]
         IN /\ s.kind = "refresh" /\ s.heard /\ page.flight = h
            /\ After(h, s.kind, s.phase, s.token, s.pair, FALSE, s.why, s.late)
<1> DEFINE new == [handler[h] EXCEPT !.heard = FALSE]
<1>1. /\ handler[h].kind = "refresh" /\ handler[h].heard /\ page.flight = h
      /\ handler[h] \in State /\ Becomes(h, new)
  BY DEF Lose, Types
<1>2. /\ new.kind = handler[h].kind /\ new.phase = handler[h].phase /\ new.token = handler[h].token
      /\ new.pair = handler[h].pair /\ new.heard = FALSE /\ new.why = handler[h].why
      /\ new.late = handler[h].late
  BY <1>1 DEF State
<1> HIDE DEF new
<1> QED
  BY <1>1, <1>2, BecomesIs DEF After

LEMMA TargetAfter ==
  ASSUME Types, NEW h \in Handlers, NEW target \in Users, NEW role \in ROLES, NEW active \in BOOLEAN,
         Target(h, target, role, active)
  PROVE  /\ After(h, handler[h].kind, "write", handler[h].token, handler[h].pair, handler[h].heard,
                  handler[h].why, handler[h].late)
         /\ handler'[h].row = handler[h].row /\ handler'[h].actor = handler[h].actor
         /\ handler'[h].target = target /\ handler'[h].changes = ChangesTo(target, role, active)
<1> DEFINE changes == ChangesTo(target, role, active)
           new == Asked(handler[h], target, changes)
<1>1. changes \in Changes /\ Becomes(h, new) /\ handler[h] \in State
  BY TargetIs
<1> HIDE DEF changes
<1>2. /\ new.kind = handler[h].kind /\ new.phase = "write" /\ new.token = handler[h].token
      /\ new.pair = handler[h].pair /\ new.heard = handler[h].heard /\ new.why = handler[h].why
      /\ new.late = handler[h].late /\ new.row = handler[h].row /\ new.actor = handler[h].actor
      /\ new.target = target /\ new.changes = changes
  BY <1>1, AskedIs
<1>3. handler'[h] = new
  BY <1>1 DEF Becomes, Types
<1> HIDE DEF new
<1>4. After(h, handler[h].kind, "write", handler[h].token, handler[h].pair, handler[h].heard,
            handler[h].why, handler[h].late)
  BY <1>1, <1>2, BecomesIs DEF After
<1> QED
  BY <1>2, <1>3, <1>4 DEF changes

LEMMA ReloadAfter ==
  ASSUME Types, Reload, NEW h \in Handlers
  PROVE  LET s == handler[h]
             new == handler'[h]
         IN /\ new.kind = s.kind /\ new.phase = s.phase /\ new.token = s.token /\ new.pair = s.pair
            /\ new.why = s.why /\ new.late = s.late /\ new.row = s.row /\ new.actor = s.actor
            /\ new.target = s.target /\ new.changes = s.changes
            /\ new.heard <=> s.heard /\ s.kind \notin PageKinds
<1>1. handler[h] \in State
  BY DEF Types
<1>2. CASE handler[h].kind \in PageKinds
  <2>1. handler'[h] = [handler[h] EXCEPT !.heard = FALSE]
    BY <1>2 DEF Reload
  <2> QED
    BY <1>1, <1>2, <2>1 DEF State
<1>3. CASE handler[h].kind \notin PageKinds
  BY <1>3 DEF Reload
<1> QED
  BY <1>2, <1>3

-----------------------------------------------------------------------------
(* What is named has been issued *)

LEMMA IssuedNext ==
  ASSUME Types, Issued, Administered, [Next]_vars
  PROVE  Issued'
<1>1. TokensStand /\ Types'
  BY TokensAreKept, TypesNext
<1>2. /\ page'.access # 0 => page'.access = page.access
           \/ \E h \in Handlers : page'.access = handler[h].pair /\ handler[h].pair # 0
      /\ page'.refresh # 0 => page'.refresh = page.refresh
           \/ \E h \in Handlers : page'.refresh = handler[h].pair /\ handler[h].pair # 0
  <2>1. page \in [access : Pairs \cup {0}, refresh : Pairs \cup {0}, flight : Handlers \cup {None}]
    BY DEF Types
  <2>2. ASSUME NEW h \in Handlers, Refresh(h) \/ Lose(h)
        PROVE  page'.access = page.access /\ page'.refresh = page.refresh
    BY <2>1, <2>2 DEF Refresh, Lose
  <2>3. ASSUME NEW h \in Handlers, Answer(h)
        PROVE  /\ page'.access \in {0, page.access, handler[h].pair}
               /\ page'.refresh \in {0, page.refresh, handler[h].pair}
    <3>1. page' \in {page, [Held(handler[h]) EXCEPT !.flight = None],
                     [Held(handler[h]) EXCEPT !.flight = page.flight]}
      BY <2>3, HeldIs DEF Answer
    <3> QED
      BY <3>1, HeldIs
  <2>4. CASE Reload
    BY <2>1, <2>4 DEF Reload
  <2>5. ASSUME NEW h \in Handlers, Others(h), ~Refresh(h), ~Answer(h)
        PROVE  page' = page
    BY <2>5 DEF Others, Login, SignOut, SwitchTenant, Check, LoadUser, ServerError, Begin,
                Target, Create, Write, Decline
  <2>6. ASSUME NEW h \in Handlers, Rotate(h) \/ Mint(h)
        PROVE  page' = page
    BY <2>6 DEF Rotate, Mint
  <2>7. CASE Tick \/ UNCHANGED vars
    BY <2>7 DEF Tick, vars
  <2> QED
    BY <2>2, <2>3, <2>4, <2>5, <2>6, <2>7, NextIs
<1>3. ASSUME NEW g \in Handlers
      PROVE  /\ handler'[g].token \in {0, page.refresh, handler[g].token}
             /\ handler'[g].pair # 0 => handler'[g].pair = handler[g].pair \/ tokens'[handler'[g].pair] # None
  <2>1. ASSUME NEW h \in Handlers, Mint(h)
        PROVE  /\ handler'[g].token = handler[g].token
               /\ handler'[g].pair = handler[g].pair \/ tokens'[handler'[g].pair] # None
    <3>1. tokens'[FirstFree] # None
      BY <2>1, MintTypes, ConstantFacts DEF Types
    <3> QED
      BY <2>1, <3>1, MintAfter DEF After
  <2>2. ASSUME NEW h \in Handlers, Others(h)
        PROVE  /\ handler'[g].token \in {0, page.refresh, handler[g].token}
               /\ handler'[g].pair \in {0, handler[g].pair}
    <3>1. CASE \/ Login(h) \/ Refresh(h) \/ SignOut(h)
               \/ (\E tenant \in Tenants \cup {None} : SwitchTenant(h, tenant))
               \/ (\E actor \in Users : Begin(h, actor))
      BY <3>1, BeginnersAfter DEF After
    <3>2. CASE Check(h) \/ LoadUser(h)
      BY <3>2, CheckAfter, LoadAfter DEF After
    <3>3. CASE ServerError(h)
      BY <3>3, RefusedAfter DEF After, ServerError
    <3>4. ASSUME NEW user \in Users, NEW role \in ROLES, NEW active \in BOOLEAN,
                 Target(h, user, role, active)
          PROVE  handler'[g].token = handler[g].token /\ handler'[g].pair = handler[g].pair
      BY <3>4, TargetAfter DEF After
    <3>5. CASE \/ Answer(h) \/ Write(h) \/ Decline(h)
               \/ \E user \in Users, role \in ROLES, tenant \in Tenants \cup {None} : Create(h, user, role, tenant)
      BY <3>5, EndersAfter DEF After
    <3> QED
      BY <2>2, <3>1, <3>2, <3>3, <3>4, <3>5 DEF Others
  <2>3. ASSUME NEW h \in Handlers, Rotate(h) \/ Lose(h)
        PROVE  handler'[g].token = handler[g].token /\ handler'[g].pair = handler[g].pair
    BY <2>3, RotateAfter, LoseAfter DEF After
  <2>4. CASE Reload
    BY <2>4, ReloadAfter
  <2>5. CASE Tick \/ UNCHANGED vars
    BY <2>5 DEF Tick, vars
  <2> QED
    BY <2>1, <2>2, <2>3, <2>4, <2>5, NextIs
<1>4. page.refresh \in Pairs \cup {0} /\ page.access \in Pairs \cup {0}
  BY DEF Types
<1>5. \A h \in Handlers : handler[h].token \in Pairs \cup {0} /\ handler[h].pair \in Pairs \cup {0}
  BY DEF Types, State
<1>6. /\ page'.access # 0 => tokens'[page'.access] # None
      /\ page'.refresh # 0 => tokens'[page'.refresh] # None
  BY <1>1, <1>2, <1>4, <1>5 DEF Issued, TokensStand
<1>7. ASSUME NEW g \in Handlers
      PROVE  /\ handler'[g].token # 0 => tokens'[handler'[g].token] # None
             /\ handler'[g].pair # 0 => tokens'[handler'[g].pair] # None
  BY <1>1, <1>3, <1>4, <1>5 DEF Issued, TokensStand
<1> QED
  BY <1>6, <1>7 DEF Issued

-----------------------------------------------------------------------------
(* What the steps come to, as far as sessions are concerned *)

Apart == UNCHANGED <<tokens, denied, page, now>>

Starts(h) ==
  /\ Apart /\ handler[h] = Idle
  /\ \E kind \in {"login", "switch", "admin", "logout"}, phase \in {"mint", "target", "rotate"},
        token \in {0, page.refresh} : After(h, kind, phase, token, 0, TRUE, None, FALSE)

Goes(h) ==
  LET s == handler[h]
  IN /\ Apart
     /\ \E phase \in Phases \ {"check"}, why \in Reasons \cup {None, s.why}, late \in BOOLEAN :
          /\ After(h, s.kind, phase, s.token, s.pair, s.heard, why, late)
          /\ s.phase \in {"mint", "minted", "refused"} => phase = "refused"
          /\ why = "revoked" => s.why = "revoked" \/ (s.phase = "check" /\ Revoked(s.token))
          /\ late => \/ s.late
                     \/ /\ s.phase = "check" /\ ~Revoked(s.token)
                        /\ tokens[s.token].spent /\ tokens[s.token].exp - now >= 2

Ends(h) == Apart /\ handler[h].kind = "admin" /\ After(h, None, "idle", 0, 0, TRUE, None, FALSE)

Still == UNCHANGED <<tokens, denied, page, handler>> /\ now' >= now

LEMMA GoesBy ==
  ASSUME NEW h \in Handlers, Apart, NEW phase \in Phases \ {"check"},
         NEW why \in Reasons \cup {None, handler[h].why}, NEW late \in BOOLEAN,
         After(h, handler[h].kind, phase, handler[h].token, handler[h].pair, handler[h].heard, why, late),
         handler[h].phase \in {"mint", "minted", "refused"} => phase = "refused",
         why = "revoked" => \/ handler[h].why = "revoked"
                            \/ handler[h].phase = "check" /\ Revoked(handler[h].token),
         late => \/ handler[h].late
                 \/ /\ handler[h].phase = "check" /\ ~Revoked(handler[h].token)
                    /\ tokens[handler[h].token].spent /\ tokens[handler[h].token].exp - now >= 2
  PROVE  Goes(h)
BY DEF Goes

LEMMA GoesIs ==
  ASSUME Types, Issued, NEW h \in Handlers,
         \/ Check(h) \/ LoadUser(h) \/ ServerError(h)
         \/ \E target \in Users, role \in ROLES, active \in BOOLEAN : Target(h, target, role, active)
  PROVE  Goes(h)
<1>1. handler[h] \in State
  BY DEF Types
<1>2. handler[h].late \in BOOLEAN /\ handler[h].phase \in Phases /\ "refused" \in Phases \ {"check"}
  BY <1>1 DEF State, Phases
<1>3. CASE Check(h)
  <2> DEFINE i    == handler[h].token
             late == tokens[i].spent /\ tokens[i].exp - now >= 2
  <2>1. Apart /\ handler[h].phase = "check"
    BY <1>3 DEF Check, Apart
  <2>2. late \in BOOLEAN /\ {"refused", "load"} \subseteq Phases \ {"check"}
    BY DEF Phases
  <2>3. CASE After(h, handler[h].kind, "refused", i, handler[h].pair, handler[h].heard, "expired", handler[h].late)
    BY <1>2, <2>1, <2>3, GoesBy DEF Reasons
  <2>4. CASE /\ Revoked(i)
             /\ After(h, handler[h].kind, "refused", i, handler[h].pair, handler[h].heard, "revoked", handler[h].late)
    BY <1>2, <2>1, <2>4, GoesBy DEF Reasons
  <2>5. CASE /\ ~Revoked(i)
             /\ After(h, handler[h].kind, "load", i, handler[h].pair, handler[h].heard, handler[h].why, late)
    <3>1. late => tokens[i].spent /\ tokens[i].exp - now >= 2
      OBVIOUS
    <3> HIDE DEF late
    <3> QED
      BY <2>1, <2>2, <2>5, <3>1, GoesBy
  <2> QED
    BY <1>3, <2>3, <2>4, <2>5, CheckAfter
<1>4. CASE LoadUser(h)
  <2>1. Apart /\ handler[h].phase = "load" /\ {"refused", "rotate"} \subseteq Phases \ {"check"}
    BY <1>4 DEF LoadUser, Apart, Phases
  <2>2. CASE After(h, handler[h].kind, "rotate", handler[h].token, handler[h].pair, handler[h].heard,
                   handler[h].why, handler[h].late)
    BY <1>2, <2>1, <2>2, GoesBy
  <2>3. CASE After(h, handler[h].kind, "refused", handler[h].token, handler[h].pair, handler[h].heard,
                   "inactive", handler[h].late)
    BY <1>2, <2>1, <2>3, GoesBy DEF Reasons
  <2> QED
    BY <1>4, <2>2, <2>3, LoadAfter
<1>5. CASE ServerError(h)
  <2>1. Apart /\ Refused(h, "error")
    BY <1>5 DEF ServerError, Apart
  <2> QED
    BY <1>2, <2>1, RefusedAfter, GoesBy DEF Reasons
<1>6. ASSUME NEW target \in Users, NEW role \in ROLES, NEW active \in BOOLEAN,
             Target(h, target, role, active)
      PROVE  Goes(h)
  <2>1. Apart /\ handler[h].phase = "target" /\ "write" \in Phases \ {"check"}
    BY <1>6 DEF Target, Apart, Phases
  <2>2. After(h, handler[h].kind, "write", handler[h].token, handler[h].pair, handler[h].heard,
              handler[h].why, handler[h].late)
    BY <1>6, TargetAfter
  <2> QED
    BY <1>2, <2>1, <2>2, GoesBy
<1> QED
  BY <1>3, <1>4, <1>5, <1>6

LEMMA Moves ==
  ASSUME Types, Issued, [Next]_vars
  PROVE  \/ \E h \in Handlers : \/ Starts(h) \/ Refresh(h) \/ Goes(h) \/ Rotate(h) \/ Mint(h)
                                \/ Answer(h) \/ Ends(h) \/ Lose(h)
         \/ Reload \/ Still
<1>1. ASSUME NEW h \in Handlers,
             \/ Login(h) \/ SignOut(h) \/ (\E tenant \in Tenants \cup {None} : SwitchTenant(h, tenant))
             \/ (\E actor \in Users : Begin(h, actor))
      PROVE  Starts(h)
  <2>1. Apart /\ handler[h] = Idle
    BY <1>1 DEF Login, SignOut, SwitchTenant, Begin, Apart
  <2> QED
    BY <1>1, <2>1, BeginnersAfter DEF Starts
<1>2. ASSUME NEW h \in Handlers,
             \/ Write(h) \/ Decline(h)
             \/ \E user \in Users, role \in ROLES, tenant \in Tenants \cup {None} : Create(h, user, role, tenant)
      PROVE  Ends(h)
  <2>1. Apart /\ handler[h].kind = "admin"
    BY <1>2 DEF Write, Decline, Create, Apart, Types, Coherent
  <2> QED
    BY <1>2, <2>1, EndersAfter DEF Ends
<1>3. CASE Tick \/ UNCHANGED vars
  BY <1>3 DEF Tick, vars, Still, Types
<1>4. CASE \E h \in Handlers : Others(h)
  BY <1>1, <1>2, <1>4, GoesIs DEF Others
<1> QED
  BY <1>3, <1>4, NextIs

(* A handler that goes on keeps its kind and its token.                     *)
Onward(h) ==
  /\ \A g \in Handlers \ {h} : handler'[g] = handler[g]
  /\ handler'[h].kind = handler[h].kind /\ handler'[h].token = handler[h].token
  /\ handler'[h].phase = "check" => handler[h].phase = "check"
  /\ handler'[h].heard = handler[h].heard \/ Lose(h)
  /\ handler'[h].late = handler[h].late \/ Goes(h)
  /\ handler'[h].why = handler[h].why \/ Goes(h)
  /\ handler'[h].pair = handler[h].pair \/ Mint(h)

LEMMA OnwardIs ==
  ASSUME Types, Issued, NEW h \in Handlers, Goes(h) \/ Rotate(h) \/ Mint(h) \/ Lose(h)
  PROVE  Onward(h)
<1>1. ASSUME Goes(h)
      PROVE  Onward(h)
  BY <1>1 DEF Goes, After, Onward
<1>2. ASSUME Rotate(h)
      PROVE  Onward(h)
  BY <1>2, RotateAfter DEF After, Onward
<1>3. ASSUME Mint(h)
      PROVE  Onward(h)
  BY <1>3, MintAfter DEF After, Onward
<1>4. ASSUME Lose(h)
      PROVE  Onward(h)
  BY <1>4, LoseAfter DEF After, Onward
<1> QED
  BY <1>1, <1>2, <1>3, <1>4

LEMMA HeldAfter ==
  ASSUME Types, NEW h \in Handlers, Answer(h)
  PROVE  LET s == handler[h]
         IN /\ After(h, None, "idle", 0, 0, TRUE, None, FALSE)
            /\ UNCHANGED <<tokens, denied, now>>
            /\ ~s.heard => page' = page
            /\ s.heard => page'.flight = IF s.kind = "refresh" THEN None ELSE page.flight
            /\ page'.refresh \in {0, page.refresh, s.pair}
            /\ s.heard /\ s.kind = "refresh" => page'.refresh \in {0, s.pair}
<1>1. After(h, None, "idle", 0, 0, TRUE, None, FALSE) /\ UNCHANGED <<tokens, denied, now>>
  BY EndersAfter DEF Answer
<1>2. page \in [access : Pairs \cup {0}, refresh : Pairs \cup {0}, flight : Handlers \cup {None}]
  BY DEF Types
<1>3. CASE handler[h].heard
  <2> DEFINE held == Held(handler[h])
             flight == IF handler[h].kind = "refresh" THEN None ELSE held.flight
  <2>1. page' = [held EXCEPT !.flight = flight]
    BY <1>3 DEF Answer
  <2>2. /\ held \in [access : Pairs \cup {0}, refresh : Pairs \cup {0}, flight : Handlers \cup {None}]
        /\ held.flight = page.flight /\ held.refresh \in {0, page.refresh, handler[h].pair}
    BY HeldIs
  <2>3. handler[h].kind = "refresh" => held.refresh \in {0, handler[h].pair}
    <3>1. handler[h].kind = "refresh" => handler[h].phase \in {"minted", "refused"}
      BY DEF Answer, Types, Coherent
    <3> QED
      BY <1>2, <3>1 DEF Held
  <2> HIDE DEF held
  <2>4. page'.flight = flight /\ page'.refresh = held.refresh
    BY <2>1, <2>2
  <2> QED
    BY <1>1, <1>3, <2>2, <2>3, <2>4
<1>4. CASE ~handler[h].heard
  BY <1>1, <1>4 DEF Answer
<1> QED
  BY <1>3, <1>4

-----------------------------------------------------------------------------
(* A spent token is refused *)

LEMMA DeniedNext ==
  ASSUME Types, Issued, Denied, [Next]_vars
  PROVE  Denied'
<1>1. now \in Int /\ now' \in Int /\ now' >= now
  <2>1. now \in Int
    BY ConstantFacts DEF Types
  <2>2. now' = now \/ now' = now + 1
    BY NextIs, OthersKeepTokens DEF Rotate, Mint, Lose, Reload, Tick, vars
  <2> QED
    BY <2>1, <2>2
<1>2. ASSUME NEW i \in Pairs, tokens'[i] # None, tokens'[i].spent
      PROVE  tokens'[i].exp - denied'[i] <= 1 \/ tokens'[i].exp - now' <= 1
  <2>1. CASE \E h \in Handlers : Rotate(h) /\ handler[h].token = i
    <3>1. PICK h \in Handlers : Rotate(h) /\ handler[h].token = i
      BY <2>1
    <3>2. /\ tokens[i] \in TokenClaims /\ tokens'[i].exp = tokens[i].exp
          /\ denied'[i] = IF Whole(tokens[i].exp - now) <= 0 THEN denied[i]
                          ELSE now + Whole(tokens[i].exp - now)
      BY <3>1, RotateIs
    <3>3. tokens[i].exp \in Int
      BY <3>2 DEF TokenClaims
    <3>4. LET n == tokens[i].exp - now
          IN n \in Int /\ Whole(n) \in Int /\ Whole(n) <= n /\ n - 1 <= Whole(n)
      BY <1>1, <3>3, WholeIs
    <3> QED
      BY <1>1, <3>2, <3>3, <3>4
  <2>2. CASE ~\E h \in Handlers : Rotate(h) /\ handler[h].token = i
    <3>1. /\ tokens[i] \in TokenClaims /\ tokens[i].spent
          /\ tokens'[i].exp = tokens[i].exp /\ denied'[i] = denied[i]
      <4>1. CASE \E h \in Handlers : Others(h)
        <5>1. UNCHANGED <<tokens, denied>>
          BY <4>1, OthersKeepTokens
        <5> QED
          BY <1>2, <5>1 DEF Types
      <4>2. ASSUME NEW h \in Handlers, Rotate(h)
            PROVE  tokens[i] \in TokenClaims /\ tokens'[i] = tokens[i] /\ denied'[i] = denied[i]
        BY <1>2, <2>2, <4>2, RotateIs DEF Types
      <4>3. ASSUME NEW h \in Handlers, Mint(h)
            PROVE  tokens[i] \in TokenClaims /\ tokens'[i] = tokens[i] /\ denied'[i] = denied[i]
        <5>1. ~Pair(handler[h].row, handler[h].active).spent /\ denied' = denied
          BY <4>3 DEF Mint, Pair
        <5> QED
          BY <1>2, <4>3, <5>1, MintTypes DEF Types
      <4>4. ASSUME NEW h \in Handlers, Lose(h)
            PROVE  /\ tokens[i] \in TokenClaims /\ tokens[i].spent
                   /\ tokens'[i].exp = tokens[i].exp /\ denied'[i] = denied[i]
        <5>1. denied' = denied
          BY <4>4 DEF Lose
        <5>2. CASE handler[h].token = i
          BY <1>2, <4>4, <5>1, <5>2, LoseIs, LetGoIs
        <5>3. CASE handler[h].token # i
          BY <1>2, <4>4, <5>1, <5>3, LoseIs DEF Types
        <5> QED
          BY <5>2, <5>3
      <4>5. CASE Reload
        <5>1. denied' = denied
          BY <4>5 DEF Reload
        <5> QED
          BY <1>2, <4>5, <5>1, ReloadIs, LetGoIs DEF Types
      <4>6. CASE Tick \/ UNCHANGED vars
        BY <1>2, <4>6 DEF Tick, vars, Types
      <4> QED
        BY <1>2, <4>1, <4>2, <4>3, <4>4, <4>5, <4>6, NextIs
    <3>2. tokens[i].exp \in Int /\ denied[i] \in Int
      BY <3>1 DEF TokenClaims, Types
    <3>3. tokens[i].exp - denied[i] <= 1 \/ tokens[i].exp - now <= 1
      BY <3>1, ConstantFacts DEF Denied
    <3> QED
      BY <1>1, <3>1, <3>2, <3>3
  <2> QED
    BY <2>1, <2>2
<1>3. ASSUME NEW g \in Handlers
      PROVE  ~handler'[g].late
  <2>1. ~handler[g].late
    BY DEF Denied, SpentIsRefused
  <2>2. ASSUME NEW h \in Handlers, Goes(h)
        PROVE  ~handler'[g].late
    <3>1. CASE g # h
      BY <2>1, <2>2, <3>1 DEF Goes, After
    <3>2. CASE g = h /\ ~(handler[h].phase = "check")
      BY <2>1, <2>2, <3>2 DEF Goes, After
    <3>3. CASE g = h /\ handler[h].phase = "check"
      <4> DEFINE i == handler[h].token
      <4>1. i \in Pairs /\ tokens[i] \in TokenClaims
        BY <3>3 DEF Types, Issued, Coherent, State
      <4>2. tokens[i].exp \in Int /\ denied[i] \in Int
        BY <4>1 DEF TokenClaims, Types
      <4>3. tokens[i].spent => tokens[i].exp - denied[i] <= 1 \/ tokens[i].exp - now <= 1
        BY <4>1, ConstantFacts DEF Denied
      <4>4. ~(~Revoked(i) /\ tokens[i].spent /\ tokens[i].exp - now >= 2)
        BY <1>1, <4>2, <4>3 DEF Revoked
      <4> QED
        BY <2>1, <2>2, <3>3, <4>4 DEF Goes, After
    <3> QED
      BY <3>1, <3>2, <3>3
  <2>3. ASSUME NEW h \in Handlers, Starts(h) \/ Refresh(h) \/ Answer(h) \/ Ends(h)
        PROVE  ~handler'[g].late
    <3>1. CASE Starts(h)
      BY <2>1, <3>1 DEF Starts, After
    <3>2. CASE Refresh(h)
      BY <2>1, <3>2, BeginnersAfter DEF After
    <3>3. CASE Answer(h)
      BY <2>1, <3>3, HeldAfter DEF After
    <3>4. CASE Ends(h)
      BY <2>1, <3>4 DEF Ends, After
    <3> QED
      BY <2>3, <3>1, <3>2, <3>3, <3>4
  <2>4. ASSUME NEW h \in Handlers, Rotate(h) \/ Mint(h) \/ Lose(h)
        PROVE  ~handler'[g].late
    <3>1. CASE Rotate(h)
      BY <2>1, <3>1, RotateAfter DEF After
    <3>2. CASE Mint(h)
      BY <2>1, <3>2, MintAfter DEF After
    <3>3. CASE Lose(h)
      BY <2>1, <3>3, LoseAfter DEF After
    <3> QED
      BY <2>4, <3>1, <3>2, <3>3
  <2>5. CASE Reload \/ Still
    BY <2>1, <2>5, ReloadAfter DEF Still
  <2> QED
    BY <2>2, <2>3, <2>4, <2>5, Moves
<1> QED
  BY <1>2, <1>3 DEF Denied, SpentIsRefused

-----------------------------------------------------------------------------
(* What an administrator writes fits *)

(* Every other step leaves the rows alone.                                  *)
LEMMA RowsAreKept ==
  ASSUME [Next]_vars
  PROVE  \/ users' = users
         \/ \E h \in Handlers : \/ Write(h)
                                \/ \E user \in Users, role \in ROLES, tenant \in Tenants \cup {None} :
                                     Create(h, user, role, tenant)
<1>1. ASSUME NEW h \in Handlers,
             \/ Login(h) \/ Refresh(h) \/ SignOut(h) \/ (\E tenant \in Tenants \cup {None} : SwitchTenant(h, tenant))
             \/ Check(h) \/ LoadUser(h) \/ Answer(h) \/ ServerError(h) \/ Decline(h)
             \/ (\E actor \in Users : Begin(h, actor))
             \/ \E user \in Users, role \in ROLES, active \in BOOLEAN : Target(h, user, role, active)
      PROVE  users' = users
  BY <1>1 DEF Login, Refresh, SignOut, SwitchTenant, Check, LoadUser, Answer, ServerError, Decline, Begin, Target
<1>2. ASSUME NEW h \in Handlers, Rotate(h) \/ Mint(h) \/ Lose(h)
      PROVE  users' = users
  BY <1>2 DEF Rotate, Mint, Lose
<1>3. CASE Reload \/ Tick \/ UNCHANGED vars
  BY <1>3 DEF Reload, Tick, vars
<1> QED
  BY <1>1, <1>2, <1>3, NextIs DEF Others

(* A row stays, and whether it is of the staff, and its tenant.             *)
RowsStand ==
  \A u \in Users : users[u] # None =>
    /\ users'[u] # None
    /\ users'[u].is_staff = users[u].is_staff /\ users'[u].tenant_id = users[u].tenant_id

LEMMA TargetOfWrite ==
  ASSUME Types, Administered, NEW h \in Handlers, Write(h)
  PROVE  users[handler[h].target] # None
BY DEF Administered, Fits, Write

LEMMA RowsNext ==
  ASSUME Types, Administered, [Next]_vars
  PROVE  RowsStand
<1>1. ASSUME NEW h \in Handlers, Write(h)
      PROVE  RowsStand
  <2>1. users[handler[h].target] # None
    BY <1>1, TargetOfWrite
  <2>2. /\ handler[h].target \in Users /\ users'[handler[h].target] \in User
        /\ users'[handler[h].target].is_staff = users[handler[h].target].is_staff
        /\ users'[handler[h].target].tenant_id = users[handler[h].target].tenant_id
        /\ users' = [users EXCEPT ![handler[h].target] = users'[handler[h].target]]
    BY <1>1, <2>1, WriteIs
  <2>3. \A u \in Users : u # handler[h].target => users'[u] = users[u]
    BY <2>2 DEF Types
  <2> QED
    BY <2>2, <2>3, ConstantFacts DEF RowsStand
<1>2. ASSUME NEW h \in Handlers, NEW user \in Users, NEW role \in ROLES, NEW tenant \in Tenants \cup {None},
             Create(h, user, role, tenant)
      PROVE  RowsStand
  <2>1. users[user] = None /\ users' = [users EXCEPT ![user] = users'[user]]
    BY <1>2, CreateTypes
  <2>2. \A u \in Users : u # user => users'[u] = users[u]
    BY <2>1 DEF Types
  <2> QED
    BY <2>1, <2>2 DEF RowsStand
<1>3. CASE users' = users
  BY <1>3 DEF RowsStand
<1> QED
  BY <1>1, <1>2, <1>3, RowsAreKept

LEMMA StaffNext ==
  ASSUME Types, Administered, [Next]_vars
  PROVE  StaffHaveNoTenant'
<1>1. ASSUME NEW h \in Handlers, Write(h)
      PROVE  StaffHaveNoTenant'
  <2> DEFINE target == handler[h].target
             changes == handler[h].changes
  <2>1. users[target] # None /\ (changes.role # None => (changes.role \in STAFF_ROLES <=> users[target].is_staff))
    BY <1>1 DEF Administered, Fits, Write
  <2>2. /\ target \in Users
        /\ users'[target].role = Or(changes.role, users[target].role)
        /\ users'[target].is_staff = users[target].is_staff
        /\ users'[target].tenant_id = users[target].tenant_id
        /\ users' = [users EXCEPT ![target] = users'[target]]
    BY <1>1, <2>1, WriteIs
  <2> HIDE DEF target, changes
  <2>3. \A u \in Users : u # target => users'[u] = users[u]
    BY <2>2 DEF Types
  <2>4. /\ users[target].is_staff <=> users[target].tenant_id = None
        /\ users[target].is_staff <=> users[target].role \in STAFF_ROLES
    BY <2>1, <2>2 DEF Administered, StaffHaveNoTenant
  <2>5. users'[target].is_staff <=> users'[target].role \in STAFF_ROLES
    BY <2>1, <2>2, <2>4 DEF Or
  <2> QED
    BY <2>2, <2>3, <2>4, <2>5 DEF Administered, StaffHaveNoTenant
<1>2. ASSUME NEW h \in Handlers, NEW user \in Users, NEW role \in ROLES, NEW tenant \in Tenants \cup {None},
             Create(h, user, role, tenant)
      PROVE  StaffHaveNoTenant'
  <2>1. /\ users' = [users EXCEPT ![user] = users'[user]]
        /\ users'[user].role = role /\ (users'[user].is_staff <=> role \in STAFF_ROLES)
        /\ role \in STAFF_ROLES <=> users'[user].tenant_id = None
    BY <1>2, CreateTypes
  <2>2. \A u \in Users : u # user => users'[u] = users[u]
    BY <2>1 DEF Types
  <2> QED
    BY <2>1, <2>2 DEF Administered, StaffHaveNoTenant
<1>3. CASE users' = users
  BY <1>3 DEF Administered, StaffHaveNoTenant
<1> QED
  BY <1>1, <1>2, <1>3, RowsAreKept

(* Who is about to write was so already, unless a target was just found.    *)
LEMMA WritersAfter ==
  ASSUME Types, Issued, [Next]_vars, NEW g \in Handlers, handler'[g].phase = "write"
  PROVE  \/ \E target \in Users, role \in ROLES, active \in BOOLEAN : Target(g, target, role, active)
         \/ /\ handler[g].phase = "write"
            /\ handler'[g].row = handler[g].row /\ handler'[g].actor = handler[g].actor
            /\ handler'[g].target = handler[g].target /\ handler'[g].changes = handler[g].changes
<1> SUFFICES ASSUME ~ \E target \in Users, role \in ROLES, active \in BOOLEAN : Target(g, target, role, active),
                    handler'[g] # handler[g]
             PROVE  /\ handler[g].phase = "write"
                    /\ handler'[g].row = handler[g].row /\ handler'[g].actor = handler[g].actor
                    /\ handler'[g].target = handler[g].target /\ handler'[g].changes = handler[g].changes
  OBVIOUS
<1>1. CASE Reload
  BY <1>1, ReloadAfter
<1>2. ASSUME NEW h \in Handlers,
             \/ Login(h) \/ Refresh(h) \/ SignOut(h) \/ (\E tenant \in Tenants \cup {None} : SwitchTenant(h, tenant))
             \/ (\E actor \in Users : Begin(h, actor))
      PROVE  FALSE
  BY <1>2, BeginnersAfter DEF After
<1>3. ASSUME NEW h \in Handlers, Check(h) \/ LoadUser(h)
      PROVE  FALSE
  BY <1>3, CheckAfter, LoadAfter DEF After
<1>4. ASSUME NEW h \in Handlers, ServerError(h)
      PROVE  FALSE
  BY <1>4, RefusedAfter DEF After, ServerError
<1>5. ASSUME NEW h \in Handlers, NEW target \in Users, NEW role \in ROLES, NEW active \in BOOLEAN,
             Target(h, target, role, active)
      PROVE  FALSE
  BY <1>5, TargetAfter DEF After
<1>6. ASSUME NEW h \in Handlers,
             \/ Answer(h) \/ Write(h) \/ Decline(h)
             \/ \E user \in Users, role \in ROLES, tenant \in Tenants \cup {None} : Create(h, user, role, tenant)
      PROVE  FALSE
  BY <1>6, EndersAfter DEF After
<1>7. ASSUME NEW h \in Handlers, Rotate(h) \/ Mint(h)
      PROVE  FALSE
  BY <1>7, RotateAfter, MintAfter DEF After
<1>8. ASSUME NEW h \in Handlers, Lose(h)
      PROVE  FALSE
  <2>1. handler[h].phase # "write"
    BY <1>8 DEF Lose, Types, Coherent
  <2> QED
    BY <1>8, <2>1, LoseAfter DEF After
<1>9. CASE Tick \/ UNCHANGED vars
  BY <1>9 DEF Tick, vars
<1> QED
  BY <1>1, <1>2, <1>3, <1>4, <1>5, <1>6, <1>7, <1>8, <1>9, NextIs DEF Others

LEMMA TargetFits ==
  ASSUME Types, NEW h \in Handlers, NEW target \in Users, NEW role \in ROLES, NEW active \in BOOLEAN,
         Target(h, target, role, active)
  PROVE  Fits(handler[h])' /\ users' = users
<1>1. /\ users[target] # None /\ users' = users
      /\ \/ handler[h].row.role = "platform_admin"
         \/ users[target].tenant_id = handler[h].row.tenant_id /\ ~users[target].is_staff
  BY DEF Target, GuardTarget
<1>2. /\ role # users[target].role =>
           target # handler[h].actor /\ (role \in STAFF_ROLES) = users[target].is_staff
      /\ active # users[target].is_active => target # handler[h].actor
      /\ role # users[target].role \/ active # users[target].is_active
  BY DEF Target, MayChange
<1>3. /\ handler'[h].row = handler[h].row /\ handler'[h].actor = handler[h].actor
      /\ handler'[h].target = target /\ handler'[h].changes = ChangesTo(target, role, active)
  BY TargetAfter
<1>4. ChangesTo(target, role, active).role = IF role = users[target].role THEN None ELSE role
  BY DEF ChangesTo
<1>5. (role \in STAFF_ROLES) = users[target].is_staff
        => (role \in STAFF_ROLES <=> users[target].is_staff)
  BY <1>1 DEF Types, User
<1> QED
  BY <1>1, <1>2, <1>3, <1>4, <1>5 DEF Fits

LEMMA AdministeredNext ==
  ASSUME Types, Issued, Administered, [Next]_vars
  PROVE  Administered'
<1>1. ASSUME NEW g \in Handlers
      PROVE  Fits(handler[g])'
  <2>1. ASSUME NEW target \in Users, NEW role \in ROLES, NEW active \in BOOLEAN, Target(g, target, role, active)
        PROVE  Fits(handler[g])'
    BY <2>1, TargetFits
  <2>2. CASE /\ handler[g].phase = "write"
             /\ handler'[g].row = handler[g].row /\ handler'[g].actor = handler[g].actor
             /\ handler'[g].target = handler[g].target /\ handler'[g].changes = handler[g].changes
    <3>1. handler[g].target \in Users
      BY <2>2 DEF Types, Coherent
    <3>2. Fits(handler[g])
      BY DEF Administered
    <3> QED
      BY <2>2, <3>1, <3>2, RowsNext DEF RowsStand, Fits
  <2>3. CASE handler'[g].phase # "write"
    BY <2>3 DEF Fits
  <2> QED
    BY <2>1, <2>2, <2>3, WritersAfter
<1> QED
  BY <1>1, StaffNext DEF Administered

-----------------------------------------------------------------------------
(* A page keeps its session *)

LEMMA DeniedStands ==
  ASSUME Types, Issued, [Next]_vars, NEW i \in Pairs,
         ~ \E h \in Handlers : Rotate(h) /\ handler[h].token = i
  PROVE  denied'[i] = denied[i]
<1>1. ASSUME NEW h \in Handlers, Rotate(h)
      PROVE  denied'[i] = denied[i]
  BY <1>1, RotateIs
<1>2. ASSUME NEW h \in Handlers, Mint(h) \/ Lose(h)
      PROVE  denied' = denied
  BY <1>2 DEF Mint, Lose
<1>3. CASE Reload \/ Tick \/ UNCHANGED vars
  BY <1>3 DEF Reload, Tick, vars
<1> QED
  BY <1>1, <1>2, <1>3, NextIs, OthersKeepTokens

(* Only a refresh spends a token that nobody let go.                        *)
LEMMA GoodStands ==
  ASSUME Types, Issued, [Next]_vars, NEW i \in Pairs, tokens[i] # None, Good(i),
         ~ \E h \in Handlers : Rotate(h) /\ handler[h].token = i /\ handler[h].kind = "refresh"
  PROVE  Good(i)'
<1>1. CASE tokens[i].let_go
  BY <1>1, TokensAreKept DEF TokensStand, Good
<1>2. CASE \E h \in Handlers : Rotate(h) /\ handler[h].token = i
  <2>1. PICK h \in Handlers : Rotate(h) /\ handler[h].token = i
    BY <1>2
  <2>2. handler[h].kind = "logout"
    BY <2>1 DEF Rotate, Types, Coherent
  <2> QED
    BY <2>1, <2>2, RotateIs DEF Good
<1>3. CASE ~ \E h \in Handlers : Rotate(h) /\ handler[h].token = i
  BY <1>1, <1>3, DeniedStands DEF Good
<1> QED
  BY <1>2, <1>3

LEMMA NeverDeniedNext ==
  ASSUME Types, Issued, NeverDenied, [Next]_vars
  PROVE  NeverDenied'
<1> SUFFICES ASSUME NEW i \in Pairs, tokens'[i] = None
             PROVE  denied'[i] = 0
  BY DEF NeverDenied
<1>1. tokens[i] = None
  BY TokensAreKept DEF TokensStand
<1>2. ~ \E h \in Handlers : Rotate(h) /\ handler[h].token = i
  BY <1>1, RotateIs, ConstantFacts
<1> QED
  BY <1>1, <1>2, DeniedStands DEF NeverDenied

LEMMA OneFlightNext ==
  ASSUME Types, Issued, OneFlight, [Next]_vars
  PROVE  OneFlight'
<1>0. page.flight \in Handlers \cup {None} /\ None \notin Handlers
  BY ConstantFacts DEF Types
<1>1. ASSUME NEW h \in Handlers, Starts(h)
      PROVE  OneFlight'
  <2>1. page' = page /\ page.flight # h
    BY <1>1, ConstantFacts DEF Starts, Apart, OneFlight, Idle, Kinds
  <2> QED
    BY <1>0, <1>1, <2>1 DEF Starts, After, OneFlight
<1>2. ASSUME NEW h \in Handlers, Refresh(h)
      PROVE  OneFlight'
  <2>1. page.flight = None /\ page'.flight = h
    BY <1>2 DEF Refresh, Types
  <2>2. /\ handler'[h].kind = "refresh" /\ handler'[h].heard
        /\ \A g \in Handlers \ {h} : handler'[g] = handler[g]
    BY <1>2, BeginnersAfter DEF After
  <2> QED
    BY <1>0, <2>1, <2>2 DEF OneFlight
<1>3. ASSUME NEW h \in Handlers, Goes(h)
      PROVE  OneFlight'
  BY <1>0, <1>3 DEF Goes, Apart, After, OneFlight
<1>4. ASSUME NEW h \in Handlers, Rotate(h) \/ Mint(h)
      PROVE  OneFlight'
  <2>1. page' = page
    BY <1>4 DEF Rotate, Mint
  <2>2. /\ handler'[h].kind = handler[h].kind /\ handler'[h].heard = handler[h].heard
        /\ \A g \in Handlers \ {h} : handler'[g] = handler[g]
    <3>1. CASE Rotate(h)
      BY <3>1, RotateAfter DEF After
    <3>2. CASE Mint(h)
      BY <3>2, MintAfter DEF After
    <3> QED
      BY <1>4, <3>1, <3>2
  <2> QED
    BY <1>0, <2>1, <2>2 DEF OneFlight
<1>5. ASSUME NEW h \in Handlers, Answer(h)
      PROVE  OneFlight'
  <2>1. handler[h].heard \in BOOLEAN
    BY DEF Types, State
  <2>4. handler'[h].kind # "refresh" /\ \A g \in Handlers \ {h} : handler'[g] = handler[g]
    <3>1. After(h, None, "idle", 0, 0, TRUE, None, FALSE)
      BY <1>5, HeldAfter
    <3>2. None # "refresh"
      BY ConstantFacts DEF Kinds
    <3> QED
      BY <3>1, <3>2 DEF After
  <2>2. CASE handler[h].heard /\ handler[h].kind = "refresh"
    <3>1. page'.flight = None /\ page.flight = h
      BY <1>5, <2>2, HeldAfter DEF OneFlight
    <3> QED
      BY <1>0, <2>4, <3>1 DEF OneFlight
  <2>3. CASE ~(handler[h].heard /\ handler[h].kind = "refresh")
    <3>1. page'.flight = page.flight /\ page.flight # h
      BY <1>0, <1>5, <2>1, <2>3, HeldAfter DEF OneFlight
    <3> QED
      BY <1>0, <2>4, <3>1 DEF OneFlight
  <2> QED
    BY <2>2, <2>3
<1>6. ASSUME NEW h \in Handlers, Ends(h)
      PROVE  OneFlight'
  <2>1. page' = page /\ page.flight # h
    BY <1>0, <1>6 DEF Ends, Apart, OneFlight
  <2>2. handler'[h].kind # "refresh" /\ \A g \in Handlers \ {h} : handler'[g] = handler[g]
    <3>1. None # "refresh"
      BY ConstantFacts DEF Kinds
    <3> QED
      BY <1>6, <3>1 DEF Ends, After
  <2> QED
    BY <1>0, <2>1, <2>2 DEF OneFlight
<1>7. ASSUME NEW h \in Handlers, Lose(h)
      PROVE  OneFlight'
  <2>1. page'.flight = None /\ page.flight = h
    BY <1>7 DEF Lose, Types
  <2>2. ~handler'[h].heard /\ \A g \in Handlers \ {h} : handler'[g] = handler[g]
    BY <1>7, LoseAfter DEF After
  <2> QED
    BY <1>0, <2>1, <2>2 DEF OneFlight
<1>8. CASE Reload
  <2>1. page'.flight = None
    BY <1>8 DEF Reload, Types
  <2> QED
    BY <1>0, <1>8, <2>1, ReloadAfter DEF OneFlight, PageKinds
<1>9. CASE Still
  BY <1>9 DEF Still, OneFlight
<1> QED
  BY <1>1, <1>2, <1>3, <1>4, <1>5, <1>6, <1>7, <1>8, <1>9, Moves

LEMMA UnheardNext ==
  ASSUME Types, Issued, Unheard, [Next]_vars
  PROVE  Unheard'
<1> SUFFICES ASSUME NEW g \in Handlers, handler'[g].kind = "refresh", ~handler'[g].heard
             PROVE  tokens'[handler'[g].token].let_go
  BY DEF Unheard
<1>1. CASE /\ handler[g].kind = "refresh" /\ ~handler[g].heard
           /\ handler'[g].token = handler[g].token
  <2>1. handler[g].token \in Pairs /\ tokens[handler[g].token] \in TokenClaims
    BY <1>1, TokenIs
  <2> QED
    BY <1>1, <2>1, TokensAreKept, ConstantFacts DEF TokensStand, Unheard
<1>2. ASSUME NEW h \in Handlers, Lose(h), g = h
      PROVE  tokens'[handler'[g].token].let_go
  <2>1. handler'[h].token = handler[h].token
    BY <1>2, LoseAfter DEF After
  <2>2. tokens'[handler[h].token].let_go
    BY <1>2, LoseIs, LetGoIs
  <2> QED
    BY <1>2, <2>1, <2>2
<1>3. CASE Reload
  <2>1. handler[g].kind = "refresh" /\ handler'[g].token = handler[g].token
    BY <1>3, ReloadAfter
  <2> QED
    BY <1>3, <2>1, ReloadIs, LetGoIs, TokenIs
<1>4. ASSUME NEW h \in Handlers, g # h, After(h, handler'[h].kind, handler'[h].phase, handler'[h].token,
                                            handler'[h].pair, handler'[h].heard, handler'[h].why, handler'[h].late)
      PROVE  tokens'[handler'[g].token].let_go
  BY <1>1, <1>4 DEF After
<1>5. ASSUME NEW h \in Handlers, Starts(h) \/ Refresh(h) \/ Answer(h) \/ Ends(h)
      PROVE  tokens'[handler'[g].token].let_go
  BY <1>1, <1>5, BeginnersAfter, HeldAfter, ConstantFacts DEF Starts, Ends, After, Kinds
<1>6. ASSUME NEW h \in Handlers, Goes(h) \/ Rotate(h) \/ Mint(h) \/ Lose(h)
      PROVE  tokens'[handler'[g].token].let_go
  <2>1. handler'[g].token = handler[g].token /\ handler'[g].kind = handler[g].kind
    BY <1>6, OnwardIs DEF Onward
  <2>2. handler'[g].heard = handler[g].heard \/ (Lose(h) /\ g = h)
    BY <1>6, OnwardIs DEF Onward
  <2> QED
    BY <1>1, <1>2, <1>6, <2>1, <2>2
<1>7. CASE Still
  BY <1>1, <1>7 DEF Still
<1> QED
  BY <1>3, <1>5, <1>6, <1>7, Moves

LEMMA CheckedNext ==
  ASSUME Types, Issued, OneFlight, Unheard, Checked, Stored, [Next]_vars
  PROVE  Checked'
<1> SUFFICES ASSUME NEW g \in Handlers, handler'[g].phase = "check"
             PROVE  Good(handler[g].token)'
  BY DEF Checked, Good
<1>1. CASE handler[g].phase = "check" /\ handler'[g].token = handler[g].token
  <2>1. PICK i \in Pairs : i = handler[g].token /\ tokens[i] # None
    BY <1>1, TokenIs, ConstantFacts DEF Types, Coherent
  <2>2. handler[g].kind = "refresh" /\ Good(i)
    BY <1>1, <2>1 DEF Types, Coherent, Checked
  <2>3. CASE \E h \in Handlers : Rotate(h) /\ handler[h].token = i /\ handler[h].kind = "refresh"
    <3>1. PICK h \in Handlers : Rotate(h) /\ handler[h].token = i /\ handler[h].kind = "refresh"
      BY <2>3
    <3>2. g # h
      BY <1>1, <3>1 DEF Rotate
    <3>3. tokens[i].let_go
      BY <2>1, <2>2, <3>1, <3>2 DEF OneFlight, Unheard
    <3>4. tokens'[i].let_go
      BY <2>1, <3>3, TokensAreKept DEF TokensStand
    <3> QED
      BY <1>1, <2>1, <3>4 DEF Good
  <2>4. CASE ~ \E h \in Handlers : Rotate(h) /\ handler[h].token = i /\ handler[h].kind = "refresh"
    <3>1. Good(i)'
      BY <2>1, <2>2, <2>4, GoodStands
    <3> QED
      BY <1>1, <2>1, <3>1 DEF Good
  <2> QED
    BY <2>3, <2>4
<1>2. ASSUME NEW h \in Handlers, Refresh(h)
      PROVE  Good(handler[g].token)'
  <2>1. CASE g = h
    <3>1. /\ handler'[g].token = page.refresh /\ page.refresh # 0 /\ page.flight = None
          /\ UNCHANGED <<tokens, denied>>
      BY <1>2, <2>1, BeginnersAfter DEF After, Refresh
    <3>2. Good(page.refresh)
      BY <3>1 DEF Stored, UnderWay
    <3> QED
      BY <3>1, <3>2 DEF Good
  <2>2. CASE g # h
    BY <1>1, <1>2, <2>2, BeginnersAfter DEF After
  <2> QED
    BY <2>1, <2>2
<1>3. ASSUME NEW h \in Handlers, Starts(h) \/ Answer(h) \/ Ends(h)
      PROVE  Good(handler[g].token)'
  BY <1>1, <1>3, HeldAfter DEF Starts, Ends, After
<1>4. ASSUME NEW h \in Handlers, Goes(h) \/ Rotate(h) \/ Mint(h) \/ Lose(h)
      PROVE  Good(handler[g].token)'
  <2>1. handler'[g].token = handler[g].token
    BY <1>4, OnwardIs DEF Onward
  <2>2. handler[g].phase = "check"
    BY <1>4, OnwardIs DEF Onward
  <2> QED
    BY <1>1, <2>1, <2>2
<1>5. CASE Reload \/ Still
  BY <1>1, <1>5, ReloadAfter DEF Still
<1> QED
  BY <1>2, <1>3, <1>4, <1>5, Moves

(* A handler begins or ends.                                                *)
LEMMA ResetIs ==
  ASSUME Types, NEW k \in Handlers, Starts(k) \/ Refresh(k) \/ Answer(k) \/ Ends(k)
  PROVE  /\ handler'[k].pair = 0 /\ handler'[k].token \in {0, page.refresh}
         /\ handler'[k].why = None
         /\ \A g \in Handlers \ {k} : handler'[g] = handler[g]
         /\ page'.refresh \in {0, page.refresh, handler[k].pair}
<1>1. ASSUME Starts(k)
      PROVE  page' = page /\ handler'[k].pair = 0 /\ handler'[k].token \in {0, page.refresh}
             /\ handler'[k].why = None /\ \A g \in Handlers \ {k} : handler'[g] = handler[g]
  BY <1>1 DEF Starts, Apart, After
<1>2. ASSUME Refresh(k)
      PROVE  page'.refresh = page.refresh /\ handler'[k].pair = 0 /\ handler'[k].token = page.refresh
             /\ handler'[k].why = None /\ \A g \in Handlers \ {k} : handler'[g] = handler[g]
  <2>1. page'.refresh = page.refresh
    BY <1>2 DEF Refresh, Types
  <2> QED
    BY <1>2, <2>1, BeginnersAfter DEF After
<1>3. ASSUME Answer(k)
      PROVE  page'.refresh \in {0, page.refresh, handler[k].pair} /\ handler'[k].pair = 0
             /\ handler'[k].token = 0
             /\ handler'[k].why = None /\ \A g \in Handlers \ {k} : handler'[g] = handler[g]
  BY <1>3, HeldAfter DEF After
<1>4. ASSUME Ends(k)
      PROVE  page' = page /\ handler'[k].pair = 0 /\ handler'[k].token = 0
             /\ handler'[k].why = None /\ \A g \in Handlers \ {k} : handler'[g] = handler[g]
  BY <1>4 DEF Ends, Apart, After
<1> QED
  BY <1>1, <1>2, <1>3, <1>4

(* Pair i is new to everybody but handler h.                                *)
FreshTo(h, i) ==
  /\ denied[i] = 0 /\ page.refresh # i
  /\ \A g \in Handlers : handler[g].token # i /\ (g # h => handler[g].pair # i)

LEMMA FreshNext ==
  ASSUME Types, Types', Issued, NeverDenied, Fresh, [Next]_vars
  PROVE  Fresh'
<1> SUFFICES ASSUME NEW h \in Handlers, NEW i \in Pairs, handler'[h].pair = i
             PROVE  /\ denied'[i] = 0 /\ page'.refresh # i
                    /\ \A g \in Handlers : handler'[g].token # i /\ (g # h => handler'[g].pair # i)
  BY DEF Fresh, Types, State
<1>1. i # 0
  BY ConstantFacts
<1>2. handler[h].pair = i => FreshTo(h, i)
  BY <1>1 DEF Fresh, FreshTo
<1>3. FreshTo(h, i) => denied'[i] = 0
  BY DeniedStands DEF FreshTo
<1>4. ASSUME NEW k \in Handlers, Starts(k) \/ Refresh(k) \/ Answer(k) \/ Ends(k)
      PROVE  /\ denied'[i] = 0 /\ page'.refresh # i
             /\ \A g \in Handlers : handler'[g].token # i /\ (g # h => handler'[g].pair # i)
  <2>1. /\ handler'[k].pair = 0 /\ handler'[k].token \in {0, page.refresh}
        /\ \A g \in Handlers \ {k} : handler'[g] = handler[g]
        /\ page'.refresh \in {0, page.refresh, handler[k].pair}
    BY <1>4, ResetIs
  <2>2. h # k /\ FreshTo(h, i)
    BY <1>1, <1>2, <2>1
  <2> QED
    BY <1>1, <1>3, <2>1, <2>2 DEF FreshTo
<1>5. ASSUME page'.refresh = page.refresh,
             \A g \in Handlers : handler'[g].token = handler[g].token /\ handler'[g].pair = handler[g].pair
      PROVE  /\ denied'[i] = 0 /\ page'.refresh # i
             /\ \A g \in Handlers : handler'[g].token # i /\ (g # h => handler'[g].pair # i)
  BY <1>2, <1>3, <1>5 DEF FreshTo
<1>6. ASSUME NEW k \in Handlers, Goes(k) \/ Rotate(k) \/ Lose(k)
      PROVE  /\ page'.refresh = page.refresh
             /\ \A g \in Handlers : handler'[g].token = handler[g].token /\ handler'[g].pair = handler[g].pair
  <2>1. page'.refresh = page.refresh
    BY <1>6 DEF Goes, Apart, Rotate, Lose, Types
  <2>2. handler'[k].pair = handler[k].pair
    <3>1. CASE Goes(k)
      BY <3>1 DEF Goes, After
    <3>2. CASE Rotate(k)
      BY <3>2, RotateAfter DEF After
    <3>3. CASE Lose(k)
      BY <3>3, LoseAfter DEF After
    <3> QED
      BY <1>6, <3>1, <3>2, <3>3
  <2> QED
    BY <1>6, <2>1, <2>2, OnwardIs DEF Onward
<1>7. CASE Reload \/ Still
  <2>1. page'.refresh = page.refresh
    BY <1>7 DEF Reload, Still, Types
  <2> QED
    BY <1>5, <1>7, <2>1, ReloadAfter DEF Still
<1>8. ASSUME NEW k \in Handlers, Mint(k)
      PROVE  /\ denied'[i] = 0 /\ page'.refresh # i
             /\ \A g \in Handlers : handler'[g].token # i /\ (g # h => handler'[g].pair # i)
  <2>1. /\ UNCHANGED <<page, denied>>
        /\ FirstFree \in Pairs /\ tokens[FirstFree] = None
        /\ handler'[k].pair = FirstFree /\ handler'[k].token = handler[k].token
        /\ \A g \in Handlers \ {k} : handler'[g] = handler[g]
    BY <1>8, MintTypes, MintAfter DEF Mint, After
  <2> HIDE DEF FirstFree
  <2>2. CASE h = k
    <3>1. i = FirstFree /\ denied[i] = 0
      BY <2>1, <2>2 DEF NeverDenied
    <3>2. page.refresh # i
      BY <1>1, <2>1, <3>1 DEF Issued
    <3>3. \A g \in Handlers : handler[g].token # i /\ handler[g].pair # i
      BY <1>1, <2>1, <3>1 DEF Issued
    <3> QED
      BY <2>1, <2>2, <3>1, <3>2, <3>3
  <2>3. CASE h # k
    <3>1. FreshTo(h, i) /\ tokens[i] # None
      BY <1>1, <1>2, <2>1, <2>3 DEF Issued
    <3> QED
      BY <2>1, <2>3, <3>1 DEF FreshTo
  <2> QED
    BY <2>2, <2>3
<1> QED
  BY <1>4, <1>5, <1>6, <1>7, <1>8, Moves

LEMMA UnderWayNext ==
  ASSUME Types, Issued, OneFlight, [Next]_vars, NEW i \in Pairs, UnderWay(i), page'.refresh = page.refresh
  PROVE  Good(i)' \/ UnderWay(i)' \/ \E k \in Handlers : Answer(k) /\ page.flight = k
<1>1. PICK f \in Handlers : page.flight = f
  BY DEF UnderWay, Types
<1>2. /\ handler[f].token = i /\ handler[f].phase \in {"mint", "minted", "refused"}
      /\ handler[f].kind = "refresh" /\ handler[f].heard /\ f # None
  BY <1>1, ConstantFacts DEF UnderWay, OneFlight
<1>3. ASSUME page'.flight = f, handler'[f] = handler[f]
      PROVE  UnderWay(i)'
  BY <1>2, <1>3 DEF UnderWay
<1>4. ASSUME NEW k \in Handlers, Starts(k) \/ Ends(k)
      PROVE  UnderWay(i)'
  <2>1. page' = page /\ \A g \in Handlers \ {k} : handler'[g] = handler[g]
    BY <1>4 DEF Starts, Ends, Apart, After
  <2>2. handler[k].kind \in {None, "admin"}
    <3>1. Idle.kind = None
      BY DEF Idle
    <3>2. handler[k] = Idle \/ handler[k].kind = "admin"
      BY <1>4 DEF Starts, Ends
    <3> QED
      BY <3>1, <3>2
  <2>3. k # f
    BY <1>2, <2>2, ConstantFacts DEF Kinds
  <2> QED
    BY <1>1, <1>3, <2>1, <2>3
<1>5. ASSUME NEW k \in Handlers, Refresh(k)
      PROVE  FALSE
  BY <1>1, <1>2, <1>5 DEF Refresh
<1>6. ASSUME NEW k \in Handlers, Goes(k)
      PROVE  UnderWay(i)'
  <2>1. page' = page
    BY <1>6 DEF Goes, Apart
  <2>2. CASE k = f
    <3>1. handler'[f].phase = "refused" /\ handler'[f].token = i
      BY <1>2, <1>6, <2>2 DEF Goes, After
    <3> QED
      BY <1>1, <1>2, <2>1, <3>1 DEF UnderWay
  <2>3. CASE k # f
    BY <1>1, <1>3, <1>6, <2>1, <2>3 DEF Goes, After
  <2> QED
    BY <2>2, <2>3
<1>7. ASSUME NEW k \in Handlers, Rotate(k)
      PROVE  UnderWay(i)'
  <2>1. page' = page /\ k # f
    BY <1>2, <1>7 DEF Rotate
  <2> QED
    BY <1>1, <1>3, <1>7, <2>1, RotateAfter DEF After
<1>8. ASSUME NEW k \in Handlers, Mint(k)
      PROVE  UnderWay(i)'
  <2>1. page' = page
    BY <1>8 DEF Mint
  <2>2. CASE k = f
    <3>1. handler'[f].phase = "minted" /\ handler'[f].token = i
      BY <1>2, <1>8, <2>2, MintAfter DEF After
    <3> QED
      BY <1>1, <1>2, <2>1, <3>1 DEF UnderWay
  <2>3. CASE k # f
    BY <1>1, <1>3, <1>8, <2>1, <2>3, MintAfter DEF After
  <2> QED
    BY <2>2, <2>3
<1>9. ASSUME NEW k \in Handlers, Answer(k), k # f
      PROVE  UnderWay(i)'
  <2>1. page'.flight = f
    <3>1. handler[k].heard \in BOOLEAN /\ ~(handler[k].heard /\ handler[k].kind = "refresh")
      BY <1>1, <1>9 DEF OneFlight, Types, State
    <3> QED
      BY <1>1, <1>9, <3>1, HeldAfter
  <2> QED
    BY <1>3, <1>9, <2>1, HeldAfter DEF After
<1>10. ASSUME NEW k \in Handlers, Lose(k)
       PROVE  Good(i)'
  <2>1. k = f
    BY <1>1, <1>10 DEF Lose
  <2> QED
    BY <1>2, <1>10, <2>1, LoseIs, LetGoIs DEF Good
<1>11. CASE Reload
  BY <1>2, <1>11, ReloadIs, LetGoIs DEF Good
<1>12. CASE Still
  BY <1>1, <1>3, <1>12 DEF Still
<1> QED
  BY <1>1, <1>4, <1>5, <1>6, <1>7, <1>8, <1>9, <1>10, <1>11, <1>12, Moves

LEMMA StoredNext ==
  ASSUME Types, Types', Issued, OneFlight, Unheard, Fresh, Stored, [Next]_vars
  PROVE  Stored'
<1> SUFFICES ASSUME NEW i \in Pairs, page'.refresh = i
             PROVE  Good(i)' \/ UnderWay(i)'
  <2>1. page'.refresh \in Pairs \cup {0}
    BY DEF Types
  <2> QED
    BY <2>1 DEF Stored, Good, UnderWay
<1>0. i # 0
  BY ConstantFacts
<1>1. ASSUME NEW k \in Handlers, Answer(k), i = handler[k].pair
      PROVE  Good(i)'
  <2>1. denied[i] = 0 /\ denied' = denied
    BY <1>0, <1>1 DEF Fresh, Answer
  <2> QED
    BY <2>1 DEF Good
<1>2. page.refresh = i \/ \E k \in Handlers : Answer(k) /\ i = handler[k].pair
  <2>1. ASSUME NEW k \in Handlers, Starts(k) \/ Refresh(k) \/ Ends(k)
        PROVE  page'.refresh = page.refresh
    BY <2>1 DEF Starts, Refresh, Ends, Apart, Types
  <2>2. ASSUME NEW k \in Handlers, Goes(k) \/ Rotate(k) \/ Mint(k) \/ Lose(k)
        PROVE  page'.refresh = page.refresh
    BY <2>2 DEF Goes, Apart, Rotate, Mint, Lose, Types
  <2>3. CASE Reload \/ Still
    BY <2>3 DEF Reload, Still, Types
  <2>4. ASSUME NEW k \in Handlers, Answer(k)
        PROVE  page'.refresh = page.refresh \/ i = handler[k].pair
    BY <1>0, <2>4, HeldAfter
  <2> QED
    BY <2>1, <2>2, <2>3, <2>4, Moves
<1>3. CASE page.refresh = i
  <2>0. tokens[i] # None
    BY <1>0, <1>3 DEF Issued
  <2>1. CASE \E k \in Handlers : Rotate(k) /\ handler[k].token = i /\ handler[k].kind = "refresh"
    <3>1. PICK k \in Handlers : Rotate(k) /\ handler[k].token = i /\ handler[k].kind = "refresh"
      BY <2>1
    <3>2. CASE handler[k].heard
      <4>1. page.flight = k /\ page' = page /\ k # None
        BY <3>1, <3>2, ConstantFacts DEF OneFlight, Rotate
      <4>2. handler'[k].phase = "mint" /\ handler'[k].token = i
        BY <3>1, RotateAfter DEF After
      <4> QED
        BY <4>1, <4>2 DEF UnderWay
    <3>3. CASE ~handler[k].heard
      <4>1. tokens[i].let_go
        BY <3>1, <3>3 DEF Unheard
      <4>2. tokens'[i].let_go
        BY <2>0, <4>1, TokensAreKept DEF TokensStand
      <4> QED
        BY <4>2 DEF Good
    <3> QED
      BY <3>2, <3>3
  <2>2. CASE Good(i) /\ ~ \E k \in Handlers : Rotate(k) /\ handler[k].token = i /\ handler[k].kind = "refresh"
    BY <2>0, <2>2, GoodStands
  <2>3. CASE UnderWay(i)
    <3>1. ASSUME NEW k \in Handlers, Answer(k), page.flight = k
          PROVE  Good(i)'
      <4>1. handler[k].kind = "refresh" /\ handler[k].heard
        BY <3>1, ConstantFacts DEF OneFlight
      <4>2. i = handler[k].pair
        BY <1>0, <3>1, <4>1, HeldAfter
      <4> QED
        BY <1>1, <3>1, <4>2
    <3> QED
      BY <1>3, <2>3, <3>1, UnderWayNext
  <2> QED
    BY <1>0, <1>3, <2>1, <2>2, <2>3 DEF Stored
<1> QED
  BY <1>1, <1>2, <1>3

LEMMA ToldNext ==
  ASSUME Types, Issued, Checked, Told, [Next]_vars
  PROVE  Told'
<1> SUFFICES ASSUME NEW g \in Handlers, handler'[g].why = "revoked"
             PROVE  handler'[g].token # 0 /\ tokens'[handler'[g].token].let_go
  BY DEF Told
<1>0. handler[g].token \in Pairs \cup {0}
  BY DEF Types, State
<1>1. CASE handler[g].why = "revoked" /\ handler'[g].token = handler[g].token
  <2>1. handler[g].token \in Pairs /\ tokens[handler[g].token] # None /\ tokens[handler[g].token].let_go
    BY <1>0, <1>1 DEF Told, Issued
  <2> QED
    BY <1>1, <2>1, TokensAreKept, ConstantFacts DEF TokensStand
<1>2. ASSUME NEW k \in Handlers, Starts(k) \/ Refresh(k) \/ Answer(k) \/ Ends(k)
      PROVE  handler'[g].token # 0 /\ tokens'[handler'[g].token].let_go
  BY <1>1, <1>2, ResetIs, ConstantFacts
<1>3. ASSUME NEW k \in Handlers, Rotate(k) \/ Mint(k) \/ Lose(k)
      PROVE  handler'[g].token # 0 /\ tokens'[handler'[g].token].let_go
  <2>1. handler'[k].why = handler[k].why
    <3>1. CASE Rotate(k)
      BY <3>1, RotateAfter DEF After
    <3>2. CASE Mint(k)
      BY <3>2, MintAfter DEF After
    <3>3. CASE Lose(k)
      BY <3>3, LoseAfter DEF After
    <3> QED
      BY <1>3, <3>1, <3>2, <3>3
  <2> QED
    BY <1>1, <1>3, <2>1, OnwardIs DEF Onward
<1>4. ASSUME NEW k \in Handlers, Goes(k)
      PROVE  handler'[g].token # 0 /\ tokens'[handler'[g].token].let_go
  <2>1. CASE handler[g].why = "revoked"
    BY <1>1, <1>4, <2>1, OnwardIs DEF Onward
  <2>2. CASE handler[g].why # "revoked"
    <3>1. g = k /\ handler[g].phase = "check" /\ Revoked(handler[g].token)
      BY <1>4, <2>2 DEF Goes, After
    <3>2. handler'[g].token = handler[g].token /\ UNCHANGED <<tokens, denied>>
      BY <1>4, <3>1 DEF Goes, After, Apart
    <3>3. handler[g].token \in Pairs /\ Good(handler[g].token)
      BY <3>1, TokenIs DEF Types, Coherent, Checked
    <3>4. denied[handler[g].token] # 0
      BY <3>1, ConstantFacts DEF Revoked, Types
    <3> QED
      BY <3>2, <3>3, <3>4, ConstantFacts DEF Good
  <2> QED
    BY <2>1, <2>2
<1>5. CASE Reload \/ Still
  BY <1>1, <1>5, ReloadAfter DEF Still
<1> QED
  BY <1>2, <1>3, <1>4, <1>5, Moves

-----------------------------------------------------------------------------
(* The invariant *)

LEMMA IInvInit == Init => IInv
<1> SUFFICES ASSUME Init
             PROVE  IInv
  OBVIOUS
<1>1. Types
  BY TypesInit
<1>2. \A h \in Handlers : handler[h] = Idle
  BY DEF Init
<1>3. page.access = 0 /\ page.refresh = 0 /\ page.flight = None
  BY DEF Init, NoPage
<1>4. Issued
  BY <1>2, <1>3 DEF Issued, Idle
<1>5. Administered
  <2>1. users = FirstUsers
    BY DEF Init
  <2>2. StaffHaveNoTenant
    BY <2>1, AccountsAssumption DEF StaffHaveNoTenant
  <2>3. \A h \in Handlers : Fits(handler[h])
    BY <1>2 DEF Fits, Idle
  <2> QED
    BY <2>2, <2>3 DEF Administered
<1>6. Denied
  BY <1>2 DEF Denied, SpentIsRefused, Idle, Init
<1>7. Kept
  BY <1>2, <1>3, ConstantFacts DEF Kept, NeverDenied, OneFlight, Unheard, Checked, Fresh, Stored, Told,
     Idle, Kinds, Init
<1> QED
  BY <1>1, <1>4, <1>5, <1>6, <1>7 DEF IInv

LEMMA IInvNext ==
  ASSUME IInv, [Next]_vars
  PROVE  IInv'
<1>1. Types /\ Issued /\ Administered /\ Denied
      /\ NeverDenied /\ OneFlight /\ Unheard /\ Checked /\ Fresh /\ Stored /\ Told
  BY DEF IInv, Kept
<1>2. Types' /\ Issued' /\ Administered' /\ Denied'
  BY <1>1, TypesNext, IssuedNext, AdministeredNext, DeniedNext
<1>3. NeverDenied' /\ OneFlight' /\ Unheard' /\ Checked'
  BY <1>1, NeverDeniedNext, OneFlightNext, UnheardNext, CheckedNext
<1>4. Fresh' /\ Stored' /\ Told'
  BY <1>1, <1>2, FreshNext, StoredNext, ToldNext
<1> QED
  BY <1>2, <1>3, <1>4 DEF IInv, Kept

(* Whatever sign-ins, refreshes, sign-outs, reloads, lost connections and   *)
(* requests of administrators come together: what is named was issued, what *)
(* is about to be written fits, what was spent is denied, and the page has  *)
(* a refresh token that nobody spent behind its back.                       *)
THEOREM AccountsInvariant == Spec => []IInv
<1>1. Init => IInv
  BY IInvInit
<1>2. IInv /\ [Next]_vars => IInv'
  BY IInvNext
<1> QED
  BY <1>1, <1>2, PTL DEF Spec

(* The tables, the page and the handlers have the types the code relies on, *)
(* and what they refer to is there.                                         *)
THEOREM TypeCorrect == Spec => []TypeOK
<1>1. IInv => TypeOK
  <2> SUFFICES ASSUME IInv
               PROVE  TypeOK
    OBVIOUS
  <2>1. {page.access, page.refresh} \subseteq (Pairs \ Free) \cup {0}
    BY DEF IInv, Types, Issued, Free
  <2> QED
    BY <2>1 DEF IInv, Types, Administered, Kept, OneFlight, TypeOK
<1> QED
  BY <1>1, AccountsInvariant, PTL

(* revoke_token: a refresh token that was exchanged or signed out with is   *)
(* not taken again while it has a second to live, however its use races the *)
(* clock and other requests.                                                *)
THEOREM SpentRefused == Spec => []SpentIsRefused
<1>1. IInv => SpentIsRefused
  BY DEF IInv, Denied
<1> QED
  BY <1>1, AccountsInvariant, PTL

(* refreshAccessToken: one refresh at a time keeps the page from being told *)
(* that its token was revoked, unless it signed out with it or the answer   *)
(* to an earlier exchange was lost on the way.                              *)
THEOREM PageKeepsSession == Spec => []PageKeepsItsSession
<1>1. IInv => PageKeepsItsSession
  BY DEF IInv, Kept, Told, PageKeepsItsSession
<1> QED
  BY <1>1, AccountsInvariant, PTL

LEMMA WriteOnlyItsTarget ==
  ASSUME Types, Administered, NEW h \in Handlers, Write(h)
  PROVE  /\ handler[h].target \in Users /\ users[handler[h].target] # None
         /\ \A u \in Users : u # handler[h].target => users'[u] = users[u]
<1>1. users[handler[h].target] # None
  BY TargetOfWrite
<1>2. /\ handler[h].target \in Users
      /\ users' = [users EXCEPT ![handler[h].target] = users'[handler[h].target]]
  BY <1>1, WriteIs
<1> QED
  BY <1>1, <1>2 DEF Types

(* update_user: the guard against deactivating or demoting oneself means    *)
(* that the last administrator is only lost to a request of somebody who    *)
(* was an administrator when it came and no longer is.                      *)
THEOREM LastAdmin == Spec => LastAdminGoesOnlyInARace
<1>1. IInv /\ [Next]_vars =>
        [Admins # {} /\ Admins' = {} =>
           \E h \in Handlers : /\ handler[h].phase = "write" /\ handler'[h] = Idle
                               /\ handler[h].actor \notin Admins]_users
  <2> SUFFICES ASSUME IInv, [Next]_vars, Admins # {}, Admins' = {}, users' # users
               PROVE  \E h \in Handlers : /\ handler[h].phase = "write" /\ handler'[h] = Idle
                                          /\ handler[h].actor \notin Admins
    OBVIOUS
  <2>0. Types /\ Administered
    BY DEF IInv
  <2>1. ASSUME NEW h \in Handlers, Write(h)
        PROVE  handler[h].phase = "write" /\ handler'[h] = Idle /\ handler[h].actor \notin Admins
    <3>1. \A u \in Users : u # handler[h].target => users'[u] = users[u]
      BY <2>0, <2>1, WriteOnlyItsTarget
    <3>2. Admins \subseteq {handler[h].target}
      BY <3>1 DEF Admins
    <3>3. handler[h].target # handler[h].actor
      BY <2>0, <2>1 DEF Administered, Fits, Write
    <3> QED
      BY <2>0, <2>1, <3>2, <3>3 DEF Write, Becomes, Types
  <2>2. ASSUME NEW h \in Handlers, NEW user \in Users, NEW role \in ROLES, NEW tenant \in Tenants \cup {None},
               Create(h, user, role, tenant)
        PROVE  FALSE
    <3>1. users[user] = None /\ users' = [users EXCEPT ![user] = users'[user]]
      BY <2>0, <2>2, CreateTypes
    <3>2. \A u \in Users : u # user => users'[u] = users[u]
      BY <2>0, <3>1 DEF Types
    <3> QED
      BY <3>1, <3>2 DEF Admins
  <2> QED
    BY <2>1, <2>2, RowsAreKept
<1> QED
  BY <1>1, AccountsInvariant, PTL DEF Spec, LastAdminGoesOnlyInARace

(* create_user and update_user: a role goes with the staff flag and with    *)
(* the tenant at all times, and a client admin's request reaches nobody     *)
(* outside the admin's own tenant, even when the row changed since it was   *)
(* read.                                                                    *)
THEOREM RolesInBounds == Spec => RolesStayInBounds
<1>1. IInv => StaffHaveNoTenant
  BY DEF IInv, Administered
<1>2. IInv /\ [Next]_vars =>
        [\A h \in Handlers, u \in Users :
           (/\ handler[h].kind = "admin" /\ handler'[h] = Idle /\ handler[h].row.role = "client_admin"
            /\ users'[u] # users[u])
             => users'[u].tenant_id = handler[h].row.tenant_id /\ users'[u].role \in CLIENT_ROLES]_users
  <2> SUFFICES ASSUME IInv, [Next]_vars, NEW h \in Handlers, NEW u \in Users,
                      handler[h].kind = "admin", handler'[h] = Idle, handler[h].row.role = "client_admin",
                      users'[u] # users[u]
               PROVE  users'[u].tenant_id = handler[h].row.tenant_id /\ users'[u].role \in CLIENT_ROLES
    OBVIOUS
  <2>0. Types /\ Administered /\ StaffHaveNoTenant'
    BY IInvNext DEF IInv, Administered
  <2>1. ASSUME NEW k \in Handlers, \/ Write(k)
                                   \/ \E user \in Users, role \in ROLES, tenant \in Tenants \cup {None} :
                                        Create(k, user, role, tenant)
        PROVE  k = h
    <3>1. handler'[h] # handler[h]
      BY ConstantFacts DEF Idle, Kinds
    <3> QED
      BY <2>0, <2>1, <3>1, EndersAfter DEF After
  <2>2. CASE Write(h)
    <3>1. u = handler[h].target /\ users[u] # None
      BY <2>0, <2>2, WriteOnlyItsTarget
    <3>2. users[u].tenant_id = handler[h].row.tenant_id /\ ~users[u].is_staff
      BY <2>0, <2>2, <3>1 DEF Administered, Fits, Write
    <3>3. /\ users'[u] \in User /\ users'[u].is_staff = users[u].is_staff
          /\ users'[u].tenant_id = users[u].tenant_id
      BY <2>0, <2>2, <3>1, WriteIs
    <3>4. users'[u].role \in ROLES /\ users'[u].role \notin STAFF_ROLES
      BY <2>0, <3>2, <3>3, ConstantFacts DEF StaffHaveNoTenant, User
    <3> QED
      BY <3>2, <3>3, <3>4 DEF ROLES
  <2>3. ASSUME NEW user \in Users, NEW role \in ROLES, NEW tenant \in Tenants \cup {None},
               Create(h, user, role, tenant)
        PROVE  users'[u].tenant_id = handler[h].row.tenant_id /\ users'[u].role \in CLIENT_ROLES
    <3>1. /\ users' = [users EXCEPT ![user] = users'[user]] /\ users'[user].role = role
          /\ role \in CLIENT_ROLES /\ users'[user].tenant_id = handler[h].row.tenant_id
      BY <2>0, <2>3, CreateTypes
    <3>2. u = user
      BY <2>0, <3>1 DEF Types
    <3> QED
      BY <3>1, <3>2
  <2> QED
    BY <2>1, <2>2, <2>3, RowsAreKept
<1> QED
  BY <1>1, <1>2, AccountsInvariant, PTL DEF Spec, RolesStayInBounds, ClientAdminStaysHome
=============================================================================
