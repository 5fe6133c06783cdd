------------------------------ MODULE MCAccounts ------------------------------
(***************************************************************************)
(* A small instance of Accounts: two administrators, one of them at the     *)
(* page, and somebody who has no account yet.                               *)
(***************************************************************************)
EXTENDS Accounts, TLC

CONSTANTS a1, a2, n, t1

Row(role, tenant) == [role |-> role, is_staff |-> tenant = None, tenant_id |-> tenant, is_active |-> TRUE]

MCUsers == {a1, a2, n}
MCVisitor == a2
MCTenants == {t1}
MCFirstUsers ==
  a1 :> Row("platform_admin", None) @@ a2 :> Row("platform_admin", None)
    @@ n :> None
HandlerSymmetry == Permutations(Handlers)
=============================================================================
