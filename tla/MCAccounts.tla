----------------------------- MODULE MCAccounts -----------------------------
(***************************************************************************)
(* Small instances of AccountPages for TLC.                                *)
(***************************************************************************)
EXTENDS AccountPages, TLC

CONSTANTS home, other, ana, bia, cai, dora, r1, r2, r3

\* Ana and Bia are the administrators of one workspace, Dora is the one of
\* another, and Cai has no account yet.
Admin(tenant) == [tenant |-> tenant, role |-> "ADMIN", active |-> TRUE, seen |-> FALSE]
People == ana :> Admin(home) @@ bia :> Admin(home) @@ dora :> Admin(other) @@ cai :> NoUser

Clients ==
  {ToAsk("register", Nobody, cai, "active"),
   ToAsk("login", Nobody, bia, "active"),
   ToAsk("create", bia, cai, "MEMBER"),
   ToAsk("update", bia, ana, "MEMBER"),
   ToAsk("update", bia, bia, "inactive"),
   ToAsk("update", ana, bia, "inactive")}

NobodyOrAna == {Nobody, ana}

Symmetric == Permutations(Requests)

=============================================================================
