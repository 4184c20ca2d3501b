--------------------------- MODULE MCAuthentication ---------------------------
(* Model-checking instances of Authentication. *)
EXTENDS Authentication, TLC

CONSTANTS admin, guest, ann, bob, good, bad

MCSha256 == (good :> 1) @@ (bad :> 2) @@ (Empty :> 0)

Account(n, p, role, active) ==
  [username |-> n, password_hash |-> MCSha256[p], role |-> role, is_active |-> active]

\* The account of the first migration, alone or beside a second one.
MCInitTables ==
  {(admin :> Account(ann, good, "admin", TRUE)) @@ (guest :> row) :
     row \in {Nothing, Account(bob, good, "viewer", FALSE)}}

\* An account deactivated, renamed with another password, or demoted.
MCRows == {Account(ann, good, "admin", FALSE), Account(bob, bad, "admin", TRUE),
           Account(ann, good, "viewer", TRUE)}

\* One with a role that its user does not have, one with a name that is not its
\* user's any more, or not yet.
MCOtherTokens == {[sub |-> guest, username |-> bob, role |-> "admin"],
                  [sub |-> admin, username |-> bob, role |-> "admin"]}

Symmetry == Permutations(Clients)
================================================================================
