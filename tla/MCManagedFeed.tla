---------------------------- MODULE MCManagedFeed ----------------------------
(***************************************************************************)
(* A small instance of ManagedFeed: two keys, two bodies (one of them      *)
(* locks a field), a user who may detach, attach without a key or stop     *)
(* checking signatures.                                                    *)
(***************************************************************************)
EXTENDS ManagedFeed

CONSTANTS home, moved, k1, k2, b1, b2, mine

Form(u, s, m, k) == [url |-> u, signed |-> s, merge |-> m, pub |-> k, own |-> mine]
MCForms == {Form(NoUrl, TRUE, "override", k1), Form(home, TRUE, "override", NoKey),
            Form(home, FALSE, "replace", k1)}

MCFirstConfigs ==
  {[url |-> home, signed |-> TRUE, merge |-> "override", pub |-> k1, pending |-> NoKey,
    declined |-> NoKey, own |-> mine, fed |-> NoFeed, locked |-> FALSE]}

NewKey == [url |-> NoUrl, merge |-> "keep", pub |-> k2]
MCMigrations == {NoMigration, NewKey, [url |-> moved, merge |-> "replace", pub |-> NoKey]}
MCFirstServed == [body : {b1}, key : {k1}, mig : MCMigrations]
                   \cup [body : {b2}, key : {k2}, mig : {NoMigration}]

=============================================================================
