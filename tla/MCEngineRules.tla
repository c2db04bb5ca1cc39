---------------------------- MODULE MCEngineRules ----------------------------
(***************************************************************************)
(* Values for EngineRules: every combination of the modes with three lists *)
(* of apps and three of names, for a proxy by address and by name; lookups *)
(* of a listed name, a name under it, one that ends like it, a suffix, a   *)
(* gateway and the proxy.  A gateway is in a tunnel of all users, and in   *)
(* the phonebook of one, which is out of sight.                            *)
(***************************************************************************)
EXTENDS EngineRules

Kimi == <<<<"kimi">>, <<"com">>>>
Org  == <<<<"org">>>>
Vpn  == <<<<"vpn">>>> \o Org
Px   == <<<<"px">>>> \o Org
MCLookups   == {Kimi, <<<<"gw">>>> \o Kimi, <<<<"not", "kimi">>, <<"com">>>>, Vpn, Px, Org}
MCProcesses == [exe : {"x", "y"}, dir : {"d1", "d2"}, readable : BOOLEAN]
Gateway == [host |-> Vpn, form |-> "name"]
Label   == [host |-> <<<<"px">>>>, form |-> "label"]
MCStores ==
  {[client |-> "cisco", endpoints |-> {Label}, allUsers |-> TRUE],
   [client |-> "forti", endpoints |-> {Gateway, Label}, allUsers |-> TRUE],
   [client |-> "ras", endpoints |-> {Gateway}, allUsers |-> FALSE]}

Entry(n, d) == [name |-> n, dotted |-> d]
App(e, d)   == [exe |-> e, dir |-> d]
MCSettings ==
  [mode : {"allowlist", "blocklist"}, proxyAll : BOOLEAN, fakeAll : BOOLEAN,
   apps : {{}, {App("x", "any")}, {App("x", "d1"), App("y", "any")}},
   names : {{}, {Entry(Kimi, FALSE)}, {Entry(Kimi, TRUE), Entry(Org, TRUE)}},
   proxy : {[named |-> FALSE, host |-> <<>>], [named |-> TRUE, host |-> Px]},
   fakeip : FakeRanges]

=============================================================================
