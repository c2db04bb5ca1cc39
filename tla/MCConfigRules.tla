---------------------------- MODULE MCConfigRules ----------------------------
(***************************************************************************)
(* Values for ConfigRules: the files that are put in place are a preset    *)
(* that has only the channel, the README's setup for a FakeIP router, the  *)
(* same with one more range in a managed file, and a file that does not    *)
(* load; an operator's profiles are one that forces a switch and lists an  *)
(* app and a name, one that does not, and two that are refused.            *)
(***************************************************************************)
EXTENDS ConfigRules

CONSTANTS udp, ours, theirs, app, net

Preset == [Default EXCEPT !.names = Nil, !.bypass = Nil, !.fakeip = "", !.managed = TRUE]
Recipe == [Default EXCEPT !.addr = "own", !.bypass = LegacyBypass, !.fakeip = Alt]
MCHandWritten ==
  {Preset, Recipe, [Recipe EXCEPT !.bypass = Ranges, !.managed = TRUE],
   [Recipe EXCEPT !.bypass = {Narrow}, !.names = LegacyNames]}

Leave  == [s \in Switches |-> "absent"]
Forced == [Leave EXCEPT ![udp] = "off"]
MCProfiles ==
  {[addr |-> "fed", sw |-> Leave, apps |-> {}, names |-> {}],
   [addr |-> "fed", sw |-> Forced, apps |-> {app, net}, names |-> {theirs}],
   [addr |-> "fed", sw |-> Leave, apps |-> {}, names |-> {BadName}],
   [addr |-> "none", sw |-> Forced, apps |-> {}, names |-> {}]}

MCListed == {app, net, ours, ".msftncsi.com"}

=============================================================================
