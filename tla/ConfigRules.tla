----------------------------- MODULE ConfigRules -----------------------------
(***************************************************************************)
(* What socksit.yaml says, and what becomes of it: the defaults and the    *)
(* migrations of every read and the checks (internal/config), the merge of *)
(* a feed's body (internal/service/configsource_windows.go), the edits of  *)
(* the command line and of the panel, and what the server makes of a       *)
(* profile (internal/configserver/store.go).  A step reads the file and    *)
(* writes it back; that others can write in between, how a fetch travels   *)
(* and what it does to the trusted key is the matter of ManagedFeed.       *)
(*                                                                         *)
(* apps holds apps and direct_subnets, treated alike everywhere; addr      *)
(* stands for everything a feed always carries; prefs for what is the      *)
(* user's alone (log, update, show_tray, proxy_all).                       *)
(***************************************************************************)
EXTENDS FiniteSets

CONSTANTS
  Apps,         \* what is listed: applications, and
  Subnets,      \* ranges that are direct
  Hosts,        \* names that are listed beside the built-in ones
  BadName,      \* an entry that is no name
  Listed,       \* the apps and names that users list or take off
  Switches,     \* switches, as kill_switch and proxy.udp
  Prefs,        \* what the local preferences can be
  Nil,          \* an absent key; no file, no body
  HandWritten,  \* files a user puts in place
  Profiles      \* what an operator submits

States   == {"absent", "on", "off"}
Router   == "198.18.0.0/15"     \* DefaultFakeIPv4 and RouterFakeIPv4
Narrow   == "198.18.0.0/16"     \* a range inside it
Alt      == "240.0.0.0/15"
Loop     == "127.0.0.0/8"       \* stands for the four ranges no one can proxy
Ranges   == {Loop, Router, Narrow}

DefaultBypass == {Loop}
LegacyBypass  == {Router, Loop}
LegacyNames   == {".local"}
DefaultNames  == {".local", ".msftncsi.com"}
Entries         == DefaultNames \cup Hosts \cup {BadName}

Configs ==
  [addr : {"none", "own", "fed"}, sw : [Switches -> States],
   apps : SUBSET Apps, mapps : SUBSET Apps,
   names : (SUBSET Entries) \cup {Nil}, mnames : SUBSET Entries,
   bypass : (SUBSET Ranges) \cup {Nil}, fakeip : {"", Router, Alt}, prefs : Prefs,
   managed : BOOLEAN, merge : {"override", "replace"}, locked : SUBSET Switches]
Feeds == [addr : {"none", "fed"}, sw : [Switches -> States], apps : SUBSET Apps,
           names : SUBSET Entries]

ASSUME RulesAssumption ==
  /\ Subnets \subseteq Apps
  /\ BadName \notin DefaultNames \cup Hosts /\ Prefs # {}
  /\ Nil \notin Configs \cup Feeds
  /\ \A s \in (SUBSET Entries) \cup (SUBSET Ranges) : s # Nil
  /\ HandWritten \subseteq Configs /\ Profiles \subseteq Feeds

VARIABLES
  file,   \* socksit.yaml
  body,   \* what the server publishes
  mine    \* history: the apps and names the user listed

ruleVars == <<file, body, mine>>


RulesTypeOK ==
  /\ file \in Configs \cup {Nil}
  /\ body \in Feeds \cup {Nil}
  /\ mine \in [apps : SUBSET Apps, names : SUBSET Entries]

-----------------------------------------------------------------------------
(* Reading: defaults and migrations, then the checks. *)

Default ==
  [addr |-> "none", sw |-> [s \in Switches |-> "on"], apps |-> {}, mapps |-> {},
   names |-> DefaultNames, mnames |-> {}, bypass |-> DefaultBypass, fakeip |-> Router,
   prefs |-> CHOOSE p \in Prefs : TRUE, managed |-> FALSE, merge |-> "override",
   locked |-> {}]

MigratedTwice(c) ==  \* mutant: only the bypass list is taken back
  CASE c.fakeip = "" -> [c EXCEPT !.fakeip = Router]
    [] c.fakeip = Alt /\ c.bypass = LegacyBypass -> [c EXCEPT !.bypass = DefaultBypass]
    [] c.fakeip = Alt /\ Router \notin c.bypass -> [c EXCEPT !.fakeip = Router]
    [] OTHER -> c

\* The fake-ip range that two releases wrote is taken back, together with the bypass
\* list they wrote; with another list only if the router's range is not on it.
Migrated(c) ==
  CASE c.fakeip = "" -> [c EXCEPT !.fakeip = Router]
    [] c.fakeip = Alt /\ c.bypass = LegacyBypass ->
         [c EXCEPT !.fakeip = Router, !.bypass = DefaultBypass]
    [] c.fakeip = Alt /\ Router \notin c.bypass -> [c EXCEPT !.fakeip = Router]
    [] OTHER -> c

\* applyDefaults (and so ParseLenient)
Defaulted(c) ==
  Migrated([c EXCEPT !.names = IF @ \in {Nil, LegacyNames} THEN DefaultNames ELSE @,
                     !.bypass = IF @ = Nil THEN DefaultBypass ELSE @])

Overlap(r, s) == r = s \/ {r, s} = {Router, Narrow}

Valid(c) ==
  /\ c.addr = "none" => c.managed
  /\ BadName \notin c.names \cup c.mnames
  /\ \A r \in c.bypass : ~Overlap(c.fakeip, r)

Loads(c) == c # Nil /\ Valid(Defaulted(c))

\* EffectiveDirectDomains: the names of an override feed count with the user's own.
Effective(c) == IF c.managed /\ c.merge = "override" THEN c.names \cup c.mnames ELSE c.names

\* DemoteIfUnmanaged
Demoted(c) == [c EXCEPT !.mapps = {}, !.mnames = {}, !.locked = {}]
HasRemnants(c) == ~c.managed /\ Demoted(c) # c

-----------------------------------------------------------------------------
(* What a body makes of a file. *)

Carries(b) == {s \in Switches : b.sw[s] # "absent"}

OverriddenUnion(c, b) ==  \* mutant: the lists are put together
  [c EXCEPT !.addr = b.addr, !.apps = @ \cup b.apps, !.mapps = b.apps,
            !.sw = [s \in Switches |-> IF s \in Carries(b) THEN b.sw[s] ELSE c.sw[s]],
            !.mnames = IF b.names = {} THEN @ ELSE b.names]

\* mergeManagedConfig: what the body leaves out stays, and its lists are kept apart.
Overridden(c, b) ==
  [c EXCEPT !.addr = b.addr,
            !.sw = [s \in Switches |-> IF s \in Carries(b) THEN b.sw[s] ELSE c.sw[s]],
            !.mapps = b.apps,
            !.mnames = IF b.names = {} THEN @ ELSE b.names]

\* The body by itself, with the local policy.
Replaced(c, b) ==
  [c EXCEPT !.addr = b.addr, !.sw = b.sw, !.apps = b.apps, !.mapps = {},
            !.names = IF b.names = {} THEN Nil ELSE b.names, !.mnames = {},
            !.bypass = Nil, !.fakeip = ""]

KeepLocalNames(new, c, b) ==  \* mutant: the bypass list is the feed's
  [new EXCEPT !.names = IF b.names = {} THEN c.names ELSE @]

\* keepLocalNetworkFacts
KeepLocal(new, c, b) ==
  [new EXCEPT !.bypass = c.bypass, !.names = IF b.names = {} THEN c.names ELSE @]

FetchedEarly(c, b) ==  \* mutant: the last check comes before the local facts
  LET new  == Defaulted(IF c.merge = "override" THEN Overridden(c, b) ELSE Replaced(c, b))
  IN IF Valid(new) THEN [KeepLocal(new, c, b) EXCEPT !.locked = Carries(b)] ELSE Nil

\* fetchConfig after the body has been vouched for: the new file, or Nil if refused.
Fetched(c, b) ==
  LET new  == Defaulted(IF c.merge = "override" THEN Overridden(c, b) ELSE Replaced(c, b))
      kept == [KeepLocal(new, c, b) EXCEPT !.locked = Carries(b)]
  IN IF Valid(new) /\ Valid(kept) THEN kept ELSE Nil

\* SaveProfile: checked as a client's configuration with the defaults of one.
ToConfig(p) == [Default EXCEPT !.addr = p.addr, !.apps = p.apps, !.names = p.names]
PublishableAddressed(p) == p.addr # "none"  \* mutant: the client's checks are left to it
Publishable(p) == Valid(ToConfig(p))

-----------------------------------------------------------------------------
RulesInit ==
  /\ file = Nil /\ body = Nil
  /\ mine = [apps |-> Default.apps, names |-> Default.names]

Publish(p) ==
  /\ Publishable(p)
  /\ body' = p
  /\ UNCHANGED <<file, mine>>

\* ensureFirstRunConfig
FirstRun ==
  /\ file = Nil
  /\ file' = Default
  /\ UNCHANGED <<body, mine>>

\* effectiveConfig: a file that has left the channel is rewritten without its remnants.
Normalize ==
  /\ Loads(file) /\ HasRemnants(Defaulted(file))
  /\ file' = Demoted(Defaulted(file))
  /\ UNCHANGED <<body, mine>>

Fetch ==
  /\ file # Nil /\ body # Nil
  /\ LET c == Defaulted(file) IN
     /\ c.managed
     /\ Fetched(c, body) \notin {Nil, c}
     /\ file' = Fetched(c, body)
     /\ mine' = IF c.merge = "override" THEN mine
                ELSE [apps |-> body.apps,
                      names |-> IF body.names = {} THEN mine.names ELSE body.names]
  /\ UNCHANGED body

\* A file is written by hand, by an installer or with config apply -c.
ByHand(c) ==
  /\ file' = c
  /\ mine' = [apps |-> c.apps, names |-> Defaulted(c).names]
  /\ UNCHANGED body

\* The service checks the text and writes it as it is, unless it has left the channel;
\* without the service the caller writes the file.
Stored(c) == IF HasRemnants(Defaulted(c)) THEN Demoted(Defaulted(c)) ELSE c
Persist(c) == Loads(c) /\ (file' = Stored(c) \/ file' = c)

\* editConfig: a command puts c in place of the file as it is read, or, most of them, says
\* that there is no change.
Read == Defaulted(file)
Edit(c, own) ==
  /\ file # Nil /\ Persist(c)
  /\ mine' = own
  /\ UNCHANGED body
EditIfNew(c, own) == file # Nil /\ c # Read /\ Edit(c, own)

AppAdd(a) ==
  EditIfNew([Read EXCEPT !.apps = @ \cup {a}], [mine EXCEPT !.apps = @ \cup {a}])
AppRm(a) ==
  EditIfNew([Read EXCEPT !.apps = @ \ {a}], [mine EXCEPT !.apps = @ \ {a}])
SubnetAdd(n) ==
  EditIfNew([Read EXCEPT !.apps = @ \cup {n}], [mine EXCEPT !.apps = @ \cup {n}])
SubnetRm(n) ==
  EditIfNew([Read EXCEPT !.apps = @ \ {n}], [mine EXCEPT !.apps = @ \ {n}])
BypassAdd(r) == EditIfNew([Read EXCEPT !.bypass = @ \cup {r}], mine)
BypassRm(r)  == EditIfNew([Read EXCEPT !.bypass = @ \ {r}], mine)
BypassReset  == Edit([Read EXCEPT !.bypass = DefaultBypass], mine)
DomainAdd(n) ==
  /\ file # Nil /\ n \notin Effective(Read)
  /\ Edit([Read EXCEPT !.names = Effective(Read) \cup {n}], [mine EXCEPT !.names = @ \cup {n}])
DomainRm(n) ==
  /\ file # Nil /\ n \in Effective(Read)
  /\ Edit([Read EXCEPT !.names = Effective(Read) \ {n}], [mine EXCEPT !.names = @ \ {n}])
DomainReset ==
  Edit([Read EXCEPT !.names = DefaultNames], [mine EXCEPT !.names = DefaultNames])
LogLevel(p) == EditIfNew([Read EXCEPT !.prefs = p], mine)

\* What the panel reads; without a file it starts from the defaults.
PanelReads == IF file = Nil THEN Default ELSE Defaulted(file)

\* getConfig: what the form shows; a switch that is absent is on.
Shown(c) ==
  [apps |-> c.apps, names |-> Effective(c), mine |-> mine,
   sw |-> [s \in Switches |-> IF c.sw[s] = "off" THEN "off" ELSE "on"]]

\* The user changes an app, a name or a switch that is not locked, or nothing.
Toggled(S, e) == IF e \in S THEN S \ {e} ELSE S \cup {e}
Filled(f, locked) ==
  {f}
    \cup {[f EXCEPT !.apps = Toggled(@, a), !.mine.apps = Toggled(@, a)] :
             a \in Apps \cap Listed}
    \cup {[f EXCEPT !.names = Toggled(@, n), !.mine.names = Toggled(@, n)] :
             n \in Entries \cap Listed}
    \cup {[f EXCEPT !.sw[s] = IF @ = "on" THEN "off" ELSE "on"] : s \in Switches \ locked}

\* saveConfig: the form over what the file says.
PanelSaves(f, addr, managed, merge) ==
  /\ Persist([PanelReads EXCEPT !.addr = addr, !.sw = f.sw, !.apps = f.apps, !.names = f.names,
                             !.managed = managed, !.merge = merge])
  /\ mine' = f.mine
  /\ UNCHANGED body

\* saveUpdate, and the answers to a key rotation: only what is the user's own changes.
PanelSets(p) ==
  /\ Persist([PanelReads EXCEPT !.prefs = p])
  /\ UNCHANGED <<body, mine>>

RulesNext ==
  \/ \E p \in Profiles : Publish(p)
  \/ FirstRun \/ Normalize \/ Fetch
  \/ \E c \in HandWritten : ByHand(c)
  \/ \E a \in (Apps \cap Listed) \ Subnets : AppAdd(a) \/ AppRm(a)
  \/ \E n \in Subnets \cap Listed : SubnetAdd(n) \/ SubnetRm(n)
  \/ \E r \in Ranges : BypassAdd(r) \/ BypassRm(r)
  \/ BypassReset
  \/ \E n \in Entries \cap Listed : DomainAdd(n) \/ DomainRm(n)
  \/ DomainReset
  \/ \E p \in Prefs : LogLevel(p) \/ PanelSets(p)
  \/ \E f \in Filled(Shown(PanelReads), PanelReads.locked), addr \in {"own", PanelReads.addr},
        managed \in BOOLEAN, merge \in {"override", "replace"} :
       PanelSaves(f, addr, managed, merge)

RulesSpec == RulesInit /\ [][RulesNext]_ruleVars

-----------------------------------------------------------------------------
(* A file is read with the same result however often it has been read and written
   back (applyDefaults): a second pass of the migrations changes nothing, so no
   rewrite moves the fake-ip range or the bypass list once more. *)
ReadsSettle == file # Nil => Defaulted(Defaulted(file)) = Defaulted(file)

(* A body the server accepted is never refused by a managed client in override mode
   whose own file loads (SaveProfile's check against fetchConfig's checks): an
   operator's mistake stops at the server and not at every client. *)
FeedIsTaken ==
  body # Nil /\ Loads(file) /\ Defaulted(file).managed /\ Defaulted(file).merge = "override"
    => Fetched(Defaulted(file), body) # Nil

(* The user's own list of apps is what the user listed: no feed in override mode, no
   save of the panel and no command moves an app of the feed into it, so what the feed
   drops is gone (mergeManagedConfig, getConfig, editConfig). *)
OwnApps == file # Nil => file.apps = mine.apps

(* A step of the program never turns a file that loads into one that does not: the
   checks come after the last change (fetchConfig, editConfig, saveConfig, SetConfig). *)
KeepsLoading ==
  [][Loads(file) /\ ~Loads(file') => \E c \in HandWritten : ByHand(c)]_ruleVars

(* A fetch leaves what is about this machine: the bypass list, the preferences, the
   names unless the body has some, and in override mode the fake-ip range and the
   switches the body leaves out (keepLocalNetworkFacts, deepMerge). *)
LocalFactsStay ==
  [][Fetch =>
       LET old == Defaulted(file) IN
       /\ file'.bypass = old.bypass /\ file'.prefs = old.prefs
       /\ (body.names = {} \/ old.merge = "override") => file'.names = old.names
       /\ old.merge = "override" =>
            /\ file'.fakeip = old.fakeip
            /\ \A s \in Switches \ file'.locked : file'.sw[s] = old.sw[s]]_ruleVars

(* schema.go:111-113: "Kept separate from the user's own list so clearing the field on
   the server clears exactly the feed's contribution."  The user's own list has the
   names the user listed and built-in ones. *)
OwnNames == file # Nil => Defaulted(file).names \subseteq mine.names \cup DefaultNames

=============================================================================
