----------------------------- MODULE EngineRules -----------------------------
(***************************************************************************)
(* What the engine is told: the rules that singbox.Generate                *)
(* (internal/singbox/generate.go) makes of a configuration, the names of   *)
(* other tunnels' gateways that are added to it (vpnhosts_windows.go), and *)
(* the table of fake addresses that outlives the engine                    *)
(* (internal/service/runtime.go, invalidateFakeIPCache).  The engine       *)
(* itself, sing-box, is external: it takes the first rule that matches,    *)
(* and it serves addresses of its table without looking at the range.      *)
(*                                                                         *)
(* A name is a sequence of labels and a label a sequence of pieces, so     *)
(* that a label can end like another one; the engine matches the text of a *)
(* name.  An address is the kind of destination it is.                     *)
(***************************************************************************)
EXTENDS Sequences, SequencesExt, FiniteSets, FiniteSetsExt

CONSTANTS
  Settings,   \* configurations: mode, apps, proxyAll, fakeAll, names, proxy, fakeip
  Processes,  \* programs: exe, dir, and whether the engine can read the path
  Lookups,    \* names that are asked for
  Stores,     \* what VPN clients keep: client, endpoints (host and form), for all users
  Off         \* no engine

FakeRanges == {"198.18.0.0/15", "240.0.0.0/15"}

ASSUME TableAssumption ==
  /\ \A c \in Settings : c.fakeip \in FakeRanges /\ c.mode \in {"allowlist", "blocklist"}
  /\ Off \notin [set : Settings, gates : SUBSET {e.host : e \in UNION {s.endpoints : s \in Stores}}]

Kinds      == {"public", "private", "bypass", "subnet", "proxy"}

VARIABLES
  gen,      \* the fake-ip range in config.json: "none" without the file, "torn" if cut
  table,    \* the ranges of the addresses in cache.db
  runs,     \* what a running engine was built from, or Off
  stuck     \* history: the table could not be removed, or config.json was cut

engineVars == <<gen, table, runs, stuck>>

Hosts(S) == UNION {s.endpoints : s \in S}
RulesOfEngine == [set : Settings, gates : SUBSET {e.host : e \in Hosts(Stores)}]

TableTypeOK ==
  /\ gen \in FakeRanges \cup {"none", "torn"}
  /\ table \subseteq FakeRanges
  /\ runs \in RulesOfEngine \cup {Off}
  /\ stuck \in BOOLEAN

-----------------------------------------------------------------------------
(* Names. *)

\* The stores that can be read: a file of AnyConnect at a time; a tunnel of FortiClient,
\* which may list several endpoints; the phonebook of all users, not a user's own.
CiscoHosts(read) == Hosts({s \in read : s.client = "cisco"})
FortiHosts(read) == Hosts({s \in read : s.client = "forti"})
RasHosts(read)   == Hosts({s \in read : s.client = "ras" /\ s.allUsers})

\* vpnGatewayHosts with hostFromEndpoint: an address or a label is dropped.
Gateways(read) ==
  {e.host : e \in {x \in CiscoHosts(read) \cup FortiHosts(read) \cup RasHosts(read) :
                     x.form = "name"}}

\* The text of a name, or of an entry, which may start with a dot.
Text(n) == FlattenSeq([i \in DOMAIN n |-> IF i = 1 THEN n[i] ELSE <<".">> \o n[i]])

UnderEnd(e) == Text(e.name)  \* mutant: a bare name is an ending of the text

\* splitDomainMatch: a bare entry is itself and everything under it.
Under(e) == <<".">> \o Text(e.name)
DirectExact(entries)  == {Text(e.name) : e \in {x \in entries : ~x.dotted}}
DirectSuffix(entries) == {Under(e) : e \in entries}

\* The entries that are direct: the configuration's own and the gateways.
DirectNames(t) == t.set.names \cup {[name |-> g, dotted |-> FALSE] : g \in t.gates}
IsDirect(t, n) ==
  \/ Text(n) \in DirectExact(DirectNames(t))
  \/ \E s \in DirectSuffix(DirectNames(t)) : IsSuffix(s, Text(n))

-----------------------------------------------------------------------------
(* Programs: an entry of the list is a name, or a path with its directory. *)

\* appNames: matched with process_name, whether or not the path can be read.
AppNames(c) == {a.exe : a \in {x \in c.apps : x.dir = "any"}}
NamedBy(c, p) == p.exe \in AppNames(c)

\* appRegexes: matched with the path.
PathMatches(c, p) ==
  p.readable /\ \E a \in c.apps : a.exe = p.exe /\ a.dir \in {"any", p.dir}

-----------------------------------------------------------------------------
(* Route rules: the condition of each on a connection, in their order. *)

Rule(matches, out) == [matches |-> matches, out |-> out]
When(cond, rules) == IF cond THEN rules ELSE <<>>

\* antiLoopRule
AntiLoop(t, k) ==
  IF t.set.proxy.named THEN k.name = t.set.proxy.host ELSE k.addr = "proxy"

AppRules(t, k) ==
  LET out == IF t.set.mode = "allowlist" THEN "proxy" ELSE "direct"
  IN <<Rule(NamedBy(t.set, k.by), out), Rule(PathMatches(t.set, k.by), out)>>

RouteRules(t, k) ==
  <<Rule(AntiLoop(t, k), "direct"),
    Rule(k.addr = "private", "direct"),
    Rule(IsDirect(t, k.name), "direct"),
    Rule(k.addr = "bypass", "direct"),
    Rule(k.addr = "subnet", "direct")>>
  \o When(~t.set.proxyAll, AppRules(t, k))

Final(c) == IF c.proxyAll \/ c.mode = "blocklist" THEN "proxy" ELSE "direct"

\* The first rule that matches.
FirstOf(rules, otherwise) ==
  LET hits == {i \in DOMAIN rules : rules[i].matches}
  IN IF hits = {} THEN otherwise ELSE rules[Min(hits)].out

Outbound(t, k) == FirstOf(RouteRules(t, k), Final(t.set))

-----------------------------------------------------------------------------
(* DNS rules: a query q is a name, a type and who the engine takes for the asker. *)

\* aaaaDenyRules
AaaaDeny(c, q) ==
  IF c.mode = "allowlist"
  THEN <<Rule(NamedBy(c, q.by) /\ q.type = "AAAA", "reject"),
         Rule(PathMatches(c, q.by) /\ q.type = "AAAA", "reject")>>
  ELSE When(c.apps # {}, <<Rule(~PathMatches(c, q.by) /\ q.type = "AAAA", "reject")>>)

\* Which lookups get a fake address.
FakeRules(c, q) ==
  CASE c.fakeAll -> <<Rule(q.type = "A", "fake")>>
    [] ~c.fakeAll /\ c.proxyAll -> <<>>
    [] ~c.fakeAll /\ ~c.proxyAll /\ c.mode = "allowlist" ->
         <<Rule(NamedBy(c, q.by), "fake"), Rule(PathMatches(c, q.by), "fake")>>
    [] OTHER -> When(c.apps # {}, <<Rule(~PathMatches(c, q.by), "fake")>>)

DnsRules(t, q) ==
  LET c == t.set IN
  <<Rule(IsDirect(t, q.name), "local"),
    Rule(c.proxy.named /\ q.name = c.proxy.host, "local")>>
  \o (IF c.proxyAll \/ c.fakeAll THEN <<Rule(q.type = "AAAA", "reject")>> ELSE AaaaDeny(c, q))
  \o FakeRules(c, q)

Answer(t, q) == FirstOf(DnsRules(t, q), "local")

-----------------------------------------------------------------------------
(* The table, and the steps of superviseLoop that touch it. *)

TableInit == gen = "none" /\ table = {} /\ runs = Off /\ stuck = FALSE

InvalidateByEngine(now, ok) ==  \* mutant: the range is compared with a running engine's
  LET changed == runs # Off /\ runs.set.fakeip # now
  IN [table |-> IF changed /\ ok THEN {} ELSE table, left |-> changed /\ ~ok]

\* invalidateFakeIPCache: what is left of the table, and whether it should not have been.
\* It cannot be removed while an engine that did not stop holds it.
Invalidate(now, ok) ==
  LET changed == gen \in FakeRanges /\ gen # now
  IN [table |-> IF changed /\ ok THEN {} ELSE table, left |-> changed /\ ~ok]

\* From effectiveConfig to the launch: config.json is written and checked; it may be left
\* as it was (also by a crash), be cut short, or be refused by the check.
Build(c, read, removed, outcome) ==
  /\ runs = Off
  /\ LET inv == Invalidate(c.fakeip, removed) IN
     /\ table' = inv.table
     /\ gen' = CASE outcome = "cut" -> "torn"
                 [] outcome = "unwritten" -> gen
                 [] OTHER -> c.fakeip
     /\ stuck' = (inv.table # {} /\ (stuck \/ inv.left \/ outcome = "cut"))
  /\ runs' = IF outcome = "ok" THEN [set |-> c, gates |-> Gateways(read)] ELSE Off

\* The engine gives out an address of its range and keeps it.
Mint ==
  /\ runs # Off
  /\ table' = table \cup {runs.set.fakeip}
  /\ UNCHANGED <<gen, runs, stuck>>

\* A reload, a network change, or the end of the service.
Stops == runs # Off /\ runs' = Off /\ UNCHANGED <<gen, table, stuck>>

TableNext ==
  \/ \E c \in Settings, read \in SUBSET Stores, removed \in BOOLEAN,
        outcome \in {"ok", "refused", "unwritten", "cut"} : Build(c, read, removed, outcome)
  \/ Mint \/ Stops

TableSpec == TableInit /\ [][TableNext]_engineVars

-----------------------------------------------------------------------------
(* fakeipcache_test.go:30-32: "the persisted fake-ip table must not outlive a change of
   the range it was built from, or apps keep being handed addresses nothing routes."
   An engine has no address of another range, across reloads, restarts, refused
   configurations and range changes, unless cache.db could not be removed or
   config.json was cut while there was a table. *)
TableInRange == runs # Off /\ ~stuck => table \subseteq {runs.set.fakeip}

\* What the settings mean: which names an entry covers, which destinations are never
\* proxied, which programs are.
Covers(e, n) == IsSuffix(e.name, n) /\ (e.dotted => n # e.name)
NeverFake(t, n) ==
  \/ \E e \in DirectNames(t) : Covers(e, n)
  \/ t.set.proxy.named /\ n = t.set.proxy.host
NeverProxied(t, k) ==
  \/ NeverFake(t, k.name) \/ k.addr \in {"private", "bypass", "subnet"}
  \/ k.addr = "proxy" /\ ~t.set.proxy.named
OnList(c, p) == \E a \in c.apps : a.exe = p.exe /\ (a.dir = "any" \/ (p.readable /\ a.dir = p.dir))
Proxied(c, p) == c.proxyAll \/ (OnList(c, p) <=> c.mode = "allowlist")

(* Every connection goes where the settings say: the proxy's own address, the direct
   names with the gateways of other tunnels, the bypassed ranges and subnets never to
   the proxy, and the rest by program, also if the engine cannot read its path
   (Generate: the order of the rules and the final outbound). *)
RoutesAsAsked ==
  runs # Off => \A p \in Processes, n \in Lookups, a \in Kinds :
    LET k == [by |-> p, name |-> n, addr |-> a] IN
    Outbound(runs, k) = "proxy" <=> Proxied(runs.set, p) /\ ~NeverProxied(runs, k)

(* A proxied program is never answered with an address that leads around the tunnel:
   no IPv6 address, and, where lookups get fake addresses, no real one; a name that is
   never proxied, nor the proxy's own, never gets a fake one (Generate).  Excepted are
   an empty blocklist and everything-is-proxied without fakeip_all: the code makes no
   fake addresses there, and in the former refuses no IPv6 either. *)
AnswersAsAsked ==
  runs # Off => \A p \in Processes, n \in Lookups :
    LET c == runs.set
        Ans(type) == Answer(runs, [by |-> p, name |-> n, type |-> type])
        bare == ~c.fakeAll /\ c.mode = "blocklist" /\ c.apps = {} /\ ~c.proxyAll
    IN IF NeverFake(runs, n) THEN Ans("A") = "local" /\ Ans("AAAA") = "local"
       ELSE Proxied(c, p) /\ ~bare =>
              Ans("AAAA") = "reject" /\ (c.fakeAll \/ ~c.proxyAll => Ans("A") = "fake")

\* Matching the text of names takes an entry for just the names it covers (splitDomainMatch).
NamesAsListed ==
  runs # Off => \A n \in Lookups : IsDirect(runs, n) <=> \E e \in DirectNames(runs) : Covers(e, n)

(* What an engine built from a configuration routes and answers is what the configuration
   asks for: the parts above together, since a name that is answered with a fake
   address is only as good as the route that address then takes (Generate). *)
RulesAsAsked == NamesAsListed /\ RoutesAsAsked /\ AnswersAsAsked

=============================================================================
