-------------------------- MODULE EngineSide_proofs --------------------------
(***************************************************************************)
(* Proofs about what surrounds the engine: EngineRules, its rules and its  *)
(* table of fake addresses, for any settings; TrayKeeper, for any number   *)
(* of processes; and the types of MCEngine, which puts them beside the     *)
(* supervisor and the watch over its way out.                              *)
(***************************************************************************)
EXTENDS MCEngine, EngineSupervisor_proofs, EgressWatch_proofs, SequenceTheorems, TLAPS

-----------------------------------------------------------------------------
(* The table of fake addresses.  What decides whether it is kept is the range in config.json,
   which is also that of the engine that runs. *)

\* Unless the table could not be removed, its addresses are of the range in config.json.
TableFitsFile == ~stuck => table \subseteq {gen} \cap FakeRanges

\* A running engine was built from the config.json that is there.
FileIsOfEngine == runs # Off => gen = runs.set.fakeip

TableInv == TableTypeOK /\ TableFitsFile /\ FileIsOfEngine

\* A generated configuration is made of the settings and of gateways that were read
\* (superviseLoop's call of Generate, vpnGatewayHosts).
LEMMA GeneratedType ==
  ASSUME NEW c \in Settings, NEW read \in SUBSET Stores
  PROVE  [set |-> c, gates |-> Gateways(read)] \in RulesOfEngine
<1>1. Gateways(read) \subseteq {e.host : e \in Hosts(Stores)}
  BY DEF Gateways, CiscoHosts, FortiHosts, RasHosts, Hosts
<1> QED
  BY <1>1 DEF RulesOfEngine

\* Building an engine keeps the table in step with config.json, whatever fails on the way
\* (invalidateFakeIPCache, superviseLoop).
LEMMA BuildKeepsTable ==
  ASSUME TableInv, NEW c \in Settings, NEW read \in SUBSET Stores, NEW removed \in BOOLEAN,
         NEW outcome \in {"ok", "refused", "unwritten", "cut"}, Build(c, read, removed, outcome)
  PROVE  TableInv'
<1> DEFINE changed == gen \in FakeRanges /\ gen # c.fakeip
           kept    == IF changed /\ removed THEN {} ELSE table
<1>1. c.fakeip \in FakeRanges
  BY TableAssumption
<1>2. /\ table' = kept
      /\ gen' = IF outcome = "cut" THEN "torn" ELSE IF outcome = "unwritten" THEN gen ELSE c.fakeip
      /\ stuck' = (kept # {} /\ (stuck \/ (changed /\ ~removed) \/ outcome = "cut"))
      /\ runs' = IF outcome = "ok" THEN [set |-> c, gates |-> Gateways(read)] ELSE Off
  BY DEF Build, Invalidate
<1>3. TableTypeOK'
  <2>1. runs' \in RulesOfEngine \cup {Off}
    BY <1>2, GeneratedType
  <2>2. gen' \in FakeRanges \cup {"none", "torn"} /\ table' \subseteq FakeRanges
    BY <1>1, <1>2 DEF TableInv, TableTypeOK
  <2> QED
    BY <1>2, <2>1, <2>2 DEF TableTypeOK
<1>4. FileIsOfEngine'
  BY <1>2 DEF FileIsOfEngine
<1>5. TableFitsFile'
  <2> SUFFICES ASSUME ~stuck', table' # {} PROVE table' \subseteq {gen'} \cap FakeRanges
    BY DEF TableFitsFile
  <2>1. table' = table /\ ~stuck /\ ~changed /\ outcome # "cut"
    BY <1>2
  <2>2. table \subseteq {gen} \cap FakeRanges /\ gen \in FakeRanges
    BY <2>1 DEF TableInv, TableFitsFile
  <2>3. gen' = gen
    BY <1>2, <2>1, <2>2
  <2> QED
    BY <2>1, <2>2, <2>3
<1> QED
  BY <1>3, <1>4, <1>5 DEF TableInv

\* Every step of the loop and the engine keeps the invariant.
LEMMA TableStep == TableInv /\ [TableNext]_engineVars => TableInv'
<1> SUFFICES ASSUME TableInv, [TableNext]_engineVars PROVE TableInv'
  OBVIOUS
<1>1. ASSUME NEW c \in Settings, NEW read \in SUBSET Stores, NEW removed \in BOOLEAN,
             NEW outcome \in {"ok", "refused", "unwritten", "cut"}, Build(c, read, removed, outcome)
      PROVE  TableInv'
  BY <1>1, BuildKeepsTable
<1>2. CASE Mint
  <2>1. runs.set.fakeip = gen /\ gen \in FakeRanges
    BY <1>2, TableAssumption DEF Mint, TableInv, FileIsOfEngine, TableTypeOK, RulesOfEngine
  <2>2. table' = table \cup {gen} /\ UNCHANGED <<gen, runs, stuck>>
    BY <1>2, <2>1 DEF Mint
  <2> QED
    BY <2>1, <2>2 DEF TableInv, TableTypeOK, TableFitsFile, FileIsOfEngine
<1>3. CASE Stops
  BY <1>3 DEF Stops, TableInv, TableTypeOK, TableFitsFile, FileIsOfEngine
<1>4. CASE UNCHANGED engineVars
  BY <1>4 DEF engineVars, TableInv, TableTypeOK, TableFitsFile, FileIsOfEngine
<1> QED
  BY <1>1, <1>2, <1>3, <1>4 DEF TableNext

\* There is no table and no config.json yet.
LEMMA TableStart == TableInit => TableInv
BY DEF TableInit, TableInv, TableTypeOK, TableFitsFile, FileIsOfEngine

\* The table and config.json stay in step (runtime.go, invalidateFakeIPCache), and their types
\* are kept: the inductive form of TableInRange.
THEOREM TableFollowsFile == TableSpec => []TableInv
BY TableStart, TableStep, PTL DEF TableSpec

\* An engine has no address of another range than its own (fakeipcache_test.go:30-32), for
\* any sequence of reloads, refused configurations and range changes.
THEOREM TableStaysInRange == TableSpec => []TableInRange
<1>1. TableInv => TableInRange
  BY DEF TableInv, TableFitsFile, FileIsOfEngine, TableInRange
<1> QED
  BY <1>1, TableFollowsFile, PTL

-----------------------------------------------------------------------------
(* The rules.  A list of rules is as good as what its first match says; two lists in a row
   decide one after the other. *)

\* A rule is a condition and what becomes of what it matches.
Rules == [matches : BOOLEAN, out : {"proxy", "direct", "local", "fake", "reject"}]

\* A rule made of a condition.
LEMMA RuleIs ==
  ASSUME NEW P \in BOOLEAN, NEW out \in {"proxy", "direct", "local", "fake", "reject"}
  PROVE  Rule(P, out) \in Rules /\ (Rule(P, out).matches <=> P) /\ Rule(P, out).out = out
BY DEF Rule, Rules

\* A rule that matches, with none before it that does, decides.
LEMMA FirstHit ==
  ASSUME NEW rules \in Seq(Rules), NEW o, NEW i \in 1..Len(rules), rules[i].matches,
         \A j \in 1..Len(rules) : rules[j].matches => i <= j
  PROVE  FirstOf(rules, o) = rules[i].out
<1> DEFINE hits == {j \in DOMAIN rules : rules[j].matches}
<1>1. i \in hits /\ \A j \in hits : i <= j /\ j \in Int
  OBVIOUS
<1>2. Min(hits) = i
  BY <1>1 DEF Min
<1> QED
  BY <1>1, <1>2 DEF FirstOf

\* Where none matches it is what remains.
LEMMA NoHit ==
  ASSUME NEW rules \in Seq(Rules), NEW o, \A j \in 1..Len(rules) : ~rules[j].matches
  PROVE  FirstOf(rules, o) = o
BY DEF FirstOf

\* Of seven numbers some there is a least.
LEMMA LeastOf ==
  ASSUME NEW S, S \subseteq 1..7, S # {}
  PROVE  \E i \in S : \A j \in S : i <= j
<1>1. PICK x \in S : TRUE
  OBVIOUS
<1>2. CASE 1 \in S
  BY <1>2
<1>3. CASE 1 \notin S /\ 2 \in S
  BY <1>3
<1>4. CASE 1 \notin S /\ 2 \notin S /\ 3 \in S
  BY <1>4
<1>5. CASE 1 \notin S /\ 2 \notin S /\ 3 \notin S /\ 4 \in S
  BY <1>5
<1>6. CASE 1 \notin S /\ 2 \notin S /\ 3 \notin S /\ 4 \notin S /\ 5 \in S
  BY <1>6
<1>7. CASE 1 \notin S /\ 2 \notin S /\ 3 \notin S /\ 4 \notin S /\ 5 \notin S
  BY <1>1, <1>7
<1> QED
  BY <1>2, <1>3, <1>4, <1>5, <1>6, <1>7

\* The rules of two lists decide one after the other.
LEMMA InTurn ==
  ASSUME NEW s \in Seq(Rules), NEW t \in Seq(Rules), Len(s) + Len(t) <= 7, NEW o
  PROVE  s \o t \in Seq(Rules) /\ FirstOf(s \o t, o) = FirstOf(s, FirstOf(t, o))
<1> DEFINE u == s \o t
           Hits(r) == {i \in 1..Len(r) : r[i].matches}
<1>1. /\ u \in Seq(Rules) /\ Len(u) = Len(s) + Len(t) /\ Len(s) \in Nat /\ Len(t) \in Nat
      /\ \A i \in 1..Len(u) : u[i] = IF i <= Len(s) THEN s[i] ELSE t[i - Len(s)]
  BY ConcatProperties
<1> SUFFICES FirstOf(u, o) = FirstOf(s, FirstOf(t, o))
  BY <1>1
<1>2. \A i \in 1..Len(s) : i \in 1..Len(u) /\ u[i] = s[i]
  BY <1>1
<1>3. \A i \in 1..Len(t) : Len(s) + i \in 1..Len(u) /\ u[Len(s) + i] = t[i]
  BY <1>1
<1>4. \A i \in 1..Len(u) : i \in 1..Len(s) \/ \E j \in 1..Len(t) : i = Len(s) + j
  <2> SUFFICES ASSUME NEW i \in 1..Len(u), i \notin 1..Len(s)
               PROVE  i - Len(s) \in 1..Len(t) /\ i = Len(s) + (i - Len(s))
    OBVIOUS
  <2> QED
    BY <1>1
<1> HIDE DEF u
<1>a. Len(s) \in 0..7 /\ Len(t) \in 0..7
  <2>1. \A m, n \in Nat : m + n <= 7 => m \in 0..7 /\ n \in 0..7
    OBVIOUS
  <2> QED
    BY <1>1, <2>1
<1>b. Hits(s) \subseteq 1..7 /\ Hits(t) \subseteq 1..7
  <2>1. \A n \in 0..7 : 1..n \subseteq 1..7
    OBVIOUS
  <2>2. Hits(s) \subseteq 1..Len(s) /\ Hits(t) \subseteq 1..Len(t)
    OBVIOUS
  <2> QED
    BY <1>a, <2>1, <2>2
<1>5. CASE Hits(s) # {}
  <2>1. PICK i \in 1..Len(s) : s[i].matches /\ \A j \in 1..Len(s) : s[j].matches => i <= j
    <3>1. Hits(s) \subseteq 1..7
      BY <1>b
    <3>2. PICK i \in Hits(s) : \A j \in Hits(s) : i <= j
      BY <1>5, <3>1, LeastOf
    <3> QED
      BY <3>2
  <2>2. FirstOf(s, FirstOf(t, o)) = s[i].out
    BY <2>1, FirstHit
  <2>3. i \in 1..Len(u) /\ u[i].matches /\ \A j \in 1..Len(u) : u[j].matches => i <= j
    <3>1. i \in 1..Len(u) /\ u[i].matches
      BY <1>2, <2>1
    <3>2. ASSUME NEW j \in 1..Len(u), u[j].matches PROVE i <= j
      <4>1. CASE j \in 1..Len(s)
        BY <1>2, <2>1, <3>2, <4>1
      <4>2. CASE j \notin 1..Len(s)
        <5>1. PICK l \in 1..Len(t) : j = Len(s) + l
          BY <1>4, <4>2
        <5> QED
          BY <1>1, <5>1
      <4> QED
        BY <4>1, <4>2
    <3> QED
      BY <3>1, <3>2
  <2>4. FirstOf(u, o) = u[i].out
    BY <1>1, <2>3, FirstHit
  <2> QED
    BY <1>2, <2>2, <2>4
<1>6. CASE Hits(s) = {} /\ Hits(t) # {}
  <2>1. PICK i \in 1..Len(t) : t[i].matches /\ \A j \in 1..Len(t) : t[j].matches => i <= j
    <3>1. Hits(t) \subseteq 1..7
      BY <1>b
    <3>2. PICK i \in Hits(t) : \A j \in Hits(t) : i <= j
      BY <1>6, <3>1, LeastOf
    <3> QED
      BY <3>2
  <2>2. FirstOf(t, o) = t[i].out /\ FirstOf(s, FirstOf(t, o)) = FirstOf(t, o)
    <3>1. FirstOf(t, o) = t[i].out
      BY <2>1, FirstHit
    <3>2. \A j \in 1..Len(s) : ~s[j].matches
      BY <1>6
    <3>3. FirstOf(s, FirstOf(t, o)) = FirstOf(t, o)
      BY <3>2, NoHit
    <3> QED
      BY <3>1, <3>3
  <2> DEFINE k == Len(s) + i
  <2>3. k \in 1..Len(u) /\ u[k].matches /\ \A j \in 1..Len(u) : u[j].matches => k <= j
    <3>1. k \in 1..Len(u) /\ u[k] = t[i]
      BY <1>3
    <3>2. ASSUME NEW j \in 1..Len(u), u[j].matches PROVE k <= j
      <4>1. j \notin 1..Len(s)
        BY <1>2, <1>6, <3>2
      <4>2. PICK l \in 1..Len(t) : j = Len(s) + l
        BY <1>4, <4>1
      <4>3. t[l].matches
        BY <1>3, <3>2, <4>2
      <4> QED
        BY <1>1, <2>1, <4>2, <4>3
    <3> QED
      BY <2>1, <3>1, <3>2
  <2> HIDE DEF k
  <2>4. FirstOf(u, o) = u[k].out
    BY <1>1, <2>3, FirstHit
  <2> QED
    BY <1>3, <2>2, <2>4 DEF k
<1>7. CASE Hits(s) = {} /\ Hits(t) = {}
  <2>1. FirstOf(t, o) = o /\ FirstOf(s, FirstOf(t, o)) = FirstOf(t, o)
    <3>1. (\A j \in 1..Len(s) : ~s[j].matches) /\ \A j \in 1..Len(t) : ~t[j].matches
      BY <1>7
    <3> QED
      BY <3>1, NoHit
  <2>2. ASSUME NEW j \in 1..Len(u) PROVE ~u[j].matches
    <3>1. CASE j \in 1..Len(s)
      BY <1>2, <1>7, <3>1
    <3>2. CASE j \notin 1..Len(s)
      <4>1. PICK l \in 1..Len(t) : j = Len(s) + l
        BY <1>4, <3>2
      <4>2. u[j] = t[l] /\ ~t[l].matches
        BY <1>3, <1>7, <4>1
      <4> QED
        BY <4>2
    <3> QED
      BY <3>1, <3>2
  <2> QED
    BY <1>1, <2>1, <2>2, NoHit
<1> QED
  BY <1>5, <1>6, <1>7

\* No rule.
LEMMA NoRule == ASSUME NEW o PROVE <<>> \in Seq(Rules) /\ Len(<<>>) = 0 /\ FirstOf(<<>>, o) = o
<1> DEFINE r == <<>>
<1>1. r \in Seq(Rules) /\ Len(r) = 0 /\ 1..Len(r) = {}
  OBVIOUS
<1> HIDE DEF r
<1>2. FirstOf(r, o) = o
  BY <1>1, NoHit
<1> QED
  BY <1>1, <1>2 DEF r

\* One rule.
LEMMA OneRule ==
  ASSUME NEW a \in Rules, NEW o
  PROVE  /\ <<a>> \in Seq(Rules) /\ Len(<<a>>) = 1
         /\ FirstOf(<<a>>, o) = IF a.matches THEN a.out ELSE o
<1> DEFINE r == <<a>>
<1>1. r \in Seq(Rules) /\ Len(r) = 1 /\ 1..Len(r) = {1} /\ r[1] = a
  OBVIOUS
<1> HIDE DEF r
<1>2. CASE a.matches
  <2>1. FirstOf(r, o) = r[1].out
    BY <1>1, <1>2, FirstHit
  <2> QED
    BY <1>1, <1>2, <2>1 DEF r
<1>3. CASE ~a.matches
  <2>1. FirstOf(r, o) = o
    BY <1>1, <1>3, NoHit
  <2> QED
    BY <1>1, <1>3, <2>1 DEF r
<1> QED
  BY <1>2, <1>3

\* Two rules.
LEMMA TwoRules ==
  ASSUME NEW a \in Rules, NEW b \in Rules, NEW o
  PROVE  /\ <<a, b>> \in Seq(Rules) /\ Len(<<a, b>>) = 2
         /\ FirstOf(<<a, b>>, o) = IF a.matches THEN a.out ELSE IF b.matches THEN b.out ELSE o
<1> DEFINE r == <<a, b>>
<1>1. r \in Seq(Rules) /\ Len(r) = 2 /\ 1..Len(r) = {1, 2} /\ r[1] = a /\ r[2] = b
  OBVIOUS
<1> HIDE DEF r
<1>2. a.matches => FirstOf(r, o) = r[1].out
  BY <1>1, FirstHit
<1>3. ~a.matches /\ b.matches => FirstOf(r, o) = r[2].out
  BY <1>1, FirstHit
<1>4. ~a.matches /\ ~b.matches => FirstOf(r, o) = o
  BY <1>1, NoHit
<1> QED
  BY <1>1, <1>2, <1>3, <1>4 DEF r

\* Five rules to the same end, such as those that keep a connection out of the tunnel.
LEMMA FiveRules ==
  ASSUME NEW a \in Rules, NEW b \in Rules, NEW c \in Rules, NEW d \in Rules, NEW e \in Rules, NEW o,
         a.out = b.out, a.out = c.out, a.out = d.out, a.out = e.out
  PROVE  LET r == <<a, b, c, d, e>> IN
         /\ r \in Seq(Rules) /\ Len(r) = 5
         /\ FirstOf(r, o) = IF a.matches \/ b.matches \/ c.matches \/ d.matches \/ e.matches
                            THEN a.out ELSE o
<1> DEFINE r == <<a, b, c, d, e>>
           S == {i \in 1..5 : r[i].matches}
<1>1. /\ r \in Seq(Rules) /\ Len(r) = 5 /\ 1..Len(r) = {1, 2, 3, 4, 5}
      /\ r[1] = a /\ r[2] = b /\ r[3] = c /\ r[4] = d /\ r[5] = e
  OBVIOUS
<1> HIDE DEF r
<1>2. CASE S # {}
  <2>1. S \subseteq 1..7
    OBVIOUS
  <2>2. PICK i \in S : \A j \in S : i <= j
    BY <1>2, <2>1, LeastOf
  <2>3. FirstOf(r, o) = r[i].out
    <3>1. i \in 1..Len(r) /\ r[i].matches
      BY <1>1, <2>2
    <3>2. \A j \in 1..Len(r) : r[j].matches => i <= j
      BY <1>1, <2>2
    <3> QED
      BY <1>1, <3>1, <3>2, FirstHit
  <2>4. i \in {1, 2, 3, 4, 5} /\ r[i].matches
    BY <2>2
  <2>5. r[i].out = a.out /\ (a.matches \/ b.matches \/ c.matches \/ d.matches \/ e.matches)
    BY <1>1, <2>4
  <2> QED
    BY <1>1, <2>3, <2>5 DEF r
<1>3. CASE S = {}
  <2>1. FirstOf(r, o) = o
    BY <1>1, <1>3, NoHit
  <2> QED
    BY <1>1, <1>3, <2>1 DEF r
<1> QED
  BY <1>2, <1>3

\* The engine matches the text of names.  That the text of an entry, or its ending, is that
\* of just the names the entry covers is a fact about sequences of labels, which needs an
\* induction over them; the theorem below is about the rules and takes it as given.
NamesAreRead ==
  \A t \in RulesOfEngine, n \in Lookups :
    IsDirect(t, n) <=> \E e \in DirectNames(t) : Covers(e, n)

\* Where a connection goes.
LEMMA OutboundIs ==
  ASSUME NEW t \in RulesOfEngine, NEW k
  PROVE  Outbound(t, k) =
           IF \/ AntiLoop(t, k) \/ k.addr = "private" \/ IsDirect(t, k.name)
              \/ k.addr = "bypass" \/ k.addr = "subnet"
           THEN "direct"
           ELSE IF ~t.set.proxyAll /\ (NamedBy(t.set, k.by) \/ PathMatches(t.set, k.by))
                THEN IF t.set.mode = "allowlist" THEN "proxy" ELSE "direct"
                ELSE Final(t.set)
<1> DEFINE five == <<Rule(AntiLoop(t, k), "direct"), Rule(k.addr = "private", "direct"),
                     Rule(IsDirect(t, k.name), "direct"), Rule(k.addr = "bypass", "direct"),
                     Rule(k.addr = "subnet", "direct")>>
           apps == When(~t.set.proxyAll, AppRules(t, k))
           Skip == \/ AntiLoop(t, k) \/ k.addr = "private" \/ IsDirect(t, k.name)
                   \/ k.addr = "bypass" \/ k.addr = "subnet"
           out  == IF t.set.mode = "allowlist" THEN "proxy" ELSE "direct"
           Left == FirstOf(apps, Final(t.set))
<1>1. five \in Seq(Rules) /\ Len(five) = 5 /\ FirstOf(five, Left) = IF Skip THEN "direct" ELSE Left
  <2>1. AntiLoop(t, k) \in BOOLEAN /\ IsDirect(t, k.name) \in BOOLEAN
    BY DEF AntiLoop, IsDirect
  <2> HIDE DEF Left
  <2> DEFINE r1 == Rule(AntiLoop(t, k), "direct")
             r2 == Rule(k.addr = "private", "direct")
             r3 == Rule(IsDirect(t, k.name), "direct")
             r4 == Rule(k.addr = "bypass", "direct")
             r5 == Rule(k.addr = "subnet", "direct")
  <2>2. /\ r1 \in Rules /\ r1.out = "direct" /\ (r1.matches <=> AntiLoop(t, k))
        /\ r2 \in Rules /\ r2.out = "direct" /\ (r2.matches <=> k.addr = "private")
        /\ r3 \in Rules /\ r3.out = "direct" /\ (r3.matches <=> IsDirect(t, k.name))
        /\ r4 \in Rules /\ r4.out = "direct" /\ (r4.matches <=> k.addr = "bypass")
        /\ r5 \in Rules /\ r5.out = "direct" /\ (r5.matches <=> k.addr = "subnet")
    BY <2>1, RuleIs
  <2>3. five = <<r1, r2, r3, r4, r5>>
    OBVIOUS
  <2> HIDE DEF r1, r2, r3, r4, r5, five
  <2>4. /\ five \in Seq(Rules) /\ Len(five) = 5
        /\ FirstOf(five, Left) =
             IF r1.matches \/ r2.matches \/ r3.matches \/ r4.matches \/ r5.matches THEN r1.out ELSE Left
    BY <2>2, <2>3, FiveRules
  <2> QED
    BY <2>2, <2>4
<1>2. /\ apps \in Seq(Rules) /\ Len(apps) <= 2 /\ Len(apps) \in Nat
      /\ Left = IF ~t.set.proxyAll /\ (NamedBy(t.set, k.by) \/ PathMatches(t.set, k.by))
             THEN out ELSE Final(t.set)
  <2>1. CASE t.set.proxyAll
    BY <2>1, NoRule DEF When
  <2>2. CASE ~t.set.proxyAll
    <3> DEFINE r1 == Rule(NamedBy(t.set, k.by), out)
               r2 == Rule(PathMatches(t.set, k.by), out)
    <3>1. apps = <<r1, r2>>
      BY <2>2 DEF When, AppRules
    <3>2. NamedBy(t.set, k.by) \in BOOLEAN
      BY DEF NamedBy
    <3>3. PathMatches(t.set, k.by) \in BOOLEAN
      BY DEF PathMatches
    <3>4. out \in {"proxy", "direct"}
      OBVIOUS
    <3> HIDE DEF out
    <3>5. /\ r1 \in Rules /\ r1.out = out /\ (r1.matches <=> NamedBy(t.set, k.by))
          /\ r2 \in Rules /\ r2.out = out /\ (r2.matches <=> PathMatches(t.set, k.by))
      BY <3>2, <3>3, <3>4, RuleIs
    <3> HIDE DEF r1, r2, apps
    <3>6. /\ apps \in Seq(Rules) /\ Len(apps) = 2
          /\ FirstOf(apps, Final(t.set)) = IF r1.matches THEN r1.out ELSE IF r2.matches THEN r2.out ELSE Final(t.set)
      BY <3>1, <3>5, TwoRules
    <3> QED
      BY <2>2, <3>5, <3>6
  <2> QED
    BY <2>1, <2>2
<1>3. Outbound(t, k) = FirstOf(five \o apps, Final(t.set))
  BY DEF Outbound, RouteRules
<1> HIDE DEF five, apps
<1>4. FirstOf(five \o apps, Final(t.set)) = FirstOf(five, Left)
  <2>1. five \in Seq(Rules) /\ apps \in Seq(Rules) /\ Len(five) + Len(apps) <= 7
    BY <1>1, <1>2
  <2> QED
    BY <2>1, InTurn
<1> QED
  BY <1>1, <1>2, <1>3, <1>4

\* The two ways a program is matched are, together, being on the list.
LEMMA ListedIs ==
  ASSUME NEW c, NEW p
  PROVE  /\ NamedBy(c, p) \/ PathMatches(c, p) <=> OnList(c, p)
         /\ PathMatches(c, p) => OnList(c, p)
BY DEF NamedBy, AppNames, PathMatches, OnList

\* RoutesAsAsked of one connection (Generate, the order of the route's rules).
LEMMA RoutesRight ==
  ASSUME NamesAreRead, NEW t \in RulesOfEngine, NEW p \in Processes, NEW n \in Lookups, NEW a \in Kinds
  PROVE  LET k == [by |-> p, name |-> n, addr |-> a] IN
         Outbound(t, k) = "proxy" <=> Proxied(t.set, p) /\ ~NeverProxied(t, k)
<1> DEFINE k == [by |-> p, name |-> n, addr |-> a]
<1>1. t.set \in Settings /\ t.set.mode \in {"allowlist", "blocklist"}
  BY TableAssumption DEF RulesOfEngine
<1>2. k.by = p /\ k.name = n /\ k.addr = a /\ a \in {"public", "private", "bypass", "subnet", "proxy"}
  BY DEF Kinds
<1>3. IsDirect(t, n) <=> \E e \in DirectNames(t) : Covers(e, n)
  BY DEF NamesAreRead
<1> HIDE DEF k
<1> DEFINE Skip == \/ AntiLoop(t, k) \/ k.addr = "private" \/ IsDirect(t, k.name)
                   \/ k.addr = "bypass" \/ k.addr = "subnet"
<1>4. Skip <=> NeverProxied(t, k)
  BY <1>2, <1>3 DEF NeverProxied, NeverFake, AntiLoop
<1>5. Proxied(t.set, p) <=> t.set.proxyAll \/ (OnList(t.set, p) <=> t.set.mode = "allowlist")
  BY DEF Proxied
<1>6. Outbound(t, k) = IF Skip THEN "direct"
                       ELSE IF ~t.set.proxyAll /\ OnList(t.set, p)
                            THEN IF t.set.mode = "allowlist" THEN "proxy" ELSE "direct"
                            ELSE Final(t.set)
  BY <1>2, OutboundIs, ListedIs
<1>7. Outbound(t, k) = "proxy" <=> Proxied(t.set, p) /\ ~Skip
  BY <1>1, <1>5, <1>6 DEF Final
<1> QED
  BY <1>4, <1>7 DEF k

\* What a lookup is answered.
LEMMA AnswerIs ==
  ASSUME NEW t \in RulesOfEngine, NEW q
  PROVE  LET c == t.set
             deny == IF c.proxyAll \/ c.fakeAll THEN TRUE
                     ELSE IF c.mode = "allowlist" THEN NamedBy(c, q.by) \/ PathMatches(c, q.by)
                     ELSE c.apps # {} /\ ~PathMatches(c, q.by)
             fake == IF c.fakeAll THEN q.type = "A"
                     ELSE IF c.proxyAll THEN FALSE
                     ELSE IF c.mode = "allowlist" THEN NamedBy(c, q.by) \/ PathMatches(c, q.by)
                     ELSE c.apps # {} /\ ~PathMatches(c, q.by)
         IN Answer(t, q) = IF IsDirect(t, q.name) \/ (c.proxy.named /\ q.name = c.proxy.host) THEN "local"
                           ELSE IF deny /\ q.type = "AAAA" THEN "reject"
                           ELSE IF fake THEN "fake" ELSE "local"
<1> DEFINE c == t.set
           named == NamedBy(c, q.by)
           path == PathMatches(c, q.by)
           six == q.type = "AAAA"
           own == c.proxy.named /\ q.name = c.proxy.host
           deny == IF c.proxyAll \/ c.fakeAll THEN TRUE
                   ELSE IF c.mode = "allowlist" THEN named \/ path
                   ELSE c.apps # {} /\ ~path
           fake == IF c.fakeAll THEN q.type = "A"
                   ELSE IF c.proxyAll THEN FALSE
                   ELSE IF c.mode = "allowlist" THEN named \/ path
                   ELSE c.apps # {} /\ ~path
           first  == <<Rule(IsDirect(t, q.name), "local"), Rule(own, "local")>>
           second == IF c.proxyAll \/ c.fakeAll THEN <<Rule(six, "reject")>> ELSE AaaaDeny(c, q)
           third  == FakeRules(c, q)
<1>1. /\ named \in BOOLEAN /\ path \in BOOLEAN /\ IsDirect(t, q.name) \in BOOLEAN
      /\ c \in Settings /\ c.mode \in {"allowlist", "blocklist"}
  BY TableAssumption DEF NamedBy, PathMatches, IsDirect, RulesOfEngine
<1>2. ASSUME NEW o
      PROVE  /\ first \in Seq(Rules) /\ Len(first) = 2
             /\ FirstOf(first, o) = IF IsDirect(t, q.name) \/ own THEN "local" ELSE o
  <2> DEFINE r1 == Rule(IsDirect(t, q.name), "local")
             r2 == Rule(own, "local")
  <2>1. /\ r1 \in Rules /\ r1.out = "local" /\ (r1.matches <=> IsDirect(t, q.name))
        /\ r2 \in Rules /\ r2.out = "local" /\ (r2.matches <=> own)
    BY <1>1, RuleIs
  <2>2. first = <<r1, r2>>
    OBVIOUS
  <2> HIDE DEF r1, r2, first, own
  <2>3. first \in Seq(Rules) /\ Len(first) = 2
        /\ FirstOf(first, o) = IF r1.matches THEN r1.out ELSE IF r2.matches THEN r2.out ELSE o
    BY <2>1, <2>2, TwoRules
  <2> QED
    BY <2>1, <2>3
<1>3. ASSUME NEW o
      PROVE  /\ second \in Seq(Rules) /\ Len(second) \in 0..2
             /\ FirstOf(second, o) = IF deny /\ six THEN "reject" ELSE o
  <2>1. CASE c.proxyAll \/ c.fakeAll
    <3>1. second = <<Rule(six, "reject")>> /\ Rule(six, "reject") \in Rules
          /\ (Rule(six, "reject").matches <=> six) /\ Rule(six, "reject").out = "reject"
      BY <2>1, RuleIs
    <3> QED
      BY <2>1, <3>1, OneRule
  <2>2. CASE ~(c.proxyAll \/ c.fakeAll) /\ c.mode = "allowlist"
    <3> DEFINE r1 == Rule(named /\ six, "reject")
               r2 == Rule(path /\ six, "reject")
    <3>1. /\ r1 \in Rules /\ r1.out = "reject" /\ (r1.matches <=> named /\ six)
          /\ r2 \in Rules /\ r2.out = "reject" /\ (r2.matches <=> path /\ six)
      BY <1>1, RuleIs
    <3>2. second = <<r1, r2>>
      BY <2>2 DEF AaaaDeny
    <3>a. (deny <=> named \/ path)
      BY <2>2
    <3> HIDE DEF r1, r2, second, named, path, six, deny
    <3>3. second \in Seq(Rules) /\ Len(second) = 2
          /\ FirstOf(second, o) = IF r1.matches THEN r1.out ELSE IF r2.matches THEN r2.out ELSE o
      BY <3>1, <3>2, TwoRules
    <3> QED
      BY <3>1, <3>3, <3>a
  <2>3. CASE ~(c.proxyAll \/ c.fakeAll) /\ c.mode = "blocklist" /\ c.apps # {}
    <3> DEFINE r1 == Rule(~path /\ six, "reject")
    <3>1. r1 \in Rules /\ r1.out = "reject" /\ (r1.matches <=> ~path /\ six)
      BY <1>1, RuleIs
    <3>2. second = <<r1>>
      BY <2>3 DEF AaaaDeny, When
    <3>a. (deny <=> ~path)
      BY <2>3
    <3> HIDE DEF r1, second, named, path, six, deny
    <3>3. second \in Seq(Rules) /\ Len(second) = 1
          /\ FirstOf(second, o) = IF r1.matches THEN r1.out ELSE o
      BY <3>1, <3>2, OneRule
    <3> QED
      BY <3>1, <3>3, <3>a
  <2>4. CASE ~(c.proxyAll \/ c.fakeAll) /\ c.mode = "blocklist" /\ c.apps = {}
    <3>1. second = <<>> /\ ~deny
      BY <2>4 DEF AaaaDeny, When
    <3> HIDE DEF second, deny, six
    <3> QED
      BY <3>1, NoRule
  <2> QED
    BY <1>1, <2>1, <2>2, <2>3, <2>4
<1>4. ASSUME NEW o
      PROVE  /\ third \in Seq(Rules) /\ Len(third) \in 0..2
             /\ FirstOf(third, o) = IF fake THEN "fake" ELSE o
  <2>1. CASE c.fakeAll
    <3>1. third = <<Rule(q.type = "A", "fake")>> /\ Rule(q.type = "A", "fake") \in Rules
          /\ (Rule(q.type = "A", "fake").matches <=> q.type = "A") /\ Rule(q.type = "A", "fake").out = "fake"
      BY <2>1, RuleIs DEF FakeRules
    <3> QED
      BY <2>1, <3>1, OneRule
  <2>2. CASE ~c.fakeAll /\ c.proxyAll
    <3>1. third = <<>> /\ ~fake
      BY <2>2 DEF FakeRules
    <3> QED
      BY <3>1, NoRule
  <2>3. CASE ~c.fakeAll /\ ~c.proxyAll /\ c.mode = "allowlist"
    <3> DEFINE r1 == Rule(named, "fake")
               r2 == Rule(path, "fake")
    <3>1. /\ r1 \in Rules /\ r1.out = "fake" /\ (r1.matches <=> named)
          /\ r2 \in Rules /\ r2.out = "fake" /\ (r2.matches <=> path)
      BY <1>1, RuleIs
    <3>2. third = <<r1, r2>>
      BY <2>3 DEF FakeRules
    <3>a. (fake <=> named \/ path)
      BY <2>3
    <3> HIDE DEF r1, r2, third, named, path, fake
    <3>3. third \in Seq(Rules) /\ Len(third) = 2
          /\ FirstOf(third, o) = IF r1.matches THEN r1.out ELSE IF r2.matches THEN r2.out ELSE o
      BY <3>1, <3>2, TwoRules
    <3> QED
      BY <3>1, <3>3, <3>a
  <2>4. CASE ~c.fakeAll /\ ~c.proxyAll /\ c.mode = "blocklist" /\ c.apps # {}
    <3> DEFINE r1 == Rule(~path, "fake")
    <3>1. r1 \in Rules /\ r1.out = "fake" /\ (r1.matches <=> ~path)
      BY <1>1, RuleIs
    <3>2. third = <<r1>>
      BY <2>4 DEF FakeRules, When
    <3>a. (fake <=> ~path)
      BY <2>4
    <3> HIDE DEF r1, third, named, path, fake
    <3>3. third \in Seq(Rules) /\ Len(third) = 1
          /\ FirstOf(third, o) = IF r1.matches THEN r1.out ELSE o
      BY <3>1, <3>2, OneRule
    <3> QED
      BY <3>1, <3>3, <3>a
  <2>5. CASE ~c.fakeAll /\ ~c.proxyAll /\ c.mode = "blocklist" /\ c.apps = {}
    <3>1. third = <<>> /\ ~fake
      BY <2>5 DEF FakeRules, When
    <3> QED
      BY <3>1, NoRule
  <2> QED
    BY <1>1, <2>1, <2>2, <2>3, <2>4, <2>5
<1>5. Answer(t, q) = FirstOf(first \o second \o third, "local")
  BY DEF Answer, DnsRules
<1> HIDE DEF first, second, third, deny, fake, own
<1>6. /\ first \in Seq(Rules) /\ Len(first) = 2 /\ second \in Seq(Rules) /\ Len(second) \in 0..2
      /\ third \in Seq(Rules) /\ Len(third) \in 0..2
  BY <1>2, <1>3, <1>4
<1> HIDE DEF c, named, path, six
<1>7. first \o second \in Seq(Rules) /\ Len(first \o second) = Len(first) + Len(second)
  BY <1>6, ConcatProperties
<1>8. FirstOf(first \o second \o third, "local") = FirstOf(first \o second, FirstOf(third, "local"))
  <2> DEFINE both == first \o second
  <2>1. both \in Seq(Rules) /\ third \in Seq(Rules)
    BY <1>6, <1>7
  <2>2. Len(both) + Len(third) <= 7
    BY <1>6, <1>7
  <2> HIDE DEF both
  <2>3. FirstOf(both \o third, "local") = FirstOf(both, FirstOf(third, "local"))
    BY <2>1, <2>2, InTurn
  <2> QED
    BY <2>3 DEF both
<1>9. FirstOf(first \o second, FirstOf(third, "local")) = FirstOf(first, FirstOf(second, FirstOf(third, "local")))
  <2>1. Len(first) + Len(second) <= 7
    BY <1>6, <1>7
  <2>2. first \in Seq(Rules) /\ second \in Seq(Rules)
    BY <1>6
  <2> QED
    BY <2>1, <2>2, InTurn
<1>10. FirstOf(first, FirstOf(second, FirstOf(third, "local"))) =
         IF IsDirect(t, q.name) \/ own THEN "local"
         ELSE IF deny /\ six THEN "reject" ELSE IF fake THEN "fake" ELSE "local"
  BY <1>2, <1>3, <1>4
<1> QED
  BY <1>5, <1>8, <1>9, <1>10 DEF deny, fake, own, c, named, path, six

\* AnswersAsAsked of one program and name (Generate, the order of the DNS rules).
LEMMA AnswersRight ==
  ASSUME NamesAreRead, NEW t \in RulesOfEngine, NEW p \in Processes, NEW n \in Lookups
  PROVE  LET c == t.set
             Ans(type) == Answer(t, [by |-> p, name |-> n, type |-> type])
             bare == ~c.fakeAll /\ c.mode = "blocklist" /\ c.apps = {} /\ ~c.proxyAll
         IN IF NeverFake(t, n) THEN Ans("A") = "local" /\ Ans("AAAA") = "local"
            ELSE Proxied(c, p) /\ ~bare =>
                   Ans("AAAA") = "reject" /\ (c.fakeAll \/ ~c.proxyAll => Ans("A") = "fake")
<1> DEFINE c == t.set
           Q(type) == [by |-> p, name |-> n, type |-> type]
           skip == IsDirect(t, n) \/ (c.proxy.named /\ n = c.proxy.host)
           listed == IF c.mode = "allowlist" THEN NamedBy(c, p) \/ PathMatches(c, p)
                     ELSE c.apps # {} /\ ~PathMatches(c, p)
<1>1. c \in Settings /\ c.mode \in {"allowlist", "blocklist"}
  BY TableAssumption DEF RulesOfEngine
<1>2. skip <=> NeverFake(t, n)
  BY DEF NeverFake, NamesAreRead
<1>3. \A type : Q(type).by = p /\ Q(type).name = n /\ Q(type).type = type
  OBVIOUS
<1> HIDE DEF Q
<1>4. Answer(t, Q("AAAA")) = IF skip THEN "local"
                             ELSE IF c.proxyAll \/ c.fakeAll \/ listed THEN "reject"
                             ELSE "local"
  BY <1>3, AnswerIs
<1>5. Answer(t, Q("A")) = IF skip THEN "local"
                          ELSE IF c.fakeAll \/ (~c.proxyAll /\ listed) THEN "fake" ELSE "local"
  BY <1>3, AnswerIs
<1>6. Proxied(c, p) /\ ~c.proxyAll /\ ~(c.mode = "blocklist" /\ c.apps = {}) => listed
  BY <1>1, ListedIs DEF Proxied
<1> HIDE DEF skip, listed
<1>7. IF NeverFake(t, n) THEN Answer(t, Q("A")) = "local" /\ Answer(t, Q("AAAA")) = "local"
      ELSE Proxied(c, p) /\ ~(~c.fakeAll /\ c.mode = "blocklist" /\ c.apps = {} /\ ~c.proxyAll) =>
             Answer(t, Q("AAAA")) = "reject" /\ (c.fakeAll \/ ~c.proxyAll => Answer(t, Q("A")) = "fake")
  BY <1>2, <1>4, <1>5, <1>6
<1> QED
  BY <1>7 DEF Q

\* RulesAsAsked, for any settings, programs, names and stores: an engine routes and answers
\* as its configuration asks (Generate), given that the text of names is read for what it is,
\* which is NamesAsListed of every engine there can be.
THEOREM RulesAreAsked ==
  ASSUME NamesAreRead
  PROVE  TableSpec => []RulesAsAsked
<1>1. TableInv => RulesAsAsked
  <2> SUFFICES ASSUME TableInv, runs # Off PROVE RulesAsAsked
    BY DEF RulesAsAsked, NamesAsListed, RoutesAsAsked, AnswersAsAsked
  <2>1. runs \in RulesOfEngine
    BY DEF TableInv, TableTypeOK
  <2>2. RoutesAsAsked
    BY <2>1, RoutesRight DEF RoutesAsAsked
  <2>3. AnswersAsAsked
    BY <2>1, AnswersRight DEF AnswersAsAsked
  <2>4. NamesAsListed
    BY <2>1 DEF NamesAreRead, NamesAsListed
  <2> QED
    BY <2>2, <2>3, <2>4 DEF RulesAsAsked
<1> QED
  BY <1>1, TableFollowsFile, PTL

-----------------------------------------------------------------------------
(* The tray. *)

TrayInv == TrayTypeOK /\ OneTray

\* Every step keeps the types and the one mutex (superviseTray, acquireSingleton, Run).
LEMMA TrayStepInv == TrayInv /\ [TrayNext]_trayVars => TrayInv'
<1> SUFFICES ASSUME TrayInv, [TrayNext]_trayVars PROVE TrayInv'
  OBVIOUS
<1> USE DEF TrayInv, TrayTypeOK, OneTray, HasMutex, Stages, Holds
<1>1. CASE KeeperLooks \/ KeeperCloses \/ LaunchRefused \/ ShellSettles
  <2>1. /\ tray' = tray /\ build' = build /\ denied' = denied /\ shell' = shell /\ setting' = setting
        /\ exe' = exe /\ serves' = serves /\ installed' = installed
    BY <1>1, Zenon DEF KeeperLooks, KeeperCloses, LaunchRefused, ShellSettles, Machine, processes
  <2>2. keeper # "off" <=> keeper' # "off"
    BY <1>1 DEF KeeperLooks, KeeperCloses, LaunchRefused, ShellSettles
  <2>3. keeper' \in {"off", "wait", "looking", "launching"}
    BY <1>1 DEF KeeperLooks, KeeperCloses, LaunchRefused, ShellSettles
  <2>4. since' \in {"zero", "fresh", "settled"}
    BY <1>1 DEF KeeperLooks, KeeperCloses, LaunchRefused, ShellSettles
  <2> QED
    BY <2>1, <2>2, <2>3, <2>4
<1>2. ASSUME NEW t \in Trays, Launch(t) \/ StartByHand(t) PROVE TrayInv'
  <2>1. /\ tray' = [tray EXCEPT ![t] = "started"] /\ build' = [build EXCEPT ![t] = exe]
        /\ UNCHANGED <<denied, since, shell, setting, exe, serves, installed>>
        /\ tray[t] = "off"
    BY <1>2 DEF Launch, StartByHand, Started, Machine, Keeper
  <2>2. (keeper' = keeper) \/ (keeper = "launching" /\ keeper' = "wait")
    BY <1>2 DEF Launch, StartByHand, Keeper
  <2>3. tray' \in [Trays -> Stages] /\ build' \in [Trays -> {Before, After}]
    BY <2>1
  <2>4. \A u \in Trays : (tray'[u] \in Holds \/ u \in denied) => u # t /\ tray'[u] = tray[u]
    BY <2>1
  <2> QED
    BY <2>1, <2>2, <2>3, <2>4
<1>3. ASSUME NEW t \in Trays, Acquire(t) \/ Refused(t) PROVE TrayInv'
  <2>1. /\ tray' = [tray EXCEPT ![t] = "adding"] /\ build' = build /\ tray[t] = "started"
        /\ UNCHANGED <<keeper, since, shell, setting, exe, serves, installed>>
    BY <1>3 DEF Acquire, Refused, Turns, Machine, Keeper
  <2>2. \/ denied' = denied \cup {t}
        \/ denied' = denied /\ \A u \in Trays : ~HasMutex(u)
    BY <1>3 DEF Acquire, Refused, Turns, MutexExists
  <2>3. \A u \in Trays \ {t} : tray'[u] = tray[u] /\ (u \in denied' <=> u \in denied)
    BY <2>1, <2>2
  <2>4. OneTray'
    BY <2>1, <2>2, <2>3
  <2>5. denied' \subseteq {u \in Trays : tray'[u] \in Holds}
    BY <2>1, <2>2
  <2> QED
    BY <2>1, <2>4, <2>5
<1>4. ASSUME NEW t \in Trays, AddIcon(t) \/ IconFails(t) PROVE TrayInv'
  BY <1>4 DEF AddIcon, IconFails, Turns, Machine, Keeper
<1>5. ASSUME NEW t \in Trays, TurnedAway(t) \/ Watchdog(t) \/ Quits(t) \/ Dies(t) PROVE TrayInv'
  BY <1>5 DEF TurnedAway, Watchdog, Quits, Dies, Gone, Machine, Keeper
<1>6. CASE LogOff
  BY <1>6 DEF LogOff, Gone, Machine, Keeper
<1>7. CASE ShellStep \/ SaveSetting \/ ExeReplaced \/ ServiceStarts \/ ServiceEnds
            \/ Install \/ Uninstall
  <2>1. tray' = tray /\ build' = build /\ denied' = denied
    BY <1>7 DEF ShellStep, SaveSetting, ExeReplaced, ServiceStarts, ServiceEnds, Install,
         Uninstall, processes
  <2>2. CASE ShellStep
    BY <2>1, <2>2 DEF ShellStep, Keeper
  <2>3. CASE SaveSetting
    BY <2>1, <2>3 DEF SaveSetting, Keeper
  <2>4. CASE ExeReplaced
    BY <2>1, <2>4 DEF ExeReplaced, Keeper
  <2>5. CASE ServiceStarts
    <3>1. exe # NoBuild
      BY TrayAssumption
    <3> QED
      BY <2>1, <2>5, <3>1 DEF ServiceStarts
  <2>6. CASE ServiceEnds
    BY <2>1, <2>6 DEF ServiceEnds
  <2>7. CASE Install
    BY <2>1, <2>7 DEF Install, Keeper
  <2>8. CASE Uninstall
    <3>1. /\ keeper' = keeper /\ since' = since /\ shell' = shell /\ setting' = setting
          /\ exe' = exe /\ serves' = serves /\ serves = NoBuild /\ ~installed'
      BY <2>8 DEF Uninstall, Keeper
    <3>2. installed' \in BOOLEAN
      BY <2>8 DEF Uninstall
    <3> QED
      BY <2>1, <3>1, <3>2
  <2> QED
    BY <1>7, <2>2, <2>3, <2>4, <2>5, <2>6, <2>7, <2>8
<1>8. CASE UNCHANGED trayVars
  BY <1>8 DEF trayVars
<1> QED
  BY <1>1, <1>2, <1>3, <1>4, <1>5, <1>6, <1>7, <1>8 DEF TrayNext, KeeperStep, TrayStep

\* No tray runs yet.
LEMMA TrayStart == TrayInit => TrayInv
BY TrayAssumption DEF TrayInit, TrayInv, TrayTypeOK, OneTray, HasMutex, Stages, Holds

\* Never two trays hold the mutex, and every variable keeps its type, for any number of
\* processes that are started by the keeper or by hand, refused the mutex or turned away
\* (acquireSingleton).
THEOREM TrayIsAlone == TraySpec => []TrayInv
BY TrayStart, TrayStepInv, PTL DEF TraySpec

\* What lets a tray that is not wanted go on, and that it does: tlapm does not reason about
\* ENABLED, so this is a hypothesis.
TrayGoes == \A t \in Trays : tray[t] \in Holds /\ Unwanted => ENABLED <<TrayStep(t)>>_trayVars

\* A tray that is up stays until it ends; by a step of its own it comes nearer to its end.
LEMMA UpStep ==
  ASSUME TrayInv, [TrayNext]_trayVars, NEW t \in Trays, tray[t] \in Holds
  PROVE  /\ \/ tray'[t] = tray[t]
            \/ tray[t] = "adding" /\ tray'[t] \in {"blank", "shown"}
            \/ Leaves(t)'
         /\ TrayStep(t) /\ tray[t] = "adding" => tray'[t] \in {"blank", "shown"}
         /\ TrayStep(t) /\ tray[t] # "adding" => Leaves(t)'
<1> USE DEF TrayInv, TrayTypeOK, Stages, Holds
<1>2. CASE KeeperLooks \/ KeeperCloses \/ LaunchRefused \/ ShellSettles
           \/ ShellStep \/ SaveSetting \/ ExeReplaced \/ ServiceStarts \/ ServiceEnds
           \/ Install \/ Uninstall \/ UNCHANGED trayVars
  <2>1. UNCHANGED tray
    BY <1>2 DEF KeeperLooks, KeeperCloses, LaunchRefused, ShellSettles, ShellStep, SaveSetting,
         ExeReplaced, ServiceStarts, ServiceEnds, Install, Uninstall, processes, trayVars
  <2>2. ~TrayStep(t)
    BY <2>1 DEF TrayStep, Acquire, Refused, TurnedAway, AddIcon, IconFails, Watchdog, Quits, Turns, Gone
  <2> QED
    BY <2>1, <2>2
<1>3. ASSUME NEW u \in Trays, Launch(u) \/ StartByHand(u) PROVE tray'[t] = tray[t] /\ ~TrayStep(t)
  BY <1>3 DEF Launch, StartByHand, Started, TrayStep, Acquire, Refused, TurnedAway, AddIcon, IconFails,
       Watchdog, Quits, Turns, Gone
<1>4. ASSUME NEW u \in Trays, u # t, TrayStep(u) PROVE tray'[t] = tray[t] /\ ~TrayStep(t)
  BY <1>4 DEF TrayStep, Acquire, Refused, TurnedAway, AddIcon, IconFails, Watchdog, Quits,
       Turns, Gone
<1>5. ASSUME TrayStep(t)
      PROVE  /\ tray[t] = "adding" => tray'[t] \in {"blank", "shown"}
             /\ tray[t] # "adding" => Leaves(t)'
  BY <1>5 DEF TrayStep, Acquire, Refused, TurnedAway, AddIcon, IconFails, Watchdog, Quits,
       Turns, Gone, Leaves
<1>6. ASSUME NEW u \in Trays, Dies(u), ~TrayStep(t) PROVE tray'[t] = tray[t] \/ Leaves(t)'
  BY <1>6 DEF Dies, Gone, Leaves
<1>7. CASE LogOff /\ ~TrayStep(t)
  BY <1>7 DEF LogOff, Gone, Leaves
<1> QED
  BY <1>2, <1>3, <1>4, <1>5, <1>6, <1>7 DEF TrayNext, KeeperStep

\* A tray that is not wanted ends, whatever stage it is at.
LEMMA TrayEnds ==
  ASSUME NEW t \in Trays
  PROVE  TraySpec /\ []TrayGoes => ([]Unwanted /\ tray[t] \in Holds ~> Leaves(t))
<1> DEFINE Adding == tray[t] = "adding"
           Late   == tray[t] \in {"blank", "shown"}
<1>1. TraySpec => TrayFair(t)
  <2>1. TraysFair => TrayFair(t)
    BY DEF TraysFair
  <2>2. QED
    BY <2>1, PTL DEF TraySpec
<1>2. tray[t] \in Holds <=> Adding \/ Late
  BY DEF Holds
<1>3. Adding /\ TrayInv /\ [TrayNext]_trayVars => Adding' \/ Late' \/ Leaves(t)'
  BY UpStep DEF Holds
<1>4. Adding /\ TrayInv /\ [TrayNext]_trayVars /\ <<TrayStep(t)>>_trayVars => Late'
  BY UpStep DEF Holds
<1>5. Late /\ TrayInv /\ [TrayNext]_trayVars => Late' \/ Leaves(t)'
  BY UpStep DEF Holds
<1>6. Late /\ TrayInv /\ [TrayNext]_trayVars /\ <<TrayStep(t)>>_trayVars => Leaves(t)'
  BY UpStep DEF Holds
<1>7. (Adding \/ Late) /\ Unwanted /\ TrayGoes => ENABLED <<TrayStep(t)>>_trayVars
  BY <1>2 DEF TrayGoes
<1> HIDE DEF Adding, Late
<1>8. TraySpec /\ []TrayGoes => ([]Unwanted /\ Adding ~> Late \/ Leaves(t))
  BY <1>1, <1>3, <1>4, <1>7, TrayIsAlone, PTL DEF TraySpec, TrayFair
<1>9. TraySpec /\ []TrayGoes => ([]Unwanted /\ Late ~> Leaves(t))
  BY <1>1, <1>5, <1>6, <1>7, TrayIsAlone, PTL DEF TraySpec, TrayFair
<1>10. QED
  BY <1>2, <1>8, <1>9, PTL

\* Where none is wanted no tray stays (pollStatus, Run's watchdog), for any number of
\* processes, with the mutex or without.
THEOREM TraysEnd == TraySpec /\ []TrayGoes => ClearsTrays
<1>1. ASSUME NEW t \in Trays
      PROVE  TraySpec /\ []TrayGoes => (<>[]Unwanted => []<>Leaves(t))
  <2>1. TraySpec /\ []TrayGoes => ([]Unwanted /\ tray[t] \in Holds ~> Leaves(t))
    BY TrayEnds
  <2>2. Leaves(t) <=> ~(tray[t] \in Holds)
    BY DEF Leaves
  <2>3. QED
    BY <2>1, <2>2, PTL
<1>2. QED
  BY <1>1 DEF ClearsTrays

-----------------------------------------------------------------------------
(* MCEngine.  A step of one side leaves the variables of the others alone, so that every
   side's invariant is kept by all of them. *)

SidesInv == IInv /\ EgressTypeOK /\ TableInv /\ TrayInv

\* Every side starts as it does alone.
LEMMA SidesStart == MCInit => SidesInv
<1> SUFFICES ASSUME MCInit PROVE SidesInv
  OBVIOUS
<1>1. Init /\ EgressInit /\ TableInit /\ TrayInit
  BY DEF MCInit
<1>2. QED
  BY <1>1, RunStarts, EgressInitTypes, TableStart, TrayStart DEF SidesInv

\* A step of the composition is a step of one side and a stutter of the others.
LEMMA SidesStep == SidesInv /\ [MCNext]_allVars => SidesInv'
<1> SUFFICES ASSUME SidesInv, [MCNext]_allVars PROVE SidesInv'
  OBVIOUS
<1>1. [Next]_vars
  BY DEF MCNext, allVars, InSupervisor, InEgress, InRules, InTray
<1>2. [EgressNext]_egressVars
  BY DEF MCNext, allVars, InSupervisor, InEgress, InRules, InTray
<1>3. [TableNext]_engineVars
  BY DEF MCNext, allVars, InSupervisor, InEgress, InRules, InTray
<1>4. [TrayNext]_trayVars
  BY DEF MCNext, allVars, InSupervisor, InEgress, InRules, InTray
<1>5. IInv'
  BY <1>1, Inductive DEF SidesInv
<1>6. EgressTypeOK'
  BY <1>2, EgressStepTypes DEF SidesInv
<1>7. TableInv'
  BY <1>3, TableStep DEF SidesInv
<1>8. TrayInv'
  BY <1>4, TrayStepInv DEF SidesInv
<1>9. QED
  BY <1>5, <1>6, <1>7, <1>8 DEF SidesInv

\* Beside each other as on their own, the supervisor, the watch over the way out, the
\* engine's table and the tray keep their types (supervisor.go, egress_windows.go,
\* runtime.go, traykeeper_windows.go).
THEOREM SidesTypes == MCSpec => []Types
<1>1. SidesInv => Types
  BY DEF SidesInv, IInv, TableInv, TrayInv, Types
<1>2. QED
  BY <1>1, SidesStart, SidesStep, PTL DEF MCSpec

=============================================================================
