------------------------- MODULE ConfigRules_proofs -------------------------
(***************************************************************************)
(* Proofs about ConfigRules: what a read, an edit and a fetch make of      *)
(* socksit.yaml, for any apps, names, switches, files a user writes and    *)
(* profiles an operator submits.                                           *)
(***************************************************************************)
EXTENDS ConfigRules, TLAPS

-----------------------------------------------------------------------------
(* Reading. *)

\* The defaults and the migrations would change nothing of it.
Settles(c) ==
  /\ c.names \notin {Nil, LegacyNames} /\ c.bypass # Nil /\ c.fakeip # ""
  /\ c.fakeip = Alt => c.bypass # LegacyBypass /\ Router \in c.bypass

\* What a read leaves as it is.
SameBut(d, c) ==
  /\ d.addr = c.addr /\ d.sw = c.sw /\ d.apps = c.apps /\ d.mapps = c.mapps
  /\ d.mnames = c.mnames /\ d.prefs = c.prefs /\ d.managed = c.managed
  /\ d.merge = c.merge /\ d.locked = c.locked

\* The lists the defaults put in place are lists, and none of what is taken back.
LEMMA Lists ==
  /\ DefaultNames \in SUBSET Entries /\ DefaultNames \notin {Nil, LegacyNames}
  /\ DefaultBypass \in SUBSET Ranges /\ DefaultBypass # Nil
  /\ Router # Alt /\ Router # "" /\ Alt # ""
<1>1. DefaultNames \in SUBSET Entries /\ DefaultBypass \in SUBSET Ranges
  BY DEF DefaultNames, Entries, DefaultBypass, Ranges
<1>2. DefaultNames # LegacyNames
  BY DEF DefaultNames, LegacyNames
<1>3. Router # Alt /\ Router # "" /\ Alt # ""
  BY DEF Router, Alt
<1>4. DefaultNames # Nil /\ DefaultBypass # Nil
  BY <1>1, RulesAssumption
<1> QED
  BY <1>1, <1>2, <1>3, <1>4

\* What a read makes of a file: a file, settled, with the rest as it was.
LEMMA Reading ==
  ASSUME NEW c \in Configs
  PROVE  /\ Defaulted(c) \in Configs /\ Settles(Defaulted(c)) /\ SameBut(Defaulted(c), c)
         /\ c.names \notin {Nil, LegacyNames} => Defaulted(c).names = c.names
         /\ c.names \in {Nil, LegacyNames} => Defaulted(c).names = DefaultNames
<1> DEFINE d == [c EXCEPT !.names = IF @ \in {Nil, LegacyNames} THEN DefaultNames ELSE @,
                          !.bypass = IF @ = Nil THEN DefaultBypass ELSE @]
<1>1. d \in Configs
  BY Lists DEF Configs
<1>2. /\ SameBut(d, c) /\ d.names \notin {Nil, LegacyNames} /\ d.bypass # Nil
      /\ d.fakeip = c.fakeip
      /\ c.names \notin {Nil, LegacyNames} => d.names = c.names
      /\ c.names \in {Nil, LegacyNames} => d.names = DefaultNames
  BY Lists DEF Configs, SameBut
<1>3. Defaulted(c) = Migrated(d)
  BY DEF Defaulted
<1> HIDE DEF d
<1>4. d.fakeip \in {"", Router, Alt}
  BY <1>1 DEF Configs
<1>5. /\ Migrated(d) \in Configs /\ SameBut(Migrated(d), d) /\ Migrated(d).names = d.names
      /\ Migrated(d).bypass # Nil /\ Migrated(d).fakeip # ""
      /\ Migrated(d).fakeip = Alt =>
           Migrated(d).bypass # LegacyBypass /\ Router \in Migrated(d).bypass
  <2>1. CASE d.fakeip = ""
    <3>1. Migrated(d) = [d EXCEPT !.fakeip = Router]
      BY <2>1, Lists DEF Migrated
    <3> QED
      BY <3>1, <1>1, <1>2, Lists DEF Configs, SameBut
  <2>2. CASE d.fakeip = Alt /\ d.bypass = LegacyBypass
    <3>1. Migrated(d) = [d EXCEPT !.fakeip = Router, !.bypass = DefaultBypass]
      BY <2>2, Lists DEF Migrated, LegacyBypass
    <3>2. Migrated(d) \in Configs
      BY <3>1, <1>1, Lists DEF Configs
    <3>3. /\ Migrated(d).fakeip = Router /\ Migrated(d).bypass = DefaultBypass
          /\ Migrated(d).names = d.names /\ SameBut(Migrated(d), d)
      BY <3>1, <1>1 DEF Configs, SameBut
    <3> QED
      BY <3>2, <3>3, Lists
  <2>3. CASE d.fakeip = Alt /\ d.bypass # LegacyBypass /\ Router \notin d.bypass
    <3>1. Migrated(d) = [d EXCEPT !.fakeip = Router]
      BY <2>3, Lists DEF Migrated
    <3> QED
      BY <3>1, <1>1, <1>2, Lists DEF Configs, SameBut
  <2>4. CASE d.fakeip = Router \/ (d.fakeip = Alt /\ d.bypass # LegacyBypass /\ Router \in d.bypass)
    <3>1. Migrated(d) = d
      BY <2>4, Lists DEF Migrated
    <3> QED
      BY <3>1, <2>4, <1>1, <1>2, Lists DEF SameBut
  <2> QED
    BY <1>4, <2>1, <2>2, <2>3, <2>4
<1> QED
  BY <1>2, <1>3, <1>5 DEF Settles, SameBut

\* A file that is settled reads as it is.
LEMMA SettledReads ==
  ASSUME NEW c \in Configs, Settles(c)
  PROVE  Defaulted(c) = c
<1>1. [c EXCEPT !.names = IF @ \in {Nil, LegacyNames} THEN DefaultNames ELSE @,
                !.bypass = IF @ = Nil THEN DefaultBypass ELSE @] = c
  BY DEF Configs, Settles
<1>2. Migrated(c) = c
  BY Lists DEF Settles, Migrated, Configs
<1> QED
  BY <1>1, <1>2 DEF Defaulted

\* What a read of the file gives, and what the panel starts from.
LEMMA DefaultIsFile ==
  Default \in Configs /\ Default.apps = {} /\ Default.names = DefaultNames
<1>1. (CHOOSE p \in Prefs : TRUE) \in Prefs
  BY RulesAssumption
<1> QED
  BY <1>1, Lists DEF Default, Configs, States

-----------------------------------------------------------------------------
(* Writing. *)

\* A file that has left the channel still loads without the remnants of it.
LEMMA DemotedLoads ==
  ASSUME NEW c \in Configs
  PROVE  /\ Demoted(Defaulted(c)) \in Configs /\ Demoted(Defaulted(c)).apps = c.apps
         /\ Loads(c) => Loads(Demoted(Defaulted(c)))
<1> DEFINE d == Defaulted(c)
           e == Demoted(d)
<1>1. d \in Configs /\ Settles(d) /\ SameBut(d, c)
  BY Reading
<1> HIDE DEF d
<1>2. /\ e \in Configs /\ e.apps = d.apps /\ e.addr = d.addr /\ e.managed = d.managed
      /\ e.names = d.names /\ e.mnames = {} /\ e.bypass = d.bypass /\ e.fakeip = d.fakeip
  BY <1>1 DEF Demoted, Configs
<1> HIDE DEF e
<1>3. Defaulted(e) = e
  BY <1>1, <1>2, SettledReads DEF Settles
<1>4. ASSUME Valid(d) PROVE Valid(e)
  BY <1>2, <1>4 DEF Valid
<1>5. e # Nil
  BY <1>2, RulesAssumption
<1> QED
  BY <1>1, <1>2, <1>3, <1>4, <1>5 DEF Loads, SameBut, e, d

\* What is written in place of a file that loads loads.
LEMMA PersistedLoads ==
  ASSUME NEW c \in Configs, Persist(c)
  PROVE  file' \in Configs /\ file'.apps = c.apps /\ Loads(file')
<1>1. Loads(c) /\ (file' = c \/ file' = Demoted(Defaulted(c)))
  BY DEF Persist, Stored
<1> QED
  BY <1>1, DemotedLoads

\* What a fetch writes: a file that loads, with what is about this machine as it was.
LEMMA FetchedLoads ==
  ASSUME NEW c \in Configs, Settles(c), NEW b \in Feeds, Fetched(c, b) # Nil
  PROVE  LET k == Fetched(c, b) IN
         /\ k \in Configs /\ Loads(k)
         /\ k.bypass = c.bypass /\ k.prefs = c.prefs /\ k.locked = Carries(b)
         /\ (b.names = {} \/ c.merge = "override") => k.names = c.names
         /\ c.merge = "override" =>
              /\ k.fakeip = c.fakeip /\ k.apps = c.apps
              /\ \A s \in Switches \ Carries(b) : k.sw[s] = c.sw[s]
         /\ c.merge # "override" => k.apps = b.apps
<1> DEFINE raw  == IF c.merge = "override" THEN Overridden(c, b) ELSE Replaced(c, b)
           new  == Defaulted(raw)
           kept == [KeepLocal(new, c, b) EXCEPT !.locked = Carries(b)]
<1>1. Fetched(c, b) = kept /\ Valid(kept)
  BY DEF Fetched
<1>2. /\ raw \in Configs /\ raw.prefs = c.prefs
      /\ c.merge = "override" =>
           /\ raw.names = c.names /\ raw.bypass = c.bypass /\ raw.fakeip = c.fakeip
           /\ raw.apps = c.apps /\ \A s \in Switches \ Carries(b) : raw.sw[s] = c.sw[s]
      /\ c.merge # "override" => raw.apps = b.apps /\ raw.fakeip = ""
  <2>1. CASE c.merge = "override"
    <3>1. Overridden(c, b) \in Configs
      BY DEF Overridden, Configs, Feeds
    <3>2. \A s \in Switches \ Carries(b) : Overridden(c, b).sw[s] = c.sw[s]
      BY DEF Overridden, Configs
    <3>3. LET o == Overridden(c, b) IN
          /\ o.prefs = c.prefs /\ o.names = c.names /\ o.bypass = c.bypass
          /\ o.fakeip = c.fakeip /\ o.apps = c.apps
      BY DEF Overridden, Configs
    <3>4. raw = Overridden(c, b)
      BY <2>1
    <3> HIDE DEF raw
    <3> QED
      BY <2>1, <3>1, <3>2, <3>3, <3>4
  <2>2. CASE c.merge # "override"
    <3>1. Replaced(c, b) \in Configs
      BY DEF Replaced, Configs, Feeds
    <3>2. LET o == Replaced(c, b) IN o.prefs = c.prefs /\ o.apps = b.apps /\ o.fakeip = ""
      BY DEF Replaced, Configs
    <3>3. raw = Replaced(c, b)
      BY <2>2
    <3> HIDE DEF raw
    <3> QED
      BY <2>2, <3>1, <3>2, <3>3
  <2> QED
    BY <2>1, <2>2
<1> HIDE DEF raw
<1>3. new \in Configs /\ Settles(new) /\ SameBut(new, raw)
  BY <1>2, Reading
<1>4. ASSUME c.merge = "override" PROVE new = raw
  BY <1>2, <1>4, SettledReads DEF Settles
<1>5. ASSUME c.merge # "override" PROVE new.fakeip = Router
  <2>1. raw.fakeip = "" /\ raw \in Configs
    BY <1>2, <1>5
  <2> QED
    BY <2>1, Lists DEF Defaulted, Migrated, Configs
<1> HIDE DEF new
<1>6. /\ kept \in Configs /\ kept.bypass = c.bypass /\ kept.prefs = new.prefs
      /\ kept.locked = Carries(b) /\ kept.names = (IF b.names = {} THEN c.names ELSE new.names)
      /\ kept.fakeip = new.fakeip /\ kept.apps = new.apps /\ kept.sw = new.sw
  BY <1>3 DEF KeepLocal, Configs, Carries
<1> HIDE DEF kept
<1>7. Settles(kept)
  BY <1>2, <1>3, <1>4, <1>5, <1>6, Lists DEF Settles
<1>8. Loads(kept)
  BY <1>1, <1>6, <1>7, SettledReads, RulesAssumption DEF Loads
<1>9. b.names = {} \/ c.merge = "override" => kept.names = c.names
  BY <1>2, <1>4, <1>6
<1>10. kept.prefs = c.prefs
  BY <1>2, <1>3, <1>6 DEF SameBut
<1>11. c.merge = "override" =>
         /\ kept.fakeip = c.fakeip /\ kept.apps = c.apps
         /\ \A s \in Switches \ Carries(b) : kept.sw[s] = c.sw[s]
  BY <1>2, <1>4, <1>6
<1>12. c.merge # "override" => kept.apps = b.apps
  BY <1>2, <1>3, <1>6 DEF SameBut
<1> QED
  BY <1>1, <1>6, <1>8, <1>9, <1>10, <1>11, <1>12

\* A body the server's checks let through adds nothing a client's checks would refuse.
LEMMA PublishedIsTaken ==
  ASSUME NEW c \in Configs, Settles(c), Valid(c), c.merge = "override",
         NEW b \in Feeds, Publishable(b)
  PROVE  Fetched(c, b) # Nil
<1> DEFINE new  == Overridden(c, b)
           kept == [KeepLocal(new, c, b) EXCEPT !.locked = Carries(b)]
<1>1. b.addr # "none" /\ BadName \notin b.names
  <2>1. /\ ToConfig(b).addr = b.addr /\ ToConfig(b).names = b.names /\ ToConfig(b).managed = FALSE
        /\ ToConfig(b).mnames = {}
    BY DEF ToConfig, Default
  <2> QED
    BY <2>1 DEF Publishable, Valid
<1>2. /\ new \in Configs /\ new.addr = b.addr /\ new.names = c.names /\ new.bypass = c.bypass
      /\ new.fakeip = c.fakeip /\ new.mnames \in {c.mnames, b.names}
  BY DEF Overridden, Configs, Feeds
<1> HIDE DEF new
<1>3. Settles(new)
  BY <1>2 DEF Settles
<1>4. Defaulted(new) = new
  BY <1>2, <1>3, SettledReads
<1>5. BadName \notin c.names \cup c.mnames /\ \A r \in c.bypass : ~Overlap(c.fakeip, r)
  BY DEF Valid
<1>6. Valid(new)
  BY <1>1, <1>2, <1>5 DEF Valid
<1>7. /\ kept \in Configs /\ kept.addr = new.addr /\ kept.names = c.names /\ kept.mnames = new.mnames
      /\ kept.bypass = c.bypass /\ kept.fakeip = new.fakeip
  BY <1>2 DEF KeepLocal, Configs, Carries
<1>8. Valid(kept)
  <2> HIDE DEF kept
  <2> QED
    BY <1>1, <1>2, <1>5, <1>7 DEF Valid
<1>9. Fetched(c, b) = kept
  BY <1>4, <1>6, <1>8 DEF Fetched, new
<1> QED
  BY <1>7, <1>9, RulesAssumption

-----------------------------------------------------------------------------
(* The steps. *)

\* The user's list is what the user listed, from before there is a file; what is published
\* passed the server's checks.
Own == [apps : SUBSET Apps, names : SUBSET Entries]
AppsOf(f) == IF f = Nil THEN {} ELSE f.apps

RulesInv ==
  /\ RulesTypeOK
  /\ AppsOf(file) = mine.apps
  /\ body # Nil => Publishable(body)

\* A step of the program, the user's hand apart, leaves a file that loads.
StillLoads == Loads(file) => Loads(file') \/ \E c \in HandWritten : ByHand(c)

\* The first state has no file, and nothing is listed.
LEMMA RulesStart ==
  RulesInit => RulesInv
<1> SUFFICES ASSUME RulesInit PROVE RulesInv
  OBVIOUS
<1>1. mine \in Own /\ mine.apps = {}
  BY DefaultIsFile, Lists DEF RulesInit, Own
<1> QED
  BY <1>1 DEF RulesInit, RulesInv, RulesTypeOK, Own, AppsOf

\* An edit that lists for the file what it lists for the user keeps the invariant.
LEMMA EditKeeps ==
  ASSUME RulesInv, NEW c \in Configs, NEW own \in Own, c.apps = own.apps,
         Persist(c), mine' = own, body' = body
  PROVE  RulesInv' /\ StillLoads
<1>1. file' \in Configs /\ file'.apps = c.apps /\ Loads(file')
  BY PersistedLoads
<1>2. file' # Nil
  BY <1>1, RulesAssumption
<1> QED
  BY <1>1, <1>2 DEF RulesInv, RulesTypeOK, Own, AppsOf, StillLoads

\* What is read of a file that is there, and what the panel reads.
LEMMA ReadIsFile ==
  ASSUME RulesInv
  PROVE  /\ file # Nil => /\ Read \in Configs /\ Settles(Read) /\ Read.apps = mine.apps
                          /\ Read.names \in SUBSET Entries /\ Read.mnames \in SUBSET Entries
                          /\ Read.bypass \in SUBSET Ranges
                          /\ Effective(Read) \in SUBSET Entries
         /\ PanelReads \in Configs /\ PanelReads.apps = mine.apps
         /\ Effective(PanelReads) \in SUBSET Entries
<1>1. ASSUME file # Nil
      PROVE  /\ Read \in Configs /\ Settles(Read) /\ Read.apps = mine.apps
             /\ Read.names \in SUBSET Entries /\ Read.mnames \in SUBSET Entries
             /\ Read.bypass \in SUBSET Ranges
  <2>1. file \in Configs /\ file.apps = mine.apps
    BY <1>1 DEF RulesInv, RulesTypeOK, AppsOf
  <2>2. Read \in Configs /\ Settles(Read) /\ SameBut(Read, file)
    BY <2>1, Reading DEF Read
  <2> QED
    BY <2>1, <2>2 DEF SameBut, Settles, Configs
<1>2. PanelReads = IF file = Nil THEN Default ELSE Read
  BY DEF PanelReads, Read
<1>3. file = Nil => mine.apps = {}
  BY DEF RulesInv, AppsOf
<1>4. Default.names \in SUBSET Entries /\ Default.mnames = {}
  BY DefaultIsFile, Lists DEF Default
<1>5. file # Nil => Effective(Read) \in SUBSET Entries
  BY <1>1 DEF Effective
<1>6. Effective(Default) \in SUBSET Entries
  BY <1>4 DEF Effective
<1> QED
  BY <1>1, <1>2, <1>3, <1>5, <1>6, DefaultIsFile

\* The commands.
LEMMA CommandKeeps ==
  ASSUME RulesInv,
         \/ \E a \in Apps : AppAdd(a) \/ AppRm(a) \/ SubnetAdd(a) \/ SubnetRm(a)
         \/ \E r \in Ranges : BypassAdd(r) \/ BypassRm(r)
         \/ BypassReset
         \/ \E n \in Entries : DomainAdd(n) \/ DomainRm(n)
         \/ DomainReset
         \/ \E p \in Prefs : LogLevel(p)
  PROVE  RulesInv' /\ StillLoads
<1>1. file # Nil
  BY DEF AppAdd, AppRm, SubnetAdd, SubnetRm, BypassAdd, BypassRm, BypassReset, DomainAdd,
         DomainRm, DomainReset, LogLevel, EditIfNew, Edit
<1>2. /\ Read \in Configs /\ Read.apps = mine.apps
      /\ Read.names \in SUBSET Entries /\ Read.bypass \in SUBSET Ranges
      /\ Effective(Read) \in SUBSET Entries
  BY <1>1, ReadIsFile
<1>3. mine \in Own
  BY DEF RulesInv, RulesTypeOK, Own
<1>4. ASSUME NEW c \in Configs, NEW own \in Own, c.apps = own.apps,
             EditIfNew(c, own) \/ Edit(c, own)
      PROVE  RulesInv' /\ StillLoads
  <2>1. Persist(c) /\ mine' = own /\ body' = body
    BY <1>4 DEF EditIfNew, Edit
  <2> QED
    BY <1>4, <2>1, EditKeeps
<1>5. ASSUME NEW S \in SUBSET Apps, EditIfNew([Read EXCEPT !.apps = S], [mine EXCEPT !.apps = S])
      PROVE  RulesInv' /\ StillLoads
  <2>1. /\ [Read EXCEPT !.apps = S] \in Configs /\ [mine EXCEPT !.apps = S] \in Own
        /\ [Read EXCEPT !.apps = S].apps = [mine EXCEPT !.apps = S].apps
    BY <1>2, <1>3 DEF Configs, Own
  <2> QED
    BY <1>4, <1>5, <2>1
<1>6. ASSUME NEW S \in SUBSET Ranges,
             EditIfNew([Read EXCEPT !.bypass = S], mine) \/ Edit([Read EXCEPT !.bypass = S], mine)
      PROVE  RulesInv' /\ StillLoads
  <2>1. [Read EXCEPT !.bypass = S] \in Configs /\ [Read EXCEPT !.bypass = S].apps = mine.apps
    BY <1>2 DEF Configs
  <2> QED
    BY <1>3, <1>4, <1>6, <2>1
<1>7. ASSUME NEW S \in SUBSET Entries, NEW T \in SUBSET Entries,
             Edit([Read EXCEPT !.names = S], [mine EXCEPT !.names = T])
      PROVE  RulesInv' /\ StillLoads
  <2>1. /\ [Read EXCEPT !.names = S] \in Configs /\ [mine EXCEPT !.names = T] \in Own
        /\ [Read EXCEPT !.names = S].apps = [mine EXCEPT !.names = T].apps
    BY <1>2, <1>3 DEF Configs, Own
  <2> QED
    BY <1>4, <1>7, <2>1
<1>8. ASSUME NEW a \in Apps, AppAdd(a) \/ AppRm(a) \/ SubnetAdd(a) \/ SubnetRm(a)
      PROVE  RulesInv' /\ StillLoads
  <2>1. PICK S \in {mine.apps \cup {a}, mine.apps \ {a}} :
          EditIfNew([Read EXCEPT !.apps = S], [mine EXCEPT !.apps = S])
    <3>1. [Read EXCEPT !.apps = @ \cup {a}] = [Read EXCEPT !.apps = mine.apps \cup {a}]
          /\ [Read EXCEPT !.apps = @ \ {a}] = [Read EXCEPT !.apps = mine.apps \ {a}]
      BY <1>2
    <3> QED
      BY <1>8, <3>1 DEF AppAdd, AppRm, SubnetAdd, SubnetRm
  <2>2. S \in SUBSET Apps
    BY <1>3, <1>8 DEF Own
  <2> QED
    BY <1>5, <2>1, <2>2
<1>9. ASSUME NEW r \in Ranges, BypassAdd(r) \/ BypassRm(r)
      PROVE  RulesInv' /\ StillLoads
  <2>1. Read.bypass \cup {r} \in SUBSET Ranges /\ Read.bypass \ {r} \in SUBSET Ranges
    BY <1>2
  <2> QED
    BY <1>6, <1>9, <2>1 DEF BypassAdd, BypassRm
<1>10. ASSUME NEW n \in Entries, DomainAdd(n) \/ DomainRm(n)
       PROVE  RulesInv' /\ StillLoads
  <2>1. /\ Effective(Read) \cup {n} \in SUBSET Entries /\ mine.names \cup {n} \in SUBSET Entries
        /\ Effective(Read) \ {n} \in SUBSET Entries /\ mine.names \ {n} \in SUBSET Entries
    BY <1>2, <1>3 DEF Own
  <2> QED
    BY <1>7, <1>10, <2>1 DEF DomainAdd, DomainRm
<1>11. ASSUME BypassReset \/ DomainReset
       PROVE  RulesInv' /\ StillLoads
  BY <1>6, <1>7, <1>11, Lists DEF BypassReset, DomainReset
<1>12. ASSUME NEW p \in Prefs, LogLevel(p)
       PROVE  RulesInv' /\ StillLoads
  <2>1. [Read EXCEPT !.prefs = p] \in Configs /\ [Read EXCEPT !.prefs = p].apps = mine.apps
    BY <1>2 DEF Configs
  <2> QED
    BY <1>3, <1>4, <1>12, <2>1 DEF LogLevel
<1> QED
  BY <1>8, <1>9, <1>10, <1>11, <1>12

\* The form: the list of apps it shows is the user's own, and a toggle is in both.
LEMMA FormIsOwn ==
  ASSUME RulesInv, NEW f \in Filled(Shown(PanelReads), PanelReads.locked)
  PROVE  /\ f.apps \in SUBSET Apps /\ f.names \in SUBSET Entries /\ f.sw \in [Switches -> States]
         /\ f.mine \in Own /\ f.apps = f.mine.apps
<1> DEFINE g == Shown(PanelReads)
           Forms == [apps : SUBSET Apps, names : SUBSET Entries, mine : Own, sw : [Switches -> States]]
<1>1. mine \in Own
  BY DEF RulesInv, RulesTypeOK, Own
<1>2. g \in Forms /\ g.apps = g.mine.apps
  BY <1>1, ReadIsFile DEF Shown, Own, States
<1> HIDE DEF g
<1>3. CASE f = g
  BY <1>2, <1>3
<1>4. ASSUME NEW a \in Apps, f = [g EXCEPT !.apps = Toggled(@, a), !.mine.apps = Toggled(@, a)]
      PROVE  f \in Forms /\ f.apps = f.mine.apps
  <2>1. Toggled(g.apps, a) \in SUBSET Apps
    BY <1>2 DEF Toggled
  <2>2. [g.mine EXCEPT !.apps = Toggled(@, a)] \in Own
    BY <1>2, <2>1 DEF Own
  <2>3. f = [g EXCEPT !.apps = Toggled(@, a), !.mine = [g.mine EXCEPT !.apps = Toggled(@, a)]]
    BY <1>2, <1>4
  <2> QED
    BY <1>2, <2>1, <2>2, <2>3 DEF Own
<1>5. ASSUME NEW n \in Entries, f = [g EXCEPT !.names = Toggled(@, n), !.mine.names = Toggled(@, n)]
      PROVE  f \in Forms /\ f.apps = f.mine.apps
  <2>1. Toggled(g.names, n) \in SUBSET Entries /\ Toggled(g.mine.names, n) \in SUBSET Entries
    BY <1>2 DEF Toggled, Own
  <2>2. [g.mine EXCEPT !.names = Toggled(@, n)] \in Own
    BY <1>2, <2>1 DEF Own
  <2>3. f = [g EXCEPT !.names = Toggled(@, n), !.mine = [g.mine EXCEPT !.names = Toggled(@, n)]]
    BY <1>2, <1>5
  <2> QED
    BY <1>2, <2>1, <2>2, <2>3 DEF Own
<1>6. ASSUME NEW s \in Switches, f = [g EXCEPT !.sw[s] = IF @ = "on" THEN "off" ELSE "on"]
      PROVE  f \in Forms /\ f.apps = f.mine.apps
  BY <1>2, <1>6 DEF States
<1> QED
  BY <1>2, <1>3, <1>4, <1>5, <1>6 DEF Filled, g

\* The panel: the form over what the file says, and the preferences alone.
LEMMA PanelKeeps ==
  ASSUME RulesInv,
         \/ \E p \in Prefs : PanelSets(p)
         \/ \E f \in Filled(Shown(PanelReads), PanelReads.locked), addr \in {"own", PanelReads.addr},
               managed \in BOOLEAN, merge \in {"override", "replace"} :
              PanelSaves(f, addr, managed, merge)
  PROVE  RulesInv' /\ StillLoads
<1>1. PanelReads \in Configs /\ PanelReads.apps = mine.apps
  BY ReadIsFile
<1>2. ASSUME NEW p \in Prefs, PanelSets(p)
      PROVE  RulesInv' /\ StillLoads
  <2>1. [PanelReads EXCEPT !.prefs = p] \in Configs /\ [PanelReads EXCEPT !.prefs = p].apps = mine.apps
    BY <1>1 DEF Configs
  <2>2. mine \in Own
    BY DEF RulesInv, RulesTypeOK, Own
  <2> QED
    BY <1>2, <2>1, <2>2, EditKeeps DEF PanelSets
<1>3. ASSUME NEW f \in Filled(Shown(PanelReads), PanelReads.locked), NEW addr \in {"own", PanelReads.addr},
             NEW managed \in BOOLEAN, NEW merge \in {"override", "replace"},
             PanelSaves(f, addr, managed, merge)
      PROVE  RulesInv' /\ StillLoads
  <2> DEFINE c == [PanelReads EXCEPT !.addr = addr, !.sw = f.sw, !.apps = f.apps, !.names = f.names,
                                     !.managed = managed, !.merge = merge]
  <2>1. /\ f.apps \in SUBSET Apps /\ f.names \in SUBSET Entries /\ f.sw \in [Switches -> States]
        /\ f.mine \in Own /\ f.apps = f.mine.apps
    BY FormIsOwn
  <2>2. addr \in {"none", "own", "fed"}
    BY <1>1 DEF Configs
  <2>3. c \in Configs /\ c.apps = f.apps
    BY <1>1, <2>1, <2>2 DEF Configs
  <2>4. Persist(c) /\ mine' = f.mine /\ body' = body
    BY <1>3 DEF PanelSaves
  <2> QED
    BY <2>1, <2>3, <2>4, EditKeeps
<1> QED
  BY <1>2, <1>3

\* What the service does by itself, what the server publishes and what a hand writes.
LEMMA FileKeeps ==
  ASSUME RulesInv,
         \/ \E p \in Profiles : Publish(p)
         \/ FirstRun \/ Normalize \/ Fetch
         \/ \E c \in HandWritten : ByHand(c)
  PROVE  RulesInv' /\ StillLoads
<1> USE DEF RulesInv, RulesTypeOK, AppsOf, StillLoads
<1>1. ASSUME NEW p \in Profiles, Publish(p)
      PROVE  RulesInv' /\ StillLoads
  BY <1>1, RulesAssumption DEF Publish, Loads
<1>2. ASSUME FirstRun
      PROVE  RulesInv' /\ StillLoads
  BY <1>2, DefaultIsFile, RulesAssumption DEF FirstRun, Loads
<1>3. ASSUME Normalize
      PROVE  RulesInv' /\ StillLoads
  <2>1. file \in Configs /\ Loads(file) /\ file' = Demoted(Defaulted(file)) /\ UNCHANGED <<body, mine>>
    BY <1>3 DEF Normalize, Loads
  <2>2. file' \in Configs /\ file'.apps = file.apps /\ Loads(file')
    BY <2>1, DemotedLoads
  <2> QED
    BY <2>1, <2>2, RulesAssumption
<1>4. ASSUME Fetch
      PROVE  RulesInv' /\ StillLoads
  <2> DEFINE c == Defaulted(file)
  <2>1. /\ file \in Configs /\ body \in Feeds /\ Fetched(c, body) # Nil /\ file' = Fetched(c, body)
        /\ body' = body
        /\ mine' = IF c.merge = "override" THEN mine
                   ELSE [apps |-> body.apps,
                         names |-> IF body.names = {} THEN mine.names ELSE body.names]
    BY <1>4 DEF Fetch
  <2>2. c \in Configs /\ Settles(c) /\ c.apps = file.apps
    BY <2>1, Reading DEF SameBut
  <2> HIDE DEF c
  <2>3. /\ file' \in Configs /\ Loads(file')
        /\ c.merge = "override" => file'.apps = c.apps
        /\ c.merge # "override" => file'.apps = body.apps
    BY <2>1, <2>2, FetchedLoads
  <2>4. mine' \in [apps : SUBSET Apps, names : SUBSET Entries]
    BY <2>1 DEF Feeds
  <2>5. file' # Nil /\ file # Nil
    BY <2>1, <2>3, RulesAssumption
  <2>6. file'.apps = mine'.apps
    BY <2>1, <2>2, <2>3, <2>5
  <2> QED
    BY <2>1, <2>3, <2>4, <2>5, <2>6
<1>5. ASSUME NEW c \in HandWritten, ByHand(c)
      PROVE  RulesInv' /\ StillLoads
  <2>1. c \in Configs /\ c # Nil
    BY RulesAssumption
  <2>2. Defaulted(c).names \in SUBSET Entries /\ c.apps \in SUBSET Apps
    BY <2>1, Reading DEF Settles, Configs
  <2> QED
    BY <1>5, <2>1, <2>2 DEF ByHand
<1> QED
  BY <1>1, <1>2, <1>3, <1>4, <1>5

\* Every step keeps the invariant, and the file loading.
LEMMA RulesStep ==
  ASSUME RulesInv, [RulesNext]_ruleVars
  PROVE  RulesInv' /\ StillLoads
<1>1. CASE UNCHANGED ruleVars
  <2>1. RulesInv'
    BY <1>1 DEF ruleVars, RulesInv, RulesTypeOK, AppsOf
  <2> QED
    BY <1>1, <2>1 DEF ruleVars, StillLoads, Loads
<1>2. CASE RulesNext
  <2>1. (Apps \cap Listed) \ Subnets \subseteq Apps /\ Subnets \cap Listed \subseteq Apps
        /\ Entries \cap Listed \subseteq Entries
    BY RulesAssumption
  <2> QED
    BY <1>2, <2>1, CommandKeeps, PanelKeeps, FileKeeps DEF RulesNext
<1> QED
  BY <1>1, <1>2

(* The rules' state is what it is said to be, the user's list of apps in the file is what
   the user listed (no app of a feed ever becomes one of the user's), and what is published
   passed the server's checks: the inductive invariant. *)
THEOREM FileIsOwn == RulesSpec => []RulesInv
<1>1. RulesInv /\ [RulesNext]_ruleVars => RulesInv'
  BY RulesStep
<1> QED
  BY RulesStart, <1>1, PTL DEF RulesSpec

(* The user's own list of apps is what the user listed, whatever feeds come and go
   (mergeManagedConfig, getConfig, editConfig). *)
THEOREM AppsStayOwn == RulesSpec => []OwnApps
<1>1. RulesInv => OwnApps
  BY DEF RulesInv, AppsOf, OwnApps
<1> QED
  BY <1>1, FileIsOwn, PTL

(* A file reads the same however often it has been read and written back: the migrations
   of a read are done with after one read (applyDefaults). *)
THEOREM ReadingSettles == RulesSpec => []ReadsSettle
<1>1. RulesInv => ReadsSettle
  BY Reading, SettledReads DEF RulesInv, RulesTypeOK, ReadsSettle
<1> QED
  BY <1>1, FileIsOwn, PTL

(* What the server's checks let through no managed client in override mode refuses
   (SaveProfile against fetchConfig). *)
THEOREM FeedsAreTaken == RulesSpec => []FeedIsTaken
<1>1. ASSUME RulesInv PROVE FeedIsTaken
  <2> SUFFICES ASSUME body # Nil, Loads(file), Defaulted(file).merge = "override"
               PROVE  Fetched(Defaulted(file), body) # Nil
    BY DEF FeedIsTaken
  <2>1. file \in Configs /\ body \in Feeds /\ Publishable(body)
    BY <1>1 DEF RulesInv, RulesTypeOK, Loads
  <2>2. Defaulted(file) \in Configs /\ Settles(Defaulted(file)) /\ Valid(Defaulted(file))
    BY <2>1, Reading DEF Loads
  <2> QED
    BY <2>1, <2>2, PublishedIsTaken
<1> QED
  BY <1>1, FileIsOwn, PTL

(* No step of the program, and no fetch in particular, turns a file that loads into one that
   does not: only a hand does (fetchConfig, editConfig, saveConfig, SetConfig). *)
THEOREM FilesKeepLoading == RulesSpec => KeepsLoading
<1>1. ASSUME RulesInv, [RulesNext]_ruleVars
      PROVE  [Loads(file) /\ ~Loads(file') => \E c \in HandWritten : ByHand(c)]_ruleVars
  BY <1>1, RulesStep DEF StillLoads
<1> QED
  BY <1>1, FileIsOwn, PTL DEF RulesSpec, KeepsLoading

(* A fetch leaves what is about this machine as it was (keepLocalNetworkFacts, deepMerge). *)
THEOREM FetchLeavesLocal == RulesSpec => LocalFactsStay
<1> DEFINE Leaves ==
      LET old == Defaulted(file) IN
       /\ file'.bypass = old.bypass /\ file'.prefs = old.prefs
       /\ (body.names = {} \/ old.merge = "override") => file'.names = old.names
       /\ old.merge = "override" =>
            /\ file'.fakeip = old.fakeip
            /\ \A s \in Switches \ file'.locked : file'.sw[s] = old.sw[s]
<1>1. ASSUME RulesInv, Fetch PROVE Leaves
  <2>1. /\ file \in Configs /\ body \in Feeds /\ Fetched(Defaulted(file), body) # Nil
        /\ file' = Fetched(Defaulted(file), body)
    BY <1>1 DEF Fetch, RulesInv, RulesTypeOK
  <2>2. Defaulted(file) \in Configs /\ Settles(Defaulted(file))
    BY <2>1, Reading
  <2> QED
    BY <2>1, <2>2, FetchedLoads
<1>2. ASSUME RulesInv PROVE [Fetch => Leaves]_ruleVars
  BY <1>1, <1>2
<1> QED
  BY <1>2, FileIsOwn, PTL DEF LocalFactsStay

=============================================================================
