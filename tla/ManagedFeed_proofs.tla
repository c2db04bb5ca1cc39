------------------------- MODULE ManagedFeed_proofs -------------------------
(***************************************************************************)
(* Proofs about ManagedFeed for any addresses, keys, bodies, migrations    *)
(* and numbers of edits: its types, and that no interleaving of fetches,   *)
(* edits, key decisions and normalizing writes moves the trusted key       *)
(* without the user, brings in a body no trusted key vouched for, puts a   *)
(* declined key to him again - unless by a write from before the decline - *)
(* or, undisturbed, touches what is his.                                   *)
(***************************************************************************)
EXTENDS ManagedFeed, TLAPS

\* A body that was served under a trusted key, or came in without a signature.
Vouched(b, keys, as, any) == any \/ \E k \in keys : <<b, k>> \in as

\* What holds of every config there is: on disk, read by a fetch, at the panel or
\* about to be normalized.
Sound(c, keys, as, any) ==
  /\ c.pub = NoKey \/ c.pub \in keys
  /\ c.signed \/ any
  /\ \A b \in Bodies : b \in {c.fed, c.own} => Vouched(b, keys, as, any)

AllSound ==
  /\ Sound(disk, approved, servedAs, lax)
  /\ \A c \in draft \cup normal : Sound(c, approved, servedAs, lax)
  /\ \A f \in Fetchers : Sound(fcfg[f], approved, servedAs, lax)

\* A body past its signature, and the one that is being served.
BodiesVouched ==
  /\ \A f \in Fetchers :
       fphase[f] \in {"mig", "write"} => Vouched(fbody[f], approved, servedAs, lax)
  /\ <<served.body, served.key>> \in servedAs

\* A fetch that nothing overlapped has read what is on disk.
InStep == \A f \in Fetchers : fphase[f] # "idle" /\ f \notin overlap => fcfg[f] = disk

IInv == TypeOK /\ AllSound /\ BodiesVouched /\ InStep

-----------------------------------------------------------------------------
(* Configs. *)

\* What stands for no config is one, and a sound one (lenientConfig).
LEMMA UnreadSound ==
  /\ Unread \in Cfg
  /\ \A keys, as, any : Sound(Unread, keys, as, any)
<1> DEFINE l == CHOOSE x \in Locals : TRUE
<1>1. l \in Locals /\ l \notin Bodies /\ NoFeed \notin Bodies
  BY FeedAssumption
<1>2. Unread \in Cfg
  BY <1>1 DEF Unread, Cfg, Merges
<1>3. ASSUME NEW keys, NEW as, NEW any
      PROVE  Sound(Unread, keys, as, any)
  BY <1>1 DEF Sound, Unread
<1> QED
  BY <1>2, <1>3

\* More keys, bodies and licence never take a voucher away.
LEMMA VouchedGrows ==
  ASSUME NEW keys, NEW as, NEW any \in BOOLEAN, NEW keys2, NEW as2, NEW any2 \in BOOLEAN,
         keys \subseteq keys2, as \subseteq as2, any => any2
  PROVE  \A b : Vouched(b, keys, as, any) => Vouched(b, keys2, as2, any2)
BY DEF Vouched

\* So with configs (the user's decisions and the server's past are never taken back).
LEMMA SoundGrows ==
  ASSUME NEW keys, NEW as, NEW any \in BOOLEAN, NEW keys2, NEW as2, NEW any2 \in BOOLEAN,
         keys \subseteq keys2, as \subseteq as2, any => any2
  PROVE  \A c : Sound(c, keys, as, any) => Sound(c, keys2, as2, any2)
<1>1. \A b : Vouched(b, keys, as, any) => Vouched(b, keys2, as2, any2)
  BY DEF Vouched
<1> SUFFICES ASSUME NEW c, Sound(c, keys, as, any)
             PROVE  Sound(c, keys2, as2, any2)
  OBVIOUS
<1> QED
  BY <1>1 DEF Sound

\* DemoteIfUnmanaged (schema.go:470-494).
LEMMA DemotedSound ==
  ASSUME NEW c \in Cfg
  PROVE  /\ Demoted(c) \in Cfg
         /\ \A keys, as, any : Sound(c, keys, as, any) => Sound(Demoted(c), keys, as, any)
<1>1. CASE Managed(c)
  BY <1>1 DEF Demoted
<1>2. CASE ~Managed(c)
  <2> DEFINE d == [c EXCEPT !.fed = NoFeed, !.locked = FALSE,
                            !.pub = NoKey, !.pending = NoKey, !.declined = NoKey]
  <2>1. Demoted(c) = d
    BY <1>2 DEF Demoted
  <2>2. d \in Cfg
    BY DEF Cfg
  <2>3. /\ d.fed = NoFeed /\ d.pub = NoKey /\ d.pending = NoKey
        /\ d.own = c.own /\ d.signed = c.signed
    BY DEF Cfg
  <2>4. NoFeed \notin Bodies
    BY FeedAssumption
  <2> HIDE DEF d
  <2>5. ASSUME NEW keys, NEW as, NEW any, Sound(c, keys, as, any)
        PROVE  Sound(d, keys, as, any)
    BY <2>3, <2>4, <2>5 DEF Sound
  <2> QED
    BY <2>1, <2>2, <2>5
<1> QED
  BY <1>1, <1>2

\* mergeManagedConfig and applyMigrate keep the key, the decisions and the feed, and the
\* user's own lists unless he asked for the feed to replace them; a key that is put to the
\* user is not the one he declined (configsource_windows.go:157-186, 397-421).
LEMMA MigratedTyped ==
  ASSUME NEW c \in Cfg, NEW b \in Bodies, NEW m \in Migrations
  PROVE  LET new == Migrated(Merged(c, b), m, c) IN
         /\ new \in Cfg
         /\ new.pub = c.pub /\ new.declined = c.declined /\ new.signed = c.signed
         /\ c.merge = "override" => new.own = c.own
         /\ Managed(c) => Managed(new)
         /\ new.own \in {c.own, b} /\ new.fed \in {c.fed, b, NoFeed}
         /\ new.pending = c.pending \/ new.pending # c.declined
<1> DEFINE n == Merged(c, b)
           new == Migrated(n, m, c)
<1>1. /\ n \in Cfg /\ n.url = c.url /\ n.pub = c.pub /\ n.declined = c.declined
      /\ n.signed = c.signed /\ n.pending = c.pending
      /\ n.own \in {c.own, b} /\ n.fed \in {c.fed, b, NoFeed}
      /\ c.merge = "override" => n.own = c.own
  <2> DEFINE locks == b \in Forcing
  <2>1. locks \in BOOLEAN
    OBVIOUS
  <2>2. n = IF c.merge = "override" THEN [c EXCEPT !.fed = b, !.locked = locks]
            ELSE [c EXCEPT !.own = b, !.fed = NoFeed, !.locked = locks]
    BY DEF Merged
  <2> HIDE DEF locks, n
  <2>3. CASE c.merge = "override"
    <3>1. n = [c EXCEPT !.fed = b, !.locked = locks]
      BY <2>2, <2>3
    <3> QED
      BY <3>1, <2>1 DEF Cfg
  <2>4. CASE c.merge # "override"
    <3>1. n = [c EXCEPT !.own = b, !.fed = NoFeed, !.locked = locks]
      BY <2>2, <2>4
    <3> QED
      BY <3>1, <2>1, <2>4 DEF Cfg
  <2> QED
    BY <2>3, <2>4
<1>2. m \in [url : Urls \cup {NoUrl}, merge : Merges \cup {"keep"}, pub : Keys \cup {NoKey}]
  BY FeedAssumption
<1> HIDE DEF n
<1> DEFINE u == IF m.url # NoUrl THEN m.url ELSE n.url
           g == IF m.merge # "keep" THEN m.merge ELSE n.merge
           p == IF m.pub \notin {NoKey, c.pub, c.declined} THEN m.pub ELSE n.pending
<1>3. new = [n EXCEPT !.url = u, !.merge = g, !.pending = p]
  BY <1>1 DEF Migrated, Cfg
<1>4. u \in Urls \cup {NoUrl} /\ g \in Merges /\ p \in Keys \cup {NoKey}
  BY <1>1, <1>2 DEF Cfg
<1>5. (p = n.pending \/ p # c.declined) /\ (n.url # NoUrl => u # NoUrl)
  BY <1>1
<1> HIDE DEF new, u, g, p
<1>6. /\ new \in Cfg
      /\ new.pub = n.pub /\ new.declined = n.declined /\ new.signed = n.signed
      /\ new.own = n.own /\ new.fed = n.fed /\ new.url = u /\ new.pending = p
  BY <1>1, <1>3, <1>4 DEF Cfg
<1> QED
  BY <1>1, <1>5, <1>6 DEF n, new, Managed

\* Of a sound config and a vouched body they make a sound config.
LEMMA MigratedSound ==
  ASSUME NEW c \in Cfg, NEW b \in Bodies, NEW m \in Migrations,
         NEW keys, NEW as, NEW any,
         Sound(c, keys, as, any), Vouched(b, keys, as, any)
  PROVE  Sound(Migrated(Merged(c, b), m, c), keys, as, any)
<1> DEFINE new == Migrated(Merged(c, b), m, c)
<1>1. /\ new.pub = c.pub /\ new.declined = c.declined /\ new.signed = c.signed
      /\ new.own \in {c.own, b} /\ new.fed \in {c.fed, b, NoFeed}
  BY MigratedTyped
<1> HIDE DEF new
<1>2. NoFeed \notin Bodies
  BY FeedAssumption
<1>3. new.pub = NoKey \/ new.pub \in keys
  BY <1>1 DEF Sound
<1>4. new.signed \/ any
  BY <1>1 DEF Sound
<1>5. ASSUME NEW x \in Bodies, x \in {new.fed, new.own}
      PROVE  Vouched(x, keys, as, any)
  BY <1>5, <1>1, <1>2 DEF Sound
<1> QED
  BY <1>3, <1>4, <1>5 DEF Sound, new

-----------------------------------------------------------------------------
(* The initial state. *)

\* A client that has not fetched yet (superviseConfigSource's start).
LEMMA InitInv == Init => IInv
<1> SUFFICES ASSUME Init
             PROVE  IInv
  OBVIOUS
<1> USE DEF Init
<1>1. /\ disk \in Cfg /\ disk.own \in Locals /\ disk.fed = NoFeed
  BY FeedAssumption
<1>2. /\ served \in [body : Bodies, key : Keys, mig : Migrations]
      /\ NoMigration \in Migrations
  BY FeedAssumption
<1>3. TypeOK
  <2>1. fcfg \in [Fetchers -> Cfg]
    BY UnreadSound
  <2>2. fmig \in [Fetchers -> Migrations] /\ fbody \in [Fetchers -> Bodies \cup {NoFeed}]
    BY <1>2
  <2>3. fphase \in [Fetchers -> {"idle", "body", "sig", "mig", "write"}]
        /\ \A f \in Fetchers : fphase[f] = "idle"
    OBVIOUS
  <2>4. edits \in 0..MaxEdits /\ serves \in 0..MaxServes
    BY FeedAssumption
  <2>5. approved \subseteq Keys /\ servedAs \subseteq Bodies \X Keys
    BY <1>1, <1>2 DEF Cfg
  <2>6. overlap \subseteq Fetchers /\ draft \subseteq Cfg /\ normal \subseteq Cfg
        /\ (\A c, d \in draft : c = d) /\ (\A c, d \in normal : c = d)
    OBVIOUS
  <2>7. /\ down \in BOOLEAN /\ lax \in BOOLEAN
        /\ refused \in Keys \cup {NoKey} /\ muddled \in BOOLEAN
    BY <1>1 DEF Cfg
  <2>8. \A f \in Fetchers : /\ fphase[f] # "idle" => fcfg[f].url # NoUrl
                            /\ fphase[f] \in {"sig", "mig", "write"} => fbody[f] \in Bodies
    BY <2>3
  <2> QED
    BY <1>1, <1>2, <2>1, <2>2, <2>3, <2>4, <2>5, <2>6, <2>7, <2>8, Zenon DEF TypeOK
<1>4. AllSound
  <2>1. Sound(disk, approved, servedAs, lax)
    <3>1. \A b \in Bodies : b \notin {disk.fed, disk.own}
      BY <1>1, FeedAssumption
    <3>2. disk.pub = NoKey \/ disk.pub \in approved
      OBVIOUS
    <3>3. disk.signed \/ lax
      OBVIOUS
    <3> QED
      BY <1>1, <3>1, <3>2, <3>3 DEF Sound
  <2>2. \A f \in Fetchers : Sound(fcfg[f], approved, servedAs, lax)
    BY UnreadSound
  <2> QED
    BY <2>1, <2>2 DEF AllSound
<1>5. BodiesVouched /\ InStep
  BY DEF BodiesVouched, InStep
<1> QED
  BY <1>3, <1>4, <1>5 DEF IInv

-----------------------------------------------------------------------------
(* Types. *)

\* What the fetches know of their own.
FetchTyped ==
  /\ fphase \in [Fetchers -> {"idle", "body", "sig", "mig", "write"}]
  /\ fcfg \in [Fetchers -> Cfg]
  /\ fbody \in [Fetchers -> Bodies \cup {NoFeed}]
  /\ fmig \in [Fetchers -> Migrations]
  /\ \A f \in Fetchers : /\ fphase[f] # "idle" => fcfg[f].url # NoUrl
                         /\ fphase[f] \in {"sig", "mig", "write"} => fbody[f] \in Bodies

WorldTyped ==
  /\ served \in [body : Bodies, key : Keys, mig : Migrations]
  /\ down \in BOOLEAN /\ serves \in 0..MaxServes /\ servedAs \subseteq Bodies \X Keys

UserTyped ==
  /\ draft \subseteq Cfg /\ \A c, d \in draft : c = d
  /\ edits \in 0..MaxEdits /\ approved \subseteq Keys /\ lax \in BOOLEAN
  /\ refused \in Keys \cup {NoKey}

DiskTyped ==
  /\ disk \in Cfg /\ overlap \subseteq Fetchers /\ muddled \in BOOLEAN
  /\ normal \subseteq Cfg /\ \A c, d \in normal : c = d

\* The four parts are the whole, before and after a step (the sections of the source).
LEMMA TypeParts ==
  /\ TypeOK <=> FetchTyped /\ WorldTyped /\ UserTyped /\ DiskTyped
  /\ TypeOK' <=> FetchTyped' /\ WorldTyped' /\ UserTyped' /\ DiskTyped'
BY DEF TypeOK, FetchTyped, WorldTyped, UserTyped, DiskTyped

\* Each part stays typed while its variables stay (the source's reads).
LEMMA TypeStays ==
  /\ FetchTyped /\ UNCHANGED fetchVars => FetchTyped'
  /\ WorldTyped /\ UNCHANGED serverVars => WorldTyped'
  /\ UserTyped /\ UNCHANGED userVars => UserTyped'
  /\ DiskTyped /\ UNCHANGED <<disk, staleVars, normal>> => DiskTyped'
BY DEF FetchTyped, WorldTyped, UserTyped, DiskTyped, fetchVars, serverVars, userVars, staleVars

\* A fetch that ends forgets what it had (fetchConfig's returns).
LEMMA IdleTyped ==
  ASSUME FetchTyped, NEW f \in Fetchers, Idle(f)
  PROVE  /\ FetchTyped' /\ fphase' = [fphase EXCEPT ![f] = "idle"]
         /\ fcfg' = [fcfg EXCEPT ![f] = Unread]
<1>1. Unread \in Cfg /\ NoMigration \in Migrations
  BY UnreadSound, FeedAssumption
<1> QED
  BY <1>1 DEF Idle, Phase, FetchTyped

\* A file that is written with a config (SaveTo).
LEMMA WriteTyped ==
  ASSUME DiskTyped, NEW c \in Cfg, NEW read, NEW done, Write(c, read, done), UNCHANGED normal
  PROVE  DiskTyped'
BY DEF Write, DiskTyped

\* The user edits a config (bindings_windows.go:378-420, 572-591).
LEMMA EditTyped ==
  ASSUME UserTyped, NEW c \in Cfg, Edit(c), approved' \subseteq Keys, lax' \in BOOLEAN,
         refused' \in Keys \cup {NoKey}
  PROVE  UserTyped'
<1>1. edits + 1 \in 0..MaxEdits
  BY FeedAssumption DEF UserTyped, Edit
<1> QED
  BY <1>1 DEF UserTyped, Edit

\* The server serves something else (SaveProfile, resignAllLocked).
LEMMA ServeTyped ==
  ASSUME WorldTyped, NEW s \in [body : Bodies, key : Keys, mig : Migrations], Serve(s)
  PROVE  WorldTyped'
<1>1. serves + 1 \in 0..MaxServes
  BY FeedAssumption DEF WorldTyped, Serve
<1>2. <<s.body, s.key>> \in Bodies \X Keys
  OBVIOUS
<1> QED
  BY <1>1, <1>2 DEF WorldTyped, Serve

\* Every step keeps the types.
LEMMA StepTyped == TypeOK /\ [Next]_vars => TypeOK'
<1> SUFFICES ASSUME FetchTyped, WorldTyped, UserTyped, DiskTyped, [Next]_vars
             PROVE  FetchTyped' /\ WorldTyped' /\ UserTyped' /\ DiskTyped'
  BY TypeParts
<1>1. ASSUME NEW f \in Fetchers, StartFetch(f)
      PROVE  FetchTyped' /\ WorldTyped' /\ UserTyped' /\ DiskTyped'
  <2>1. FetchTyped'
    BY <1>1 DEF StartFetch, Phase, FetchTyped, DiskTyped, Managed
  <2> QED
    BY <1>1, <2>1, TypeStays DEF StartFetch
<1>2. ASSUME NEW f \in Fetchers, GetBody(f)
      PROVE  FetchTyped' /\ WorldTyped' /\ UserTyped' /\ DiskTyped'
  <2>1. FetchTyped'
    <3>1. CASE Idle(f)
      BY <3>1, IdleTyped
    <3>2. CASE ~Idle(f)
      <4>1. /\ \E p \in {"sig", "write"} : fphase' = [fphase EXCEPT ![f] = p]
            /\ fbody' = [fbody EXCEPT ![f] = served.body] /\ UNCHANGED <<fcfg, fmig>>
            /\ fphase[f] = "body"
        BY <1>2, <3>2 DEF GetBody, Phase
      <4>2. served.body \in Bodies
        BY DEF WorldTyped
      <4> QED
        BY <4>1, <4>2 DEF FetchTyped
    <3> QED
      BY <3>1, <3>2
  <2>2. DiskTyped'
    BY <1>2 DEF GetBody, DiskTyped
  <2> QED
    BY <1>2, <2>1, <2>2, TypeStays DEF GetBody
<1>3. ASSUME NEW f \in Fetchers, GetSig(f)
      PROVE  FetchTyped' /\ WorldTyped' /\ UserTyped' /\ DiskTyped'
  <2>1. FetchTyped'
    <3>1. CASE Idle(f)
      BY <3>1, IdleTyped
    <3>2. CASE ~Idle(f)
      BY <1>3, <3>2 DEF GetSig, Phase, FetchTyped
    <3> QED
      BY <3>1, <3>2
  <2>2. DiskTyped'
    BY <1>3 DEF GetSig, DiskTyped
  <2> QED
    BY <1>3, <2>1, <2>2, TypeStays DEF GetSig
<1>4. ASSUME NEW f \in Fetchers, Fail(f)
      PROVE  FetchTyped' /\ WorldTyped' /\ UserTyped' /\ DiskTyped'
  <2>1. DiskTyped'
    BY <1>4 DEF Fail, DiskTyped
  <2> QED
    BY <1>4, <2>1, IdleTyped, TypeStays DEF Fail
<1>5. ASSUME NEW f \in Fetchers, GetMigration(f)
      PROVE  FetchTyped' /\ WorldTyped' /\ UserTyped' /\ DiskTyped'
  <2>1. FetchTyped'
    <3>1. served.mig \in Migrations /\ NoMigration \in Migrations
      BY FeedAssumption DEF WorldTyped
    <3> QED
      BY <1>5, <3>1 DEF GetMigration, Phase, FetchTyped
  <2> QED
    BY <1>5, <2>1, TypeStays DEF GetMigration
<1>6. ASSUME NEW f \in Fetchers, Apply(f)
      PROVE  FetchTyped' /\ WorldTyped' /\ UserTyped' /\ DiskTyped'
  <2> DEFINE new == Migrated(Merged(fcfg[f], fbody[f]), fmig[f], fcfg[f])
  <2>1. new \in Cfg /\ disk \in Cfg
    <3>1. /\ fcfg[f] \in Cfg /\ fmig[f] \in Migrations /\ fbody[f] \in Bodies
      BY <1>6 DEF Apply, FetchTyped
    <3> QED
      BY <3>1, MigratedTyped DEF DiskTyped
  <2>2. \E c \in {new, disk} : \E read : Write(c, read, {f})
    BY <1>6 DEF Apply
  <2> HIDE DEF new
  <2>3. DiskTyped'
    BY <1>6, <2>1, <2>2, WriteTyped DEF Apply
  <2> QED
    BY <1>6, <2>3, IdleTyped, TypeStays DEF Apply
<1>7. CASE Save
  <2> PICK form \in Forms :
        /\ Edit([disk EXCEPT !.url = form.url, !.signed = form.signed, !.merge = form.merge,
                             !.pub = form.pub, !.own = form.own])
        /\ approved' = approved \cup ({form.pub} \ {NoKey})
        /\ lax' = (lax \/ ~form.signed)
        /\ refused' \in {NoKey, refused}
    BY <1>7 DEF Save
  <2>1. form \in [url : Urls \cup {NoUrl}, signed : BOOLEAN, merge : Merges,
                  pub : Keys \cup {NoKey}, own : Locals]
    BY FeedAssumption
  <2>2. [disk EXCEPT !.url = form.url, !.signed = form.signed, !.merge = form.merge,
                     !.pub = form.pub, !.own = form.own] \in Cfg
    BY <2>1 DEF DiskTyped, Cfg
  <2>3. approved' \subseteq Keys /\ lax' \in BOOLEAN /\ refused' \in Keys \cup {NoKey}
    BY <2>1 DEF UserTyped
  <2>4. UserTyped'
    BY <2>2, <2>3, EditTyped
  <2> QED
    BY <1>7, <2>4, TypeStays DEF Save
<1>8. CASE AcceptKey
  <2>1. [disk EXCEPT !.pub = disk.pending, !.pending = NoKey, !.declined = NoKey] \in Cfg
    BY DEF DiskTyped, Cfg
  <2>2. approved' \subseteq Keys /\ lax' \in BOOLEAN /\ refused' \in Keys \cup {NoKey}
    BY <1>8 DEF AcceptKey, UserTyped, DiskTyped, Cfg
  <2>3. UserTyped'
    BY <1>8, <2>1, <2>2, EditTyped DEF AcceptKey
  <2> QED
    BY <1>8, <2>3, TypeStays DEF AcceptKey
<1>9. CASE DeclineKey
  <2>1. [disk EXCEPT !.declined = disk.pending, !.pending = NoKey] \in Cfg
    BY DEF DiskTyped, Cfg
  <2>2. refused' \in Keys \cup {NoKey}
    BY <1>9 DEF DeclineKey, UserTyped, DiskTyped, Cfg
  <2>3. UserTyped'
    BY <1>9, <2>1, <2>2, EditTyped DEF DeclineKey, UserTyped
  <2>4. muddled' \in BOOLEAN
    BY <1>9 DEF DeclineKey
  <2>5. DiskTyped'
    BY <1>9, <2>4 DEF DeclineKey, DiskTyped
  <2> QED
    BY <1>9, <2>3, <2>5, TypeStays DEF DeclineKey
<1>10. CASE Commit
  <2>1. PICK c \in draft :
          /\ Write(Demoted(c), disk, {}) \/ Write(c, disk, {})
          /\ draft' = {}
          /\ UNCHANGED <<serverVars, fetchVars, edits, approved, lax, refused, normal>>
    BY <1>10 DEF Commit
  <2>2. c \in Cfg /\ Demoted(c) \in Cfg
    BY DemotedSound DEF UserTyped
  <2>3. DiskTyped'
    BY <2>1, <2>2, WriteTyped
  <2>4. UserTyped'
    BY <2>1 DEF UserTyped
  <2> QED
    BY <2>1, <2>3, <2>4, TypeStays
<1>11. CASE NormalizeRead
  <2>1. DiskTyped'
    BY <1>11 DEF NormalizeRead, DiskTyped, staleVars
  <2> QED
    BY <1>11, <2>1, TypeStays DEF NormalizeRead
<1>12. CASE NormalizeWrite
  <2>1. PICK c \in normal : Write(Demoted(c), c, {}) /\ normal' = {}
                            /\ UNCHANGED <<serverVars, fetchVars, userVars>>
    BY <1>12 DEF NormalizeWrite
  <2>2. Demoted(c) \in Cfg
    BY DemotedSound DEF DiskTyped
  <2>3. DiskTyped'
    BY <2>1, <2>2 DEF Write, DiskTyped
  <2> QED
    BY <2>1, <2>3, TypeStays
<1>13. CASE SaveProfile \/ RotateKey \/ SetMigration
  <2>1. \E s \in [body : Bodies, key : Keys, mig : Migrations] : Serve(s)
    BY <1>13 DEF SaveProfile, RotateKey, SetMigration, WorldTyped
  <2>2. WorldTyped'
    BY <2>1, ServeTyped
  <2> QED
    BY <2>1, <2>2, TypeStays DEF Serve
<1>14. CASE Outage
  <2>1. WorldTyped'
    BY <1>14 DEF Outage, WorldTyped
  <2> QED
    BY <1>14, <2>1, TypeStays DEF Outage, fetchVars, userVars
<1>15. CASE UNCHANGED vars
  BY <1>15, TypeStays DEF vars
<1> QED
  BY <1>1, <1>2, <1>3, <1>4, <1>5, <1>6, <1>7, <1>8, <1>9, <1>10, <1>11, <1>12, <1>13,
     <1>14, <1>15 DEF Next, FetchStep

-----------------------------------------------------------------------------
(* The invariant. *)

\* Nothing is untrusted, unvouched or unlicensed again (the user's decisions stand).
LEMMA Monotone ==
  ASSUME TypeOK, TypeOK', [Next]_vars
  PROVE  /\ approved \subseteq approved' /\ servedAs \subseteq servedAs' /\ (lax => lax')
         /\ lax \in BOOLEAN /\ lax' \in BOOLEAN
<1>1. approved \subseteq approved' /\ (lax => lax')
  <2>1. CASE Save
    BY <2>1 DEF Save
  <2>2. CASE AcceptKey
    BY <2>2 DEF AcceptKey
  <2>3. CASE ~Save /\ ~AcceptKey
    <3>1. ASSUME NEW f \in Fetchers, StartFetch(f) \/ FetchStep(f)
          PROVE  approved' = approved /\ lax' = lax
      BY <3>1 DEF FetchStep, StartFetch, GetBody, GetSig, Fail, GetMigration, Apply, userVars
    <3>2. ASSUME DeclineKey \/ Commit \/ NormalizeRead \/ NormalizeWrite \/ Outage \/ UNCHANGED vars
          PROVE  approved' = approved /\ lax' = lax
      BY <3>2 DEF DeclineKey, Commit, NormalizeRead, NormalizeWrite, Outage, userVars, vars
    <3>3. ASSUME SaveProfile \/ RotateKey \/ SetMigration
          PROVE  approved' = approved /\ lax' = lax
      BY <3>3 DEF SaveProfile, RotateKey, SetMigration, Serve, userVars
    <3>4. approved' = approved /\ lax' = lax
      BY <2>3, <3>1, <3>2, <3>3 DEF Next
    <3> QED
      BY <3>4
  <2> QED
    BY <2>1, <2>2, <2>3
<1>2. servedAs \subseteq servedAs'
  BY DEF Next, FetchStep, StartFetch, GetBody, GetSig, Fail, GetMigration, Apply, DeclineKey,
     Save, AcceptKey, Commit, NormalizeRead, NormalizeWrite, SaveProfile, RotateKey, SetMigration,
     Serve, Outage, serverVars, vars
<1> QED
  BY <1>1, <1>2 DEF TypeOK

\* What a step does to the configs: each is one there was before, or a sound one.
LEMMA StepSound ==
  ASSUME IInv, TypeOK', [Next]_vars
  PROVE  AllSound'
<1> DEFINE Before(c) == Sound(c, approved, servedAs, lax)
           After(c)  == Sound(c, approved', servedAs', lax')
<1>1. \A c : Before(c) => After(c)
  BY Monotone, SoundGrows DEF IInv
<1>2. /\ Before(disk) /\ (\A c \in draft \cup normal : Before(c))
      /\ \A f \in Fetchers : Before(fcfg[f])
  BY DEF IInv, AllSound
<1>3. After(Unread)
  BY UnreadSound
<1>4. /\ disk \in Cfg /\ draft \subseteq Cfg /\ normal \subseteq Cfg
      /\ fcfg \in [Fetchers -> Cfg]
  BY DEF IInv, TypeOK
<1> SUFFICES /\ After(disk') /\ (\A c \in draft' \cup normal' : After(c))
             /\ \A f \in Fetchers : After(fcfg'[f])
  BY DEF AllSound
<1>5. CASE UNCHANGED <<disk, draft, normal, fcfg>>
  <2> HIDE DEF Before, After
  <2> QED
    BY <1>5, <1>1, <1>2
<1>6. ASSUME NEW f \in Fetchers, Idle(f)
      PROVE  \A g \in Fetchers : After(fcfg'[g])
  <2> HIDE DEF Before, After
  <2>1. fcfg' = [fcfg EXCEPT ![f] = Unread]
    BY <1>6 DEF Idle
  <2> QED
    BY <2>1, <1>1, <1>2, <1>3, <1>4
<1>7. ASSUME NEW f \in Fetchers, StartFetch(f) \/ FetchStep(f), ~Apply(f)
      PROVE  /\ After(disk') /\ (\A c \in draft' \cup normal' : After(c))
             /\ \A g \in Fetchers : After(fcfg'[g])
  <2> HIDE DEF Before, After
  <2>1. UNCHANGED <<disk, draft, normal>>
    BY <1>7 DEF FetchStep, StartFetch, GetBody, GetSig, Fail, GetMigration, userVars
  <2>2. \/ fcfg' = [fcfg EXCEPT ![f] = disk] \/ fcfg' = fcfg \/ Idle(f)
    BY <1>7 DEF FetchStep, StartFetch, GetBody, GetSig, Fail, GetMigration
  <2>3. \A g \in Fetchers : After(fcfg'[g])
    BY <2>2, <1>1, <1>2, <1>4, <1>6
  <2> QED
    BY <2>1, <2>3, <1>1, <1>2
<1>8. ASSUME NEW f \in Fetchers, Apply(f)
      PROVE  /\ After(disk') /\ (\A c \in draft' \cup normal' : After(c))
             /\ \A g \in Fetchers : After(fcfg'[g])
  <2> DEFINE new == Migrated(Merged(fcfg[f], fbody[f]), fmig[f], fcfg[f])
  <2>1. fmig[f] \in Migrations /\ fbody[f] \in Bodies /\ fphase[f] = "write"
    BY <1>8 DEF Apply, IInv, TypeOK
  <2>2. Vouched(fbody[f], approved, servedAs, lax)
    BY <2>1 DEF IInv, BodiesVouched
  <2>3. Before(new)
    BY <2>1, <2>2, <1>2, <1>4, MigratedSound
  <2>4. disk' \in {new, disk}
    BY <1>8 DEF Apply, Write
  <2>5. UNCHANGED <<draft, normal>> /\ Idle(f)
    BY <1>8 DEF Apply, userVars
  <2> HIDE DEF new, Before, After
  <2> QED
    BY <2>3, <2>4, <2>5, <1>1, <1>2, <1>6
<1>9. CASE Save
  <2> PICK form \in Forms :
        /\ Edit([disk EXCEPT !.url = form.url, !.signed = form.signed, !.merge = form.merge,
                             !.pub = form.pub, !.own = form.own])
        /\ approved' = approved \cup ({form.pub} \ {NoKey})
        /\ lax' = (lax \/ ~form.signed)
    BY <1>9 DEF Save
  <2> DEFINE c == [disk EXCEPT !.url = form.url, !.signed = form.signed, !.merge = form.merge,
                               !.pub = form.pub, !.own = form.own]
  <2>1. form.own \in Locals /\ form.own \notin Bodies
    BY FeedAssumption
  <2>2. /\ c.pub = form.pub /\ c.signed = form.signed /\ c.own = form.own /\ c.fed = disk.fed
    BY <1>4 DEF Cfg
  <2>3. draft' = {c} /\ UNCHANGED <<disk, normal, fcfg>>
    BY <1>9 DEF Edit, Save, fetchVars
  <2> HIDE DEF c
  <2>4. After(disk)
    BY <1>1, <1>2
  <2>5. c.pub = NoKey \/ c.pub \in approved'
    BY <2>2
  <2>6. c.signed \/ lax'
    BY <2>2
  <2>7. \A b \in Bodies : b \in {c.fed, c.own} => Vouched(b, approved', servedAs', lax')
    BY <2>1, <2>2, <2>4 DEF Sound
  <2>9. After(c)
    BY <2>5, <2>6, <2>7 DEF Sound
  <2> HIDE DEF Before, After
  <2> QED
    BY <2>3, <2>9, <1>1, <1>2
<1>10. CASE AcceptKey
  <2> DEFINE c == [disk EXCEPT !.pub = disk.pending, !.pending = NoKey, !.declined = NoKey]
  <2>1. /\ c.pub = disk.pending /\ c.signed = disk.signed /\ c.own = disk.own
        /\ c.fed = disk.fed /\ c.pending = NoKey
    BY <1>4 DEF Cfg
  <2>2. /\ draft' = {c} /\ UNCHANGED <<disk, normal, fcfg>>
        /\ approved' = approved \cup {disk.pending}
    BY <1>10 DEF Edit, AcceptKey, fetchVars
  <2>3. After(disk)
    BY <1>1, <1>2
  <2> HIDE DEF c
  <2>4. After(c)
    BY <2>1, <2>2, <2>3 DEF Sound
  <2> HIDE DEF Before, After
  <2> QED
    BY <2>2, <2>4, <1>1, <1>2
<1>11. CASE DeclineKey
  <2> DEFINE c == [disk EXCEPT !.declined = disk.pending, !.pending = NoKey]
  <2>1. /\ c.pub = disk.pub /\ c.signed = disk.signed /\ c.own = disk.own
        /\ c.fed = disk.fed /\ c.pending = NoKey
    BY <1>4 DEF Cfg
  <2>2. draft' = {c} /\ UNCHANGED <<disk, normal, fcfg>>
    BY <1>11 DEF Edit, DeclineKey, fetchVars
  <2>3. After(disk)
    BY <1>1, <1>2
  <2> HIDE DEF c
  <2>4. After(c)
    BY <2>1, <2>3 DEF Sound
  <2> HIDE DEF Before, After
  <2> QED
    BY <2>2, <2>4, <1>1, <1>2
<1>12. CASE Commit
  <2>1. PICK c \in draft : /\ disk' \in {Demoted(c), c} /\ draft' = {}
                           /\ UNCHANGED <<normal, fcfg>>
    BY <1>12 DEF Commit, Write, fetchVars
  <2>2. Before(Demoted(c)) /\ Before(c)
    BY <2>1, <1>2, <1>4, DemotedSound
  <2> HIDE DEF Before, After
  <2> QED
    BY <2>1, <2>2, <1>1, <1>2
<1>13. CASE NormalizeRead
  <2>1. normal' = {disk} /\ UNCHANGED <<disk, draft, fcfg>>
    BY <1>13 DEF NormalizeRead, fetchVars, userVars
  <2> HIDE DEF Before, After
  <2> QED
    BY <2>1, <1>1, <1>2
<1>14. CASE NormalizeWrite
  <2>1. PICK c \in normal : disk' = Demoted(c) /\ normal' = {} /\ UNCHANGED <<draft, fcfg>>
    BY <1>14 DEF NormalizeWrite, Write, fetchVars, userVars
  <2>2. Before(Demoted(c))
    BY <2>1, <1>2, <1>4, DemotedSound
  <2> HIDE DEF Before, After
  <2> QED
    BY <2>1, <2>2, <1>1, <1>2
<1>15. CASE SaveProfile \/ RotateKey \/ SetMigration \/ Outage \/ UNCHANGED vars
  <2>1. UNCHANGED <<disk, draft, normal, fcfg>>
    BY <1>15 DEF SaveProfile, RotateKey, SetMigration, Serve, Outage, vars, fetchVars, userVars
  <2> QED
    BY <2>1, <1>5
<1> HIDE DEF Before, After
<1> QED
  BY <1>7, <1>8, <1>9, <1>10, <1>11, <1>12, <1>13, <1>14, <1>15 DEF Next

\* A body that gets past its signature is vouched for: the signature is the trusted key's,
\* asked for while the server still served that body (configsource_windows.go:138-156).
LEMMA StepVouched ==
  ASSUME IInv, TypeOK', [Next]_vars
  PROVE  BodiesVouched'
<1> DEFINE Before(b) == Vouched(b, approved, servedAs, lax)
           After(b)  == Vouched(b, approved', servedAs', lax')
           Past(p)   == p \in {"mig", "write"}
<1>1. \A b : Before(b) => After(b)
  <2>1. /\ approved \subseteq approved' /\ servedAs \subseteq servedAs' /\ (lax => lax')
        /\ lax \in BOOLEAN /\ lax' \in BOOLEAN
    BY Monotone DEF IInv
  <2> QED
    BY <2>1, VouchedGrows
<1>2. /\ \A f \in Fetchers : Past(fphase[f]) => Before(fbody[f])
      /\ <<served.body, served.key>> \in servedAs
  BY DEF IInv, BodiesVouched
<1>3. /\ fphase \in [Fetchers -> {"idle", "body", "sig", "mig", "write"}]
      /\ fbody \in [Fetchers -> Bodies \cup {NoFeed}]
      /\ served \in [body : Bodies, key : Keys, mig : Migrations]
  BY DEF IInv, TypeOK
<1>4. ASSUME fphase' = fphase /\ fbody' = fbody
      PROVE  \A f \in Fetchers : Past(fphase'[f]) => After(fbody'[f])
  <2> HIDE DEF Before, After
  <2> QED
    BY <1>1, <1>2, <1>4
<1>5. ASSUME NEW f \in Fetchers,
             \A g \in Fetchers \ {f} : fphase'[g] = fphase[g] /\ fbody'[g] = fbody[g],
             ~Past(fphase'[f])
      PROVE  \A g \in Fetchers : Past(fphase'[g]) => After(fbody'[g])
  <2> HIDE DEF Before, After
  <2> QED
    BY <1>1, <1>2, <1>5
<1>6. ASSUME NEW f \in Fetchers, Idle(f)
      PROVE  \A g \in Fetchers : Past(fphase'[g]) => After(fbody'[g])
  <2>1. /\ \A g \in Fetchers \ {f} : fphase'[g] = fphase[g] /\ fbody'[g] = fbody[g]
        /\ fphase'[f] = "idle"
    BY <1>6, <1>3 DEF Idle, Phase
  <2> HIDE DEF After
  <2> QED
    BY <2>1, <1>5
<1>7. ASSUME NEW f \in Fetchers, StartFetch(f)
      PROVE  \A g \in Fetchers : Past(fphase'[g]) => After(fbody'[g])
  <2>1. /\ \A g \in Fetchers \ {f} : fphase'[g] = fphase[g] /\ fbody'[g] = fbody[g]
        /\ fphase'[f] = "body"
    BY <1>7, <1>3 DEF StartFetch, Phase
  <2> HIDE DEF After
  <2> QED
    BY <2>1, <1>5
<1>8. ASSUME NEW f \in Fetchers, GetBody(f)
      PROVE  \A g \in Fetchers : Past(fphase'[g]) => After(fbody'[g])
  <2>1. CASE Idle(f)
    BY <2>1, <1>6
  <2>2. CASE ~Idle(f) /\ fcfg[f].signed
    <3>1. /\ \A g \in Fetchers \ {f} : fphase'[g] = fphase[g] /\ fbody'[g] = fbody[g]
          /\ fphase'[f] = "sig"
      BY <1>8, <2>2, <1>3 DEF GetBody, Phase
    <3> HIDE DEF After
    <3> QED
      BY <3>1, <1>5
  <2>3. CASE ~Idle(f) /\ ~fcfg[f].signed
    <3>1. /\ \A g \in Fetchers \ {f} : fphase'[g] = fphase[g] /\ fbody'[g] = fbody[g]
      BY <1>8, <2>3, <1>3 DEF GetBody, Phase
    <3>2. lax
      BY <2>3 DEF IInv, AllSound, Sound
    <3>3. \A b : After(b)
      BY <3>2, <1>1 DEF Vouched
    <3> HIDE DEF After
    <3> QED
      BY <3>3
  <2> QED
    BY <2>1, <2>2, <2>3
<1>9. ASSUME NEW f \in Fetchers, GetSig(f)
      PROVE  \A g \in Fetchers : Past(fphase'[g]) => After(fbody'[g])
  <2>1. CASE Idle(f)
    BY <2>1, <1>6
  <2>2. CASE ~Idle(f)
    <3>1. /\ served.body = fbody[f] /\ served.key = fcfg[f].pub
          /\ fbody' = fbody /\ \A g \in Fetchers \ {f} : fphase'[g] = fphase[g]
      BY <1>9, <2>2, <1>3 DEF GetSig, Phase
    <3>2. served.key \in approved
      <4>1. fcfg[f].pub = NoKey \/ fcfg[f].pub \in approved
        BY DEF IInv, AllSound, Sound
      <4>2. served.key # NoKey
        BY <1>3, FeedAssumption
      <4> QED
        BY <3>1, <4>1, <4>2
    <3>3. Before(fbody[f])
      BY <1>2, <3>1, <3>2 DEF Vouched
    <3> HIDE DEF Before, After
    <3> QED
      BY <1>1, <1>2, <3>1, <3>3
  <2> QED
    BY <2>1, <2>2
<1>10. ASSUME NEW f \in Fetchers, Fail(f) \/ Apply(f)
      PROVE  \A g \in Fetchers : Past(fphase'[g]) => After(fbody'[g])
  BY <1>6, <1>10 DEF Fail, Apply
<1>11. ASSUME NEW f \in Fetchers, GetMigration(f)
      PROVE  \A g \in Fetchers : Past(fphase'[g]) => After(fbody'[g])
  <2>1. /\ Past(fphase[f]) /\ fbody' = fbody
        /\ \A g \in Fetchers \ {f} : fphase'[g] = fphase[g]
    BY <1>11, <1>3 DEF GetMigration, Phase
  <2> HIDE DEF Before, After
  <2> QED
    BY <1>1, <1>2, <2>1
<1>12. ASSUME \/ Save \/ AcceptKey \/ DeclineKey \/ Commit \/ NormalizeRead \/ NormalizeWrite
              \/ SaveProfile \/ RotateKey \/ SetMigration \/ Outage \/ UNCHANGED vars
       PROVE  \A g \in Fetchers : Past(fphase'[g]) => After(fbody'[g])
  <2>1. fphase' = fphase /\ fbody' = fbody
    BY <1>12 DEF Save, AcceptKey, DeclineKey, Commit, NormalizeRead, NormalizeWrite, SaveProfile,
       RotateKey, SetMigration, Serve, Outage, fetchVars, staleVars, vars
  <2> HIDE DEF After
  <2> QED
    BY <2>1, <1>4
<1>13. \A g \in Fetchers : Past(fphase'[g]) => After(fbody'[g])
  <2> HIDE DEF Past, After
  <2> QED
    BY <1>7, <1>8, <1>9, <1>10, <1>11, <1>12 DEF Next, FetchStep
<1>14. <<served'.body, served'.key>> \in servedAs'
  <2>1. CASE UNCHANGED <<served, servedAs>>
    BY <1>2, <2>1
  <2>2. CASE SaveProfile \/ RotateKey \/ SetMigration
    BY <2>2 DEF SaveProfile, RotateKey, SetMigration, Serve
  <2>3. UNCHANGED <<served, servedAs>> \/ SaveProfile \/ RotateKey \/ SetMigration
    BY DEF Next, FetchStep, StartFetch, GetBody, GetSig, Fail, GetMigration, Apply, Save, AcceptKey,
       DeclineKey, Commit, NormalizeRead, NormalizeWrite, Outage, serverVars, vars
  <2> QED
    BY <2>1, <2>2, <2>3
<1> QED
  BY <1>13, <1>14 DEF BodiesVouched

\* Whoever writes the file while a fetch is under way is remembered, and a fetch that was
\* not disturbed has read what it will replace (fetchConfig, configsource_windows.go:114, 205).
LEMMA StepInStep ==
  ASSUME IInv, TypeOK', [Next]_vars
  PROVE  InStep'
<1>1. InStep
  BY DEF IInv
<1>2. /\ fphase \in [Fetchers -> {"idle", "body", "sig", "mig", "write"}]
      /\ fcfg \in [Fetchers -> Cfg] /\ overlap \subseteq Fetchers
  BY DEF IInv, TypeOK
<1>3. ASSUME NEW c, NEW read, Write(c, read, {}), UNCHANGED fetchVars
      PROVE  InStep'
  BY <1>1, <1>2, <1>3 DEF Write, fetchVars, InStep
<1>4. ASSUME NEW f \in Fetchers, StartFetch(f)
      PROVE  InStep'
  BY <1>1, <1>2, <1>4 DEF StartFetch, Phase, InStep, staleVars
<1>5. ASSUME NEW f \in Fetchers, GetBody(f) \/ GetSig(f) \/ Fail(f)
      PROVE  InStep'
  <2>1. disk' = disk
    BY <1>5 DEF GetBody, GetSig, Fail
  <2>2. CASE Idle(f)
    <3>1. /\ fphase' = [fphase EXCEPT ![f] = "idle"]
          /\ \A g \in Fetchers \ {f} : fcfg'[g] = fcfg[g]
      BY <2>2, <1>2 DEF Idle, Phase
    <3>2. \A g \in Fetchers \ {f} : g \in overlap /\ fphase[g] # "idle" => g \in overlap'
      BY <1>5, <1>2, <3>1 DEF GetBody, GetSig, Fail
    <3> QED
      BY <1>1, <1>2, <2>1, <3>1, <3>2 DEF InStep
  <2>3. CASE ~Idle(f)
    <3>1. /\ fcfg' = fcfg /\ fphase[f] # "idle"
          /\ \E p \in {"sig", "mig", "write"} : fphase' = [fphase EXCEPT ![f] = p]
          /\ overlap' = {g \in overlap : fphase'[g] # "idle"}
      BY <1>5, <2>3 DEF GetBody, GetSig, Fail, Phase
    <3> QED
      BY <1>1, <1>2, <2>1, <3>1 DEF InStep
  <2> QED
    BY <2>2, <2>3
<1>6. ASSUME NEW f \in Fetchers, GetMigration(f)
      PROVE  InStep'
  BY <1>1, <1>2, <1>6 DEF GetMigration, Phase, InStep, staleVars
<1>7. ASSUME NEW f \in Fetchers, Apply(f)
      PROVE  InStep'
  <2>1. PICK c, read : Write(c, read, {f})
    BY <1>7 DEF Apply
  <2>2. /\ fphase' = [fphase EXCEPT ![f] = "idle"]
        /\ \A g \in Fetchers \ {f} : fcfg'[g] = fcfg[g]
    BY <1>7, <1>2 DEF Apply, Idle, Phase
  <2> QED
    BY <1>1, <1>2, <2>1, <2>2 DEF Write, InStep
<1>8. CASE Commit \/ NormalizeWrite
  <2>1. \E c, read : Write(c, read, {}) /\ UNCHANGED fetchVars
    BY <1>8 DEF Commit, NormalizeWrite
  <2> QED
    BY <1>3, <2>1
<1>9. CASE Save \/ AcceptKey \/ DeclineKey \/ NormalizeRead \/ SaveProfile \/ RotateKey
           \/ SetMigration \/ Outage \/ UNCHANGED vars
  <2>1. /\ disk' = disk /\ overlap' = overlap /\ fphase' = fphase /\ fcfg' = fcfg
    BY <1>9 DEF Save, AcceptKey, DeclineKey, NormalizeRead, SaveProfile, RotateKey, SetMigration,
       Serve, Outage, fetchVars, staleVars, vars
  <2> QED
    BY <1>1, <2>1 DEF InStep
<1> QED
  BY <1>4, <1>5, <1>6, <1>7, <1>8, <1>9 DEF Next, FetchStep

-----------------------------------------------------------------------------
(* The theorems. *)

\* The inductive invariant (the module as a whole).
THEOREM Invariant == Spec => []IInv
<1>1. IInv /\ [Next]_vars => IInv'
  <2> SUFFICES ASSUME IInv, [Next]_vars
               PROVE  IInv'
    OBVIOUS
  <2>1. TypeOK'
    BY StepTyped DEF IInv
  <2> QED
    BY <2>1, StepSound, StepVouched, StepInStep DEF IInv
<1> QED
  BY <1>1, InitInv, PTL DEF Spec

\* Every variable keeps its type, for any keys, bodies and forms (fetchConfig, saveConfig).
THEOREM TypeCorrect == Spec => []TypeOK
<1>1. IInv => TypeOK
  BY DEF IInv
<1> QED
  BY <1>1, Invariant, PTL

\* The root of trust never moves without the user (configsource_windows.go:397-420).
THEOREM RootOfTrust == Spec => []TrustedByUser
<1>1. IInv => TrustedByUser
  BY DEF IInv, AllSound, Sound, TrustedByUser
<1> QED
  BY <1>1, Invariant, PTL

\* No body reaches the config without a trusted key's signature, or the user's leave
\* (configsource_windows.go:138-156).
THEOREM BodiesAreVouched == Spec => []OnlyVouched
<1>1. IInv => OnlyVouched
  <2> SUFFICES ASSUME IInv, NEW b \in {disk.fed, disk.own} \cap Bodies
               PROVE  lax \/ \E k \in approved : <<b, k>> \in servedAs
    BY DEF OnlyVouched
  <2>1. Sound(disk, approved, servedAs, lax)
    BY DEF IInv, AllSound
  <2> QED
    BY <2>1 DEF Sound, Vouched
<1> QED
  BY <1>1, Invariant, PTL

\* While no write from before a decline got between, the config there is - the panel's, when it
\* has one to write - holds the record of it, and is managed.
Kept(c) == Managed(c) /\ c.declined = refused /\ c.pending # refused

RefusalKept ==
  /\ draft = {} /\ ~muddled /\ refused # NoKey => Kept(disk)
  /\ ~muddled /\ refused # NoKey => \A c \in draft : Kept(c)

\* Fetches, edits, decisions and normalizing writes carry the record on (declineKeyRotation,
\* saveConfig, applyMigrate, DemoteIfUnmanaged).
LEMMA StepKept ==
  ASSUME IInv, RefusalKept, [Next]_vars
  PROVE  RefusalKept'
<1>1. /\ disk \in Cfg /\ draft \subseteq Cfg /\ normal \subseteq Cfg
      /\ fcfg \in [Fetchers -> Cfg] /\ muddled \in BOOLEAN
  BY DEF IInv, TypeOK
<1>2. CASE /\ UNCHANGED <<disk, draft, refused>>
           /\ muddled' = muddled
  BY <1>2 DEF RefusalKept, Kept
<1>3. ASSUME NEW f \in Fetchers, Apply(f)
      PROVE  RefusalKept'
  <2> DEFINE new == Migrated(Merged(fcfg[f], fbody[f]), fmig[f], fcfg[f])
  <2>1. fcfg[f] \in Cfg /\ fmig[f] \in Migrations /\ fbody[f] \in Bodies
    BY <1>1, <1>3 DEF Apply, IInv, TypeOK
  <2>2. /\ Managed(fcfg[f]) => Managed(new)
        /\ new.declined = fcfg[f].declined
        /\ new.pending = fcfg[f].pending \/ new.pending # fcfg[f].declined
    BY <2>1, MigratedTyped
  <2>3. draft' = draft /\ refused' = refused
    BY <1>3 DEF Apply, userVars
  <2>4. Write(new, fcfg[f], {f}) \/ Write(disk, disk, {f})
    BY <1>3 DEF Apply
  <2> HIDE DEF new
  <2>5. \/ disk' = disk
        \/ muddled'
        \/ refused = NoKey
        \/ disk' = new /\ disk = fcfg[f]
    BY <2>4 DEF Write
  <2>6. ~muddled' => ~muddled
    BY <2>4 DEF Write
  <2> QED
    BY <2>2, <2>3, <2>5, <2>6 DEF RefusalKept, Kept
<1>4. CASE Save
  <2> PICK form \in Forms :
        /\ Edit([disk EXCEPT !.url = form.url, !.signed = form.signed, !.merge = form.merge,
                             !.pub = form.pub, !.own = form.own])
        /\ refused' = IF form.url = NoUrl THEN NoKey ELSE refused
        /\ disk' = disk /\ muddled' = muddled
    BY <1>4 DEF Save, staleVars
  <2> DEFINE c == [disk EXCEPT !.url = form.url, !.signed = form.signed, !.merge = form.merge,
                               !.pub = form.pub, !.own = form.own]
  <2>1. c.url = form.url /\ c.declined = disk.declined /\ c.pending = disk.pending
    BY <1>1 DEF Cfg
  <2>2. draft = {} /\ draft' = {c}
    BY DEF Edit
  <2> HIDE DEF c
  <2> QED
    BY <2>1, <2>2 DEF RefusalKept, Kept, Managed
<1>5. CASE AcceptKey
  BY <1>5 DEF AcceptKey, RefusalKept
<1>6. CASE DeclineKey
  <2> DEFINE c == [disk EXCEPT !.declined = disk.pending, !.pending = NoKey]
  <2>1. c.url = disk.url /\ c.declined = disk.pending /\ c.pending = NoKey
    BY <1>1 DEF Cfg
  <2>2. draft' = {c} /\ disk' = disk
    BY <1>6 DEF Edit, DeclineKey
  <2>3. /\ refused' = IF ~Managed(disk) THEN NoKey
                      ELSE IF disk.pending = NoKey THEN refused ELSE disk.pending
        /\ ~muddled' => ~(Managed(disk) /\ disk.pending = NoKey /\ refused # NoKey)
    BY <1>6 DEF DeclineKey
  <2> HIDE DEF c
  <2> QED
    BY <2>1, <2>2, <2>3 DEF RefusalKept, Kept, Managed
<1>7. CASE Commit
  <2>1. PICK c \in draft : /\ Write(Demoted(c), disk, {}) \/ Write(c, disk, {})
                           /\ draft' = {} /\ refused' = refused
    BY <1>7 DEF Commit
  <2>2. /\ disk' \in {Demoted(c), c}
        /\ ~muddled' => ~muddled
    BY <2>1 DEF Write
  <2>3. Managed(c) => Demoted(c) = c
    BY DEF Demoted
  <2> QED
    BY <2>1, <2>2, <2>3 DEF RefusalKept, Kept
<1>8. CASE NormalizeWrite
  <2>1. PICK c \in normal : Write(Demoted(c), c, {}) /\ draft' = draft /\ refused' = refused
    BY <1>8 DEF NormalizeWrite, userVars
  <2>2. /\ disk' = Demoted(c)
        /\ ~muddled' => ~muddled /\ (refused = NoKey \/ disk = c)
    BY <2>1 DEF Write
  <2>3. Managed(c) => Demoted(c) = c
    BY DEF Demoted
  <2> QED
    BY <2>1, <2>2, <2>3 DEF RefusalKept, Kept
<1>9. ASSUME NEW f \in Fetchers, StartFetch(f) \/ GetBody(f) \/ GetSig(f) \/ Fail(f) \/ GetMigration(f)
      PROVE  UNCHANGED <<disk, draft, refused>> /\ muddled' = muddled
  BY <1>9 DEF StartFetch, GetBody, GetSig, Fail, GetMigration, staleVars, userVars
<1>10. CASE NormalizeRead \/ SaveProfile \/ RotateKey \/ SetMigration \/ Outage \/ UNCHANGED vars
  <2>1. UNCHANGED <<disk, draft, refused>> /\ muddled' = muddled
    BY <1>10 DEF NormalizeRead, SaveProfile, RotateKey, SetMigration, Serve, Outage, staleVars,
       userVars, vars
  <2> QED
    BY <1>2, <2>1
<1> QED
  BY <1>2, <1>3, <1>4, <1>5, <1>6, <1>7, <1>8, <1>9, <1>10 DEF Next, FetchStep

\* The record of a decline outlives whatever is fetched, edited, served and rotated after it,
\* as long as nobody writes what he read before it and the user does not decline once more
\* with nothing to decline (configsource_windows.go:417-420, bindings_windows.go:584-590).
THEOREM DeclinedStays == Spec => []NotNagged
<1>1. Init => RefusalKept
  BY DEF Init, RefusalKept
<1>2. IInv /\ RefusalKept /\ [Next]_vars => RefusalKept'
  BY StepKept
<1>3. RefusalKept => NotNagged
  BY DEF RefusalKept, Kept, NotNagged
<1> QED
  BY <1>1, <1>2, <1>3, Invariant, PTL DEF Spec

\* What an undisturbed fetch writes is made from what is on disk, and keeps what is the
\* user's (configsource_windows.go:166-182, 249-256).
THEOREM UsersOwnStays == Spec => KeepsLocal
<1>1. IInv /\ TypeOK' /\ [Next]_vars => LocalKept
  <2> SUFFICES ASSUME IInv, [Next]_vars, NEW f \in Fetchers,
                      fphase[f] = "write", fphase'[f] = "idle", f \notin overlap
               PROVE  /\ disk'.pub = disk.pub /\ disk'.declined = disk.declined
                      /\ disk'.signed = disk.signed
                      /\ disk.merge = "override" => disk'.own = disk.own
                      /\ Managed(disk')
    BY DEF LocalKept
  <2>1. /\ fphase \in [Fetchers -> {"idle", "body", "sig", "mig", "write"}]
        /\ fcfg[f] = disk /\ disk \in Cfg /\ Managed(disk)
        /\ fbody[f] \in Bodies /\ fmig[f] \in Migrations
    BY DEF IInv, TypeOK, InStep, Managed
  <2>2. ASSUME NEW g \in Fetchers, StartFetch(g) \/ FetchStep(g), g # f
        PROVE  fphase'[f] = fphase[f]
    BY <2>1, <2>2 DEF FetchStep, StartFetch, GetBody, GetSig, Fail, GetMigration, Apply, Idle, Phase
  <2>3. ASSUME \/ Save \/ AcceptKey \/ DeclineKey \/ Commit \/ NormalizeRead \/ NormalizeWrite
               \/ SaveProfile \/ RotateKey \/ SetMigration \/ Outage \/ UNCHANGED vars
        PROVE  fphase' = fphase
    BY <2>3 DEF Save, AcceptKey, DeclineKey, Commit, NormalizeRead, NormalizeWrite, SaveProfile,
       RotateKey, SetMigration, Serve, Outage, fetchVars, staleVars, vars
  <2>4. StartFetch(f) \/ FetchStep(f)
    BY <2>2, <2>3 DEF Next
  <2>5. Apply(f)
    BY <2>1, <2>4 DEF FetchStep, StartFetch, GetBody, GetSig, Fail, GetMigration, Phase
  <2> DEFINE new == Migrated(Merged(disk, fbody[f]), fmig[f], disk)
  <2>6. disk' \in {new, disk}
    BY <2>1, <2>5 DEF Apply, Write
  <2>7. /\ new.pub = disk.pub /\ new.declined = disk.declined /\ new.signed = disk.signed
        /\ disk.merge = "override" => new.own = disk.own
        /\ Managed(new)
    BY <2>1, MigratedTyped
  <2> HIDE DEF new
  <2> QED
    BY <2>1, <2>6, <2>7
<1>2. IInv => TypeOK
  BY DEF IInv
<1>3. Spec => [][LocalKept]_vars
  BY <1>1, <1>2, Invariant, PTL DEF Spec
<1> QED
  BY <1>3 DEF KeepsLocal

-----------------------------------------------------------------------------
(* What a feed leaves behind is cleaned up.  tlapm does not reason about      *)
(* ENABLED: that the main loop can go on where it should is a hypothesis.     *)

Unclean == Demoted(disk) # disk

Goes ==
  /\ normal = {} /\ Unclean => ENABLED <<NormalizeRead>>_vars
  /\ normal # {} => ENABLED <<NormalizeWrite>>_vars

\* What has been normalized needs no normalizing (schema.go, DemoteIfUnmanaged).
LEMMA DemotedOnce ==
  ASSUME NEW c \in Cfg
  PROVE  Demoted(Demoted(c)) = Demoted(c)
BY DEF Demoted, Managed, Cfg

\* Only the main loop ends what it has begun.
LEMMA NormalStep ==
  ASSUME [Next]_vars, ~NormalizeRead, ~NormalizeWrite
  PROVE  UNCHANGED normal
<1>1. ASSUME NEW f \in Fetchers, StartFetch(f) \/ FetchStep(f) PROVE UNCHANGED normal
  BY <1>1 DEF StartFetch, FetchStep, GetBody, GetSig, Fail, GetMigration, Apply
<1>2. CASE Save \/ AcceptKey \/ DeclineKey \/ Commit
  BY <1>2 DEF Save, AcceptKey, DeclineKey, Commit
<1>3. CASE SaveProfile \/ RotateKey \/ SetMigration \/ Outage
  BY <1>3 DEF SaveProfile, RotateKey, SetMigration, Outage, Serve
<1>4. CASE UNCHANGED vars
  BY <1>4 DEF vars
<1>5. QED
  BY <1>1, <1>2, <1>3, <1>4 DEF Next

\* A config without a url is rid of what a feed left in it, whoever wrote it and however
\* often it is written back (runtime.go:338-345): the loop reads it, unless it is cleaned
\* before, and what it then writes is clean.
THEOREM DetachGetsClean == FairSpec /\ []Goes => DetachCleans
<1> DEFINE Begun == normal # {}
<1>1. TypeOK /\ NormalizeWrite => ~Unclean'
  BY DemotedOnce DEF TypeOK, NormalizeWrite, Write, Unclean
<1>2. Begun /\ TypeOK /\ [Next]_vars => Begun' \/ ~Unclean'
  <2>1. NormalizeRead => Begun'
    BY DEF NormalizeRead
  <2>2. QED
    BY <1>1, <2>1, NormalStep
<1>3. Begun /\ TypeOK /\ [Next]_vars /\ <<NormalizeWrite>>_vars => ~Unclean'
  BY <1>1
<1>4. ~Begun /\ Unclean /\ <<NormalizeRead>>_vars => Begun'
  BY DEF NormalizeRead
<1>5. Begun /\ Goes => ENABLED <<NormalizeWrite>>_vars
  BY DEF Goes
<1>6. ~Begun /\ Unclean /\ Goes => ENABLED <<NormalizeRead>>_vars
  BY DEF Goes
<1>7. Unclean <=> Demoted(disk) # disk
  BY DEF Unclean
<1>8. ~Unclean <=> Demoted(disk) = disk
  BY DEF Unclean
<1> HIDE DEF Begun
<1>9. FairSpec /\ []Goes => (Begun ~> ~Unclean)
  BY <1>2, <1>3, <1>5, TypeCorrect, PTL DEF FairSpec, Spec
<1>10. FairSpec /\ []Goes => (Unclean ~> (Begun \/ ~Unclean))
  BY <1>4, <1>6, PTL DEF FairSpec, Spec
<1>11. QED
  BY <1>7, <1>8, <1>9, <1>10, PTL DEF DetachCleans

=============================================================================
