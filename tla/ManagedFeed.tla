----------------------------- MODULE ManagedFeed -----------------------------
(***************************************************************************)
(* A client under a managed config feed (internal/service/                 *)
(* configsource_windows.go): the fetch that reads the config file, asks    *)
(* the server for a body, its signature and the migration sidecar, and     *)
(* writes the merged config back - started by the service's timer and by   *)
(* the panel, with no lock between them -, the panel's edits and key       *)
(* decisions (ui/panel/bindings_windows.go), and the main loop's           *)
(* normalizing of a config that left managed mode (runtime.go:338-345).    *)
(*                                                                         *)
(* A config is what these writers tell apart: own stands for the app,      *)
(* subnet and domain lists, fed for their managed_ twins; the scalar       *)
(* fields, which a feed overrides, are left out.  Writes are atomic here   *)
(* (see ServiceLoop for torn ones), times are choices, and one server      *)
(* answers at every address.                                               *)
(***************************************************************************)
EXTENDS Integers

CONSTANTS
  Urls, NoUrl,    \* addresses of a feed; none
  Keys, NoKey,    \* public keys; none
  Bodies, NoFeed, \* what a feed can carry; nothing from a feed
  Valid,          \* bodies that give a valid config
  Forcing,        \* bodies that lock a field for the user
  Locals,         \* lists a user sets for himself
  Forms,          \* what a user submits: url, signed, merge, pub and own settings
  FirstConfigs,   \* the config file to start with
  Migrations,     \* what the migration sidecar can say: a new url, merge mode, key
  FirstServed,    \* what the server serves to start with
  Timer, Panel,   \* who fetches
  MaxEdits,       \* bound: edits and key decisions of the user
  MaxServes       \* bound: changes of what the server serves

Fetchers == {Timer, Panel}
Merges   == {"override", "replace"}
Cfg == [url : Urls \cup {NoUrl}, signed : BOOLEAN, merge : Merges,
        pub : Keys \cup {NoKey}, pending : Keys \cup {NoKey}, declined : Keys \cup {NoKey},
        own : Locals \cup Bodies, fed : Bodies \cup {NoFeed}, locked : BOOLEAN]
NoMigration == [url |-> NoUrl, merge |-> "keep", pub |-> NoKey]

\* In place of a config where a fetch has read none.
Unread == [url |-> NoUrl, signed |-> TRUE, merge |-> "override", pub |-> NoKey,
           pending |-> NoKey, declined |-> NoKey, own |-> CHOOSE l \in Locals : TRUE,
           fed |-> NoFeed, locked |-> FALSE]

ASSUME FeedAssumption ==
  /\ NoUrl \notin Urls /\ NoKey \notin Keys /\ NoFeed \notin Bodies
  /\ Valid \subseteq Bodies /\ Forcing \subseteq Bodies
  /\ Locals # {} /\ Locals \cap Bodies = {} /\ NoFeed \notin Locals
  /\ Forms \subseteq [url : Urls \cup {NoUrl}, signed : BOOLEAN, merge : Merges,
                      pub : Keys \cup {NoKey}, own : Locals]
  /\ FirstConfigs \subseteq Cfg
  /\ \A c \in FirstConfigs : /\ c.own \in Locals /\ c.fed = NoFeed
                             /\ c.pending = NoKey /\ c.declined = NoKey
  /\ NoMigration \in Migrations
  /\ Migrations \subseteq [url : Urls \cup {NoUrl}, merge : Merges \cup {"keep"},
                           pub : Keys \cup {NoKey}]
  /\ FirstServed \subseteq [body : Bodies, key : Keys, mig : Migrations]
  /\ Timer # Panel
  /\ MaxEdits \in Nat /\ MaxServes \in Nat

VARIABLES
  disk,      \* socksit.yaml
  served,    \* what the server serves: body, signing key, migration
  down,      \* the server cannot be reached
  fphase,    \* what each fetch asks for next
  fcfg,      \* the config it has read
  fbody,     \* the body it has got
  fmig,      \* the migration it has verified
  overlap,   \* history: the file changed since the fetch read it
  draft,     \* the panel's config, loaded, edited and not yet written; a set
  normal,    \* the config the main loop read and will normalize; a set
  edits, serves,  \* how often the user and the server acted
  approved,  \* history: keys the user entered or accepted
  servedAs,  \* history: bodies with the keys they were served under
  lax,       \* history: the user has switched the signature off
  refused,   \* history: the key the user declined last, under the feed he has
  muddled    \* history: since then a config was written that is older than the decline,
             \*   or he declined again with nothing to decline

serverVars == <<served, down, serves, servedAs>>
fetchVars  == <<fphase, fcfg, fbody, fmig>>
userVars   == <<draft, edits, approved, lax, refused>>
staleVars  == <<overlap, muddled>>
vars == <<disk, serverVars, fetchVars, staleVars, userVars, normal>>

TypeOK ==
  /\ disk \in Cfg
  /\ served \in [body : Bodies, key : Keys, mig : Migrations]
  /\ down \in BOOLEAN /\ lax \in BOOLEAN
  /\ fphase \in [Fetchers -> {"idle", "body", "sig", "mig", "write"}]
  /\ fcfg \in [Fetchers -> Cfg]
  /\ fbody \in [Fetchers -> Bodies \cup {NoFeed}]
  /\ fmig \in [Fetchers -> Migrations]
  /\ \A f \in Fetchers : /\ fphase[f] # "idle" => fcfg[f].url # NoUrl
                         /\ fphase[f] \in {"sig", "mig", "write"} => fbody[f] \in Bodies
  /\ overlap \subseteq Fetchers
  /\ draft \subseteq Cfg /\ \A c, d \in draft : c = d
  /\ normal \subseteq Cfg /\ \A c, d \in normal : c = d
  /\ edits \in 0..MaxEdits /\ serves \in 0..MaxServes
  /\ approved \subseteq Keys
  /\ servedAs \subseteq Bodies \X Keys
  /\ refused \in Keys \cup {NoKey} /\ muddled \in BOOLEAN

Managed(c) == c.url # NoUrl

\* DemoteIfUnmanaged.
Demoted(c) ==
  IF Managed(c) THEN c
  ELSE [c EXCEPT !.fed = NoFeed, !.locked = FALSE,
                 !.pub = NoKey, !.pending = NoKey, !.declined = NoKey]

Init ==
  /\ disk \in FirstConfigs
  /\ served \in FirstServed
  /\ down = FALSE /\ serves = 0 /\ servedAs = {<<served.body, served.key>>}
  /\ fphase = [f \in Fetchers |-> "idle"]
  /\ fcfg = [f \in Fetchers |-> Unread]
  /\ fbody = [f \in Fetchers |-> NoFeed]
  /\ fmig = [f \in Fetchers |-> NoMigration]
  /\ overlap = {} /\ draft = {} /\ normal = {}
  /\ edits = 0 /\ approved = {disk.pub} \ {NoKey} /\ lax = ~disk.signed
  /\ refused = NoKey /\ muddled = FALSE

\* The config file is written, by the fetches of done or by somebody else, who made what he
\* writes from what he read.
Write(c, read, done) ==
  /\ disk' = c
  /\ muddled' = (muddled \/ (refused # NoKey /\ disk # read))
  /\ overlap' = (IF c = disk THEN overlap ELSE {f \in Fetchers : fphase[f] # "idle"}) \ done

-----------------------------------------------------------------------------
(* The fetch. *)

Phase(f, p) == fphase' = [fphase EXCEPT ![f] = p]

Idle(f) ==
  /\ Phase(f, "idle")
  /\ fcfg' = [fcfg EXCEPT ![f] = Unread]
  /\ fbody' = [fbody EXCEPT ![f] = NoFeed] /\ fmig' = [fmig EXCEPT ![f] = NoMigration]

StartFetchOnce(f) ==  \* mutant: the timer is not set again once a feed is in force
  /\ fphase[f] = "idle" /\ Managed(disk) /\ disk.fed = NoFeed
  /\ Phase(f, "body") /\ fcfg' = [fcfg EXCEPT ![f] = disk]
  /\ UNCHANGED <<disk, serverVars, fbody, fmig, staleVars, userVars, normal>>

\* A fetch reads the config and goes on if it is managed.
StartFetch(f) ==
  /\ fphase[f] = "idle" /\ Managed(disk)
  /\ Phase(f, "body") /\ fcfg' = [fcfg EXCEPT ![f] = disk]
  /\ UNCHANGED <<disk, serverVars, fbody, fmig, staleVars, userVars, normal>>

\* The body; without a key to trust a signed feed is an error.
GetBody(f) ==
  /\ fphase[f] = "body" /\ ~down
  /\ \/ /\ ~fcfg[f].signed /\ Phase(f, "write")
        /\ fbody' = [fbody EXCEPT ![f] = served.body] /\ UNCHANGED <<fcfg, fmig>>
     \/ /\ fcfg[f].signed /\ fcfg[f].pub # NoKey /\ Phase(f, "sig")
        /\ fbody' = [fbody EXCEPT ![f] = served.body] /\ UNCHANGED <<fcfg, fmig>>
     \/ fcfg[f].signed /\ fcfg[f].pub = NoKey /\ Idle(f)
  /\ overlap' = {g \in overlap : fphase'[g] # "idle"}
  /\ UNCHANGED <<disk, serverVars, muddled, userVars, normal>>

GetSigUnchecked(f) ==  \* mutant: any signature will do
  /\ fphase[f] = "sig" /\ ~down
  /\ Phase(f, "mig") /\ UNCHANGED <<fcfg, fbody, fmig>>
  /\ UNCHANGED <<disk, serverVars, staleVars, userVars, normal>>

\* The signature, asked for separately: by now the server may serve another body.
GetSig(f) ==
  /\ fphase[f] = "sig" /\ ~down
  /\ IF served.body = fbody[f] /\ served.key = fcfg[f].pub
     THEN Phase(f, "mig") /\ UNCHANGED <<fcfg, fbody, fmig>>
     ELSE Idle(f)
  /\ overlap' = {g \in overlap : fphase'[g] # "idle"}
  /\ UNCHANGED <<disk, serverVars, muddled, userVars, normal>>

\* The server does not answer: the fetch is over, and the timer is set again.
Fail(f) ==
  /\ fphase[f] \in {"body", "sig"} /\ down
  /\ Idle(f) /\ overlap' = overlap \ {f}
  /\ UNCHANGED <<disk, serverVars, muddled, userVars, normal>>

\* The migration sidecar; what is missing, unreachable or not signed by the
\* trusted key is no migration.
GetMigration(f) ==
  /\ fphase[f] = "mig" /\ Phase(f, "write")
  /\ fmig' = [fmig EXCEPT ![f] = IF ~down /\ served.key = fcfg[f].pub THEN served.mig
                                 ELSE NoMigration]
  /\ UNCHANGED <<disk, serverVars, fcfg, fbody, staleVars, userVars, normal>>

\* mergeManagedConfig, or the body as it is; and the fields that stay local.
Merged(c, b) ==
  IF c.merge = "override"
  THEN [c EXCEPT !.fed = b, !.locked = b \in Forcing]
  ELSE [c EXCEPT !.own = b, !.fed = NoFeed, !.locked = b \in Forcing]

MigratedNagging(n, m, c) ==  \* mutant: a declined key is proposed again
  [n EXCEPT !.url = IF m.url # NoUrl THEN m.url ELSE @,
            !.merge = IF m.merge # "keep" THEN m.merge ELSE @,
            !.pending = IF m.pub \notin {NoKey, c.pub} THEN m.pub ELSE @]

MigratedTrusting(n, m, c) ==  \* mutant: a key rotation is applied
  [n EXCEPT !.url = IF m.url # NoUrl THEN m.url ELSE @,
            !.merge = IF m.merge # "keep" THEN m.merge ELSE @,
            !.pub = IF m.pub \notin {NoKey, c.pub, c.declined} THEN m.pub ELSE @]

\* applyMigrate; the settings of the update channel it also carries are left out.
Migrated(n, m, c) ==
  [n EXCEPT !.url = IF m.url # NoUrl THEN m.url ELSE @,
            !.merge = IF m.merge # "keep" THEN m.merge ELSE @,
            !.pending = IF m.pub \notin {NoKey, c.pub, c.declined} THEN m.pub ELSE @]

ApplyReplacing(f) ==  \* mutant: the merge mode is not consulted
  /\ fphase[f] = "write"
  /\ LET c == fcfg[f]
         new == Migrated(Merged([c EXCEPT !.merge = "replace"], fbody[f]), fmig[f], c) IN
     IF fbody[f] \in Valid /\ new # c THEN Write(new, c, {f}) ELSE Write(disk, disk, {f})
  /\ Idle(f)
  /\ UNCHANGED <<serverVars, userVars, normal>>

\* The new config is written if it differs from the one the fetch has read.
Apply(f) ==
  /\ fphase[f] = "write"
  /\ LET c == fcfg[f]
         new == Migrated(Merged(c, fbody[f]), fmig[f], c) IN
     IF fbody[f] \in Valid /\ new # c THEN Write(new, c, {f}) ELSE Write(disk, disk, {f})
  /\ Idle(f)
  /\ UNCHANGED <<serverVars, userVars, normal>>

FetchStep(f) == GetBody(f) \/ GetSig(f) \/ Fail(f) \/ GetMigration(f) \/ Apply(f)

-----------------------------------------------------------------------------
(* The user, at the panel: each operation loads the file and writes it back. *)

Edit(c) == draft = {} /\ edits < MaxEdits /\ draft' = {c} /\ edits' = edits + 1

\* saveConfig.
Save ==
  \E form \in Forms :
    /\ Edit([disk EXCEPT !.url = form.url, !.signed = form.signed, !.merge = form.merge,
                         !.pub = form.pub, !.own = form.own])
    /\ approved' = approved \cup ({form.pub} \ {NoKey})
    /\ lax' = (lax \/ ~form.signed)
    /\ refused' = IF form.url = NoUrl THEN NoKey ELSE refused
    /\ UNCHANGED <<disk, serverVars, fetchVars, staleVars, normal>>

\* acceptKeyRotation.
AcceptKey ==
  /\ disk.pending # NoKey
  /\ Edit([disk EXCEPT !.pub = disk.pending, !.pending = NoKey, !.declined = NoKey])
  /\ approved' = approved \cup {disk.pending} /\ refused' = NoKey
  /\ UNCHANGED <<disk, serverVars, fetchVars, staleVars, lax, normal>>

\* declineKeyRotation; with nothing pending it forgets what was declined.
DeclineKey ==
  /\ Edit([disk EXCEPT !.declined = disk.pending, !.pending = NoKey])
  /\ refused' = IF ~Managed(disk) THEN NoKey ELSE IF disk.pending = NoKey THEN refused ELSE disk.pending
  /\ muddled' = (Managed(disk) /\ disk.pending = NoKey /\ refused # NoKey)
  /\ UNCHANGED <<disk, serverVars, fetchVars, overlap, approved, lax, normal>>

\* SetConfig of the service, which normalizes; or the panel's own write of the file
\* when the pipe does not answer, which does not.
Commit ==
  \E c \in draft :
    /\ Write(Demoted(c), disk, {}) \/ Write(c, disk, {})
    /\ draft' = {}
    /\ UNCHANGED <<serverVars, fetchVars, edits, approved, lax, refused, normal>>

-----------------------------------------------------------------------------
(* The main loop's normalizing write. *)

NormalizeRead ==
  /\ normal = {} /\ Demoted(disk) # disk
  /\ normal' = {disk}
  /\ UNCHANGED <<disk, serverVars, fetchVars, staleVars, userVars>>

NormalizeNothing ==  \* mutant: the loop goes on without writing the file
  /\ normal # {}
  /\ normal' = {}
  /\ UNCHANGED <<disk, staleVars, serverVars, fetchVars, userVars>>

NormalizeWrite ==
  \E c \in normal :
    /\ Write(Demoted(c), c, {}) /\ normal' = {}
    /\ UNCHANGED <<serverVars, fetchVars, userVars>>

-----------------------------------------------------------------------------
(* The server. *)

Serve(s) ==
  /\ serves < MaxServes /\ serves' = serves + 1
  /\ served' = s /\ servedAs' = servedAs \cup {<<s.body, s.key>>}
  /\ UNCHANGED <<disk, down, fetchVars, staleVars, userVars, normal>>

SaveProfile == \E b \in Bodies \ {served.body} : Serve([served EXCEPT !.body = b])
RotateKey   == \E k \in Keys \ {served.key} : Serve([served EXCEPT !.key = k])
SetMigration == \E m \in Migrations \ {served.mig} : Serve([served EXCEPT !.mig = m])

Outage ==
  /\ down' = ~down
  /\ UNCHANGED <<disk, served, serves, servedAs, fetchVars, staleVars, userVars, normal>>

Next ==
  \/ \E f \in Fetchers : StartFetch(f) \/ FetchStep(f)
  \/ Save \/ AcceptKey \/ DeclineKey \/ Commit
  \/ NormalizeRead \/ NormalizeWrite
  \/ SaveProfile \/ RotateKey \/ SetMigration \/ Outage

Spec == Init /\ [][Next]_vars

\* The timer starts a fetch again and again, a fetch once started goes on (its
\* requests have a timeout), and the main loop, while proxying is enabled, looks at
\* every change (ServiceLoop).
FairSpec ==
  /\ Spec
  /\ WF_vars(StartFetch(Timer))
  /\ \A f \in Fetchers : WF_vars(FetchStep(f))
  /\ WF_vars(NormalizeRead) /\ WF_vars(NormalizeWrite)

-----------------------------------------------------------------------------
(* Safety. *)

\* The root of trust never moves without the user: every key the client trusts is
\* one he entered or accepted, whatever migrations are served and whichever fetch,
\* edit or normalizing write is in flight (configsource_windows.go:397-420).
TrustedByUser == disk.pub = NoKey \/ disk.pub \in approved

\* Nothing of a body reaches the config unless it was served under a key the user
\* trusted - although body and signature come from two requests - or he had
\* switched the signature off (configsource_windows.go:138-156).
OnlyVouched ==
  \A b \in {disk.fed, disk.own} \cap Bodies :
    lax \/ \E k \in approved : <<b, k>> \in servedAs

\* A key the user declined is not put to him again, whatever is fetched, edited, served and
\* rotated after it: the record of the decline outlives them.  It goes with the feed
\* (DemoteIfUnmanaged); and it is lost to whoever writes a config he read before it, and to
\* a second decline (see DeclineSticks) (declineKeyRotation, applyMigrate).
NotNagged == draft = {} /\ refused # NoKey /\ ~muddled => disk.pending # refused

\* docs/configserver.md:235 of a key rotation the user declines: "declined keys are not
\* proposed again".
DeclineSticks == draft = {} /\ refused # NoKey => disk.pending # refused

\* A fetch that nothing overlapped leaves the user's lists and key decisions as
\* they are, unless the user asked for the feed to replace his lists
\* (configsource_windows.go:166-182, 249-256).
LocalKept ==
  \A f \in Fetchers :
    fphase[f] = "write" /\ fphase'[f] = "idle" /\ f \notin overlap =>
      /\ disk'.pub = disk.pub /\ disk'.declined = disk.declined
      /\ disk'.signed = disk.signed
      /\ disk.merge = "override" => disk'.own = disk.own
      /\ Managed(disk')
KeepsLocal == [][LocalKept]_vars

\* docs/configserver.md and README on leaving the managed mode: a client whose
\* config_source.url was cleared stays local until the user gives a url again.
DetachSticks == [][~Managed(disk) /\ Managed(disk') => draft # {}]_vars

(* Liveness. *)

\* The feed's body is in force at the client.
Applied ==
  IF disk.merge = "override" THEN disk.fed = served.body ELSE disk.own = served.body

\* A client that trusts the server's key ends up with what the server serves, once
\* the server can be reached for good - whatever stale fetches, lost edits and
\* mixed-up answers came before (superviseConfigSource).
Follows == Managed(disk) /\ (disk.signed => disk.pub = served.key) /\ served.body \in Valid
Converges == <>[]~down => <>[](Follows => Applied)

\* What a feed left behind in a config without a url is dropped
\* (DemoteIfUnmanaged, runtime.go:338-345).
DetachCleans == Demoted(disk) # disk ~> Demoted(disk) = disk

=============================================================================
