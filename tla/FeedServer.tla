----------------------------- MODULE FeedServer -----------------------------
(***************************************************************************)
(* The store of the config server (internal/configserver/store.go) and the *)
(* handlers that change it (handlers_admin.go).  A profile is a body with  *)
(* its signature and perhaps a migration with its own, in four files; the  *)
(* signing key is in a fifth.  An operation holds the store's mutex and is *)
(* the sequence of its file writes; any of them may fail, and the server   *)
(* may crash between them or in the middle of one.  The reads of a change  *)
(* of keys may fail too, and their errors are ignored.  An operator's save *)
(* reads the profile first and releases the mutex before it writes, so     *)
(* another operation can come in between.                                  *)
(*                                                                         *)
(* A signature is the key and the content it was made with.  The fields of *)
(* a body are left out (see ConfigRules); what is submitted is well-formed *)
(* but for a migration that is refused after the body has been written.    *)
(***************************************************************************)
EXTENDS Integers, Sequences, FiniteSets, SequencesExt

CONSTANTS
  Names,           \* profiles
  Bodies,          \* what a profile can publish
  Migrations,      \* what a migration can say
  Bad,             \* a migration that does not validate
  Keys,            \* signing keys
  None,            \* no file, no migration, no key
  Torn,            \* a file that was truncated and not written
  Operators,       \* operators' saves that can be under way at a time
  Submitted        \* profiles that are submitted

\* The parts of a profile that are signed, the files of a signature, the key's file.
Parts   == Names \X {"body", "mig"}
Sig(p)  == <<p[1], IF p[2] = "body" THEN "sig" ELSE "migsig">>
KeyFile == <<"keys", "signing.key">>
Files   == Parts \cup {Sig(p) : p \in Parts} \cup {KeyFile}
Plain   == Bodies \cup Migrations \cup {Torn}
Views   == [name : Names, body : Bodies, mig : Migrations \cup {Bad, None}]
NoView  == CHOOSE v \in Views : v.mig = None

ASSUME ServerAssumption ==
  /\ IsFiniteSet(Names) /\ Names # {} /\ Bodies # {}
  /\ None \notin Plain \cup Keys \cup (Keys \X Plain) /\ Torn \notin Bodies \cup Migrations \cup Keys
  /\ Bad \notin Migrations \cup {None}
  /\ Submitted \subseteq Views

VARIABLES
  disk,     \* the files
  priv,     \* the key in memory
  up,       \* the server runs
  todo,     \* what the operation that holds the mutex has yet to write
  job,      \* which operation that is
  held,     \* operators' saves that have read the profile and wait for the mutex
  told,     \* what the last operation answered, or this one will so far
  unread,   \* history: parts the last change of keys could not read
  spoiled   \* history: parts some fault left not fitting

vars == <<disk, priv, up, todo, job, held, told, unread, spoiled>>

Free == [kind |-> "none", view |-> NoView, key |-> None, by |-> "nobody"]
Jobs == [kind : {"none", "save", "delete", "key"}, view : Views, key : Keys \cup {None},
         by : {"nobody", "admin", "operator"}]
Write(f, c) == [at |-> f, put |-> c]

\* What a file can hold, and what can be written to it.
Contents(f) ==
  {None, Torn} \cup
    CASE f = KeyFile -> Keys
      [] f \in Parts -> IF f[2] = "body" THEN Bodies ELSE Migrations
      [] OTHER       -> Keys \X Plain
Disks  == {d \in [Files -> UNION {Contents(f) : f \in Files}] : \A f \in Files : d[f] \in Contents(f)}
Writes == UNION {[at : {f}, put : Contents(f)] : f \in Files}

TypeOK ==
  /\ disk \in Disks
  /\ priv \in Keys \cup {None}
  /\ up \in BOOLEAN
  /\ todo \in Seq(Writes)
  /\ job \in Jobs /\ (todo = <<>> <=> job = Free)
  /\ held \in [Operators -> Views \cup {None}]
  /\ told \in {"ok", "error"}
  /\ unread \subseteq Parts /\ spoiled \subseteq Parts

\* ServedBytes and ServedMigrate: a part and its signature, to a client whose two
\* requests for them wait for the mutex.
Served(p) == <<disk[p], disk[Sig(p)]>>

\* A part, if it is there, belongs to a body and has a signature over itself.
Fits(p) ==
  Served(p)[1] # None =>
    disk[<<p[1], "body">>] # None /\ Served(p)[2] = <<priv, Served(p)[1]>>

Init ==
  /\ disk = [f \in Files |-> None]
  /\ priv = None /\ up = TRUE
  /\ todo = <<>> /\ job = Free /\ told = "ok"
  /\ held = [o \in Operators |-> None]
  /\ unread = {} /\ spoiled = {}

-----------------------------------------------------------------------------
(* Operations: the mutex is taken, and the writes to come are known. *)

\* The migration GetProfile finds: one that does not parse is none.
Migration(n) ==
  IF disk[<<n, "body">>] = None \/ disk[<<n, "mig">>] = Torn THEN None ELSE disk[<<n, "mig">>]

\* handleSaveProfile, for an operator: the migration is the one the profile has now.
Prepare(o, v) ==
  /\ up /\ todo = <<>> /\ held[o] = None
  /\ held' = [held EXCEPT ![o] = [v EXCEPT !.mig = Migration(v.name)]]
  /\ UNCHANGED <<disk, priv, up, todo, job, told, unread, spoiled>>

Begin(k, v, key, by, writes) ==
  /\ up /\ todo = <<>>
  /\ job' = [kind |-> k, view |-> v, key |-> key, by |-> by]
  /\ todo' = writes /\ told' = "ok" /\ unread' = {}
  /\ UNCHANGED <<disk, priv, up, spoiled>>

\* The signature a part gets once it holds c, with key k.
Seal(p, c, k) == Write(Sig(p), <<k, c>>)

\* The writes of SaveProfile; a migration that does not validate is met halfway.
SaveWrites(v) ==
  LET b == <<v.name, "body">>
      m == <<v.name, "mig">> IN
  <<Write(b, v.body), Seal(b, v.body, priv)>> \o
    CASE v.mig = None -> <<Write(m, None), Write(Sig(m), None)>>
      [] v.mig = Bad  -> <<>>
      [] OTHER        -> <<Write(m, v.mig), Seal(m, v.mig, priv)>>

\* SaveProfile.
Save(v, by) ==
  \/ /\ priv # None
     /\ Begin("save", v, None, by, SaveWrites(v))
  \/ /\ up /\ todo = <<>> /\ priv = None /\ told' = "error"
     /\ UNCHANGED <<disk, priv, up, todo, job, unread, spoiled>>

\* The save of a session that is not an operator's.
SaveByAdmin(v) == Save(v, "admin") /\ UNCHANGED held

SaveHeld(o) ==
  /\ held[o] # None /\ Save(held[o], "operator")
  /\ held' = [held EXCEPT ![o] = None]

\* DeleteProfile: os.RemoveAll goes on after a file it cannot remove.
Delete(n) ==
  /\ Begin("delete", [NoView EXCEPT !.name = n], None, "admin",
           <<Write(<<n, "mig">>, None), Write(Sig(<<n, "mig">>), None),
             Write(<<n, "body">>, None), Write(Sig(<<n, "body">>), None)>>)
  /\ UNCHANGED held

\* GenerateKey, ImportKey: the key's file first.
SetKey(k) ==
  /\ Begin("key", NoView, k, "admin", <<Write(KeyFile, k)>>)
  /\ UNCHANGED held

\* What resignAllLocked signs again, when it cannot read what is unseen; a profile without a
\* body is passed over.
Resigned(unseen) == {p \in Parts \ unseen : disk[<<p[1], "body">>] # None /\ disk[p] # None}

\* What it may be unable to read: the list of profiles or a part of it, the body of a profile,
\* and then the migration is not looked at, or the migration.
Unseen ==
  {S \in SUBSET Resigned({}) : \A p \in Resigned({}) : <<p[1], "body">> \in S => p \in S}

ResignBodies(k, unseen) ==  \* mutant: the migrations keep their old signatures
  {[i \in DOMAIN s |-> Seal(s[i], disk[s[i]], k)] :
     s \in SetToSeqs({p \in Resigned(unseen) : p[2] = "body"})}

\* The writes of resignAllLocked, profile by profile, each migration after its body.
\* Profiles are read in the order of their names, which is any.
Resign(k, unseen) ==
  {[i \in DOMAIN s |-> Seal(s[i], disk[s[i]], k)] :
     s \in {t \in SetToSeqs(Resigned(unseen)) : \A i \in DOMAIN t :
              t[i][2] = "mig" => i > 1 /\ t[i - 1] = <<t[i][1], "body">>}}

-----------------------------------------------------------------------------
(* The steps of the operation that holds the mutex. *)

Cut(writes) == {p \in Parts : \E i \in DOMAIN writes : writes[i].at \in {p, Sig(p)}}

\* What is spoiled after some parts have been cut short; those an operation has made to
\* fit are not when it is over.
Spoil(parts) == spoiled' = {p \in spoiled \cup parts : todo' # <<>> \/ ~Fits(p)'}

FinishHalf(outcome) ==  \* mutant: an operation that failed keeps the mutex
  IF todo' = <<>> /\ outcome = "ok"
  THEN job' = Free /\ told' = IF job.kind = "save" /\ job.view.mig = Bad THEN "error" ELSE outcome
  ELSE UNCHANGED job /\ told' = outcome

\* The operation is over; a migration that does not validate is an error only now.
Finish(outcome) ==
  IF todo' = <<>>
  THEN job' = Free /\ told' = IF job.kind = "save" /\ job.view.mig = Bad THEN "error" ELSE outcome
  ELSE UNCHANGED job /\ told' = outcome

\* The first write succeeds; after the key's, every profile that can be read is to be signed
\* again.
Step ==
  /\ up /\ todo # <<>>
  /\ disk' = [disk EXCEPT ![Head(todo).at] = Head(todo).put]
  /\ priv' = IF Head(todo).at = KeyFile THEN job.key ELSE priv
  /\ \/ /\ Head(todo).at = KeyFile
        /\ unread' \in Unseen /\ todo' \in Resign(job.key, unread')
     \/ /\ Head(todo).at # KeyFile
        /\ todo' = Tail(todo) /\ UNCHANGED unread
  /\ Finish(told)
  /\ Spoil(unread')
  /\ UNCHANGED <<up, held>>

WriteFailsKeyed ==  \* mutant: the key is taken before it is on file
  /\ up /\ todo # <<>> /\ Head(todo).put # None
  /\ \E c \in {disk[Head(todo).at], Torn} : disk' = [disk EXCEPT ![Head(todo).at] = c]
  /\ todo' = <<>> /\ job' = Free /\ told' = "error" /\ unread' = {}
  /\ priv' = IF Head(todo).at = KeyFile THEN job.key ELSE priv
  /\ UNCHANGED <<up, held>>
  /\ Spoil(Cut(todo))

\* A file cannot be written (or is left truncated), and the operation gives up.
WriteFails ==
  /\ up /\ todo # <<>> /\ Head(todo).put # None
  /\ \E c \in {disk[Head(todo).at], Torn} : disk' = [disk EXCEPT ![Head(todo).at] = c]
  /\ todo' = <<>> /\ job' = Free /\ told' = "error" /\ unread' = {}
  /\ UNCHANGED <<priv, up, held>>
  /\ Spoil(Cut(todo))

\* A file cannot be removed; what is left to remove is still tried.  A save does not
\* tell, a deletion does.
RemoveFails ==
  /\ up /\ todo # <<>> /\ Head(todo).put = None /\ disk[Head(todo).at] # None
  /\ todo' = Tail(todo)
  /\ Finish(IF job.kind = "delete" THEN "error" ELSE told)
  /\ UNCHANGED <<disk, priv, up, held, unread>>
  /\ Spoil(Cut(todo))

Crash ==
  /\ up /\ up' = FALSE
  /\ IF todo # <<>> /\ Head(todo).put # None
     THEN \E c \in {disk[Head(todo).at], Torn} : disk' = [disk EXCEPT ![Head(todo).at] = c]
     ELSE UNCHANGED disk
  /\ todo' = <<>> /\ job' = Free /\ held' = [o \in Operators |-> None] /\ unread' = {}
  /\ UNCHANGED <<priv, told>>
  /\ Spoil(Cut(todo))

\* Open: without a key that can be read the server does not come up.
Open ==
  /\ ~up /\ disk[KeyFile] # Torn
  /\ up' = TRUE /\ priv' = disk[KeyFile]
  /\ UNCHANGED <<disk, todo, job, held, told, unread, spoiled>>

Next ==
  \/ \E v \in Submitted : SaveByAdmin(v) \/ \E o \in Operators : Prepare(o, v)
  \/ \E o \in Operators : SaveHeld(o)
  \/ \E n \in Names : Delete(n)
  \/ \E k \in Keys : SetKey(k)
  \/ Step \/ WriteFails \/ RemoveFails \/ Crash \/ Open

Spec == Init /\ [][Next]_vars

-----------------------------------------------------------------------------
(* Safety. *)

\* Whatever was saved, deleted, re-keyed, crashed or restarted before: between two
\* operations every body and every migration that is served has a signature over
\* itself by the server's key, unless a fault cut short the operation that was about
\* to sign it and nothing has signed it since (SaveProfile, resignAllLocked, Open).
ServedIsVouched ==
  up /\ todo = <<>> => \A p \in Parts \ spoiled : Fits(p)

\* An operation that answers without an error has done what it was asked for: a
\* saved profile serves what was submitted, a new key signs everything it could read of
\* what a client can fetch - what an earlier change of keys left half signed included -,
\* a deleted profile is gone.  What it could not read stays under the old key, and the
\* answer is ok all the same (store.go:426-438); a migration that is only to be removed
\* may stay, too: the errors of os.Remove are not looked at (store.go:286).
AnswerIsTrue ==
  [][todo # <<>> /\ todo' = <<>> /\ up' /\ told' = "ok" =>
       \A n \in {job.view.name} :
       /\ job.kind = "save" =>
            /\ disk'[<<n, "body">>] = job.view.body /\ Fits(<<n, "body">>)'
            /\ job.view.mig # None => disk'[<<n, "mig">>] = job.view.mig /\ Fits(<<n, "mig">>)'
       /\ job.kind = "key" =>
            /\ priv' = job.key
            /\ \A p \in Parts \ unread' : disk[<<p[1], "body">>] # None => Fits(p)'
       /\ job.kind = "delete" =>
            \A p \in {q \in Parts : q[1] = n} : disk'[p] = None /\ disk'[Sig(p)] = None]_vars

\* handlers_admin.go:26 "Operators can edit routing but not migration: keep the
\* profile's existing migration regardless of what they submit": an operator's save
\* of a profile leaves its migration as it was.
OperatorsKeepMigration ==
  [][job.kind = "none" /\ job'.kind = "save" /\ job'.by = "operator" =>
       job'.view.mig = Migration(job'.view.name)]_vars

=============================================================================
