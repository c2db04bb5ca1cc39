----------------------------- MODULE ServiceLoop -----------------------------
(***************************************************************************)
(* The service's main loop (internal/service/runtime.go, superviseLoop):   *)
(* it reads the config file, the stored credentials and the enabled flag,  *)
(* runs an engine on what it read and starts over when restartCh holds a   *)
(* signal.  Around it are the writers - IPC handlers and the feed fetch    *)
(* write a file and then signal, the panel and editors write the file      *)
(* without a signal - and the file watcher (internal/config/watcher.go)    *)
(* that signals half a second after the last change it noticed.            *)
(*                                                                         *)
(* The content of the config file is a member of Config; what the loop can *)
(* do with a content is given by the constant sets below.  A file that is  *)
(* being written, or whose write failed after the truncation, holds Torn.  *)
(***************************************************************************)
EXTENDS Integers, FiniteSets

CONSTANTS
  Config,     \* contents of socksit.yaml, Torn among them
  Parses,     \* contents config.Load accepts
  Remnant,    \* contents DemoteIfUnmanaged changes
  Demoted,    \* ... and what it makes of them
  Addressed,  \* contents with a proxy address
  Creds,      \* credentials that can be stored
  Accepts,    \* <<content, credentials>> that pass Validate together
  NoCreds,    \* no readable credentials are stored
  Torn,       \* a partially written file
  Off,        \* the demand of a disabled service
  Invalid,    \* the demand of a config that cannot be used
  Writers     \* goroutines that handle requests or fetch the feed

ASSUME ConfigAssumption ==
  /\ Torn \in Config
  /\ Parses \subseteq Config
  /\ Remnant \subseteq Parses
  /\ Addressed \subseteq Config
ASSUME DemoteAssumption == Demoted \in [Remnant -> Parses \ Remnant]
ASSUME CredsAssumption ==
  /\ NoCreds \notin Creds /\ Torn \notin Creds /\ NoCreds # Torn
  /\ Accepts \subseteq Config \X Creds
ASSUME DemandAssumption ==
  Off # Invalid /\ {Off, Invalid} \cap (Config \X (Creds \cup {NoCreds})) = {}

VARIABLES
  disk,         \* content of socksit.yaml
  creds,        \* content of creds.dpapi
  enabled,      \* Runtime.enabled
  restart,      \* restartCh holds its one signal
  notice,       \* the watcher has noticed a change and its timer is running
  watching,     \* config.Watch succeeded
  unannounced,  \* history: files changed with no signal to come, not read since
  phase,        \* what each writer is about to do
  arg,          \* ... and the content it writes
  lpc,          \* where superviseLoop is
  snap,         \* the content effectiveConfig read, while it needs it
  seen,         \* the demand the loop last acted on
  engine,       \* the current supervisor: "none", "up", "cancelled", "done"
  orphan,       \* a supervisor given up on after engineStopTimeout has not returned
  stopping      \* the service context is done

fileVars   == <<disk, creds, enabled>>
signalVars == <<restart, notice, watching, unannounced>>
writerVars == <<phase, arg>>
loopVars   == <<lpc, snap, seen>>
engineVars == <<engine, orphan>>
vars == <<fileVars, signalVars, writerVars, loopVars, engineVars, stopping>>

-----------------------------------------------------------------------------
(* What the files ask for. *)

\* effectiveConfig normalizes a content that left managed mode.
Norm(c) == IF c \in Remnant THEN Demoted[c] ELSE c

\* loadCreds takes a file it cannot decrypt as no credentials.
Readable(k) == IF k = Torn THEN NoCreds ELSE k

Outcome(c, k) ==
  IF c \notin Parses \/ (k # NoCreds /\ <<c, k>> \notin Accepts)
  THEN Invalid ELSE <<c, k>>

Desired == IF enabled THEN Outcome(Norm(disk), Readable(creds)) ELSE Off

Demand == {Off, Invalid} \cup (Config \X (Creds \cup {NoCreds}))

LoopPCs == {"top", "load", "demote", "creds", "build", "run", "stopping", "hold", "returned"}

TypeOK ==
  /\ disk \in Config
  /\ creds \in Creds \cup {NoCreds, Torn}
  /\ enabled \in BOOLEAN /\ restart \in BOOLEAN
  /\ notice \in BOOLEAN /\ watching \in BOOLEAN
  /\ notice => watching
  /\ unannounced \subseteq {"config", "creds"}
  /\ phase \in [Writers -> {"idle", "config", "creds", "signal"}]
  /\ arg \in [Writers -> Config \cup Creds]
  /\ \A w \in Writers : /\ phase[w] = "config" => arg[w] \in Config
                        /\ phase[w] = "creds" => arg[w] \in Creds
  /\ lpc \in LoopPCs
  /\ snap \in Config
  /\ lpc = "demote" => snap \in Remnant
  /\ lpc = "creds" => snap \in Parses \ Remnant
  /\ seen \in Demand
  /\ engine \in {"none", "up", "cancelled", "done"}
  /\ orphan \in BOOLEAN /\ stopping \in BOOLEAN

Init ==
  /\ disk \in Config \ {Torn} /\ creds \in Creds \cup {NoCreds} /\ enabled = TRUE
  /\ restart = FALSE /\ notice = FALSE /\ watching \in BOOLEAN /\ unannounced = {}
  /\ phase = [w \in Writers |-> "idle"] /\ arg = [w \in Writers |-> Torn]
  /\ lpc = "top" /\ snap = Torn /\ seen = Off
  /\ engine = "none" /\ orphan = FALSE /\ stopping = FALSE

\* The config file has been touched: fsnotify reports it, or nobody will.
Touched(announced) ==
  /\ notice' = watching
  /\ unannounced' = IF watching \/ announced THEN unannounced
                    ELSE unannounced \cup {"config"}

-----------------------------------------------------------------------------
(* The loop. *)

TopIgnoringFlag ==  \* mutant: the enabled flag is not consulted
  /\ lpc = "top" /\ ~stopping
  /\ lpc' = "load" /\ UNCHANGED <<snap, seen>>
  /\ UNCHANGED <<fileVars, signalVars, writerVars, engineVars, stopping>>

Top ==
  /\ lpc = "top"
  /\ \/ stopping /\ lpc' = "returned" /\ UNCHANGED <<snap, seen>>
     \/ ~stopping /\ ~enabled /\ lpc' = "hold" /\ seen' = Off /\ UNCHANGED snap
     \/ ~stopping /\ enabled /\ lpc' = "load" /\ UNCHANGED <<snap, seen>>
  /\ UNCHANGED <<fileVars, signalVars, writerVars, engineVars, stopping>>

\* config.Load.
Load ==
  /\ lpc = "load"
  /\ unannounced' = unannounced \ {"config"}
  /\ \/ disk \notin Parses /\ lpc' = "hold" /\ seen' = Invalid /\ UNCHANGED snap
     \/ disk \in Parses /\ snap' = disk /\ UNCHANGED seen
        /\ lpc' = IF disk \in Remnant THEN "demote" ELSE "creds"
  /\ UNCHANGED <<fileVars, restart, notice, watching, writerVars, engineVars, stopping>>

\* The normalized config is written back; a failed write is ignored, and may
\* have left the old content or a torn one.
Demote ==
  /\ lpc = "demote"
  /\ lpc' = "creds" /\ snap' = Demoted[snap]
  /\ \/ disk' = Demoted[snap] /\ Touched(TRUE)
     \/ disk' = Torn /\ Touched(FALSE)
     \/ UNCHANGED <<disk, notice, unannounced>>
  /\ UNCHANGED <<creds, enabled, restart, watching, writerVars, seen, engineVars, stopping>>

LoadCredsUnaddressed ==  \* mutant: a config without a proxy address goes on to the engine
  /\ lpc = "creds"
  /\ unannounced' = unannounced \ {"creds"}
  /\ seen' = Outcome(snap, Readable(creds))
  /\ lpc' = IF seen' = Invalid THEN "hold" ELSE "build"
  /\ snap' = Torn
  /\ UNCHANGED <<fileVars, restart, notice, watching, writerVars, engineVars, stopping>>

\* loadCreds, Validate with the credentials, and the check of the address.
LoadCreds ==
  /\ lpc = "creds"
  /\ unannounced' = unannounced \ {"creds"}
  /\ seen' = Outcome(snap, Readable(creds))
  /\ lpc' = IF seen' = Invalid \/ snap \notin Addressed THEN "hold" ELSE "build"
  /\ snap' = Torn
  /\ UNCHANGED <<fileVars, restart, notice, watching, writerVars, engineVars, stopping>>

\* config.json is generated, written and checked; then the engine is started.
BuildAndLaunch ==
  /\ lpc = "build"
  /\ \/ lpc' = "hold" /\ UNCHANGED engine
     \/ lpc' = "run" /\ engine' = "up"
  /\ UNCHANGED <<fileVars, signalVars, writerVars, snap, seen, orphan, stopping>>

\* waitRestart, and the idling of a disabled loop.
Hold ==
  /\ lpc = "hold"
  /\ \/ stopping /\ lpc' = "returned" /\ UNCHANGED restart
     \/ restart /\ restart' = FALSE /\ lpc' = "top"
  /\ UNCHANGED <<fileVars, notice, watching, unannounced, writerVars, snap, seen, engineVars, stopping>>

RunKeepsOnSignal ==  \* mutant: a signal is taken while the engine is left as it is
  /\ lpc = "run"
  /\ \/ stopping /\ lpc' = "stopping" /\ engine' = "cancelled" /\ UNCHANGED restart
     \/ restart /\ restart' = FALSE /\ UNCHANGED <<lpc, engine>>
     \/ engine = "done" /\ lpc' = "hold" /\ engine' = "none" /\ UNCHANGED restart
  /\ UNCHANGED <<fileVars, notice, watching, unannounced, writerVars, snap, seen, orphan, stopping>>

\* The select over shutdown, a restart signal and an engine that gave up.
Run ==
  /\ lpc = "run"
  /\ \/ stopping /\ lpc' = "stopping" /\ UNCHANGED restart
        /\ engine' = IF engine = "up" THEN "cancelled" ELSE engine
     \/ restart /\ restart' = FALSE /\ lpc' = "stopping"
        /\ engine' = IF engine = "up" THEN "cancelled" ELSE engine
     \/ engine = "done" /\ lpc' = "hold" /\ engine' = "none" /\ UNCHANGED restart
  /\ UNCHANGED <<fileVars, notice, watching, unannounced, writerVars, snap, seen, orphan, stopping>>

AwaitForever ==  \* mutant: the wait for the engine has no timeout
  /\ lpc = "stopping" /\ engine = "done"
  /\ lpc' = "top" /\ engine' = "none"
  /\ UNCHANGED <<fileVars, signalVars, writerVars, snap, seen, orphan, stopping>>

\* awaitEngineStop: the engine has stopped, or the loop moves on without it.
AwaitEngineStop ==
  /\ lpc = "stopping"
  /\ lpc' = "top" /\ engine' = "none"
  /\ \/ engine = "done" /\ UNCHANGED orphan
     \/ engine = "cancelled" /\ orphan' = TRUE
  /\ UNCHANGED <<fileVars, signalVars, writerVars, snap, seen, stopping>>

LoopStep ==
  \/ Top \/ Load \/ Demote \/ LoadCreds \/ BuildAndLaunch \/ Hold \/ Run
  \/ AwaitEngineStop

-----------------------------------------------------------------------------
(* The writers: IPC handlers and the feed fetch. *)

\* Two writes of one file at a time may leave a mixture of the two.
Written(w, p, k) == IF \E v \in Writers \ {w} : phase[v] = p THEN {k, Torn} ELSE {k}

Becomes(w, p) == phase' = [phase EXCEPT ![w] = p]

\* SetConfig and fetchConfig write only what parses and is normalized.
BeginConfig(w) ==
  /\ phase[w] = "idle"
  /\ \E c \in Parses \ Remnant : arg' = [arg EXCEPT ![w] = c]
  /\ Becomes(w, "config")
  /\ disk' = Torn /\ Touched(TRUE)
  /\ UNCHANGED <<creds, enabled, restart, watching, loopVars, engineVars, stopping>>

EndConfigSilent(w) ==  \* mutant: the write is left to the watcher to announce
  /\ phase[w] = "config"
  /\ Becomes(w, "idle") /\ disk' \in Written(w, "config", arg[w]) /\ Touched(TRUE)
  /\ UNCHANGED <<creds, enabled, restart, watching, arg, loopVars, engineVars, stopping>>

\* The write ends, to be signalled; or it fails, and the error is all there is.
EndConfig(w) ==
  /\ phase[w] = "config"
  /\ \/ Becomes(w, "signal") /\ disk' \in Written(w, "config", arg[w]) /\ Touched(TRUE)
     \/ Becomes(w, "idle") /\ UNCHANGED disk /\ Touched(FALSE)
  /\ UNCHANGED <<creds, enabled, restart, watching, arg, loopVars, engineVars, stopping>>

\* SetCredentials: Store.SaveTo, which nothing watches.
BeginCreds(w) ==
  /\ phase[w] = "idle"
  /\ \E k \in Creds : arg' = [arg EXCEPT ![w] = k]
  /\ Becomes(w, "creds") /\ creds' = Torn
  /\ UNCHANGED <<disk, enabled, signalVars, loopVars, engineVars, stopping>>

EndCreds(w) ==
  /\ phase[w] = "creds"
  /\ \/ /\ Becomes(w, "signal") /\ creds' \in Written(w, "creds", arg[w])
        /\ UNCHANGED unannounced
     \/ /\ Becomes(w, "idle") /\ UNCHANGED creds
        /\ unannounced' = unannounced \cup {"creds"}
  /\ UNCHANGED <<disk, enabled, restart, notice, watching, arg, loopVars, engineVars, stopping>>

\* SetCredentials with nothing to store: the file is removed if there is one;
\* a failed removal is ignored.
ClearCreds(w) ==
  /\ phase[w] = "idle" /\ creds # NoCreds
  /\ creds' \in {NoCreds, creds} /\ Becomes(w, "signal")
  /\ UNCHANGED <<disk, enabled, signalVars, arg, loopVars, engineVars, stopping>>

Toggle(w) ==
  /\ phase[w] = "idle"
  /\ enabled' \in BOOLEAN /\ Becomes(w, "signal")
  /\ UNCHANGED <<disk, creds, signalVars, arg, loopVars, engineVars, stopping>>

\* signalRestart: one signal is kept, a second is the same signal.
Signal(w) ==
  /\ phase[w] = "signal"
  /\ restart' = TRUE /\ Becomes(w, "idle")
  /\ UNCHANGED <<fileVars, notice, watching, unannounced, arg, loopVars, engineVars, stopping>>

Reload ==
  /\ restart' = TRUE
  /\ UNCHANGED <<fileVars, notice, watching, unannounced, writerVars, loopVars, engineVars, stopping>>

WriterStep(w) == EndConfig(w) \/ EndCreds(w) \/ Signal(w)

Request(w) == BeginConfig(w) \/ BeginCreds(w) \/ ClearCreds(w) \/ Toggle(w)

-----------------------------------------------------------------------------
(* The watcher, the engine and the outside world. *)

WatchFire ==
  /\ notice /\ notice' = FALSE /\ restart' = TRUE
  /\ UNCHANGED <<fileVars, watching, unannounced, writerVars, loopVars, engineVars, stopping>>

\* The watcher drops its errors, an overflow of the event buffer among them.
NoticeLost ==
  /\ notice /\ notice' = FALSE
  /\ unannounced' = unannounced \cup {"config"}
  /\ UNCHANGED <<fileVars, restart, watching, writerVars, loopVars, engineVars, stopping>>

\* An editor, or the panel while the pipe does not answer.
ExternalEdit ==
  /\ disk' \in Config /\ Touched(FALSE)
  /\ UNCHANGED <<creds, enabled, restart, watching, writerVars, loopVars, engineVars, stopping>>

EngineGivesUp ==
  /\ engine = "up" /\ engine' = "done"
  /\ UNCHANGED <<fileVars, signalVars, writerVars, loopVars, orphan, stopping>>

EngineStops ==
  /\ engine = "cancelled" /\ engine' = "done"
  /\ UNCHANGED <<fileVars, signalVars, writerVars, loopVars, orphan, stopping>>

OrphanStops ==
  /\ orphan /\ orphan' = FALSE
  /\ UNCHANGED <<fileVars, signalVars, writerVars, loopVars, engine, stopping>>

Shutdown ==
  /\ ~stopping /\ stopping' = TRUE
  /\ UNCHANGED <<fileVars, signalVars, writerVars, loopVars, engineVars>>

Environment ==
  \/ Reload \/ NoticeLost \/ ExternalEdit \/ Shutdown
  \/ EngineGivesUp \/ EngineStops \/ OrphanStops

Next ==
  \/ LoopStep \/ WatchFire \/ Environment
  \/ \E w \in Writers : Request(w) \/ WriterStep(w)

Spec == Init /\ [][Next]_vars

\* The loop, the watcher's timer and a request once begun go on; nobody has to
\* ask for anything, and no engine has to stop.
WriterFair(w) == WF_vars(WriterStep(w))
WritersFair == \A w \in Writers : WriterFair(w)
FairSpec == Spec /\ WF_vars(LoopStep) /\ WF_vars(WatchFire) /\ WritersFair

-----------------------------------------------------------------------------
(* Safety. *)

\* Something is on its way that makes the loop look again, or it is looking.
Pending == restart \/ notice \/ \E w \in Writers : phase[w] # "idle"
Looking == lpc \in {"top", "load", "demote", "creds", "stopping", "returned"}
Owed == Pending \/ Looking

\* No change is lost (runtime.go:325-330, 574-621, watcher.go): when nothing is on
\* its way to the loop, what it last acted on is what the files and the flag ask
\* for - whatever writers, torn reads, the normalizing write and a coalesced
\* signal did in between.  The exceptions are counted: a change nothing announces.
NoLostReload == Owed \/ unannounced # {} \/ seen = Desired

\* An engine is only ever up on a config that parses, agrees with the credentials
\* and has a proxy address (runtime.go:219-241); never while the loop acts on Off.
EngineOnlyOnUsable ==
  engine # "none" => \E c \in Parses \cap Addressed, k \in Creds \cup {NoCreds} :
                       seen = <<c, k>> /\ (k # NoCreds => seen \in Accepts)

\* The loop is a reconciler of the demand, in the sense of that module.
R == INSTANCE Reconciler WITH desired <- Desired, owed <- (Owed \/ unannounced # {})
RefinesReconciler == R!Spec

\* What Status reports as the state (runtime.go:511-520): the supervisor's state
\* while the loop keeps one, "disabled" otherwise.
Status ==
  IF enabled /\ lpc \in {"run", "stopping"}
  THEN CASE engine = "done" -> "faulted" [] engine = "cancelled" -> "stopped" [] OTHER -> "live"
  ELSE "disabled"

\* The plan's "enters Faulted (surfaced, not silently looping)": when the loop takes
\* note of an engine that gave up, the state that is reported is the fault.
FaultIsSurfaced ==
  [][(lpc = "run" /\ engine = "done" /\ lpc' = "hold" /\ enabled) => Status' = "faulted"]_vars

(* Liveness. *)

\* Once the files and the flag stay as they are, the loop acts on them for good,
\* however many more signals come (and unless it is shut down).
Settles ==
  <>[][FALSE]_fileVars => <>[](seen = Desired \/ unannounced # {} \/ stopping)

\* A shutdown returns from the loop even if the engine never stops (the purpose of
\* engineStopTimeout, runtime.go:299-314).
ShutdownReturns == stopping ~> lpc = "returned"

=============================================================================
