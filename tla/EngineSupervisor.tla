-------------------------- MODULE EngineSupervisor --------------------------
(***************************************************************************)
(* The supervisor of the sing-box child (internal/engine/supervisor.go):   *)
(* one call of Run, the goroutine it starts to kill the child when the     *)
(* context is cancelled, the watchReady goroutine it starts per spawn, the *)
(* child itself and the kill-on-close job object that holds it.            *)
(*                                                                         *)
(* Every step between two points where another goroutine can interfere is  *)
(* an action.  Durations are not modelled: a run that ends is healthy or   *)
(* not by choice, and a timer may fire at any time.                        *)
(***************************************************************************)
EXTENDS Integers

CONSTANTS
  MaxFastFails,  \* Options.MaxFastFails
  MinBackoff,    \* Options.MinBackoff, in units of the first delay
  MaxBackoff,    \* Options.MaxBackoff
  MaxSpawns      \* bound: the child started last does not exit by itself

ASSUME OptionsAssumption ==
  /\ MaxFastFails \in Nat \ {0}
  /\ MinBackoff \in Nat \ {0}
  /\ MaxBackoff \in Nat /\ MaxBackoff >= MinBackoff
  /\ MaxSpawns \in Nat \ {0}

\* Arithmetic, not a condition on the options: tlapm knows nothing of powers.
ASSUME PowersOfTwo ==
  /\ 2^0 = 1
  /\ \A n \in 0..MaxFastFails : 2^n \in Nat /\ 2^(n + 1) = 2 * 2^n

VARIABLES
  pc,         \* where Run is
  cancelled,  \* the context is done
  killer,     \* the goroutine that kills on cancel: "armed", "terminated", "done"
  spawns,     \* how many children have been started; the last is the current one
  child,      \* "none", "booting", "ready" (its API accepts), "exited"
  inJob,      \* the current child is a member of the job object
  proc,       \* Supervisor.proc is set
  pid,        \* Supervisor.pid, 0 when there is none
  state,      \* Supervisor.state
  fastFails,  \* local variable of Run
  backoff,    \* local variable of Run
  polling,    \* spawns whose watchReady is dialling
  dialed,     \* ... has connected and has not looked at the state yet
  marking,    \* ... saw StateStarting and is about to store StateRunning
  allowed     \* history: spawns a cancel leaves room for, -1 before the cancel

runVars   == <<fastFails, backoff>>
childVars == <<spawns, child, inJob, proc, pid>>
watchVars == <<polling, dialed, marking>>
ctxVars   == <<cancelled, killer, allowed>>
vars      == <<pc, state, runVars, childVars, watchVars, ctxVars>>

States == {"stopped", "starting", "running", "restarting", "faulted"}
Over   == {"returned", "killed"}
Alive  == child \in {"booting", "ready"}

TypeOK ==
  /\ pc \in {"init", "loop", "spawn", "publish", "assign", "wait", "judge", "backoff"} \cup Over
  /\ cancelled \in BOOLEAN
  /\ killer \in {"armed", "terminated", "done"}
  /\ spawns \in 0..MaxSpawns
  /\ child \in {"none", "booting", "ready", "exited"}
  /\ inJob \in BOOLEAN /\ proc \in BOOLEAN
  /\ pid \in 0..MaxSpawns
  /\ state \in States
  /\ fastFails \in 0..MaxFastFails
  /\ backoff \in MinBackoff..MaxBackoff
  /\ polling \subseteq 1..MaxSpawns
  /\ dialed \subseteq 1..MaxSpawns
  /\ marking \subseteq 1..MaxSpawns
  /\ allowed \in -1..(MaxSpawns + 1)

Init ==
  /\ pc = "init" /\ state = "stopped"
  /\ cancelled = FALSE /\ killer = "armed" /\ allowed = -1
  /\ spawns = 0 /\ child = "none" /\ inJob = FALSE /\ proc = FALSE /\ pid = 0
  /\ fastFails = 0 /\ backoff = MinBackoff
  /\ polling = {} /\ dialed = {} /\ marking = {}

-----------------------------------------------------------------------------
(* Run. *)

\* The deferred job.close: the last handle of a kill-on-close job takes its
\* members with it.
CloseJob ==
  /\ child' = IF inJob /\ Alive THEN "exited" ELSE child
  /\ UNCHANGED <<spawns, inJob, proc, pid>>

Return(st) ==
  /\ pc' = "returned" /\ state' = st
  /\ CloseJob

NewJob ==
  /\ pc = "init"
  /\ \/ pc' = "loop" /\ UNCHANGED <<state, childVars>>
     \/ Return("faulted")
  /\ UNCHANGED <<runVars, watchVars, ctxVars>>

CheckContextBlind ==  \* mutant: the loop starts a child without a look at the context
  /\ pc = "loop"
  /\ pc' = "spawn" /\ state' = "starting"
  /\ UNCHANGED <<childVars, runVars, watchVars, ctxVars>>

\* The top of the loop: leave if the context is done, else announce the start.
CheckContext ==
  /\ pc = "loop"
  /\ \/ cancelled /\ Return("stopped")
     \/ ~cancelled /\ pc' = "spawn" /\ state' = "starting" /\ UNCHANGED childVars
  /\ UNCHANGED <<runVars, watchVars, ctxVars>>

\* cmd.Start, with the pid published when it succeeds.
Spawn ==
  /\ pc = "spawn"
  /\ \/ /\ spawns < MaxSpawns
        /\ spawns' = spawns + 1 /\ child' = "booting" /\ inJob' = FALSE
        /\ pid' = spawns + 1 /\ pc' = "publish"
        /\ UNCHANGED proc
     \/ pid' = 0 /\ pc' = "judge" /\ UNCHANGED <<spawns, child, inJob, proc>>
  /\ UNCHANGED <<state, runVars, watchVars, ctxVars>>

PublishProc ==
  /\ pc = "publish"
  /\ proc' = TRUE /\ pc' = "assign"
  /\ UNCHANGED <<state, spawns, child, inJob, pid, runVars, watchVars, ctxVars>>

AssignUnwatched ==  \* mutant: no readiness watcher is started for this spawn
  /\ pc = "assign"
  /\ inJob' \in IF Alive THEN BOOLEAN ELSE {FALSE}
  /\ pc' = "wait"
  /\ UNCHANGED <<state, spawns, child, proc, pid, runVars, watchVars, ctxVars>>

\* job.assignPID may fail, and must when the child is already gone; either way
\* the readiness watcher of this spawn starts.
AssignAndWatch ==
  /\ pc = "assign"
  /\ inJob' \in IF Alive THEN BOOLEAN ELSE {FALSE}
  /\ polling' = polling \cup {spawns}
  /\ pc' = "wait"
  /\ UNCHANGED <<state, spawns, child, proc, pid, runVars, dialed, marking, ctxVars>>

WaitAbandoned ==  \* mutant: Run stops waiting when the context is done
  /\ pc = "wait" /\ (child = "exited" \/ cancelled)
  /\ proc' = FALSE /\ pid' = 0 /\ pc' = "judge"
  /\ UNCHANGED <<state, spawns, child, inJob, runVars, watchVars, ctxVars>>

\* cmd.Wait returns once the child is gone.
Wait ==
  /\ pc = "wait" /\ child = "exited"
  /\ proc' = FALSE /\ pid' = 0 /\ pc' = "judge"
  /\ UNCHANGED <<state, spawns, child, inJob, runVars, watchVars, ctxVars>>

HealthyNoReset ==  \* mutant: a healthy run resets the delay, not the failures
  /\ pc' = "backoff" /\ state' = "restarting"
  /\ backoff' = MinBackoff
  /\ UNCHANGED <<fastFails, childVars>>

Healthy ==
  /\ pc' = "backoff" /\ state' = "restarting"
  /\ backoff' = MinBackoff /\ fastFails' = 0
  /\ UNCHANGED childVars

FastFail ==
  /\ fastFails' = fastFails + 1
  /\ UNCHANGED backoff
  /\ IF fastFails' >= MaxFastFails
     THEN Return("faulted")
     ELSE pc' = "backoff" /\ state' = "restarting" /\ UNCHANGED childVars

\* After an exit: stop on cancel, else the crash-loop breaker and the backoff.
Judge ==
  /\ pc = "judge"
  /\ \/ cancelled /\ Return("stopped") /\ UNCHANGED runVars
     \/ ~cancelled /\ (Healthy \/ FastFail)
  /\ UNCHANGED <<watchVars, ctxVars>>

BackoffUncapped ==  \* mutant: the delay is doubled without the cap
  /\ pc = "backoff"
  /\ \/ cancelled /\ Return("stopped") /\ UNCHANGED runVars
     \/ /\ pc' = "loop"
        /\ backoff' = 2 * backoff
        /\ UNCHANGED <<state, fastFails, childVars>>
  /\ UNCHANGED <<watchVars, ctxVars>>

\* The select over the delay and the context, and the doubling of the delay.
Backoff ==
  /\ pc = "backoff"
  /\ \/ cancelled /\ Return("stopped") /\ UNCHANGED runVars
     \/ /\ pc' = "loop"
        /\ backoff' = IF 2 * backoff > MaxBackoff THEN MaxBackoff ELSE 2 * backoff
        /\ UNCHANGED <<state, fastFails, childVars>>
  /\ UNCHANGED <<watchVars, ctxVars>>

-----------------------------------------------------------------------------
(* The killer goroutine: one pass over the job and the published process. *)

KillerTerminate ==
  /\ pc # "init" /\ cancelled /\ killer = "armed"
  /\ killer' = "terminated"
  /\ child' = IF inJob /\ Alive THEN "exited" ELSE child
  /\ UNCHANGED <<pc, state, spawns, inJob, proc, pid, runVars, watchVars, cancelled, allowed>>

KillerKillNone ==  \* mutant: the job is the only way to kill
  /\ killer = "terminated"
  /\ killer' = "done"
  /\ UNCHANGED <<pc, state, childVars, runVars, watchVars, cancelled, allowed>>

\* The direct kill reaches a child that never made it into the job.
KillerKill ==
  /\ killer = "terminated"
  /\ killer' = "done"
  /\ child' = IF proc /\ Alive THEN "exited" ELSE child
  /\ UNCHANGED <<pc, state, spawns, inJob, proc, pid, runVars, watchVars, cancelled, allowed>>

-----------------------------------------------------------------------------
(* watchReady, one goroutine per spawn; it is not tied to the life of its   *)
(* child, so a dial may reach a child started later.                        *)

WatchQuit(w) ==
  /\ w \in polling /\ cancelled
  /\ polling' = polling \ {w}
  /\ UNCHANGED <<pc, state, runVars, childVars, ctxVars, dialed, marking>>

WatchDial(w) ==
  /\ w \in polling /\ child = "ready"
  /\ polling' = polling \ {w} /\ dialed' = dialed \cup {w}
  /\ UNCHANGED <<pc, state, runVars, childVars, ctxVars, marking>>

WatchLook(w) ==
  /\ w \in dialed
  /\ dialed' = dialed \ {w}
  /\ marking' = IF state = "starting" THEN marking \cup {w} ELSE marking
  /\ UNCHANGED <<pc, state, runVars, childVars, ctxVars, polling>>

WatchMark(w) ==
  /\ w \in marking
  /\ marking' = marking \ {w} /\ state' = "running"
  /\ UNCHANGED <<pc, runVars, childVars, ctxVars, polling, dialed>>

Watch(w) == WatchQuit(w) \/ WatchDial(w) \/ WatchLook(w) \/ WatchMark(w)

-----------------------------------------------------------------------------
(* The environment: the child, the caller's context, the service process.   *)

ChildReady ==
  /\ child = "booting" /\ child' = "ready"
  /\ UNCHANGED <<pc, state, spawns, inJob, proc, pid, runVars, watchVars, ctxVars>>

ChildExit ==
  /\ Alive /\ spawns < MaxSpawns /\ child' = "exited"
  /\ UNCHANGED <<pc, state, spawns, inJob, proc, pid, runVars, watchVars, ctxVars>>

\* A start already past its check of the context is allowed for.
Cancel ==
  /\ ~cancelled /\ cancelled' = TRUE
  /\ allowed' = IF pc = "spawn" THEN spawns + 1 ELSE spawns
  /\ UNCHANGED <<pc, state, killer, runVars, childVars, watchVars>>

\* The service process is killed: its handles close, its goroutines are gone.
ServiceKilled ==
  /\ pc \notin Over
  /\ pc' = "killed" /\ CloseJob
  /\ polling' = {} /\ dialed' = {} /\ marking' = {}
  /\ UNCHANGED <<state, runVars, ctxVars>>

-----------------------------------------------------------------------------
RunStep ==
  \/ NewJob \/ CheckContext \/ Spawn \/ PublishProc \/ AssignAndWatch
  \/ Wait \/ Judge \/ Backoff

KillerStep == pc # "killed" /\ (KillerTerminate \/ KillerKill)

Environment == ChildReady \/ ChildExit \/ Cancel \/ ServiceKilled

Next ==
  \/ RunStep \/ KillerStep \/ Environment
  \/ \E w \in 1..MaxSpawns : Watch(w)

Spec == Init /\ [][Next]_vars

\* Goroutines are scheduled; nothing obliges a child to come up or to exit, or
\* a caller to cancel.
WatcherFair(w) == WF_vars(Watch(w))
WatchersFair == \A w \in 1..MaxSpawns : WatcherFair(w)
FairSpec == Spec /\ WF_vars(RunStep) /\ WF_vars(KillerStep) /\ WatchersFair

-----------------------------------------------------------------------------
(* Safety. *)

\* However Run returns - cancel, crash loop, no job - no child is left alive
\* behind it (the "no orphan" promise of the deferred job.close and cmd.Wait,
\* supervisor.go:110,150).
NoOrphanAfterReturn == pc = "returned" => ~Alive

\* The plan's "no orphan sing-box.exe": when the service process dies at any
\* point, a child that had been assigned to the job dies with it.
JobDiesWithService == pc = "killed" /\ inJob => ~Alive

\* A cancelled context never leads to another start, except the one start that
\* had passed its check (supervisor.go:127,155,174).
NoPhantomRestart == allowed >= 0 => spawns <= allowed

\* The delay the loop waits before the k-th restart in a row is at least the
\* doubling of a streak of k fast failures and at most one doubling more (the
\* delay is doubled after a healthy run's reset as well, supervisor.go:161-180).
Cap(b) == IF b > MaxBackoff THEN MaxBackoff ELSE b
BackoffTracksStreak ==
  pc = "backoff" =>
    /\ fastFails < MaxFastFails
    /\ IF fastFails = 0 THEN backoff = MinBackoff
       ELSE backoff \in {Cap(MinBackoff * 2^(fastFails - 1)), Cap(MinBackoff * 2^fastFails)}

\* While Run waits for a live child the published state is starting or running:
\* no watcher of an earlier spawn and no earlier store shows through.
StatusWhileAlive == pc = "wait" /\ Alive => state \in {"starting", "running"}

\* The supervisor is an engine handle, in the sense of that module: what the service's
\* loop may rely on when it starts, cancels and awaits one (runtime.go:258-289).
Handle ==
  CASE pc = "returned" -> "done"
    [] pc = "killed"   -> "lost"
    [] OTHER           -> IF cancelled THEN "cancelled" ELSE "up"
H == INSTANCE EngineHandle WITH
       handle <- Handle, alive <- Alive, held <- inJob, late <- (cancelled /\ pc = "spawn")
ImplementsHandle == H!Spec

(* Liveness. *)

\* A child that came up and stays up is reported as running.
ReadyIsReported ==
  (pc = "wait" /\ child = "ready")
    ~> (state = "running" \/ child # "ready" \/ cancelled \/ pc = "killed")

\* A cancel that finds the child published, or no child at all, makes Run return.
Killable == cancelled /\ (pc \in {"loop", "judge", "backoff"} \/ (proc /\ killer # "done"))
CancelReturnsWhenKillable == Killable ~> pc \in Over

\* What supervisor.go:112-115 says of the killer goroutine: on cancel the engine
\* is killed promptly so cmd.Wait returns - that is, a cancelled Run returns.
CancelReturns == cancelled ~> pc \in Over

=============================================================================
