---------------------------- MODULE EngineHandle ----------------------------
(***************************************************************************)
(* What superviseLoop relies on when it runs an engine                     *)
(* (internal/service/runtime.go: New, Run in a goroutine, cancel, done),   *)
(* without saying how children are watched or killed: one child at a time, *)
(* none started after a cancel but the one that was about to be, none left *)
(* when Run has returned, and none that the job holds left when the        *)
(* service process is gone.                                                *)
(***************************************************************************)
VARIABLES
  handle,  \* "up", "cancelled", "done" (Run has returned), "lost" (with its process)
  alive,   \* a child lives
  held,    \* the job holds the child that was started last
  late     \* a start that was decided on before the cancel is still to come

vars == <<handle, alive, held, late>>

Runs == handle \in {"up", "cancelled"}

Init == handle = "up" /\ alive = FALSE /\ held = FALSE /\ late = FALSE

\* The child before it is gone; a cancelled engine starts none it had not decided on.
Start ==
  /\ ~alive /\ (handle = "up" \/ (handle = "cancelled" /\ late))
  /\ alive' = TRUE /\ held' = FALSE /\ late' = FALSE
  /\ UNCHANGED handle

\* A start comes to nothing.
StartFails == late /\ late' = FALSE /\ UNCHANGED <<handle, alive, held>>

Hold == Runs /\ alive /\ held' = TRUE /\ UNCHANGED <<handle, alive, late>>

\* The child exits or is killed, whoever is there to see it.
ChildEnds == alive /\ alive' = FALSE /\ UNCHANGED <<handle, held, late>>

Cancel ==
  /\ handle = "up" /\ handle' = "cancelled"
  /\ late' \in BOOLEAN /\ (late' => ~alive)
  /\ UNCHANGED <<alive, held>>

\* Run returns: a child is behind it, not beside it.
Finish ==
  /\ Runs /\ ~alive
  /\ handle' = "done" /\ late' = FALSE
  /\ UNCHANGED <<alive, held>>

\* The service process is killed, and the job with it.
Lose ==
  /\ Runs
  /\ handle' = "lost" /\ alive' = (alive /\ ~held) /\ late' = FALSE
  /\ UNCHANGED held

Next == Start \/ StartFails \/ Hold \/ ChildEnds \/ Cancel \/ Finish \/ Lose

Spec == Init /\ [][Next]_vars

=============================================================================
