------------------------------- MODULE MCUpkeep -------------------------------
(***************************************************************************)
(* Small instances of ControlPipe, UpdateSwap, UpdateSchedule and          *)
(* LogRotator side by side: a behaviour is one of the control pipe, of an  *)
(* apply with its helper, of the update schedule or of the log, and the    *)
(* others stay at an initial state.  They share no state: the schedule     *)
(* asks for an apply and sees how it ends, which is a choice in            *)
(* UpdateSchedule.                                                         *)
(***************************************************************************)
EXTENDS ControlPipe, UpdateSwap, UpdateSchedule, LogRotator

VARIABLE side

upkeepVars == <<vars, swapVars, scheduleVars, logVars, side>>

InPipe(A)     == side = "pipe" /\ A /\ UNCHANGED <<swapVars, scheduleVars, logVars, side>>
InSwap(A)     == side = "swap" /\ A /\ UNCHANGED <<vars, scheduleVars, logVars, side>>
InSchedule(A) == side = "schedule" /\ A /\ UNCHANGED <<vars, swapVars, logVars, side>>
InLog(A)      == side = "log" /\ A /\ UNCHANGED <<vars, swapVars, scheduleVars, side>>

\* One initial state of the parts that do not move is enough.
MCInit ==
  /\ Init /\ SwapInit /\ ScheduleInit /\ LogInit
  /\ side \in {"pipe", "swap", "schedule", "log"}
  /\ side # "pipe" => user = Nobody
  /\ side # "swap" => sound = Builds /\ file["old"] = Absent /\ ~byMsi
MCNext == InPipe(Next) \/ InSwap(SwapNext) \/ InSchedule(ScheduleNext) \/ InLog(LogNext)

\* Only the pipe's properties need fairness: that of its FairSpec.
MCSpec ==
  /\ MCInit /\ [][MCNext]_upkeepVars
  /\ WF_upkeepVars(InPipe(BindStep))
  /\ SF_upkeepVars(InPipe(CloseOld /\ ~stuck')) /\ SF_upkeepVars(InPipe(Listen))
  /\ WF_upkeepVars(InPipe(ServeLook)) /\ WF_upkeepVars(InPipe(ServeAccept /\ on \notin open))
  /\ WF_upkeepVars(InPipe(ServeCheck))

(* The pipe follows the user (ControlPipe's FollowsUser), in the behaviours in which it is
   the pipe that moves. *)
PipeFollowsUser == side = "pipe" => FollowsUser

(* What each part's variables hold. *)
Types == TypeOK /\ SwapTypeOK /\ ScheduleTypeOK /\ LogTypeOK

=============================================================================
