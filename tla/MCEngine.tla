------------------------------- MODULE MCEngine -------------------------------
(***************************************************************************)
(* Small instances of what the service's process supervises, side by side: *)
(* a behaviour is one of EngineSupervisor, of the watch over the engine's  *)
(* way out (EgressWatch), of what the engine is built from (EngineRules)   *)
(* or of the tray (TrayKeeper), and the others stay at their initial       *)
(* state.  The service's loop, between the first three, is ServiceLoop.    *)
(***************************************************************************)
EXTENDS EngineSupervisor, EgressWatch, MCEngineRules, TrayKeeper

VARIABLE side

allVars == <<vars, egressVars, engineVars, trayVars, side>>

InSupervisor(A) ==
  side = "supervisor" /\ A /\ UNCHANGED <<egressVars, engineVars, trayVars, side>>
InEgress(A) == side = "egress" /\ A /\ UNCHANGED <<vars, engineVars, trayVars, side>>
InRules(A)  == side = "rules" /\ A /\ UNCHANGED <<vars, egressVars, trayVars, side>>
InTray(A)   == side = "tray" /\ A /\ UNCHANGED <<vars, egressVars, engineVars, side>>

\* One initial state of the watch is enough for the other sides.
MCInit ==
  /\ Init /\ EgressInit /\ TableInit /\ TrayInit
  /\ side \in {"supervisor", "egress", "rules", "tray"}
  /\ side # "egress" => reach = {} /\ route = NoPin /\ ~byUser
MCNext ==
  \/ InSupervisor(Next)
  \/ InEgress(EgressNext)
  \/ InRules(TableNext)
  \/ InTray(TrayNext)
MCSpec ==
  /\ MCInit /\ [][MCNext]_allVars
  /\ WF_allVars(InSupervisor(RunStep)) /\ WF_allVars(InSupervisor(KillerStep))
  /\ \A w \in 1..MaxSpawns : WF_allVars(InSupervisor(Watch(w)))
  /\ WF_allVars(InEgress(LoopStep)) /\ WF_allVars(InEgress(WatchStep))
  /\ WF_allVars(InTray(KeeperStep)) /\ WF_allVars(InTray(ShellSettles))
  /\ \A t \in Trays : WF_allVars(InTray(TrayStep(t)))
  /\ SF_allVars(InTray(\E t \in Trays : Launch(t)))
  /\ SF_allVars(InTray(\E t \in Trays : Acquire(t)))
  /\ SF_allVars(InTray(\E t \in Trays : AddIcon(t)))

Types == TypeOK /\ EgressTypeOK /\ TableTypeOK /\ TrayTypeOK

=============================================================================
