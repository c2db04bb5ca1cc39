------------------------- MODULE ServiceLoop_proofs -------------------------
(***************************************************************************)
(* Proofs about ServiceLoop for any configs, credentials and writers: its  *)
(* safety properties and that it implements Reconciler.                    *)
(***************************************************************************)
EXTENDS ServiceLoop, TLAPS

\* A signal is held or is the next thing a writer does.
Signalled == restart \/ \E w \in Writers : phase[w] = "signal"

\* The loop has read the flag as it is, unless a signal says otherwise.
FlagRead == lpc \in {"load", "demote", "creds"} /\ ~Signalled => enabled

\* What the loop holds of the config is what the file asks for, unless a change of
\* it is on its way or went unnoticed.
ConfigOwed ==
  Signalled \/ notice \/ "config" \in unannounced \/ \E w \in Writers : phase[w] = "config"
SnapCurrent == lpc \in {"demote", "creds"} /\ ~ConfigOwed => Norm(disk) = Norm(snap)

\* An engine exists only where the loop watches it.
EngineAttended == engine # "none" => lpc \in {"run", "stopping"}

Usable == \E c \in Parses \cap Addressed, k \in Creds \cup {NoCreds} :
            seen = <<c, k>> /\ (k # NoCreds => seen \in Accepts)

\* An engine is built from a usable demand.
BuildUsable == lpc = "build" => Usable

IInv ==
  /\ TypeOK /\ FlagRead /\ SnapCurrent /\ EngineAttended /\ BuildUsable
  /\ NoLostReload /\ EngineOnlyOnUsable

-----------------------------------------------------------------------------
(* The operators on contents and credentials. *)

\* A normalized content needs no normalizing, and stays a content.
LEMMA NormFacts ==
  ASSUME NEW c \in Config
  PROVE  /\ Norm(c) \in Config \ Remnant
         /\ Norm(Norm(c)) = Norm(c)
         /\ c \in Parses <=> Norm(c) \in Parses
  BY ConfigAssumption, DemoteAssumption DEF Norm

\* What loadCreds makes of the file is credentials or none.
LEMMA ReadableTyped ==
  ASSUME NEW k \in Creds \cup {NoCreds, Torn}
  PROVE  Readable(k) \in Creds \cup {NoCreds}
  BY DEF Readable

\* What effectiveConfig arrives at is a demand.
LEMMA OutcomeTyped ==
  ASSUME NEW c \in Config, NEW k \in Creds \cup {NoCreds}
  PROVE  Outcome(c, k) \in Demand
  BY DEF Outcome, Demand

\* An outcome that is not Invalid names a config that parses and agrees with the
\* credentials.
LEMMA OutcomeUsable ==
  ASSUME NEW c \in Config, NEW k \in Creds \cup {NoCreds}, Outcome(c, k) # Invalid
  PROVE  /\ c \in Parses /\ Outcome(c, k) = <<c, k>>
         /\ k # NoCreds => <<c, k>> \in Accepts
  BY DEF Outcome

\* What the files and the flag ask for is a demand.
LEMMA DesiredTyped ==
  ASSUME TypeOK
  PROVE  Desired \in Demand
<1>1. CASE enabled
  <2>1. Norm(disk) \in Config /\ Readable(creds) \in Creds \cup {NoCreds}
    BY NormFacts, ReadableTyped DEF TypeOK
  <2>2. QED
    BY <1>1, <2>1, OutcomeTyped DEF Desired
<1>2. CASE ~enabled
  BY <1>2 DEF Desired, Demand
<1>3. QED
  BY <1>1, <1>2

-----------------------------------------------------------------------------
(* Type correctness. *)

\* Each step of the loop, the writers and the watcher keeps the types.
LEMMA TypeStep ==
  ASSUME TypeOK, [Next]_vars
  PROVE  TypeOK'
<1>1. CASE Top
  BY <1>1, ConfigAssumption
  DEF Top, TypeOK, LoopPCs, fileVars, signalVars, writerVars, engineVars, Demand
<1>2. CASE Load
  BY <1>2, ConfigAssumption
  DEF Load, TypeOK, LoopPCs, fileVars, writerVars, engineVars, Demand
<1>3. CASE Demote
  <2>1. snap \in Remnant /\ Demoted[snap] \in Parses \ Remnant
    BY <1>3, DemoteAssumption DEF Demote, TypeOK
  <2>2. disk' \in Config /\ notice' \in BOOLEAN /\ (notice' => watching)
    BY <1>3, <2>1, ConfigAssumption DEF Demote, Touched, TypeOK
  <2>3. unannounced' \subseteq {"config", "creds"}
    BY <1>3 DEF Demote, Touched, TypeOK
  <2>4. QED
    BY <1>3, <2>1, <2>2, <2>3, ConfigAssumption
    DEF Demote, TypeOK, LoopPCs, writerVars, engineVars
<1>4. CASE LoadCreds
  BY <1>4, ConfigAssumption, ReadableTyped, OutcomeTyped
  DEF LoadCreds, TypeOK, LoopPCs, fileVars, writerVars, engineVars
<1>5. CASE BuildAndLaunch
  BY <1>5
  DEF BuildAndLaunch, TypeOK, LoopPCs, fileVars, signalVars, writerVars
<1>6. CASE Hold
  BY <1>6
  DEF Hold, TypeOK, LoopPCs, fileVars, writerVars, engineVars
<1>7. CASE Run
  BY <1>7 DEF Run, TypeOK, LoopPCs, fileVars, writerVars
<1>8. CASE AwaitEngineStop
  BY <1>8
  DEF AwaitEngineStop, TypeOK, LoopPCs, fileVars, signalVars, writerVars
<1>9. CASE WatchFire
  <2>1. /\ disk' = disk /\ creds' = creds /\ enabled' = enabled /\ watching' = watching
        /\ unannounced' = unannounced /\ phase' = phase /\ arg' = arg /\ lpc' = lpc
        /\ snap' = snap /\ seen' = seen /\ engine' = engine /\ orphan' = orphan
        /\ stopping' = stopping
        /\ notice' = FALSE
        /\ restart' = TRUE
    BY <1>9 DEF WatchFire, fileVars, writerVars, loopVars, engineVars
  <2>2. QED
    BY <2>1 DEF TypeOK
<1>10. CASE Reload
  <2>1. /\ disk' = disk /\ creds' = creds /\ enabled' = enabled /\ notice' = notice
        /\ watching' = watching /\ unannounced' = unannounced /\ phase' = phase
        /\ arg' = arg /\ lpc' = lpc /\ snap' = snap /\ seen' = seen /\ engine' = engine
        /\ orphan' = orphan /\ stopping' = stopping
        /\ restart' = TRUE
    BY <1>10 DEF Reload, fileVars, writerVars, loopVars, engineVars
  <2>2. QED
    BY <2>1 DEF TypeOK
<1>11. CASE NoticeLost
  <2>1. /\ disk' = disk /\ creds' = creds /\ enabled' = enabled /\ restart' = restart
        /\ watching' = watching /\ phase' = phase /\ arg' = arg /\ lpc' = lpc
        /\ snap' = snap /\ seen' = seen /\ engine' = engine /\ orphan' = orphan
        /\ stopping' = stopping
        /\ notice' = FALSE
        /\ unannounced' = unannounced \cup {"config"}
    BY <1>11 DEF NoticeLost, fileVars, writerVars, loopVars, engineVars
  <2>2. QED
    BY <2>1 DEF TypeOK
<1>12. CASE ExternalEdit
  BY <1>12
  DEF ExternalEdit, Touched, TypeOK, LoopPCs, writerVars, loopVars, engineVars
<1>13. CASE Shutdown
  <2>1. /\ disk' = disk /\ creds' = creds /\ enabled' = enabled /\ restart' = restart
        /\ notice' = notice /\ watching' = watching /\ unannounced' = unannounced
        /\ phase' = phase /\ arg' = arg /\ lpc' = lpc /\ snap' = snap /\ seen' = seen
        /\ engine' = engine /\ orphan' = orphan
        /\ stopping' = TRUE
    BY <1>13 DEF Shutdown, fileVars, signalVars, writerVars, loopVars, engineVars
  <2>2. QED
    BY <2>1 DEF TypeOK
<1>14. CASE EngineGivesUp
  <2>1. /\ disk' = disk /\ creds' = creds /\ enabled' = enabled /\ restart' = restart
        /\ notice' = notice /\ watching' = watching /\ unannounced' = unannounced
        /\ phase' = phase /\ arg' = arg /\ lpc' = lpc /\ snap' = snap /\ seen' = seen
        /\ orphan' = orphan /\ stopping' = stopping
        /\ engine' = "done"
    BY <1>14 DEF EngineGivesUp, fileVars, signalVars, writerVars, loopVars
  <2>2. QED
    BY <2>1 DEF TypeOK
<1>15. CASE EngineStops
  <2>1. /\ disk' = disk /\ creds' = creds /\ enabled' = enabled /\ restart' = restart
        /\ notice' = notice /\ watching' = watching /\ unannounced' = unannounced
        /\ phase' = phase /\ arg' = arg /\ lpc' = lpc /\ snap' = snap /\ seen' = seen
        /\ orphan' = orphan /\ stopping' = stopping
        /\ engine' = "done"
    BY <1>15 DEF EngineStops, fileVars, signalVars, writerVars, loopVars
  <2>2. QED
    BY <2>1 DEF TypeOK
<1>16. CASE OrphanStops
  <2>1. /\ disk' = disk /\ creds' = creds /\ enabled' = enabled /\ restart' = restart
        /\ notice' = notice /\ watching' = watching /\ unannounced' = unannounced
        /\ phase' = phase /\ arg' = arg /\ lpc' = lpc /\ snap' = snap /\ seen' = seen
        /\ engine' = engine /\ stopping' = stopping
        /\ orphan' = FALSE
    BY <1>16 DEF OrphanStops, fileVars, signalVars, writerVars, loopVars
  <2>2. QED
    BY <2>1 DEF TypeOK
<1>17. ASSUME NEW w \in Writers, BeginConfig(w) PROVE  TypeOK'
  BY <1>17, ConfigAssumption
  DEF BeginConfig, Touched, Becomes, TypeOK, LoopPCs, loopVars, engineVars
<1>18. ASSUME NEW w \in Writers, BeginCreds(w) PROVE  TypeOK'
  BY <1>18, ConfigAssumption
  DEF BeginCreds, Becomes, TypeOK, LoopPCs, signalVars, loopVars, engineVars
<1>19. ASSUME NEW w \in Writers, ClearCreds(w) PROVE  TypeOK'
  BY <1>19, ConfigAssumption
  DEF ClearCreds, Becomes, TypeOK, LoopPCs, signalVars, loopVars, engineVars
<1>20. ASSUME NEW w \in Writers, Toggle(w) PROVE  TypeOK'
  BY <1>20
  DEF Toggle, Becomes, TypeOK, LoopPCs, signalVars, loopVars, engineVars
<1>21. ASSUME NEW w \in Writers, EndConfig(w) PROVE  TypeOK'
  <2>1. arg[w] \in Config
    BY <1>21 DEF EndConfig, TypeOK
  <2>2. disk' \in Config
    BY <1>21, <2>1, ConfigAssumption DEF EndConfig, Written, TypeOK
  <2>3. phase' \in [Writers -> {"idle", "config", "creds", "signal"}]
        /\ \A v \in Writers : phase'[v] = phase[v] \/ phase'[v] \in {"idle", "signal"}
    BY <1>21 DEF EndConfig, Becomes, TypeOK
  <2>4. notice' \in BOOLEAN /\ (notice' => watching)
    BY <1>21 DEF EndConfig, Touched, TypeOK
  <2>5. unannounced' \subseteq {"config", "creds"}
    <3>1. unannounced' = unannounced \/ unannounced' = unannounced \cup {"config"}
      BY <1>21 DEF EndConfig, Touched
    <3>2. QED
      BY <3>1 DEF TypeOK
  <2>6. QED
    BY <1>21, <2>2, <2>3, <2>4, <2>5
    DEF EndConfig, TypeOK, LoopPCs, loopVars, engineVars
<1>22. ASSUME NEW w \in Writers, EndCreds(w) PROVE  TypeOK'
  <2>1. arg[w] \in Creds
    BY <1>22 DEF EndCreds, TypeOK
  <2>2. creds' \in Creds \cup {NoCreds, Torn}
    BY <1>22, <2>1 DEF EndCreds, Written, TypeOK
  <2>3. phase' \in [Writers -> {"idle", "config", "creds", "signal"}]
        /\ \A v \in Writers : phase'[v] = phase[v] \/ phase'[v] \in {"idle", "signal"}
    BY <1>22 DEF EndCreds, Becomes, TypeOK
  <2>4. unannounced' \subseteq {"config", "creds"}
    BY <1>22 DEF EndCreds, TypeOK
  <2>5. QED
    BY <1>22, <2>2, <2>3, <2>4 DEF EndCreds, TypeOK, LoopPCs, loopVars, engineVars
<1>23. ASSUME NEW w \in Writers, Signal(w) PROVE  TypeOK'
  BY <1>23
  DEF Signal, Becomes, TypeOK, LoopPCs, fileVars, loopVars, engineVars
<1>24. CASE UNCHANGED vars
  BY <1>24
  DEF TypeOK, LoopPCs, vars, fileVars, signalVars, writerVars, loopVars,
      engineVars
<1>25. QED
  BY <1>1, <1>2, <1>3, <1>4, <1>5, <1>6, <1>7, <1>8, <1>9, <1>10, <1>11, <1>12,
     <1>13, <1>14, <1>15, <1>16, <1>17, <1>18, <1>19, <1>20, <1>21, <1>22,
     <1>23, <1>24
  DEF LoopStep, Environment, Request, WriterStep, Next

\* Every variable keeps its type, in any run (all of runtime.go's loop).
THEOREM TypeCorrect == Spec => []TypeOK
<1>1. Init => TypeOK
  BY ConfigAssumption DEF Init, TypeOK, LoopPCs, Demand
<1>2. TypeOK /\ [Next]_vars => TypeOK'
  BY TypeStep
<1>3. QED
  BY <1>1, <1>2, PTL DEF Spec

-----------------------------------------------------------------------------
(* The parts of the inductive invariant, one lemma each. *)

\* A Toggle ends in a signal, so the flag the loop read stays the flag until then.
LEMMA FlagStep ==
  ASSUME TypeOK, FlagRead, [Next]_vars
  PROVE  FlagRead'
<1>1. CASE Top
  BY <1>1
  DEF Top, FlagRead, Signalled, TypeOK, fileVars, signalVars, writerVars,
      engineVars
<1>2. CASE Load
  BY <1>2 DEF Load, FlagRead, Signalled, TypeOK, fileVars, writerVars, engineVars
<1>3. CASE Demote
  BY <1>3 DEF Demote, Touched, FlagRead, Signalled, TypeOK, writerVars, engineVars
<1>4. CASE LoadCreds
  BY <1>4
  DEF LoadCreds, FlagRead, Signalled, TypeOK, fileVars, writerVars, engineVars
<1>5. CASE BuildAndLaunch
  BY <1>5
  DEF BuildAndLaunch, FlagRead, Signalled, TypeOK, fileVars, signalVars,
      writerVars
<1>6. CASE Hold
  BY <1>6 DEF Hold, FlagRead, Signalled, TypeOK, fileVars, writerVars, engineVars
<1>7. CASE Run
  BY <1>7 DEF Run, FlagRead, Signalled, TypeOK, fileVars, writerVars
<1>8. CASE AwaitEngineStop
  BY <1>8
  DEF AwaitEngineStop, FlagRead, Signalled, TypeOK, fileVars, signalVars,
      writerVars
<1>9. CASE WatchFire
  BY <1>9
  DEF WatchFire, FlagRead, Signalled, TypeOK, fileVars, writerVars, loopVars,
      engineVars
<1>10. CASE Reload
  BY <1>10
  DEF Reload, FlagRead, Signalled, TypeOK, fileVars, writerVars, loopVars,
      engineVars
<1>11. CASE NoticeLost
  BY <1>11
  DEF NoticeLost, FlagRead, Signalled, TypeOK, fileVars, writerVars, loopVars,
      engineVars
<1>12. CASE ExternalEdit
  BY <1>12
  DEF ExternalEdit, Touched, FlagRead, Signalled, TypeOK, writerVars, loopVars,
      engineVars
<1>13. CASE Shutdown
  BY <1>13
  DEF Shutdown, FlagRead, Signalled, TypeOK, fileVars, signalVars, writerVars,
      loopVars, engineVars
<1>14. CASE EngineGivesUp
  BY <1>14
  DEF EngineGivesUp, FlagRead, Signalled, TypeOK, fileVars, signalVars,
      writerVars, loopVars
<1>15. CASE EngineStops
  BY <1>15
  DEF EngineStops, FlagRead, Signalled, TypeOK, fileVars, signalVars, writerVars,
      loopVars
<1>16. CASE OrphanStops
  BY <1>16
  DEF OrphanStops, FlagRead, Signalled, TypeOK, fileVars, signalVars, writerVars,
      loopVars
<1>17. ASSUME NEW w \in Writers, BeginConfig(w) PROVE  FlagRead'
  BY <1>17
  DEF BeginConfig, Touched, Becomes, FlagRead, Signalled, TypeOK, loopVars,
      engineVars
<1>18. ASSUME NEW w \in Writers, BeginCreds(w) PROVE  FlagRead'
  BY <1>18
  DEF BeginCreds, Becomes, FlagRead, Signalled, TypeOK, signalVars, loopVars,
      engineVars
<1>19. ASSUME NEW w \in Writers, ClearCreds(w) PROVE  FlagRead'
  BY <1>19
  DEF ClearCreds, Becomes, FlagRead, Signalled, TypeOK, signalVars, loopVars,
      engineVars
<1>20. ASSUME NEW w \in Writers, Toggle(w) PROVE  FlagRead'
  BY <1>20
  DEF Toggle, Becomes, FlagRead, Signalled, TypeOK, signalVars, loopVars,
      engineVars
<1>21. ASSUME NEW w \in Writers, EndConfig(w) PROVE  FlagRead'
  BY <1>21
  DEF EndConfig, Touched, Becomes, Written, FlagRead, Signalled, TypeOK,
      loopVars, engineVars
<1>22. ASSUME NEW w \in Writers, EndCreds(w) PROVE  FlagRead'
  BY <1>22
  DEF EndCreds, Becomes, Written, FlagRead, Signalled, TypeOK, loopVars,
      engineVars
<1>23. ASSUME NEW w \in Writers, Signal(w) PROVE  FlagRead'
  BY <1>23
  DEF Signal, Becomes, FlagRead, Signalled, TypeOK, fileVars, loopVars, engineVars
<1>24. CASE UNCHANGED vars
  BY <1>24
  DEF FlagRead, Signalled, TypeOK, vars, fileVars, signalVars, writerVars,
      loopVars, engineVars
<1>25. QED
  BY <1>1, <1>2, <1>3, <1>4, <1>5, <1>6, <1>7, <1>8, <1>9, <1>10, <1>11, <1>12,
     <1>13, <1>14, <1>15, <1>16, <1>17, <1>18, <1>19, <1>20, <1>21, <1>22,
     <1>23, <1>24
  DEF LoopStep, Environment, Request, WriterStep, Next

\* A change of the config file is announced or counted, and the normalizing write of
\* effectiveConfig leaves the file and the loop with contents that ask for the same.
LEMMA SnapStep ==
  ASSUME TypeOK, SnapCurrent, [Next]_vars
  PROVE  SnapCurrent'
<1>1. CASE Top
  BY <1>1
  DEF Top, SnapCurrent, ConfigOwed, Signalled, TypeOK, fileVars, signalVars,
      writerVars, engineVars
<1>2. CASE Load
  BY <1>2
  DEF Load, SnapCurrent, ConfigOwed, Signalled, TypeOK, fileVars, writerVars,
      engineVars
<1>3. CASE Demote
  <2>1. snap \in Config /\ snap \in Remnant /\ Demoted[snap] \in Config
    BY <1>3, ConfigAssumption, DemoteAssumption DEF Demote, TypeOK
  <2>2. Norm(snap) = Demoted[snap] /\ Norm(Demoted[snap]) = Demoted[snap]
    BY <2>1, NormFacts DEF Norm
  <2>3. CASE disk' = Demoted[snap]
    BY <1>3, <2>2, <2>3 DEF Demote, SnapCurrent
  <2>4. CASE Touched(FALSE)
    BY <1>3, <2>4 DEF Demote, Touched, SnapCurrent, ConfigOwed
  <2>5. CASE UNCHANGED <<disk, notice, unannounced>>
    BY <1>3, <2>2, <2>5
    DEF Demote, SnapCurrent, ConfigOwed, Signalled, writerVars
  <2>6. QED
    BY <1>3, <2>3, <2>4, <2>5 DEF Demote
<1>4. CASE LoadCreds
  BY <1>4
  DEF LoadCreds, SnapCurrent, ConfigOwed, Signalled, TypeOK, fileVars,
      writerVars, engineVars
<1>5. CASE BuildAndLaunch
  BY <1>5
  DEF BuildAndLaunch, SnapCurrent, ConfigOwed, Signalled, TypeOK, fileVars,
      signalVars, writerVars
<1>6. CASE Hold
  BY <1>6
  DEF Hold, SnapCurrent, ConfigOwed, Signalled, TypeOK, fileVars, writerVars,
      engineVars
<1>7. CASE Run
  BY <1>7 DEF Run, SnapCurrent, ConfigOwed, Signalled, TypeOK, fileVars, writerVars
<1>8. CASE AwaitEngineStop
  BY <1>8
  DEF AwaitEngineStop, SnapCurrent, ConfigOwed, Signalled, TypeOK, fileVars,
      signalVars, writerVars
<1>9. CASE WatchFire
  BY <1>9
  DEF WatchFire, SnapCurrent, ConfigOwed, Signalled, TypeOK, fileVars,
      writerVars, loopVars, engineVars
<1>10. CASE Reload
  BY <1>10
  DEF Reload, SnapCurrent, ConfigOwed, Signalled, TypeOK, fileVars, writerVars,
      loopVars, engineVars
<1>11. CASE NoticeLost
  BY <1>11
  DEF NoticeLost, SnapCurrent, ConfigOwed, Signalled, TypeOK, fileVars,
      writerVars, loopVars, engineVars
<1>12. CASE ExternalEdit
  BY <1>12
  DEF ExternalEdit, Touched, SnapCurrent, ConfigOwed, Signalled, TypeOK,
      writerVars, loopVars, engineVars
<1>13. CASE Shutdown
  BY <1>13
  DEF Shutdown, SnapCurrent, ConfigOwed, Signalled, TypeOK, fileVars, signalVars,
      writerVars, loopVars, engineVars
<1>14. CASE EngineGivesUp
  BY <1>14
  DEF EngineGivesUp, SnapCurrent, ConfigOwed, Signalled, TypeOK, fileVars,
      signalVars, writerVars, loopVars
<1>15. CASE EngineStops
  BY <1>15
  DEF EngineStops, SnapCurrent, ConfigOwed, Signalled, TypeOK, fileVars,
      signalVars, writerVars, loopVars
<1>16. CASE OrphanStops
  BY <1>16
  DEF OrphanStops, SnapCurrent, ConfigOwed, Signalled, TypeOK, fileVars,
      signalVars, writerVars, loopVars
<1>17. ASSUME NEW w \in Writers, BeginConfig(w) PROVE  SnapCurrent'
  BY <1>17
  DEF BeginConfig, Touched, Becomes, SnapCurrent, ConfigOwed, Signalled, TypeOK,
      loopVars, engineVars
<1>18. ASSUME NEW w \in Writers, BeginCreds(w) PROVE  SnapCurrent'
  BY <1>18
  DEF BeginCreds, Becomes, SnapCurrent, ConfigOwed, Signalled, TypeOK,
      signalVars, loopVars, engineVars
<1>19. ASSUME NEW w \in Writers, ClearCreds(w) PROVE  SnapCurrent'
  BY <1>19
  DEF ClearCreds, Becomes, SnapCurrent, ConfigOwed, Signalled, TypeOK,
      signalVars, loopVars, engineVars
<1>20. ASSUME NEW w \in Writers, Toggle(w) PROVE  SnapCurrent'
  BY <1>20
  DEF Toggle, Becomes, SnapCurrent, ConfigOwed, Signalled, TypeOK, signalVars,
      loopVars, engineVars
<1>21. ASSUME NEW w \in Writers, EndConfig(w) PROVE  SnapCurrent'
  BY <1>21
  DEF EndConfig, Touched, Becomes, Written, SnapCurrent, ConfigOwed, Signalled,
      TypeOK, loopVars, engineVars
<1>22. ASSUME NEW w \in Writers, EndCreds(w) PROVE  SnapCurrent'
  BY <1>22
  DEF EndCreds, Becomes, Written, SnapCurrent, ConfigOwed, Signalled, TypeOK,
      loopVars, engineVars
<1>23. ASSUME NEW w \in Writers, Signal(w) PROVE  SnapCurrent'
  BY <1>23
  DEF Signal, Becomes, SnapCurrent, ConfigOwed, Signalled, TypeOK, fileVars,
      loopVars, engineVars
<1>24. CASE UNCHANGED vars
  BY <1>24
  DEF SnapCurrent, ConfigOwed, Signalled, TypeOK, vars, fileVars, signalVars,
      writerVars, loopVars, engineVars
<1>25. QED
  BY <1>1, <1>2, <1>3, <1>4, <1>5, <1>6, <1>7, <1>8, <1>9, <1>10, <1>11, <1>12,
     <1>13, <1>14, <1>15, <1>16, <1>17, <1>18, <1>19, <1>20, <1>21, <1>22,
     <1>23, <1>24
  DEF LoopStep, Environment, Request, WriterStep, Next

\* The loop leaves its select only with the engine on its way out or given up.
LEMMA AttendedStep ==
  ASSUME TypeOK, EngineAttended, [Next]_vars
  PROVE  EngineAttended'
<1>1. CASE Top
  BY <1>1
  DEF Top, EngineAttended, TypeOK, fileVars, signalVars, writerVars, engineVars
<1>2. CASE Load
  BY <1>2 DEF Load, EngineAttended, TypeOK, fileVars, writerVars, engineVars
<1>3. CASE Demote
  BY <1>3 DEF Demote, Touched, EngineAttended, TypeOK, writerVars, engineVars
<1>4. CASE LoadCreds
  BY <1>4 DEF LoadCreds, EngineAttended, TypeOK, fileVars, writerVars, engineVars
<1>5. CASE BuildAndLaunch
  BY <1>5
  DEF BuildAndLaunch, EngineAttended, TypeOK, fileVars, signalVars, writerVars
<1>6. CASE Hold
  BY <1>6 DEF Hold, EngineAttended, TypeOK, fileVars, writerVars, engineVars
<1>7. CASE Run
  BY <1>7 DEF Run, EngineAttended, TypeOK, fileVars, writerVars
<1>8. CASE AwaitEngineStop
  BY <1>8
  DEF AwaitEngineStop, EngineAttended, TypeOK, fileVars, signalVars, writerVars
<1>9. CASE WatchFire
  BY <1>9
  DEF WatchFire, EngineAttended, TypeOK, fileVars, writerVars, loopVars,
      engineVars
<1>10. CASE Reload
  BY <1>10
  DEF Reload, EngineAttended, TypeOK, fileVars, writerVars, loopVars, engineVars
<1>11. CASE NoticeLost
  BY <1>11
  DEF NoticeLost, EngineAttended, TypeOK, fileVars, writerVars, loopVars,
      engineVars
<1>12. CASE ExternalEdit
  BY <1>12
  DEF ExternalEdit, Touched, EngineAttended, TypeOK, writerVars, loopVars,
      engineVars
<1>13. CASE Shutdown
  BY <1>13
  DEF Shutdown, EngineAttended, TypeOK, fileVars, signalVars, writerVars,
      loopVars, engineVars
<1>14. CASE EngineGivesUp
  BY <1>14
  DEF EngineGivesUp, EngineAttended, TypeOK, fileVars, signalVars, writerVars,
      loopVars
<1>15. CASE EngineStops
  BY <1>15
  DEF EngineStops, EngineAttended, TypeOK, fileVars, signalVars, writerVars,
      loopVars
<1>16. CASE OrphanStops
  BY <1>16
  DEF OrphanStops, EngineAttended, TypeOK, fileVars, signalVars, writerVars,
      loopVars
<1>17. ASSUME NEW w \in Writers, BeginConfig(w) PROVE  EngineAttended'
  BY <1>17
  DEF BeginConfig, Touched, Becomes, EngineAttended, TypeOK, loopVars, engineVars
<1>18. ASSUME NEW w \in Writers, BeginCreds(w) PROVE  EngineAttended'
  BY <1>18
  DEF BeginCreds, Becomes, EngineAttended, TypeOK, signalVars, loopVars,
      engineVars
<1>19. ASSUME NEW w \in Writers, ClearCreds(w) PROVE  EngineAttended'
  BY <1>19
  DEF ClearCreds, Becomes, EngineAttended, TypeOK, signalVars, loopVars,
      engineVars
<1>20. ASSUME NEW w \in Writers, Toggle(w) PROVE  EngineAttended'
  BY <1>20
  DEF Toggle, Becomes, EngineAttended, TypeOK, signalVars, loopVars, engineVars
<1>21. ASSUME NEW w \in Writers, EndConfig(w) PROVE  EngineAttended'
  BY <1>21
  DEF EndConfig, Touched, Becomes, Written, EngineAttended, TypeOK, loopVars,
      engineVars
<1>22. ASSUME NEW w \in Writers, EndCreds(w) PROVE  EngineAttended'
  BY <1>22
  DEF EndCreds, Becomes, Written, EngineAttended, TypeOK, loopVars, engineVars
<1>23. ASSUME NEW w \in Writers, Signal(w) PROVE  EngineAttended'
  BY <1>23
  DEF Signal, Becomes, EngineAttended, TypeOK, fileVars, loopVars, engineVars
<1>24. CASE UNCHANGED vars
  BY <1>24
  DEF EngineAttended, TypeOK, vars, fileVars, signalVars, writerVars, loopVars,
      engineVars
<1>25. QED
  BY <1>1, <1>2, <1>3, <1>4, <1>5, <1>6, <1>7, <1>8, <1>9, <1>10, <1>11, <1>12,
     <1>13, <1>14, <1>15, <1>16, <1>17, <1>18, <1>19, <1>20, <1>21, <1>22,
     <1>23, <1>24
  DEF LoopStep, Environment, Request, WriterStep, Next

\* Only LoadCreds leads to the build, after its checks.
LEMMA BuildStep ==
  ASSUME TypeOK, BuildUsable, [Next]_vars
  PROVE  BuildUsable'
<1>1. CASE Top
  BY <1>1
  DEF Top, BuildUsable, Usable, TypeOK, fileVars, signalVars, writerVars,
      engineVars
<1>2. CASE Load
  BY <1>2 DEF Load, BuildUsable, Usable, TypeOK, fileVars, writerVars, engineVars
<1>3. CASE Demote
  BY <1>3 DEF Demote, Touched, BuildUsable, Usable, TypeOK, writerVars, engineVars
<1>4. CASE LoadCreds
  <2> SUFFICES ASSUME lpc' = "build" PROVE Usable'
    BY DEF BuildUsable
  <2>1. snap \in Config /\ Readable(creds) \in Creds \cup {NoCreds}
    BY <1>4, ReadableTyped DEF TypeOK
  <2>2. seen' = Outcome(snap, Readable(creds)) /\ seen' # Invalid /\ snap \in Addressed
    BY <1>4 DEF LoadCreds
  <2>3. QED
    BY <2>1, <2>2, OutcomeUsable DEF Usable
<1>5. CASE BuildAndLaunch
  BY <1>5
  DEF BuildAndLaunch, BuildUsable, Usable, TypeOK, fileVars, signalVars,
      writerVars
<1>6. CASE Hold
  BY <1>6 DEF Hold, BuildUsable, Usable, TypeOK, fileVars, writerVars, engineVars
<1>7. CASE Run
  BY <1>7 DEF Run, BuildUsable, Usable, TypeOK, fileVars, writerVars
<1>8. CASE AwaitEngineStop
  BY <1>8
  DEF AwaitEngineStop, BuildUsable, Usable, TypeOK, fileVars, signalVars,
      writerVars
<1>9. CASE WatchFire
  BY <1>9
  DEF WatchFire, BuildUsable, Usable, TypeOK, fileVars, writerVars, loopVars,
      engineVars
<1>10. CASE Reload
  BY <1>10
  DEF Reload, BuildUsable, Usable, TypeOK, fileVars, writerVars, loopVars,
      engineVars
<1>11. CASE NoticeLost
  BY <1>11
  DEF NoticeLost, BuildUsable, Usable, TypeOK, fileVars, writerVars, loopVars,
      engineVars
<1>12. CASE ExternalEdit
  BY <1>12
  DEF ExternalEdit, Touched, BuildUsable, Usable, TypeOK, writerVars, loopVars,
      engineVars
<1>13. CASE Shutdown
  BY <1>13
  DEF Shutdown, BuildUsable, Usable, TypeOK, fileVars, signalVars, writerVars,
      loopVars, engineVars
<1>14. CASE EngineGivesUp
  BY <1>14
  DEF EngineGivesUp, BuildUsable, Usable, TypeOK, fileVars, signalVars,
      writerVars, loopVars
<1>15. CASE EngineStops
  BY <1>15
  DEF EngineStops, BuildUsable, Usable, TypeOK, fileVars, signalVars, writerVars,
      loopVars
<1>16. CASE OrphanStops
  BY <1>16
  DEF OrphanStops, BuildUsable, Usable, TypeOK, fileVars, signalVars, writerVars,
      loopVars
<1>17. ASSUME NEW w \in Writers, BeginConfig(w) PROVE  BuildUsable'
  BY <1>17
  DEF BeginConfig, Touched, Becomes, BuildUsable, Usable, TypeOK, loopVars,
      engineVars
<1>18. ASSUME NEW w \in Writers, BeginCreds(w) PROVE  BuildUsable'
  BY <1>18
  DEF BeginCreds, Becomes, BuildUsable, Usable, TypeOK, signalVars, loopVars,
      engineVars
<1>19. ASSUME NEW w \in Writers, ClearCreds(w) PROVE  BuildUsable'
  BY <1>19
  DEF ClearCreds, Becomes, BuildUsable, Usable, TypeOK, signalVars, loopVars,
      engineVars
<1>20. ASSUME NEW w \in Writers, Toggle(w) PROVE  BuildUsable'
  BY <1>20
  DEF Toggle, Becomes, BuildUsable, Usable, TypeOK, signalVars, loopVars,
      engineVars
<1>21. ASSUME NEW w \in Writers, EndConfig(w) PROVE  BuildUsable'
  BY <1>21
  DEF EndConfig, Touched, Becomes, Written, BuildUsable, Usable, TypeOK,
      loopVars, engineVars
<1>22. ASSUME NEW w \in Writers, EndCreds(w) PROVE  BuildUsable'
  BY <1>22
  DEF EndCreds, Becomes, Written, BuildUsable, Usable, TypeOK, loopVars,
      engineVars
<1>23. ASSUME NEW w \in Writers, Signal(w) PROVE  BuildUsable'
  BY <1>23
  DEF Signal, Becomes, BuildUsable, Usable, TypeOK, fileVars, loopVars, engineVars
<1>24. CASE UNCHANGED vars
  BY <1>24
  DEF BuildUsable, Usable, TypeOK, vars, fileVars, signalVars, writerVars,
      loopVars, engineVars
<1>25. QED
  BY <1>1, <1>2, <1>3, <1>4, <1>5, <1>6, <1>7, <1>8, <1>9, <1>10, <1>11, <1>12,
     <1>13, <1>14, <1>15, <1>16, <1>17, <1>18, <1>19, <1>20, <1>21, <1>22,
     <1>23, <1>24
  DEF LoopStep, Environment, Request, WriterStep, Next

\* What the loop acts on does not change while an engine exists.
LEMMA UsableStep ==
  ASSUME TypeOK, EngineAttended, BuildUsable, EngineOnlyOnUsable, [Next]_vars
  PROVE  EngineOnlyOnUsable'
<1>1. CASE Top
  BY <1>1
  DEF Top, EngineAttended, BuildUsable, Usable, EngineOnlyOnUsable, TypeOK,
      fileVars, signalVars, writerVars, engineVars
<1>2. CASE Load
  BY <1>2
  DEF Load, EngineAttended, BuildUsable, Usable, EngineOnlyOnUsable, TypeOK,
      fileVars, writerVars, engineVars
<1>3. CASE Demote
  BY <1>3
  DEF Demote, Touched, EngineAttended, BuildUsable, Usable, EngineOnlyOnUsable,
      TypeOK, writerVars, engineVars
<1>4. CASE LoadCreds
  BY <1>4
  DEF LoadCreds, EngineAttended, BuildUsable, Usable, EngineOnlyOnUsable, TypeOK,
      fileVars, writerVars, engineVars
<1>5. CASE BuildAndLaunch
  BY <1>5
  DEF BuildAndLaunch, EngineAttended, BuildUsable, Usable, EngineOnlyOnUsable,
      TypeOK, fileVars, signalVars, writerVars
<1>6. CASE Hold
  BY <1>6
  DEF Hold, EngineAttended, BuildUsable, Usable, EngineOnlyOnUsable, TypeOK,
      fileVars, writerVars, engineVars
<1>7. CASE Run
  BY <1>7
  DEF Run, EngineAttended, BuildUsable, Usable, EngineOnlyOnUsable, TypeOK,
      fileVars, writerVars
<1>8. CASE AwaitEngineStop
  BY <1>8
  DEF AwaitEngineStop, EngineAttended, BuildUsable, Usable, EngineOnlyOnUsable,
      TypeOK, fileVars, signalVars, writerVars
<1>9. CASE WatchFire
  BY <1>9
  DEF WatchFire, EngineAttended, BuildUsable, Usable, EngineOnlyOnUsable, TypeOK,
      fileVars, writerVars, loopVars, engineVars
<1>10. CASE Reload
  BY <1>10
  DEF Reload, EngineAttended, BuildUsable, Usable, EngineOnlyOnUsable, TypeOK,
      fileVars, writerVars, loopVars, engineVars
<1>11. CASE NoticeLost
  BY <1>11
  DEF NoticeLost, EngineAttended, BuildUsable, Usable, EngineOnlyOnUsable,
      TypeOK, fileVars, writerVars, loopVars, engineVars
<1>12. CASE ExternalEdit
  BY <1>12
  DEF ExternalEdit, Touched, EngineAttended, BuildUsable, Usable,
      EngineOnlyOnUsable, TypeOK, writerVars, loopVars, engineVars
<1>13. CASE Shutdown
  BY <1>13
  DEF Shutdown, EngineAttended, BuildUsable, Usable, EngineOnlyOnUsable, TypeOK,
      fileVars, signalVars, writerVars, loopVars, engineVars
<1>14. CASE EngineGivesUp
  BY <1>14
  DEF EngineGivesUp, EngineAttended, BuildUsable, Usable, EngineOnlyOnUsable,
      TypeOK, fileVars, signalVars, writerVars, loopVars
<1>15. CASE EngineStops
  BY <1>15
  DEF EngineStops, EngineAttended, BuildUsable, Usable, EngineOnlyOnUsable,
      TypeOK, fileVars, signalVars, writerVars, loopVars
<1>16. CASE OrphanStops
  BY <1>16
  DEF OrphanStops, EngineAttended, BuildUsable, Usable, EngineOnlyOnUsable,
      TypeOK, fileVars, signalVars, writerVars, loopVars
<1>17. ASSUME NEW w \in Writers, BeginConfig(w) PROVE  EngineOnlyOnUsable'
  BY <1>17
  DEF BeginConfig, Touched, Becomes, EngineAttended, BuildUsable, Usable,
      EngineOnlyOnUsable, TypeOK, loopVars, engineVars
<1>18. ASSUME NEW w \in Writers, BeginCreds(w) PROVE  EngineOnlyOnUsable'
  BY <1>18
  DEF BeginCreds, Becomes, EngineAttended, BuildUsable, Usable,
      EngineOnlyOnUsable, TypeOK, signalVars, loopVars, engineVars
<1>19. ASSUME NEW w \in Writers, ClearCreds(w) PROVE  EngineOnlyOnUsable'
  BY <1>19
  DEF ClearCreds, Becomes, EngineAttended, BuildUsable, Usable,
      EngineOnlyOnUsable, TypeOK, signalVars, loopVars, engineVars
<1>20. ASSUME NEW w \in Writers, Toggle(w) PROVE  EngineOnlyOnUsable'
  BY <1>20
  DEF Toggle, Becomes, EngineAttended, BuildUsable, Usable, EngineOnlyOnUsable,
      TypeOK, signalVars, loopVars, engineVars
<1>21. ASSUME NEW w \in Writers, EndConfig(w) PROVE  EngineOnlyOnUsable'
  BY <1>21
  DEF EndConfig, Touched, Becomes, Written, EngineAttended, BuildUsable, Usable,
      EngineOnlyOnUsable, TypeOK, loopVars, engineVars
<1>22. ASSUME NEW w \in Writers, EndCreds(w) PROVE  EngineOnlyOnUsable'
  BY <1>22
  DEF EndCreds, Becomes, Written, EngineAttended, BuildUsable, Usable,
      EngineOnlyOnUsable, TypeOK, loopVars, engineVars
<1>23. ASSUME NEW w \in Writers, Signal(w) PROVE  EngineOnlyOnUsable'
  BY <1>23
  DEF Signal, Becomes, EngineAttended, BuildUsable, Usable, EngineOnlyOnUsable,
      TypeOK, fileVars, loopVars, engineVars
<1>24. CASE UNCHANGED vars
  BY <1>24
  DEF EngineAttended, BuildUsable, Usable, EngineOnlyOnUsable, TypeOK, vars,
      fileVars, signalVars, writerVars, loopVars, engineVars
<1>25. QED
  BY <1>1, <1>2, <1>3, <1>4, <1>5, <1>6, <1>7, <1>8, <1>9, <1>10, <1>11, <1>12,
     <1>13, <1>14, <1>15, <1>16, <1>17, <1>18, <1>19, <1>20, <1>21, <1>22,
     <1>23, <1>24
  DEF LoopStep, Environment, Request, WriterStep, Next

\* The loop goes to rest on what the files ask for; from there only a change moves it.
LEMMA ReloadStep ==
  ASSUME TypeOK, FlagRead, SnapCurrent, NoLostReload, [Next]_vars
  PROVE  NoLostReload'
<1>1. CASE Top
  BY <1>1
  DEF Top, NoLostReload, Owed, Pending, Looking, Desired, TypeOK, fileVars,
      signalVars, writerVars, engineVars
<1>2. CASE Load
  <2> SUFFICES ASSUME ~Owed', unannounced' = {} PROVE seen' = Desired'
    BY DEF NoLostReload
  <2>1. disk \notin Parses /\ seen' = Invalid
    BY <1>2 DEF Load, Owed, Looking
  <2>2. enabled' = TRUE /\ UNCHANGED <<disk, creds>>
    BY <1>2
    DEF Load, Owed, Pending, FlagRead, Signalled, TypeOK, fileVars, writerVars
  <2>3. Norm(disk) \notin Parses
    BY <2>1, NormFacts DEF TypeOK
  <2>4. QED
    BY <2>1, <2>2, <2>3 DEF Desired, Outcome
<1>3. CASE Demote
  BY <1>3
  DEF Demote, Touched, NoLostReload, Owed, Pending, Looking, Desired, TypeOK,
      writerVars, engineVars
<1>4. CASE LoadCreds
  <2> SUFFICES ASSUME ~Owed', unannounced' = {} PROVE seen' = Desired'
    BY DEF NoLostReload
  <2>1. enabled' = TRUE /\ UNCHANGED <<disk, creds>>
    BY <1>4
    DEF LoadCreds, Owed, Pending, FlagRead, Signalled, TypeOK, fileVars,
        writerVars
  <2>2. Norm(disk) = Norm(snap)
    BY <1>4
    DEF LoadCreds, Owed, Pending, SnapCurrent, ConfigOwed, Signalled, writerVars
  <2>3. Norm(snap) = snap
    BY <1>4 DEF LoadCreds, TypeOK, Norm
  <2>4. QED
    BY <1>4, <2>1, <2>2, <2>3 DEF LoadCreds, Desired
<1>5. CASE BuildAndLaunch
  BY <1>5
  DEF BuildAndLaunch, NoLostReload, Owed, Pending, Looking, Desired, TypeOK,
      fileVars, signalVars, writerVars
<1>6. CASE Hold
  BY <1>6
  DEF Hold, NoLostReload, Owed, Pending, Looking, Desired, TypeOK, fileVars,
      writerVars, engineVars
<1>7. CASE Run
  BY <1>7
  DEF Run, NoLostReload, Owed, Pending, Looking, Desired, TypeOK, fileVars,
      writerVars
<1>8. CASE AwaitEngineStop
  BY <1>8
  DEF AwaitEngineStop, NoLostReload, Owed, Pending, Looking, Desired, TypeOK,
      fileVars, signalVars, writerVars
<1>9. CASE WatchFire
  BY <1>9
  DEF WatchFire, NoLostReload, Owed, Pending, Looking, Desired, TypeOK, fileVars,
      writerVars, loopVars, engineVars
<1>10. CASE Reload
  BY <1>10
  DEF Reload, NoLostReload, Owed, Pending, Looking, Desired, TypeOK, fileVars,
      writerVars, loopVars, engineVars
<1>11. CASE NoticeLost
  BY <1>11
  DEF NoticeLost, NoLostReload, Owed, Pending, Looking, Desired, TypeOK,
      fileVars, writerVars, loopVars, engineVars
<1>12. CASE ExternalEdit
  BY <1>12
  DEF ExternalEdit, Touched, NoLostReload, Owed, Pending, Looking, Desired,
      TypeOK, writerVars, loopVars, engineVars
<1>13. CASE Shutdown
  BY <1>13
  DEF Shutdown, NoLostReload, Owed, Pending, Looking, Desired, TypeOK, fileVars,
      signalVars, writerVars, loopVars, engineVars
<1>14. CASE EngineGivesUp
  BY <1>14
  DEF EngineGivesUp, NoLostReload, Owed, Pending, Looking, Desired, TypeOK,
      fileVars, signalVars, writerVars, loopVars
<1>15. CASE EngineStops
  BY <1>15
  DEF EngineStops, NoLostReload, Owed, Pending, Looking, Desired, TypeOK,
      fileVars, signalVars, writerVars, loopVars
<1>16. CASE OrphanStops
  BY <1>16
  DEF OrphanStops, NoLostReload, Owed, Pending, Looking, Desired, TypeOK,
      fileVars, signalVars, writerVars, loopVars
<1>17. ASSUME NEW w \in Writers, BeginConfig(w) PROVE  NoLostReload'
  BY <1>17
  DEF BeginConfig, Touched, Becomes, NoLostReload, Owed, Pending, Looking,
      Desired, TypeOK, loopVars, engineVars
<1>18. ASSUME NEW w \in Writers, BeginCreds(w) PROVE  NoLostReload'
  BY <1>18
  DEF BeginCreds, Becomes, NoLostReload, Owed, Pending, Looking, Desired, TypeOK,
      signalVars, loopVars, engineVars
<1>19. ASSUME NEW w \in Writers, ClearCreds(w) PROVE  NoLostReload'
  BY <1>19
  DEF ClearCreds, Becomes, NoLostReload, Owed, Pending, Looking, Desired, TypeOK,
      signalVars, loopVars, engineVars
<1>20. ASSUME NEW w \in Writers, Toggle(w) PROVE  NoLostReload'
  BY <1>20
  DEF Toggle, Becomes, NoLostReload, Owed, Pending, Looking, Desired, TypeOK,
      signalVars, loopVars, engineVars
<1>21. ASSUME NEW w \in Writers, EndConfig(w) PROVE  NoLostReload'
  BY <1>21
  DEF EndConfig, Touched, Becomes, Written, NoLostReload, Owed, Pending, Looking,
      Desired, TypeOK, loopVars, engineVars
<1>22. ASSUME NEW w \in Writers, EndCreds(w) PROVE  NoLostReload'
  BY <1>22
  DEF EndCreds, Becomes, Written, NoLostReload, Owed, Pending, Looking, Desired,
      TypeOK, loopVars, engineVars
<1>23. ASSUME NEW w \in Writers, Signal(w) PROVE  NoLostReload'
  BY <1>23
  DEF Signal, Becomes, NoLostReload, Owed, Pending, Looking, Desired, TypeOK,
      fileVars, loopVars, engineVars
<1>24. CASE UNCHANGED vars
  BY <1>24
  DEF NoLostReload, Owed, Pending, Looking, Desired, TypeOK, vars, fileVars,
      signalVars, writerVars, loopVars, engineVars
<1>25. QED
  BY <1>1, <1>2, <1>3, <1>4, <1>5, <1>6, <1>7, <1>8, <1>9, <1>10, <1>11, <1>12,
     <1>13, <1>14, <1>15, <1>16, <1>17, <1>18, <1>19, <1>20, <1>21, <1>22,
     <1>23, <1>24
  DEF LoopStep, Environment, Request, WriterStep, Next

\* The invariant is inductive: each part needs only the parts its lemma names.
LEMMA Inductive == IInv /\ [Next]_vars => IInv'
BY TypeStep, FlagStep, SnapStep, AttendedStep, BuildStep, UsableStep, ReloadStep DEF IInv

\* The inductive invariant holds in every run of the loop (superviseLoop).
THEOREM Invariant == Spec => []IInv
<1>1. Init => IInv
  <2> SUFFICES ASSUME Init PROVE IInv
    OBVIOUS
  <2>1. TypeOK
    BY ConfigAssumption DEF Init, TypeOK, LoopPCs, Demand
  <2>2. QED
    BY <2>1 DEF Init, IInv, FlagRead, SnapCurrent, EngineAttended, BuildUsable,
       NoLostReload, Owed, Looking, EngineOnlyOnUsable
<1>2. QED
  BY <1>1, Inductive, PTL DEF Spec

\* No change of the files or the flag is lost on its way to the loop
\* (runtime.go, signalRestart and the writers).
THEOREM ChangesReachTheLoop == Spec => []NoLostReload
<1>1. IInv => NoLostReload
  BY DEF IInv
<1>2. QED
  BY <1>1, Invariant, PTL

\* No engine is up on a config that is not usable (runtime.go:219-241).
THEOREM EnginesAreUsable == Spec => []EngineOnlyOnUsable
<1>1. IInv => EngineOnlyOnUsable
  BY DEF IInv
<1>2. QED
  BY <1>1, Invariant, PTL

-----------------------------------------------------------------------------
(* The loop implements Reconciler. *)

\* A change of what the files ask for is always followed by another look.
LEMMA ChangeIsOwed ==
  ASSUME TypeOK, [Next]_vars, fileVars' # fileVars
  PROVE  (Owed \/ unannounced # {})'
<1>1. CASE Demote
  BY <1>1 DEF Demote, Touched, Owed, Pending, Looking, TypeOK, fileVars
<1>2. CASE ExternalEdit
  BY <1>2 DEF ExternalEdit, Touched, Owed, Pending, Looking, TypeOK, fileVars
<1>3. ASSUME NEW w \in Writers, BeginConfig(w) PROVE  (Owed \/ unannounced # {})'
  BY <1>3 DEF BeginConfig, Becomes, Owed, Pending, Looking, TypeOK, fileVars
<1>4. ASSUME NEW w \in Writers, EndConfig(w) PROVE  (Owed \/ unannounced # {})'
  BY <1>4 DEF EndConfig, Touched, Becomes, Owed, Pending, Looking, TypeOK, fileVars
<1>5. ASSUME NEW w \in Writers, BeginCreds(w) PROVE  (Owed \/ unannounced # {})'
  BY <1>5 DEF BeginCreds, Becomes, Owed, Pending, Looking, TypeOK, fileVars
<1>6. ASSUME NEW w \in Writers, EndCreds(w) PROVE  (Owed \/ unannounced # {})'
  BY <1>6 DEF EndCreds, Becomes, Owed, Pending, Looking, TypeOK, fileVars
<1>7. ASSUME NEW w \in Writers, ClearCreds(w) PROVE  (Owed \/ unannounced # {})'
  BY <1>7 DEF ClearCreds, Becomes, Owed, Pending, Looking, TypeOK, fileVars
<1>8. ASSUME NEW w \in Writers, Toggle(w) PROVE  (Owed \/ unannounced # {})'
  BY <1>8 DEF Toggle, Becomes, Owed, Pending, Looking, TypeOK, fileVars
<1>9. ASSUME Top \/ Load \/ LoadCreds \/ BuildAndLaunch \/ Hold \/ Run
            \/ AwaitEngineStop \/ WatchFire \/ Reload \/ NoticeLost \/ Shutdown \/ EngineGivesUp \/ EngineStops \/ OrphanStops \/ \E w \in Writers : Signal(w)
     PROVE  FALSE
  BY <1>9 DEF Top, Load, LoadCreds, BuildAndLaunch, Hold, Run, AwaitEngineStop, WatchFire,
       Reload, NoticeLost, Shutdown, EngineGivesUp, EngineStops, OrphanStops, Signal, fileVars
<1>10. QED
  BY <1>1, <1>2, <1>3, <1>4, <1>5, <1>6, <1>7, <1>8, <1>9
  DEF LoopStep, Environment, Request, WriterStep, Next, vars

\* The loop revises what it acts on only while a look is owed and nothing changes.
LEMMA LookIsOwed ==
  ASSUME [Next]_vars, seen' # seen
  PROVE  Owed /\ UNCHANGED fileVars
<1>1. CASE Top \/ Load \/ LoadCreds
  BY <1>1 DEF Top, Load, LoadCreds, Owed, Looking, fileVars
<1>2. ASSUME Demote \/ BuildAndLaunch \/ Hold \/ Run \/ AwaitEngineStop
            \/ WatchFire \/ Reload \/ NoticeLost \/ ExternalEdit \/ Shutdown
            \/ EngineGivesUp \/ EngineStops \/ OrphanStops
            \/ \E w \in Writers : Request(w) \/ WriterStep(w)
     PROVE  FALSE
  BY <1>2 DEF Demote, BuildAndLaunch, Hold, Run, AwaitEngineStop, WatchFire, Reload, NoticeLost,
       ExternalEdit, Shutdown, EngineGivesUp, EngineStops, OrphanStops,
       Request, WriterStep, BeginConfig, BeginCreds, ClearCreds, Toggle, EndConfig, EndCreds, Signal, loopVars
<1>3. QED
  BY <1>1, <1>2 DEF LoopStep, Environment, Next, vars, loopVars

\* Every step of the loop and its surroundings is a change, a look, the end of a
\* debt or nothing at all to a reconciler of the demand (superviseLoop as a whole).
THEOREM Refinement == Spec => RefinesReconciler
<1> USE DEF R!vars
<1>1. Init /\ TypeOK => R!Init
  BY DesiredTyped DEF Init, R!Init, Owed, Looking, Demand
<1>2. ASSUME IInv, IInv', [Next]_vars PROVE [R!Next]_R!vars
  <2> DEFINE owedNow == Owed \/ unannounced # {}
  <2>1. seen \in Demand /\ seen' \in Demand /\ Desired' \in Demand
    <3>1. TypeOK /\ TypeOK' /\ (TypeOK => Desired \in Demand)'
      BY <1>2, DesiredTyped, PTL DEF IInv
    <3>2. QED
      BY <3>1 DEF TypeOK, Demand
  <2>2. ~owedNow' => seen' = Desired'
    BY <1>2 DEF IInv, NoLostReload
  <2>3. ~owedNow => seen = Desired
    BY <1>2 DEF IInv, NoLostReload
  <2>4. fileVars' # fileVars => owedNow'
    BY <1>2, ChangeIsOwed DEF IInv
  <2>5. seen' # seen => owedNow /\ fileVars' = fileVars
    BY <1>2, LookIsOwed
  <2>6. fileVars' = fileVars => Desired' = Desired
    BY DEF fileVars, Desired
  <2>7. owedNow \in BOOLEAN /\ owedNow' \in BOOLEAN
    BY DEF Owed, Looking, Pending
  <2> HIDE DEF owedNow
  <2>8. CASE seen' # seen
    BY <2>1, <2>2, <2>5, <2>6, <2>7, <2>8
    DEF R!Next, R!LookStale, R!LookFresh, owedNow
  <2>9. CASE seen' = seen
    BY <2>1, <2>2, <2>3, <2>4, <2>6, <2>7, <2>9
    DEF R!Next, R!Change, R!Settle, owedNow
  <2>10. QED
    BY <2>8, <2>9
<1>3. QED
  BY <1>1, <1>2, TypeCorrect, Invariant, PTL DEF Spec, RefinesReconciler, R!Spec

-----------------------------------------------------------------------------
(* A shutdown returns.  tlapm does not reason about ENABLED, so what lets the *)
(* loop go on is written out, and that it does is a hypothesis.               *)

\* Where the loop stands it can go on: everywhere but in a select on nothing and
\* after its return.
LoopReady ==
  \/ lpc \in {"top", "load", "demote", "creds", "build"}
  \/ lpc = "hold" /\ (stopping \/ restart)
  \/ lpc = "run" /\ (stopping \/ restart \/ engine = "done")
  \/ lpc = "stopping" /\ engine \in {"cancelled", "done"}

LoopGoes == LoopReady => ENABLED <<LoopStep>>_vars

\* The loop waits only for an engine that it has cancelled or that has stopped.
Awaited ==
  /\ lpc = "run" => engine \in {"up", "done"}
  /\ lpc = "stopping" => engine \in {"cancelled", "done"}
  /\ lpc = "returned" => stopping

\* Nobody but the loop moves it, takes its engine away or takes a shutdown back.
LEMMA Elsewhere ==
  ASSUME [Next]_vars, ~LoopStep
  PROVE  /\ UNCHANGED lpc
         /\ engine' = engine \/ (engine = "up" /\ engine' = "done")
                             \/ (engine = "cancelled" /\ engine' = "done")
         /\ stopping => stopping'
<1>1. CASE WatchFire \/ Reload \/ NoticeLost \/ ExternalEdit
  <2>1. UNCHANGED <<loopVars, engineVars, stopping>>
    BY <1>1 DEF WatchFire, Reload, NoticeLost, ExternalEdit
  <2>2. QED
    BY <2>1 DEF loopVars, engineVars
<1>2. CASE Shutdown \/ EngineGivesUp \/ EngineStops \/ OrphanStops
  BY <1>2 DEF Shutdown, EngineGivesUp, EngineStops, OrphanStops, loopVars, engineVars
<1>3. ASSUME NEW w \in Writers, Request(w) \/ WriterStep(w)
      PROVE  UNCHANGED <<lpc, engine, stopping>>
  BY <1>3 DEF Request, WriterStep, BeginConfig, BeginCreds, ClearCreds, Toggle, EndConfig,
       EndCreds, Signal, loopVars, engineVars
<1>4. CASE UNCHANGED vars
  BY <1>4 DEF vars, loopVars, engineVars
<1>5. QED
  BY <1>1, <1>2, <1>3, <1>4 DEF Next, Environment

\* What a step of the loop makes of where it is.
LEMMA LoopMoves ==
  ASSUME LoopStep
  PROVE  /\ UNCHANGED stopping
         /\ lpc = "top" /\ stopping => lpc' = "returned"
         /\ lpc = "hold" => lpc' \in {"returned", "top"}
         /\ lpc = "stopping" => lpc' = "top"
         /\ lpc = "run" => lpc' \in {"stopping", "hold"}
         /\ lpc = "build" => lpc' \in {"hold", "run"}
         /\ lpc = "creds" => lpc' \in {"hold", "build"}
         /\ lpc = "demote" => lpc' = "creds"
         /\ lpc = "load" => lpc' \in {"hold", "demote", "creds"}
         /\ lpc # "returned"
BY DEF LoopStep, Top, Load, Demote, LoadCreds, BuildAndLaunch, Hold, Run, AwaitEngineStop

\* The loop enters a select on an engine that is up, and a wait after its cancel.
LEMMA AwaitedStep ==
  ASSUME Awaited, [Next]_vars
  PROVE  Awaited'
<1>1. CASE ~LoopStep
  BY <1>1, Elsewhere DEF Awaited
<1>2. CASE Top \/ Load \/ Demote \/ LoadCreds \/ Hold \/ AwaitEngineStop
  BY <1>2 DEF Top, Load, Demote, LoadCreds, Hold, AwaitEngineStop, Awaited
<1>3. CASE BuildAndLaunch
  BY <1>3 DEF BuildAndLaunch, Awaited
<1>4. CASE Run
  BY <1>4 DEF Run, Awaited
<1>5. QED
  BY <1>1, <1>2, <1>3, <1>4 DEF LoopStep

\* So a wait always ends (runtime.go:261-314).
LEMMA AwaitedAlways == Spec => []Awaited
<1>1. Init => Awaited
  BY DEF Init, Awaited
<1>2. QED
  BY <1>1, AwaitedStep, PTL DEF Spec

\* One round of the loop, of which no place is passed twice: each place leads, by
\* fairness, to one that is nearer to the return.
THEOREM ShutdownEnds == FairSpec /\ []LoopGoes => ShutdownReturns
<1>2. Spec => []Awaited
  BY AwaitedAlways
<1>3. ASSUME TypeOK, stopping
      PROVE  \/ lpc = "top" \/ lpc = "stopping" \/ lpc = "hold" \/ lpc = "run" \/ lpc = "build"
             \/ lpc = "creds" \/ lpc = "demote" \/ lpc = "load" \/ lpc = "returned"
  BY <1>3 DEF TypeOK, LoopPCs
<1>4. stopping /\ lpc # "returned" /\ TypeOK /\ Awaited => LoopReady
  BY DEF TypeOK, LoopPCs, Awaited, LoopReady
<1>5. ASSUME [Next]_vars, stopping
      PROVE  stopping' /\ (lpc' = lpc \/ LoopStep)
  BY <1>5, Elsewhere, LoopMoves
<1>6. ASSUME TypeOK, Awaited PROVE LoopGoes => (stopping /\ lpc # "returned" => ENABLED <<LoopStep>>_vars)
  BY <1>4, <1>6 DEF LoopGoes
<1>7. FairSpec /\ []LoopGoes => ((stopping /\ lpc = "top") ~> (stopping /\ lpc = "returned"))
  <2>1. stopping /\ lpc = "top" /\ [Next]_vars
          => (stopping /\ lpc = "top")' \/ (stopping /\ lpc = "returned")'
    BY <1>5, LoopMoves
  <2>2. stopping /\ lpc = "top" /\ [Next]_vars /\ <<LoopStep>>_vars => (stopping /\ lpc = "returned")'
    BY <1>5, LoopMoves
  <2>3. stopping /\ lpc = "top" => stopping /\ lpc # "returned"
    OBVIOUS
  <2>4. QED
    BY <1>2, <1>6, <2>1, <2>2, <2>3, TypeCorrect, PTL DEF FairSpec, Spec
<1>8. FairSpec /\ []LoopGoes => ((stopping /\ lpc = "stopping") ~> (stopping /\ lpc = "top"))
  <2>1. stopping /\ lpc = "stopping" /\ [Next]_vars
          => (stopping /\ lpc = "stopping")' \/ (stopping /\ lpc = "top")'
    BY <1>5, LoopMoves
  <2>2. stopping /\ lpc = "stopping" /\ [Next]_vars /\ <<LoopStep>>_vars => (stopping /\ lpc = "top")'
    BY <1>5, LoopMoves
  <2>3. stopping /\ lpc = "stopping" => stopping /\ lpc # "returned"
    OBVIOUS
  <2>4. QED
    BY <1>2, <1>6, <2>1, <2>2, <2>3, TypeCorrect, PTL DEF FairSpec, Spec
<1>9. FairSpec /\ []LoopGoes => ((stopping /\ lpc = "hold") ~> (stopping /\ (lpc = "returned" \/ lpc = "top")))
  <2>1. stopping /\ lpc = "hold" /\ [Next]_vars
          => (stopping /\ lpc = "hold")' \/ (stopping /\ (lpc = "returned" \/ lpc = "top"))'
    BY <1>5, LoopMoves
  <2>2. stopping /\ lpc = "hold" /\ [Next]_vars /\ <<LoopStep>>_vars => (stopping /\ (lpc = "returned" \/ lpc = "top"))'
    BY <1>5, LoopMoves
  <2>3. stopping /\ lpc = "hold" => stopping /\ lpc # "returned"
    OBVIOUS
  <2>4. QED
    BY <1>2, <1>6, <2>1, <2>2, <2>3, TypeCorrect, PTL DEF FairSpec, Spec
<1>10. FairSpec /\ []LoopGoes => ((stopping /\ lpc = "run") ~> (stopping /\ (lpc = "stopping" \/ lpc = "hold")))
  <2>1. stopping /\ lpc = "run" /\ [Next]_vars
          => (stopping /\ lpc = "run")' \/ (stopping /\ (lpc = "stopping" \/ lpc = "hold"))'
    BY <1>5, LoopMoves
  <2>2. stopping /\ lpc = "run" /\ [Next]_vars /\ <<LoopStep>>_vars => (stopping /\ (lpc = "stopping" \/ lpc = "hold"))'
    BY <1>5, LoopMoves
  <2>3. stopping /\ lpc = "run" => stopping /\ lpc # "returned"
    OBVIOUS
  <2>4. QED
    BY <1>2, <1>6, <2>1, <2>2, <2>3, TypeCorrect, PTL DEF FairSpec, Spec
<1>11. FairSpec /\ []LoopGoes => ((stopping /\ lpc = "build") ~> (stopping /\ (lpc = "hold" \/ lpc = "run")))
  <2>1. stopping /\ lpc = "build" /\ [Next]_vars
          => (stopping /\ lpc = "build")' \/ (stopping /\ (lpc = "hold" \/ lpc = "run"))'
    BY <1>5, LoopMoves
  <2>2. stopping /\ lpc = "build" /\ [Next]_vars /\ <<LoopStep>>_vars => (stopping /\ (lpc = "hold" \/ lpc = "run"))'
    BY <1>5, LoopMoves
  <2>3. stopping /\ lpc = "build" => stopping /\ lpc # "returned"
    OBVIOUS
  <2>4. QED
    BY <1>2, <1>6, <2>1, <2>2, <2>3, TypeCorrect, PTL DEF FairSpec, Spec
<1>12. FairSpec /\ []LoopGoes => ((stopping /\ lpc = "creds") ~> (stopping /\ (lpc = "hold" \/ lpc = "build")))
  <2>1. stopping /\ lpc = "creds" /\ [Next]_vars
          => (stopping /\ lpc = "creds")' \/ (stopping /\ (lpc = "hold" \/ lpc = "build"))'
    BY <1>5, LoopMoves
  <2>2. stopping /\ lpc = "creds" /\ [Next]_vars /\ <<LoopStep>>_vars => (stopping /\ (lpc = "hold" \/ lpc = "build"))'
    BY <1>5, LoopMoves
  <2>3. stopping /\ lpc = "creds" => stopping /\ lpc # "returned"
    OBVIOUS
  <2>4. QED
    BY <1>2, <1>6, <2>1, <2>2, <2>3, TypeCorrect, PTL DEF FairSpec, Spec
<1>13. FairSpec /\ []LoopGoes => ((stopping /\ lpc = "demote") ~> (stopping /\ lpc = "creds"))
  <2>1. stopping /\ lpc = "demote" /\ [Next]_vars
          => (stopping /\ lpc = "demote")' \/ (stopping /\ lpc = "creds")'
    BY <1>5, LoopMoves
  <2>2. stopping /\ lpc = "demote" /\ [Next]_vars /\ <<LoopStep>>_vars => (stopping /\ lpc = "creds")'
    BY <1>5, LoopMoves
  <2>3. stopping /\ lpc = "demote" => stopping /\ lpc # "returned"
    OBVIOUS
  <2>4. QED
    BY <1>2, <1>6, <2>1, <2>2, <2>3, TypeCorrect, PTL DEF FairSpec, Spec
<1>14. FairSpec /\ []LoopGoes => ((stopping /\ lpc = "load") ~> (stopping /\ (lpc = "hold" \/ lpc = "demote" \/ lpc = "creds")))
  <2>1. stopping /\ lpc = "load" /\ [Next]_vars
          => (stopping /\ lpc = "load")' \/ (stopping /\ (lpc = "hold" \/ lpc = "demote" \/ lpc = "creds"))'
    BY <1>5, LoopMoves
  <2>2. stopping /\ lpc = "load" /\ [Next]_vars /\ <<LoopStep>>_vars => (stopping /\ (lpc = "hold" \/ lpc = "demote" \/ lpc = "creds"))'
    BY <1>5, LoopMoves
  <2>3. stopping /\ lpc = "load" => stopping /\ lpc # "returned"
    OBVIOUS
  <2>4. QED
    BY <1>2, <1>6, <2>1, <2>2, <2>3, TypeCorrect, PTL DEF FairSpec, Spec
<1>15. QED
  BY <1>3, <1>7, <1>8, <1>9, <1>10, <1>11, <1>12, <1>13, <1>14, TypeCorrect, PTL
  DEF ShutdownReturns, FairSpec

-----------------------------------------------------------------------------
(* The loop settles.  Again what lets each goroutine go on is written out.     *)

Busy == \E w \in Writers : phase[w] # "idle"

Goes ==
  /\ LoopGoes
  /\ notice => ENABLED <<WatchFire>>_vars
  /\ \A w \in Writers : phase[w] # "idle" => ENABLED <<WriterStep(w)>>_vars

Frozen == [][FALSE]_fileVars

\* What the loop last acted on is what is asked for, and so is what it holds.
Fresh ==
  /\ seen = Desired
  /\ lpc = "load" => enabled
  /\ lpc \in {"demote", "creds"} => enabled /\ Norm(disk) = Norm(snap)

\* It is about to look, or looks at what is asked for.
ReadsIt == enabled /\ Norm(disk) = Norm(snap)

\* Nobody but the loop takes a signal, and a file changed unannounced stays so.
LEMMA SignalsStay ==
  ASSUME [Next]_vars, ~LoopStep
  PROVE  /\ restart => restart'
         /\ unannounced \subseteq unannounced'
         /\ UNCHANGED <<snap, seen>>
<1>1. CASE WatchFire \/ Reload \/ NoticeLost \/ ExternalEdit
  BY <1>1 DEF WatchFire, Reload, NoticeLost, ExternalEdit, Touched, loopVars
<1>2. CASE Shutdown \/ EngineGivesUp \/ EngineStops \/ OrphanStops
  BY <1>2 DEF Shutdown, EngineGivesUp, EngineStops, OrphanStops, signalVars, loopVars
<1>3. ASSUME NEW w \in Writers, Request(w) \/ WriterStep(w)
      PROVE  /\ restart => restart'
             /\ unannounced \subseteq unannounced'
             /\ UNCHANGED <<snap, seen>>
  BY <1>3 DEF Request, WriterStep, BeginConfig, BeginCreds, ClearCreds, Toggle, EndConfig,
       EndCreds, Signal, Touched, signalVars, loopVars
<1>4. CASE UNCHANGED vars
  BY <1>4 DEF vars, signalVars, loopVars
<1>5. QED
  BY <1>1, <1>2, <1>3, <1>4 DEF Next, Environment

\* The loop takes a signal in its two selects only, and then looks again.
LEMMA SignalsTaken ==
  ASSUME [Next]_vars, restart
  PROVE  \/ restart'
         \/ lpc = "hold" /\ lpc' = "top"
         \/ lpc = "run" /\ lpc' = "stopping"
<1>1. CASE ~LoopStep
  BY <1>1, SignalsStay
<1>2. CASE Top \/ Load \/ Demote \/ LoadCreds \/ BuildAndLaunch \/ AwaitEngineStop
  BY <1>2 DEF Top, Load, Demote, LoadCreds, BuildAndLaunch, AwaitEngineStop, signalVars
<1>3. CASE Hold \/ Run
  BY <1>3 DEF Hold, Run
<1>4. QED
  BY <1>1, <1>2, <1>3 DEF LoopStep

\* Without a signal and a shutdown the loop stays in its selects and reads nothing.
LEMMA SelectStep ==
  ASSUME [Next]_vars, lpc \in {"hold", "run"}, ~restart, ~stopping
  PROVE  /\ lpc' \in {"hold", "run"}
         /\ unannounced \subseteq unannounced'
<1>1. CASE ~LoopStep
  BY <1>1, Elsewhere, SignalsStay
<1>2. CASE Top \/ Load \/ Demote \/ LoadCreds \/ BuildAndLaunch \/ AwaitEngineStop
  BY <1>2 DEF Top, Load, Demote, LoadCreds, BuildAndLaunch, AwaitEngineStop
<1>3. CASE Hold \/ Run
  BY <1>3 DEF Hold, Run
<1>4. QED
  BY <1>1, <1>2, <1>3 DEF LoopStep

\* A notice becomes a signal, or is lost and its file is one nobody announced.
LEMMA NoticeStep ==
  ASSUME TypeOK, [Next]_vars, notice
  PROVE  /\ notice' \/ restart' \/ unannounced' # {}
         /\ WatchFire => restart'
<1>1. WatchFire => restart'
  BY DEF WatchFire
<1>2. CASE Top \/ Load \/ LoadCreds \/ BuildAndLaunch \/ Hold \/ Run \/ AwaitEngineStop
  <2>1. UNCHANGED notice
    BY <1>2 DEF Top, Load, LoadCreds, BuildAndLaunch, Hold, Run, AwaitEngineStop, signalVars
  <2>2. QED
    BY <1>1, <2>1
<1>3. CASE WatchFire \/ Demote \/ NoticeLost \/ ExternalEdit
  BY <1>3 DEF WatchFire, Demote, NoticeLost, ExternalEdit, Touched, TypeOK
<1>4. CASE Reload \/ Shutdown \/ EngineGivesUp \/ EngineStops \/ OrphanStops
  <2>1. UNCHANGED notice
    BY <1>4 DEF Reload, Shutdown, EngineGivesUp, EngineStops, OrphanStops, signalVars
  <2>2. QED
    BY <1>1, <2>1
<1>5. ASSUME NEW w \in Writers, Request(w) \/ WriterStep(w)
      PROVE  notice' \/ restart'
  BY <1>5 DEF Request, WriterStep, BeginConfig, BeginCreds, ClearCreds, Toggle, EndConfig,
       EndCreds, Signal, Touched, TypeOK, signalVars
<1>6. CASE UNCHANGED vars
  <2>1. UNCHANGED notice
    BY <1>6 DEF vars, signalVars
  <2>2. QED
    BY <1>1, <2>1
<1>7. QED
  BY <1>1, <1>2, <1>3, <1>4, <1>5, <1>6 DEF Next, Environment, LoopStep

\* A request that has begun ends with a signal, or with an error and what the
\* watcher makes of the file.
LEMMA RequestStep ==
  ASSUME TypeOK, [Next]_vars, NEW w \in Writers
  PROVE  /\ phase[w] # "idle" /\ ~WriterStep(w) => phase'[w] = phase[w]
         /\ phase[w] \in {"config", "creds"} /\ WriterStep(w)
              => phase'[w] = "signal" \/ notice' \/ unannounced' # {}
         /\ phase[w] = "signal" /\ WriterStep(w) => restart'
<1>1. CASE LoopStep
  BY <1>1 DEF LoopStep, Top, Load, Demote, LoadCreds, BuildAndLaunch, Hold, Run, AwaitEngineStop,
       WriterStep, EndConfig, EndCreds, Signal, Becomes, Touched, TypeOK, writerVars
<1>2. ASSUME ~LoopStep, phase[w] # "idle", ~WriterStep(w) PROVE phase'[w] = phase[w]
  <2>1. ASSUME NEW v \in Writers, Request(v) \/ WriterStep(v) PROVE phase'[w] = phase[w]
    BY <1>2, <2>1 DEF Request, WriterStep, BeginConfig, BeginCreds, ClearCreds, Toggle, EndConfig,
         EndCreds, Signal, Becomes, TypeOK
  <2>2. CASE WatchFire \/ Environment \/ UNCHANGED vars
    BY <2>2 DEF WatchFire, Environment, Reload, NoticeLost, ExternalEdit, Shutdown, EngineGivesUp,
         EngineStops, OrphanStops, vars, writerVars
  <2>3. QED
    BY <1>2, <2>1, <2>2 DEF Next
<1>3. ASSUME phase[w] \in {"config", "creds"}, WriterStep(w)
      PROVE  phase'[w] = "signal" \/ notice' \/ unannounced' # {}
  BY <1>3 DEF WriterStep, EndConfig, EndCreds, Signal, Becomes, Touched, TypeOK
<1>4. ASSUME phase[w] = "signal", WriterStep(w) PROVE restart'
  BY <1>4 DEF WriterStep, EndConfig, EndCreds, Signal
<1>5. QED
  BY <1>1, <1>2, <1>3, <1>4

\* Files that stay ask for the same.
LEMMA FrozenStep ==
  ASSUME [FALSE]_fileVars
  PROVE  UNCHANGED <<disk, creds, enabled, Desired>>
BY DEF fileVars, Desired

\* From its top the loop reads what files that stay ask for, and acts on it.
LEMMA LookStep ==
  ASSUME IInv, [Next]_vars, [FALSE]_fileVars, LoopStep
  PROVE  /\ lpc = "top" /\ ~stopping => Fresh' \/ (lpc' = "load" /\ enabled')
         /\ lpc = "load" /\ enabled => Fresh' \/ (lpc' \in {"demote", "creds"} /\ ReadsIt')
         /\ lpc = "demote" /\ ReadsIt => lpc' = "creds" /\ ReadsIt'
         /\ lpc = "creds" /\ ReadsIt => Fresh'
<1>1. UNCHANGED <<disk, creds, enabled, Desired>>
  BY FrozenStep
<1>2. TypeOK
  BY DEF IInv
<1>3. ASSUME lpc = "top", ~stopping PROVE Fresh' \/ (lpc' = "load" /\ enabled')
  <2>1. Top
    BY <1>3 DEF LoopStep, Top, Load, Demote, LoadCreds, BuildAndLaunch, Hold, Run, AwaitEngineStop
  <2>2. CASE enabled
    BY <1>1, <1>3, <2>1, <2>2 DEF Top
  <2>3. CASE ~enabled
    BY <1>1, <1>3, <2>1, <2>3 DEF Top, Fresh, Desired
  <2>4. QED
    BY <2>2, <2>3
<1>4. ASSUME lpc = "load", enabled
      PROVE  Fresh' \/ (lpc' \in {"demote", "creds"} /\ ReadsIt')
  <2>1. Load
    BY <1>4 DEF LoopStep, Top, Load, Demote, LoadCreds, BuildAndLaunch, Hold, Run, AwaitEngineStop
  <2>2. CASE disk \notin Parses
    <3>1. Desired = Invalid
      BY <1>2, <1>4, <2>2, NormFacts DEF Desired, Outcome, TypeOK
    <3>2. QED
      BY <1>1, <2>1, <2>2, <3>1 DEF Load, Fresh
  <2>3. CASE disk \in Parses
    BY <1>1, <1>4, <2>1, <2>3 DEF Load, ReadsIt, Norm
  <2>4. QED
    BY <2>2, <2>3
<1>5. ASSUME lpc = "demote", ReadsIt PROVE lpc' = "creds" /\ ReadsIt'
  <2>1. Demote
    BY <1>5 DEF LoopStep, Top, Load, Demote, LoadCreds, BuildAndLaunch, Hold, Run, AwaitEngineStop
  <2>2. snap \in Remnant /\ snap \in Config /\ Norm(snap) = Demoted[snap]
    BY <1>2, <1>5 DEF TypeOK, Norm
  <2>3. Norm(Demoted[snap]) = Norm(snap)
    BY <2>2, NormFacts
  <2>4. QED
    BY <1>1, <1>5, <2>1, <2>3 DEF Demote, ReadsIt, Norm
<1>6. ASSUME lpc = "creds", ReadsIt PROVE Fresh'
  <2>1. LoadCreds
    BY <1>6 DEF LoopStep, Top, Load, Demote, LoadCreds, BuildAndLaunch, Hold, Run, AwaitEngineStop
  <2>2. Norm(disk) = snap
    BY <1>2, <1>6 DEF TypeOK, ReadsIt, Norm
  <2>3. seen' = Desired /\ lpc' \in {"hold", "build"}
    BY <1>6, <2>1, <2>2 DEF LoadCreds, Desired, ReadsIt
  <2>4. QED
    BY <1>1, <2>3 DEF Fresh
<1>7. QED
  BY <1>3, <1>4, <1>5, <1>6

\* While the files stay, a look that read them right is not spoiled by what else moves.
LEMMA LookStays ==
  ASSUME [Next]_vars, [FALSE]_fileVars, ~LoopStep
  PROVE  /\ UNCHANGED lpc
         /\ enabled => enabled'
         /\ ReadsIt => ReadsIt'
         /\ Fresh => Fresh'
BY FrozenStep, Elsewhere, SignalsStay DEF ReadsIt, Fresh, Norm

\* Once the loop has acted on files that stay, every further look finds the same.
LEMMA FreshStays ==
  ASSUME IInv, Fresh, [Next]_vars, [FALSE]_fileVars
  PROVE  Fresh'
<1>1. CASE ~LoopStep
  BY <1>1, LookStays
<1>2. CASE LoopStep /\ lpc \in {"load", "demote", "creds"}
  <2>1. seen' = seen \/ Fresh'
    BY <1>2, LookStep DEF Fresh, ReadsIt, LoopStep, Top, Load, Demote, LoadCreds, BuildAndLaunch, Hold,
         Run, AwaitEngineStop
  <2>2. QED
    BY <1>2, <2>1, FrozenStep, LookStep DEF Fresh, ReadsIt
<1>3. CASE LoopStep /\ lpc = "top" /\ ~stopping
  <2>1. Top
    BY <1>3 DEF LoopStep, Top, Load, Demote, LoadCreds, BuildAndLaunch, Hold, Run, AwaitEngineStop
  <2>2. CASE enabled
    BY <1>3, <2>1, <2>2, FrozenStep DEF Top, Fresh
  <2>3. CASE ~enabled
    BY <1>3, <2>1, <2>3, FrozenStep DEF Top, Fresh, Desired
  <2>4. QED
    BY <2>2, <2>3
<1>4. CASE LoopStep /\ ~(lpc \in {"load", "demote", "creds"}) /\ ~(lpc = "top" /\ ~stopping)
  <2>1. seen' = seen /\ lpc' \notin {"load", "demote", "creds"}
    BY <1>4 DEF LoopStep, Top, Load, Demote, LoadCreds, BuildAndLaunch, Hold, Run, AwaitEngineStop
  <2>2. QED
    BY <2>1, FrozenStep DEF Fresh
<1>5. QED
  BY <1>1, <1>2, <1>3, <1>4

\* A signal makes the loop look again, from wherever it is.
LEMMA SignalLeads == FairSpec /\ []Goes => (restart ~> (lpc = "top" \/ stopping))
<1>1. FairSpec /\ []Goes => ((restart /\ lpc = "load") ~> (restart /\ (lpc = "hold" \/ lpc = "demote" \/ lpc = "creds")))
  <2>1. restart /\ lpc = "load" /\ TypeOK /\ Awaited /\ [Next]_vars => (restart /\ lpc = "load")' \/ (restart /\ (lpc = "hold" \/ lpc = "demote" \/ lpc = "creds"))'
    BY Elsewhere, SignalsTaken, LoopMoves
  <2>2. restart /\ lpc = "load" /\ TypeOK /\ Awaited /\ [Next]_vars /\ <<LoopStep>>_vars => (restart /\ (lpc = "hold" \/ lpc = "demote" \/ lpc = "creds"))'
    BY SignalsTaken, LoopMoves
  <2>3. restart /\ lpc = "load" /\ Awaited /\ Goes => ENABLED <<LoopStep>>_vars
    BY DEF LoopReady, LoopGoes, Goes, Awaited
  <2>4. QED
    BY <2>1, <2>2, <2>3, TypeCorrect, AwaitedAlways, PTL DEF FairSpec, Spec
<1>2. FairSpec /\ []Goes => ((restart /\ lpc = "demote") ~> (restart /\ (lpc = "creds")))
  <2>1. restart /\ lpc = "demote" /\ TypeOK /\ Awaited /\ [Next]_vars => (restart /\ lpc = "demote")' \/ (restart /\ (lpc = "creds"))'
    BY Elsewhere, SignalsTaken, LoopMoves
  <2>2. restart /\ lpc = "demote" /\ TypeOK /\ Awaited /\ [Next]_vars /\ <<LoopStep>>_vars => (restart /\ (lpc = "creds"))'
    BY SignalsTaken, LoopMoves
  <2>3. restart /\ lpc = "demote" /\ Awaited /\ Goes => ENABLED <<LoopStep>>_vars
    BY DEF LoopReady, LoopGoes, Goes, Awaited
  <2>4. QED
    BY <2>1, <2>2, <2>3, TypeCorrect, AwaitedAlways, PTL DEF FairSpec, Spec
<1>3. FairSpec /\ []Goes => ((restart /\ lpc = "creds") ~> (restart /\ (lpc = "hold" \/ lpc = "build")))
  <2>1. restart /\ lpc = "creds" /\ TypeOK /\ Awaited /\ [Next]_vars => (restart /\ lpc = "creds")' \/ (restart /\ (lpc = "hold" \/ lpc = "build"))'
    BY Elsewhere, SignalsTaken, LoopMoves
  <2>2. restart /\ lpc = "creds" /\ TypeOK /\ Awaited /\ [Next]_vars /\ <<LoopStep>>_vars => (restart /\ (lpc = "hold" \/ lpc = "build"))'
    BY SignalsTaken, LoopMoves
  <2>3. restart /\ lpc = "creds" /\ Awaited /\ Goes => ENABLED <<LoopStep>>_vars
    BY DEF LoopReady, LoopGoes, Goes, Awaited
  <2>4. QED
    BY <2>1, <2>2, <2>3, TypeCorrect, AwaitedAlways, PTL DEF FairSpec, Spec
<1>4. FairSpec /\ []Goes => ((restart /\ lpc = "build") ~> (restart /\ (lpc = "hold" \/ lpc = "run")))
  <2>1. restart /\ lpc = "build" /\ TypeOK /\ Awaited /\ [Next]_vars => (restart /\ lpc = "build")' \/ (restart /\ (lpc = "hold" \/ lpc = "run"))'
    BY Elsewhere, SignalsTaken, LoopMoves
  <2>2. restart /\ lpc = "build" /\ TypeOK /\ Awaited /\ [Next]_vars /\ <<LoopStep>>_vars => (restart /\ (lpc = "hold" \/ lpc = "run"))'
    BY SignalsTaken, LoopMoves
  <2>3. restart /\ lpc = "build" /\ Awaited /\ Goes => ENABLED <<LoopStep>>_vars
    BY DEF LoopReady, LoopGoes, Goes, Awaited
  <2>4. QED
    BY <2>1, <2>2, <2>3, TypeCorrect, AwaitedAlways, PTL DEF FairSpec, Spec
<1>5. FairSpec /\ []Goes => ((restart /\ lpc = "hold") ~> (lpc = "top" \/ stopping))
  <2>1. restart /\ lpc = "hold" /\ TypeOK /\ Awaited /\ [Next]_vars => (restart /\ lpc = "hold")' \/ (lpc = "top" \/ stopping)'
    BY Elsewhere, SignalsTaken, LoopMoves, AwaitedStep DEF Awaited
  <2>2. restart /\ lpc = "hold" /\ TypeOK /\ Awaited /\ [Next]_vars /\ <<LoopStep>>_vars => (lpc = "top" \/ stopping)'
    BY LoopMoves, AwaitedStep DEF Awaited
  <2>3. restart /\ lpc = "hold" /\ Awaited /\ Goes => ENABLED <<LoopStep>>_vars
    BY DEF LoopReady, LoopGoes, Goes, Awaited
  <2>4. QED
    BY <2>1, <2>2, <2>3, TypeCorrect, AwaitedAlways, PTL DEF FairSpec, Spec
<1>6. FairSpec /\ []Goes => ((restart /\ lpc = "run") ~> (lpc = "stopping" \/ (restart /\ lpc = "hold")))
  <2>1. restart /\ lpc = "run" /\ TypeOK /\ Awaited /\ [Next]_vars => (restart /\ lpc = "run")' \/ (lpc = "stopping" \/ (restart /\ lpc = "hold"))'
    BY Elsewhere, SignalsTaken, LoopMoves
  <2>2. restart /\ lpc = "run" /\ TypeOK /\ Awaited /\ [Next]_vars /\ <<LoopStep>>_vars => (lpc = "stopping" \/ (restart /\ lpc = "hold"))'
    BY SignalsTaken, LoopMoves
  <2>3. restart /\ lpc = "run" /\ Awaited /\ Goes => ENABLED <<LoopStep>>_vars
    BY DEF LoopReady, LoopGoes, Goes, Awaited
  <2>4. QED
    BY <2>1, <2>2, <2>3, TypeCorrect, AwaitedAlways, PTL DEF FairSpec, Spec
<1>7. FairSpec /\ []Goes => ((lpc = "stopping") ~> (lpc = "top"))
  <2>1. lpc = "stopping" /\ TypeOK /\ Awaited /\ [Next]_vars => (lpc = "stopping")' \/ (lpc = "top")'
    BY Elsewhere, LoopMoves
  <2>2. lpc = "stopping" /\ TypeOK /\ Awaited /\ [Next]_vars /\ <<LoopStep>>_vars => (lpc = "top")'
    BY LoopMoves
  <2>3. lpc = "stopping" /\ Awaited /\ Goes => ENABLED <<LoopStep>>_vars
    BY DEF LoopReady, LoopGoes, Goes, Awaited
  <2>4. QED
    BY <2>1, <2>2, <2>3, TypeCorrect, AwaitedAlways, PTL DEF FairSpec, Spec
<1>8. TypeOK /\ Awaited
        => \/ lpc = "top" \/ lpc = "load" \/ lpc = "demote" \/ lpc = "creds" \/ lpc = "build"
           \/ lpc = "hold" \/ lpc = "run" \/ lpc = "stopping" \/ stopping
  BY DEF TypeOK, LoopPCs, Awaited
<1>9. QED
  BY <1>1, <1>2, <1>3, <1>4, <1>5, <1>6, <1>7, <1>8, TypeCorrect, AwaitedAlways, PTL DEF FairSpec

\* The loop comes to its top, to one of its two selects, or is shut down.
LEMMA LoopLeads ==
  FairSpec /\ []Goes => []<>(lpc = "top" \/ lpc = "hold" \/ lpc = "run" \/ stopping)
<1>1. FairSpec /\ []Goes => ((lpc = "load") ~> (lpc = "hold" \/ lpc = "demote" \/ lpc = "creds"))
  <2>1. lpc = "load" /\ TypeOK /\ Awaited /\ [Next]_vars => (lpc = "load")' \/ (lpc = "hold" \/ lpc = "demote" \/ lpc = "creds")'
    BY Elsewhere, LoopMoves
  <2>2. lpc = "load" /\ TypeOK /\ Awaited /\ [Next]_vars /\ <<LoopStep>>_vars => (lpc = "hold" \/ lpc = "demote" \/ lpc = "creds")'
    BY LoopMoves
  <2>3. lpc = "load" /\ Awaited /\ Goes => ENABLED <<LoopStep>>_vars
    BY DEF LoopReady, LoopGoes, Goes, Awaited
  <2>4. QED
    BY <2>1, <2>2, <2>3, TypeCorrect, AwaitedAlways, PTL DEF FairSpec, Spec
<1>2. FairSpec /\ []Goes => ((lpc = "demote") ~> (lpc = "creds"))
  <2>1. lpc = "demote" /\ TypeOK /\ Awaited /\ [Next]_vars => (lpc = "demote")' \/ (lpc = "creds")'
    BY Elsewhere, LoopMoves
  <2>2. lpc = "demote" /\ TypeOK /\ Awaited /\ [Next]_vars /\ <<LoopStep>>_vars => (lpc = "creds")'
    BY LoopMoves
  <2>3. lpc = "demote" /\ Awaited /\ Goes => ENABLED <<LoopStep>>_vars
    BY DEF LoopReady, LoopGoes, Goes, Awaited
  <2>4. QED
    BY <2>1, <2>2, <2>3, TypeCorrect, AwaitedAlways, PTL DEF FairSpec, Spec
<1>3. FairSpec /\ []Goes => ((lpc = "creds") ~> (lpc = "hold" \/ lpc = "build"))
  <2>1. lpc = "creds" /\ TypeOK /\ Awaited /\ [Next]_vars => (lpc = "creds")' \/ (lpc = "hold" \/ lpc = "build")'
    BY Elsewhere, LoopMoves
  <2>2. lpc = "creds" /\ TypeOK /\ Awaited /\ [Next]_vars /\ <<LoopStep>>_vars => (lpc = "hold" \/ lpc = "build")'
    BY LoopMoves
  <2>3. lpc = "creds" /\ Awaited /\ Goes => ENABLED <<LoopStep>>_vars
    BY DEF LoopReady, LoopGoes, Goes, Awaited
  <2>4. QED
    BY <2>1, <2>2, <2>3, TypeCorrect, AwaitedAlways, PTL DEF FairSpec, Spec
<1>4. FairSpec /\ []Goes => ((lpc = "build") ~> (lpc = "hold" \/ lpc = "run"))
  <2>1. lpc = "build" /\ TypeOK /\ Awaited /\ [Next]_vars => (lpc = "build")' \/ (lpc = "hold" \/ lpc = "run")'
    BY Elsewhere, LoopMoves
  <2>2. lpc = "build" /\ TypeOK /\ Awaited /\ [Next]_vars /\ <<LoopStep>>_vars => (lpc = "hold" \/ lpc = "run")'
    BY LoopMoves
  <2>3. lpc = "build" /\ Awaited /\ Goes => ENABLED <<LoopStep>>_vars
    BY DEF LoopReady, LoopGoes, Goes, Awaited
  <2>4. QED
    BY <2>1, <2>2, <2>3, TypeCorrect, AwaitedAlways, PTL DEF FairSpec, Spec
<1>5. FairSpec /\ []Goes => ((lpc = "stopping") ~> (lpc = "top"))
  <2>1. lpc = "stopping" /\ TypeOK /\ Awaited /\ [Next]_vars => (lpc = "stopping")' \/ (lpc = "top")'
    BY Elsewhere, LoopMoves
  <2>2. lpc = "stopping" /\ TypeOK /\ Awaited /\ [Next]_vars /\ <<LoopStep>>_vars => (lpc = "top")'
    BY LoopMoves
  <2>3. lpc = "stopping" /\ Awaited /\ Goes => ENABLED <<LoopStep>>_vars
    BY DEF LoopReady, LoopGoes, Goes, Awaited
  <2>4. QED
    BY <2>1, <2>2, <2>3, TypeCorrect, AwaitedAlways, PTL DEF FairSpec, Spec
<1>6. TypeOK /\ Awaited
        => \/ lpc = "top" \/ lpc = "load" \/ lpc = "demote" \/ lpc = "creds" \/ lpc = "build"
           \/ lpc = "hold" \/ lpc = "run" \/ lpc = "stopping" \/ stopping
  BY DEF TypeOK, LoopPCs, Awaited
<1>7. QED
  BY <1>1, <1>2, <1>3, <1>4, <1>5, <1>6, TypeCorrect, AwaitedAlways, PTL DEF FairSpec

\* From its top the loop comes to act on files that stay.
LEMMA LookLeads == FairSpec /\ []Goes => ((Frozen /\ lpc = "top") ~> (Fresh \/ stopping))
<1>1. FairSpec /\ []Goes => ((Frozen /\ lpc = "top") ~> (Fresh \/ stopping \/ (lpc = "load" /\ enabled)))
  <2>1. lpc = "top" /\ IInv /\ Awaited /\ [Next]_vars /\ [FALSE]_fileVars
          => (lpc = "top")' \/ (Fresh \/ stopping \/ (lpc = "load" /\ enabled))'
    BY Elsewhere, LoopMoves, LookStep
  <2>2. lpc = "top" /\ IInv /\ Awaited /\ [Next]_vars /\ [FALSE]_fileVars /\ <<LoopStep>>_vars
          => (Fresh \/ stopping \/ (lpc = "load" /\ enabled))'
    BY LookStep, LoopMoves
  <2>3. lpc = "top" /\ Awaited /\ Goes => ENABLED <<LoopStep>>_vars
    BY DEF LoopReady, LoopGoes, Goes, Awaited
  <2>4. QED
    BY <2>1, <2>2, <2>3, Invariant, AwaitedAlways, PTL DEF FairSpec, Spec, Frozen
<1>2. FairSpec /\ []Goes => ((Frozen /\ lpc = "load" /\ enabled) ~> (Fresh \/ (lpc = "demote" /\ ReadsIt) \/ (lpc = "creds" /\ ReadsIt)))
  <2>1. lpc = "load" /\ enabled /\ IInv /\ Awaited /\ [Next]_vars /\ [FALSE]_fileVars => (lpc = "load" /\ enabled)' \/ (Fresh \/ (lpc = "demote" /\ ReadsIt) \/ (lpc = "creds" /\ ReadsIt))'
    BY Elsewhere, LookStays, LookStep
  <2>2. lpc = "load" /\ enabled /\ IInv /\ Awaited /\ [Next]_vars /\ [FALSE]_fileVars /\ <<LoopStep>>_vars => (Fresh \/ (lpc = "demote" /\ ReadsIt) \/ (lpc = "creds" /\ ReadsIt))'
    BY LookStep
  <2>3. lpc = "load" /\ enabled /\ Awaited /\ Goes => ENABLED <<LoopStep>>_vars
    BY DEF LoopReady, LoopGoes, Goes, Awaited
  <2>4. QED
    BY <2>1, <2>2, <2>3, Invariant, AwaitedAlways, PTL DEF FairSpec, Spec, Frozen
<1>3. FairSpec /\ []Goes => ((Frozen /\ lpc = "demote" /\ ReadsIt) ~> (lpc = "creds" /\ ReadsIt))
  <2>1. lpc = "demote" /\ ReadsIt /\ IInv /\ Awaited /\ [Next]_vars /\ [FALSE]_fileVars => (lpc = "demote" /\ ReadsIt)' \/ (lpc = "creds" /\ ReadsIt)'
    BY Elsewhere, LookStays, LookStep
  <2>2. lpc = "demote" /\ ReadsIt /\ IInv /\ Awaited /\ [Next]_vars /\ [FALSE]_fileVars /\ <<LoopStep>>_vars => (lpc = "creds" /\ ReadsIt)'
    BY LookStep
  <2>3. lpc = "demote" /\ ReadsIt /\ Awaited /\ Goes => ENABLED <<LoopStep>>_vars
    BY DEF LoopReady, LoopGoes, Goes, Awaited
  <2>4. QED
    BY <2>1, <2>2, <2>3, Invariant, AwaitedAlways, PTL DEF FairSpec, Spec, Frozen
<1>4. FairSpec /\ []Goes => ((Frozen /\ lpc = "creds" /\ ReadsIt) ~> (Fresh))
  <2>1. lpc = "creds" /\ ReadsIt /\ IInv /\ Awaited /\ [Next]_vars /\ [FALSE]_fileVars => (lpc = "creds" /\ ReadsIt)' \/ (Fresh)'
    BY Elsewhere, LookStays, LookStep
  <2>2. lpc = "creds" /\ ReadsIt /\ IInv /\ Awaited /\ [Next]_vars /\ [FALSE]_fileVars /\ <<LoopStep>>_vars => (Fresh)'
    BY LookStep
  <2>3. lpc = "creds" /\ ReadsIt /\ Awaited /\ Goes => ENABLED <<LoopStep>>_vars
    BY DEF LoopReady, LoopGoes, Goes, Awaited
  <2>4. QED
    BY <2>1, <2>2, <2>3, Invariant, AwaitedAlways, PTL DEF FairSpec, Spec, Frozen
<1>5. QED
  BY <1>1, <1>2, <1>3, <1>4, PTL DEF Frozen

\* A notice leads to a signal, or its file is left unannounced.
LEMMA NoticeLeads == FairSpec /\ []Goes => (notice ~> (restart \/ unannounced # {}))
<1>1. notice /\ TypeOK /\ [Next]_vars => notice' \/ (restart \/ unannounced # {})'
  BY NoticeStep
<1>2. notice /\ TypeOK /\ [Next]_vars /\ <<WatchFire>>_vars => (restart \/ unannounced # {})'
  BY NoticeStep
<1>3. notice /\ Goes => ENABLED <<WatchFire>>_vars
  BY DEF Goes
<1>4. QED
  BY <1>1, <1>2, <1>3, TypeCorrect, PTL DEF FairSpec, Spec

\* A request that has begun leads to a signal or a notice, or what it left is unannounced.
LEMMA RequestLeads ==
  ASSUME NEW w \in Writers
  PROVE  FairSpec /\ []Goes => (phase[w] # "idle" ~> (restart \/ notice \/ unannounced # {}))
<1> DEFINE Begun == phase[w] \in {"config", "creds"}
           Ended == phase[w] = "signal"
           Told  == restart \/ notice \/ unannounced # {}
<1>1. FairSpec => WriterFair(w)
  <2>1. WritersFair => WriterFair(w)
    BY DEF WritersFair
  <2>2. QED
    BY <2>1, PTL DEF FairSpec
<1>2. TypeOK /\ phase[w] # "idle" => Begun \/ Ended
  BY DEF TypeOK
<1>3. Begun /\ TypeOK /\ [Next]_vars => Begun' \/ Ended' \/ Told'
  BY RequestStep
<1>4. Begun /\ TypeOK /\ [Next]_vars /\ <<WriterStep(w)>>_vars => Ended' \/ Told'
  BY RequestStep
<1>5. Ended /\ TypeOK /\ [Next]_vars => Ended' \/ Told'
  BY RequestStep
<1>6. Ended /\ TypeOK /\ [Next]_vars /\ <<WriterStep(w)>>_vars => Told'
  BY RequestStep
<1>7. (Begun \/ Ended) /\ Goes => ENABLED <<WriterStep(w)>>_vars
  BY DEF Goes
<1>8. FairSpec /\ []Goes => (Begun ~> (Ended \/ Told))
  BY <1>1, <1>3, <1>4, <1>7, TypeCorrect, PTL DEF FairSpec, Spec, WriterFair
<1>9. FairSpec /\ []Goes => (Ended ~> Told)
  BY <1>1, <1>5, <1>6, <1>7, TypeCorrect, PTL DEF FairSpec, Spec, WriterFair
<1>10. QED
  BY <1>2, <1>8, <1>9, TypeCorrect, PTL DEF FairSpec

\* The same of whichever of them it is.
LEMMA BusyLeads == FairSpec /\ []Goes => (Busy ~> (restart \/ notice \/ unannounced # {}))
<1> DEFINE Told == restart \/ notice \/ unannounced # {}
<1>1. ASSUME NEW w \in Writers
      PROVE  FairSpec /\ []Goes => [](phase[w] # "idle" => <>Told)
  <2>1. FairSpec /\ []Goes => (phase[w] # "idle" ~> Told)
    BY RequestLeads
  <2>2. QED
    BY <2>1, PTL
<1>2. FairSpec /\ []Goes => \A w \in Writers : [](phase[w] # "idle" => <>Told)
  BY <1>1
<1>3. (\A w \in Writers : [](phase[w] # "idle" => <>Told))
        => [](\A w \in Writers : phase[w] # "idle" => <>Told)
  OBVIOUS
<1>4. (\A w \in Writers : phase[w] # "idle" => <>Told) => (Busy => <>Told)
  BY DEF Busy
<1>5. QED
  BY <1>2, <1>3, <1>4, PTL

\* In a select without signal, notice or request, the loop has acted on what is asked for.
LEMMA QuietIsSettled ==
  IInv /\ (lpc = "hold" \/ lpc = "run") /\ ~restart /\ ~notice /\ ~Busy
    => seen = Desired \/ unannounced # {} \/ stopping
BY DEF IInv, NoLostReload, Owed, Pending, Looking, Busy

\* Once files and flag stay, the loop comes to act on them for good, with any number of
\* writers (superviseLoop, signalRestart, watcher.go).  Had it not, it would for ever
\* again be where something is announced and it has not acted on it.  A signal would
\* send it to its top and from there to a look that stays right, so none comes; it
\* then stays in a select, reads nothing, and what is unannounced stays so.  But with
\* nothing unannounced, notices and requests end in a signal, so there are none: and
\* where nothing is on its way it has acted on what is asked for.
THEOREM LoopSettles == FairSpec /\ []Goes => Settles
<1> DEFINE Good    == Fresh \/ stopping
           Select  == lpc = "hold" \/ lpc = "run"
           Settled == seen = Desired \/ unannounced # {} \/ stopping
<1>1. Good /\ IInv /\ [Next]_vars /\ [FALSE]_fileVars => Good'
  BY FreshStays, Elsewhere, LoopMoves
<1>2. Good => Settled
  BY DEF Fresh
<1>3. Select /\ ~restart /\ ~Good /\ [Next]_vars => Select'
  BY SelectStep
<1>4. Select /\ ~restart /\ ~Good /\ unannounced # {} /\ [Next]_vars => (unannounced # {})'
  BY SelectStep
<1>5. IInv /\ Select /\ ~restart /\ ~notice /\ ~Busy => Settled
  BY QuietIsSettled
<1>6. unannounced # {} => Settled
  OBVIOUS
<1>7. (lpc = "hold" \/ lpc = "run" <=> Select) /\ (Fresh \/ stopping <=> Good)
  OBVIOUS
<1>8. (seen = Desired \/ unannounced # {} \/ stopping) <=> Settled
  OBVIOUS
<1> HIDE DEF Good, Select, Settled
<1>9. FairSpec /\ []Goes => ((Frozen /\ restart) ~> Good) /\ ((Frozen /\ lpc = "top") ~> Good)
  BY <1>7, SignalLeads, LookLeads, PTL DEF Frozen
<1>10. FairSpec /\ <>Frozen /\ ~<>[]Good => <>[](Frozen /\ ~Good)
  BY <1>1, Invariant, PTL DEF FairSpec, Spec, Frozen
<1>11. FairSpec /\ []Goes /\ <>[](Frozen /\ ~Good) => <>[](~restart /\ ~(lpc = "top") /\ ~Good)
  BY <1>9, PTL
<1>12. FairSpec /\ []Goes /\ <>[](~restart /\ ~(lpc = "top") /\ ~Good)
         => <>[](~restart /\ ~Good /\ Select)
  BY <1>3, <1>7, LoopLeads, PTL DEF FairSpec, Spec
<1>13. FairSpec /\ <>[](~restart /\ ~Good /\ Select) => <>[](unannounced # {}) \/ <>[](~(unannounced # {}))
  BY <1>4, PTL DEF FairSpec, Spec
<1>14. FairSpec /\ []Goes /\ <>[](~restart) /\ <>[](~(unannounced # {})) => <>[](~notice /\ ~Busy)
  BY NoticeLeads, BusyLeads, PTL
<1>15. FairSpec /\ []Goes /\ <>[](~restart /\ ~Good /\ Select) => <>[]Settled
  BY <1>5, <1>6, <1>13, <1>14, Invariant, PTL DEF FairSpec
<1>16. FairSpec /\ []Goes /\ <>Frozen => <>[]Settled
  BY <1>2, <1>10, <1>11, <1>12, <1>15, PTL
<1>17. QED
  BY <1>8, <1>16, PTL DEF Settles, Frozen

=============================================================================
