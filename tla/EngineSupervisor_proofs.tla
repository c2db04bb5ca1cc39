---------------------- MODULE EngineSupervisor_proofs ----------------------
(***************************************************************************)
(* Proofs about EngineSupervisor for any breaker, delays and number of     *)
(* starts: types, no orphan, no restart after a cancel, and what the       *)
(* published state can be while a child is alive.                          *)
(***************************************************************************)
EXTENDS EngineSupervisor, TLAPS

\* Outside the stretch from cmd.Start to cmd.Wait no child is alive.
ChildOnlyInside ==
  pc \in {"init", "loop", "spawn", "judge", "backoff", "returned"} => ~Alive

\* A start still ahead of a cancelled Run is the one that is allowed for.
StartsAllowed ==
  /\ cancelled <=> allowed >= 0
  /\ cancelled => IF pc = "spawn" THEN spawns + 1 <= allowed ELSE spawns <= allowed

\* From the announcement of a start to the end of the child nothing but a watcher
\* stores a state.
StartAnnounced ==
  pc \in {"spawn", "publish", "assign", "wait"} => state \in {"starting", "running"}

\* What Run counts: a child that is started has a number, and the breaker has not
\* tripped while Run goes on.
Counts ==
  /\ pc \in {"publish", "assign", "wait"} => spawns # 0
  /\ pc \notin Over => fastFails < MaxFastFails

\* The delay of a streak of k failures in a row (supervisor.go:178-180).
DelayAt(k) == Cap(MinBackoff * 2^k)

\* From one backoff to the next the delay is that of the streak so far or the next
\* doubling; in a backoff the streak has one failure more, or was broken.
DelayFollows ==
  /\ pc \in {"init", "loop", "spawn", "publish", "assign", "wait", "judge"} =>
       backoff \in {DelayAt(fastFails), DelayAt(fastFails + 1)}
  /\ pc = "backoff" =>
       IF fastFails = 0 THEN backoff = DelayAt(0)
       ELSE backoff \in {DelayAt(fastFails - 1), DelayAt(fastFails)}

IInv ==
  /\ TypeOK /\ Counts /\ ChildOnlyInside /\ JobDiesWithService /\ StartsAllowed
  /\ StartAnnounced /\ DelayFollows

-----------------------------------------------------------------------------
\* Each step of Run, of the killer, of a watcher and of the child keeps the types;
\* the doubled delay stays within its bounds (supervisor.go:178-180).
LEMMA TypeStep ==
  ASSUME TypeOK, Counts, [Next]_vars
  PROVE  TypeOK'
<1>1. CASE NewJob
  BY <1>1
  DEF NewJob, Return, runVars, childVars, watchVars, ctxVars, CloseJob, TypeOK,
      States, Over, Alive
<1>2. CASE CheckContext
  BY <1>2
  DEF CheckContext, Return, runVars, childVars, watchVars, ctxVars, CloseJob,
      TypeOK, States, Over, Alive
<1>3. CASE Spawn
  <2>1. spawns' \in 0..MaxSpawns /\ pid' \in 0..MaxSpawns
    BY <1>3, OptionsAssumption DEF Spawn, TypeOK
  <2>2. /\ pc' \in {"publish", "judge"}
        /\ child' \in {"none", "booting", "ready", "exited"} /\ inJob' \in BOOLEAN
    BY <1>3 DEF Spawn, TypeOK
  <2>3. QED
    BY <1>3, <2>1, <2>2
    DEF Spawn, runVars, watchVars, ctxVars, TypeOK, States, Over
<1>4. CASE PublishProc
  BY <1>4
  DEF PublishProc, runVars, watchVars, ctxVars, TypeOK, States, Over, Alive
<1>5. CASE AssignAndWatch
  <2>1. polling' \subseteq 1..MaxSpawns
    BY <1>5, OptionsAssumption DEF AssignAndWatch, Counts, TypeOK
  <2>2. inJob' \in BOOLEAN /\ pc' = "wait"
    BY <1>5 DEF AssignAndWatch
  <2>3. QED
    BY <1>5, <2>1, <2>2 DEF AssignAndWatch, runVars, ctxVars, TypeOK, States, Over
<1>6. CASE Wait
  <2>1. pc' = "judge" /\ proc' = FALSE /\ pid' \in 0..MaxSpawns
    BY <1>6, OptionsAssumption DEF Wait
  <2>2. QED
    BY <1>6, <2>1 DEF Wait, runVars, watchVars, ctxVars, TypeOK, States, Over
<1>7. CASE Judge
  <2>1. CASE cancelled /\ Return("stopped") /\ UNCHANGED runVars
    BY <1>7, <2>1
    DEF Judge, Return, CloseJob, runVars, watchVars, ctxVars, TypeOK, States, Over
  <2>2. CASE Healthy
    BY <1>7, <2>2, OptionsAssumption
    DEF Judge, Healthy, childVars, watchVars, ctxVars, TypeOK, States, Over
  <2>3. CASE FastFail
    <3>1. fastFails' \in 0..MaxFastFails
      BY <1>7, <2>3, OptionsAssumption DEF Judge, FastFail, Counts, TypeOK, Over
    <3>2. QED
      BY <1>7, <2>3, <3>1
      DEF Judge, FastFail, Return, CloseJob, childVars, watchVars, ctxVars, TypeOK,
          States, Over
  <2>4. QED
    BY <1>7, <2>1, <2>2, <2>3 DEF Judge
<1>8. CASE Backoff
  BY <1>8, OptionsAssumption
  DEF Backoff, Return, runVars, childVars, watchVars, ctxVars, CloseJob, TypeOK,
      States, Over, Alive
<1>9. CASE KillerTerminate
  BY <1>9 DEF KillerTerminate, runVars, watchVars, TypeOK, States, Over, Alive
<1>10. CASE KillerKill
  BY <1>10 DEF KillerKill, runVars, watchVars, TypeOK, States, Over, Alive
<1>11. CASE ChildReady
  BY <1>11
  DEF ChildReady, runVars, watchVars, ctxVars, TypeOK, States, Over, Alive
<1>12. CASE ChildExit
  BY <1>12 DEF ChildExit, runVars, watchVars, ctxVars, TypeOK, States, Over, Alive
<1>13. CASE Cancel
  <2>1. allowed' \in -1..(MaxSpawns + 1)
    BY <1>13, OptionsAssumption DEF Cancel, TypeOK
  <2>2. QED
    BY <1>13, <2>1 DEF Cancel, runVars, childVars, watchVars, TypeOK, States, Over
<1>14. CASE ServiceKilled
  BY <1>14
  DEF ServiceKilled, CloseJob, runVars, ctxVars, TypeOK, States, Over, Alive
<1>15. ASSUME NEW w \in 1..MaxSpawns, WatchQuit(w) PROVE  TypeOK'
  BY <1>15 DEF WatchQuit, runVars, childVars, ctxVars, TypeOK, States, Over, Alive
<1>16. ASSUME NEW w \in 1..MaxSpawns, WatchDial(w) PROVE  TypeOK'
  BY <1>16 DEF WatchDial, runVars, childVars, ctxVars, TypeOK, States, Over, Alive
<1>17. ASSUME NEW w \in 1..MaxSpawns, WatchLook(w) PROVE  TypeOK'
  BY <1>17 DEF WatchLook, runVars, childVars, ctxVars, TypeOK, States, Over, Alive
<1>18. ASSUME NEW w \in 1..MaxSpawns, WatchMark(w) PROVE  TypeOK'
  BY <1>18 DEF WatchMark, runVars, childVars, ctxVars, TypeOK, States, Over, Alive
<1>19. CASE UNCHANGED vars
  BY <1>19
  DEF vars, runVars, childVars, watchVars, ctxVars, TypeOK, States, Over, Alive
<1>20. QED
  BY <1>1, <1>2, <1>3, <1>4, <1>5, <1>6, <1>7, <1>8, <1>9, <1>10, <1>11, <1>12,
     <1>13, <1>14, <1>15, <1>16, <1>17, <1>18, <1>19
  DEF RunStep, KillerStep, Environment, Watch, Next

\* A streak that reaches the limit ends Run, and a start counts.
LEMMA CountsStep ==
  ASSUME TypeOK, Counts, [Next]_vars
  PROVE  Counts'
<1>1. CASE NewJob
  BY <1>1
  DEF NewJob, Return, runVars, childVars, watchVars, ctxVars, CloseJob, Counts,
      TypeOK, Over
<1>2. CASE CheckContext
  BY <1>2
  DEF CheckContext, Return, runVars, childVars, watchVars, ctxVars, CloseJob,
      Counts, TypeOK, Over
<1>3. CASE Spawn
  BY <1>3, OptionsAssumption
  DEF Spawn, runVars, watchVars, ctxVars, Counts, TypeOK, Over
<1>4. CASE PublishProc
  BY <1>4 DEF PublishProc, runVars, watchVars, ctxVars, Counts, TypeOK, Over
<1>5. CASE AssignAndWatch
  BY <1>5 DEF AssignAndWatch, runVars, ctxVars, Counts, TypeOK, Over
<1>6. CASE Wait
  BY <1>6 DEF Wait, runVars, watchVars, ctxVars, Counts, TypeOK, Over
<1>7. CASE Judge
  BY <1>7, OptionsAssumption
  DEF Judge, Healthy, FastFail, Return, runVars, watchVars, ctxVars, childVars,
      CloseJob, Counts, TypeOK, Over
<1>8. CASE Backoff
  BY <1>8
  DEF Backoff, Return, runVars, childVars, watchVars, ctxVars, CloseJob, Counts,
      TypeOK, Over
<1>9. CASE KillerTerminate
  BY <1>9 DEF KillerTerminate, runVars, watchVars, Counts, TypeOK, Over
<1>10. CASE KillerKill
  BY <1>10 DEF KillerKill, runVars, watchVars, Counts, TypeOK, Over
<1>11. CASE ChildReady
  BY <1>11 DEF ChildReady, runVars, watchVars, ctxVars, Counts, TypeOK, Over
<1>12. CASE ChildExit
  BY <1>12 DEF ChildExit, runVars, watchVars, ctxVars, Counts, TypeOK, Over
<1>13. CASE Cancel
  BY <1>13 DEF Cancel, runVars, childVars, watchVars, Counts, TypeOK, Over
<1>14. CASE ServiceKilled
  BY <1>14 DEF ServiceKilled, CloseJob, runVars, ctxVars, Counts, TypeOK, Over
<1>15. ASSUME NEW w \in 1..MaxSpawns, WatchQuit(w) PROVE  Counts'
  BY <1>15 DEF WatchQuit, runVars, childVars, ctxVars, Counts, TypeOK, Over
<1>16. ASSUME NEW w \in 1..MaxSpawns, WatchDial(w) PROVE  Counts'
  BY <1>16 DEF WatchDial, runVars, childVars, ctxVars, Counts, TypeOK, Over
<1>17. ASSUME NEW w \in 1..MaxSpawns, WatchLook(w) PROVE  Counts'
  BY <1>17 DEF WatchLook, runVars, childVars, ctxVars, Counts, TypeOK, Over
<1>18. ASSUME NEW w \in 1..MaxSpawns, WatchMark(w) PROVE  Counts'
  BY <1>18 DEF WatchMark, runVars, childVars, ctxVars, Counts, TypeOK, Over
<1>19. CASE UNCHANGED vars
  BY <1>19 DEF vars, runVars, childVars, watchVars, ctxVars, Counts, TypeOK, Over
<1>20. QED
  BY <1>1, <1>2, <1>3, <1>4, <1>5, <1>6, <1>7, <1>8, <1>9, <1>10, <1>11, <1>12,
     <1>13, <1>14, <1>15, <1>16, <1>17, <1>18, <1>19
  DEF RunStep, KillerStep, Environment, Watch, Next

\* Run leaves cmd.Wait only behind the child's exit.
LEMMA ChildStep ==
  ASSUME TypeOK, ChildOnlyInside, [Next]_vars
  PROVE  ChildOnlyInside'
<1>1. CASE NewJob
  BY <1>1
  DEF NewJob, Return, runVars, childVars, watchVars, ctxVars, CloseJob,
      ChildOnlyInside, TypeOK, Over, Alive
<1>2. CASE CheckContext
  BY <1>2
  DEF CheckContext, Return, runVars, childVars, watchVars, ctxVars, CloseJob,
      ChildOnlyInside, TypeOK, Over, Alive
<1>3. CASE Spawn
  BY <1>3
  DEF Spawn, runVars, watchVars, ctxVars, ChildOnlyInside, TypeOK, Over, Alive
<1>4. CASE PublishProc
  BY <1>4
  DEF PublishProc, runVars, watchVars, ctxVars, ChildOnlyInside, TypeOK, Over,
      Alive
<1>5. CASE AssignAndWatch
  BY <1>5
  DEF AssignAndWatch, runVars, ctxVars, ChildOnlyInside, TypeOK, Over, Alive
<1>6. CASE Wait
  BY <1>6
  DEF Wait, runVars, watchVars, ctxVars, ChildOnlyInside, TypeOK, Over, Alive
<1>7. CASE Judge
  BY <1>7
  DEF Judge, Healthy, FastFail, Return, runVars, watchVars, ctxVars, childVars,
      CloseJob, ChildOnlyInside, TypeOK, Over, Alive
<1>8. CASE Backoff
  BY <1>8
  DEF Backoff, Return, runVars, childVars, watchVars, ctxVars, CloseJob,
      ChildOnlyInside, TypeOK, Over, Alive
<1>9. CASE KillerTerminate
  BY <1>9
  DEF KillerTerminate, runVars, watchVars, ChildOnlyInside, TypeOK, Over, Alive
<1>10. CASE KillerKill
  BY <1>10
  DEF KillerKill, runVars, watchVars, ChildOnlyInside, TypeOK, Over, Alive
<1>11. CASE ChildReady
  BY <1>11
  DEF ChildReady, runVars, watchVars, ctxVars, ChildOnlyInside, TypeOK, Over,
      Alive
<1>12. CASE ChildExit
  BY <1>12
  DEF ChildExit, runVars, watchVars, ctxVars, ChildOnlyInside, TypeOK, Over,
      Alive
<1>13. CASE Cancel
  BY <1>13
  DEF Cancel, runVars, childVars, watchVars, ChildOnlyInside, TypeOK, Over,
      Alive
<1>14. CASE ServiceKilled
  BY <1>14
  DEF ServiceKilled, CloseJob, runVars, ctxVars, ChildOnlyInside, TypeOK, Over,
      Alive
<1>15. ASSUME NEW w \in 1..MaxSpawns, WatchQuit(w) PROVE  ChildOnlyInside'
  BY <1>15
  DEF WatchQuit, runVars, childVars, ctxVars, ChildOnlyInside, TypeOK, Over,
      Alive
<1>16. ASSUME NEW w \in 1..MaxSpawns, WatchDial(w) PROVE  ChildOnlyInside'
  BY <1>16
  DEF WatchDial, runVars, childVars, ctxVars, ChildOnlyInside, TypeOK, Over,
      Alive
<1>17. ASSUME NEW w \in 1..MaxSpawns, WatchLook(w) PROVE  ChildOnlyInside'
  BY <1>17
  DEF WatchLook, runVars, childVars, ctxVars, ChildOnlyInside, TypeOK, Over,
      Alive
<1>18. ASSUME NEW w \in 1..MaxSpawns, WatchMark(w) PROVE  ChildOnlyInside'
  BY <1>18
  DEF WatchMark, runVars, childVars, ctxVars, ChildOnlyInside, TypeOK, Over,
      Alive
<1>19. CASE UNCHANGED vars
  BY <1>19
  DEF vars, runVars, childVars, watchVars, ctxVars, ChildOnlyInside, TypeOK,
      Over, Alive
<1>20. QED
  BY <1>1, <1>2, <1>3, <1>4, <1>5, <1>6, <1>7, <1>8, <1>9, <1>10, <1>11, <1>12,
     <1>13, <1>14, <1>15, <1>16, <1>17, <1>18, <1>19
  DEF RunStep, KillerStep, Environment, Watch, Next

\* Nothing brings a child of a dead service back.
LEMMA JobStep ==
  ASSUME TypeOK, JobDiesWithService, [Next]_vars
  PROVE  JobDiesWithService'
<1>1. CASE NewJob
  BY <1>1
  DEF NewJob, Return, runVars, childVars, watchVars, ctxVars, CloseJob,
      JobDiesWithService, TypeOK, Over, Alive
<1>2. CASE CheckContext
  BY <1>2
  DEF CheckContext, Return, runVars, childVars, watchVars, ctxVars, CloseJob,
      JobDiesWithService, TypeOK, Over, Alive
<1>3. CASE Spawn
  BY <1>3
  DEF Spawn, runVars, watchVars, ctxVars, JobDiesWithService, TypeOK, Over,
      Alive
<1>4. CASE PublishProc
  BY <1>4
  DEF PublishProc, runVars, watchVars, ctxVars, JobDiesWithService, TypeOK,
      Over, Alive
<1>5. CASE AssignAndWatch
  BY <1>5
  DEF AssignAndWatch, runVars, ctxVars, JobDiesWithService, TypeOK, Over, Alive
<1>6. CASE Wait
  BY <1>6
  DEF Wait, runVars, watchVars, ctxVars, JobDiesWithService, TypeOK, Over, Alive
<1>7. CASE Judge
  BY <1>7
  DEF Judge, Healthy, FastFail, Return, runVars, watchVars, ctxVars, childVars,
      CloseJob, JobDiesWithService, TypeOK, Over, Alive
<1>8. CASE Backoff
  BY <1>8
  DEF Backoff, Return, runVars, childVars, watchVars, ctxVars, CloseJob,
      JobDiesWithService, TypeOK, Over, Alive
<1>9. CASE KillerTerminate
  BY <1>9
  DEF KillerTerminate, runVars, watchVars, JobDiesWithService, TypeOK, Over,
      Alive
<1>10. CASE KillerKill
  BY <1>10
  DEF KillerKill, runVars, watchVars, JobDiesWithService, TypeOK, Over, Alive
<1>11. CASE ChildReady
  BY <1>11
  DEF ChildReady, runVars, watchVars, ctxVars, JobDiesWithService, TypeOK, Over,
      Alive
<1>12. CASE ChildExit
  BY <1>12
  DEF ChildExit, runVars, watchVars, ctxVars, JobDiesWithService, TypeOK, Over,
      Alive
<1>13. CASE Cancel
  BY <1>13
  DEF Cancel, runVars, childVars, watchVars, JobDiesWithService, TypeOK, Over,
      Alive
<1>14. CASE ServiceKilled
  BY <1>14
  DEF ServiceKilled, CloseJob, runVars, ctxVars, JobDiesWithService, TypeOK,
      Over, Alive
<1>15. ASSUME NEW w \in 1..MaxSpawns, WatchQuit(w) PROVE  JobDiesWithService'
  BY <1>15
  DEF WatchQuit, runVars, childVars, ctxVars, JobDiesWithService, TypeOK, Over,
      Alive
<1>16. ASSUME NEW w \in 1..MaxSpawns, WatchDial(w) PROVE  JobDiesWithService'
  BY <1>16
  DEF WatchDial, runVars, childVars, ctxVars, JobDiesWithService, TypeOK, Over,
      Alive
<1>17. ASSUME NEW w \in 1..MaxSpawns, WatchLook(w) PROVE  JobDiesWithService'
  BY <1>17
  DEF WatchLook, runVars, childVars, ctxVars, JobDiesWithService, TypeOK, Over,
      Alive
<1>18. ASSUME NEW w \in 1..MaxSpawns, WatchMark(w) PROVE  JobDiesWithService'
  BY <1>18
  DEF WatchMark, runVars, childVars, ctxVars, JobDiesWithService, TypeOK, Over,
      Alive
<1>19. CASE UNCHANGED vars
  BY <1>19
  DEF vars, runVars, childVars, watchVars, ctxVars, JobDiesWithService, TypeOK,
      Over, Alive
<1>20. QED
  BY <1>1, <1>2, <1>3, <1>4, <1>5, <1>6, <1>7, <1>8, <1>9, <1>10, <1>11, <1>12,
     <1>13, <1>14, <1>15, <1>16, <1>17, <1>18, <1>19
  DEF RunStep, KillerStep, Environment, Watch, Next

\* A cancelled Run passes no check of the context any more.
LEMMA StartsStep ==
  ASSUME TypeOK, StartsAllowed, [Next]_vars
  PROVE  StartsAllowed'
<1>1. CASE NewJob
  BY <1>1
  DEF NewJob, Return, runVars, childVars, watchVars, ctxVars, CloseJob,
      StartsAllowed, TypeOK, Over
<1>2. CASE CheckContext
  BY <1>2
  DEF CheckContext, Return, runVars, childVars, watchVars, ctxVars, CloseJob,
      StartsAllowed, TypeOK, Over
<1>3. CASE Spawn
  BY <1>3 DEF Spawn, runVars, watchVars, ctxVars, StartsAllowed, TypeOK, Over
<1>4. CASE PublishProc
  BY <1>4
  DEF PublishProc, runVars, watchVars, ctxVars, StartsAllowed, TypeOK, Over
<1>5. CASE AssignAndWatch
  BY <1>5 DEF AssignAndWatch, runVars, ctxVars, StartsAllowed, TypeOK, Over
<1>6. CASE Wait
  BY <1>6 DEF Wait, runVars, watchVars, ctxVars, StartsAllowed, TypeOK, Over
<1>7. CASE Judge
  BY <1>7
  DEF Judge, Healthy, FastFail, Return, runVars, watchVars, ctxVars, childVars,
      CloseJob, StartsAllowed, TypeOK, Over
<1>8. CASE Backoff
  BY <1>8
  DEF Backoff, Return, runVars, childVars, watchVars, ctxVars, CloseJob,
      StartsAllowed, TypeOK, Over
<1>9. CASE KillerTerminate
  BY <1>9 DEF KillerTerminate, runVars, watchVars, StartsAllowed, TypeOK, Over
<1>10. CASE KillerKill
  BY <1>10 DEF KillerKill, runVars, watchVars, StartsAllowed, TypeOK, Over
<1>11. CASE ChildReady
  BY <1>11
  DEF ChildReady, runVars, watchVars, ctxVars, StartsAllowed, TypeOK, Over
<1>12. CASE ChildExit
  BY <1>12 DEF ChildExit, runVars, watchVars, ctxVars, StartsAllowed, TypeOK, Over
<1>13. CASE Cancel
  BY <1>13 DEF Cancel, runVars, childVars, watchVars, StartsAllowed, TypeOK, Over
<1>14. CASE ServiceKilled
  BY <1>14
  DEF ServiceKilled, CloseJob, runVars, ctxVars, StartsAllowed, TypeOK, Over
<1>15. ASSUME NEW w \in 1..MaxSpawns, WatchQuit(w) PROVE  StartsAllowed'
  BY <1>15 DEF WatchQuit, runVars, childVars, ctxVars, StartsAllowed, TypeOK, Over
<1>16. ASSUME NEW w \in 1..MaxSpawns, WatchDial(w) PROVE  StartsAllowed'
  BY <1>16 DEF WatchDial, runVars, childVars, ctxVars, StartsAllowed, TypeOK, Over
<1>17. ASSUME NEW w \in 1..MaxSpawns, WatchLook(w) PROVE  StartsAllowed'
  BY <1>17 DEF WatchLook, runVars, childVars, ctxVars, StartsAllowed, TypeOK, Over
<1>18. ASSUME NEW w \in 1..MaxSpawns, WatchMark(w) PROVE  StartsAllowed'
  BY <1>18 DEF WatchMark, runVars, childVars, ctxVars, StartsAllowed, TypeOK, Over
<1>19. CASE UNCHANGED vars
  BY <1>19
  DEF vars, runVars, childVars, watchVars, ctxVars, StartsAllowed, TypeOK, Over
<1>20. QED
  BY <1>1, <1>2, <1>3, <1>4, <1>5, <1>6, <1>7, <1>8, <1>9, <1>10, <1>11, <1>12,
     <1>13, <1>14, <1>15, <1>16, <1>17, <1>18, <1>19
  DEF RunStep, KillerStep, Environment, Watch, Next

\* The loop announces the start before it makes it.
LEMMA AnnounceStep ==
  ASSUME TypeOK, StartAnnounced, [Next]_vars
  PROVE  StartAnnounced'
<1>1. CASE NewJob
  BY <1>1
  DEF NewJob, Return, runVars, childVars, watchVars, ctxVars, CloseJob,
      StartAnnounced, TypeOK, Over
<1>2. CASE CheckContext
  BY <1>2
  DEF CheckContext, Return, runVars, childVars, watchVars, ctxVars, CloseJob,
      StartAnnounced, TypeOK, Over
<1>3. CASE Spawn
  BY <1>3 DEF Spawn, runVars, watchVars, ctxVars, StartAnnounced, TypeOK, Over
<1>4. CASE PublishProc
  BY <1>4
  DEF PublishProc, runVars, watchVars, ctxVars, StartAnnounced, TypeOK, Over
<1>5. CASE AssignAndWatch
  BY <1>5 DEF AssignAndWatch, runVars, ctxVars, StartAnnounced, TypeOK, Over
<1>6. CASE Wait
  BY <1>6 DEF Wait, runVars, watchVars, ctxVars, StartAnnounced, TypeOK, Over
<1>7. CASE Judge
  BY <1>7
  DEF Judge, Healthy, FastFail, Return, runVars, watchVars, ctxVars, childVars,
      CloseJob, StartAnnounced, TypeOK, Over
<1>8. CASE Backoff
  BY <1>8
  DEF Backoff, Return, runVars, childVars, watchVars, ctxVars, CloseJob,
      StartAnnounced, TypeOK, Over
<1>9. CASE KillerTerminate
  BY <1>9 DEF KillerTerminate, runVars, watchVars, StartAnnounced, TypeOK, Over
<1>10. CASE KillerKill
  BY <1>10 DEF KillerKill, runVars, watchVars, StartAnnounced, TypeOK, Over
<1>11. CASE ChildReady
  BY <1>11
  DEF ChildReady, runVars, watchVars, ctxVars, StartAnnounced, TypeOK, Over
<1>12. CASE ChildExit
  BY <1>12
  DEF ChildExit, runVars, watchVars, ctxVars, StartAnnounced, TypeOK, Over
<1>13. CASE Cancel
  BY <1>13 DEF Cancel, runVars, childVars, watchVars, StartAnnounced, TypeOK, Over
<1>14. CASE ServiceKilled
  BY <1>14
  DEF ServiceKilled, CloseJob, runVars, ctxVars, StartAnnounced, TypeOK, Over
<1>15. ASSUME NEW w \in 1..MaxSpawns, WatchQuit(w) PROVE  StartAnnounced'
  BY <1>15
  DEF WatchQuit, runVars, childVars, ctxVars, StartAnnounced, TypeOK, Over
<1>16. ASSUME NEW w \in 1..MaxSpawns, WatchDial(w) PROVE  StartAnnounced'
  BY <1>16
  DEF WatchDial, runVars, childVars, ctxVars, StartAnnounced, TypeOK, Over
<1>17. ASSUME NEW w \in 1..MaxSpawns, WatchLook(w) PROVE  StartAnnounced'
  BY <1>17
  DEF WatchLook, runVars, childVars, ctxVars, StartAnnounced, TypeOK, Over
<1>18. ASSUME NEW w \in 1..MaxSpawns, WatchMark(w) PROVE  StartAnnounced'
  BY <1>18
  DEF WatchMark, runVars, childVars, ctxVars, StartAnnounced, TypeOK, Over
<1>19. CASE UNCHANGED vars
  BY <1>19
  DEF vars, runVars, childVars, watchVars, ctxVars, StartAnnounced, TypeOK, Over
<1>20. QED
  BY <1>1, <1>2, <1>3, <1>4, <1>5, <1>6, <1>7, <1>8, <1>9, <1>10, <1>11, <1>12,
     <1>13, <1>14, <1>15, <1>16, <1>17, <1>18, <1>19
  DEF RunStep, KillerStep, Environment, Watch, Next

\* The delay before any failure is the smallest, and each further failure doubles it
\* up to the largest: what the last lines of the loop compute (supervisor.go:178-180).
LEMMA Doubling ==
  /\ DelayAt(0) = MinBackoff
  /\ \A k \in 0..MaxFastFails :
       DelayAt(k + 1) =
         IF 2 * DelayAt(k) > MaxBackoff THEN MaxBackoff ELSE 2 * DelayAt(k)
<1>1. DelayAt(0) = MinBackoff
  BY OptionsAssumption, PowersOfTwo DEF DelayAt, Cap
<1>2. ASSUME NEW k \in 0..MaxFastFails
      PROVE  DelayAt(k + 1) =
               IF 2 * DelayAt(k) > MaxBackoff THEN MaxBackoff ELSE 2 * DelayAt(k)
  <2> DEFINE p == 2^k
             d == MinBackoff * p
  <2>1. p \in Nat /\ 2^(k + 1) = 2 * p
    BY PowersOfTwo
  <2>2. d \in Nat /\ MinBackoff * (2 * p) = 2 * d
    <3> HIDE DEF p
    <3> QED
      BY <2>1, OptionsAssumption
  <2>3. DelayAt(k) = Cap(d) /\ DelayAt(k + 1) = Cap(2 * d)
    BY <2>1, <2>2 DEF DelayAt
  <2> HIDE DEF d
  <2>4. QED
    BY <2>2, <2>3, OptionsAssumption DEF Cap
<1>3. QED
  BY <1>1, <1>2

\* Only the end of a run and the backoff touch the delay and the count, each on its
\* way from one of the invariant's two cases to the other (supervisor.go:161-180).
LEMMA DelayStep ==
  ASSUME TypeOK, Counts, DelayFollows, [Next]_vars
  PROVE  DelayFollows'
<1> USE DEF runVars
<1>1. CASE NewJob
  BY <1>1 DEF NewJob, Return, DelayFollows, DelayAt, Cap
<1>2. CASE CheckContext
  BY <1>2 DEF CheckContext, Return, DelayFollows, DelayAt, Cap
<1>3. CASE Spawn
  BY <1>3 DEF Spawn, DelayFollows, DelayAt, Cap
<1>4. CASE PublishProc
  BY <1>4 DEF PublishProc, DelayFollows, DelayAt, Cap
<1>5. CASE AssignAndWatch
  BY <1>5 DEF AssignAndWatch, DelayFollows, DelayAt, Cap
<1>6. CASE Wait
  BY <1>6 DEF Wait, DelayFollows, DelayAt, Cap
<1>7. CASE Judge
  <2>1. CASE cancelled /\ Return("stopped") /\ UNCHANGED runVars
    BY <2>1 DEF Return, DelayFollows
  <2>2. CASE Healthy
    BY <2>2, Doubling DEF Healthy, DelayFollows, DelayAt, Cap
  <2>3. CASE FastFail
    <3>1. /\ fastFails \in Nat /\ fastFails' = fastFails + 1 /\ backoff' = backoff
          /\ pc' \in {"backoff", "returned"}
      BY <2>3 DEF FastFail, Return, TypeOK
    <3>2. backoff \in {DelayAt(fastFails), DelayAt(fastFails + 1)}
      BY <1>7 DEF Judge, DelayFollows
    <3>3. fastFails' # 0 /\ fastFails' - 1 = fastFails
      BY <3>1
    <3>4. QED
      BY <3>1, <3>2, <3>3 DEF DelayFollows, DelayAt, Cap
  <2>4. QED
    BY <1>7, <2>1, <2>2, <2>3 DEF Judge
<1>8. CASE Backoff
  <2>1. CASE cancelled /\ Return("stopped") /\ UNCHANGED runVars
    BY <2>1 DEF Return, DelayFollows
  <2>2. CASE /\ pc = "backoff" /\ pc' = "loop" /\ fastFails' = fastFails
             /\ backoff' = IF 2 * backoff > MaxBackoff THEN MaxBackoff ELSE 2 * backoff
    <3>1. fastFails \in 0..MaxFastFails
      BY DEF TypeOK
    <3>2. CASE fastFails = 0
      <4>1. backoff' = DelayAt(1)
        BY <2>2, <3>1, <3>2, Doubling DEF DelayFollows
      <4>2. QED
        BY <2>2, <3>2, <4>1 DEF DelayFollows, DelayAt, Cap
    <3>3. CASE fastFails # 0
      <4>1. /\ fastFails - 1 \in 0..MaxFastFails
            /\ (fastFails - 1) + 1 = fastFails
        BY <3>1, <3>3, OptionsAssumption
      <4>2. PICK k \in {fastFails - 1, fastFails} : backoff = DelayAt(k)
        BY <2>2, <3>3 DEF DelayFollows
      <4>3. k \in 0..MaxFastFails
        BY <3>1, <4>1
      <4>4. backoff' = DelayAt(k + 1)
        BY <2>2, <4>2, <4>3, Doubling
      <4>5. k + 1 \in {fastFails, fastFails + 1}
        BY <4>1
      <4>6. backoff' \in {DelayAt(fastFails), DelayAt(fastFails + 1)}
        BY <4>4, <4>5
      <4>7. QED
        BY <2>2, <4>6 DEF DelayFollows, DelayAt, Cap
    <3>4. QED
      BY <3>2, <3>3
  <2>3. QED
    BY <1>8, <2>1, <2>2 DEF Backoff
<1>9. CASE UNCHANGED <<pc, runVars>>
  BY <1>9 DEF DelayFollows, DelayAt, Cap
<1>10. CASE ServiceKilled
  BY <1>10 DEF ServiceKilled, DelayFollows
<1>11. ASSUME NEW w \in 1..MaxSpawns, Watch(w)
       PROVE  UNCHANGED <<pc, runVars>>
  BY <1>11 DEF Watch, WatchQuit, WatchDial, WatchLook, WatchMark
<1>12. KillerStep \/ ChildReady \/ ChildExit \/ Cancel \/ UNCHANGED vars
         => UNCHANGED <<pc, runVars>>
  BY DEF KillerStep, KillerTerminate, KillerKill, ChildReady, ChildExit, Cancel, vars
<1>13. QED
  BY <1>1, <1>2, <1>3, <1>4, <1>5, <1>6, <1>7, <1>8, <1>9, <1>10, <1>11, <1>12
  DEF RunStep, Environment, Next

\* The invariant is inductive: each part needs itself and the types, the types the
\* counts.
LEMMA Inductive == IInv /\ [Next]_vars => IInv'
BY TypeStep, CountsStep, ChildStep, JobStep, StartsStep, AnnounceStep, DelayStep DEF IInv

\* Run starts with nothing counted, nothing spawned and the smallest delay.
LEMMA RunStarts == Init => IInv
<1> SUFFICES ASSUME Init PROVE IInv
  OBVIOUS
<1>1. TypeOK
  <2>1. /\ spawns \in 0..MaxSpawns /\ pid \in 0..MaxSpawns /\ allowed \in -1..(MaxSpawns + 1)
        /\ fastFails \in 0..MaxFastFails /\ backoff \in MinBackoff..MaxBackoff
    BY OptionsAssumption DEF Init
  <2>2. QED
    BY <2>1 DEF Init, TypeOK, States
<1>2. Counts /\ StartsAllowed
  BY OptionsAssumption DEF Init, Counts, StartsAllowed, Over
<1>3. ChildOnlyInside /\ JobDiesWithService /\ StartAnnounced
  BY DEF Init, ChildOnlyInside, JobDiesWithService, StartAnnounced, Alive
<1>4. DelayFollows
  BY Doubling DEF Init, DelayFollows
<1>5. QED
  BY <1>1, <1>2, <1>3, <1>4 DEF IInv

\* The inductive invariant holds in every run of the supervisor (Run and all the
\* goroutines around it).
THEOREM Invariant == Spec => []IInv
BY RunStarts, Inductive, PTL DEF Spec

\* Every variable keeps its type (supervisor.go:104-208).
THEOREM TypeCorrect == Spec => []TypeOK
<1>1. IInv => TypeOK
  BY DEF IInv
<1>2. QED
  BY <1>1, Invariant, PTL

\* Run never returns with a child left alive (supervisor.go:110,150).
THEOREM NoOrphan == Spec => []NoOrphanAfterReturn
<1>1. IInv => NoOrphanAfterReturn
  BY DEF IInv, ChildOnlyInside, NoOrphanAfterReturn
<1>2. QED
  BY <1>1, Invariant, PTL

\* A child in the job does not outlive the service process (job_windows.go:21-38).
THEOREM NoOrphanOfService == Spec => []JobDiesWithService
<1>1. IInv => JobDiesWithService
  BY DEF IInv
<1>2. QED
  BY <1>1, Invariant, PTL

\* A cancel is not followed by a restart (supervisor.go:127,155,174).
THEOREM NoPhantom == Spec => []NoPhantomRestart
<1>1. IInv => NoPhantomRestart
  BY DEF IInv, StartsAllowed, NoPhantomRestart, TypeOK
<1>2. QED
  BY <1>1, Invariant, PTL

\* While Run waits for a live child the published state says so
\* (supervisor.go:131,184-208).
THEOREM StatusIsCurrent == Spec => []StatusWhileAlive
<1>1. IInv => StatusWhileAlive
  BY DEF IInv, StartAnnounced, StatusWhileAlive
<1>2. QED
  BY <1>1, Invariant, PTL

\* The delay before a restart is that of the failures in a row, or a doubling more
\* after a run that was healthy (supervisor.go:161-180).
THEOREM DelayTracksStreak == Spec => []BackoffTracksStreak
<1>1. IInv => BackoffTracksStreak
  BY Doubling DEF IInv, Counts, Over, DelayFollows, DelayAt, BackoffTracksStreak
<1>2. QED
  BY <1>1, Invariant, PTL

-----------------------------------------------------------------------------
(* The supervisor as an engine handle. *)

\* A child that was just started is not in the job yet.
NotHeldYet == pc \in {"publish", "assign"} => ~inJob

\* Only the assignment puts a child into the job, and a start takes it out of account
\* (supervisor.go:140-147).
LEMMA HeldStep ==
  ASSUME NotHeldYet, [Next]_vars
  PROVE  NotHeldYet'
<1> USE DEF NotHeldYet
<1>1. CASE RunStep
  BY <1>1
  DEF RunStep, NewJob, CheckContext, Spawn, PublishProc, AssignAndWatch, Wait, Judge, Healthy,
      FastFail, Backoff, Return, CloseJob, childVars
<1>2. CASE KillerStep \/ Environment
  BY <1>2
  DEF KillerStep, KillerTerminate, KillerKill, Environment, ChildReady, ChildExit, Cancel,
      ServiceKilled, CloseJob, childVars
<1>3. ASSUME NEW w \in 1..MaxSpawns, Watch(w) PROVE NotHeldYet'
  BY <1>3 DEF Watch, WatchQuit, WatchDial, WatchLook, WatchMark, childVars
<1>4. CASE UNCHANGED vars
  BY <1>4 DEF vars, childVars
<1>5. QED
  BY <1>1, <1>2, <1>3, <1>4 DEF Next

\* A child in the job is just that throughout.
LEMMA HeldInTime == Spec => []NotHeldYet
<1>1. Init => NotHeldYet
  BY DEF Init, NotHeldYet
<1>2. NotHeldYet /\ [Next]_vars => NotHeldYet'
  BY HeldStep
<1>3. QED
  BY <1>1, <1>2, PTL DEF Spec

\* What a handle shows of a Run that goes on.
LEMMA HandleIs ==
  /\ pc \notin Over => Handle = IF cancelled THEN "cancelled" ELSE "up"
  /\ pc = "returned" => Handle = "done"
  /\ pc = "killed" => Handle = "lost"
BY DEF Handle, Over

\* A Run that returns has no child: it leaves the job's handle to close on nothing
\* (supervisor.go:110).
LEMMA ReturnFinishes ==
  ASSUME NEW st, ChildOnlyInside, pc \in {"init", "loop", "judge", "backoff"},
         Return(st), cancelled' = cancelled
  PROVE  H!Finish
<1>1. ~Alive /\ Alive' = Alive /\ inJob' = inJob /\ pc' = "returned"
  BY DEF ChildOnlyInside, Return, CloseJob, Alive
<1>2. pc \notin Over
  BY DEF Over
<1>3. Handle \in {"up", "cancelled"} /\ Handle' = "done"
  BY <1>1, <1>2, HandleIs DEF Handle
<1>4. (cancelled /\ pc = "spawn")' = FALSE
  BY <1>1
<1>5. QED
  BY <1>1, <1>3, <1>4 DEF H!Finish, H!Runs

\* A step that neither ends Run nor starts or ends a child, nor changes what is held or
\* about to be started, does not show.
LEMMA Unseen ==
  ASSUME Handle' = Handle, Alive' = Alive, inJob' = inJob,
         (cancelled /\ pc = "spawn")' = (cancelled /\ pc = "spawn")
  PROVE  [H!Next]_H!vars
BY DEF H!vars

\* Each step of Run is one of the handle or does not show.
LEMMA RunRefines ==
  ASSUME IInv, NotHeldYet, RunStep
  PROVE  [H!Next]_H!vars
<1>0. ChildOnlyInside /\ TypeOK
  BY DEF IInv
<1> USE DEF Over
<1>1. CASE NewJob
  <2>1. CASE Return("faulted")
    BY <1>0, <1>1, <2>1, ReturnFinishes DEF NewJob, ctxVars, H!Next
  <2>2. CASE pc' = "loop" /\ UNCHANGED <<state, childVars>>
    BY <1>1, <2>2, Unseen, HandleIs DEF NewJob, ctxVars, childVars, Handle, Alive
  <2>3. QED
    BY <1>1, <2>1, <2>2 DEF NewJob
<1>2. CASE CheckContext
  <2>1. CASE Return("stopped")
    BY <1>0, <1>2, <2>1, ReturnFinishes DEF CheckContext, ctxVars, H!Next
  <2>2. CASE ~cancelled /\ pc' = "spawn" /\ UNCHANGED childVars
    BY <1>2, <2>2, Unseen DEF CheckContext, ctxVars, childVars, Handle, Alive
  <2>3. QED
    BY <1>2, <2>1, <2>2 DEF CheckContext
<1>3. CASE Spawn
  <2>1. UNCHANGED ctxVars /\ pc = "spawn" /\ ~Alive
    BY <1>0, <1>3 DEF Spawn, ChildOnlyInside
  <2>2. CASE child' = "booting" /\ inJob' = FALSE /\ pc' = "publish"
    <3>1. Alive' /\ ~(cancelled /\ pc = "spawn")' /\ Handle' = Handle
      BY <2>1, <2>2 DEF Alive, Handle, ctxVars
    <3>2. Handle = IF cancelled THEN "cancelled" ELSE "up"
      BY <2>1, HandleIs
    <3>3. H!Start
      BY <2>1, <2>2, <3>1, <3>2 DEF H!Start, Alive
    <3>4. QED
      BY <3>3 DEF H!Next
  <2>3. CASE pc' = "judge" /\ UNCHANGED <<child, inJob>>
    <3>1. Alive' = Alive /\ Handle' = Handle /\ inJob' = inJob
      BY <2>1, <2>3 DEF Alive, Handle, ctxVars
    <3>2. (cancelled /\ pc = "spawn")' = FALSE
      BY <2>3
    <3>3. CASE cancelled
      BY <2>1, <3>1, <3>2, <3>3 DEF H!Next, H!StartFails
    <3>4. CASE ~cancelled
      BY <3>1, <3>2, <3>4, Unseen
    <3>5. QED
      BY <3>3, <3>4
  <2>4. QED
    BY <1>3, <2>2, <2>3 DEF Spawn
<1>4. CASE PublishProc \/ Wait
  BY <1>4, Unseen DEF PublishProc, Wait, ctxVars, Handle, Alive
<1>5. CASE AssignAndWatch
  <2>1. Alive' = Alive /\ Handle' = Handle /\ pc = "assign" /\ pc' = "wait" /\ ~inJob
    BY <1>5 DEF AssignAndWatch, ctxVars, Handle, Alive, NotHeldYet
  <2>2. CASE inJob' = FALSE
    BY <2>1, <2>2, <1>0, Unseen DEF TypeOK
  <2>3. CASE inJob' = TRUE
    <3>1. Alive
      BY <1>5, <2>3 DEF AssignAndWatch
    <3>2. Handle \in {"up", "cancelled"}
      BY <2>1, HandleIs
    <3>3. (cancelled /\ pc = "spawn")' = (cancelled /\ pc = "spawn")
      BY <2>1
    <3>4. H!Hold
      BY <2>1, <2>3, <3>1, <3>2, <3>3 DEF H!Hold, H!Runs
    <3>5. QED
      BY <3>4 DEF H!Next
  <2>4. QED
    BY <1>5, <2>2, <2>3 DEF AssignAndWatch
<1>6. CASE Judge
  <2>1. CASE Return("stopped") \/ Return("faulted")
    BY <1>0, <1>6, <2>1, ReturnFinishes DEF Judge, ctxVars, H!Next
  <2>2. CASE pc' = "backoff" /\ UNCHANGED childVars
    BY <1>6, <2>2, Unseen DEF Judge, ctxVars, childVars, Handle, Alive
  <2>3. QED
    BY <1>6, <2>1, <2>2 DEF Judge, Healthy, FastFail
<1>7. CASE Backoff
  <2>1. CASE Return("stopped")
    BY <1>0, <1>7, <2>1, ReturnFinishes DEF Backoff, ctxVars, H!Next
  <2>2. CASE pc' = "loop" /\ UNCHANGED childVars
    BY <1>7, <2>2, Unseen DEF Backoff, ctxVars, childVars, Handle, Alive
  <2>3. QED
    BY <1>7, <2>1, <2>2 DEF Backoff
<1>8. QED
  BY <1>1, <1>2, <1>3, <1>4, <1>5, <1>6, <1>7 DEF RunStep

\* A child that ends, by itself or killed, ends for the handle.
LEMMA EndRefines ==
  ASSUME child' = IF Alive THEN "exited" ELSE child, UNCHANGED <<pc, cancelled, inJob>>
  PROVE  [H!Next]_H!vars
<1>1. Handle' = Handle /\ (cancelled /\ pc = "spawn")' = (cancelled /\ pc = "spawn")
  BY DEF Handle
<1>2. CASE Alive
  BY <1>1, <1>2 DEF H!Next, H!ChildEnds, Alive
<1>3. CASE ~Alive
  BY <1>1, <1>3, Unseen DEF Alive
<1>4. QED
  BY <1>2, <1>3

\* So is each step of the killer, of a watcher and of the world.
LEMMA WorldRefines ==
  ASSUME IInv, [Next]_vars, ~RunStep
  PROVE  [H!Next]_H!vars
<1>0. ChildOnlyInside /\ TypeOK
  BY DEF IInv
<1>1. CASE KillerStep
  <2>1. UNCHANGED <<pc, cancelled, inJob>>
    BY <1>1 DEF KillerStep, KillerTerminate, KillerKill
  <2>2. child' = child \/ child' = IF Alive THEN "exited" ELSE child
    BY <1>1 DEF KillerStep, KillerTerminate, KillerKill
  <2>3. CASE child' = child
    BY <2>1, <2>3, Unseen DEF Handle, Alive
  <2>4. QED
    BY <2>1, <2>2, <2>3, EndRefines
<1>2. CASE ChildReady
  BY <1>2, Unseen DEF ChildReady, ctxVars, Handle, Alive
<1>3. CASE ChildExit
  BY <1>3, EndRefines DEF ChildExit, ctxVars
<1>4. CASE Cancel
  <2>1. ~cancelled /\ cancelled' = TRUE /\ UNCHANGED <<pc, child, inJob>>
    BY <1>4 DEF Cancel, childVars
  <2>2. Alive' = Alive
    BY <2>1 DEF Alive
  <2>3. CASE pc \in Over
    BY <2>1, <2>2, <2>3, Unseen DEF Handle, Over
  <2>4. CASE pc \notin Over
    <3>1. Handle = "up" /\ Handle' = "cancelled"
      BY <2>1, <2>4, HandleIs DEF Handle, Over
    <3>2. pc = "spawn" => ~Alive
      BY <1>0 DEF ChildOnlyInside
    <3>3. (cancelled /\ pc = "spawn")' = (pc = "spawn")
      BY <2>1
    <3>4. H!Cancel
      BY <2>1, <2>2, <3>1, <3>2, <3>3 DEF H!Cancel
    <3>5. QED
      BY <3>4 DEF H!Next
  <2>5. QED
    BY <2>3, <2>4
<1>5. CASE ServiceKilled
  <2>1. /\ pc \notin Over /\ pc' = "killed" /\ inJob' = inJob /\ cancelled' = cancelled
        /\ child' = IF inJob /\ Alive THEN "exited" ELSE child
    BY <1>5 DEF ServiceKilled, CloseJob, ctxVars
  <2>2. Alive' = (Alive /\ ~inJob)
    BY <2>1 DEF Alive
  <2>3. Handle \in {"up", "cancelled"} /\ Handle' = "lost"
    BY <2>1, HandleIs DEF Handle
  <2>4. (cancelled /\ pc = "spawn")' = FALSE
    BY <2>1
  <2>5. H!Lose
    BY <2>1, <2>2, <2>3, <2>4 DEF H!Lose, H!Runs
  <2>6. QED
    BY <2>5 DEF H!Next
<1>6. ASSUME NEW w \in 1..MaxSpawns, Watch(w) PROVE [H!Next]_H!vars
  <2>1. UNCHANGED <<pc, cancelled, child, inJob>>
    BY <1>6 DEF Watch, WatchQuit, WatchDial, WatchLook, WatchMark, childVars, ctxVars
  <2>2. QED
    BY <2>1, Unseen DEF Handle, Alive
<1>7. CASE UNCHANGED vars
  BY <1>7, Unseen DEF vars, childVars, ctxVars, Handle, Alive
<1>8. QED
  BY <1>1, <1>2, <1>3, <1>4, <1>5, <1>6, <1>7 DEF Next, Environment

\* The supervisor keeps what the service's loop relies on: one child at a time, at most
\* the one start under way after a cancel, no child behind a Run that has returned, and none
\* that was in the job behind a service that was killed (supervisor.go:104-182).
THEOREM SupervisorIsHandle == Spec => ImplementsHandle
<1>1. Init => H!Init
  BY HandleIs DEF Init, H!Init, Alive, Over
<1>2. IInv /\ NotHeldYet /\ [Next]_vars => [H!Next]_H!vars
  BY RunRefines, WorldRefines
<1>3. QED
  BY <1>1, <1>2, Invariant, HeldInTime, PTL DEF Spec, ImplementsHandle, H!Spec

-----------------------------------------------------------------------------
(* What comes to happen.  tlapm does not reason about ENABLED: what lets each *)
(* goroutine go on is written out, and that it does is a hypothesis.          *)

RunReady ==
  \/ pc \in {"init", "loop", "spawn", "publish", "assign", "judge", "backoff"}
  \/ pc = "wait" /\ child = "exited"
KillerReady ==
  pc # "killed" /\ (killer = "terminated" \/ (killer = "armed" /\ cancelled /\ pc # "init"))
WatchReady(w) == w \in dialed \/ w \in marking \/ (w \in polling /\ child = "ready")

Goes ==
  /\ RunReady => ENABLED <<RunStep>>_vars
  /\ KillerReady => ENABLED <<KillerStep>>_vars
  /\ \A w \in 1..MaxSpawns : WatchReady(w) => ENABLED <<Watch(w)>>_vars

\* The process is published while Run has a child to wait for.
Published ==
  /\ pc \notin Over => (proc <=> pc \in {"assign", "wait"})
  /\ pc \in {"publish", "assign", "wait"} => child # "none"

\* What is not a step of Run leaves it where it is, unless the service dies; a child
\* that is gone stays so, and so does a cancel.
LEMMA BesideRun ==
  ASSUME [Next]_vars, ~RunStep
  PROVE  /\ pc' = pc \/ (pc \notin Over /\ pc' = "killed")
         /\ cancelled => cancelled'
         /\ UNCHANGED <<proc, spawns>>
         /\ child = "exited" => child' = "exited"
         /\ child # "none" => child' # "none"
<1>1. CASE KillerStep
  BY <1>1 DEF KillerStep, KillerTerminate, KillerKill
<1>2. CASE Environment
  BY <1>2 DEF Environment, ChildReady, ChildExit, Cancel, ServiceKilled, CloseJob, Alive, childVars,
       ctxVars
<1>3. ASSUME NEW w \in 1..MaxSpawns, Watch(w) PROVE UNCHANGED <<pc, childVars, ctxVars>>
  BY <1>3 DEF Watch, WatchQuit, WatchDial, WatchLook, WatchMark
<1>4. CASE UNCHANGED vars
  BY <1>4 DEF vars, childVars, ctxVars
<1>5. QED
  BY <1>1, <1>2, <1>3, <1>4 DEF Next, childVars, ctxVars

\* Where a step of Run leads.
LEMMA RunMoves ==
  ASSUME RunStep
  PROVE  /\ UNCHANGED <<cancelled, killer>>
         /\ pc = "loop" /\ cancelled => pc' = "returned"
         /\ pc = "judge" /\ cancelled => pc' = "returned"
         /\ pc = "backoff" => pc' \in {"returned", "loop"}
         /\ pc = "assign" => pc' = "wait" /\ UNCHANGED <<proc, child, spawns>>
         /\ pc = "wait" => pc' = "judge" /\ child = "exited"
         /\ pc \notin Over
BY DEF RunStep, NewJob, CheckContext, Spawn, PublishProc, AssignAndWatch, Wait, Judge, Healthy,
     FastFail, Backoff, Return, ctxVars, Over

\* The process is published before the assignment and withdrawn after the wait.
LEMMA PublishedStep ==
  ASSUME Published, [Next]_vars
  PROVE  Published'
<1>1. CASE ~RunStep
  BY <1>1, BesideRun DEF Published, Over
<1>2. CASE NewJob \/ CheckContext \/ Judge \/ Backoff
  BY <1>2 DEF NewJob, CheckContext, Judge, Healthy, FastFail, Backoff, Return, CloseJob, childVars,
       Published, Over
<1>3. CASE Spawn
  BY <1>3 DEF Spawn, Published, Over
<1>4. CASE PublishProc
  BY <1>4 DEF PublishProc, Published, Over
<1>5. CASE AssignAndWatch
  BY <1>5 DEF AssignAndWatch, Published, Over
<1>6. CASE Wait
  BY <1>6 DEF Wait, Published, Over
<1>7. QED
  BY <1>1, <1>2, <1>3, <1>4, <1>5, <1>6 DEF RunStep

\* The killer finds in proc just the children that Run waits for (supervisor.go:119-150).
LEMMA PublishedAlways == Spec => []Published
<1>1. Init => Published
  BY DEF Init, Published
<1>2. QED
  BY <1>1, PublishedStep, PTL DEF Spec

\* The killer makes its one pass; nobody else is it, and a child it finds in proc ends.
LEMMA KillerMoves ==
  ASSUME [Next]_vars
  PROVE  /\ ~KillerStep => UNCHANGED killer
         /\ KillerStep => UNCHANGED <<pc, cancelled, proc>>
         /\ KillerStep /\ killer = "armed" => killer' = "terminated"
         /\ KillerStep /\ killer = "terminated" /\ proc /\ child # "none" /\ TypeOK => child' = "exited"
<1>1. CASE RunStep
  BY <1>1, RunMoves DEF KillerStep, KillerTerminate, KillerKill
<1>2. CASE KillerStep
  BY <1>2 DEF KillerStep, KillerTerminate, KillerKill, Alive, TypeOK
<1>3. CASE Environment
  BY <1>3 DEF Environment, ChildReady, ChildExit, Cancel, ServiceKilled, KillerStep, KillerTerminate,
       KillerKill, ctxVars
<1>4. ASSUME NEW w \in 1..MaxSpawns, Watch(w) PROVE UNCHANGED <<killer, pc, cancelled, proc>>
  BY <1>4 DEF Watch, WatchQuit, WatchDial, WatchLook, WatchMark, childVars, ctxVars
<1>5. CASE UNCHANGED vars
  BY <1>5 DEF vars, childVars, ctxVars, KillerStep, KillerTerminate, KillerKill
<1>6. QED
  BY <1>1, <1>2, <1>3, <1>4, <1>5 DEF Next, KillerStep, KillerTerminate, KillerKill

\* A cancel that finds Run without a child, or a child in proc, makes Run return
\* (supervisor.go:112-128, 142-155): the killer's pass ends the child, the wait
\* returns, and the next look at the context is the last.
THEOREM CancelEnds == FairSpec /\ []Goes => CancelReturnsWhenKillable
<1> DEFINE Ended == pc \in Over
           Dead  == cancelled /\ child = "exited"
<1>1. FairSpec /\ []Goes => ((cancelled /\ pc = "loop") ~> (Ended))
  <2>1. cancelled /\ pc = "loop" /\ Published /\ [Next]_vars
          => (cancelled /\ pc = "loop")' \/ (Ended)'
    BY BesideRun, RunMoves DEF Over
  <2>2. cancelled /\ pc = "loop" /\ Published /\ [Next]_vars /\ <<RunStep>>_vars
          => (Ended)'
    BY BesideRun, RunMoves DEF Over
  <2>3. cancelled /\ pc = "loop" /\ Published /\ Goes => ENABLED <<RunStep>>_vars \/ Ended
    BY DEF Goes, RunReady, Over, Published
  <2>4. QED
    BY <2>1, <2>2, <2>3, PublishedAlways, PTL DEF FairSpec, Spec
<1>2. FairSpec /\ []Goes => ((cancelled /\ pc = "judge") ~> (Ended))
  <2>1. cancelled /\ pc = "judge" /\ Published /\ [Next]_vars
          => (cancelled /\ pc = "judge")' \/ (Ended)'
    BY BesideRun, RunMoves DEF Over
  <2>2. cancelled /\ pc = "judge" /\ Published /\ [Next]_vars /\ <<RunStep>>_vars
          => (Ended)'
    BY BesideRun, RunMoves DEF Over
  <2>3. cancelled /\ pc = "judge" /\ Published /\ Goes => ENABLED <<RunStep>>_vars \/ Ended
    BY DEF Goes, RunReady, Over, Published
  <2>4. QED
    BY <2>1, <2>2, <2>3, PublishedAlways, PTL DEF FairSpec, Spec
<1>3. FairSpec /\ []Goes => ((cancelled /\ pc = "backoff") ~> (Ended \/ (cancelled /\ pc = "loop")))
  <2>1. cancelled /\ pc = "backoff" /\ Published /\ [Next]_vars
          => (cancelled /\ pc = "backoff")' \/ (Ended \/ (cancelled /\ pc = "loop"))'
    BY BesideRun, RunMoves DEF Over
  <2>2. cancelled /\ pc = "backoff" /\ Published /\ [Next]_vars /\ <<RunStep>>_vars
          => (Ended \/ (cancelled /\ pc = "loop"))'
    BY BesideRun, RunMoves DEF Over
  <2>3. cancelled /\ pc = "backoff" /\ Published /\ Goes => ENABLED <<RunStep>>_vars \/ Ended \/ (cancelled /\ pc = "loop")
    BY DEF Goes, RunReady, Over, Published
  <2>4. QED
    BY <2>1, <2>2, <2>3, PublishedAlways, PTL DEF FairSpec, Spec
<1>4. FairSpec /\ []Goes => ((Dead /\ pc = "wait") ~> (Ended \/ (cancelled /\ pc = "judge")))
  <2>1. Dead /\ pc = "wait" /\ Published /\ [Next]_vars
          => (Dead /\ pc = "wait")' \/ (Ended \/ (cancelled /\ pc = "judge"))'
    BY BesideRun, RunMoves DEF Over
  <2>2. Dead /\ pc = "wait" /\ Published /\ [Next]_vars /\ <<RunStep>>_vars
          => (Ended \/ (cancelled /\ pc = "judge"))'
    BY BesideRun, RunMoves DEF Over
  <2>3. Dead /\ pc = "wait" /\ Published /\ Goes => ENABLED <<RunStep>>_vars \/ Ended \/ (cancelled /\ pc = "judge")
    BY DEF Goes, RunReady, Over, Published
  <2>4. QED
    BY <2>1, <2>2, <2>3, PublishedAlways, PTL DEF FairSpec, Spec
<1>5. FairSpec /\ []Goes => ((Dead /\ pc = "assign") ~> (Ended \/ (Dead /\ pc = "wait")))
  <2>1. Dead /\ pc = "assign" /\ Published /\ [Next]_vars
          => (Dead /\ pc = "assign")' \/ (Ended \/ (Dead /\ pc = "wait"))'
    BY BesideRun, RunMoves DEF Over
  <2>2. Dead /\ pc = "assign" /\ Published /\ [Next]_vars /\ <<RunStep>>_vars
          => (Ended \/ (Dead /\ pc = "wait"))'
    BY BesideRun, RunMoves DEF Over
  <2>3. Dead /\ pc = "assign" /\ Published /\ Goes => ENABLED <<RunStep>>_vars \/ Ended \/ (Dead /\ pc = "wait")
    BY DEF Goes, RunReady, Over, Published
  <2>4. QED
    BY <2>1, <2>2, <2>3, PublishedAlways, PTL DEF FairSpec, Spec
<1>6. FairSpec /\ []Goes => ((cancelled /\ proc /\ killer = "terminated") ~> (Ended \/ (cancelled /\ pc = "judge") \/ (Dead /\ proc)))
  <2>1. cancelled /\ proc /\ killer = "terminated" /\ TypeOK /\ Published /\ [Next]_vars
          => (cancelled /\ proc /\ killer = "terminated")' \/ (Ended \/ (cancelled /\ pc = "judge") \/ (Dead /\ proc))'
    BY BesideRun, RunMoves, PublishedStep, KillerMoves DEF Over, Published
  <2>2. cancelled /\ proc /\ killer = "terminated" /\ TypeOK /\ Published /\ [Next]_vars /\ <<KillerStep>>_vars
          => (Ended \/ (cancelled /\ pc = "judge") \/ (Dead /\ proc))'
    BY BesideRun, RunMoves, PublishedStep, KillerMoves DEF Over, Published
  <2>3. cancelled /\ proc /\ killer = "terminated" /\ TypeOK /\ Published /\ Goes => ENABLED <<KillerStep>>_vars \/ Ended \/ (cancelled /\ pc = "judge") \/ (Dead /\ proc)
    BY DEF Goes, KillerReady, Over, Published
  <2>4. QED
    BY <2>1, <2>2, <2>3, TypeCorrect, PublishedAlways, PTL DEF FairSpec, Spec
<1>7. FairSpec /\ []Goes => ((cancelled /\ proc /\ killer = "armed") ~> (Ended \/ (cancelled /\ pc = "judge") \/ (Dead /\ proc) \/ (cancelled /\ proc /\ killer = "terminated")))
  <2>1. cancelled /\ proc /\ killer = "armed" /\ TypeOK /\ Published /\ [Next]_vars
          => (cancelled /\ proc /\ killer = "armed")' \/ (Ended \/ (cancelled /\ pc = "judge") \/ (Dead /\ proc) \/ (cancelled /\ proc /\ killer = "terminated"))'
    BY BesideRun, RunMoves, PublishedStep, KillerMoves DEF Over, Published
  <2>2. cancelled /\ proc /\ killer = "armed" /\ TypeOK /\ Published /\ [Next]_vars /\ <<KillerStep>>_vars
          => (Ended \/ (cancelled /\ pc = "judge") \/ (Dead /\ proc) \/ (cancelled /\ proc /\ killer = "terminated"))'
    BY BesideRun, RunMoves, PublishedStep, KillerMoves DEF Over, Published
  <2>3. cancelled /\ proc /\ killer = "armed" /\ TypeOK /\ Published /\ Goes => ENABLED <<KillerStep>>_vars \/ Ended \/ (cancelled /\ pc = "judge") \/ (Dead /\ proc) \/ (cancelled /\ proc /\ killer = "terminated")
    BY DEF Goes, KillerReady, Over, Published
  <2>4. QED
    BY <2>1, <2>2, <2>3, TypeCorrect, PublishedAlways, PTL DEF FairSpec, Spec
<1>8. Published /\ Dead /\ proc => Ended \/ (Dead /\ pc = "wait") \/ (Dead /\ pc = "assign")
  BY DEF Published, Over
<1>9. TypeOK /\ Killable
        => \/ cancelled /\ pc = "loop"
           \/ cancelled /\ pc = "judge"
           \/ cancelled /\ pc = "backoff"
           \/ cancelled /\ proc /\ killer = "armed"
           \/ cancelled /\ proc /\ killer = "terminated"
  BY DEF TypeOK, Killable
<1>10. QED
  BY <1>1, <1>2, <1>3, <1>4, <1>5, <1>6, <1>7, <1>8, <1>9, TypeCorrect, PublishedAlways, PTL
  DEF CancelReturnsWhenKillable, FairSpec

\* A watcher is in one place, and there is one for each start that got that far.
Watching == polling \cup dialed \cup marking
OnePlace ==
  /\ polling \cap dialed = {} /\ polling \cap marking = {} /\ dialed \cap marking = {}
  /\ Watching \subseteq 1..spawns
  /\ pc \in {"publish", "assign"} => spawns \notin Watching

\* A child that is waited for, and whose start is all that is reported, is watched.
Watched == pc = "wait" => cancelled \/ state # "starting" \/ spawns \in Watching

\* What a watcher does leaves the others where they are (supervisor.go:184-208).
LEMMA WatchMoves ==
  ASSUME NEW w \in 1..MaxSpawns, Watch(w)
  PROVE  /\ UNCHANGED <<pc, spawns, child, cancelled>>
         /\ \A v \in 1..MaxSpawns \ {w} : /\ v \in polling <=> v \in polling'
                                          /\ v \in dialed <=> v \in dialed'
                                          /\ v \in marking <=> v \in marking'
         /\ w \in polling => w \in dialed' \/ cancelled \/ w \in dialed \/ w \in marking
         /\ w \in dialed => w \in marking' \/ state # "starting" \/ w \in polling \/ w \in marking
         /\ w \in marking => state' = "running" \/ w \in polling \/ w \in dialed
         /\ state' = state \/ state' = "running"
BY DEF Watch, WatchQuit, WatchDial, WatchLook, WatchMark, childVars, ctxVars

\* Every start begins one watcher, and a look goes from dialling to the mark
\* (supervisor.go:147, 184-208).
LEMMA OnePlaceStep ==
  ASSUME TypeOK, Counts, OnePlace, [Next]_vars
  PROVE  OnePlace'
<1> USE DEF OnePlace, Watching
<1>1. CASE NewJob \/ CheckContext \/ Wait \/ Judge \/ Backoff
  BY <1>1 DEF NewJob, CheckContext, Wait, Judge, Healthy, FastFail, Backoff, Return, CloseJob,
       childVars, watchVars
<1>2. CASE Spawn
  BY <1>2, OptionsAssumption DEF Spawn, watchVars, TypeOK
<1>3. CASE PublishProc
  BY <1>3 DEF PublishProc, watchVars
<1>4. CASE AssignAndWatch
  BY <1>4, OptionsAssumption DEF AssignAndWatch, Counts, TypeOK
<1>5. CASE KillerStep \/ Environment
  BY <1>5 DEF KillerStep, KillerTerminate, KillerKill, Environment, ChildReady, ChildExit, Cancel,
       ServiceKilled, CloseJob, childVars, watchVars
<1>6. ASSUME NEW w \in 1..MaxSpawns, Watch(w) PROVE OnePlace'
  BY <1>6 DEF Watch, WatchQuit, WatchDial, WatchLook, WatchMark, childVars
<1>7. CASE UNCHANGED vars
  BY <1>7 DEF vars, childVars, watchVars
<1>8. QED
  BY <1>1, <1>2, <1>3, <1>4, <1>5, <1>6, <1>7 DEF Next, RunStep

\* A watcher leaves its place for the next, or because there is nothing left to report.
LEMMA WatchedStep ==
  ASSUME TypeOK, StartAnnounced, Watched, [Next]_vars
  PROVE  Watched'
<1> USE DEF Watched, Watching
<1>1. CASE NewJob \/ CheckContext \/ Wait \/ Judge \/ Backoff
  BY <1>1 DEF NewJob, CheckContext, Wait, Judge, Healthy, FastFail, Backoff, Return
<1>2. CASE Spawn \/ PublishProc \/ AssignAndWatch
  BY <1>2 DEF Spawn, PublishProc, AssignAndWatch
<1>3. CASE KillerStep \/ Environment
  BY <1>3 DEF KillerStep, KillerTerminate, KillerKill, Environment, ChildReady, ChildExit, Cancel,
       ServiceKilled, CloseJob, childVars, watchVars, ctxVars
<1>4. ASSUME NEW w \in 1..MaxSpawns, Watch(w) PROVE Watched'
  BY <1>4 DEF Watch, WatchQuit, WatchDial, WatchLook, WatchMark, childVars, ctxVars
<1>5. CASE UNCHANGED vars
  BY <1>5 DEF vars, childVars, watchVars, ctxVars
<1>6. QED
  BY <1>1, <1>2, <1>3, <1>4, <1>5 DEF Next, RunStep

\* Both hold throughout.
LEMMA WatchersInPlace == Spec => [](OnePlace /\ Watched)
<1>1. Init => OnePlace /\ Watched
  BY DEF Init, OnePlace, Watched, Watching
<1>2. IInv => TypeOK /\ StartAnnounced /\ Counts
  BY DEF IInv
<1>3. QED
  BY <1>1, <1>2, OnePlaceStep, WatchedStep, Invariant, PTL DEF Spec

\* While a child waits to be reported, nothing but its own watcher, a cancel, its end
\* and the end of the service changes what there is to report.
LEMMA WaitingStep ==
  ASSUME NEW w \in 1..MaxSpawns, TypeOK, OnePlace, [Next]_vars,
         pc = "wait", child = "ready", spawns = w, state = "starting", ~cancelled
  PROVE  \/ state' = "running" \/ child' # "ready" \/ cancelled' \/ pc' = "killed"
         \/ /\ pc' = "wait" /\ child' = "ready" /\ spawns' = w /\ state' = "starting" /\ ~cancelled'
            /\ w \in polling => w \in (IF Watch(w) THEN dialed' ELSE polling')
            /\ w \in dialed => w \in (IF Watch(w) THEN marking' ELSE dialed')
            /\ w \in marking => w \in marking' /\ ~Watch(w)
<1>1. CASE RunStep
  BY <1>1, RunMoves
<1>2. CASE KillerStep \/ Environment \/ UNCHANGED vars
  <2>1. UNCHANGED watchVars \/ pc' = "killed"
    BY <1>2 DEF KillerStep, KillerTerminate, KillerKill, Environment, ChildReady, ChildExit, Cancel,
         ServiceKilled, vars
  <2>2. state' = state /\ (pc' = pc \/ pc' = "killed") /\ spawns' = spawns
    BY <1>2 DEF KillerStep, KillerTerminate, KillerKill, Environment, ChildReady, ChildExit, Cancel,
         ServiceKilled, CloseJob, vars, childVars
  <2>3. ~Watch(w) \/ pc' = "killed" \/ cancelled'
    BY <1>2 DEF KillerStep, KillerTerminate, KillerKill, Environment, ChildReady, ChildExit, Cancel,
         ServiceKilled, CloseJob, vars, childVars, watchVars, ctxVars, Watch, WatchQuit, WatchDial,
         WatchLook, WatchMark, TypeOK
  <2>4. QED
    BY <2>1, <2>2, <2>3 DEF watchVars
<1>3. ASSUME NEW v \in 1..MaxSpawns \ {w}, Watch(v)
      PROVE  state' = "running" \/ (UNCHANGED <<pc, spawns, child, cancelled, state>> /\ ~Watch(w)
               /\ (w \in polling => w \in polling') /\ (w \in dialed => w \in dialed')
               /\ (w \in marking => w \in marking'))
  BY <1>3, WatchMoves DEF Watch, WatchQuit, WatchDial, WatchLook, WatchMark
<1>4. CASE Watch(w)
  BY <1>4, WatchMoves DEF OnePlace
<1>5. QED
  BY <1>1, <1>2, <1>3, <1>4 DEF Next

\* The watcher of the current start gets to the end of its way.
LEMMA ReadyLeads ==
  ASSUME NEW w \in 1..MaxSpawns
  PROVE  FairSpec /\ []Goes
           => ((pc = "wait" /\ child = "ready" /\ spawns = w)
                 ~> (state = "running" \/ child # "ready" \/ cancelled \/ pc = "killed"))
<1> DEFINE Unreported == /\ pc = "wait" /\ child = "ready" /\ spawns = w
                         /\ state = "starting" /\ ~cancelled
           Dials  == Unreported /\ w \in polling
           Looks  == Unreported /\ w \in dialed
           Marks  == Unreported /\ w \in marking
           Told   == state = "running" \/ child # "ready" \/ cancelled \/ pc = "killed"
<1>1. FairSpec => WatcherFair(w)
  <2>1. WatchersFair => WatcherFair(w)
    BY DEF WatchersFair
  <2>2. QED
    BY <2>1, PTL DEF FairSpec
<1>2. Dials /\ TypeOK /\ OnePlace /\ [Next]_vars => Dials' \/ Looks' \/ Told'
  BY WaitingStep
<1>3. Dials /\ TypeOK /\ OnePlace /\ [Next]_vars /\ <<Watch(w)>>_vars => Looks' \/ Told'
  BY WaitingStep
<1>4. Looks /\ TypeOK /\ OnePlace /\ [Next]_vars => Looks' \/ Marks' \/ Told'
  BY WaitingStep
<1>5. Looks /\ TypeOK /\ OnePlace /\ [Next]_vars /\ <<Watch(w)>>_vars => Marks' \/ Told'
  BY WaitingStep
<1>6. Marks /\ TypeOK /\ OnePlace /\ [Next]_vars => Marks' \/ Told'
  BY WaitingStep
<1>7. Marks /\ TypeOK /\ OnePlace /\ [Next]_vars /\ <<Watch(w)>>_vars => Told'
  BY WaitingStep
<1>8. (Dials \/ Looks \/ Marks) /\ Goes => ENABLED <<Watch(w)>>_vars
  BY DEF Goes, WatchReady
<1>9. pc = "wait" /\ child = "ready" /\ spawns = w /\ StartAnnounced /\ Watched
        => Dials \/ Looks \/ Marks \/ Told
  BY DEF StartAnnounced, Watched, Watching
<1>10. IInv => TypeOK /\ StartAnnounced
  BY DEF IInv
<1> HIDE DEF Dials, Looks, Marks, Told
<1>11. FairSpec /\ []Goes => (Dials ~> (Looks \/ Told))
  BY <1>1, <1>2, <1>3, <1>8, <1>10, Invariant, WatchersInPlace, PTL DEF FairSpec, Spec, WatcherFair
<1>12. FairSpec /\ []Goes => (Looks ~> (Marks \/ Told))
  BY <1>1, <1>4, <1>5, <1>8, <1>10, Invariant, WatchersInPlace, PTL DEF FairSpec, Spec, WatcherFair
<1>13. FairSpec /\ []Goes => (Marks ~> Told)
  BY <1>1, <1>6, <1>7, <1>8, <1>10, Invariant, WatchersInPlace, PTL DEF FairSpec, Spec, WatcherFair
<1>14. FairSpec /\ []Goes => ((pc = "wait" /\ child = "ready" /\ spawns = w) ~> Told)
  BY <1>9, <1>10, <1>11, <1>12, <1>13, Invariant, WatchersInPlace, PTL DEF FairSpec
<1>15. Told <=> (state = "running" \/ child # "ready" \/ cancelled \/ pc = "killed")
  BY DEF Told
<1>16. QED
  BY <1>14, <1>15, PTL

\* A child that came up and stays up is reported as running, whichever start it is of
\* and whatever watchers of earlier ones are still about (supervisor.go:184-208).
THEOREM ReadyGetsReported == FairSpec /\ []Goes => ReadyIsReported
<1> DEFINE Up   == pc = "wait" /\ child = "ready"
           Told == state = "running" \/ child # "ready" \/ cancelled \/ pc = "killed"
<1>1. ASSUME NEW w \in 1..MaxSpawns
      PROVE  FairSpec /\ []Goes => [](Up /\ spawns = w => <>Told)
  <2>1. FairSpec /\ []Goes => ((Up /\ spawns = w) ~> Told)
    BY ReadyLeads
  <2>2. QED
    BY <2>1, PTL
<1>2. FairSpec /\ []Goes => \A w \in 1..MaxSpawns : [](Up /\ spawns = w => <>Told)
  BY <1>1
<1>3. (\A w \in 1..MaxSpawns : [](Up /\ spawns = w => <>Told))
        => [](\A w \in 1..MaxSpawns : Up /\ spawns = w => <>Told)
  OBVIOUS
<1>4. Up /\ IInv => spawns \in 1..MaxSpawns
  BY OptionsAssumption DEF IInv, TypeOK, Counts
<1>5. spawns \in 1..MaxSpawns /\ (\A w \in 1..MaxSpawns : Up /\ spawns = w => <>Told) => (Up => <>Told)
  OBVIOUS
<1>6. QED
  BY <1>2, <1>3, <1>4, <1>5, Invariant, PTL DEF ReadyIsReported, FairSpec

=============================================================================
