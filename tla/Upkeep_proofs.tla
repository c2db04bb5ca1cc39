---------------------------- MODULE Upkeep_proofs ----------------------------
(***************************************************************************)
(* Proofs about what keeps the installed program up to date: the update    *)
(* schedule, for any intervals, graces and bounds; an apply with its       *)
(* helper, for any who apply and any number of calls that fail; the log,   *)
(* for any number and size of backups; the control pipe, for any users and *)
(* listeners; and the types of MCUpkeep, which puts them side by side.     *)
(***************************************************************************)
EXTENDS MCUpkeep, SequenceTheorems, TLAPS

-----------------------------------------------------------------------------
(* UpdateSchedule.  Whatever becomes of the record, the times in it are times at which a
   check was made; and as long as nothing was lost, it knows of the latest try. *)

OfChecks(st) == st.check \in made \cup {Never} /\ st.fail \in made \cup {Never}

TimesAreChecks ==
  /\ OfChecks(record)
  /\ asked.on => OfChecks(asked.st)
  /\ sched.at = "checking" => OfChecks(sched.st) /\ sched.now \in made

\* A try is of the newest release, so that the one that is recorded is the newest tried.
KnowsTries ==
  ~unsure =>
    /\ record.version \in 0..offered
    /\ \A v \in 1..MaxVersion : tried[v] # Never => v <= record.version
    /\ record.version # 0 => tried[record.version] = record.at
    /\ sched.at = "checking" => sched.st.version = record.version /\ sched.st.at = record.at

ScheduleInv == ScheduleTypeOK /\ TimesAreChecks /\ KnowsTries

\* What a save leaves on disk, and what it says of it.
LEMMA Saved ==
  ASSUME NEW st \in State, record \in State, saveUpdateState(st)
  PROVE  /\ record' \in State /\ record' \in {st, record, Zero}
         /\ ~unsure' => ~unsure /\ record'.version = st.version /\ record'.at = st.at
<1>1. Zero \in State
  BY ScheduleAssumption DEF Zero, State, Times, Never
<1> QED
  BY <1>1 DEF saveUpdateState

\* A record of nothing is one of checks that were made.
LEMMA ZeroOfChecks == OfChecks(Zero) /\ Zero \in State
BY ScheduleAssumption DEF OfChecks, Zero, State, Times, Never

\* At first nothing is recorded, nothing tried.
LEMMA ScheduleStart ==
  ScheduleInit => ScheduleInv
<1> SUFFICES ASSUME ScheduleInit PROVE ScheduleInv
  OBVIOUS
<1>1. Zero \in State /\ OfChecks(Zero)
  BY ZeroOfChecks
<1>2. Waiting \in Loop /\ NoneAsked \in Ask /\ Waiting.at # "checking" /\ ~NoneAsked.on
  BY <1>1, ScheduleAssumption DEF Waiting, Loop, NoneAsked, Ask, Times, Never
<1>3. ScheduleTypeOK
  <2>1. clock \in Times \ {Never} /\ offered \in 0..MaxVersion /\ current \in 0..offered
    BY ScheduleAssumption DEF ScheduleInit, Times, Never
  <2>2. tried \in [1..MaxVersion -> Times]
    BY ScheduleAssumption DEF ScheduleInit, Times, Never
  <2> QED
    BY <1>1, <1>2, <2>1, <2>2 DEF ScheduleInit, ScheduleTypeOK
<1>4. TimesAreChecks
  BY <1>1, <1>2 DEF ScheduleInit, TimesAreChecks
<1>5. KnowsTries
  BY <1>2, ScheduleAssumption DEF ScheduleInit, KnowsTries, Zero, Never
<1> QED
  BY <1>3, <1>4, <1>5 DEF ScheduleInv

\* What ends a check of the loop keeps the invariant: the record is written, with no try or
\* with one of the newest release.
LEMMA SaveKeeps ==
  ASSUME ScheduleInv, NEW st \in State, OfChecks(st), saveUpdateState(st),
         UNCHANGED <<clock, offered, current, asked, made>>,
         sched' \in Loop, sched'.at # "checking",
         \/ tried' = tried /\ (~unsure => st.version = record.version /\ st.at = record.at)
         \/ /\ offered \in 1..MaxVersion /\ st.version = offered
            /\ tried' = [tried EXCEPT ![offered] = st.at]
  PROVE  ScheduleInv'
<1>1. /\ record \in State /\ offered \in 0..MaxVersion /\ tried \in [1..MaxVersion -> Times]
      /\ MaxVersion \in Nat
  BY ScheduleAssumption DEF ScheduleInv, ScheduleTypeOK
<1>2. /\ record' \in State /\ record' \in {st, record, Zero}
      /\ ~unsure' => ~unsure /\ record'.version = st.version /\ record'.at = st.at
  BY <1>1, Saved
<1>3. st.at \in Times /\ st.version \in 0..MaxVersion
  BY DEF State
<1>4. ScheduleTypeOK'
  <2>1. unsure' \in BOOLEAN
    BY DEF saveUpdateState, ScheduleInv, ScheduleTypeOK
  <2>2. tried' \in [1..MaxVersion -> Times]
    BY <1>1, <1>3
  <2> QED
    BY <1>2, <2>1, <2>2 DEF ScheduleInv, ScheduleTypeOK
<1>5. TimesAreChecks'
  BY <1>2, ZeroOfChecks DEF ScheduleInv, TimesAreChecks, OfChecks
<1>6. KnowsTries'
  <2> SUFFICES ASSUME ~unsure'
               PROVE  /\ st.version \in 0..offered
                      /\ \A v \in 1..MaxVersion : tried'[v] # Never => v <= st.version
                      /\ st.version # 0 => tried'[st.version] = st.at
    BY <1>2 DEF KnowsTries
  <2>1. /\ record.version \in 0..offered
        /\ \A v \in 1..MaxVersion : tried[v] # Never => v <= record.version
        /\ record.version # 0 => tried[record.version] = record.at
    BY <1>2 DEF ScheduleInv, KnowsTries
  <2>2. CASE tried' = tried /\ (~unsure => st.version = record.version /\ st.at = record.at)
    BY <1>2, <2>1, <2>2
  <2>3. CASE /\ offered \in 1..MaxVersion /\ st.version = offered
             /\ tried' = [tried EXCEPT ![offered] = st.at]
    <3>1. \A v \in 1..MaxVersion : tried'[v] # Never => v <= offered
      BY <1>1, <2>1, <2>3
    <3> QED
      BY <1>1, <2>3, <3>1
  <2> QED
    BY <2>2, <2>3
<1> QED
  BY <1>4, <1>5, <1>6 DEF ScheduleInv

\* What the loop knows while it checks.
LEMMA Checking ==
  ASSUME ScheduleInv, sched.at = "checking"
  PROVE  /\ sched.st \in State /\ sched.now \in Times /\ OfChecks(sched.st) /\ sched.now \in made
         /\ Checked \in State /\ OfChecks(Checked)
         /\ Checked.version = sched.st.version /\ Checked.at = sched.st.at
         /\ ~unsure => sched.st.version = record.version /\ sched.st.at = record.at
<1>1. sched.st \in State /\ sched.now \in Times /\ OfChecks(sched.st) /\ sched.now \in made
  BY DEF ScheduleInv, ScheduleTypeOK, TimesAreChecks, Loop
<1>2. Never \in Times
  BY ScheduleAssumption DEF Never, Times
<1> QED
  BY <1>1, <1>2 DEF ScheduleInv, KnowsTries, Checked, State, OfChecks

\* The loop's steps.
LEMMA LoopKeeps ==
  ASSUME ScheduleInv, Wake \/ CheckFails \/ CheckPasses \/ CheckTries \/ ApplyFails \/ ApplyRestarts
  PROVE  ScheduleInv'
<1>1. /\ Waiting \in Loop /\ Waiting.at = "wait" /\ [Waiting EXCEPT !.at = "applying"] \in Loop
      /\ [Waiting EXCEPT !.at = "applying"].at = "applying"
      /\ NoneAsked \in Ask /\ ~NoneAsked.on
  BY ZeroOfChecks, ScheduleAssumption DEF Waiting, Loop, NoneAsked, Ask, Times, Never
<1>2. ASSUME Wake PROVE ScheduleInv'
  <2>1. /\ record \in State /\ clock \in Times /\ sched' = [at |-> "checking", st |-> record, now |-> clock]
        /\ made' = made \cup {clock} /\ UNCHANGED <<record, asked, tried, unsure, clock, offered, current>>
    BY <1>2 DEF Wake, World, ScheduleInv, ScheduleTypeOK
  <2>2. sched' \in Loop /\ sched'.st = record /\ sched'.now = clock
    BY <2>1 DEF Loop
  <2>3. ScheduleTypeOK'
    BY <2>1, <2>2 DEF ScheduleInv, ScheduleTypeOK
  <2> QED
    BY <2>1, <2>2, <2>3 DEF ScheduleInv, TimesAreChecks, KnowsTries, OfChecks
<1>3. ASSUME CheckFails PROVE ScheduleInv'
  <2> DEFINE st == [sched.st EXCEPT !.fail = sched.now]
  <2>1. sched.at = "checking" /\ saveUpdateState(st) /\ sched' = Waiting /\ tried' = tried
        /\ UNCHANGED <<clock, offered, current, asked, made>>
    BY <1>3 DEF CheckFails, World
  <2>2. st \in State /\ OfChecks(st) /\ st.version = sched.st.version /\ st.at = sched.st.at
    BY <2>1, Checking DEF State, OfChecks
  <2> QED
    BY <1>1, <2>1, <2>2, Checking, SaveKeeps
<1>4. ASSUME CheckPasses PROVE ScheduleInv'
  <2>1. sched.at = "checking" /\ saveUpdateState(Checked) /\ sched' = Waiting /\ tried' = tried
        /\ UNCHANGED <<clock, offered, current, asked, made>>
    BY <1>4 DEF CheckPasses, World
  <2> QED
    BY <1>1, <2>1, Checking, SaveKeeps
<1>5. ASSUME CheckTries PROVE ScheduleInv'
  <2> DEFINE st == [Checked EXCEPT !.version = offered, !.at = sched.now]
  <2>1. /\ sched.at = "checking" /\ saveUpdateState(st) /\ sched' = [Waiting EXCEPT !.at = "applying"]
        /\ tried' = [tried EXCEPT ![offered] = sched.now] /\ offered > current
        /\ UNCHANGED <<clock, offered, current, asked, made>>
    BY <1>5 DEF CheckTries, Tries, World
  <2>2. offered \in 1..MaxVersion
    BY <2>1, ScheduleAssumption DEF ScheduleInv, ScheduleTypeOK
  <2>3. /\ Checked \in State /\ OfChecks(Checked) /\ sched.now \in Times /\ offered \in 0..MaxVersion
    BY <2>1, Checking DEF ScheduleInv, ScheduleTypeOK
  <2>4. st \in State /\ OfChecks(st) /\ st.version = offered /\ st.at = sched.now
    BY <2>3 DEF State, OfChecks
  <2> QED
    BY <1>1, <2>1, <2>2, <2>4, SaveKeeps
<1>6. ASSUME ApplyFails \/ ApplyRestarts PROVE ScheduleInv'
  <2>1. /\ sched' = Waiting /\ asked' \in {asked, NoneAsked} /\ current' \in {current, offered}
        /\ UNCHANGED <<clock, record, offered, tried, made, unsure>>
    BY <1>6 DEF ApplyFails, ApplyRestarts, Restarts, World
  <2>2. ScheduleTypeOK'
    BY <1>1, <2>1 DEF ScheduleInv, ScheduleTypeOK
  <2> QED
    BY <1>1, <2>1, <2>2 DEF ScheduleInv, TimesAreChecks, KnowsTries, OfChecks
<1> QED
  BY <1>2, <1>3, <1>4, <1>5, <1>6

\* The panel's check, which writes back what it read.
LEMMA AskKeeps ==
  ASSUME ScheduleInv, AskCheck \/ AskSaves
  PROVE  ScheduleInv'
<1>1. NoneAsked \in Ask /\ ~NoneAsked.on
  BY ZeroOfChecks DEF NoneAsked, Ask
<1>2. record \in State /\ clock \in Times /\ Never \in Times /\ asked \in Ask
  BY ScheduleAssumption DEF ScheduleInv, ScheduleTypeOK, Times, Never
<1>3. ASSUME AskCheck PROVE ScheduleInv'
  <2>1. PICK st \in {[record EXCEPT !.fail = clock], [record EXCEPT !.check = clock, !.fail = Never]} :
          /\ asked' = [on |-> TRUE, st |-> st] /\ made' = made \cup {clock}
          /\ UNCHANGED <<record, sched, tried, unsure, clock, offered, current>>
    BY <1>3 DEF AskCheck, World
  <2>2. st \in State /\ asked' \in Ask /\ asked'.st = st
    BY <1>2, <2>1 DEF State, Ask
  <2>3. ScheduleTypeOK'
    BY <1>2, <2>1, <2>2 DEF ScheduleInv, ScheduleTypeOK
  <2>4. st.check \in made \cup {clock, Never} /\ st.fail \in made \cup {clock, Never}
    BY <1>2, <2>1 DEF ScheduleInv, TimesAreChecks, OfChecks, State
  <2>5. TimesAreChecks'
    BY <2>1, <2>2, <2>4 DEF ScheduleInv, TimesAreChecks, OfChecks
  <2> QED
    BY <2>1, <2>3, <2>5 DEF ScheduleInv, KnowsTries
<1>4. ASSUME AskSaves PROVE ScheduleInv'
  <2>1. /\ asked.on /\ asked' = NoneAsked /\ record' \in {asked.st, record, Zero}
        /\ unsure' = (unsure \/ record'.version # record.version \/ record'.at # record.at)
        /\ UNCHANGED <<sched, tried, made, clock, offered, current>>
    BY <1>4 DEF AskSaves, World
  <2>2. asked.st \in State /\ OfChecks(asked.st)
    BY <1>2, <2>1 DEF ScheduleInv, TimesAreChecks, Ask
  <2>3. record' \in State /\ OfChecks(record')
    BY <1>2, <2>1, <2>2, ZeroOfChecks DEF ScheduleInv, TimesAreChecks
  <2>4. ScheduleTypeOK'
    BY <1>1, <2>1, <2>3 DEF ScheduleInv, ScheduleTypeOK
  <2>5. TimesAreChecks'
    BY <1>1, <2>1, <2>3 DEF ScheduleInv, TimesAreChecks, OfChecks
  <2>6. KnowsTries'
    BY <2>1 DEF ScheduleInv, KnowsTries
  <2> QED
    BY <2>4, <2>5, <2>6 DEF ScheduleInv
<1> QED
  BY <1>3, <1>4

\* The machine, the user and the publisher.
LEMMA WorldKeeps ==
  ASSUME ScheduleInv, Elapse \/ SetBack \/ Crash \/ Release \/ UNCHANGED scheduleVars
  PROVE  ScheduleInv'
<1>1. Waiting \in Loop /\ Waiting.at = "wait" /\ NoneAsked \in Ask /\ ~NoneAsked.on
  BY ZeroOfChecks, ScheduleAssumption DEF Waiting, Loop, NoneAsked, Ask, Times, Never
<1>2. clock \in Times \ {Never} /\ offered \in 0..MaxVersion /\ current \in 0..offered
      /\ MaxClock \in Nat /\ MaxVersion \in Nat
  BY ScheduleAssumption DEF ScheduleInv, ScheduleTypeOK
<1>3. /\ clock' \in Times \ {Never} /\ offered' \in 0..MaxVersion /\ current' \in 0..offered'
      /\ offered <= offered' /\ sched' \in {sched, Waiting} /\ asked' \in {asked, NoneAsked}
      /\ UNCHANGED <<record, tried, made, unsure>>
  BY <1>2 DEF Elapse, SetBack, Crash, Release, Restarts, scheduleVars, Times, Never
<1>4. ScheduleTypeOK'
  BY <1>1, <1>3 DEF ScheduleInv, ScheduleTypeOK
<1>5. TimesAreChecks'
  BY <1>1, <1>3 DEF ScheduleInv, TimesAreChecks, OfChecks
<1>6. KnowsTries'
  BY <1>1, <1>2, <1>3 DEF ScheduleInv, KnowsTries
<1> QED
  BY <1>4, <1>5, <1>6 DEF ScheduleInv

(* Every step of the loop, of a click and of the world keeps the account of the checks. *)
LEMMA ScheduleStep ==
  ScheduleInv /\ [ScheduleNext]_scheduleVars => ScheduleInv'
BY LoopKeeps, AskKeeps, WorldKeeps DEF ScheduleNext

(* The schedule's state is what it is said to be, every time in its record is that of a
   check that was made, and unless something was lost the record knows of the latest try:
   the inductive invariant. *)
THEOREM RecordIsOfChecks == ScheduleSpec => []ScheduleInv
BY ScheduleStart, ScheduleStep, PTL DEF ScheduleSpec

(* The schedule tries neither too often nor too late, whatever becomes of its record
   (superviseUpdates, updateDue, autoDue). *)
THEOREM ScheduleIsKept == ScheduleSpec => KeepsSchedule
<1>1. ASSUME ScheduleInv PROVE CheckInTime
  <2> SUFFICES ASSUME NEW every \in Intervals, ~updateDue(record, every, clock), ~(clock < record.fail)
               PROVE  \E t \in made : t <= clock /\ (clock - t < every \/ clock - t < RetryGrace)
    BY DEF CheckInTime
  <2>1. /\ record.check \in Times /\ record.fail \in Times /\ clock \in Times
        /\ record.check \in made \cup {Never} /\ record.fail \in made \cup {Never}
    BY <1>1 DEF ScheduleInv, ScheduleTypeOK, TimesAreChecks, OfChecks, State
  <2>2. /\ every \in Nat /\ RetryGrace \in Nat
        /\ record.check \in Nat /\ record.fail \in Nat /\ clock \in Nat
    BY <2>1, ScheduleAssumption DEF Times
  <2>3. CASE record.fail # Never /\ ~(clock - record.fail >= RetryGrace)
    <3>1. record.fail <= clock /\ clock - record.fail < RetryGrace /\ record.fail \in made
      BY <2>1, <2>2, <2>3
    <3> QED
      BY <3>1
  <2>4. CASE record.check # Never /\ ~(clock < record.check) /\ ~(clock - record.check >= every)
    <3>1. record.check <= clock /\ clock - record.check < every /\ record.check \in made
      BY <2>1, <2>2, <2>4
    <3> QED
      BY <3>1
  <2> QED
    BY <2>3, <2>4 DEF updateDue
<1>2. ASSUME ScheduleInv, [ScheduleNext]_scheduleVars PROVE TrySpaced
  <2> SUFFICES ASSUME sched.at = "checking", sched'.at = "applying", ~unsure,
                      tried[offered] # Never
               PROVE  sched.now - tried[offered] >= AutoGrace
    BY DEF TrySpaced
  <2>1. Tries
    BY <1>2 DEF ScheduleNext, scheduleVars, Wake, CheckFails, CheckPasses, CheckTries, ApplyFails,
       ApplyRestarts, AskCheck, AskSaves, Elapse, SetBack, Crash, Release, Restarts, Waiting
  <2>2. offered \in 1..MaxVersion
    BY <1>2, <2>1, ScheduleAssumption DEF ScheduleInv, ScheduleTypeOK, Tries
  <2>3. /\ sched.st.version = record.version /\ sched.st.at = record.at
        /\ record.version \in 0..offered /\ offered <= record.version
        /\ record.version # 0 => tried[record.version] = record.at
    BY <1>2, <2>2 DEF ScheduleInv, KnowsTries
  <2>4. sched.st.version = offered /\ sched.st.at = tried[offered]
    BY <2>2, <2>3
  <2> QED
    BY <2>1, <2>4 DEF Tries, autoDue
<1> QED
  BY <1>1, <1>2, RecordIsOfChecks, PTL DEF ScheduleSpec, KeepsSchedule

-----------------------------------------------------------------------------
(* UpdateSwap.  As long as one apply or helper is under way at a time, none is cut short and
   no more calls fail than are provided for, how far it is tells what is on disk and where
   the service runs from. *)

\* The behaviours that EndsSound is about.
Good == ~overlap /\ ~severed /\ faults <= (IF New \in sound THEN 1 ELSE 0)

AllIdle(f) == \A b \in Appliers : f[b] = Idle
Lone(f, a) == \A b \in Appliers \ {a} : f[b] = Idle

Backups == {"old", "oldpid"}

\* A process that runs from where a roll back kept the new build is one of the new build;
\* and a process that runs beside a roll back was left to itself.
FailedIsNew == service = "failed" => runs = New
Quiet == Settled /\ FailedIsNew
Aside == FailedIsNew /\ (service # "none" => adrift)

\* The old build is at p, and the service runs from there.
HasMoved(p) ==
  /\ p \in Backups /\ file[p] \in sound /\ service # "exe"
  /\ ~adrift => service = p /\ file[p] = Old

\* How far the apply is, and what is on disk then.
ApplyAt(a) ==
  LET x == apply[a].at
      p == apply[a].path IN
  /\ scm = "running" /\ runs = Old /\ service # "failed"
  /\ \/ /\ x \in {"fetched", "chosen", "package", "install"}
        /\ file["exe"] \in sound /\ (~adrift => service = "exe" /\ file["exe"] = Old)
        /\ x = "chosen" => p \in Backups
     \/ /\ x \in {"moved", "writing", "written", "unspawned", "unmoved"}
        /\ HasMoved(p)
        /\ x = "moved" => file["exe"] = Absent
        /\ x = "writing" => file["exe"] = Torn
        /\ x \in {"written", "unspawned"} => file["exe"] = New
        /\ x = "unmoved" => file["exe"] \in {Absent, Torn}
        /\ x \in {"unspawned", "unmoved"} => faults >= 1

\* How far the helper is.
HelpAt(a) ==
  LET x == helper[a].at
      p == helper[a].path IN
  \/ /\ x \in {"connect", "stop", "start", "started", "undo", "clear", "aside", "restore"}
     /\ p \in Backups /\ file[p] \in sound
     /\ file["exe"] = IF x = "restore" THEN Absent ELSE New
     /\ x \in {"connect", "stop"} => scm = "running" /\ runs = Old
     /\ x \in {"connect", "stop", "start", "restore"} => service # "exe"
     /\ x = "start" => service = "none" \/ faults >= 1
     /\ x = "started" => /\ service \in {"exe", "none"}
                         /\ IF scm = "running" THEN New \in sound ELSE New \in sound => faults >= 1
     /\ x \in {"undo", "clear", "aside", "restore"} => (New \in sound => faults >= 1)
     /\ x \in {"started", "undo", "clear", "aside"} => (service = "exe" => runs = New)
     /\ x = "aside" => file["failed"] = Absent
     /\ IF x = "restore" THEN Aside ELSE service # "failed"
  \/ x = "restart" /\ p = "exe" /\ file["exe"] \in sound /\ Aside

\* Nothing is under way, or one apply, or one helper.
Sane ==
  \/ AllIdle(apply) /\ AllIdle(helper) /\ Quiet
  \/ AllIdle(helper) /\ \E a \in Appliers : Lone(apply, a) /\ ApplyAt(a)
  \/ AllIdle(apply) /\ \E a \in Appliers : Lone(helper, a) /\ HelpAt(a)

\* The inductive invariant.
SwapInv == SwapTypeOK /\ (Good => Sane)

\* The files' contents differ from each other.
LEMMA FourContents ==
  /\ Old # New /\ Absent # Torn /\ Old # Absent /\ Old # Torn /\ New # Absent /\ New # Torn
  /\ Builds = {Old, New} /\ Backups \subseteq Paths
  /\ Idle \in [at : Applies, path : Paths] /\ Idle \in [at : Helps, path : Paths]
<1>1. Idle \in [at : Applies, path : Paths] /\ Idle \in [at : Helps, path : Paths]
  BY DEF Idle, Applies, Helps, Paths
<1>2. Backups \subseteq Paths
  BY DEF Backups, Paths
<1> QED
  BY <1>1, <1>2, SwapAssumption DEF Builds

\* An apply that is under way is the one thing that is.
LEMMA ApplyAlone ==
  ASSUME SwapInv, Good, NEW a \in Appliers, apply[a].at # "none"
  PROVE  /\ AllIdle(helper) /\ Lone(apply, a) /\ ApplyAt(a) /\ InUse = {service}
         /\ BeingWritten = IF apply[a].at = "writing" THEN {"exe"} ELSE {}
<1>1. apply[a] # Idle
  BY DEF Idle
<1>2. AllIdle(helper) /\ Lone(apply, a) /\ ApplyAt(a)
  BY <1>1 DEF SwapInv, Sane, AllIdle, Lone
<1>3. InUse = {service}
  BY <1>2 DEF InUse, AllIdle
<1>4. \A b \in Appliers : apply[b].at = "writing" => b = a
  BY <1>2 DEF Lone, Idle
<1>5. BeingWritten = IF apply[a].at = "writing" THEN {"exe"} ELSE {}
  BY <1>4 DEF BeingWritten
<1> QED
  BY <1>2, <1>3, <1>5

\* And a helper.
LEMMA HelperAlone ==
  ASSUME SwapInv, Good, NEW a \in Appliers, helper[a].at # "none"
  PROVE  /\ AllIdle(apply) /\ Lone(helper, a) /\ HelpAt(a)
         /\ InUse = {service, helper[a].path} /\ BeingWritten = {}
<1>1. helper[a] # Idle
  BY DEF Idle
<1>2. AllIdle(apply) /\ Lone(helper, a) /\ HelpAt(a)
  BY <1>1 DEF SwapInv, Sane, AllIdle, Lone
<1>3. InUse = {service, helper[a].path}
  BY <1>1, <1>2 DEF InUse, Lone
<1>4. BeingWritten = {}
  BY <1>2 DEF BeingWritten, AllIdle, Idle
<1> QED
  BY <1>2, <1>3, <1>4

\* Where an apply goes on to.
LEMMA ApplyGoesOn ==
  ASSUME SwapInv, NEW a \in Appliers, NEW at \in Applies, NEW p \in Paths, ApplyTo(a, at, p)
  PROVE  /\ apply' \in [Appliers -> [at : Applies, path : Paths]]
         /\ Lone(apply, a) => Lone(apply', a) /\ (at = "none" => AllIdle(apply'))
         /\ at # "none" => apply'[a] = [at |-> at, path |-> p]
<1>1. apply \in [Appliers -> [at : Applies, path : Paths]]
  BY DEF SwapInv, SwapTypeOK
<1>2. (IF at = "none" THEN Idle ELSE [at |-> at, path |-> p]) \in [at : Applies, path : Paths]
  BY FourContents
<1> QED
  BY <1>1, <1>2 DEF ApplyTo, Lone, AllIdle

\* What the steps of an apply have in common: the one apply goes on or ends.
LEMMA ApplyStep ==
  ASSUME SwapInv, NEW a \in Appliers, NEW at \in Applies, NEW p \in Paths,
         apply[a].at # "none", ApplyTo(a, at, p), UNCHANGED <<sound, byMsi, helper>>,
         file' \in [Paths -> Builds \cup {Absent, Torn}], service' \in Paths \cup {"none"},
         runs' \in Builds \cup {Absent}, service' = "none" <=> service = "none",
         runs' = Absent <=> runs = Absent, scm' = scm, adrift' = adrift,
         package' \in {Absent, Torn, New}, overlap' = overlap, severed' = severed,
         NoCallFails \/ CallFails,
         Good /\ Good' => IF at = "none" THEN Quiet' ELSE ApplyAt(a)'
  PROVE  SwapInv'
<1>1. /\ apply' \in [Appliers -> [at : Applies, path : Paths]]
      /\ Lone(apply, a) => Lone(apply', a) /\ (at = "none" => AllIdle(apply'))
  BY ApplyGoesOn
<1>2. faults \in 0..MaxFaults /\ MaxFaults \in Nat
  BY SwapAssumption DEF SwapInv, SwapTypeOK
<1>3. SwapTypeOK'
  <2>1. faults' \in 0..MaxFaults
    BY <1>2 DEF NoCallFails, CallFails
  <2> QED
    BY <1>1, <2>1 DEF SwapInv, SwapTypeOK
<1>4. Good' => Good
  BY <1>2 DEF Good, NoCallFails, CallFails
<1>5. ASSUME Good' PROVE Sane'
  <2>1. AllIdle(helper) /\ Lone(apply, a)
    BY <1>4, <1>5, ApplyAlone
  <2>2. AllIdle(helper')
    BY <2>1
  <2>3. IF at = "none" THEN Quiet' ELSE ApplyAt(a)'
    BY <1>4, <1>5
  <2>4. CASE at = "none"
    BY <1>1, <2>1, <2>2, <2>3, <2>4 DEF Sane
  <2>5. CASE at # "none"
    BY <1>1, <2>1, <2>2, <2>3, <2>5 DEF Sane
  <2> QED
    BY <2>4, <2>5
<1> QED
  BY <1>3, <1>5 DEF SwapInv

\* What every step of an apply may rely on.
LEMMA ApplyFacts ==
  ASSUME SwapInv, NEW a \in Appliers
  PROVE  /\ apply[a].at \in Applies /\ apply[a].path \in Paths
         /\ file \in [Paths -> Builds \cup {Absent, Torn}] /\ service \in Paths \cup {"none"}
         /\ runs \in Builds \cup {Absent} /\ (service = "none" <=> runs = Absent)
         /\ scm \in States /\ (service = "none" <=> scm = "stopped") /\ adrift \in BOOLEAN
         /\ package \in {Absent, Torn, New} /\ faults \in Nat
         /\ Old \in sound /\ sound \subseteq {Old, New}
<1>1. sound \in {{Old}, Builds} /\ apply \in [Appliers -> [at : Applies, path : Paths]]
      /\ faults \in 0..MaxFaults
  BY DEF SwapInv, SwapTypeOK
<1> QED
  BY <1>1, SwapAssumption DEF SwapInv, SwapTypeOK, Builds

\* A first check of what is under way: nothing is, where an apply may begin.
LEMMA FetchKeeps ==
  ASSUME SwapInv, NEW a \in Appliers, FetchUpdate(a)
  PROVE  SwapInv'
<1> DEFINE at == IF byMsi THEN "package" ELSE "fetched"
<1>1. /\ ApplyTo(a, at, "exe") /\ scm = "running" /\ apply[a] = Idle /\ runs # New
      /\ overlap' = (overlap \/ Busy # {})
      /\ UNCHANGED <<file, service, helper, faults, sound, runs, scm, package, byMsi>>
      /\ severed' = severed /\ adrift' = adrift
  BY DEF FetchUpdate, SwapRest, SwapKept
<1>2. at \in Applies /\ at # "none" /\ "exe" \in Paths
  BY DEF Applies, Paths
<1>3. /\ apply' \in [Appliers -> [at : Applies, path : Paths]]
      /\ Lone(apply, a) => Lone(apply', a)
      /\ apply'[a] = [at |-> at, path |-> "exe"]
  BY <1>1, <1>2, ApplyGoesOn
<1>4. SwapTypeOK'
  BY <1>1, <1>3 DEF SwapInv, SwapTypeOK
<1>5. ASSUME Good' PROVE Sane'
  <2>1. Good /\ Busy = {}
    BY <1>1, <1>5 DEF Good
  <2>2. AllIdle(apply) /\ AllIdle(helper)
    BY <2>1 DEF Busy, AllIdle
  <2>3. Quiet
    BY <2>1, <2>2 DEF SwapInv, Sane, ApplyAt, HelpAt, AllIdle, Idle
  <2>4. /\ scm = "running" /\ runs = Old /\ service # "failed"
        /\ file["exe"] \in sound /\ (~adrift => service = "exe" /\ file["exe"] = Old)
    BY <1>1, <2>3, ApplyFacts, FourContents DEF Quiet, FailedIsNew, Settled
  <2>5. ApplyAt(a)'
    BY <1>1, <1>3, <2>4 DEF ApplyAt
  <2>6. AllIdle(helper') /\ Lone(apply, a)
    BY <1>1, <2>2 DEF AllIdle, Lone
  <2> QED
    BY <1>3, <2>5, <2>6 DEF Sane
<1> QED
  BY <1>4, <1>5 DEF SwapInv

\* The old build is moved aside.
LEMMA MoveKeeps ==
  ASSUME SwapInv, NEW a \in Appliers, ChooseBackup(a) \/ SetAside(a)
  PROVE  SwapInv'
<1>1. ASSUME ChooseBackup(a) PROVE SwapInv'
  <2>1. PICK p \in {"old", "oldpid"} :
          /\ apply[a].at = "fetched" /\ ApplyTo(a, "chosen", p)
          /\ file' \in {file, [file EXCEPT !["old"] = Absent]} /\ (NoCallFails \/ CallFails)
          /\ UNCHANGED <<service, helper, overlap, sound, runs, scm, package, byMsi, severed, adrift>>
    BY <1>1 DEF ChooseBackup, SwapRest, SwapKept
  <2>2. "chosen" \in Applies /\ p \in Paths /\ "exe" \in Paths /\ "old" \in Paths
    BY DEF Applies, Paths
  <2>3. file' \in [Paths -> Builds \cup {Absent, Torn}] /\ file'["exe"] = file["exe"]
    BY <2>1, <2>2, ApplyFacts
  <2>4. apply'[a] = [at |-> "chosen", path |-> p]
    BY <2>1, <2>2, ApplyGoesOn
  <2>5. Good => ApplyAt(a)'
    BY <2>1, <2>3, <2>4, ApplyAlone DEF ApplyAt, Backups
  <2> QED
    BY <2>1, <2>2, <2>3, <2>5, ApplyFacts, ApplyStep
<1>2. ASSUME SetAside(a) PROVE SwapInv'
  <2> DEFINE p == apply[a].path
  <2>1. apply[a].at = "chosen" /\ overlap' = overlap
        /\ UNCHANGED <<sound, runs, scm, package, byMsi, severed, adrift>>
    BY <1>2 DEF SetAside, SwapRest, SwapKept
  <2>2. "moved" \in Applies /\ "none" \in Applies /\ p \in Paths /\ "exe" \in Paths
    BY ApplyFacts DEF Applies, Paths
  <2>3. CASE /\ IF Movable("exe", p) THEN CallFails ELSE NoCallFails
             /\ ApplyTo(a, "none", p) /\ UNCHANGED <<file, service, helper>>
    <3>1. Good => Quiet'
      BY <2>1, <2>3, ApplyAlone, ApplyFacts DEF ApplyAt, Quiet, FailedIsNew, Settled
    <3> QED
      BY <2>1, <2>2, <2>3, <3>1, ApplyFacts, ApplyStep
  <2>4. CASE /\ Movable("exe", p) /\ NoCallFails
             /\ RenameFile("exe", p) /\ ApplyTo(a, "moved", p)
             /\ helper' = [b \in Appliers |-> [helper[b] EXCEPT !.path =
                             IF helper[b] = Idle THEN @ ELSE MovedTo(@, "exe", p)]]
    <3>1. /\ file' = [file EXCEPT ![p] = file["exe"], !["exe"] = Absent]
          /\ service' = IF service = "exe" THEN p ELSE service
      BY <2>4 DEF RenameFile, MovedTo
    <3>2. file' \in [Paths -> Builds \cup {Absent, Torn}] /\ service' \in Paths \cup {"none"}
          /\ file'["exe"] = Absent /\ (p # "exe" => file'[p] = file["exe"])
      BY <2>2, <3>1, ApplyFacts
    <3>3. /\ apply' \in [Appliers -> [at : Applies, path : Paths]]
          /\ Lone(apply, a) => Lone(apply', a)
          /\ apply'[a] = [at |-> "moved", path |-> p]
      BY <2>2, <2>4, ApplyGoesOn
    <3>4. helper' \in [Appliers -> [at : Helps, path : Paths]]
      <4>1. helper \in [Appliers -> [at : Helps, path : Paths]]
        BY DEF SwapInv, SwapTypeOK
      <4> QED
        BY <2>2, <2>4, <4>1 DEF MovedTo
    <3>5. service' = "none" <=> runs' = Absent
      BY <2>1, <2>2, <3>1, ApplyFacts DEF Paths
    <3>6. SwapTypeOK'
      BY <2>1, <2>4, <3>2, <3>3, <3>4, <3>5 DEF SwapInv, SwapTypeOK, NoCallFails
    <3>7. ASSUME Good' PROVE Sane'
      <4>1. Good
        BY <2>1, <2>4, <3>7 DEF Good, NoCallFails
      <4>2. /\ AllIdle(helper) /\ Lone(apply, a)
            /\ scm = "running" /\ runs = Old /\ service # "failed" /\ p \in Backups
            /\ file["exe"] \in sound /\ (~adrift => service = "exe" /\ file["exe"] = Old)
        BY <2>1, <4>1, ApplyAlone DEF ApplyAt
      <4>3. AllIdle(helper')
        <5>1. \A b \in Appliers : helper'[b] = Idle
          BY <2>4, <4>2 DEF AllIdle, Idle
        <5> QED
          BY <5>1 DEF AllIdle
      <4>4. HasMoved(p)' /\ service' # "failed" /\ scm' = "running" /\ runs' = Old
        <5>1. apply'[a].path = p
          BY <3>3
        <5> QED
          BY <2>1, <3>1, <3>2, <4>2, <5>1 DEF HasMoved, Backups
      <4>5. ApplyAt(a)'
        BY <3>2, <3>3, <4>4 DEF ApplyAt
      <4> QED
        BY <3>3, <4>2, <4>3, <4>5 DEF Sane
    <3> QED
      BY <3>6, <3>7 DEF SwapInv
  <2> QED
    BY <1>2, <2>3, <2>4 DEF SetAside
<1> QED
  BY <1>1, <1>2

\* The new build is written in its place.
LEMMA WriteKeeps ==
  ASSUME SwapInv, NEW a \in Appliers, OpenExe(a) \/ WriteExe(a)
  PROVE  SwapInv'
<1> DEFINE p == apply[a].path
<1>1. /\ {"writing", "written", "unmoved"} \subseteq Applies /\ p \in Paths /\ "exe" \in Paths
      /\ Backups \subseteq Paths \ {"exe"}
  BY ApplyFacts DEF Applies, Paths, Backups
<1>2. ASSUME OpenExe(a) PROVE SwapInv'
  <2>1. PICK at \in {"writing", "unmoved"} :
          /\ apply[a].at = "moved" /\ ApplyTo(a, at, p)
          /\ at = "writing" => NoCallFails /\ file' = [file EXCEPT !["exe"] = Torn]
          /\ at = "unmoved" => file' = file /\ (IF "exe" \in InUse THEN NoCallFails ELSE CallFails)
          /\ UNCHANGED <<service, helper, overlap, sound, runs, scm, package, byMsi, severed, adrift>>
    BY <1>2 DEF OpenExe, SwapRest, SwapKept
  <2>2. /\ file' \in [Paths -> Builds \cup {Absent, Torn}]
        /\ \A q \in Backups : file'[q] = file[q]
        /\ at = "writing" => file'["exe"] = Torn
    BY <1>1, <2>1, ApplyFacts
  <2>3. at \in Applies /\ at # "none" /\ apply'[a] = [at |-> at, path |-> p]
    BY <1>1, <2>1, ApplyGoesOn
  <2>4. ASSUME Good PROVE ApplyAt(a)'
    <3>1. HasMoved(p) /\ service # "failed" /\ scm = "running" /\ runs = Old
          /\ file["exe"] = Absent /\ InUse = {service}
      BY <2>1, <2>4, ApplyAlone DEF ApplyAt
    <3>2. at = "unmoved" => faults' >= 1
      BY <1>1, <2>1, <3>1, ApplyFacts DEF CallFails, HasMoved
    <3>3. /\ apply'[a].at = at /\ apply'[a].path = p
          /\ HasMoved(p)' /\ service' # "failed" /\ scm' = "running" /\ runs' = Old
      BY <2>1, <2>2, <2>3, <3>1 DEF HasMoved
    <3>4. CASE at = "writing"
      BY <2>2, <3>3, <3>4 DEF ApplyAt
    <3>5. CASE at = "unmoved"
      BY <2>1, <3>1, <3>2, <3>3, <3>5 DEF ApplyAt
    <3> QED
      BY <2>1, <3>4, <3>5
  <2>5. NoCallFails \/ CallFails
    BY <2>1
  <2> QED
    BY <1>1, <2>1, <2>2, <2>3, <2>4, <2>5, ApplyFacts, ApplyStep
<1>3. ASSUME WriteExe(a) PROVE SwapInv'
  <2>1. PICK at \in {"written", "unmoved"} :
          /\ apply[a].at = "writing" /\ ApplyTo(a, at, p)
          /\ at = "written" => NoCallFails /\ file' = [file EXCEPT !["exe"] = New]
          /\ at = "unmoved" => file' = file /\ CallFails
          /\ UNCHANGED <<service, helper, overlap, sound, runs, scm, package, byMsi, severed, adrift>>
    BY <1>3 DEF WriteExe, SwapRest, SwapKept
  <2>2. /\ file' \in [Paths -> Builds \cup {Absent, Torn}]
        /\ \A q \in Backups : file'[q] = file[q]
        /\ at = "written" => file'["exe"] = New
    BY <1>1, <2>1, ApplyFacts, FourContents
  <2>3. at \in Applies /\ at # "none" /\ apply'[a] = [at |-> at, path |-> p]
    BY <1>1, <2>1, ApplyGoesOn
  <2>4. ASSUME Good PROVE ApplyAt(a)'
    <3>1. HasMoved(p) /\ service # "failed" /\ scm = "running" /\ runs = Old
          /\ file["exe"] = Torn
      BY <2>1, <2>4, ApplyAlone DEF ApplyAt
    <3>2. at = "unmoved" => faults' >= 1
      BY <2>1, ApplyFacts DEF CallFails
    <3>3. /\ apply'[a].at = at /\ apply'[a].path = p
          /\ HasMoved(p)' /\ service' # "failed" /\ scm' = "running" /\ runs' = Old
      BY <2>1, <2>2, <2>3, <3>1 DEF HasMoved
    <3>4. CASE at = "written"
      BY <2>2, <3>3, <3>4 DEF ApplyAt
    <3>5. CASE at = "unmoved"
      BY <2>1, <3>1, <3>2, <3>3, <3>5 DEF ApplyAt
    <3> QED
      BY <2>1, <3>4, <3>5
  <2>5. NoCallFails \/ CallFails
    BY <2>1
  <2> QED
    BY <1>1, <2>1, <2>2, <2>3, <2>4, <2>5, ApplyFacts, ApplyStep
<1> QED
  BY <1>2, <1>3

\* The helper is started, and takes over; or the swap is to be undone.
LEMMA SpawnKeeps ==
  ASSUME SwapInv, NEW a \in Appliers, Spawn(a)
  PROVE  SwapInv'
<1> DEFINE p == apply[a].path
<1>1. /\ {"unspawned", "none"} \subseteq Applies /\ "connect" \in Helps /\ p \in Paths /\ "exe" \in Paths
  BY ApplyFacts DEF Applies, Helps, Paths
<1>2. /\ apply[a].at = "written"
      /\ UNCHANGED <<file, service, overlap, sound, runs, scm, package, byMsi, severed, adrift>>
  BY DEF Spawn, SwapRest, SwapKept
<1>3. CASE /\ IF file[p] \in Builds THEN CallFails ELSE NoCallFails
           /\ ApplyTo(a, "unspawned", p) /\ UNCHANGED helper
  <2>1. apply'[a] = [at |-> "unspawned", path |-> p]
    BY <1>1, <1>3, ApplyGoesOn
  <2>2. ASSUME Good PROVE ApplyAt(a)'
    <3>1. HasMoved(p) /\ service # "failed" /\ scm = "running" /\ runs = Old /\ file["exe"] = New
      BY <1>2, <2>2, ApplyAlone DEF ApplyAt
    <3>2. faults' >= 1
      BY <1>3, <3>1, ApplyFacts DEF CallFails, HasMoved, Builds
    <3>3. HasMoved(p)' /\ service' # "failed" /\ scm' = "running" /\ runs' = Old /\ file'["exe"] = New
      BY <1>2, <2>1, <3>1 DEF HasMoved
    <3> QED
      BY <2>1, <3>2, <3>3 DEF ApplyAt
  <2> QED
    BY <1>1, <1>2, <1>3, <2>2, ApplyFacts, ApplyStep
<1>4. CASE /\ NoCallFails /\ helper' = [helper EXCEPT ![a] = [at |-> "connect", path |-> p]]
           /\ ApplyTo(a, "none", p)
  <2>1. /\ apply' \in [Appliers -> [at : Applies, path : Paths]]
        /\ Lone(apply, a) => AllIdle(apply')
    BY <1>1, <1>4, ApplyGoesOn
  <2>2. helper \in [Appliers -> [at : Helps, path : Paths]]
    BY DEF SwapInv, SwapTypeOK
  <2>3. helper' \in [Appliers -> [at : Helps, path : Paths]] /\ helper'[a] = [at |-> "connect", path |-> p]
    BY <1>1, <1>4, <2>2
  <2>4. SwapTypeOK'
    BY <1>2, <1>4, <2>1, <2>3 DEF SwapInv, SwapTypeOK, NoCallFails
  <2>5. ASSUME Good' PROVE Sane'
    <3>1. Good
      BY <1>2, <1>4, <2>5 DEF Good, NoCallFails
    <3>2. /\ AllIdle(helper) /\ Lone(apply, a)
          /\ HasMoved(p) /\ service # "failed" /\ scm = "running" /\ runs = Old /\ file["exe"] = New
      BY <1>2, <3>1, ApplyAlone DEF ApplyAt
    <3>3. Lone(helper', a)
      BY <1>4, <3>2 DEF AllIdle, Lone
    <3>4. HelpAt(a)'
      BY <1>2, <2>3, <3>2 DEF HelpAt, HasMoved
    <3> QED
      BY <2>1, <3>2, <3>3, <3>4 DEF Sane
  <2> QED
    BY <2>4, <2>5 DEF SwapInv
<1> QED
  BY <1>3, <1>4 DEF Spawn

\* The swap is undone: with one call that has failed no other does.
LEMMA UndoKeeps ==
  ASSUME SwapInv, NEW a \in Appliers, RemoveNew(a) \/ MoveBack(a)
  PROVE  SwapInv'
<1> DEFINE p == apply[a].path
<1>1. /\ {"unmoved", "none"} \subseteq Applies /\ p \in Paths /\ "exe" \in Paths
      /\ "exe" \notin Backups /\ Backups \subseteq Paths
  BY ApplyFacts DEF Applies, Paths, Backups
<1>2. ASSUME Good', UNCHANGED <<sound, severed, overlap>>, faults >= 1, CallFails PROVE FALSE
  BY <1>2, ApplyFacts DEF Good, CallFails
<1>3. ASSUME RemoveNew(a) PROVE SwapInv'
  <2>1. /\ apply[a].at = "unspawned" /\ ApplyTo(a, "unmoved", p)
        /\ \/ NoCallFails /\ file' = IF Removable("exe") THEN [file EXCEPT !["exe"] = Absent] ELSE file
           \/ Removable("exe") /\ CallFails /\ UNCHANGED file
        /\ UNCHANGED <<service, helper, overlap, sound, runs, scm, package, byMsi, severed, adrift>>
    BY <1>3 DEF RemoveNew, SwapRest, SwapKept
  <2>2. file' \in [Paths -> Builds \cup {Absent, Torn}] /\ \A q \in Backups : file'[q] = file[q]
    BY <1>1, <2>1, ApplyFacts
  <2>3. apply'[a] = [at |-> "unmoved", path |-> p]
    BY <1>1, <2>1, ApplyGoesOn
  <2>4. ASSUME Good, Good' PROVE ApplyAt(a)'
    <3>1. /\ HasMoved(p) /\ service # "failed" /\ scm = "running" /\ runs = Old /\ file["exe"] = New
          /\ faults >= 1 /\ InUse = {service} /\ BeingWritten = {}
      BY <2>1, <2>4, ApplyAlone DEF ApplyAt
    <3>2. Removable("exe")
      BY <1>1, <3>1, FourContents DEF Removable, HasMoved
    <3>3. NoCallFails /\ file'["exe"] = Absent
      BY <1>1, <1>2, <2>1, <2>4, <3>1, <3>2, ApplyFacts
    <3>4. HasMoved(p)' /\ service' # "failed" /\ scm' = "running" /\ runs' = Old
      BY <2>1, <2>2, <2>3, <3>1 DEF HasMoved
    <3> QED
      BY <2>3, <3>1, <3>3, <3>4 DEF ApplyAt, NoCallFails
  <2> QED
    BY <1>1, <2>1, <2>2, <2>4, ApplyFacts, ApplyStep
<1>4. ASSUME MoveBack(a) PROVE SwapInv'
  <2>1. /\ apply[a].at = "unmoved" /\ ApplyTo(a, "none", p)
        /\ \/ NoCallFails /\ RenameFile(p, "exe")
           \/ ~Movable(p, "exe") /\ NoCallFails /\ UNCHANGED <<file, service>>
           \/ CallFails /\ UNCHANGED <<file, service>>
        /\ UNCHANGED <<helper, overlap, sound, runs, scm, package, byMsi, severed, adrift>>
    BY <1>4 DEF MoveBack, SwapRest, SwapKept
  <2>2. ASSUME RenameFile(p, "exe")
        PROVE  /\ file' \in [Paths -> Builds \cup {Absent, Torn}] /\ service' \in Paths \cup {"none"}
               /\ service' = "none" <=> service = "none"
               /\ p \in Backups => file'["exe"] = file[p]
               /\ service' = IF service = p THEN "exe" ELSE service
    <3>1. /\ file' = [file EXCEPT !["exe"] = file[p], ![p] = Absent]
          /\ service' = IF service = p THEN "exe" ELSE service
      BY <2>2 DEF RenameFile, MovedTo
    <3>2. "none" \notin Paths
      BY DEF Paths
    <3> QED
      BY <1>1, <3>1, <3>2, ApplyFacts
  <2>3. /\ file' \in [Paths -> Builds \cup {Absent, Torn}] /\ service' \in Paths \cup {"none"}
        /\ service' = "none" <=> service = "none"
    BY <2>1, <2>2, ApplyFacts
  <2>4. ASSUME Good, Good' PROVE Quiet'
    <3>1. /\ HasMoved(p) /\ service # "failed" /\ runs = Old /\ file["exe"] \in {Absent, Torn}
          /\ faults >= 1 /\ InUse = {service} /\ BeingWritten = {}
      BY <2>1, <2>4, ApplyAlone DEF ApplyAt
    <3>2. Movable(p, "exe")
      BY <1>1, <3>1, ApplyFacts, FourContents DEF Movable, HasMoved
    <3>3. NoCallFails /\ RenameFile(p, "exe")
      BY <1>2, <2>1, <2>4, <3>1, <3>2
    <3>4. file'["exe"] = file[p] /\ service' = IF service = p THEN "exe" ELSE service
      BY <2>2, <3>1, <3>3 DEF HasMoved
    <3> QED
      BY <2>1, <3>1, <3>4 DEF Quiet, FailedIsNew, Settled, HasMoved
  <2>5. service' = "none" <=> runs' = Absent
    BY <2>1, <2>3, ApplyFacts
  <2>6. NoCallFails \/ CallFails
    BY <2>1
  <2>7. runs' \in Builds \cup {Absent} /\ package' \in {Absent, Torn, New}
    BY <2>1, ApplyFacts
  <2> QED
    BY <1>1, <2>1, <2>3, <2>4, <2>5, <2>6, <2>7, ApplyStep
<1> QED
  BY <1>3, <1>4

\* The installer's package, and the installer.
LEMMA PackageKeeps ==
  ASSUME SwapInv, NEW a \in Appliers, WritePackage(a) \/ InstallPackage(a)
  PROVE  SwapInv'
<1>1. {"install", "none"} \subseteq Applies /\ "exe" \in Paths
  BY DEF Applies, Paths
<1>2. ASSUME WritePackage(a) PROVE SwapInv'
  <2>1. PICK at \in {"install", "none"} :
          /\ apply[a].at = "package" /\ ApplyTo(a, at, "exe") /\ (NoCallFails \/ CallFails)
          /\ package' \in {Absent, Torn, New}
          /\ UNCHANGED <<sound, file, service, scm, runs, helper, byMsi, overlap, severed, adrift>>
    BY <1>2 DEF WritePackage
  <2>2. at # "none" => apply'[a] = [at |-> at, path |-> "exe"]
    BY <1>1, <2>1, ApplyGoesOn
  <2>3. ASSUME Good
        PROVE  IF at = "none" THEN Quiet' ELSE ApplyAt(a)'
    <3>1. /\ scm = "running" /\ runs = Old /\ service # "failed"
          /\ file["exe"] \in sound /\ (~adrift => service = "exe" /\ file["exe"] = Old)
      BY <2>1, <2>3, ApplyAlone DEF ApplyAt
    <3>2. Quiet'
      BY <2>1, <3>1, ApplyFacts DEF Quiet, FailedIsNew, Settled
    <3>3. at = "install" => ApplyAt(a)'
      BY <2>1, <2>2, <3>1 DEF ApplyAt
    <3> QED
      BY <2>1, <3>2, <3>3
  <2> QED
    BY <1>1, <2>1, <2>3, ApplyFacts, ApplyStep
<1>3. ASSUME InstallPackage(a) PROVE SwapInv'
  <2>1. /\ apply[a].at = "install" /\ service # "none"
        /\ UNCHANGED <<sound, service, scm, helper, package, byMsi, overlap, adrift>>
    BY <1>3 DEF InstallPackage
  <2>2. CASE /\ NoCallFails \/ CallFails
             /\ ApplyTo(a, "none", "exe") /\ UNCHANGED <<file, runs, severed>>
    <3>1. Good => Quiet'
      BY <2>1, <2>2, ApplyAlone DEF ApplyAt, Quiet, FailedIsNew, Settled
    <3> QED
      BY <1>1, <2>1, <2>2, <3>1, ApplyFacts, ApplyStep
  <2>3. CASE /\ package = New /\ New \in sound /\ NoCallFails
             /\ file' = [file EXCEPT !["exe"] = New] /\ runs' = New
             /\ apply' = [b \in Appliers |-> Idle]
             /\ severed' = (severed \/ \E b \in Appliers \ {a} : apply[b] # Idle)
    <3>1. SwapTypeOK'
      <4>1. apply' \in [Appliers -> [at : Applies, path : Paths]]
        BY <2>3, FourContents
      <4>2. file' \in [Paths -> Builds \cup {Absent, Torn}] /\ runs' \in Builds /\ runs' # Absent
        BY <1>1, <2>3, ApplyFacts, FourContents
      <4>3. severed' \in BOOLEAN
        BY <2>3
      <4> QED
        BY <2>1, <2>3, <4>1, <4>2, <4>3 DEF SwapInv, SwapTypeOK, NoCallFails
    <3>2. ASSUME Good' PROVE Sane'
      <4>1. Good
        BY <2>1, <2>3, <3>2 DEF Good, NoCallFails
      <4>2. AllIdle(helper) /\ (~adrift => service = "exe") /\ service # "failed"
        BY <2>1, <4>1, ApplyAlone DEF ApplyAt
      <4>3. AllIdle(helper') /\ AllIdle(apply')
        BY <2>1, <2>3, <4>2 DEF AllIdle
      <4>4. Quiet'
        BY <1>1, <2>1, <2>3, <4>2, ApplyFacts DEF Quiet, FailedIsNew, Settled
      <4> QED
        BY <4>3, <4>4 DEF Sane
    <3> QED
      BY <3>1, <3>2 DEF SwapInv
  <2> QED
    BY <1>3, <2>1, <2>2, <2>3 DEF InstallPackage
<1> QED
  BY <1>2, <1>3

-----------------------------------------------------------------------------
(* The helper. *)

\* What every step of a helper may rely on, and what it cannot do: fail once more than is
\* provided for, once the release did not come up.
LEMMA HelperFacts ==
  ASSUME SwapInv, NEW a \in Appliers
  PROVE  /\ helper \in [Appliers -> [at : Helps, path : Paths]]
         /\ helper[a].at \in Helps /\ helper[a].path \in Paths
         /\ "exe" \notin Backups /\ "failed" \notin Backups /\ "none" \notin Paths
         /\ "exe" \in Paths /\ "failed" \in Paths /\ "exe" # "failed"
         /\ (New \in sound => faults >= 1) /\ CallFails /\ Good' => sound' # sound
<1>1. helper \in [Appliers -> [at : Helps, path : Paths]]
  BY DEF SwapInv, SwapTypeOK
<1>2. /\ "exe" \notin Backups /\ "failed" \notin Backups /\ "none" \notin Paths
      /\ "exe" \in Paths /\ "failed" \in Paths
  BY DEF Backups, Paths
<1>3. (New \in sound => faults >= 1) /\ CallFails /\ Good' => sound' # sound
  BY ApplyFacts DEF CallFails, Good
<1> QED
  BY <1>1, <1>2, <1>3

\* What the steps of a helper have in common: the one helper goes on or ends.
LEMMA HelperStep ==
  ASSUME SwapInv, NEW a \in Appliers, NEW at \in Helps, NEW p \in Paths, helper[a].at # "none",
         helper' \in [Appliers -> [at : Helps, path : Paths]],
         Lone(helper, a) => Lone(helper', a),
         helper'[a] = (IF at = "none" THEN Idle ELSE [at |-> at, path |-> p]),
         apply' = apply \/ apply' = [b \in Appliers |-> Idle], UNCHANGED <<sound, byMsi, package>>,
         file' \in [Paths -> Builds \cup {Absent, Torn}], service' \in Paths \cup {"none"},
         runs' \in Builds \cup {Absent}, service' = "none" <=> runs' = Absent,
         scm' \in States, service' = "none" <=> scm' = "stopped", adrift' \in BOOLEAN,
         overlap' = overlap, severed' \in BOOLEAN, severed => severed',
         NoCallFails \/ CallFails,
         Good /\ Good' => IF at = "none" THEN Quiet' ELSE HelpAt(a)'
  PROVE  SwapInv'
<1>1. faults \in 0..MaxFaults /\ MaxFaults \in Nat
  BY SwapAssumption DEF SwapInv, SwapTypeOK
<1>2. SwapTypeOK'
  <2>1. faults' \in 0..MaxFaults
    BY <1>1 DEF NoCallFails, CallFails
  <2>2. apply' \in [Appliers -> [at : Applies, path : Paths]]
    BY FourContents DEF SwapInv, SwapTypeOK
  <2> QED
    BY <2>1, <2>2 DEF SwapInv, SwapTypeOK
<1>3. Good' => Good
  BY <1>1 DEF Good, NoCallFails, CallFails
<1>4. ASSUME Good' PROVE Sane'
  <2>1. AllIdle(apply) /\ Lone(helper, a)
    BY <1>3, <1>4, HelperAlone
  <2>2. AllIdle(apply') /\ Lone(helper', a)
    BY <2>1 DEF AllIdle
  <2>3. IF at = "none" THEN Quiet' ELSE HelpAt(a)'
    BY <1>3, <1>4
  <2>4. CASE at = "none"
    <3>1. AllIdle(helper')
      BY <2>2, <2>4 DEF AllIdle, Lone
    <3> QED
      BY <2>2, <2>3, <2>4, <3>1 DEF Sane
  <2>5. CASE at # "none"
    BY <2>2, <2>3, <2>5 DEF Sane
  <2> QED
    BY <2>4, <2>5
<1> QED
  BY <1>2, <1>4 DEF SwapInv

\* Where a helper goes on to.
LEMMA HelperGoesOn ==
  ASSUME SwapInv, NEW a \in Appliers, NEW at \in Helps, HelperTo(a, at)
  PROVE  /\ helper' \in [Appliers -> [at : Helps, path : Paths]]
         /\ Lone(helper, a) => Lone(helper', a)
         /\ helper'[a] = (IF at = "none" THEN Idle ELSE [at |-> at, path |-> helper[a].path])
<1>1. helper \in [Appliers -> [at : Helps, path : Paths]]
  BY DEF SwapInv, SwapTypeOK
<1>2. [helper[a] EXCEPT !.at = at] = [at |-> at, path |-> helper[a].path]
  BY <1>1
<1>3. [at |-> at, path |-> helper[a].path] \in [at : Helps, path : Paths]
  BY <1>1
<1> QED
  BY <1>1, <1>2, <1>3, FourContents DEF HelperTo, Lone

\* The service is opened; a helper that cannot leaves all as it is, with the new build in
\* its place.
LEMMA OpenKeeps ==
  ASSUME SwapInv, NEW a \in Appliers, OpenService(a)
  PROVE  SwapInv'
<1> DEFINE p == helper[a].path
<1>1. PICK at \in {"stop", "none"} :
        /\ helper[a].at = "connect" /\ HelperTo(a, at)
        /\ \/ NoCallFails /\ at = "stop" /\ adrift' = adrift
           \/ CallFails /\ at = "none" /\ adrift' = (adrift \/ service # "none")
        /\ UNCHANGED <<file, service, apply, overlap, sound, runs, scm, package, byMsi, severed>>
  BY DEF OpenService, SwapKept, LeftAlone
<1>2. at \in Helps
  BY <1>1 DEF Helps
<1>3. /\ helper' \in [Appliers -> [at : Helps, path : Paths]]
      /\ Lone(helper, a) => Lone(helper', a)
      /\ helper'[a] = (IF at = "none" THEN Idle ELSE [at |-> at, path |-> p])
  BY <1>1, <1>2, HelperGoesOn
<1>4. ASSUME Good, Good' PROVE IF at = "none" THEN Quiet' ELSE HelpAt(a)'
  <2>1. /\ p \in Backups /\ file[p] \in sound /\ file["exe"] = New /\ scm = "running"
        /\ runs = Old /\ service # "exe" /\ service # "failed"
    BY <1>1, <1>4, HelperAlone DEF HelpAt
  <2>2. CASE at = "stop"
    BY <1>1, <1>3, <2>1, <2>2 DEF HelpAt
  <2>3. CASE at = "none"
    <3>1. CallFails /\ adrift' = TRUE
      BY <1>1, <2>1, <2>3, ApplyFacts
    <3>2. New \in sound
      BY <1>1, <1>4, <3>1, ApplyFacts DEF Good, CallFails
    <3> QED
      BY <1>1, <2>1, <2>3, <3>1, <3>2 DEF Quiet, Settled, FailedIsNew
  <2> QED
    BY <2>2, <2>3
<1>5. adrift' \in BOOLEAN /\ severed' \in BOOLEAN /\ (severed => severed') /\ (NoCallFails \/ CallFails)
  BY <1>1 DEF SwapInv, SwapTypeOK
<1>6. p \in Paths /\ helper[a].at # "none" /\ overlap' = overlap
      /\ UNCHANGED <<sound, byMsi, package, apply, file, service, runs, scm>>
  BY <1>1, HelperFacts
<1> QED
  BY <1>2, <1>3, <1>4, <1>5, <1>6, ApplyFacts, HelperStep

\* The service is stopped: the old build, and once more if the new one did not come up.
LEMMA StopKeeps ==
  ASSUME SwapInv, NEW a \in Appliers, StopOld(a) \/ StopBad(a)
  PROVE  SwapInv'
<1> DEFINE p == helper[a].path
<1>1. PICK from \in {"stop", "undo"} :
        LET to == IF from = "stop" THEN "start" ELSE "clear" IN
        /\ helper[a].at = from /\ HelperTo(a, to)
        /\ \/ NoCallFails /\ ServiceStops
           \/ /\ scm \in {"stopped", "startPending"} /\ NoCallFails
              /\ UNCHANGED <<service, scm, runs, apply, severed, adrift>>
           \/ /\ scm \in {"running", "stopPending"} /\ CallFails /\ scm' \in {scm, "stopPending"}
              /\ UNCHANGED <<service, runs, apply, severed, adrift>>
        /\ UNCHANGED <<sound, file, package, byMsi, overlap>>
  BY DEF StopOld, StopBad, SwapStop
<1> DEFINE to == IF from = "stop" THEN "start" ELSE "clear"
<1>2. to \in Helps /\ to # "none"
  BY DEF Helps
<1>3. /\ helper' \in [Appliers -> [at : Helps, path : Paths]]
      /\ Lone(helper, a) => Lone(helper', a)
      /\ helper'[a] = [at |-> to, path |-> p]
  BY <1>1, <1>2, HelperGoesOn
<1>4. /\ apply' = apply \/ apply' = [b \in Appliers |-> Idle]
      /\ NoCallFails \/ CallFails
      /\ severed' \in BOOLEAN /\ (severed => severed') /\ adrift' \in BOOLEAN
      /\ \/ service' = "none" /\ scm' = "stopped" /\ runs' = Absent
         \/ /\ service' = service /\ runs' = runs /\ scm' \in States
            /\ (scm' = "stopped" <=> scm = "stopped")
  <2>1. severed \in BOOLEAN /\ adrift \in BOOLEAN
    BY DEF SwapInv, SwapTypeOK
  <2>2. CASE NoCallFails /\ ServiceStops
    <3>1. severed' \in BOOLEAN /\ (severed => severed')
      BY <2>2 DEF ServiceStops
    <3> QED
      BY <2>2, <3>1 DEF ServiceStops
  <2>3. CASE /\ scm \in {"stopped", "startPending"} /\ NoCallFails
             /\ UNCHANGED <<service, scm, runs, apply, severed, adrift>>
    BY <2>1, <2>3, ApplyFacts
  <2>4. CASE /\ scm \in {"running", "stopPending"} /\ CallFails /\ scm' \in {scm, "stopPending"}
             /\ UNCHANGED <<service, runs, apply, severed, adrift>>
    <3>1. scm' \in States /\ scm' # "stopped" /\ scm # "stopped"
      BY <2>4 DEF States
    <3> QED
      BY <2>1, <2>4, <3>1
  <2> QED
    BY <1>1, <2>2, <2>3, <2>4
<1>5. /\ file' \in [Paths -> Builds \cup {Absent, Torn}] /\ service' \in Paths \cup {"none"}
      /\ runs' \in Builds \cup {Absent} /\ (service' = "none" <=> runs' = Absent)
      /\ scm' \in States /\ (service' = "none" <=> scm' = "stopped")
  <2>1. "stopped" \in States
    BY DEF States
  <2> QED
    BY <1>1, <1>4, <2>1, ApplyFacts
<1>6. ASSUME Good, Good' PROVE HelpAt(a)'
  <2>1. /\ p \in Backups /\ file[p] \in sound /\ file["exe"] = New /\ service # "failed"
        /\ from = "stop" => scm = "running" /\ service # "exe"
        /\ from = "undo" => (service = "exe" => runs = New) /\ (New \in sound => faults >= 1)
    BY <1>1, <1>6, HelperAlone DEF HelpAt
  <2>2. /\ service' # "failed" /\ (service' = "exe" => service = "exe" /\ runs' = runs)
        /\ file'[p] \in sound' /\ file'["exe"] = New
        /\ helper'[a].at = to /\ helper'[a].path = p
    BY <1>1, <1>3, <1>4, <2>1
  <2>3. CASE from = "stop"
    <3>1. service' = "none" \/ faults' >= 1
      BY <1>1, <2>1, <2>3, ApplyFacts DEF CallFails, ServiceStops
    <3> QED
      BY <2>1, <2>2, <2>3, <3>1 DEF HelpAt
  <2>4. CASE from = "undo"
    <3>1. New \in sound' => faults' >= 1
      BY <1>1, <1>4, <2>1, <2>4, ApplyFacts DEF CallFails, NoCallFails
    <3> QED
      BY <2>1, <2>2, <2>4, <3>1 DEF HelpAt
  <2> QED
    BY <2>3, <2>4
<1>7. p \in Paths /\ overlap' = overlap /\ UNCHANGED <<sound, byMsi, package>>
      /\ helper[a].at # "none"
  BY <1>1, HelperFacts
<1> QED
  BY <1>2, <1>3, <1>4, <1>5, <1>6, <1>7, HelperStep

\* The service is started, with the new build and, if it did not come up, with the old one.
LEMMA StartKeeps ==
  ASSUME SwapInv, NEW a \in Appliers, StartNew(a) \/ StartAgain(a)
  PROVE  SwapInv'
<1> DEFINE p == helper[a].path
<1> DEFINE Up      == /\ service = "none" /\ file["exe"] \in sound /\ NoCallFails
                      /\ service' = "exe" /\ scm' = "running" /\ runs' = file["exe"]
           Not     == /\ IF service = "none" /\ file["exe"] \in sound THEN CallFails ELSE NoCallFails
                      /\ UNCHANGED <<service, scm, runs>>
           Late    == /\ service = "none" /\ file["exe"] \in Builds
                      /\ IF file["exe"] \in sound THEN CallFails ELSE NoCallFails
                      /\ service' = "exe" /\ scm' = "startPending" /\ runs' = file["exe"]
<1>1. PICK from \in {"start", "restart"}, at \in {"started", "undo", "none"} :
        /\ helper[a].at = from /\ HelperTo(a, at)
        /\ from = "restart" => at = "none" /\ (Up \/ Not)
        /\ from = "start" => \/ at = "started" /\ (Up \/ Late)
                             \/ at = "undo" /\ Not
        /\ UNCHANGED <<sound, file, apply, package, byMsi, overlap, severed, adrift>>
  <2>1. ASSUME StartNew(a)
        PROVE  \E at \in {"started", "undo"} :
                 /\ helper[a].at = "start" /\ HelperTo(a, at)
                 /\ \/ at = "started" /\ (Up \/ Late)
                    \/ at = "undo" /\ Not
                 /\ UNCHANGED <<sound, file, apply, package, byMsi, overlap, severed, adrift>>
    BY <2>1 DEF StartNew, SwapStart, StartLate
  <2>2. ASSUME StartAgain(a)
        PROVE  /\ helper[a].at = "restart" /\ HelperTo(a, "none") /\ (Up \/ Not)
               /\ UNCHANGED <<sound, file, apply, package, byMsi, overlap, severed, adrift>>
    BY <2>2 DEF StartAgain, SwapStart
  <2>3. CASE StartNew(a)
    <3>1. PICK at \in {"started", "undo"} :
            /\ helper[a].at = "start" /\ HelperTo(a, at)
            /\ \/ at = "started" /\ (Up \/ Late)
               \/ at = "undo" /\ Not
            /\ UNCHANGED <<sound, file, apply, package, byMsi, overlap, severed, adrift>>
      BY <2>1, <2>3
    <3> HIDE DEF Up, Not, Late
    <3> WITNESS "start" \in {"start", "restart"}, at \in {"started", "undo", "none"}
    <3> QED
      BY <3>1
  <2>4. CASE StartAgain(a)
    <3>1. /\ helper[a].at = "restart" /\ HelperTo(a, "none") /\ (Up \/ Not)
          /\ UNCHANGED <<sound, file, apply, package, byMsi, overlap, severed, adrift>>
      BY <2>2, <2>4
    <3> HIDE DEF Up, Not, Late
    <3> WITNESS "restart" \in {"start", "restart"}, "none" \in {"started", "undo", "none"}
    <3> QED
      BY <3>1
  <2> QED
    BY <2>3, <2>4
<1>2. at \in Helps
  BY DEF Helps
<1>3. /\ helper' \in [Appliers -> [at : Helps, path : Paths]]
      /\ Lone(helper, a) => Lone(helper', a)
      /\ helper'[a] = (IF at = "none" THEN Idle ELSE [at |-> at, path |-> p])
  BY <1>1, <1>2, HelperGoesOn
<1>4. /\ service' \in Paths \cup {"none"} /\ (service' = "none" <=> runs' = Absent)
      /\ runs' \in Builds \cup {Absent} /\ (NoCallFails \/ CallFails)
      /\ scm' \in States /\ (service' = "none" <=> scm' = "stopped")
  <2>1. {"running", "startPending"} \subseteq States
    BY DEF States
  <2>2. sound \subseteq Builds /\ Absent \notin Builds
    BY ApplyFacts, FourContents
  <2>3. CASE Up \/ Late
    BY <2>1, <2>2, <2>3, HelperFacts
  <2>4. CASE Not
    BY <2>4, ApplyFacts
  <2> QED
    BY <1>1, <2>3, <2>4
<1>5. ASSUME Good, Good' PROVE IF at = "none" THEN Quiet' ELSE HelpAt(a)'
  <2>1. CASE from = "restart"
    <3>1. file["exe"] \in sound /\ (service = "failed" => runs = New) /\ (service # "none" => adrift)
      BY <1>1, <1>5, <2>1, HelperAlone DEF HelpAt, Aside, FailedIsNew
    <3> QED
      BY <1>1, <2>1, <3>1 DEF Quiet, Settled, FailedIsNew
  <2>2. CASE from = "start"
    <3>1. /\ p \in Backups /\ file[p] \in sound /\ file["exe"] = New
          /\ service # "exe" /\ service # "failed" /\ (service = "none" \/ faults >= 1)
      BY <1>1, <1>5, <2>2, HelperAlone DEF HelpAt
    <3>2. CASE at = "started"
      <4>1. /\ helper'[a].at = "started" /\ helper'[a].path = p
            /\ file'[p] \in sound' /\ file'["exe"] = New /\ service' = "exe" /\ runs' = New
        BY <1>1, <1>3, <2>2, <3>1, <3>2
      <4>2. IF scm' = "running" THEN New \in sound' ELSE New \in sound' => faults' >= 1
        BY <1>1, <2>2, <3>1, <3>2, ApplyFacts DEF CallFails
      <4> QED
        BY <3>1, <3>2, <4>1, <4>2 DEF HelpAt
    <3>3. CASE at = "undo"
      <4>1. New \in sound => faults' >= 1
        BY <1>1, <2>2, <3>1, <3>3, ApplyFacts DEF CallFails, NoCallFails
      <4> QED
        BY <1>1, <1>3, <2>2, <3>1, <3>3, <4>1 DEF HelpAt
    <3> QED
      BY <1>1, <2>2, <3>2, <3>3
  <2> QED
    BY <2>1, <2>2
<1>6. /\ p \in Paths /\ overlap' = overlap /\ UNCHANGED <<sound, byMsi, package, apply>>
      /\ helper[a].at # "none" /\ file' \in [Paths -> Builds \cup {Absent, Torn}]
      /\ severed' \in BOOLEAN /\ (severed => severed') /\ adrift' \in BOOLEAN
  BY <1>1, ApplyFacts, HelperFacts DEF SwapInv, SwapTypeOK
<1> QED
  BY <1>2, <1>3, <1>4, <1>5, <1>6, HelperStep

\* The helper sees whether the new build is up, and makes room for it aside.
LEMMA JudgeKeeps ==
  ASSUME SwapInv, NEW a \in Appliers, Judge(a) \/ ClearFailed(a)
  PROVE  SwapInv'
<1> DEFINE p == helper[a].path
<1>1. {"none", "undo", "aside"} \subseteq Helps
  BY DEF Helps
<1>2. ASSUME Judge(a) PROVE SwapInv'
  <2>1. PICK at \in {"none", "undo"} :
          /\ helper[a].at = "started" /\ HelperTo(a, at)
          /\ \/ NoCallFails /\ (at = "none" <=> scm = "running")
             \/ CallFails /\ at = "undo"
          /\ UNCHANGED <<file, service, apply, overlap, sound, runs, scm, package, byMsi, severed, adrift>>
    BY <1>2 DEF Judge, SwapRest, SwapKept
  <2>2. /\ helper' \in [Appliers -> [at : Helps, path : Paths]]
        /\ Lone(helper, a) => Lone(helper', a)
        /\ helper'[a] = (IF at = "none" THEN Idle ELSE [at |-> at, path |-> p])
    BY <1>1, <2>1, HelperGoesOn
  <2>3. ASSUME Good PROVE IF at = "none" THEN Quiet' ELSE HelpAt(a)'
    <3>1. /\ p \in Backups /\ file[p] \in sound /\ file["exe"] = New /\ service \in {"exe", "none"}
          /\ IF scm = "running" THEN New \in sound ELSE New \in sound => faults >= 1
          /\ service = "exe" => runs = New
      BY <2>1, <2>3, HelperAlone DEF HelpAt
    <3>2. CASE at = "none"
      BY <2>1, <3>1, <3>2, ApplyFacts DEF Quiet, Settled, FailedIsNew
    <3>3. CASE at = "undo"
      <4>1. New \in sound' => faults' >= 1
        BY <2>1, <3>1, <3>3, ApplyFacts DEF CallFails, NoCallFails
      <4> QED
        BY <2>1, <2>2, <3>1, <3>3, <4>1 DEF HelpAt
    <3> QED
      BY <2>1, <3>2, <3>3
  <2>4. severed' \in BOOLEAN /\ (severed => severed') /\ adrift' \in BOOLEAN
    BY <2>1 DEF SwapInv, SwapTypeOK
  <2>5. NoCallFails \/ CallFails
    BY <2>1
  <2> QED
    BY <1>1, <2>1, <2>2, <2>3, <2>4, <2>5, ApplyFacts, HelperFacts, HelperStep
<1>3. ASSUME ClearFailed(a) PROVE SwapInv'
  <2>1. /\ helper[a].at = "clear" /\ HelperTo(a, "aside")
        /\ \/ NoCallFails /\ file' = IF Removable("failed") THEN [file EXCEPT !["failed"] = Absent] ELSE file
           \/ CallFails /\ file' = file
        /\ UNCHANGED <<service, apply, overlap, sound, runs, scm, package, byMsi, severed, adrift>>
    BY <1>3 DEF ClearFailed, SwapRest, SwapKept
  <2>2. /\ helper' \in [Appliers -> [at : Helps, path : Paths]]
        /\ Lone(helper, a) => Lone(helper', a)
        /\ helper'[a] = [at |-> "aside", path |-> p]
    BY <1>1, <2>1, HelperGoesOn
  <2>3. file' \in [Paths -> Builds \cup {Absent, Torn}]
        /\ \A q \in Backups \cup {"exe"} : file'[q] = file[q]
    BY <2>1, ApplyFacts, HelperFacts, FourContents
  <2>4. ASSUME Good, Good' PROVE HelpAt(a)'
    <3>1. /\ p \in Backups /\ file[p] \in sound /\ file["exe"] = New /\ service # "failed"
          /\ (service = "exe" => runs = New)
          /\ (New \in sound => faults >= 1) /\ InUse = {service, p} /\ BeingWritten = {}
      BY <2>1, <2>4, HelperAlone DEF HelpAt
    <3>2. NoCallFails
      BY <2>1, <2>4, <3>1, HelperFacts
    <3>3. file'["failed"] = Absent
      <4>1. "failed" \notin InUse \cup BeingWritten
        BY <3>1, HelperFacts
      <4>2. ~CallFails
        BY <2>1, <2>4, <3>1, HelperFacts
      <4> QED
        BY <2>1, <4>1, <4>2, ApplyFacts, HelperFacts DEF Removable
    <3>4. /\ helper'[a].at = "aside" /\ helper'[a].path = p /\ file'[p] \in sound' /\ file'["exe"] = New
          /\ service' # "failed" /\ (service' = "exe" => runs' = New) /\ (New \in sound' => faults' >= 1)
      BY <2>1, <2>2, <2>3, <3>1, <3>2 DEF NoCallFails
    <3> QED
      BY <3>1, <3>3, <3>4 DEF HelpAt
  <2>5. severed' \in BOOLEAN /\ (severed => severed') /\ adrift' \in BOOLEAN /\ (NoCallFails \/ CallFails)
    BY <2>1 DEF SwapInv, SwapTypeOK
  <2> QED
    BY <1>1, <2>1, <2>2, <2>3, <2>4, <2>5, ApplyFacts, HelperFacts, HelperStep
<1> QED
  BY <1>2, <1>3

\* The new build is kept aside.
LEMMA KeepBadKeeps ==
  ASSUME SwapInv, NEW a \in Appliers, KeepBad(a)
  PROVE  SwapInv'
<1> DEFINE p == helper[a].path
<1>1. "restore" \in Helps
  BY DEF Helps
<1>2. /\ helper[a].at = "aside" /\ HelperTo(a, "restore") /\ adrift' = (adrift \/ service # "none")
      /\ \/ Movable("exe", "failed") /\ NoCallFails /\ RenameFile("exe", "failed")
         \/ ~Movable("exe", "failed") /\ NoCallFails /\ UNCHANGED <<file, service>>
         \/ CallFails /\ UNCHANGED <<file, service>>
      /\ UNCHANGED <<apply, overlap, sound, runs, scm, package, byMsi, severed>>
  BY DEF KeepBad, SwapKept, LeftAlone
<1>3. /\ helper' \in [Appliers -> [at : Helps, path : Paths]]
      /\ Lone(helper, a) => Lone(helper', a)
      /\ helper'[a] = [at |-> "restore", path |-> p]
  BY <1>1, <1>2, HelperGoesOn
<1>4. ASSUME RenameFile("exe", "failed")
      PROVE  /\ file' \in [Paths -> Builds \cup {Absent, Torn}] /\ service' \in Paths \cup {"none"}
             /\ service' = "none" <=> service = "none"
             /\ file'["exe"] = Absent /\ \A q \in Backups : file'[q] = file[q]
             /\ service' = IF service = "exe" THEN "failed" ELSE service
  <2>1. /\ file' = [file EXCEPT !["failed"] = file["exe"], !["exe"] = Absent]
        /\ service' = IF service = "exe" THEN "failed" ELSE service
    BY <1>4 DEF RenameFile, MovedTo
  <2> QED
    BY <2>1, ApplyFacts, HelperFacts, FourContents
<1>5. /\ file' \in [Paths -> Builds \cup {Absent, Torn}] /\ service' \in Paths \cup {"none"}
      /\ (service' = "none" <=> runs' = Absent) /\ scm' \in States /\ (service' = "none" <=> scm' = "stopped")
  BY <1>2, <1>4, ApplyFacts
<1>6. ASSUME Good, Good' PROVE HelpAt(a)'
  <2>1. /\ p \in Backups /\ file[p] \in sound /\ file["exe"] = New
        /\ service # "failed" /\ (service = "exe" => runs = New)
        /\ (New \in sound => faults >= 1) /\ InUse = {service, p} /\ BeingWritten = {}
        /\ file["failed"] = Absent
    BY <1>2, <1>6, HelperAlone DEF HelpAt
  <2>2. ~CallFails
    BY <1>2, <1>6, <2>1, HelperFacts
  <2>3. Movable("exe", "failed")
    BY <2>1, FourContents DEF Movable
  <2>4. NoCallFails /\ RenameFile("exe", "failed")
    BY <1>2, <2>2, <2>3
  <2>5. /\ helper'[a].at = "restore" /\ helper'[a].path = p /\ file'[p] \in sound' /\ file'["exe"] = Absent
        /\ service' # "exe" /\ (New \in sound' => faults' >= 1)
    BY <1>2, <1>3, <1>4, <2>1, <2>4 DEF NoCallFails
  <2>6. (service' = "failed" => runs' = New) /\ (service' # "none" => adrift')
    BY <1>2, <1>4, <2>1, <2>4
  <2> QED
    BY <2>1, <2>5, <2>6 DEF HelpAt, Aside, FailedIsNew
<1>7. severed' \in BOOLEAN /\ (severed => severed') /\ adrift' \in BOOLEAN /\ (NoCallFails \/ CallFails)
  BY <1>2 DEF SwapInv, SwapTypeOK
<1>8. p \in Paths /\ overlap' = overlap /\ UNCHANGED <<sound, byMsi, package, apply>>
      /\ helper[a].at # "none" /\ runs' \in Builds \cup {Absent}
  BY <1>2, ApplyFacts, HelperFacts
<1> QED
  BY <1>1, <1>3, <1>5, <1>6, <1>7, <1>8, HelperStep

\* The old build is put back.
LEMMA RestoreKeeps ==
  ASSUME SwapInv, NEW a \in Appliers, RestoreOld(a)
  PROVE  SwapInv'
<1> DEFINE p == helper[a].path
<1>1. "restart" \in Helps /\ "none" \in Helps
  BY DEF Helps
<1>2. helper[a].at = "restore" /\ UNCHANGED <<apply, overlap, sound, runs, scm, package, byMsi, severed, adrift>>
  BY DEF RestoreOld, SwapRest, SwapKept
<1>3. severed' \in BOOLEAN /\ (severed => severed') /\ helper[a].at # "none" /\ p \in Paths
      /\ overlap' = overlap /\ UNCHANGED <<sound, byMsi, package, apply>> /\ runs' \in Builds \cup {Absent}
      /\ scm' \in States /\ adrift' \in BOOLEAN
  BY <1>2, ApplyFacts, HelperFacts DEF SwapInv, SwapTypeOK
<1>4. ASSUME Good
      PROVE  /\ p \in Backups /\ file[p] \in sound /\ file["exe"] = Absent
             /\ (service = "failed" => runs = New) /\ (service # "none" => adrift)
             /\ (New \in sound => faults >= 1) /\ Movable(p, "exe")
  <2>1. /\ p \in Backups /\ file[p] \in sound /\ file["exe"] = Absent
        /\ (service = "failed" => runs = New) /\ (service # "none" => adrift)
        /\ (New \in sound => faults >= 1) /\ InUse = {service, p} /\ BeingWritten = {}
    BY <1>2, <1>4, HelperAlone DEF HelpAt, Aside, FailedIsNew
  <2> QED
    BY <2>1, ApplyFacts, FourContents DEF Movable
<1>5. CASE /\ IF Movable(p, "exe") THEN CallFails ELSE NoCallFails
           /\ HelperTo(a, "none") /\ UNCHANGED <<file, service>>
  <2>1. ~(Good /\ Good')
    BY <1>2, <1>4, <1>5, HelperFacts
  <2>2. /\ helper' \in [Appliers -> [at : Helps, path : Paths]]
        /\ Lone(helper, a) => Lone(helper', a)
        /\ helper'[a] = Idle
    BY <1>1, <1>5, HelperGoesOn
  <2> QED
    BY <1>1, <1>2, <1>3, <1>5, <2>1, <2>2, ApplyFacts, HelperStep
<1>6. CASE /\ Movable(p, "exe") /\ NoCallFails /\ RenameFile(p, "exe")
           /\ helper' = [b \in Appliers |->
                           IF b = a THEN [at |-> "restart", path |-> "exe"]
                           ELSE [helper[b] EXCEPT !.path = IF helper[b] = Idle THEN @ ELSE MovedTo(@, p, "exe")]]
  <2>1. /\ file' = [file EXCEPT !["exe"] = file[p], ![p] = Absent]
        /\ service' = IF service = p THEN "exe" ELSE service
    BY <1>6 DEF RenameFile, MovedTo
  <2>2. /\ file' \in [Paths -> Builds \cup {Absent, Torn}] /\ service' \in Paths \cup {"none"}
        /\ (service' = "none" <=> runs' = Absent) /\ (service' = "none" <=> scm' = "stopped")
        /\ p \in Backups => file'["exe"] = file[p]
    BY <1>2, <1>3, <2>1, ApplyFacts, HelperFacts
  <2>3. helper'[a] = [at |-> "restart", path |-> "exe"]
    BY <1>6
  <2>4. helper' \in [Appliers -> [at : Helps, path : Paths]]
    <3>1. [at |-> "restart", path |-> "exe"] \in [at : Helps, path : Paths]
      BY <1>1, HelperFacts
    <3>2. ASSUME NEW b \in Appliers, b # a
          PROVE  helper'[b] \in [at : Helps, path : Paths]
      <4>1. helper[b] \in [at : Helps, path : Paths] /\ "exe" \in Paths
        BY HelperFacts
      <4> QED
        BY <1>6, <3>2, <4>1 DEF MovedTo
    <3> QED
      BY <1>6, <2>3, <3>1, <3>2
  <2>5. Lone(helper, a) => Lone(helper', a)
    <3>1. ASSUME NEW b \in Appliers \ {a}, helper[b] = Idle PROVE helper'[b] = Idle
      BY <1>6, <3>1 DEF Idle
    <3> QED
      BY <3>1 DEF Lone
  <2>6. ASSUME Good PROVE HelpAt(a)'
    <3>1. file'["exe"] \in sound' /\ (service' = "failed" => runs' = New) /\ (service' # "none" => adrift')
      BY <1>2, <1>4, <2>1, <2>2, <2>6, HelperFacts
    <3> QED
      BY <2>3, <3>1 DEF HelpAt, Aside, FailedIsNew
  <2>7. "exe" \in Paths
    BY HelperFacts
  <2> QED
    BY <1>1, <1>3, <1>6, <2>2, <2>3, <2>4, <2>5, <2>6, <2>7, HelperStep
<1> QED
  BY <1>5, <1>6 DEF RestoreOld

-----------------------------------------------------------------------------
(* Power, and the theorem. *)

\* The power fails where it does no harm, and the machine starts again.
LEMMA PowerKeeps ==
  ASSUME SwapInv, PowerFails \/ SwapBoot
  PROVE  SwapInv'
<1>1. ASSUME PowerFails PROVE SwapInv'
  <2>1. /\ service' = "none" /\ scm' = "stopped" /\ runs' = Absent /\ adrift' = FALSE
        /\ apply' = [a \in Appliers |-> Idle] /\ helper' = [a \in Appliers |-> Idle]
        /\ severed' = (severed \/ Swapping \/ \E a \in Appliers : helper[a].at \in RollBack)
        /\ UNCHANGED <<sound, file, package, byMsi, faults, overlap>>
    BY <1>1 DEF PowerFails
  <2>2. SwapTypeOK'
    <3>1. apply' \in [Appliers -> [at : Applies, path : Paths]]
          /\ helper' \in [Appliers -> [at : Helps, path : Paths]]
      BY <2>1, FourContents
    <3>2. severed' \in BOOLEAN /\ scm' \in States
      BY <2>1 DEF States
    <3> QED
      BY <2>1, <3>1, <3>2 DEF SwapInv, SwapTypeOK
  <2>3. ASSUME Good' PROVE Sane'
    <3>1. Good /\ ~Swapping /\ \A a \in Appliers : helper[a].at \notin RollBack
      BY <2>1, <2>3 DEF Good
    <3>2. file["exe"] \in sound
      <4>1. CASE Quiet
        BY <4>1 DEF Quiet, Settled
      <4>2. ASSUME NEW a \in Appliers, ApplyAt(a) PROVE file["exe"] \in sound
        BY <3>1, <4>2, ApplyFacts DEF ApplyAt, Swapping
      <4>3. ASSUME NEW a \in Appliers, HelpAt(a) PROVE file["exe"] \in sound
        <5>1. helper[a].at \notin RollBack
          BY <3>1
        <5> QED
          BY <4>3, <5>1, ApplyFacts DEF HelpAt, RollBack
      <4> QED
        BY <3>1, <4>1, <4>2, <4>3 DEF SwapInv, Sane
    <3>3. AllIdle(apply') /\ AllIdle(helper') /\ Quiet'
      BY <2>1, <3>2 DEF AllIdle, Quiet, Settled, FailedIsNew
    <3> QED
      BY <3>3 DEF Sane
  <2> QED
    BY <2>2, <2>3 DEF SwapInv
<1>2. ASSUME SwapBoot PROVE SwapInv'
  <2>1. /\ Busy = {} /\ file["exe"] \in sound /\ service' = "exe" /\ scm' = "running" /\ runs' = file["exe"]
        /\ UNCHANGED <<sound, file, apply, helper, package, byMsi, faults, overlap, severed, adrift>>
    BY <1>2 DEF SwapBoot
  <2>2. runs' \in Builds /\ runs' # Absent /\ service' \in Paths /\ service' # "none" /\ scm' \in States
    <3>1. "exe" \in Paths /\ "exe" # "none" /\ "running" \in States
      BY DEF Paths, States
    <3>2. sound \subseteq Builds /\ Absent \notin Builds
      BY FourContents DEF SwapInv, SwapTypeOK
    <3> QED
      BY <2>1, <3>1, <3>2
  <2>3. SwapTypeOK'
    BY <2>1, <2>2 DEF SwapInv, SwapTypeOK
  <2>4. AllIdle(apply') /\ AllIdle(helper')
    BY <2>1 DEF Busy, AllIdle
  <2>5. Quiet'
    BY <2>1 DEF Quiet, Settled, FailedIsNew
  <2> QED
    BY <2>3, <2>4, <2>5 DEF SwapInv, Sane
<1> QED
  BY <1>1, <1>2

\* A process comes up late, or ends, while nothing depends on it: no apply that was cut
\* short is inside a process that still starts or already stops.
LEMMA ProcessKeeps ==
  ASSUME SwapInv, ServiceUp \/ ServiceEnds
  PROVE  SwapInv'
<1>1. ASSUME ServiceUp PROVE SwapInv'
  <2>1. /\ scm = "startPending" /\ runs \in sound /\ scm' = "running"
        /\ UNCHANGED <<sound, file, service, runs, apply, helper, package, byMsi, faults, overlap>>
        /\ severed' = severed /\ adrift' = adrift
    BY <1>1 DEF ServiceUp
  <2>2. SwapTypeOK'
    <3>1. scm' \in States
      BY <2>1 DEF States
    <3> QED
      BY <2>1, <3>1 DEF SwapInv, SwapTypeOK
  <2>3. ASSUME Good' PROVE Sane'
    <3>1. Good
      BY <2>1, <2>3 DEF Good
    <3>2. CASE AllIdle(apply) /\ AllIdle(helper) /\ Quiet
      BY <2>1, <3>2 DEF Sane, AllIdle, Quiet, Settled, FailedIsNew
    <3>3. ASSUME NEW a \in Appliers, ApplyAt(a) PROVE FALSE
      BY <2>1, <3>3 DEF ApplyAt
    <3>4. ASSUME AllIdle(apply), NEW a \in Appliers, Lone(helper, a), HelpAt(a) PROVE Sane'
      <4>1. HelpAt(a)'
        <5>1. service # "none"
          BY <2>1, ApplyFacts
        <5>2. helper[a].at = "started" => New \in sound
          BY <2>1, <3>4, <5>1 DEF HelpAt
        <5>3. helper[a].at \notin {"connect", "stop"}
          BY <2>1, <3>4 DEF HelpAt
        <5> QED
          BY <2>1, <3>4, <5>2, <5>3 DEF HelpAt, Aside, FailedIsNew
      <4> QED
        BY <2>1, <3>4, <4>1 DEF Sane, AllIdle, Lone
    <3> QED
      BY <3>1, <3>2, <3>3, <3>4 DEF SwapInv, Sane
  <2> QED
    BY <2>2, <2>3 DEF SwapInv
<1>2. ASSUME ServiceEnds PROVE SwapInv'
  <2>1. /\ scm \in {"startPending", "stopPending"}
        /\ service' = "none" /\ scm' = "stopped" /\ runs' = Absent /\ adrift' = FALSE
        /\ apply' = [a \in Appliers |-> Idle] /\ severed' = (severed \/ Swapping)
        /\ scm = "startPending" => runs \notin sound
        /\ UNCHANGED <<sound, file, helper, package, byMsi, faults, overlap>>
    BY <1>2 DEF ServiceEnds, ServiceStops
  <2>2. SwapTypeOK'
    <3>1. apply' \in [Appliers -> [at : Applies, path : Paths]]
      BY <2>1, FourContents
    <3>2. severed' \in BOOLEAN /\ scm' \in States
      BY <2>1 DEF States
    <3> QED
      BY <2>1, <3>1, <3>2 DEF SwapInv, SwapTypeOK
  <2>3. ASSUME Good' PROVE Sane'
    <3>1. Good
      BY <2>1, <2>3 DEF Good
    <3>2. AllIdle(apply')
      BY <2>1 DEF AllIdle
    <3>3. CASE AllIdle(helper) /\ Quiet
      <4>1. AllIdle(helper') /\ Quiet'
        BY <2>1, <3>3 DEF AllIdle, Quiet, Settled, FailedIsNew
      <4> QED
        BY <3>2, <4>1 DEF Sane
    <3>4. ASSUME NEW a \in Appliers, ApplyAt(a) PROVE FALSE
      BY <2>1, <3>4 DEF ApplyAt
    <3>5. ASSUME NEW a \in Appliers, Lone(helper, a), HelpAt(a) PROVE Sane'
      <4>1. HelpAt(a)'
        BY <2>1, <3>5 DEF HelpAt, Aside, FailedIsNew
      <4> QED
        BY <2>1, <3>2, <3>5, <4>1 DEF Sane, Lone
    <3> QED
      BY <3>1, <3>3, <3>4, <3>5 DEF SwapInv, Sane
  <2> QED
    BY <2>2, <2>3 DEF SwapInv
<1> QED
  BY <1>1, <1>2

\* At first nothing is under way.
LEMMA SwapBegins ==
  SwapInit => SwapInv
<1> SUFFICES ASSUME SwapInit PROVE SwapInv
  OBVIOUS
<1>1. SwapTypeOK
  <2>1. apply \in [Appliers -> [at : Applies, path : Paths]]
        /\ helper \in [Appliers -> [at : Helps, path : Paths]]
    BY FourContents DEF SwapInit
  <2>2. file \in [Paths -> Builds \cup {Absent, Torn}] /\ service \in Paths /\ service # "none"
        /\ scm \in States /\ scm # "stopped"
    BY FourContents DEF SwapInit, Paths, States
  <2>3. faults \in 0..MaxFaults
    BY SwapAssumption DEF SwapInit
  <2> QED
    BY <2>1, <2>2, <2>3, FourContents DEF SwapInit, SwapTypeOK
<1>2. AllIdle(apply) /\ AllIdle(helper)
  BY DEF SwapInit, AllIdle
<1>3. Quiet
  BY FourContents DEF SwapInit, Quiet, Settled, FailedIsNew
<1> QED
  BY <1>1, <1>2, <1>3 DEF SwapInv, Sane

(* Every step of an apply, of a helper and of the world keeps what holds of the swap. *)
LEMMA SwapStep == SwapInv /\ [SwapNext]_swapVars => SwapInv'
<1>1. SwapInv /\ UNCHANGED swapVars => SwapInv'
  BY DEF swapVars, SwapInv, SwapTypeOK, Good, Sane, AllIdle, Lone, ApplyAt, HasMoved, HelpAt,
         Quiet, Settled, FailedIsNew, Aside
<1>2. SwapInv /\ SwapNext => SwapInv'
  BY FetchKeeps, MoveKeeps, WriteKeeps, SpawnKeeps, UndoKeeps, PackageKeeps, OpenKeeps, StopKeeps,
     StartKeeps, JudgeKeeps, KeepBadKeeps, RestoreKeeps, PowerKeeps, ProcessKeeps DEF SwapNext
<1> QED
  BY <1>1, <1>2

(* What is on disk, and where the service runs from, is told by how far the one apply or
   helper is, as long as nothing is cut short; a helper that ends early, and a process that
   hangs or stops late, included: the inductive invariant. *)
THEOREM SwapIsSane == SwapSpec => []SwapInv
BY SwapBegins, SwapStep, PTL DEF SwapSpec

(* Applies that nothing cuts short, one after the other, end with an executable that comes
   up in its place, and the service runs from it unless a helper left its process to itself:
   with a release that ends or hangs, and with any one call that fails, the opening of the
   service and the wait for it to run among them (applyUpdate's undo, RunUpdateRestart's
   early returns and roll back). *)
THEOREM AppliesEndSound == SwapSpec => []EndsSound
<1>1. ASSUME SwapInv PROVE EndsSound
  <2> SUFFICES ASSUME Busy = {}, Good PROVE Settled
    BY DEF EndsSound, Good
  <2>1. AllIdle(apply) /\ AllIdle(helper)
    BY DEF Busy, AllIdle
  <2> QED
    BY <1>1, <2>1 DEF SwapInv, Sane, ApplyAt, HelpAt, AllIdle, Idle, Quiet
<1> QED
  BY <1>1, SwapIsSane, PTL

-----------------------------------------------------------------------------
(* LogRotator.  In any order of failures the files stay in their order; while nothing fails
   they are rows of entries, each full but the last. *)

Logs == [Files -> Seq(1..MaxEntries)]

\* In the files f the entries, none later than n, are in order.
OrderedIn(f, n) ==
  /\ \A i \in Files : \A k, l \in DOMAIN f[i] : k < l => f[i][k] < f[i][l]
  /\ \A i, j \in Files : i < j => \A k \in DOMAIN f[j], l \in DOMAIN f[i] : f[j][k] < f[i][l]
  /\ \A i \in Files : \A k \in DOMAIN f[i] : f[i][k] <= n

\* After m rotations, none of which failed.
Rows(m) ==
  /\ written = m * MaxSize + Len(name[0]) /\ Len(name[0]) <= MaxSize
  /\ \A k \in 1..Len(name[0]) : name[0][k] = m * MaxSize + k
  /\ \A i \in Files \ {0} :
       /\ i <= m => /\ Len(name[i]) = MaxSize
                    /\ \A k \in 1..MaxSize : name[i][k] = (m - i) * MaxSize + k
       /\ i > m => name[i] = <<>>

\* The inductive invariant.
LogInv == LogTypeOK /\ OrderedIn(name, written) /\ (~failing => \E m \in Nat : Rows(m))

\* A file's contents are a sequence of entries.
LEMMA LogFiles ==
  ASSUME NEW f \in Logs
  PROVE  /\ 0 \in Files
         /\ \A i \in Files : /\ f[i] \in Seq(1..MaxEntries)
                             /\ Len(f[i]) \in Nat /\ DOMAIN f[i] = 1..Len(f[i])
                             /\ \A k \in DOMAIN f[i] : f[i][k] \in 1..MaxEntries
         /\ \A i \in Files : i \in Nat /\ (i > 0 => i - 1 \in Files) /\ (i # MaxBackups => i + 1 \in Files)
<1>1. ASSUME NEW i \in Files
      PROVE  /\ f[i] \in Seq(1..MaxEntries)
             /\ Len(f[i]) \in Nat /\ DOMAIN f[i] = 1..Len(f[i])
             /\ \A k \in DOMAIN f[i] : f[i][k] \in 1..MaxEntries
  <2>1. f[i] \in Seq(1..MaxEntries)
    BY DEF Logs
  <2>2. Len(f[i]) \in Nat /\ DOMAIN f[i] = 1..Len(f[i])
    BY <2>1
  <2> QED
    BY <2>1, <2>2, ElementOfSeq
<1>2. 0 \in Files
      /\ \A i \in Files : i \in Nat /\ (i > 0 => i - 1 \in Files) /\ (i # MaxBackups => i + 1 \in Files)
  BY LogAssumption DEF Files
<1> QED
  BY <1>1, <1>2

\* A file has, after a rotation, what it had, what the one before it had or nothing, and
\* what a file had is never in two.
LEMMA RotatedFiles ==
  ASSUME LogTypeOK, NEW fails \in SUBSET Files
  PROVE  LET r == Rotated(fails) IN
         /\ r \in Logs
         /\ \A i \in Files : r[i] = <<>> \/ r[i] = name[i] \/ (i > 0 /\ r[i] = name[i - 1])
         /\ \A i \in Files : \/ i = MaxBackups
                             \/ r[i + 1] = <<>> \/ r[i + 1] = name[i + 1]
                             \/ r[i] = <<>> \/ (i > 0 /\ r[i] = name[i - 1])
<1>1. name \in Logs
  BY DEF LogTypeOK, Logs
<1>2. <<>> \in Seq(1..MaxEntries)
  OBVIOUS
<1>3. CASE MaxBackups = 0
  <2>1. Rotated(fails) = [i \in Files |-> <<>>]
    BY <1>3 DEF Rotated
  <2>2. [i \in Files |-> <<>>] \in Logs
    BY <1>2 DEF Logs
  <2>3. \A i \in Files : i = MaxBackups /\ [j \in Files |-> <<>>][i] = <<>>
    BY <1>3 DEF Files
  <2> QED
    BY <2>1, <2>2, <2>3
<1>4. CASE MaxBackups # 0
  <2> DEFINE moves(i) == i \notin fails /\ i < MaxBackups
             r == [i \in Files |->
                     IF i > 0 /\ moves(i - 1) /\ name[i - 1] # <<>> THEN name[i - 1]
                     ELSE IF moves(i) \/ (i = MaxBackups /\ MaxBackups \notin fails) THEN <<>> ELSE name[i]]
  <2>1. Rotated(fails) = r
    BY <1>4 DEF Rotated, Renamed
  <2>2. ASSUME NEW i \in Files
        PROVE  /\ r[i] \in Seq(1..MaxEntries)
               /\ r[i] = <<>> \/ r[i] = name[i] \/ (i > 0 /\ r[i] = name[i - 1])
    BY <1>1, <1>2, LogFiles
  <2>3. ASSUME NEW i \in Files, i # MaxBackups
        PROVE  \/ r[i + 1] = <<>> \/ r[i + 1] = name[i + 1]
               \/ r[i] = <<>> \/ (i > 0 /\ r[i] = name[i - 1])
    <3>1. i \in Nat /\ i + 1 \in Files /\ i + 1 > 0 /\ (i + 1) - 1 = i
      BY <1>1, <2>3, LogFiles
    <3>2. CASE moves(i)
      BY <3>1, <3>2
    <3>3. CASE ~moves(i)
      BY <3>1, <3>3
    <3> QED
      BY <3>2, <3>3
  <2>4. r \in Logs
    BY <2>2 DEF Logs
  <2> QED
    BY <2>1, <2>2, <2>3, <2>4
<1> QED
  BY <1>3, <1>4

\* A rotation, whatever fails in it, keeps the order.
LEMMA RotatedOrdered ==
  ASSUME LogTypeOK, OrderedIn(name, written), NEW fails \in SUBSET Files
  PROVE  Rotated(fails) \in Logs /\ OrderedIn(Rotated(fails), written)
<1> DEFINE r == Rotated(fails)
<1>1. /\ r \in Logs
      /\ \A i \in Files : r[i] = <<>> \/ r[i] = name[i] \/ (i > 0 /\ r[i] = name[i - 1])
      /\ \A i \in Files : \/ i = MaxBackups
                          \/ r[i + 1] = <<>> \/ r[i + 1] = name[i + 1]
                          \/ r[i] = <<>> \/ (i > 0 /\ r[i] = name[i - 1])
  BY RotatedFiles
<1>2. name \in Logs
  BY DEF LogTypeOK, Logs
<1> HIDE DEF r
<1>3. DOMAIN <<>> = {}
  OBVIOUS
<1>4. ASSUME NEW i \in Files
      PROVE  /\ \A k, l \in DOMAIN r[i] : k < l => r[i][k] < r[i][l]
             /\ \A k \in DOMAIN r[i] : r[i][k] <= written
  BY <1>1, <1>2, <1>3, LogFiles DEF OrderedIn
<1>5. ASSUME NEW i \in Files, NEW j \in Files, i < j, NEW k \in DOMAIN r[j], NEW l \in DOMAIN r[i]
      PROVE  r[j][k] < r[i][l]
  <2>1. i \in Nat /\ j \in Nat /\ i # MaxBackups /\ (i > 0 => i - 1 \in Files) /\ j - 1 \in Files
    BY <1>2, <1>5, LogFiles, LogAssumption DEF Files
  <2>2. PICK a \in {i, i - 1}, b \in {j, j - 1} :
          a \in Files /\ b \in Files /\ a < b /\ r[i] = name[a] /\ r[j] = name[b]
    <3>1. r[i] # <<>> /\ r[j] # <<>>
      BY <1>3, <1>5
    <3>2. CASE j = i + 1
      BY <1>1, <1>5, <2>1, <3>1, <3>2
    <3>3. CASE j # i + 1
      BY <1>1, <1>5, <2>1, <3>1, <3>3
    <3> QED
      BY <3>2, <3>3
  <2> QED
    BY <1>5, <2>2 DEF OrderedIn
<1> QED
  BY <1>1, <1>4, <1>5 DEF OrderedIn, r

\* The next entry comes last.
LEMMA AppendOrdered ==
  ASSUME NEW f \in Logs, NEW n \in Nat, n + 1 \in 1..MaxEntries, OrderedIn(f, n)
  PROVE  LET g == [f EXCEPT ![0] = Append(@, n + 1)] IN g \in Logs /\ OrderedIn(g, n + 1)
<1> DEFINE g == [f EXCEPT ![0] = Append(@, n + 1)]
<1>1. /\ 0 \in Files /\ f[0] \in Seq(1..MaxEntries) /\ Len(f[0]) \in Nat
      /\ \A i \in Files : /\ i \in Nat /\ DOMAIN f[i] = 1..Len(f[i]) /\ Len(f[i]) \in Nat
                          /\ \A k \in DOMAIN f[i] : f[i][k] \in Nat
  BY LogFiles
<1>2. /\ g[0] = Append(f[0], n + 1) /\ \A i \in Files \ {0} : g[i] = f[i]
      /\ g[0] \in Seq(1..MaxEntries) /\ DOMAIN g[0] = 1..(Len(f[0]) + 1)
      /\ g[0][Len(f[0]) + 1] = n + 1 /\ \A k \in 1..Len(f[0]) : g[0][k] = f[0][k]
  BY <1>1, AppendProperties DEF Logs
<1>3. g \in Logs
  BY <1>2 DEF Logs
<1> HIDE DEF g
<1>4. ASSUME NEW i \in Files
      PROVE  /\ \A k, l \in DOMAIN g[i] : k < l => g[i][k] < g[i][l]
             /\ \A k \in DOMAIN g[i] : g[i][k] <= n + 1
  <2>1. CASE i # 0
    BY <1>1, <1>2, <2>1 DEF OrderedIn
  <2>2. CASE i = 0
    <3>1. /\ \A k, l \in 1..Len(f[0]) : k < l => f[0][k] < f[0][l]
          /\ \A k \in 1..Len(f[0]) : f[0][k] \in Nat /\ f[0][k] < n + 1
      BY <1>1 DEF OrderedIn
    <3>2. \A k \in DOMAIN g[0] : k \in Nat /\ (k \in 1..Len(f[0]) \/ k = Len(f[0]) + 1)
      BY <1>1, <1>2
    <3>3. ASSUME NEW k \in DOMAIN g[0], NEW l \in DOMAIN g[0], k < l PROVE g[0][k] < g[0][l]
      <4>1. k \in 1..Len(f[0])
        BY <1>1, <1>2, <3>3
      <4> QED
        BY <1>2, <3>1, <3>2, <3>3, <4>1
    <3>4. ASSUME NEW k \in DOMAIN g[0] PROVE g[0][k] <= n + 1
      BY <1>2, <3>1, <3>2
    <3> QED
      BY <2>2, <3>3, <3>4
  <2> QED
    BY <2>1, <2>2
<1>5. ASSUME NEW i \in Files, NEW j \in Files, i < j, NEW k \in DOMAIN g[j], NEW l \in DOMAIN g[i]
      PROVE  g[j][k] < g[i][l]
  <2>1. j # 0 /\ g[j] = f[j] /\ f[j][k] \in Nat /\ f[j][k] < n + 1
    BY <1>1, <1>2, <1>5 DEF OrderedIn
  <2>2. CASE i # 0
    BY <1>2, <1>5, <2>1, <2>2 DEF OrderedIn
  <2>3. CASE i = 0 /\ l = Len(f[0]) + 1
    BY <1>2, <2>1, <2>3
  <2>4. CASE i = 0 /\ l # Len(f[0]) + 1
    <3>1. l \in 1..Len(f[0]) /\ g[0][l] = f[0][l]
      BY <1>1, <1>2, <1>5, <2>4
    <3> QED
      BY <1>1, <1>5, <2>1, <2>4, <3>1 DEF OrderedIn
  <2> QED
    BY <2>2, <2>3, <2>4
<1> QED
  BY <1>3, <1>4, <1>5 DEF OrderedIn, g

\* Rows are of one size: more of them hold more, and every entry is in one.
LEMMA RowSizes ==
  /\ \A a, b \in Int : a <= b => a * MaxSize <= b * MaxSize
  /\ \A a, b \in Int : (a + b) * MaxSize = a * MaxSize + b * MaxSize
  /\ \A e \in Nat : \E q \in Nat : q * MaxSize <= e /\ e < q * MaxSize + MaxSize
<1>1. MaxSize \in Nat /\ MaxSize > 0
  BY LogAssumption
<1>2. ASSUME NEW a \in Int, NEW b \in Int, a <= b PROVE a * MaxSize <= b * MaxSize
  BY <1>1, <1>2
<1>3. ASSUME NEW a \in Int, NEW b \in Int PROVE (a + b) * MaxSize = a * MaxSize + b * MaxSize
  BY <1>1
<1>4. ASSUME NEW e \in Nat PROVE \E q \in Nat : q * MaxSize <= e /\ e < q * MaxSize + MaxSize
  <2>1. /\ e \div MaxSize \in Nat
        /\ (e \div MaxSize) * MaxSize <= e /\ e < (e \div MaxSize) * MaxSize + MaxSize
    BY <1>1
  <2> QED
    BY <2>1
<1> QED
  BY <1>2, <1>3, <1>4

\* An entry is written while nothing fails.
LEMMA RowsGrow ==
  ASSUME LogTypeOK, WriteEntry, ~failing', NEW m \in Nat, Rows(m)
  PROVE  \E n \in Nat : Rows(n)'
<1> DEFINE full == sink /\ Len(name[0]) + 1 > MaxSize /\ name[0] # <<>>
           kept == IF full THEN Rotated({}) ELSE name
<1>1. written' = written + 1 /\ name' = [kept EXCEPT ![0] = Append(@, written')]
  BY DEF WriteEntry
<1>2. name \in Logs /\ written \in Nat /\ MaxSize \in Nat /\ MaxSize > 0
  BY LogAssumption DEF LogTypeOK, Logs
<1>3. /\ 0 \in Files /\ name[0] \in Seq(1..MaxEntries) /\ Len(name[0]) \in Nat
      /\ \A i \in Files : i \in Nat /\ (i > 0 => i - 1 \in Files)
  BY <1>2, LogFiles
<1>4. /\ written = m * MaxSize + Len(name[0]) /\ Len(name[0]) <= MaxSize
      /\ \A k \in 1..Len(name[0]) : name[0][k] = m * MaxSize + k
      /\ \A i \in Files \ {0} :
           /\ i <= m => /\ Len(name[i]) = MaxSize
                        /\ \A k \in 1..MaxSize : name[i][k] = (m - i) * MaxSize + k
           /\ i > m => name[i] = <<>>
  BY DEF Rows
<1>5. written' \in 1..MaxEntries
  BY <1>1, <1>2, LogAssumption DEF WriteEntry, LogTypeOK
<1>6. CASE ~(Len(name[0]) + 1 > MaxSize /\ name[0] # <<>>)
  <2>1. name' = [name EXCEPT ![0] = Append(@, written')]
    BY <1>1, <1>6
  <2>2. /\ name'[0] = Append(name[0], written') /\ \A i \in Files \ {0} : name'[i] = name[i]
        /\ Len(name'[0]) = Len(name[0]) + 1 /\ name'[0][Len(name[0]) + 1] = written'
        /\ \A k \in 1..Len(name[0]) : name'[0][k] = name[0][k]
    BY <1>2, <1>3, <1>5, <2>1, AppendProperties DEF Logs
  <2>3. Len(name[0]) + 1 <= MaxSize
    BY <1>2, <1>3, <1>6
  <2>4. PICK base \in Nat : base = m * MaxSize
    BY <1>2
  <2>5. written = base + Len(name[0]) /\ \A k \in 1..Len(name[0]) : name[0][k] = base + k
    BY <1>4, <2>4
  <2>6. written' = base + Len(name'[0])
    <3>1. Len(name'[0]) = Len(name[0]) + 1
      BY <2>2
    <3>2. written' = written + 1 /\ written = base + Len(name[0])
      BY <1>1, <2>5
    <3>3. base \in Nat /\ Len(name[0]) \in Nat
      BY <1>3, <2>4
    <3> QED
      BY <3>1, <3>2, <3>3
  <2>7. ASSUME NEW k \in 1..Len(name'[0]) PROVE name'[0][k] = base + k
    <3>1. CASE k \in 1..Len(name[0])
      BY <2>2, <2>5, <3>1
    <3>2. CASE k = Len(name[0]) + 1
      BY <1>3, <2>2, <2>6, <3>2
    <3> QED
      BY <1>3, <2>2, <3>1, <3>2
  <2>8. \A i \in Files \ {0} :
           /\ i <= m => /\ Len(name'[i]) = MaxSize
                        /\ \A k \in 1..MaxSize : name'[i][k] = (m - i) * MaxSize + k
           /\ i > m => name'[i] = <<>>
    BY <1>4, <2>2
  <2>9. Len(name'[0]) <= MaxSize
    BY <2>2, <2>3
  <2>10. Rows(m)'
    BY <2>4, <2>6, <2>7, <2>8, <2>9 DEF Rows
  <2> QED
    BY <2>10
<1>7. CASE Len(name[0]) + 1 > MaxSize /\ name[0] # <<>>
  <2>1. Len(name[0]) = MaxSize
    BY <1>2, <1>3, <1>4, <1>7
  <2>2. sink
    BY DEF WriteEntry
  <2>3. name' = [Rotated({}) EXCEPT ![0] = Append(@, written')]
    <3>1. full
      BY <1>7, <2>2
    <3>2. kept = Rotated({})
      BY <3>1
    <3> QED
      BY <1>1, <3>2
  <2>4. Rotated({})[0] = <<>> /\ \A i \in Files \ {0} : Rotated({})[i] = name[i - 1]
    <3>1. CASE MaxBackups = 0
      BY <3>1 DEF Rotated, Files
    <3>2. CASE MaxBackups # 0
      BY <3>2, <1>3, LogAssumption DEF Rotated, Renamed, Files
    <3> QED
      BY <3>1, <3>2
  <2>5. Rotated({}) \in Logs
    BY RotatedFiles
  <2>6. /\ name'[0] = Append(<<>>, written') /\ \A i \in Files \ {0} : name'[i] = name[i - 1]
    BY <1>3, <2>3, <2>4, <2>5 DEF Logs
  <2>7. Len(name'[0]) = 1 /\ name'[0][1] = written'
    BY <1>5, <2>6
  <2>8. /\ m * MaxSize \in Nat /\ (m + 1) * MaxSize = m * MaxSize + MaxSize
        /\ \A i \in Int : (m + 1) - (i + 1) = m - i
    BY <1>2, RowSizes
  <2>9. written' = (m + 1) * MaxSize + 1
    BY <1>1, <1>2, <1>4, <2>1, <2>8
  <2>10. ASSUME NEW i \in Files \ {0}
         PROVE  /\ i <= m + 1 => /\ Len(name'[i]) = MaxSize
                                 /\ \A k \in 1..MaxSize : name'[i][k] = ((m + 1) - i) * MaxSize + k
                /\ i > m + 1 => name'[i] = <<>>
    <3> DEFINE j == i - 1
    <3>1. j \in Files /\ j \in Nat /\ i \in Nat /\ name'[i] = name[j] /\ (m + 1) - i = m - j
      BY <1>3, <2>6
    <3> HIDE DEF j
    <3>2. CASE j = 0
      BY <1>4, <2>1, <3>1, <3>2
    <3>3. CASE j # 0
      <4>1. /\ j <= m => /\ Len(name[j]) = MaxSize
                         /\ \A k \in 1..MaxSize : name[j][k] = (m - j) * MaxSize + k
            /\ j > m => name[j] = <<>>
        BY <1>4, <3>1, <3>3
      <4>2. (i <= m + 1 => j <= m) /\ (i > m + 1 => j > m)
        BY <3>1 DEF j
      <4> QED
        BY <3>1, <4>1, <4>2
    <3> QED
      BY <3>2, <3>3
  <2>11. m + 1 \in Nat /\ Rows(m + 1)'
    BY <1>2, <2>7, <2>9, <2>10 DEF Rows
  <2> QED
    BY <2>11
<1> QED
  BY <1>6, <1>7

\* Every step keeps the invariant.
LEMMA LogStep ==
  ASSUME LogInv, [LogNext]_logVars
  PROVE  LogInv'
<1> USE DEF LogInv
<1>1. name \in Logs /\ written \in Nat
  BY DEF LogTypeOK, Logs
<1>2. CASE WriteEntry
  <2>1. PICK fails \in SUBSET Files, opens \in BOOLEAN :
          LET full == sink /\ Len(name[0]) + 1 > MaxSize /\ name[0] # <<>>
              kept == IF full THEN Rotated(fails) ELSE name IN
          /\ failing' = (failing \/ ~sink \/ fails # {} \/ ~opens)
          /\ sink' = (sink /\ opens)
          /\ name' = IF sink' THEN [kept EXCEPT ![0] = Append(@, written')]
                     ELSE IF full /\ MaxBackups = 0 THEN name ELSE kept
    BY <1>2 DEF WriteEntry
  <2>2. written' = written + 1 /\ written + 1 \in 1..MaxEntries
    BY <1>1, <1>2, LogAssumption DEF WriteEntry, LogTypeOK
  <2>3. PICK f \in {name, Rotated(fails)} :
          name' = f \/ name' = [f EXCEPT ![0] = Append(@, written')]
    BY <2>1
  <2>4. f \in Logs /\ OrderedIn(f, written)
    BY <1>1, <2>3, RotatedOrdered
  <2>5. name' \in Logs /\ OrderedIn(name', written')
    <3>1. CASE name' = f
      <4>1. ASSUME NEW i \in Files, NEW k \in DOMAIN f[i] PROVE f[i][k] <= written + 1
        BY <1>1, <2>4, LogFiles DEF OrderedIn
      <4> QED
        BY <2>2, <2>4, <3>1, <4>1 DEF OrderedIn
    <3>2. CASE name' = [f EXCEPT ![0] = Append(@, written')]
      BY <1>1, <2>2, <2>4, <3>2, AppendOrdered
    <3> QED
      BY <2>3, <3>1, <3>2
  <2>6. LogTypeOK'
    <3>1. sink' \in BOOLEAN /\ failing' \in BOOLEAN
      BY <2>1
    <3>2. written' \in 0..MaxEntries
      BY <2>2
    <3> QED
      BY <2>5, <3>1, <3>2 DEF LogTypeOK, Logs
  <2>7. ASSUME ~failing' PROVE \E m \in Nat : Rows(m)'
    <3>1. ~failing
      BY <2>1, <2>7
    <3> QED
      BY <1>2, <2>7, <3>1, RowsGrow
  <2> QED
    BY <2>5, <2>6, <2>7
<1>3. CASE CloseLog \/ Reopen \/ UNCHANGED logVars
  <2>1. UNCHANGED <<name, written, failing>> /\ sink' \in BOOLEAN
    BY <1>3 DEF CloseLog, Reopen, logVars, LogTypeOK
  <2> QED
    BY <2>1 DEF LogTypeOK, OrderedIn, Rows
<1> QED
  BY <1>2, <1>3 DEF LogNext

(* The log begins with empty files, in no row yet (newRotatingWriter). *)
LEMMA LogStart == LogInit => LogInv
<1> SUFFICES ASSUME LogInit PROVE LogInv
  OBVIOUS
<1>1. 0 \in Files /\ \A i \in Files : name[i] = <<>> /\ DOMAIN name[i] = {}
  BY LogAssumption DEF LogInit, Files
<1>2. LogTypeOK
  <2>1. name \in [Files -> Seq(1..MaxEntries)]
    BY DEF LogInit
  <2>2. written = 0 /\ sink = TRUE /\ failing = FALSE
    BY DEF LogInit
  <2>3. written \in 0..MaxEntries
    BY <2>2, LogAssumption
  <2> QED
    BY <2>1, <2>2, <2>3 DEF LogTypeOK
<1>3. OrderedIn(name, written)
  BY <1>1 DEF OrderedIn
<1>4. Rows(0)
  <2>1. written = 0 /\ Len(name[0]) = 0 /\ 0 * MaxSize = 0 /\ MaxSize >= 0
    BY <1>1, LogAssumption DEF LogInit
  <2>2. \A i \in Files \ {0} : i > 0 /\ ~(i <= 0)
    BY LogAssumption DEF Files
  <2>3. written = 0 * MaxSize + Len(name[0]) /\ 1..Len(name[0]) = {}
    BY <2>1
  <2> QED
    BY <1>1, <2>1, <2>2, <2>3 DEF Rows
<1> QED
  BY <1>2, <1>3, <1>4 DEF LogInv

(* The log's files are in the order of their entries, whatever fails, and rows of one size
   while nothing does: the inductive invariant. *)
THEOREM LogIsInRows == LogSpec => []LogInv
BY LogStart, LogStep, PTL DEF LogSpec

(* Whatever fails, the log reads in the order in which it was written, and while nothing
   fails none of its last entries is missing (rotate). *)
THEOREM LogStaysInOrder == LogSpec => []LogKeepsOrder
<1>1. ASSUME LogInv PROVE LogKeepsOrder
  <2>1. name \in Logs /\ written \in Nat /\ OrderedIn(name, written)
    BY <1>1 DEF LogInv, LogTypeOK, Logs
  <2>2. /\ 0 \in Files
        /\ \A i \in Files : /\ Len(name[i]) \in Nat /\ DOMAIN name[i] = 1..Len(name[i])
                            /\ i \in Nat
    BY <2>1, LogFiles
  <2>3. ASSUME ~failing
        PROVE  \E first \in 1..(written + 1) :
                 /\ Kept = first..written
                 /\ first = 1 \/ written - first + 1 >= MaxBackups * MaxSize
    <3>1. PICK m \in Nat : Rows(m)
      BY <1>1, <2>3 DEF LogInv
    <3> DEFINE first == IF m > MaxBackups THEN (m - MaxBackups) * MaxSize + 1 ELSE 1
    <3>2. /\ MaxSize \in Nat /\ MaxSize > 0 /\ MaxBackups \in Nat /\ Len(name[0]) \in Nat
          /\ m * MaxSize \in Nat /\ (m - MaxBackups) * MaxSize \in Int
      BY <2>2, LogAssumption
    <3>3. (m - MaxBackups) * MaxSize + MaxBackups * MaxSize = m * MaxSize
          /\ MaxBackups * MaxSize \in Nat
      BY <3>2
    <3>4. m > MaxBackups => (m - MaxBackups) * MaxSize >= 0
      BY <3>2, RowSizes
    <3>5. written = m * MaxSize + Len(name[0])
      BY <3>1 DEF Rows
    <3>6. first \in 1..(written + 1) /\ (first = 1 \/ written - first + 1 >= MaxBackups * MaxSize)
      <4>1. PICK low \in Int, all \in Nat, some \in Nat :
              low = (m - MaxBackups) * MaxSize /\ all = m * MaxSize /\ some = MaxBackups * MaxSize
        BY <3>2, <3>3
      <4>2. low + some = all /\ (m > MaxBackups => low >= 0) /\ written = all + Len(name[0])
        BY <3>3, <3>4, <3>5, <4>1
      <4>3. first = IF m > MaxBackups THEN low + 1 ELSE 1
        BY <4>1
      <4> HIDE DEF first
      <4>4. first \in 1..(written + 1) /\ (first = 1 \/ written - first + 1 >= some)
        BY <2>1, <3>2, <4>2, <4>3
      <4> QED
        BY <4>1, <4>4
    <3>10. first = IF m > MaxBackups THEN (m - MaxBackups) * MaxSize + 1 ELSE 1
      OBVIOUS
    <3> HIDE DEF first
    <3>7. ASSUME NEW e \in Kept PROVE e \in first..written
      <4>1. PICK i \in Files : \E k \in DOMAIN name[i] : e = name[i][k]
        BY DEF Kept, EntriesIn
      <4>2. PICK k \in DOMAIN name[i] : e = name[i][k]
        BY <4>1
      <4>3. k \in 1..Len(name[i]) /\ i \in Nat
        BY <2>2
      <4>4. CASE i = 0
        <5>1. e = m * MaxSize + k /\ k >= 1 /\ k <= Len(name[0]) /\ k \in Nat
          BY <3>1, <3>2, <4>2, <4>3, <4>4 DEF Rows
        <5>2. m > MaxBackups => (m - MaxBackups) * MaxSize <= m * MaxSize
          BY <3>2, RowSizes
        <5>3. PICK low \in Int, all \in Nat : low = (m - MaxBackups) * MaxSize /\ all = m * MaxSize
          BY <3>2
        <5>4. first = (IF m > MaxBackups THEN low + 1 ELSE 1) /\ e = all + k
              /\ written = all + Len(name[0]) /\ (m > MaxBackups => low <= all)
          BY <3>5, <3>10, <5>1, <5>2, <5>3
        <5>5. m > MaxBackups => low >= 0
          BY <3>4, <5>3
        <5> QED
          BY <2>1, <3>2, <5>1, <5>4, <5>5
      <4>5. CASE i # 0
        <5>1. i <= m /\ k \in 1..MaxSize /\ e = (m - i) * MaxSize + k
          BY <2>2, <3>1, <4>2, <4>3, <4>5 DEF Rows
        <5>2. i <= MaxBackups /\ i >= 1
          BY <3>2, <4>5 DEF Files
        <5>3. /\ (m - i) * MaxSize >= 0 /\ (m - i) * MaxSize + MaxSize <= m * MaxSize
              /\ m > MaxBackups => (m - MaxBackups) * MaxSize <= (m - i) * MaxSize
          <6>1. PICK d \in Nat, l \in Int : d = m - i /\ l = m - MaxBackups
            BY <3>2, <4>3, <5>1, <5>2
          <6>2. d + 1 \in Int /\ d + 1 <= m /\ l <= d
            BY <3>2, <4>3, <5>2, <6>1
          <6>3. (d + 1) * MaxSize <= m * MaxSize /\ l * MaxSize <= d * MaxSize
            BY <6>2, RowSizes
          <6>4. (d + 1) * MaxSize = d * MaxSize + MaxSize /\ d * MaxSize >= 0
            BY <3>2
          <6> QED
            BY <6>1, <6>3, <6>4
        <5>4. PICK low \in Int, all \in Nat, at \in Int :
                low = (m - MaxBackups) * MaxSize /\ all = m * MaxSize /\ at = (m - i) * MaxSize
          BY <3>2, <4>3
        <5>5. /\ first = (IF m > MaxBackups THEN low + 1 ELSE 1) /\ e = at + k
              /\ written = all + Len(name[0])
              /\ at >= 0 /\ at + MaxSize <= all /\ (m > MaxBackups => low <= at)
          BY <3>5, <3>10, <5>1, <5>3, <5>4
        <5>6. m > MaxBackups => low >= 0
          BY <3>4, <5>4
        <5> QED
          BY <2>1, <3>2, <5>1, <5>5, <5>6
      <4> QED
        BY <4>4, <4>5
    <3>8. ASSUME NEW e \in first..written PROVE e \in Kept
      <4>1. e \in Nat /\ e >= 1 /\ e <= written /\ (m > MaxBackups => e >= (m - MaxBackups) * MaxSize + 1)
        BY <2>1, <3>2, <3>6, <3>10
      <4>2. CASE e > m * MaxSize
        <5>1. e - m * MaxSize \in 1..Len(name[0])
          <6>1. PICK all \in Nat : all = m * MaxSize
            BY <3>2
          <6>2. written = all + Len(name[0]) /\ e > all
            BY <3>5, <4>2, <6>1
          <6>3. e \in Nat /\ e <= written /\ Len(name[0]) \in Nat
            BY <2>2, <4>1
          <6>4. e - all \in 1..Len(name[0])
            BY <6>2, <6>3
          <6> QED
            BY <6>1, <6>4
        <5>2. name[0][e - m * MaxSize] = e
          <6>1. name[0][e - m * MaxSize] = m * MaxSize + (e - m * MaxSize)
            BY <3>1, <5>1 DEF Rows
          <6> QED
            BY <3>2, <4>1, <6>1
        <5> QED
          BY <2>2, <5>1, <5>2 DEF Kept, EntriesIn
      <4>3. CASE e <= m * MaxSize
        <5>1. PICK q \in Nat : q * MaxSize <= e - 1 /\ e - 1 < q * MaxSize + MaxSize
          <6>1. PICK d \in Nat : d = e - 1
            BY <4>1
          <6> QED
            BY <6>1, RowSizes
        <5> DEFINE i == m - q
                   k == e - q * MaxSize
        <5>2. q < m
          <6>1. q * MaxSize \in Nat /\ (q >= m => m * MaxSize <= q * MaxSize)
            BY <3>2, RowSizes
          <6> QED
            BY <3>2, <4>1, <4>3, <5>1, <6>1
        <5>3. i <= MaxBackups
          <6>1. SUFFICES ASSUME q + 1 <= m - MaxBackups PROVE FALSE
            BY <3>2, <5>2
          <6>2. (q + 1) * MaxSize <= (m - MaxBackups) * MaxSize /\ m > MaxBackups
            BY <3>2, <6>1, RowSizes
          <6>3. (q + 1) * MaxSize = q * MaxSize + MaxSize /\ q * MaxSize \in Nat
            BY <3>2
          <6> QED
            BY <3>2, <4>1, <5>1, <6>2, <6>3
        <5>4. i \in Files \ {0} /\ i <= m /\ m - i = q
          BY <3>2, <5>2, <5>3 DEF Files
        <5>5. k \in 1..MaxSize /\ q * MaxSize + k = e
          <6>1. q * MaxSize \in Nat
            BY <3>2
          <6> QED
            BY <3>2, <4>1, <5>1, <6>1
        <5> HIDE DEF i, k
        <5>6. Len(name[i]) = MaxSize /\ name[i][k] = (m - i) * MaxSize + k
          BY <3>1, <5>4, <5>5 DEF Rows
        <5>7. k \in DOMAIN name[i] /\ name[i][k] = e
          BY <2>2, <5>4, <5>5, <5>6
        <5> QED
          BY <5>4, <5>7 DEF Kept, EntriesIn
      <4> QED
        BY <3>2, <4>1, <4>2, <4>3
    <3>9. Kept = first..written
      BY <3>7, <3>8
    <3> QED
      BY <3>6, <3>9
  <2>4. \A i \in Files : \A k, l \in DOMAIN name[i] : k < l => name[i][k] < name[i][l]
    BY <2>1 DEF OrderedIn
  <2>5. \A i, j \in Files : i < j => \A e \in EntriesIn(j), f \in EntriesIn(i) : e < f
    BY <2>1 DEF OrderedIn, EntriesIn
  <2> QED
    BY <2>3, <2>4, <2>5 DEF LogKeepsOrder
<1> QED
  BY <1>1, LogIsInRows, PTL

-----------------------------------------------------------------------------
(* ControlPipe.  Rebind takes the listener away and puts another in its place; what it may
   fall back on, and what Serve still holds, decides whether the pipe outlives it. *)

\* While Rebind is under way no listener is published, and there is a binding to go
\* back to.
Rebinding == rpc \in {"close", "listen", "restore"} => ln = None /\ prev # Unset

\* The listener Rebind may fall back on is open and serves the previous list.
Fallback ==
  /\ stuck => rpc = "listen"
  /\ stuck \/ (rpc = "close" /\ old # None) => old \in open /\ grants[old] = prev

\* Once Run has bound the pipe there is a binding on record.
OnRecord ==
  /\ rpc \notin {"start", "aborted"} => sddl # Unset
  /\ rpc = "started" /\ ~stopping => ln # None

\* Serve accepts on a listener; one that failed it after being closed stays closed.
ServeHolds ==
  /\ spc \in {"accept", "failed"} => on \in Listeners
  /\ spc = "failed" => on \notin open \/ flaked

PipeInv ==
  /\ TypeOK /\ Rebinding /\ Fallback /\ OnRecord /\ ServeHolds
  /\ ServeSurvives /\ BindingIsTrue /\ StaysReachable

-----------------------------------------------------------------------------
\* The initial state, before the pipe is bound (ipc.NewServer, server.go:38-41).
LEMMA PipeBegins == Init => PipeInv
<1>1. Init => TypeOK
  <2>1. Nobody \in Seat
    BY DEF Seat
  <2>2. [l \in Listeners |-> Nobody] \in [Listeners -> Seat]
    BY <2>1
  <2>3. 0 \in 0..2
    OBVIOUS
  <2> QED
    BY <2>1, <2>2, <2>3, Zenon DEF Init, TypeOK
<1>2. Init => Rebinding /\ Fallback /\ OnRecord /\ ServeHolds
  BY DEF Init, Rebinding, Fallback, OnRecord, ServeHolds
<1>3. Init => ServeSurvives /\ BindingIsTrue /\ StaysReachable
  BY DEF Init, ServeSurvives, BindingIsTrue, StaysReachable
<1> QED
  BY <1>1, <1>2, <1>3 DEF PipeInv

\* A new listener is published with its own access list, and is none of those the
\* code still refers to (server.go:84-86, 109-113).
LEMMA Listened ==
  ASSUME PipeInv, NEW u \in Seat, ListenFor(u)
  PROVE  /\ ln' \in Listeners \ {ln, old, on} /\ ln' # None
         /\ open' = {ln'} /\ sddl' = u
         /\ grants' \in [Listeners -> Seat] /\ grants'[ln'] = u
         /\ u # Unset
<1>1. PICK l \in Listeners \ {ln, old, on} :
        open' = {l} /\ grants' = [grants EXCEPT ![l] = u] /\ ln' = l
  BY DEF ListenFor
<1>2. grants \in [Listeners -> Seat]
  BY DEF PipeInv, TypeOK
<1>3. grants' \in [Listeners -> Seat] /\ grants'[l] = u
  BY <1>1, <1>2
<1> QED
  BY <1>1, <1>3, PipeAssumption DEF ListenFor, Seat

\* Every step keeps the invariant.
LEMMA PipeStep == PipeInv /\ [Next]_vars => PipeInv'
<1> SUFFICES ASSUME PipeInv, [Next]_vars PROVE PipeInv'
  OBVIOUS
<1> USE PipeAssumption
<1> Nobody \in Seat /\ Unset \notin Seat
  BY DEF Seat
<1>1. CASE FirstBind
  <2>1. CASE rpc = "start" /\ ListenFor(user) /\ rpc' = "started"
    <3>1. user \in Seat
      BY DEF PipeInv, TypeOK
    <3>2. /\ ln' \in Listeners \ {ln, old, on} /\ ln' # None
          /\ open' = {ln'} /\ sddl' = user
          /\ grants' \in [Listeners -> Seat] /\ grants'[ln'] = user
          /\ user # Unset
      BY <2>1, <3>1, Listened
    <3> QED
      BY <1>1, <2>1, <3>1, <3>2
      DEF FirstBind, PipeInv, TypeOK, Rebinding, Fallback, OnRecord, ServeHolds,
          ServeSurvives, BindingIsTrue, StaysReachable, loopVars, serveVars, stopVars,
          histVars
  <2>2. CASE rpc = "start" /\ UNCHANGED <<pipeVars, bindVars>> /\ rpc' = "aborted"
    BY <1>1, <2>2
    DEF FirstBind, PipeInv, TypeOK, Rebinding, Fallback, OnRecord, ServeHolds,
        ServeSurvives, BindingIsTrue, StaysReachable, pipeVars, bindVars, loopVars,
        serveVars, stopVars, histVars
  <2> QED
    BY <1>1, <2>1, <2>2 DEF FirstBind
<1>2. CASE StartSupervising
  BY <1>2
  DEF StartSupervising, PipeInv, TypeOK, Rebinding, Fallback, OnRecord, ServeHolds,
      ServeSurvives, BindingIsTrue, StaysReachable, pipeVars, bindVars, serveVars,
      stopVars
<1>3. CASE Poll
  <2>1. TypeOK'
    <3>1. /\ user' = user /\ open' = open /\ grants' = grants /\ sddl' = sddl /\ bound' = bound
          /\ spc' = spc /\ on' = on /\ stopping' = stopping /\ closes' = closes
          /\ raced' = raced /\ lost' = lost /\ flaked' = flaked
      BY <1>3 DEF Poll, pipeVars, serveVars, stopVars, histVars
    <3>2. /\ rpc' \in {"ended", "close"} /\ sid' \in {sid, user} /\ old' \in {old, ln}
          /\ ln' \in {ln, None} /\ prev' \in {prev, sddl} /\ stuck' \in BOOLEAN
      BY <1>3 DEF Poll, Take, PipeInv, TypeOK
    <3> QED
      BY <3>1, <3>2 DEF PipeInv, TypeOK
  <2>2. Rebinding' /\ Fallback' /\ OnRecord'
    BY <1>3 DEF Poll, Take, pipeVars, serveVars, stopVars, histVars, PipeInv, TypeOK, Rebinding, Fallback, OnRecord, BindingIsTrue
  <2>3. ServeHolds' /\ ServeSurvives' /\ BindingIsTrue' /\ StaysReachable'
    BY <1>3
    DEF Poll, Take, pipeVars, serveVars, stopVars, histVars, PipeInv, TypeOK, Rebinding, OnRecord,
        ServeHolds, ServeSurvives, BindingIsTrue, StaysReachable
  <2> QED
    BY <2>1, <2>2, <2>3 DEF PipeInv
<1>4. CASE CloseOld
  <2>1. TypeOK'
    <3>1. /\ user' = user /\ grants' = grants /\ ln' = ln /\ sddl' = sddl /\ bound' = bound
          /\ sid' = sid /\ old' = old /\ prev' = prev
          /\ spc' = spc /\ on' = on /\ stopping' = stopping /\ closes' = closes
          /\ raced' = raced /\ lost' = lost /\ flaked' = flaked
      BY <1>4 DEF CloseOld, Ended, pipeVars, bindVars, serveVars, stopVars, histVars
    <3>2. rpc' = "listen" /\ open' \subseteq open /\ stuck' \in BOOLEAN
      BY <1>4 DEF CloseOld, Ended, pipeVars, PipeInv, TypeOK
    <3> QED
      BY <3>1, <3>2 DEF PipeInv, TypeOK
  <2>2. Rebinding' /\ Fallback' /\ OnRecord'
    BY <1>4 DEF CloseOld, Ended, pipeVars, bindVars, serveVars, stopVars,
        histVars, PipeInv, TypeOK, Rebinding, Fallback, OnRecord, BindingIsTrue
  <2>3. ServeHolds' /\ ServeSurvives' /\ BindingIsTrue' /\ StaysReachable'
    BY <1>4
    DEF CloseOld, Ended, pipeVars, bindVars, serveVars, stopVars,
        histVars, PipeInv, TypeOK, Rebinding, OnRecord,
        ServeHolds, ServeSurvives, BindingIsTrue, StaysReachable
  <2> QED
    BY <2>1, <2>2, <2>3 DEF PipeInv
<1>5. CASE Listen
  <2>1. sid \in Seat
    BY DEF PipeInv, TypeOK
  <2>2. /\ ln' \in Listeners \ {ln, old, on} /\ ln' # None
        /\ open' = {ln'} /\ sddl' = sid
        /\ grants' \in [Listeners -> Seat] /\ grants'[ln'] = sid
        /\ sid # Unset
    BY <1>5, <2>1, Listened DEF Listen
  <2> QED
    BY <1>5, <2>1, <2>2
    DEF Listen, Rebound, PipeInv, TypeOK, Rebinding, Fallback, OnRecord, ServeHolds,
        ServeSurvives, BindingIsTrue, StaysReachable, serveVars, stopVars, histVars
<1>6. CASE KeepOld
  BY <1>6
  DEF KeepOld, Rebound, PipeInv, TypeOK, Rebinding, Fallback, OnRecord, ServeHolds,
      ServeSurvives, BindingIsTrue, StaysReachable, pipeVars, serveVars, stopVars,
      histVars
<1>7. CASE Refused
  BY <1>7
  DEF Refused, Rebound, PipeInv, TypeOK, Rebinding, Fallback, OnRecord, ServeHolds,
      ServeSurvives, BindingIsTrue, StaysReachable, pipeVars, bindVars, loopVars,
      serveVars, stopVars, histVars
<1>8. CASE Restore
  <2>1. CASE ListenFor(prev) /\ UNCHANGED lost
    <3>1. prev \in Seat
      BY <1>8 DEF Restore, PipeInv, TypeOK, Rebinding
    <3>2. /\ ln' \in Listeners \ {ln, old, on} /\ ln' # None
          /\ open' = {ln'} /\ sddl' = prev
          /\ grants' \in [Listeners -> Seat] /\ grants'[ln'] = prev
          /\ prev # Unset
      BY <2>1, <3>1, Listened
    <3> QED
      BY <1>8, <2>1, <3>1, <3>2
      DEF Restore, Rebound, PipeInv, TypeOK, Rebinding, Fallback, OnRecord, ServeHolds,
          ServeSurvives, BindingIsTrue, StaysReachable, serveVars, stopVars
  <2>2. CASE UNCHANGED <<pipeVars, bindVars>> /\ lost' = TRUE
    BY <1>8, <2>2
    DEF Restore, Rebound, PipeInv, TypeOK, Rebinding, Fallback, OnRecord, ServeHolds,
        ServeSurvives, BindingIsTrue, StaysReachable, pipeVars, bindVars, serveVars,
        stopVars
  <2> QED
    BY <1>8, <2>1, <2>2 DEF Restore
<1>9. CASE ServeStep
  <2>1. CASE ServeLook
    BY <2>1
    DEF ServeLook, PipeInv, TypeOK, Rebinding, Fallback, OnRecord, ServeHolds,
        ServeSurvives, BindingIsTrue, StaysReachable, pipeVars, bindVars, loopVars,
        stopVars, histVars
  <2>2. CASE ServeAccept
    <3>1. TypeOK'
      <4>1. flaked' \in BOOLEAN
        BY <2>2, Zenon DEF ServeAccept, PipeInv, TypeOK
      <4> QED
        BY <2>2, <4>1 DEF ServeAccept, PipeInv, TypeOK, pipeVars, bindVars, loopVars, stopVars
    <3>2. Rebinding' /\ Fallback' /\ OnRecord' /\ BindingIsTrue' /\ StaysReachable'
      BY <2>2
      DEF ServeAccept, PipeInv, TypeOK, Rebinding, Fallback, OnRecord, BindingIsTrue,
          StaysReachable, pipeVars, bindVars, loopVars, stopVars
    <3>3. ServeHolds' /\ ServeSurvives'
      BY <2>2
      DEF ServeAccept, PipeInv, TypeOK, ServeHolds, ServeSurvives, pipeVars, stopVars
    <3> QED
      BY <3>1, <3>2, <3>3 DEF PipeInv
  <2>3. CASE ServeCheck
    BY <2>3
    DEF ServeCheck, PipeInv, TypeOK, Rebinding, Fallback, OnRecord, ServeHolds,
        ServeSurvives, BindingIsTrue, StaysReachable, pipeVars, bindVars, loopVars,
        stopVars, histVars
  <2> QED
    BY <1>9, <2>1, <2>2, <2>3 DEF ServeStep
<1>10. CASE Switch \/ Stop
  <2>1. TypeOK'
    <3>1. CASE Switch
      BY <3>1 DEF Switch, pipeVars, bindVars, loopVars, serveVars,
        stopVars, histVars, PipeInv, TypeOK
    <3>2. CASE Stop
      BY <3>2 DEF Stop, pipeVars, bindVars, loopVars, serveVars,
        histVars, PipeInv, TypeOK
    <3> QED
      BY <1>10, <3>1, <3>2
  <2>2. Rebinding' /\ Fallback' /\ OnRecord'
    BY <1>10 DEF Switch, Stop, pipeVars, bindVars, loopVars, serveVars,
        stopVars, histVars, PipeInv, TypeOK, Rebinding, Fallback, OnRecord, BindingIsTrue
  <2>3. ServeHolds' /\ ServeSurvives' /\ BindingIsTrue' /\ StaysReachable'
    BY <1>10
    DEF Switch, Stop, pipeVars, bindVars, loopVars, serveVars,
        stopVars, histVars, PipeInv, TypeOK, Rebinding, OnRecord,
        ServeHolds, ServeSurvives, BindingIsTrue, StaysReachable
  <2> QED
    BY <2>1, <2>2, <2>3 DEF PipeInv
<1>11. CASE Close
  BY <1>11
  DEF Close, Running, PipeInv, TypeOK, Rebinding, Fallback, OnRecord, ServeHolds,
      ServeSurvives, BindingIsTrue, StaysReachable, loopVars, serveVars, histVars
<1>12. CASE UNCHANGED vars
  BY <1>12
  DEF vars, PipeInv, TypeOK, Rebinding, Fallback, OnRecord, ServeHolds, ServeSurvives,
      BindingIsTrue, StaysReachable, pipeVars, bindVars, loopVars, serveVars, stopVars,
      histVars
<1> QED
  BY <1>1, <1>2, <1>3, <1>4, <1>5, <1>6, <1>7, <1>8, <1>9, <1>10, <1>11, <1>12
  DEF Next, BindStep

-----------------------------------------------------------------------------
\* The inductive invariant: what Rebind takes out of sight it can put back, and a
\* listener that was closed under Serve is not the published one.
THEOREM PipeStaysSane == Spec => []PipeInv
<1>1. Init => PipeInv
  BY PipeBegins
<1>2. PipeInv /\ [Next]_vars => PipeInv'
  BY PipeStep
<1> QED
  BY <1>1, <1>2, PTL DEF Spec

\* Every variable of the pipe server and its supervisor keeps its type.
THEOREM PipeTypes == Spec => []TypeOK
<1>1. PipeInv => TypeOK
  BY DEF PipeInv
<1> QED
  BY <1>1, PipeStaysSane, PTL

\* Before the service stops Serve returns because of no Rebind (server.go:122-152).
THEOREM ServeGoesOn == Spec => []ServeSurvives
<1>1. PipeInv => ServeSurvives
  BY DEF PipeInv
<1> QED
  BY <1>1, PipeStaysSane, PTL

\* The published listener is open and serves the recorded access list, which is what
\* a failed Rebind restores (server.go:27-31, 84-104).
THEOREM RecordIsTrue == Spec => []BindingIsTrue
<1>1. PipeInv => BindingIsTrue
  BY DEF PipeInv
<1> QED
  BY <1>1, PipeStaysSane, PTL

\* Between Rebinds the pipe has a listener, unless both bindings were refused
\* (server.go:27-29).
THEOREM Reachable == Spec => []StaysReachable
<1>1. PipeInv => StaysReachable
  BY DEF PipeInv
<1> QED
  BY <1>1, PipeStaysSane, PTL

-----------------------------------------------------------------------------
(* MCUpkeep.  A step of one side leaves the variables of the others alone. *)

SidesInv == PipeInv /\ SwapInv /\ ScheduleInv /\ LogInv

\* Every side starts as it does alone.
LEMMA SidesStart == MCInit => SidesInv
<1> SUFFICES ASSUME MCInit PROVE SidesInv
  OBVIOUS
<1>1. Init /\ SwapInit /\ ScheduleInit /\ LogInit
  BY DEF MCInit
<1>2. QED
  BY <1>1, PipeBegins, SwapBegins, ScheduleStart, LogStart DEF SidesInv

\* A step of the composition is a step of one side and a stutter of the others.
LEMMA SidesStep == SidesInv /\ [MCNext]_upkeepVars => SidesInv'
<1> SUFFICES ASSUME SidesInv, [MCNext]_upkeepVars PROVE SidesInv'
  OBVIOUS
<1>1. /\ [Next]_vars /\ [SwapNext]_swapVars
      /\ [ScheduleNext]_scheduleVars /\ [LogNext]_logVars
  BY DEF MCNext, upkeepVars, InPipe, InSwap, InSchedule, InLog
<1>2. PipeInv'
  BY <1>1, PipeStep DEF SidesInv
<1>3. SwapInv'
  BY <1>1, SwapStep DEF SidesInv
<1>4. ScheduleInv'
  BY <1>1, ScheduleStep DEF SidesInv
<1>5. LogInv'
  BY <1>1, LogStep DEF SidesInv
<1>6. QED
  BY <1>2, <1>3, <1>4, <1>5 DEF SidesInv

\* Beside each other as on their own, the pipe, an apply, the update schedule and the log
\* keep their types (server.go, updateapply_windows.go, update_windows.go, logfile.go).
THEOREM SidesTypes == MCSpec => []Types
<1>1. SidesInv => Types
  BY DEF SidesInv, PipeInv, SwapInv, ScheduleInv, LogInv, Types
<1>2. QED
  BY <1>1, SidesStart, SidesStep, PTL DEF MCSpec

-----------------------------------------------------------------------------
(* The pipe follows the user.  tlapm does not reason about ENABLED: what lets the       *)
(* goroutines go on is written out, and that it does is a hypothesis.                   *)

\* What FollowsUser sets apart; none of it passes.
Excused == stopping \/ raced \/ lost \/ rpc = "aborted"

\* Whom the supervisor takes to be bound is who the access list names, or is put back.
InStep ==
  /\ rpc = "idle" => sddl = bound
  /\ rpc \in {"close", "listen", "restore"} => prev = bound

\* Nothing is open but the published listener, or the one Rebind took away.
OnlyOpen ==
  /\ rpc \in {"started", "idle"} => open \subseteq {ln}
  /\ rpc = "start" => open = {}
  /\ rpc = "close" \/ (rpc = "listen" /\ stuck) => open \subseteq {old}
  /\ rpc = "restore" \/ (rpc = "listen" /\ ~stuck) => open = {}

Course ==
  /\ rpc = "ended" => stopping
  /\ rpc \in {"start", "started"} => ~raced
  /\ Excused \/ (InStep /\ OnlyOpen)

\* The steps of the supervisor, of Run before it and of Rebind, where nothing is excused.
LEMMA RoundStep ==
  ASSUME PipeInv, Course, BindStep, ~Excused
  PROVE  /\ Course'
         /\ rpc = "start" => rpc' = "started" \/ Excused'
         /\ rpc = "started" => rpc' = "idle" \/ Excused'
         /\ rpc = "idle" => user # bound /\ rpc' = "close" /\ sid' = user
         /\ rpc = "close" => rpc' = "listen" /\ UNCHANGED sid
         /\ rpc = "listen" => rpc' \in {"idle", "restore"} /\ (rpc' = "restore" => UNCHANGED sid)
         /\ rpc = "restore" => rpc' = "idle"
         /\ UNCHANGED user
<1> USE DEF Excused, InStep, OnlyOpen, Course
<1>1. CASE FirstBind
  <2>1. CASE rpc' = "started"
    <3>1. ListenFor(user) /\ rpc = "start"
      BY <1>1, <2>1 DEF FirstBind
    <3>2. open' = {ln'}
      BY <3>1 DEF ListenFor
    <3> QED
      BY <1>1, <2>1, <3>1, <3>2 DEF FirstBind, histVars
  <2>2. CASE rpc' = "aborted"
    BY <1>1, <2>2 DEF FirstBind
  <2> QED
    BY <1>1, <2>1, <2>2 DEF FirstBind
<1>2. CASE StartSupervising
  BY <1>2 DEF StartSupervising, pipeVars, bindVars
<1>3. CASE Poll
  BY <1>3 DEF Poll, Take, pipeVars
<1>4. CASE CloseOld
  BY <1>4 DEF CloseOld, Ended, pipeVars, bindVars, PipeInv, Fallback
<1>5. CASE Listen
  <2>1. open' = {ln'} /\ sddl' = sid
    BY <1>5 DEF Listen, ListenFor
  <2> QED
    BY <1>5, <2>1 DEF Listen, Rebound
<1>6. CASE KeepOld
  BY <1>6 DEF KeepOld, Rebound, pipeVars
<1>7. CASE Refused
  BY <1>7 DEF Refused, Rebound, pipeVars, bindVars, loopVars, PipeInv, Rebinding
<1>8. CASE Restore
  <2>1. CASE ListenFor(prev)
    <3>1. open' = {ln'} /\ sddl' = prev
      BY <2>1 DEF ListenFor
    <3> QED
      BY <1>8, <3>1 DEF Restore, Rebound
  <2>2. CASE lost'
    BY <1>8, <2>2 DEF Restore, Rebound
  <2> QED
    BY <1>8, <2>1, <2>2 DEF Restore
<1> QED
  BY <1>1, <1>2, <1>3, <1>4, <1>5, <1>6, <1>7, <1>8 DEF BindStep

\* What the others do leaves the supervisor where it is; only a stopping service takes
\* the listener from it.
LEMMA BesideRound ==
  ASSUME [Next]_vars, ~BindStep
  PROVE  /\ UNCHANGED <<rpc, bound, sid, old, prev, stuck, sddl, raced, lost>>
         /\ stopping => stopping'
         /\ stopping \/ UNCHANGED <<open, ln>>
<1>1. CASE ServeStep
  BY <1>1 DEF ServeStep, ServeLook, ServeAccept, ServeCheck, pipeVars, bindVars, loopVars, stopVars,
       histVars
<1>2. CASE Switch \/ Stop
  BY <1>2 DEF Switch, Stop, pipeVars, bindVars, loopVars, serveVars, stopVars, histVars
<1>3. CASE Close
  BY <1>3 DEF Close, loopVars, histVars
<1>4. CASE UNCHANGED vars
  BY <1>4 DEF vars, pipeVars, bindVars, loopVars, stopVars, histVars
<1> QED
  BY <1>1, <1>2, <1>3, <1>4 DEF Next

\* Once something is excused it stays so.
LEMMA ExcusedStays ==
  ASSUME Course, Excused, [Next]_vars
  PROVE  Excused'
<1>1. CASE ~BindStep
  <2>1. rpc' = rpc /\ raced' = raced /\ lost' = lost /\ (stopping => stopping')
    BY <1>1, BesideRound
  <2> QED
    BY <2>1 DEF Excused
<1>2. CASE BindStep
  <2>1. stopping' = stopping
    BY <1>2 DEF BindStep, FirstBind, StartSupervising, Poll, CloseOld, Listen, KeepOld, Refused,
         Restore, stopVars
  <2>2. raced => raced'
    BY <1>2 DEF BindStep, FirstBind, StartSupervising, Poll, CloseOld, Listen, KeepOld, Refused,
         Restore, histVars, Course
  <2>3. lost => lost'
    BY <1>2 DEF BindStep, FirstBind, StartSupervising, Poll, CloseOld, Listen, KeepOld, Refused,
         Restore, histVars
  <2>4. ~(rpc = "aborted")
    BY <1>2 DEF BindStep, FirstBind, StartSupervising, Poll, CloseOld, Listen, KeepOld, Refused,
         Restore
  <2> QED
    BY <2>1, <2>2, <2>3, <2>4 DEF Excused
<1> QED
  BY <1>1, <1>2

\* The supervisor's state is as its place in the round says, excused or not.
LEMMA CourseStays ==
  ASSUME PipeInv, Course, [Next]_vars
  PROVE  Course'
<1>1. CASE ~BindStep
  <2>1. /\ rpc' = rpc /\ bound' = bound /\ prev' = prev /\ old' = old /\ sddl' = sddl
        /\ raced' = raced /\ stuck' = stuck
        /\ (stopping => stopping')
        /\ stopping \/ (open' = open /\ ln' = ln)
    BY <1>1, BesideRound
  <2>2. Excused => Excused'
    BY ExcusedStays
  <2>3. ~Excused => (InStep /\ OnlyOpen)'
    BY <2>1 DEF Course, Excused, InStep, OnlyOpen
  <2> QED
    BY <2>1, <2>2, <2>3 DEF Course
<1>2. CASE BindStep /\ Excused
  <2>1. Excused'
    BY <1>2, ExcusedStays
  <2>2. rpc' = "ended" => stopping'
    BY <1>2 DEF BindStep, FirstBind, StartSupervising, Poll, Take, CloseOld, Listen, KeepOld, Refused,
         Restore, Rebound, stopVars
  <2>3. rpc' \in {"start", "started"} => rpc = "start" /\ raced' = raced
    BY <1>2 DEF BindStep, FirstBind, StartSupervising, Poll, Take, CloseOld, Listen, KeepOld, Refused,
         Restore, Rebound, histVars
  <2> QED
    BY <2>1, <2>2, <2>3 DEF Course
<1>3. CASE BindStep /\ ~Excused
  BY <1>3, RoundStep
<1> QED
  BY <1>1, <1>2, <1>3

\* The state when the pipe is the side that moves.
PipeSafe == PipeInv /\ Course

\* The pipe's part of the composition: its steps, and what they keep.
LEMMA PipeSide ==
  MCSpec => [][Next]_vars /\ []PipeSafe /\ (side = "pipe" => [](side = "pipe"))
<1>1. MCInit => PipeSafe
  BY PipeBegins DEF MCInit, Init, PipeSafe, Course, Excused, InStep, OnlyOpen
<1>2. [MCNext]_upkeepVars => [Next]_vars /\ UNCHANGED side
  BY DEF MCNext, upkeepVars, InPipe, InSwap, InSchedule, InLog
<1>3. PipeSafe /\ [Next]_vars => PipeSafe'
  BY PipeStep, CourseStays DEF PipeSafe
<1>4. UNCHANGED side => (side = "pipe" => (side = "pipe")')
  OBVIOUS
<1>5. QED
  BY <1>1, <1>2, <1>3, <1>4, PTL DEF MCSpec

\* Where the round can go on.  It waits only between two polls that see no change.
BindReady ==
  \/ rpc \in {"start", "started", "close", "listen", "restore"}
  \/ rpc = "idle" /\ (stopping \/ user # bound)

\* The rest: a listener that is to be closed can be, and one can be made while none is
\* open, which takes one that no variable refers to.
PipeGoes ==
  side = "pipe" =>
    /\ BindReady => ENABLED <<InPipe(BindStep)>>_upkeepVars
    /\ rpc = "close" => ENABLED <<InPipe(CloseOld /\ ~stuck')>>_upkeepVars
    /\ rpc = "listen" /\ open = {} => ENABLED <<InPipe(Listen)>>_upkeepVars

\* The access list names who stays, as far as the supervisor knows; or that is excused.
Over == (rpc = "idle" /\ bound = user) \/ Excused

\* A Rebind under way, if any, is for who stays.
Aimed == rpc = "idle" \/ (rpc \in {"close", "listen", "restore"} /\ sid = user)

\* Nothing is open and the next binding is to be made.
Clear == rpc = "listen" /\ open = {}

\* While a user stays the round goes its way, and its Rebinds are for him.
LEMMA RoundGoesOn ==
  ASSUME PipeSafe, [Next]_vars, [FALSE]_user, ~Over, ~Over'
  PROVE  /\ rpc' = rpc \/ BindStep
         /\ Aimed => Aimed'
         /\ Clear => Clear' \/ BindStep
<1>1. PipeInv /\ Course /\ ~Excused /\ ~Excused' /\ user' = user
  BY DEF PipeSafe, Over
<1>2. CASE BindStep
  BY <1>1, <1>2, RoundStep DEF Aimed
<1>3. CASE ~BindStep
  <2>1. rpc' = rpc /\ sid' = sid /\ (stopping \/ open' = open)
    BY <1>3, BesideRound
  <2> QED
    BY <1>1, <2>1 DEF Aimed, Clear, Excused
<1> QED
  BY <1>2, <1>3

\* Who stays and is served is served for good.
LEMMA OverStays ==
  ASSUME PipeSafe, Over, [Next]_vars, [FALSE]_user
  PROVE  Over'
<1>1. CASE Excused
  BY <1>1, ExcusedStays DEF PipeSafe, Over
<1>2. CASE ~Excused /\ BindStep
  BY <1>2, RoundStep DEF PipeSafe, Over
<1>3. CASE ~BindStep
  <2>1. rpc' = rpc /\ bound' = bound /\ user' = user
    BY <1>3, BesideRound
  <2> QED
    BY <1>1, <2>1 DEF Over
<1> QED
  BY <1>1, <1>2, <1>3

\* A listener that closes leaves nothing open, and one that is then made is his.
LEMMA RoundEnds ==
  ASSUME PipeSafe, [Next]_vars, [FALSE]_user, ~Over, ~Over'
  PROVE  /\ ~(CloseOld /\ ~stuck' /\ ~Clear')
         /\ ~(Aimed /\ Listen)
<1>1. PipeInv /\ Course /\ ~Excused /\ ~Excused' /\ user' = user
  BY DEF PipeSafe, Over
<1>2. ASSUME CloseOld, ~stuck' PROVE Clear'
  <2>1. Course'
    BY <1>1, CourseStays
  <2> QED
    BY <1>1, <1>2, <2>1 DEF CloseOld, Course, OnlyOpen, Clear
<1>3. ASSUME Aimed, Listen PROVE Over'
  BY <1>1, <1>3 DEF Aimed, Listen, Rebound, Over
<1> QED
  BY <1>2, <1>3

\* Where the round is, and that it can go on.
LEMMA RoundIsReady ==
  ASSUME PipeSafe, ~Over
  PROVE  /\ \/ rpc = "start" \/ rpc = "started" \/ rpc = "idle" \/ rpc = "close"
            \/ rpc = "listen" \/ rpc = "restore"
         /\ BindReady
BY DEF PipeSafe, PipeInv, TypeOK, Course, Over, Excused, BindReady

\* The way of the round, place by place.
LEMMA RoundPlaces ==
  ASSUME PipeSafe, [Next]_vars, [FALSE]_user, ~Over, ~Over'
  PROVE  /\ ~BindStep => rpc' = rpc
         /\ BindStep => /\ rpc = "start" => (rpc = "started")'
                        /\ rpc = "started" => (rpc = "idle")'
                        /\ rpc = "idle" => (rpc = "close")'
                        /\ rpc = "close" => (rpc = "listen")'
                        /\ rpc = "listen" => (rpc = "idle")' \/ (rpc = "restore")'
                        /\ rpc = "restore" => (rpc = "idle")'
<1>1. PipeInv /\ Course /\ ~Excused /\ ~Excused' /\ user' = user
  BY DEF PipeSafe, Over
<1>2. CASE BindStep
  BY <1>1, <1>2, RoundStep
<1>3. CASE ~BindStep
  BY <1>3, BesideRound
<1> QED
  BY <1>2, <1>3

\* The pipe follows the user (runtime.go:172-200, server.go:84-104).  While one stays and is
\* not served, rounds go on without end, from the second on for him; in infinitely many of
\* them the old listener closes, which leaves nothing open, and in one of those the new one is
\* made: so he is served, and no later round takes that back.
THEOREM PipeFollows == MCSpec /\ []PipeGoes => PipeFollowsUser
<1> DEFINE S == rpc = "start"
           D == rpc = "started"
           I == rpc = "idle"
           C == rpc = "close"
           L == rpc = "listen"
           R == rpc = "restore"
           Pipe == side = "pipe"
           Runs == /\ [][Next]_vars /\ []PipeSafe /\ []Pipe /\ []PipeGoes
                   /\ WF_upkeepVars(InPipe(BindStep))
                   /\ SF_upkeepVars(InPipe(CloseOld /\ ~stuck'))
                   /\ SF_upkeepVars(InPipe(Listen))
           Calm == [][FALSE]_user /\ []~Over
<1>1. /\ <<InPipe(BindStep)>>_upkeepVars => BindStep
      /\ <<InPipe(CloseOld /\ ~stuck')>>_upkeepVars => CloseOld /\ ~stuck'
      /\ <<InPipe(Listen)>>_upkeepVars => Listen
  BY DEF InPipe
<1>2. Pipe /\ PipeGoes =>
        /\ BindReady => ENABLED <<InPipe(BindStep)>>_upkeepVars
        /\ C => ENABLED <<InPipe(CloseOld /\ ~stuck')>>_upkeepVars
        /\ Clear => ENABLED <<InPipe(Listen)>>_upkeepVars
  BY DEF PipeGoes, Clear
<1>3. PipeSafe /\ ~Over => BindReady /\ (S \/ D \/ I \/ C \/ L \/ R)
  BY RoundIsReady
<1>4. PipeSafe /\ [Next]_vars /\ [FALSE]_user /\ ~Over /\ ~Over' =>
        /\ ~BindStep => (S => S') /\ (D => D') /\ (I => I') /\ (C => C') /\ (L => L') /\ (R => R')
        /\ BindStep => /\ S => D'
                       /\ D => I'
                       /\ I => C'
                       /\ C => L'
                       /\ L => I' \/ R'
                       /\ R => I'
  BY RoundPlaces
<1>5. PipeSafe /\ [Next]_vars /\ [FALSE]_user /\ ~Over /\ ~Over' => (Aimed => Aimed')
  BY RoundGoesOn
<1>6. I => Aimed
  BY DEF Aimed
<1>7. PipeSafe /\ [Next]_vars /\ [FALSE]_user /\ ~Over /\ ~Over' => (CloseOld /\ ~stuck' => Clear')
  BY RoundEnds
<1>8. PipeSafe /\ [Next]_vars /\ [FALSE]_user /\ ~Over /\ ~Over' => ~(Aimed /\ Listen)
  BY RoundEnds
<1>9. PipeSafe /\ [Next]_vars /\ [FALSE]_user => (Over => Over')
  BY OverStays
<1>10. PipeSafe /\ Over => Granted \/ stopping \/ raced \/ lost \/ rpc = "aborted"
  BY DEF PipeSafe, PipeInv, Course, Excused, InStep, StaysReachable, Over, Granted
<1> HIDE DEF S, D, I, C, L, R, Pipe
<1>11. Runs /\ Calm => []<><<InPipe(BindStep)>>_upkeepVars
  BY <1>1, <1>2, <1>3, PTL
<1>12. Runs /\ Calm => []<>I
  BY <1>1, <1>3, <1>4, <1>11, PTL
<1>13. Runs /\ Calm => []<>C
  BY <1>1, <1>4, <1>11, <1>12, PTL
<1>14. Runs /\ Calm => []<>Clear
  BY <1>1, <1>2, <1>7, <1>13, PTL
<1>15. Runs /\ Calm => <>[]Aimed
  BY <1>5, <1>6, <1>12, PTL
<1>16. Runs => ~Calm
  BY <1>1, <1>2, <1>8, <1>14, <1>15, PTL
<1>17. Runs => (<>[][FALSE]_user => <>[]Over)
  BY <1>9, <1>16, PTL
<1>18. MCSpec /\ []PipeGoes /\ Pipe => Runs
  BY PipeSide, PTL DEF MCSpec, Pipe
<1>19. MCSpec /\ []PipeGoes =>
         (Pipe => (<>[][FALSE]_user => <>[](Granted \/ stopping \/ raced \/ lost \/ rpc = "aborted")))
  BY <1>10, <1>17, <1>18, PTL
<1> QED
  BY <1>19 DEF PipeFollowsUser, FollowsUser, Steady, Pipe

=============================================================================
