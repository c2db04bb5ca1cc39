--------------------------- MODULE UpdateSchedule ---------------------------
(***************************************************************************)
(* The update schedule (internal/service/update_windows.go,                *)
(* updatestate_windows.go): a loop that wakes often, compares a record on  *)
(* disk with the clock and checks for a release when one is due, and the   *)
(* check the panel asks for.  Both read the record, change it and write it *)
(* back, with no lock.  In auto mode the loop applies what it found; how   *)
(* an apply goes is UpdateSwap, here it fails, or the service is restarted *)
(* with the new build or, rolled back, with the old one.  The clock may be *)
(* set back, and the service may stop, at any moment.                      *)
(***************************************************************************)
EXTENDS Integers

CONSTANTS
  Intervals,   \* check intervals a user may choose
  RetryGrace,  \* updateRetryGrace
  AutoGrace,   \* autoRetryGrace
  MaxVersion,  \* bound: releases
  MaxClock     \* bound: readings of the clock

ASSUME ScheduleAssumption ==
  /\ Intervals \subseteq Nat \ {0} /\ Intervals # {}
  /\ RetryGrace \in Nat \ {0} /\ AutoGrace \in Nat \ {0}
  /\ MaxVersion \in Nat /\ MaxClock \in Nat \ {0}

VARIABLES
  clock,     \* the wall clock
  record,    \* the schedule's file
  sched,     \* the loop
  asked,     \* the panel's check
  offered,   \* the newest release, 0 if there is none
  current,   \* the release that is installed
  tried,     \* history: when auto mode last tried each release
  made,      \* history: readings of the clock at which a check was made
  unsure     \* history: the record of an automatic try was lost

scheduleVars == <<clock, record, sched, asked, offered, current, tried, made, unsure>>

Never == 0
Times == 0..MaxClock
State == [check : Times, fail : Times, version : 0..MaxVersion, at : Times]
Zero  == [check |-> Never, fail |-> Never, version |-> 0, at |-> Never]
Loop  == [at : {"wait", "checking", "applying"}, st : State, now : Times]
Ask   == [on : BOOLEAN, st : State]
Waiting   == [at |-> "wait", st |-> Zero, now |-> Never]
NoneAsked == [on |-> FALSE, st |-> Zero]

ScheduleTypeOK ==
  /\ clock \in Times \ {Never} /\ record \in State /\ sched \in Loop /\ asked \in Ask
  /\ offered \in 0..MaxVersion /\ current \in 0..offered
  /\ tried \in [1..MaxVersion -> Times] /\ made \subseteq Times /\ unsure \in BOOLEAN

ScheduleInit ==
  /\ clock = 1 /\ record = Zero /\ sched = Waiting /\ asked = NoneAsked
  /\ offered = 0 /\ current = 0
  /\ tried = [v \in 1..MaxVersion |-> Never] /\ made = {} /\ unsure = FALSE

World == UNCHANGED <<clock, offered, current>>

-----------------------------------------------------------------------------
(* When a check, and an automatic try, is due. *)

updateDueForward(st, every, now) ==  \* mutant: a clock that was set back is not thought of
  (st.fail = Never \/ now - st.fail >= RetryGrace)
    /\ (st.check = Never \/ now - st.check >= every)

\* A check in what is now the future counts as none; a failure there is waited out.
updateDue(st, every, now) ==
  /\ st.fail = Never \/ now - st.fail >= RetryGrace
  /\ st.check = Never \/ now < st.check \/ now - st.check >= every

autoDue(st, v, now) == st.version # v \/ now - st.at >= AutoGrace

\* saveUpdateState: the file is written, is left alone, or is left in a state that reads
\* as if nothing had been recorded.
saveUpdateState(st) ==
  /\ record' \in {st, record, Zero}
  /\ unsure' = (unsure \/ record'.version # st.version \/ record'.at # st.at)

-----------------------------------------------------------------------------
(* superviseUpdates.  The configuration is read at every wake, and says whatever the user
   last made of it: checks are off, or the interval is any of the intervals, or the mode is
   not auto. *)

Wake ==
  /\ sched.at = "wait"
  /\ \E every \in Intervals : updateDue(record, every, clock)
  /\ sched' = [at |-> "checking", st |-> record, now |-> clock]
  /\ made' = made \cup {clock}
  /\ UNCHANGED <<record, asked, tried, unsure>> /\ World

CheckFails ==
  /\ sched.at = "checking"
  /\ saveUpdateState([sched.st EXCEPT !.fail = sched.now])
  /\ sched' = Waiting
  /\ UNCHANGED <<asked, tried, made>> /\ World

\* The endpoint answers; a release it offers is there to be seen, or, in auto mode, to be
\* installed.
Checked == [sched.st EXCEPT !.check = sched.now, !.fail = Never]
Tries   == offered > current /\ autoDue(sched.st, offered, sched.now)

CheckPasses ==
  /\ sched.at = "checking"
  /\ saveUpdateState(Checked)
  /\ sched' = Waiting
  /\ UNCHANGED <<asked, tried, made>> /\ World

CheckTriesUnrecorded ==  \* mutant: an automatic try is recorded only once it has returned
  /\ sched.at = "checking" /\ Tries
  /\ saveUpdateState(Checked)
  /\ sched' = [Waiting EXCEPT !.at = "applying"]
  /\ tried' = [tried EXCEPT ![offered] = sched.now]
  /\ UNCHANGED <<asked, made>> /\ World

\* An automatic try is recorded before it is made: a good one restarts the service.
CheckTries ==
  /\ sched.at = "checking" /\ Tries
  /\ saveUpdateState([Checked EXCEPT !.version = offered, !.at = sched.now])
  /\ sched' = [Waiting EXCEPT !.at = "applying"]
  /\ tried' = [tried EXCEPT ![offered] = sched.now]
  /\ UNCHANGED <<asked, made>> /\ World

\* autoApply.
ApplyFails ==
  /\ sched.at = "applying" /\ sched' = Waiting
  /\ UNCHANGED <<record, asked, tried, made, unsure>> /\ World

\* The service ends, and starts again at once or, time passing, later.
Restarts == sched' = Waiting /\ asked' = NoneAsked

ApplyRestarts ==
  /\ sched.at = "applying" /\ Restarts
  /\ current' \in {current, offered}
  /\ UNCHANGED <<clock, record, offered, tried, made, unsure>>

-----------------------------------------------------------------------------
(* UpdateCheck, in a goroutine of the control pipe. *)

\* What the answer is has no part in it; the record is read after it, and written back later.
AskCheck ==
  /\ ~asked.on
  /\ asked' \in {[on |-> TRUE, st |-> [record EXCEPT !.fail = clock]],
                 [on |-> TRUE, st |-> [record EXCEPT !.check = clock, !.fail = Never]]}
  /\ made' = made \cup {clock}
  /\ UNCHANGED <<record, sched, tried, unsure>> /\ World

AskSaves ==
  /\ asked.on
  /\ record' \in {asked.st, record, Zero}
  /\ unsure' = (unsure \/ record'.version # record.version \/ record'.at # record.at)
  /\ asked' = NoneAsked
  /\ UNCHANGED <<sched, tried, made>> /\ World

-----------------------------------------------------------------------------
(* The machine, the user and the publisher. *)

Elapse ==
  /\ clock < MaxClock /\ clock' = clock + 1
  /\ UNCHANGED <<record, sched, asked, offered, current, tried, made, unsure>>

SetBack ==
  /\ clock' \in 1..(clock - 1)
  /\ UNCHANGED <<record, sched, asked, offered, current, tried, made, unsure>>

Crash ==
  /\ Restarts
  /\ UNCHANGED <<clock, record, offered, current, tried, made, unsure>>

Release ==
  /\ offered < MaxVersion /\ offered' = offered + 1
  /\ UNCHANGED <<clock, record, sched, asked, current, tried, made, unsure>>

ScheduleNext ==
  \/ Wake \/ CheckFails \/ CheckPasses \/ CheckTries \/ ApplyFails \/ ApplyRestarts
  \/ AskCheck \/ AskSaves
  \/ Elapse \/ SetBack \/ Crash \/ Release

ScheduleSpec == ScheduleInit /\ [][ScheduleNext]_scheduleVars

-----------------------------------------------------------------------------
(* Safety. *)

\* Auto mode leaves a release alone for the grace after it tried it, over restarts, as
\* long as what it recorded was not lost to a failed write or to a check of the panel that
\* wrote back what it had read before (superviseUpdates, autoDue).
TrySpaced ==
  sched.at = "checking" /\ sched'.at = "applying" /\ ~unsure =>
    (tried[offered] = Never \/ sched.now - tried[offered] >= AutoGrace)

\* A check that is not due is so because one was made, by the loop or for the panel, less
\* than the interval or the grace ago: nothing that is lost, written back late or read
\* after the clock was set back puts it off for longer - but for a failure that is recorded
\* in what is now the future, which is waited out (updateDue).
CheckInTime ==
  \A every \in Intervals :
    \/ updateDue(record, every, clock)
    \/ clock < record.fail
    \/ \E t \in made : t <= clock /\ (clock - t < every \/ clock - t < RetryGrace)

\* The schedule tries neither too often nor too late, whatever becomes of its record.
KeepsSchedule == [][TrySpaced /\ CheckInTime']_scheduleVars

=============================================================================
