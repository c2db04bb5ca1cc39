------------------------- MODULE EgressWatch_proofs -------------------------
(***************************************************************************)
(* Proofs about EgressWatch, for any adapters and any number of changes:   *)
(* types, and that restarts do not feed on each other.                     *)
(***************************************************************************)
EXTENDS EgressWatch, TLAPS

-----------------------------------------------------------------------------
(* EgressWatch.  A restart moves actedOn to the pin that was looked at.  The pins that can
   still be looked at before something changes outside form a path: the one a verdict is
   under way about, the one that is bound, the one the next configuration binds.  What is
   left of that path bounds the restarts to come. *)

\* 1 for two pins that differ.
Differ(p, q) == IF p = q THEN 0 ELSE 1

\* The pin the next configuration binds.
NextPin == IF byUser THEN NoPin ELSE route

\* The length of the path from the pin acted on last.
ToCome ==
  (IF watch.at = "wait" THEN Differ(actedOn, pin)
                        ELSE Differ(actedOn, watch.pin) + Differ(watch.pin, pin))
  + Differ(pin, NextPin)

RestartsBounded == spent + ToCome <= 3

EgressInv == EgressTypeOK /\ RestartsBounded

\* A way round is no shorter than the direct one.
LEMMA Detour == ASSUME NEW p, NEW q, NEW s PROVE Differ(p, s) <= Differ(p, q) + Differ(q, s)
BY DEF Differ

\* Two pins differ by nothing or by one.
LEMMA DifferRange == ASSUME NEW p, NEW q PROVE Differ(p, q) \in {0, 1} /\ Differ(p, q) \in Int
BY DEF Differ

\* The watch sleeps, and every pin is an adapter or none (superviseProxyEgress's start).
LEMMA EgressInitTypes == EgressInit => EgressTypeOK
<1> SUFFICES ASSUME EgressInit PROVE EgressTypeOK
  OBVIOUS
<1>1. NoPin \in Pins /\ Asleep \in [at : {"wait", "pinned", "others"}, pin : Pins, left : SUBSET Adapters]
  BY DEF Pins, Asleep
<1>2. changes \in 0..MaxChanges /\ spent \in Nat
  BY EgressAssumption DEF EgressInit
<1>3. {byUser, enabled, again} \subseteq BOOLEAN /\ verdict \in Verdicts
  BY DEF EgressInit, Verdicts
<1>4. watch.at = "wait" /\ verdict # "stale"
  BY DEF EgressInit, Asleep
<1> QED
  BY <1>1, <1>2, <1>3, <1>4 DEF EgressInit, EgressTypeOK

\* The service loop and the watch keep the types of what they share.
LEMMA EgressStepTypes == EgressTypeOK /\ [EgressNext]_egressVars => EgressTypeOK'
<1> SUFFICES ASSUME EgressTypeOK, [EgressNext]_egressVars PROVE EgressTypeOK'
  OBVIOUS
<1> USE EgressAssumption DEF EgressTypeOK, Pins, Verdicts
<1>1. CASE LoopStep
  BY <1>1 DEF LoopStep, Generate, Settle, TakeRestart, Outside, Verdict
<1>2. CASE WatchStep
  <2> USE DEF Rest, Outside, PublishVerdict, Asleep
  <2>1. CASE WakeWatch
    BY <2>1 DEF WakeWatch
  <2>2. CASE DialPinned
    BY <2>2 DEF DialPinned
  <2>3. CASE NoneAnswers
    BY <2>3 DEF NoneAnswers
  <2>4. ASSUME NEW a \in Adapters, DialOther(a) PROVE EgressTypeOK'
    <3>1. watch.pin \in Pins /\ spent + 1 \in Nat
      BY <2>4 DEF DialOther
    <3>2. UNCHANGED <<reach, route, byUser, enabled, eng, pin, changes>>
      BY <2>4 DEF DialOther
    <3>3. {byUser', enabled', again'} \subseteq BOOLEAN /\ actedOn' \in Pins /\ spent' \in Nat
      BY <2>4, <3>1 DEF DialOther
    <3>4. /\ verdict' \in Verdicts /\ via' \in Adapters /\ watch'.at = "wait"
          /\ watch' \in [at : {"wait", "pinned", "others"}, pin : Pins, left : SUBSET Adapters]
      BY <2>4 DEF DialOther
    <3> QED
      BY <3>2, <3>3, <3>4
  <2>5. ASSUME NEW a \in Adapters, DialNothing(a) PROVE EgressTypeOK'
    BY <2>5 DEF DialNothing
  <2> QED
    BY <1>2, <2>1, <2>2, <2>3, <2>4, <2>5 DEF WatchStep
<1>3. CASE NetworkChanges \/ UserEdits \/ UserToggles \/ EngineFails
  <2>1. Change
    BY <1>3 DEF NetworkChanges, UserEdits, UserToggles, EngineFails
  <2>2. changes' \in 0..MaxChanges /\ spent' \in Nat /\ UNCHANGED <<pin, verdict, via, watch, actedOn>>
    BY <2>1 DEF Change
  <2>3. reach' \subseteq Adapters /\ route' \in Pins
    BY <1>3 DEF NetworkChanges, UserEdits, UserToggles, EngineFails
  <2>4. {byUser', enabled', again'} \subseteq BOOLEAN /\ eng' \in {"down", "starting", "running"}
    BY <1>3 DEF NetworkChanges, UserEdits, UserToggles, EngineFails
  <2> QED
    BY <2>2, <2>3, <2>4
<1>4. CASE UNCHANGED egressVars
  BY <1>4 DEF egressVars
<1> QED
  BY <1>1, <1>2, <1>3, <1>4 DEF EgressNext

\* The bound on the restarts to come is never exceeded: a restart takes the first step of the
\* path, a new pin and a verdict that asks for none cut a corner of it, and a change from
\* outside starts the count anew (checkProxyEgress, superviseProxyEgress).
LEMMA EgressStepBound ==
  EgressTypeOK /\ RestartsBounded /\ [EgressNext]_egressVars => RestartsBounded'
<1> SUFFICES ASSUME EgressTypeOK, RestartsBounded, [EgressNext]_egressVars
             PROVE  RestartsBounded'
  OBVIOUS
<1>0. spent \in Nat /\ watch.at \in {"wait", "pinned", "others"}
  BY DEF EgressTypeOK
<1> USE DEF RestartsBounded, ToCome, NextPin
<1>1. CASE Generate
  <2>1. /\ pin' = NextPin /\ NextPin' = NextPin
        /\ UNCHANGED <<spent, watch, actedOn, byUser, route>>
    BY <1>1 DEF Generate, Outside, Verdict
  <2>2. /\ Differ(actedOn, NextPin) <= Differ(actedOn, pin) + Differ(pin, NextPin)
        /\ Differ(watch.pin, NextPin) <= Differ(watch.pin, pin) + Differ(pin, NextPin)
    BY Detour
  <2>3. Differ(pin', NextPin') = 0
    BY <2>1 DEF Differ
  <2> HIDE DEF NextPin
  <2> QED
    BY <1>0, <2>1, <2>2, <2>3, DifferRange
<1>2. CASE Settle \/ TakeRestart
  BY <1>2 DEF Settle, TakeRestart, Outside, Verdict
<1>3. CASE WakeWatch
  <2>1. UNCHANGED <<spent, actedOn, pin, byUser, route>> /\ watch.at = "wait"
    BY <1>3 DEF WakeWatch, Rest, Outside
  <2>2. \/ watch' = watch
        \/ watch'.at = "wait"
        \/ watch'.at = "pinned" /\ watch'.pin = pin
    BY <1>3 DEF WakeWatch, PublishVerdict, Asleep
  <2>3. Differ(pin, pin) = 0
    BY DEF Differ
  <2> QED
    BY <1>0, <2>1, <2>2, <2>3, DifferRange
<1>4. ASSUME UNCHANGED <<spent, actedOn, pin, byUser, route>>, watch.at # "wait",
             watch'.at = "wait" \/ (watch'.at # "wait" /\ watch'.pin = watch.pin)
      PROVE  RestartsBounded'
  <2>1. Differ(actedOn, pin) <= Differ(actedOn, watch.pin) + Differ(watch.pin, pin)
    BY Detour
  <2> QED
    BY <1>0, <1>4, <2>1, DifferRange
<1>5. CASE DialPinned \/ NoneAnswers \/ \E a \in Adapters : DialNothing(a)
  <2>1. UNCHANGED <<spent, actedOn, pin, byUser, route>> /\ watch.at # "wait"
    BY <1>5 DEF DialPinned, NoneAnswers, DialNothing, Rest, Outside
  <2>2. watch'.at = "wait" \/ (watch'.at # "wait" /\ watch'.pin = watch.pin)
    <3>1. watch \in [at : {"wait", "pinned", "others"}, pin : Pins, left : SUBSET Adapters]
      BY DEF EgressTypeOK
    <3>2. CASE DialPinned
      BY <3>1, <3>2 DEF DialPinned, PublishVerdict, Asleep
    <3>3. CASE NoneAnswers
      BY <3>3 DEF NoneAnswers, PublishVerdict, Asleep
    <3>4. ASSUME NEW a \in Adapters, DialNothing(a)
          PROVE  watch'.at # "wait" /\ watch'.pin = watch.pin
      BY <3>1, <3>4 DEF DialNothing
    <3> QED
      BY <1>5, <3>2, <3>3, <3>4
  <2> QED
    BY <2>1, <2>2, <1>4
<1>6. ASSUME NEW a \in Adapters, DialOther(a) PROVE RestartsBounded'
  <2>1. UNCHANGED <<pin, byUser, route>> /\ watch.at = "others" /\ watch'.at = "wait"
    BY <1>6 DEF DialOther, Rest, Outside, PublishVerdict, Asleep
  <2>2. CASE watch.pin = actedOn
    <3>1. UNCHANGED <<spent, actedOn>>
      BY <1>6, <2>2 DEF DialOther
    <3> QED
      BY <1>4, <2>1, <3>1
  <2>3. CASE watch.pin # actedOn
    <3>1. actedOn' = watch.pin /\ spent' = spent + 1
      BY <1>6, <2>3 DEF DialOther
    <3>2. Differ(actedOn, watch.pin) = 1
      BY <2>3 DEF Differ
    <3> QED
      BY <1>0, <2>1, <3>1, <3>2, DifferRange
  <2> QED
    BY <2>2, <2>3
<1>7. CASE NetworkChanges \/ UserEdits \/ UserToggles \/ EngineFails
  <2>1. spent' = 0
    BY <1>7 DEF NetworkChanges, UserEdits, UserToggles, EngineFails, Change
  <2> HIDE DEF NextPin
  <2> QED
    BY <2>1, DifferRange
<1>8. CASE UNCHANGED egressVars
  BY <1>8 DEF egressVars
<1> QED
  BY <1>1, <1>2, <1>3, <1>5, <1>6, <1>7, <1>8 DEF EgressNext, LoopStep, WatchStep

\* The watch and the loop keep their types (internal/service/egress_windows.go).
THEOREM EgressTypes == EgressSpec => []EgressTypeOK
<1>1. EgressTypeOK /\ [EgressNext]_egressVars => EgressTypeOK'
  BY EgressStepTypes
<1> QED
  BY EgressInitTypes, <1>1, PTL DEF EgressSpec

\* Restarts and what is left to be looked at never exceed three between two changes from
\* outside (checkProxyEgress): the inductive form of NoRestartLoop.
THEOREM RestartsAreBounded == EgressSpec => []EgressInv
<1>1. EgressInit => EgressInv
  BY EgressInitTypes, DifferRange DEF EgressInit, EgressInv, RestartsBounded, ToCome, Asleep
<1>2. EgressInv /\ [EgressNext]_egressVars => EgressInv'
  BY EgressStepTypes, EgressStepBound DEF EgressInv
<1> QED
  BY <1>1, <1>2, PTL DEF EgressSpec

\* Restarts do not feed on each other (checkProxyEgress, actedOn).
THEOREM RestartsEnd == EgressSpec => []NoRestartLoop
<1>1. EgressInv => NoRestartLoop
  BY DifferRange DEF EgressInv, EgressTypeOK, RestartsBounded, ToCome, NoRestartLoop
<1> QED
  BY <1>1, RestartsAreBounded, PTL

=============================================================================
