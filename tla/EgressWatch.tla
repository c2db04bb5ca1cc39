---------------------------- MODULE EgressWatch ----------------------------
(***************************************************************************)
(* The watch over the proxy's egress (internal/service/egress_windows.go). *)
(* The engine's configuration binds the proxy dial to the adapter through  *)
(* which the routing table reached the proxy when it was generated.  The   *)
(* watch dials the proxy from that adapter and, if that fails, from the    *)
(* others; a pin that is dead while another adapter works is restarted     *)
(* away.  Dials take time: the network, the engine and the pin may all     *)
(* change between the first one and the verdict.                           *)
(***************************************************************************)
EXTENDS Integers, FiniteSets

CONSTANTS
  Adapters,     \* network adapters that are up, our own tunnel not among them
  NoPin,        \* the empty pin
  MaxChanges    \* bound: changes of the network, of the user's mind and engine failures

ASSUME EgressAssumption == NoPin \notin Adapters /\ MaxChanges \in Nat

VARIABLES
  reach,     \* the adapters from which the proxy answers
  route,     \* the adapter the routing table names for the proxy while the engine is down
  byUser,    \* the user named the adapter, or the proxy is named by a domain
  enabled,   \* the tunnel is enabled
  eng,       \* the engine: down (about to be generated), starting, running
  again,     \* a restart is asked for
  pin,       \* r.egress: the adapter the running configuration binds to
  verdict,   \* r.egressHealth
  via,       \* r.egressVia
  watch,     \* the watch: the pin it looks at and the adapters it has not tried
  actedOn,   \* the pin a restart was last spent on
  changes,   \* how many changes there were
  spent      \* history: restarts the watch asked for since the last change

egressVars == <<reach, route, byUser, enabled, eng, again, pin, verdict, via, watch, actedOn, changes, spent>>

Pins     == Adapters \cup {NoPin}
Asleep   == [at |-> "wait", pin |-> NoPin, left |-> {}]
Verdicts == {"unknown", "ok", "stale", "proxy-down"}

EgressTypeOK ==
  /\ reach \subseteq Adapters /\ route \in Pins /\ {byUser, enabled, again} \subseteq BOOLEAN
  /\ eng \in {"down", "starting", "running"}
  /\ pin \in Pins /\ verdict \in Verdicts /\ via \in Pins /\ actedOn \in Pins
  /\ watch \in [at : {"wait", "pinned", "others"}, pin : Pins, left : SUBSET Adapters]
  /\ (watch.at # "wait" => watch.pin \in Adapters \ watch.left)
  /\ (verdict = "stale" => via \in Adapters)
  /\ changes \in 0..MaxChanges /\ spent \in Nat

EgressInit ==
  /\ reach \in SUBSET Adapters /\ route \in Pins /\ byUser \in BOOLEAN
  /\ enabled = TRUE /\ eng = "down" /\ again = FALSE
  /\ pin = NoPin /\ verdict = "unknown" /\ via = NoPin
  /\ watch = Asleep /\ actedOn = NoPin /\ changes = 0 /\ spent = 0

Outside == <<reach, route, byUser, enabled>>
Verdict == <<verdict, via, watch, actedOn, spent>>

-----------------------------------------------------------------------------
(* The service loop, as far as the watch can tell. *)

\* newEgressPin, resolveProxyEgress: the pin is ours only for a proxy with an address and
\* no adapter of the user's.
Generate ==
  /\ enabled /\ eng = "down" /\ eng' = "starting" /\ again' = FALSE
  /\ pin' = IF byUser THEN NoPin ELSE route
  /\ UNCHANGED <<changes>> /\ UNCHANGED Outside /\ UNCHANGED Verdict

Settle ==
  /\ eng = "starting" /\ eng' = "running"
  /\ UNCHANGED <<again, pin, changes>> /\ UNCHANGED Outside /\ UNCHANGED Verdict

TakeRestart ==
  /\ again /\ eng # "down" /\ eng' = "down" /\ again' = FALSE
  /\ UNCHANGED <<pin, changes>> /\ UNCHANGED Outside /\ UNCHANGED Verdict

-----------------------------------------------------------------------------
(* superviseProxyEgress, checkProxyEgress. *)

PublishVerdict(h, a) == verdict' = h /\ via' = a /\ watch' = Asleep
Rest == UNCHANGED <<eng, pin, changes>> /\ UNCHANGED Outside

\* A change notification or the timer.  With the engine not settled there is nothing to
\* judge; nor is there without a pin.
EngineSettled == enabled /\ eng = "running"

WakeKeeps ==  \* mutant: the verdict on an engine that is gone stays
  /\ watch.at = "wait"
  /\ \/ ~EngineSettled /\ UNCHANGED <<verdict, via, watch>>
     \/ EngineSettled /\ pin = NoPin /\ PublishVerdict("unknown", NoPin)
     \/ /\ EngineSettled /\ pin # NoPin /\ UNCHANGED <<verdict, via>>
        /\ watch' = [at |-> "pinned", pin |-> pin, left |-> Adapters \ {pin}]
  /\ UNCHANGED <<again, actedOn, spent>> /\ Rest

WakeWatch ==
  /\ watch.at = "wait"
  /\ \/ ~EngineSettled /\ verdict' = "unknown" /\ UNCHANGED <<via, watch>>
     \/ EngineSettled /\ pin = NoPin /\ PublishVerdict("unknown", NoPin)
     \/ /\ EngineSettled /\ pin # NoPin /\ UNCHANGED <<verdict, via>>
        /\ watch' = [at |-> "pinned", pin |-> pin, left |-> Adapters \ {pin}]
  /\ UNCHANGED <<again, actedOn, spent>> /\ Rest

DialPinned ==
  /\ watch.at = "pinned"
  /\ IF watch.pin \in reach
       THEN PublishVerdict("ok", watch.pin)
       ELSE watch' = [watch EXCEPT !.at = "others"] /\ UNCHANGED <<verdict, via>>
  /\ UNCHANGED <<again, actedOn, spent>> /\ Rest

DialOtherForgets(a) ==  \* mutant: what a restart was spent on is not kept
  /\ watch.at = "others" /\ a \in watch.left /\ a \in reach
  /\ PublishVerdict("stale", a)
  /\ again' = TRUE /\ spent' = spent + 1
  /\ UNCHANGED actedOn /\ Rest

DialOtherOnce(a) ==  \* mutant: a restart is spent once, whatever the pin
  /\ watch.at = "others" /\ a \in watch.left /\ a \in reach
  /\ PublishVerdict("stale", a)
  /\ IF actedOn # NoPin
       THEN UNCHANGED <<again, actedOn, spent>>
       ELSE again' = TRUE /\ actedOn' = watch.pin /\ spent' = spent + 1
  /\ Rest

\* Another adapter answers: the pin is stale, and a restart is spent on it.
DialOther(a) ==
  /\ watch.at = "others" /\ a \in watch.left /\ a \in reach
  /\ PublishVerdict("stale", a)
  /\ IF watch.pin = actedOn
       THEN UNCHANGED <<again, actedOn, spent>>
       ELSE again' = TRUE /\ actedOn' = watch.pin /\ spent' = spent + 1
  /\ Rest

DialNothing(a) ==
  /\ watch.at = "others" /\ a \in watch.left \ reach
  /\ watch' = [watch EXCEPT !.left = @ \ {a}]
  /\ UNCHANGED <<verdict, via, again, actedOn, spent>> /\ Rest

NoneAnswers ==
  /\ watch.at = "others" /\ watch.left = {} /\ PublishVerdict("proxy-down", NoPin)
  /\ UNCHANGED <<again, actedOn, spent>> /\ Rest

-----------------------------------------------------------------------------
(* What happens outside. *)

Change == changes < MaxChanges /\ changes' = changes + 1 /\ spent' = 0
          /\ UNCHANGED <<pin, verdict, via, watch, actedOn>>

NetworkChanges ==
  /\ Change /\ reach' \in SUBSET Adapters /\ route' \in Pins
  /\ UNCHANGED <<byUser, enabled, eng, again>>

UserEdits ==
  /\ Change /\ byUser' \in BOOLEAN /\ again' = TRUE
  /\ UNCHANGED <<reach, route, enabled, eng>>

\* Disabled, the loop stops the engine and waits.
UserToggles ==
  /\ Change /\ enabled' = ~enabled /\ eng' = "down" /\ again' = FALSE
  /\ UNCHANGED <<reach, route, byUser>>

\* The supervisor starts the engine again with the configuration it has.
EngineFails ==
  /\ Change /\ eng = "running" /\ eng' = "starting"
  /\ UNCHANGED <<reach, route, byUser, enabled, again>>

LoopStep  == Generate \/ Settle \/ TakeRestart
WatchStep ==
  \/ WakeWatch \/ DialPinned \/ NoneAnswers
  \/ \E a \in Adapters : DialOther(a) \/ DialNothing(a)

EgressNext == LoopStep \/ WatchStep \/ NetworkChanges \/ UserEdits \/ UserToggles \/ EngineFails

\* The loop and the watch are goroutines with timers of their own; dials have a timeout.
EgressFairness == WF_egressVars(LoopStep) /\ WF_egressVars(WatchStep)

EgressSpec == EgressInit /\ [][EgressNext]_egressVars /\ EgressFairness

-----------------------------------------------------------------------------
(* Properties. *)

\* Restarts do not feed on each other: however verdicts, restarts and new pins overlap,
\* three of them at most follow a change from outside: one for the pin a verdict was under
\* way about, one for the pin that is bound until the restart is taken, and one for the pin
\* the routing table names then (checkProxyEgress, actedOn).
NoRestartLoop == spent <= 3

\* What the watch would say of the pin that is bound.
Truth == IF ~EngineSettled \/ pin = NoPin THEN "unknown"
         ELSE IF pin \in reach THEN "ok"
         ELSE IF reach # {} THEN "stale" ELSE "proxy-down"

\* When nothing changes any more, what is published comes to be true of the engine that
\* runs, though a verdict on an older pin may come late (checkProxyEgress).
VerdictSettles == <>[](verdict = Truth)

\* A dead pin does not stay bound while another adapter works, unless the last restart was
\* spent on that very pin (superviseProxyEgress).
LeavesDeadPin == []<>(Truth = "stale" => pin = actedOn)

=============================================================================
