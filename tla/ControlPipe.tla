----------------------------- MODULE ControlPipe -----------------------------
(***************************************************************************)
(* The control pipe (internal/ipc/server.go) and the goroutine that keeps  *)
(* its access list in step with the user at the console (internal/service/ *)
(* runtime.go:120-200): Serve, Rebind and Close share the published        *)
(* listener under a mutex and nothing else.                                *)
(*                                                                         *)
(* Requests are not modelled, only whether somebody accepts them.  The     *)
(* pipe library is external: a Close ends the listener or hangs and leaves *)
(* it serving, and a listener cannot be made while another one is open.    *)
(***************************************************************************)
EXTENDS Integers

CONSTANTS
  Users, Nobody,     \* who may sit at the console; nobody
  Unset,             \* no access list: nothing has been bound yet
  Listeners, None    \* listeners of the pipe library; no listener

ASSUME PipeAssumption ==
  /\ Nobody \notin Users /\ Unset \notin Users /\ Unset # Nobody
  /\ None \notin Listeners

VARIABLES
  user,      \* the user at the console
  open,      \* listeners that have not been closed
  grants,    \* whom each listener's access list names
  ln, sddl,  \* Server.ln and Server.sddl
  rpc,       \* where superviseControlPipe is, or Run before it
  bound,     \* local variable of superviseControlPipe
  sid,       \* the user Rebind binds for
  old, prev, \* local variables of Rebind
  stuck,     \* local variable of Rebind: the old listener did not close
  spc, on,   \* where Serve is, and the listener it accepts on
  stopping,  \* the service context is done
  closes,    \* how many of the two calls of Server.Close have been made
  raced,     \* history: the user changed between the first Rebind and the
             \* first look of superviseControlPipe
  lost,      \* history: neither the new nor the old binding could be made
  flaked     \* history: an Accept failed on a listener that is open

pipeVars == <<open, grants>>
bindVars == <<ln, sddl>>
loopVars == <<bound, sid, old, prev, stuck>>
serveVars == <<spc, on>>
stopVars == <<stopping, closes>>
histVars == <<raced, lost, flaked>>
vars == <<user, pipeVars, bindVars, rpc, loopVars, serveVars, stopVars, histVars>>

Seat == Users \cup {Nobody}

TypeOK ==
  /\ user \in Seat /\ bound \in Seat /\ sid \in Seat
  /\ open \subseteq Listeners /\ grants \in [Listeners -> Seat]
  /\ ln \in Listeners \cup {None} /\ old \in Listeners \cup {None}
  /\ on \in Listeners \cup {None}
  /\ sddl \in Seat \cup {Unset} /\ prev \in Seat \cup {Unset}
  /\ rpc \in {"start", "started", "idle", "close", "listen", "restore", "ended", "aborted"}
  /\ spc \in {"look", "accept", "failed", "returned"}
  /\ stuck \in BOOLEAN /\ stopping \in BOOLEAN /\ raced \in BOOLEAN /\ lost \in BOOLEAN
  /\ flaked \in BOOLEAN
  /\ closes \in 0..2

Init ==
  /\ user \in Seat
  /\ open = {} /\ grants = [l \in Listeners |-> Nobody]
  /\ ln = None /\ sddl = Unset
  /\ rpc = "start" /\ bound = Nobody /\ sid = Nobody
  /\ old = None /\ prev = Unset /\ stuck = FALSE
  /\ spc = "look" /\ on = None
  /\ stopping = FALSE /\ closes = 0 /\ raced = FALSE /\ lost = FALSE
  /\ flaked = FALSE

-----------------------------------------------------------------------------
(* The pipe library. *)

\* ListenPipe makes a listener no one refers to any more, and publishes it.
ListenFor(u) ==
  /\ open = {}
  /\ \E l \in Listeners \ {ln, old, on} :
       /\ open' = {l} /\ grants' = [grants EXCEPT ![l] = u]
       /\ ln' = l
  /\ sddl' = u

\* A Close that ends its listener, if there is one.
Ended(l) == open' = open \ {l} /\ UNCHANGED grants

-----------------------------------------------------------------------------
(* Run's first Rebind, and superviseControlPipe with its Rebinds. *)

\* Rebind begins: the listener is taken out of sight of Serve.
Take(u) ==
  /\ sid' = u /\ old' = ln /\ prev' = sddl /\ stuck' = FALSE
  /\ ln' = None /\ rpc' = "close"

FirstBindOpen ==  \* mutant: the first listener is made without an access list
  /\ rpc = "start"
  /\ \/ ListenFor(Unset) /\ rpc' = "started"
     \/ UNCHANGED <<pipeVars, bindVars>> /\ rpc' = "aborted"
  /\ UNCHANGED <<user, loopVars, serveVars, stopVars, histVars>>

\* Run: without a first binding there is no service.
FirstBind ==
  /\ rpc = "start"
  /\ \/ ListenFor(user) /\ rpc' = "started"
     \/ UNCHANGED <<pipeVars, bindVars>> /\ rpc' = "aborted"
  /\ UNCHANGED <<user, loopVars, serveVars, stopVars, histVars>>

\* The supervisor goroutine asks for the user again before its loop.
StartSupervising ==
  /\ rpc = "started" /\ rpc' = "idle"
  /\ bound' = user /\ raced' = (user # sddl)
  /\ UNCHANGED <<user, pipeVars, bindVars, sid, old, prev, stuck, serveVars, stopVars,
                 lost, flaked>>

\* Every pipeRebindInterval.
Poll ==
  /\ rpc = "idle"
  /\ \/ /\ stopping /\ rpc' = "ended"
        /\ UNCHANGED <<ln, sid, old, prev, stuck>>
     \/ ~stopping /\ user # bound /\ Take(user)
  /\ UNCHANGED <<user, pipeVars, sddl, bound, serveVars, stopVars, histVars>>

\* The old listener is closed in a goroutine of its own; after closeGrace Rebind
\* goes on without it.
CloseOld ==
  /\ rpc = "close" /\ rpc' = "listen"
  /\ \/ Ended(old) /\ UNCHANGED stuck
     \/ old # None /\ stuck' = TRUE /\ UNCHANGED pipeVars
  /\ UNCHANGED <<user, bindVars, bound, sid, old, prev, serveVars, stopVars, histVars>>

\* The end of Rebind, which forgets its locals.
Rebound(b) ==
  /\ rpc' = "idle" /\ bound' = b
  /\ sid' = Nobody /\ old' = None /\ prev' = Unset /\ stuck' = FALSE

\* The new binding.
Listen ==
  /\ rpc = "listen"
  /\ ListenFor(sid) /\ Rebound(sid)
  /\ UNCHANGED <<user, serveVars, stopVars, histVars>>

KeepNothing ==  \* mutant: a listener that will not close is given up all the same
  /\ rpc = "listen" /\ stuck
  /\ Rebound(bound)
  /\ UNCHANGED <<user, pipeVars, bindVars, serveVars, stopVars, histVars>>

KeepOldAsNew ==  \* mutant: the kept listener is recorded with the new access list
  /\ rpc = "listen" /\ stuck
  /\ ln' = old /\ sddl' = sid
  /\ Rebound(bound)
  /\ UNCHANGED <<user, pipeVars, serveVars, stopVars, histVars>>

\* The new binding is refused and the old listener never closed: keep it.
KeepOld ==
  /\ rpc = "listen" /\ stuck
  /\ ln' = old /\ sddl' = prev
  /\ Rebound(bound)
  /\ UNCHANGED <<user, pipeVars, serveVars, stopVars, histVars>>

\* The new binding is refused and the old listener is gone.
Refused ==
  /\ rpc = "listen" /\ ~stuck
  /\ IF prev # Unset THEN rpc' = "restore" /\ UNCHANGED loopVars ELSE Rebound(bound)
  /\ UNCHANGED <<user, pipeVars, bindVars, serveVars, stopVars, histVars>>

RestoreAsNew ==  \* mutant: the restored binding is recorded as the new one
  /\ rpc = "restore"
  /\ \/ ListenFor(prev) /\ Rebound(sid) /\ UNCHANGED lost
     \/ UNCHANGED <<pipeVars, bindVars>> /\ Rebound(bound) /\ lost' = TRUE
  /\ UNCHANGED <<user, serveVars, stopVars, raced, flaked>>

\* The previous binding is put back, or nothing is left.
Restore ==
  /\ rpc = "restore"
  /\ \/ ListenFor(prev) /\ UNCHANGED lost
     \/ UNCHANGED <<pipeVars, bindVars>> /\ lost' = TRUE
  /\ Rebound(bound)
  /\ UNCHANGED <<user, serveVars, stopVars, raced, flaked>>

-----------------------------------------------------------------------------
(* Serve, which Run starts once the pipe is bound. *)

Running == rpc \notin {"start", "aborted"}

ServeLook ==
  /\ Running /\ spc = "look"
  /\ \/ ln # None /\ spc' = "accept" /\ on' = ln
     \/ ln = None /\ stopping /\ spc' = "returned" /\ UNCHANGED on
  /\ UNCHANGED <<user, pipeVars, bindVars, rpc, loopVars, stopVars, histVars>>

\* Accept returns a client's connection, or an error: the listener was closed, or
\* the system refused it another instance of the pipe.
ServeAccept ==
  /\ spc = "accept"
  /\ \/ on \in open /\ spc' = "look" /\ on' = None /\ UNCHANGED flaked
     \/ stopping /\ spc' = "returned" /\ UNCHANGED <<on, flaked>>
     \/ ~stopping /\ spc' = "failed" /\ UNCHANGED on
        /\ flaked' = (flaked \/ on \in open)
  /\ UNCHANGED <<user, pipeVars, bindVars, rpc, loopVars, stopVars, raced, lost>>

ServeGivesUp ==  \* mutant: an Accept that fails while no listener is published is final
  /\ spc = "failed"
  /\ \/ ln \notin {on, None} /\ spc' = "look" /\ on' = None
     \/ ln \in {on, None} /\ spc' = "returned" /\ UNCHANGED on
  /\ UNCHANGED <<user, pipeVars, bindVars, rpc, loopVars, stopVars, histVars>>

\* Is the listener that failed still the published one?
ServeCheck ==
  /\ spc = "failed"
  /\ \/ ln # on /\ spc' = "look" /\ on' = None
     \/ ln = on /\ spc' = "returned" /\ UNCHANGED on
  /\ UNCHANGED <<user, pipeVars, bindVars, rpc, loopVars, stopVars, histVars>>

-----------------------------------------------------------------------------
(* The rest of the world. *)

\* Somebody logs on, logs off or takes over.
Switch ==
  /\ user' \in Seat \ {user}
  /\ UNCHANGED <<pipeVars, bindVars, rpc, loopVars, serveVars, stopVars, histVars>>

Stop ==
  /\ ~stopping /\ stopping' = TRUE
  /\ UNCHANGED <<user, pipeVars, bindVars, rpc, loopVars, serveVars, closes, histVars>>

\* Server.Close, called by Serve's goroutine and by Run on its way out.
Close ==
  /\ Running /\ stopping /\ closes < 2 /\ closes' = closes + 1
  /\ ln' = None
  /\ open' \in {open \ {ln}, open}
  /\ UNCHANGED <<user, grants, sddl, rpc, loopVars, serveVars, stopping, histVars>>

BindStep ==
  FirstBind \/ StartSupervising \/ Poll \/ CloseOld \/ Listen \/ KeepOld \/ Refused \/ Restore
ServeStep == ServeLook \/ ServeAccept \/ ServeCheck

Next == BindStep \/ ServeStep \/ Switch \/ Stop \/ Close

Spec == Init /\ [][Next]_vars

\* Goroutines are scheduled, and a Close and a ListenPipe that fail time and again
\* do not fail for ever.  No client has to connect.
FairSpec ==
  /\ Spec
  /\ WF_vars(BindStep)
  /\ SF_vars(CloseOld /\ ~stuck') /\ SF_vars(Listen)
  /\ WF_vars(ServeLook) /\ WF_vars(ServeAccept /\ on \notin open) /\ WF_vars(ServeCheck)

-----------------------------------------------------------------------------
(* Safety. *)

\* Serve survives every Rebind: before the service stops it returns only if an
\* Accept failed on an open listener, and from none whose listener was replaced,
\* whatever the order in which Serve and Rebind look at it (server.go:122-152).
ServeSurvives == spc = "returned" => stopping \/ flaked

\* The published listener is open and its access list is the recorded one, on which
\* the next Rebind's way back depends (server.go:27-31, 84-104).
BindingIsTrue == ln # None => ln \in open /\ grants[ln] = sddl

\* Between two Rebinds something listens, unless both bindings were refused at once
\* (server.go:27-29).
StaysReachable == rpc = "idle" /\ ~stopping /\ ~lost => ln # None

(* Liveness. *)

\* The pipe follows the user: once the same user stays at the console, its access
\* list names him for good (runtime.go:172-200), except when the user changed under
\* the start of the supervisor or both bindings were refused.
Granted == ln # None /\ sddl = user
Steady == <>[][FALSE]_user
FollowsUser == Steady => <>[](Granted \/ stopping \/ raced \/ lost \/ rpc = "aborted")

\* What runtime.go:172-173 says of superviseControlPipe: it keeps the access list in
\* step with whoever is logged in, on first logon in particular.
KeepsInStep == Steady => <>[](Granted \/ stopping \/ lost \/ rpc = "aborted")

=============================================================================
