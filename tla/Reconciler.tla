----------------------------- MODULE Reconciler -----------------------------
(***************************************************************************)
(* What a loop that follows a changing demand promises, without saying how *)
(* changes are stored or announced: it looks at the demand only when a     *)
(* look is owed, a change always makes a look owed, and the debt is paid   *)
(* by a look that ends on the demand as it is then - never on an older one.*)
(***************************************************************************)
CONSTANT Demand  \* the possible demands

VARIABLES
  desired,  \* what is asked for now
  seen,     \* what the loop last acted on
  owed      \* another look is owed

vars == <<desired, seen, owed>>

Init ==
  /\ desired \in Demand /\ seen \in Demand
  /\ owed = TRUE

\* The demand changes; the loop keeps what it has until it looks again.
Change == desired' \in Demand /\ owed' = TRUE /\ UNCHANGED seen

\* A look that something has overtaken: whatever it found, another is owed.
LookStale == owed /\ seen' \in Demand /\ owed' = TRUE /\ UNCHANGED desired

\* A look nothing has overtaken.
LookFresh == owed /\ seen' = desired /\ owed' = FALSE /\ UNCHANGED desired

\* The debt is found to be void: what the loop acted on is the demand.
Settle == owed /\ seen = desired /\ owed' = FALSE /\ UNCHANGED <<desired, seen>>

Next == Change \/ LookStale \/ LookFresh \/ Settle

Spec == Init /\ [][Next]_vars

=============================================================================
