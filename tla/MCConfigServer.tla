--------------------------- MODULE MCConfigServer ---------------------------
(***************************************************************************)
(* Small instances of FeedServer, AdminAuth and ConfigRules side by side:  *)
(* a behaviour is one of the store, of the sign-ins or of a client's file, *)
(* and the others stay at an initial state.  What passes between them is a *)
(* role and a body, and each module takes any.                             *)
(*                                                                         *)
(* Nothing here is about what eventually happens, so that a larger         *)
(* instance of EgressWatch than MCEngine's fits beside them: three         *)
(* adapters, two that fail and one that answers, and three changes.        *)
(***************************************************************************)
EXTENDS FeedServer, AdminAuth, MCConfigRules, EgressWatch, TLC

CONSTANTS n1, n2, b1, b2, m1, e1

View(n, b, m) == [name |-> n, body |-> b, mig |-> m]
MCSubmitted == {View(n1, b1, m1), View(n2, b2, Bad)}
Symmetry == Permutations(Keys) \cup Permutations(Passwords) \cup Permutations(Tokens)
              \cup Permutations(Calls)

NoStore == Init
NoSigns == admin = NoPassword /\ ~ldap /\ AuthInit
NoFile  == RulesInit
NoWatch == EgressInit /\ reach = {} /\ route = e1 /\ ~byUser

MCInit == Init /\ AuthInit /\ RulesInit /\ NoWatch
MCNext ==
  \/ NoSigns /\ NoFile /\ NoWatch /\ Next /\ UNCHANGED <<authVars, ruleVars, egressVars>>
  \/ NoStore /\ NoFile /\ NoWatch /\ AuthNext /\ UNCHANGED <<vars, ruleVars, egressVars>>
  \/ NoStore /\ NoSigns /\ NoWatch /\ RulesNext /\ UNCHANGED <<vars, authVars, egressVars>>
  \/ NoStore /\ NoSigns /\ NoFile /\ EgressNext /\ UNCHANGED <<vars, authVars, ruleVars>>
MCSpec == MCInit /\ [][MCNext]_<<vars, authVars, ruleVars, egressVars>>

Types == TypeOK /\ AuthTypeOK /\ RulesTypeOK /\ EgressTypeOK

=============================================================================
