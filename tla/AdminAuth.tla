----------------------------- MODULE AdminAuth ------------------------------
(***************************************************************************)
(* Signing in to the config server (internal/configserver/auth.go,         *)
(* ldap.go and the handlers of server.go): the administrator's password on *)
(* file and its first-run setup, sessions in memory, failures counted per  *)
(* client address and the lock-out they lead to.  A local sign-in is one   *)
(* step under the mutex.  A directory sign-in looks at the lock-out, then  *)
(* asks the directory for as long as that takes, and then counts the       *)
(* failure or opens the session; several can be under way at a time.       *)
(* Setup looks for a password on file, writes one, and signs in with it.   *)
(*                                                                         *)
(* The directory's answer is a choice.  Time is one too: a lock-out ends   *)
(* and a session expires at any moment.                                    *)
(***************************************************************************)
EXTENDS Integers, FiniteSets

CONSTANTS
  Addresses,   \* client addresses
  Passwords,   \* passwords that are tried
  NoPassword,  \* no admin.json
  Unreadable,  \* an admin.json that was truncated and not written
  Tokens,      \* session tokens
  Calls,       \* sign-ins that can be under way at a time
  MaxFails     \* maxLoginFails

ASSUME AuthAssumption ==
  /\ NoPassword \notin Passwords /\ Unreadable \notin Passwords /\ NoPassword # Unreadable
  /\ MaxFails \in Nat \ {0} /\ IsFiniteSet(Calls)

VARIABLES
  admin,     \* the password on file
  count,     \* failures counted since the last lock-out, per address
  locked,    \* addresses that are locked out
  session,   \* tokens with the role they stand for
  ldap,      \* directory sign-in is enabled
  call,      \* the sign-ins under way: what they wait for, for whom
  tries      \* history: failures since the address was last let in or waited out

authVars == <<admin, count, locked, session, ldap, call, tries>>

Roles  == {"admin", "operator"}
NoCall == [phase |-> "none"]
MostTries  == MaxFails + Cardinality(Calls)

AuthTypeOK ==
  /\ admin \in Passwords \cup {NoPassword, Unreadable}
  /\ count \in [Addresses -> 0..(MaxFails - 1)]
  /\ locked \subseteq Addresses
  /\ session \in [Tokens -> Roles \cup {"none"}]
  /\ ldap \in BOOLEAN
  /\ call \in [Calls -> {NoCall} \cup [phase : {"bind"}, from : Addresses]
                          \cup [phase : {"store", "enter"}, from : Addresses, pw : Passwords]]
  /\ tries \in [Addresses -> 0..(MostTries + 1)]

AuthInit ==
  /\ admin \in {NoPassword} \cup Passwords
  /\ count = [a \in Addresses |-> 0] /\ locked = {}
  /\ session = [t \in Tokens |-> "none"]
  /\ ldap \in BOOLEAN
  /\ call = [c \in Calls |-> NoCall]
  /\ tries = [a \in Addresses |-> 0]

-----------------------------------------------------------------------------
(* Counting. *)

\* failLocked: the count starts again with every lock-out.
Failed(a) ==
  /\ count' = [count EXCEPT ![a] = IF @ + 1 >= MaxFails THEN 0 ELSE @ + 1]
  /\ locked' = IF count[a] + 1 >= MaxFails THEN locked \cup {a} ELSE locked
  /\ tries' = [tries EXCEPT ![a] = IF @ > MostTries THEN @ ELSE @ + 1]

\* A session is started, and what was counted against the address is forgotten.
LetIn(a, role) ==
  /\ \E t \in Tokens : session[t] = "none" /\ session' = [session EXCEPT ![t] = role]
  /\ count' = [count EXCEPT ![a] = 0] /\ locked' = locked \ {a}
  /\ tries' = [tries EXCEPT ![a] = 0]

\* Login, under the mutex throughout.
Login(a, pw) ==
  \/ a \in locked /\ UNCHANGED <<count, locked, session, tries>>
  \/ a \notin locked /\ admin # pw /\ Failed(a) /\ UNCHANGED session
  \/ a \notin locked /\ admin = pw /\ LetIn(a, "admin")

LocalLogin(a, pw) == Login(a, pw) /\ UNCHANGED <<admin, ldap, call>>

-----------------------------------------------------------------------------
(* First-run setup. *)

SetupBegin(c, a, pw) ==
  /\ call[c] = NoCall /\ admin = NoPassword
  /\ call' = [call EXCEPT ![c] = [phase |-> "store", from |-> a, pw |-> pw]]
  /\ UNCHANGED <<admin, count, locked, session, ldap, tries>>

\* SetPassword; a failed write may leave a file that is no password.
SetupStore(c) ==
  /\ call[c].phase = "store"
  /\ \/ admin' = call[c].pw /\ call' = [call EXCEPT ![c].phase = "enter"]
     \/ admin' \in {admin, Unreadable} /\ call' = [call EXCEPT ![c] = NoCall]
  /\ UNCHANGED <<count, locked, session, ldap, tries>>

SetupEnter(c) ==
  /\ call[c].phase = "enter" /\ Login(call[c].from, call[c].pw)
  /\ call' = [call EXCEPT ![c] = NoCall]
  /\ UNCHANGED <<admin, ldap>>

-----------------------------------------------------------------------------
(* Directory sign-in: handleLDAPLogin. *)

LdapBeginAnyhow(c, a) ==  \* mutant: the lock-out is not looked at
  /\ call[c] = NoCall /\ ldap
  /\ call' = [call EXCEPT ![c] = [phase |-> "bind", from |-> a]]
  /\ UNCHANGED <<admin, count, locked, session, ldap, tries>>

\* LockedOut, then Authenticate with the configuration as it is now.
LdapBegin(c, a) ==
  /\ call[c] = NoCall /\ ldap /\ a \notin locked
  /\ call' = [call EXCEPT ![c] = [phase |-> "bind", from |-> a]]
  /\ UNCHANGED <<admin, count, locked, session, ldap, tries>>

\* A directory that is not enabled is an error like any other, and counted.
LdapDisabled(a) ==
  /\ ~ldap /\ a \notin locked /\ Failed(a)
  /\ UNCHANGED <<admin, session, ldap, call>>

LdapRefuses(c) ==
  /\ call[c].phase = "bind" /\ Failed(call[c].from)
  /\ call' = [call EXCEPT ![c] = NoCall]
  /\ UNCHANGED <<admin, session, ldap>>

LdapGrants(c) ==
  /\ call[c].phase = "bind" /\ \E role \in Roles : LetIn(call[c].from, role)
  /\ call' = [call EXCEPT ![c] = NoCall]
  /\ UNCHANGED <<admin, ldap>>

\* The directory's configuration is saved, switched on or off.
SaveLdap ==
  /\ \E t \in Tokens : session[t] = "admin"
  /\ ldap' = ~ldap
  /\ UNCHANGED <<admin, count, locked, session, call, tries>>

-----------------------------------------------------------------------------
(* Ends. *)

\* Logout, or validate finding the idle time over.
SessionEnds(t) ==
  /\ session[t] # "none" /\ session' = [session EXCEPT ![t] = "none"]
  /\ UNCHANGED <<admin, count, locked, ldap, call, tries>>

LockoutEnds(a) ==
  /\ a \in locked /\ locked' = locked \ {a}
  /\ tries' = [tries EXCEPT ![a] = 0]
  /\ UNCHANGED <<admin, count, session, ldap, call>>

\* The server restarts: sessions and failures are in memory only.
Restart ==
  /\ session' = [t \in Tokens |-> "none"]
  /\ count' = [a \in Addresses |-> 0] /\ locked' = {} /\ tries' = [a \in Addresses |-> 0]
  /\ call' = [c \in Calls |-> NoCall]
  /\ UNCHANGED <<admin, ldap>>

AuthNext ==
  \/ \E a \in Addresses : \/ \E pw \in Passwords : LocalLogin(a, pw)
                          \/ LdapDisabled(a) \/ LockoutEnds(a)
  \/ \E c \in Calls : \/ \E a \in Addresses : LdapBegin(c, a) \/ \E pw \in Passwords : SetupBegin(c, a, pw)
                      \/ SetupStore(c) \/ SetupEnter(c) \/ LdapRefuses(c) \/ LdapGrants(c)
  \/ \E t \in Tokens : SessionEnds(t)
  \/ SaveLdap \/ Restart

AuthSpec == AuthInit /\ [][AuthNext]_authVars

-----------------------------------------------------------------------------
(* Safety. *)

\* However local, first-run and directory sign-ins of an address overlap, between
\* two times it is let in or has waited it gets at most MaxFails wrong answers in,
\* and one more for each sign-in that was already under way (auth.go:102-156,
\* server.go:141-150).
FewTries == \A a \in Addresses : tries[a] <= MostTries

=============================================================================
