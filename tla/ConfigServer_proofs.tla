------------------------- MODULE ConfigServer_proofs -------------------------
(***************************************************************************)
(* Proofs about the config server: AdminAuth, for any addresses, calls,    *)
(* passwords and limit of failures, and FeedServer, for any profiles,      *)
(* contents, keys and operators.                                           *)
(***************************************************************************)
EXTENDS MCConfigServer, ConfigRules_proofs, EgressWatch_proofs, FiniteSetTheorems,
        SequenceTheorems, TLAPS

-----------------------------------------------------------------------------
(* AdminAuth.  While an address is locked out no directory sign-in begins for it; those that
   wait for the directory are what can still be counted. *)

\* The directory sign-ins under way for an address.
Waiting(a) == {c \in Calls : call[c].phase = "bind" /\ call[c].from = a}

TriesOf(a) ==
  /\ a \notin locked => tries[a] <= count[a]
  /\ a \in locked => tries[a] + Cardinality(Waiting(a)) <= MostTries

TriesCounted == \A a \in Addresses : TriesOf(a)

AuthInv == AuthTypeOK /\ TriesCounted

\* There are finitely many of them.
LEMMA WaitingFinite ==
  ASSUME NEW a
  PROVE  /\ Cardinality(Waiting(a)) \in Nat /\ Cardinality(Waiting(a)) <= Cardinality(Calls)
         /\ Cardinality(Calls) \in Nat /\ IsFiniteSet(Waiting(a))
<1>1. Waiting(a) \in SUBSET Calls /\ IsFiniteSet(Calls)
  BY AuthAssumption DEF Waiting
<1>2. IsFiniteSet(Waiting(a)) /\ Cardinality(Waiting(a)) <= Cardinality(Calls)
  BY <1>1, FS_Subset
<1> QED
  BY <1>1, <1>2, FS_CardinalityType

\* Fewer of them leave more room (and for the next state as well).
LEMMA FewerWait ==
  ASSUME NEW S \in SUBSET Calls, NEW T \in SUBSET S
  PROVE  /\ Cardinality(T) \in Nat /\ Cardinality(S) \in Nat
         /\ Cardinality(T) <= Cardinality(S)
         /\ \A c \in S \ T : Cardinality(T) + 1 <= Cardinality(S)
<1>1. IsFiniteSet(S)
  BY AuthAssumption, FS_Subset
<1>2. IsFiniteSet(T) /\ Cardinality(T) <= Cardinality(S) /\ (Cardinality(S) = Cardinality(T) => S = T)
  BY <1>1, FS_Subset
<1>3. Cardinality(T) \in Nat /\ Cardinality(S) \in Nat
  BY <1>1, <1>2, FS_CardinalityType
<1> QED
  BY <1>2, <1>3

\* The type of a sign-in that is under way.
LEMMA CallType ==
  ASSUME AuthTypeOK, NEW c \in Calls
  PROVE  /\ call[c].phase \in {"none", "bind", "store", "enter"}
         /\ call[c].phase # "none" => call[c].from \in Addresses
         /\ call[c].phase \in {"store", "enter"} => call[c].pw \in Passwords
         /\ call[c].phase = "none" => call[c] = NoCall
         /\ call[c].phase = "store" => [call[c] EXCEPT !.phase = "enter"]
                                       \in [phase : {"store", "enter"}, from : Addresses, pw : Passwords]
BY DEF AuthTypeOK, NoCall

\* A failure is counted and keeps the types (failLocked).
LEMMA FailedTypes ==
  ASSUME AuthTypeOK, NEW a \in Addresses, Failed(a)
  PROVE  /\ count' \in [Addresses -> 0..(MaxFails - 1)] /\ locked' \subseteq Addresses
         /\ tries' \in [Addresses -> 0..(MostTries + 1)]
<1>1. MaxFails \in Nat \ {0} /\ MostTries \in Nat
  BY AuthAssumption, FS_CardinalityType DEF MostTries
<1>2. count[a] \in 0..(MaxFails - 1) /\ tries[a] \in 0..(MostTries + 1)
  BY DEF AuthTypeOK
<1>3. (IF count[a] + 1 >= MaxFails THEN 0 ELSE count[a] + 1) \in 0..(MaxFails - 1)
  BY <1>1, <1>2
<1>4. (IF tries[a] > MostTries THEN tries[a] ELSE tries[a] + 1) \in 0..(MostTries + 1)
  BY <1>1, <1>2
<1> QED
  BY <1>3, <1>4 DEF Failed, AuthTypeOK

\* Who is let in starts anew (StartSession, Login).
LEMMA LetInTypes ==
  ASSUME AuthTypeOK, NEW a \in Addresses, NEW role \in Roles, LetIn(a, role)
  PROVE  /\ count' \in [Addresses -> 0..(MaxFails - 1)] /\ locked' \subseteq Addresses
         /\ tries' \in [Addresses -> 0..(MostTries + 1)]
         /\ session' \in [Tokens -> Roles \cup {"none"}]
<1>1. 0 \in 0..(MaxFails - 1) /\ 0 \in 0..(MostTries + 1)
  BY AuthAssumption, FS_CardinalityType DEF MostTries
<1> QED
  BY <1>1 DEF LetIn, AuthTypeOK

\* A sign-in with a password keeps the types (Login).
LEMMA LoginTypes ==
  ASSUME AuthTypeOK, NEW a \in Addresses, NEW pw \in Passwords, Login(a, pw)
  PROVE  /\ count' \in [Addresses -> 0..(MaxFails - 1)] /\ locked' \subseteq Addresses
         /\ tries' \in [Addresses -> 0..(MostTries + 1)]
         /\ session' \in [Tokens -> Roles \cup {"none"}]
<1>1. CASE a \in locked /\ UNCHANGED <<count, locked, session, tries>>
  BY <1>1 DEF AuthTypeOK
<1>2. CASE Failed(a) /\ UNCHANGED session
  BY <1>2, FailedTypes DEF AuthTypeOK
<1>3. CASE LetIn(a, "admin")
  BY <1>3, LetInTypes DEF Roles
<1> QED
  BY <1>1, <1>2, <1>3 DEF Login

\* Every handler keeps the types (auth.go, server.go).
LEMMA AuthStepTypes == AuthTypeOK /\ [AuthNext]_authVars => AuthTypeOK'
<1> SUFFICES ASSUME AuthTypeOK, [AuthNext]_authVars PROVE AuthTypeOK'
  OBVIOUS
<1>0. NoCall \in {NoCall} \cup [phase : {"bind"}, from : Addresses]
                   \cup [phase : {"store", "enter"}, from : Addresses, pw : Passwords]
  OBVIOUS
<1>1. ASSUME NEW a \in Addresses, NEW pw \in Passwords, LocalLogin(a, pw) PROVE AuthTypeOK'
  BY <1>1, LoginTypes DEF LocalLogin, AuthTypeOK
<1>2. ASSUME NEW a \in Addresses, LdapDisabled(a) PROVE AuthTypeOK'
  BY <1>2, FailedTypes DEF LdapDisabled, AuthTypeOK
<1>3. ASSUME NEW a \in Addresses, LockoutEnds(a) PROVE AuthTypeOK'
  <2>1. 0 \in 0..(MostTries + 1)
    BY AuthAssumption, FS_CardinalityType DEF MostTries
  <2> QED
    BY <1>3, <2>1 DEF LockoutEnds, AuthTypeOK
<1>4. ASSUME NEW c \in Calls, NEW a \in Addresses, LdapBegin(c, a) PROVE AuthTypeOK'
  BY <1>4 DEF LdapBegin, AuthTypeOK
<1>5. ASSUME NEW c \in Calls, NEW a \in Addresses, NEW pw \in Passwords, SetupBegin(c, a, pw)
      PROVE  AuthTypeOK'
  BY <1>5 DEF SetupBegin, AuthTypeOK
<1>6. ASSUME NEW c \in Calls, SetupStore(c) PROVE AuthTypeOK'
  <2>1. call[c].phase = "store" /\ UNCHANGED <<count, locked, session, ldap, tries>>
    BY <1>6 DEF SetupStore
  <2>2. call' \in [Calls -> {NoCall} \cup [phase : {"bind"}, from : Addresses]
                              \cup [phase : {"store", "enter"}, from : Addresses, pw : Passwords]]
    BY <1>0, <1>6, <2>1, CallType DEF SetupStore, AuthTypeOK
  <2>3. admin' \in Passwords \cup {NoPassword, Unreadable}
    BY <1>6, <2>1, CallType DEF SetupStore, AuthTypeOK
  <2> QED
    BY <2>1, <2>2, <2>3 DEF AuthTypeOK
<1>7. ASSUME NEW c \in Calls, SetupEnter(c) PROVE AuthTypeOK'
  <2>1. call[c].from \in Addresses /\ call[c].pw \in Passwords /\ Login(call[c].from, call[c].pw)
    BY <1>7, CallType DEF SetupEnter
  <2> QED
    BY <1>0, <1>7, <2>1, LoginTypes DEF SetupEnter, AuthTypeOK
<1>8. ASSUME NEW c \in Calls, LdapRefuses(c) PROVE AuthTypeOK'
  <2>1. call[c].from \in Addresses /\ Failed(call[c].from)
    BY <1>8, CallType DEF LdapRefuses
  <2> QED
    BY <1>0, <1>8, <2>1, FailedTypes DEF LdapRefuses, AuthTypeOK
<1>9. ASSUME NEW c \in Calls, LdapGrants(c) PROVE AuthTypeOK'
  <2>1. call[c].from \in Addresses /\ \E role \in Roles : LetIn(call[c].from, role)
    BY <1>9, CallType DEF LdapGrants
  <2> QED
    BY <1>0, <1>9, <2>1, LetInTypes DEF LdapGrants, AuthTypeOK
<1>10. ASSUME NEW t \in Tokens, SessionEnds(t) PROVE AuthTypeOK'
  BY <1>10 DEF SessionEnds, AuthTypeOK
<1>11. CASE SaveLdap
  BY <1>11 DEF SaveLdap, AuthTypeOK
<1>12. CASE Restart
  <2>1. 0 \in 0..(MaxFails - 1) /\ 0 \in 0..(MostTries + 1)
    BY AuthAssumption, FS_CardinalityType DEF MostTries
  <2> QED
    BY <1>0, <1>12, <2>1 DEF Restart, AuthTypeOK
<1>13. CASE UNCHANGED authVars
  BY <1>13 DEF authVars, AuthTypeOK
<1> QED
  BY <1>1, <1>2, <1>3, <1>4, <1>5, <1>6, <1>7, <1>8, <1>9, <1>10, <1>11, <1>12, <1>13 DEF AuthNext

\* A failure that no sign-in under way is answered with stays within the bound: it only
\* comes to an address that is not locked out (Login, LockedOut).
LEMMA FailedFresh ==
  ASSUME AuthTypeOK, TriesCounted, NEW a \in Addresses, a \notin locked, Failed(a),
         \A b \in Addresses : Waiting(b)' = Waiting(b)
  PROVE  TriesCounted'
<1> SUFFICES ASSUME NEW b \in Addresses PROVE TriesOf(b)'
  BY DEF TriesCounted
<1>1. /\ MaxFails \in Nat \ {0} /\ Cardinality(Calls) \in Nat /\ Cardinality(Waiting(b)) \in Nat
      /\ Cardinality(Waiting(b)) <= Cardinality(Calls)
  BY AuthAssumption, WaitingFinite
<1>2. count[b] \in 0..(MaxFails - 1) /\ tries[b] \in Nat /\ TriesOf(b)
  BY <1>1 DEF AuthTypeOK, TriesCounted, MostTries
<1>3. CASE b # a
  BY <1>2, <1>3 DEF Failed, AuthTypeOK, TriesOf, MostTries
<1>4. CASE b = a
  <2>1. tries[a] <= count[a]
    BY <1>2, <1>4 DEF TriesOf
  <2>2. tries'[a] = tries[a] + 1
    BY <1>1, <1>2, <1>4, <2>1 DEF Failed, AuthTypeOK, MostTries
  <2>3. CASE count[a] + 1 >= MaxFails
    BY <1>1, <1>2, <1>4, <2>1, <2>2, <2>3 DEF Failed, TriesOf, MostTries
  <2>4. CASE ~(count[a] + 1 >= MaxFails)
    BY <1>1, <1>2, <1>4, <2>1, <2>2, <2>4 DEF Failed, AuthTypeOK, TriesOf
  <2> QED
    BY <2>3, <2>4
<1> QED
  BY <1>3, <1>4

\* The directory's refusal counts for an address that may be locked out by now, and is one
\* less to wait for (handleLDAPLogin).
LEMMA RefusedCounted ==
  ASSUME AuthTypeOK, TriesCounted, NEW c \in Calls, LdapRefuses(c)
  PROVE  TriesCounted'
<1> DEFINE a == call[c].from
<1>1. a \in Addresses /\ Failed(a) /\ call[c].phase = "bind" /\ call' = [call EXCEPT ![c] = NoCall]
  BY CallType DEF LdapRefuses
<1> SUFFICES ASSUME NEW b \in Addresses PROVE TriesOf(b)'
  BY DEF TriesCounted
<1>2. Waiting(b)' = Waiting(b) \ {c}
  BY <1>1 DEF Waiting, AuthTypeOK, NoCall
<1>3. /\ MaxFails \in Nat \ {0} /\ Cardinality(Calls) \in Nat
      /\ Cardinality(Waiting(b)) \in Nat /\ Cardinality(Waiting(b)) <= Cardinality(Calls)
      /\ Cardinality(Waiting(b)') \in Nat /\ Cardinality(Waiting(b)') <= Cardinality(Waiting(b))
      /\ b = a => Cardinality(Waiting(b)') + 1 <= Cardinality(Waiting(b))
  <2>1. Waiting(b) \in SUBSET Calls /\ Waiting(b)' \in SUBSET Waiting(b)
    BY <1>2 DEF Waiting
  <2>2. b = a => c \in Waiting(b) \ Waiting(b)'
    BY <1>1, <1>2 DEF Waiting
  <2> HIDE DEF a
  <2> QED
    BY <2>1, <2>2, AuthAssumption, WaitingFinite, FewerWait
<1>4. count[b] \in 0..(MaxFails - 1) /\ tries[b] \in Nat /\ TriesOf(b)
  BY <1>3 DEF AuthTypeOK, TriesCounted, MostTries
<1> HIDE DEF a
<1>5. CASE b # a
  BY <1>1, <1>3, <1>4, <1>5 DEF Failed, AuthTypeOK, TriesOf, MostTries
<1>6. CASE b = a /\ b \in locked
  <2>1. b \in locked' /\ tries'[b] = IF tries[b] > MostTries THEN tries[b] ELSE tries[b] + 1
    BY <1>1, <1>6 DEF Failed, AuthTypeOK
  <2> QED
    BY <1>3, <1>4, <1>6, <2>1 DEF TriesOf, MostTries
<1>7. CASE b = a /\ b \notin locked
  <2>1. tries[a] <= count[a]
    BY <1>4, <1>7 DEF TriesOf
  <2>2. tries'[a] = tries[a] + 1
    BY <1>1, <1>3, <1>4, <1>7, <2>1 DEF Failed, AuthTypeOK, MostTries
  <2>3. CASE count[a] + 1 >= MaxFails
    BY <1>1, <1>3, <1>4, <1>7, <2>1, <2>2, <2>3 DEF Failed, TriesOf, MostTries
  <2>4. CASE ~(count[a] + 1 >= MaxFails)
    BY <1>1, <1>3, <1>4, <1>7, <2>1, <2>2, <2>4 DEF Failed, AuthTypeOK, TriesOf
  <2> QED
    BY <2>3, <2>4
<1> QED
  BY <1>5, <1>6, <1>7

\* Whoever is let in has no tries against him, whatever is under way (Login, StartSession).
LEMMA LetInCounted ==
  ASSUME AuthTypeOK, TriesCounted, NEW a \in Addresses, NEW role \in Roles, LetIn(a, role),
         \A b \in Addresses : Waiting(b)' \in SUBSET Waiting(b)
  PROVE  TriesCounted'
<1> SUFFICES ASSUME NEW b \in Addresses PROVE TriesOf(b)'
  BY DEF TriesCounted
<1>1. /\ Cardinality(Waiting(b)') \in Nat /\ Cardinality(Waiting(b)) \in Nat
      /\ Cardinality(Waiting(b)') <= Cardinality(Waiting(b)) /\ MostTries \in Nat
  <2>1. Waiting(b) \in SUBSET Calls /\ Waiting(b)' \in SUBSET Waiting(b)
    BY DEF Waiting
  <2> QED
    BY <2>1, FewerWait, AuthAssumption, FS_CardinalityType DEF MostTries
<1>2. TriesOf(b) /\ tries[b] \in Nat
  BY <1>1 DEF TriesCounted, AuthTypeOK
<1>3. CASE b = a
  BY <1>3 DEF LetIn, AuthTypeOK, TriesOf
<1>4. CASE b # a
  BY <1>1, <1>2, <1>4 DEF LetIn, AuthTypeOK, TriesOf
<1> QED
  BY <1>3, <1>4

\* A sign-in with a password is checked and counted under the mutex (Login).
LEMMA LoginCounted ==
  ASSUME AuthTypeOK, TriesCounted, NEW a \in Addresses, NEW pw \in Passwords, Login(a, pw),
         \A b \in Addresses : Waiting(b)' = Waiting(b)
  PROVE  TriesCounted'
<1>1. CASE UNCHANGED <<count, locked, session, tries>>
  BY <1>1 DEF TriesCounted, TriesOf
<1>2. CASE a \notin locked /\ Failed(a)
  BY <1>2, FailedFresh
<1>3. CASE LetIn(a, "admin")
  <2>1. "admin" \in Roles /\ \A b \in Addresses : Waiting(b)' \in SUBSET Waiting(b)
    BY DEF Roles
  <2> QED
    BY <1>3, <2>1, LetInCounted
<1> QED
  BY <1>1, <1>2, <1>3 DEF Login

\* Every handler keeps the account of the tries (auth.go, server.go).
LEMMA AuthStepCounted == AuthTypeOK /\ TriesCounted /\ [AuthNext]_authVars => TriesCounted'
<1> SUFFICES ASSUME AuthTypeOK, TriesCounted, [AuthNext]_authVars PROVE TriesCounted'
  OBVIOUS
<1>1. ASSUME UNCHANGED <<count, locked, tries>>, \A b \in Addresses : b \in locked => Waiting(b)' = Waiting(b)
      PROVE  TriesCounted'
  BY <1>1 DEF TriesCounted, TriesOf
<1>2. ASSUME NEW a \in Addresses, NEW pw \in Passwords, LocalLogin(a, pw) PROVE TriesCounted'
  <2>1. Login(a, pw) /\ \A b \in Addresses : Waiting(b)' = Waiting(b)
    BY <1>2 DEF LocalLogin, Waiting
  <2> QED
    BY <2>1, LoginCounted
<1>3. ASSUME NEW a \in Addresses, LdapDisabled(a) PROVE TriesCounted'
  <2>1. a \notin locked /\ Failed(a) /\ \A b \in Addresses : Waiting(b)' = Waiting(b)
    BY <1>3 DEF LdapDisabled, Waiting
  <2> QED
    BY <2>1, FailedFresh
<1>4. ASSUME NEW a \in Addresses, LockoutEnds(a) PROVE TriesCounted'
  <2>1. /\ \A b \in Addresses : Waiting(b)' = Waiting(b)
        /\ locked' = locked \ {a} /\ tries' = [tries EXCEPT ![a] = 0] /\ count' = count
    BY <1>4 DEF LockoutEnds, Waiting
  <2>2. tries \in [Addresses -> Int] /\ \A b \in Addresses : 0 <= count[b]
    BY AuthAssumption DEF AuthTypeOK
  <2> SUFFICES ASSUME NEW b \in Addresses PROVE TriesOf(b)'
    BY DEF TriesCounted
  <2>3. CASE b = a
    BY <2>1, <2>2, <2>3 DEF TriesOf
  <2>4. CASE b # a
    BY <2>1, <2>2, <2>4 DEF TriesCounted, TriesOf
  <2> QED
    BY <2>3, <2>4
<1>5. ASSUME NEW c \in Calls, NEW a \in Addresses, LdapBegin(c, a) PROVE TriesCounted'
  <2>1. \A b \in Addresses : b \in locked => Waiting(b)' = Waiting(b)
    BY <1>5 DEF LdapBegin, Waiting, AuthTypeOK, NoCall
  <2> QED
    BY <1>1, <1>5, <2>1 DEF LdapBegin
<1>6. ASSUME NEW c \in Calls, NEW a \in Addresses, NEW pw \in Passwords, SetupBegin(c, a, pw)
      PROVE  TriesCounted'
  <2>1. \A b \in Addresses : Waiting(b)' = Waiting(b)
    BY <1>6 DEF SetupBegin, Waiting, AuthTypeOK, NoCall
  <2> QED
    BY <1>1, <1>6, <2>1 DEF SetupBegin
<1>7. ASSUME NEW c \in Calls, SetupStore(c) PROVE TriesCounted'
  <2>1. call[c].phase = "store" /\ call'[c].phase # "bind" /\ call' \in [Calls -> {call'[d] : d \in Calls}]
        /\ \A d \in Calls \ {c} : call'[d] = call[d]
    BY <1>7, CallType DEF SetupStore, AuthTypeOK, NoCall
  <2>2. \A b \in Addresses : Waiting(b)' = Waiting(b)
    BY <2>1 DEF Waiting
  <2> QED
    BY <1>1, <1>7, <2>2 DEF SetupStore
<1>8. ASSUME NEW c \in Calls, SetupEnter(c) PROVE TriesCounted'
  <2>1. call[c].from \in Addresses /\ call[c].pw \in Passwords /\ Login(call[c].from, call[c].pw)
    BY <1>8, CallType DEF SetupEnter
  <2>2. \A b \in Addresses : Waiting(b)' = Waiting(b)
    BY <1>8 DEF SetupEnter, Waiting, AuthTypeOK, NoCall
  <2> QED
    BY <2>1, <2>2, LoginCounted
<1>9. ASSUME NEW c \in Calls, LdapRefuses(c) PROVE TriesCounted'
  BY <1>9, RefusedCounted
<1>10. ASSUME NEW c \in Calls, LdapGrants(c) PROVE TriesCounted'
  <2>1. call[c].from \in Addresses /\ \E role \in Roles : LetIn(call[c].from, role)
    BY <1>10, CallType DEF LdapGrants
  <2>2. \A b \in Addresses : Waiting(b)' \in SUBSET Waiting(b)
    BY <1>10 DEF LdapGrants, Waiting, AuthTypeOK, NoCall
  <2> QED
    BY <2>1, <2>2, LetInCounted
<1>11. CASE (\E t \in Tokens : SessionEnds(t)) \/ SaveLdap \/ UNCHANGED authVars
  <2>1. UNCHANGED <<count, locked, tries, call>>
    BY <1>11 DEF SessionEnds, SaveLdap, authVars
  <2> QED
    BY <1>1, <2>1 DEF Waiting
<1>12. CASE Restart
  BY <1>12 DEF Restart, TriesCounted, TriesOf
<1> QED
  BY <1>2, <1>3, <1>4, <1>5, <1>6, <1>7, <1>8, <1>9, <1>10, <1>11, <1>12 DEF AuthNext

\* No address has tried and no call is under way.
LEMMA AuthStart == AuthInit => AuthInv
<1> SUFFICES ASSUME AuthInit PROVE AuthInv
  OBVIOUS
<1>1. 0 \in 0..(MaxFails - 1) /\ 0 \in 0..(MostTries + 1)
  BY AuthAssumption, FS_CardinalityType DEF MostTries
<1>2. AuthTypeOK
  BY <1>1 DEF AuthInit, AuthTypeOK, NoCall
<1>3. TriesCounted
  BY DEF AuthInit, TriesCounted, TriesOf
<1> QED
  BY <1>2, <1>3 DEF AuthInv

\* The account of the tries and the types hold throughout (auth.go, ldap.go): the inductive
\* form of FewTries.
THEOREM AuthAccount == AuthSpec => []AuthInv
<1>1. AuthInv /\ [AuthNext]_authVars => AuthInv'
  BY AuthStepTypes, AuthStepCounted DEF AuthInv
<1> QED
  BY AuthStart, <1>1, PTL DEF AuthSpec

\* However sign-ins overlap, an address gets few tries (auth.go:102-156, server.go:141-150),
\* for any limit of failures and any number of sign-ins under way.
THEOREM TriesAreFew == AuthSpec => []FewTries
<1>1. AuthInv => FewTries
  <2> SUFFICES ASSUME AuthInv, NEW a \in Addresses PROVE tries[a] <= MostTries
    BY DEF FewTries
  <2>1. /\ MaxFails \in Nat \ {0} /\ Cardinality(Calls) \in Nat /\ Cardinality(Waiting(a)) \in Nat
        /\ count[a] \in 0..(MaxFails - 1) /\ tries[a] \in 0..(MaxFails + Cardinality(Calls) + 1)
    BY AuthAssumption, WaitingFinite DEF AuthInv, AuthTypeOK, MostTries
  <2> QED
    BY <2>1 DEF AuthInv, TriesCounted, TriesOf, MostTries
<1> QED
  BY <1>1, AuthAccount, PTL

-----------------------------------------------------------------------------
(* FeedServer.  What is on disk fits or will fit once the operation that holds the mutex
   has made the writes it has left. *)

\* The files some writes are of, the writes being each of a file of its own, and what a
\* file holds after them.
Of(t)        == {t[i].at : i \in 1..Len(t)}
Distinct(t)  == \A i, j \in 1..Len(t) : t[i].at = t[j].at => i = j
After(d, t, f) ==
  IF f \in Of(t) THEN t[CHOOSE i \in 1..Len(t) : t[i].at = f].put ELSE d[f]

\* A body is written before its migration and removed after it.
Ordered(t) ==
  \A i, j \in 1..Len(t) : \A n \in Names :
    t[i].at = <<n, "body">> /\ t[j].at = <<n, "mig">> =>
      (t[i].put = None => j < i) /\ (t[j].put # None => i < j)

\* What a file holds after writes, one of which is of it.
LEMMA AfterAt ==
  ASSUME NEW d, NEW t, NEW i \in 1..Len(t), Distinct(t)
  PROVE  After(d, t, t[i].at) = t[i].put
BY DEF After, Of, Distinct

\* The same, of every write.
LEMMA AfterAll ==
  ASSUME NEW d, NEW t, Distinct(t)
  PROVE  \A i \in 1..Len(t) : After(d, t, t[i].at) = t[i].put
BY AfterAt, Zenon

\* A file none of the writes is of stays as it is.
LEMMA AfterElse ==
  ASSUME NEW d, NEW t, NEW f, f \notin Of(t)
  PROVE  After(d, t, f) = d[f]
BY DEF After

\* The parts of a profile and their signatures are files of their own.
LEMMA FilesDiffer ==
  /\ \A p \in Parts : /\ p \in Files /\ Sig(p) \in Files /\ Sig(p) \notin Parts
                      /\ Sig(p) # KeyFile /\ p # KeyFile /\ p = <<p[1], p[2]>>
                      /\ <<p[1], "body">> \in Parts /\ p[1] \in Names /\ p[2] \in {"body", "mig"}
  /\ \A p, q \in Parts : Sig(p) = Sig(q) => p = q
  /\ KeyFile \in Files
  /\ \A f \in Files : f = KeyFile \/ f \in Parts \/ \E p \in Parts : f = Sig(p)
  /\ \A n \in Names : /\ <<n, "body">> \in Parts /\ <<n, "mig">> \in Parts
                      /\ Sig(<<n, "body">>) = <<n, "sig">> /\ Sig(<<n, "mig">>) = <<n, "migsig">>
BY DEF Parts, Sig, KeyFile, Files

\* What a write is.
LEMMA WriteIs ==
  /\ \A w \in Writes : w.at \in Files /\ w.put \in Contents(w.at)
  /\ \A f \in Files : \A c \in Contents(f) :
       Write(f, c) \in Writes /\ Write(f, c).at = f /\ Write(f, c).put = c
BY DEF Writes, Write

\* What is left once the first write is done or passed over.
LEMMA Shorter ==
  ASSUME NEW t \in Seq(Writes), t # <<>>, Distinct(t)
  PROVE  /\ Head(t) \in Writes /\ Tail(t) \in Seq(Writes) /\ Distinct(Tail(t))
         /\ Head(t) = t[1] /\ 1 \in 1..Len(t)
         /\ Head(t).at \notin Of(Tail(t)) /\ Of(t) = Of(Tail(t)) \cup {Head(t).at}
         /\ \A i \in 1..Len(Tail(t)) : i \in Nat /\ i + 1 \in 1..Len(t) /\ Tail(t)[i] = t[i + 1]
         /\ Ordered(t) => Ordered(Tail(t))
<1>1. /\ Head(t) \in Writes /\ Tail(t) \in Seq(Writes) /\ Head(t) = t[1] /\ 1 \in 1..Len(t)
      /\ \A i \in 1..Len(Tail(t)) : i \in Nat /\ i + 1 \in 1..Len(t) /\ Tail(t)[i] = t[i + 1]
      /\ \A i \in 1..Len(t) : i = 1 \/ (i - 1 \in 1..Len(Tail(t)) /\ Tail(t)[i - 1] = t[i])
      /\ \A i \in 1..Len(t) : i \in Nat
  OBVIOUS
<1>2. Distinct(Tail(t)) /\ Head(t).at \notin Of(Tail(t))
  BY <1>1 DEF Distinct, Of
<1>3. Of(t) = Of(Tail(t)) \cup {Head(t).at}
  <2>1. ASSUME NEW i \in 1..Len(t) PROVE t[i].at \in Of(Tail(t)) \cup {Head(t).at}
    BY <1>1, <2>1 DEF Of
  <2>2. ASSUME NEW i \in 1..Len(Tail(t)) PROVE Tail(t)[i].at \in Of(t)
    BY <1>1, <2>2 DEF Of
  <2>3. Head(t).at \in Of(t)
    BY <1>1 DEF Of
  <2> QED
    BY <2>1, <2>2, <2>3 DEF Of
<1>4. ASSUME Ordered(t) PROVE Ordered(Tail(t))
  BY <1>1, <1>4 DEF Ordered
<1> QED
  BY <1>1, <1>2, <1>3, <1>4

\* A write that succeeds changes nothing of what there will be in the end.
LEMMA AfterStep ==
  ASSUME NEW d \in Disks, NEW t \in Seq(Writes), t # <<>>, Distinct(t), NEW f \in Files
  PROVE  After([d EXCEPT ![Head(t).at] = Head(t).put], Tail(t), f) = After(d, t, f)
<1> DEFINE d2 == [d EXCEPT ![Head(t).at] = Head(t).put]
           u  == Tail(t)
           h  == Head(t)
<1>0. /\ Distinct(u) /\ Distinct(t) /\ 1 \in 1..Len(t)
      /\ \A i \in 1..Len(u) : i + 1 \in 1..Len(t) /\ u[i] = t[i + 1]
  BY Shorter
<1>1. /\ h = t[1] /\ h.at \notin Of(u) /\ Of(t) = Of(u) \cup {h.at} /\ h.at \in Files
      /\ d2[h.at] = h.put /\ \A g \in Files : g # h.at => d2[g] = d[g]
  BY Shorter, WriteIs DEF Disks
<1> SUFFICES After(d2, u, f) = After(d, t, f)
  OBVIOUS
<1> HIDE DEF d2, u, h
<1>b. \A j \in 1..Len(t) : After(d, t, t[j].at) = t[j].put
  BY AfterAll, Zenon
<1>c. \A j \in 1..Len(u) : After(d2, u, u[j].at) = u[j].put
  <2>1. Distinct(u)
    BY <1>0
  <2> QED
    BY <2>1, AfterAll, Zenon
<1>2. CASE f = h.at
  <2>1. After(d2, u, f) = d2[f]
    BY <1>1, <1>2, AfterElse
  <2>2. PICK i \in 1..Len(t) : t[i] = h
    BY <1>0, <1>1
  <2>3. After(d, t, t[i].at) = t[i].put
    BY <1>b
  <2> QED
    BY <1>1, <1>2, <2>1, <2>2, <2>3
<1>3. CASE f \in Of(u)
  <2>1. PICK i \in 1..Len(u) : u[i].at = f
    BY <1>3 DEF Of
  <2>2. After(d2, u, u[i].at) = u[i].put
    BY <1>0, <1>b, <1>c
  <2>3. After(d, t, t[i + 1].at) = t[i + 1].put
    BY <1>0, <1>b, <1>c
  <2> QED
    BY <1>0, <1>1, <2>1, <2>2, <2>3
<1>4. CASE f \notin Of(t)
  <2>1. After(d2, u, f) = d2[f] /\ After(d, t, f) = d[f] /\ f # h.at
    BY <1>1, <1>4, AfterElse
  <2> QED
    BY <1>1, <2>1
<1> QED
  BY <1>1, <1>2, <1>3, <1>4

\* One that is passed over changes its own file only.
LEMMA AfterSkip ==
  ASSUME NEW d \in Disks, NEW t \in Seq(Writes), t # <<>>, Distinct(t), NEW f \in Files
  PROVE  After(d, Tail(t), f) = IF f = Head(t).at THEN d[f] ELSE After(d, t, f)
<1> DEFINE u == Tail(t)
           h == Head(t)
<1>0. /\ Distinct(u) /\ Distinct(t) /\ 1 \in 1..Len(t)
      /\ \A i \in 1..Len(u) : i + 1 \in 1..Len(t) /\ u[i] = t[i + 1]
  BY Shorter
<1>1. h.at \notin Of(u) /\ Of(t) = Of(u) \cup {h.at}
  BY Shorter
<1> SUFFICES After(d, u, f) = IF f = h.at THEN d[f] ELSE After(d, t, f)
  OBVIOUS
<1> HIDE DEF u, h
<1>b. \A j \in 1..Len(t) : After(d, t, t[j].at) = t[j].put
  BY AfterAll, Zenon
<1>c. \A j \in 1..Len(u) : After(d, u, u[j].at) = u[j].put
  <2>1. Distinct(u)
    BY <1>0
  <2> QED
    BY <2>1, AfterAll, Zenon
<1>2. CASE f \in Of(u)
  <2>1. PICK i \in 1..Len(u) : u[i].at = f
    BY <1>2 DEF Of
  <2>2. After(d, u, u[i].at) = u[i].put
    BY <1>0, <1>b, <1>c
  <2>3. After(d, t, t[i + 1].at) = t[i + 1].put
    BY <1>0, <1>b, <1>c
  <2> QED
    BY <1>0, <1>1, <1>2, <2>1, <2>2, <2>3 
<1>3. CASE f \notin Of(u)
  <2>1. After(d, u, f) = d[f]
    BY <1>3, AfterElse
  <2>2. f # h.at => After(d, t, f) = d[f]
    BY <1>1, <1>3, AfterElse
  <2> QED
    BY <2>1, <2>2
<1> QED
  BY <1>2, <1>3

\* What re-signing writes: one signature for each part that has content and a body and can be
\* read, each over the part's content, in whatever order the profiles are read.
LEMMA ResignDoes ==
  ASSUME disk \in Disks, NEW k \in Keys, NEW u, NEW s \in Resign(k, u)
  PROVE  /\ s \in Seq(Writes) /\ Distinct(s) /\ Ordered(s)
         /\ \A i \in 1..Len(s) : \E p \in Resigned(u) : s[i] = Seal(p, disk[p], k)
         /\ \A p \in Resigned(u) : \E i \in 1..Len(s) : s[i] = Seal(p, disk[p], k)
         /\ \A f \in Of(s) : \E p \in Parts : f = Sig(p)
<1> DEFINE R == Resigned(u)
           D == 1..Cardinality(R)
<1>1. PICK t \in SetToSeqs(R) : s = [i \in DOMAIN t |-> Seal(t[i], disk[t[i]], k)]
  BY DEF Resign
<1>2. IsFiniteSet(R)
  <2>1. IsFiniteSet(Names) /\ IsFiniteSet({"body", "mig"})
    <3>1. IsFiniteSet({"body"}) /\ {"body", "mig"} = {"body"} \cup {"mig"}
      BY FS_Singleton
    <3> QED
      BY <3>1, ServerAssumption, FS_AddElement
  <2>2. IsFiniteSet(Parts)
    BY <2>1, FS_Product DEF Parts
  <2> QED
    BY <2>2, FS_Subset DEF Resigned
<1>3. Cardinality(R) \in Nat
  BY <1>2, FS_CardinalityType
<1>4. t \in [D -> R] /\ \A i, j \in D : i # j => t[i] # t[j]
  BY <1>1 DEF SetToSeqs
<1>5. t \in Injection(D, R)
  BY <1>4 DEF Injection, IsInjective
<1>6. t \in Surjection(D, R)
  <2>1. Cardinality(D) = Cardinality(R)
    BY <1>3, FS_Interval
  <2> QED
    BY <1>2, <1>5, <2>1, FS_Injection
<1>7. \A p \in R : \E i \in D : t[i] = p
  BY <1>6 DEF Surjection
<1>8. DOMAIN s = D /\ DOMAIN t = D /\ \A i \in D : s[i] = Seal(t[i], disk[t[i]], k) /\ t[i] \in R
  BY <1>1, <1>4
<1>9. ASSUME NEW p \in R
      PROVE  /\ Seal(p, disk[p], k) \in Writes /\ p \in Parts
             /\ Seal(p, disk[p], k).at = Sig(p) /\ Sig(p) \notin Parts
  <2>1. p \in Parts /\ Sig(p) \in Files /\ Sig(p) \notin Parts /\ disk[p] \in Contents(p) /\ disk[p] # None
    BY FilesDiffer DEF Resigned, Disks
  <2>2. disk[p] \in Plain /\ <<k, disk[p]>> \in Contents(Sig(p))
    BY <2>1, FilesDiffer DEF Contents, Plain
  <2> QED
    BY <2>1, <2>2, FilesDiffer, WriteIs DEF Seal, Contents
<1>10. s \in Seq(Writes) /\ 1..Len(s) = D
  <2>1. s \in [D -> Writes]
    BY <1>1, <1>8, <1>9
  <2> QED
    BY <1>3, <2>1
<1>11. \A i \in 1..Len(s) : /\ s[i] = Seal(t[i], disk[t[i]], k) /\ t[i] \in R
                            /\ s[i].at = Sig(t[i]) /\ t[i] \in Parts /\ s[i].at \notin Parts
  <2> SUFFICES ASSUME NEW i \in D
               PROVE  /\ s[i] = Seal(t[i], disk[t[i]], k) /\ t[i] \in R
                      /\ s[i].at = Sig(t[i]) /\ t[i] \in Parts /\ s[i].at \notin Parts
    BY <1>10
  <2>1. s[i] = Seal(t[i], disk[t[i]], k) /\ t[i] \in R
    BY <1>8
  <2> QED
    BY <1>9, <2>1
<1>12. Distinct(s)
  <2>1. ASSUME NEW i \in D, NEW j \in D, s[i].at = s[j].at PROVE i = j
    <3>1. Sig(t[i]) = Sig(t[j]) /\ t[i] \in Parts /\ t[j] \in Parts
      BY <1>10, <1>11, <2>1
    <3>2. t[i] = t[j]
      BY <3>1, FilesDiffer
    <3> QED
      BY <1>4, <3>2
  <2> QED
    BY <1>10, <2>1 DEF Distinct
<1>13. Ordered(s)
  <2>1. ASSUME NEW i \in 1..Len(s), NEW n \in Names PROVE s[i].at # <<n, "body">>
    <3>1. s[i].at \notin Parts
      BY <1>11
    <3>2. <<n, "body">> \in Parts
      BY FilesDiffer
    <3> QED
      BY <3>1, <3>2
  <2> QED
    BY <2>1 DEF Ordered
<1>14. \A f \in Of(s) : \E p \in Parts : f = Sig(p)
  BY <1>11 DEF Of
<1>15. \A i \in 1..Len(s) : \E p \in R : s[i] = Seal(p, disk[p], k)
  BY <1>11, Zenon
<1>16. \A p \in R : \E i \in 1..Len(s) : s[i] = Seal(p, disk[p], k)
  <2> SUFFICES ASSUME NEW p \in R
               PROVE  \E i \in 1..Len(s) : s[i] = Seal(p, disk[p], k)
    OBVIOUS
  <2>1. PICK i \in D : t[i] = p
    BY <1>7
  <2>2. i \in 1..Len(s)
    BY <1>10
  <2>3. s[i] = Seal(p, disk[p], k)
    BY <1>8, <2>1
  <2> QED
    BY <2>2, <2>3
<1> QED
  BY <1>10, <1>12, <1>13, <1>14, <1>15, <1>16, Zenon

\* Two pairs of writes in a row are four.
LEMMA JoinTwo ==
  ASSUME NEW a, NEW b, NEW c, NEW d
  PROVE  <<a, b>> \o <<c, d>> = <<a, b, c, d>>
<1> DEFINE S == {a, b, c, d}
           s == <<a, b>>
           t == <<c, d>>
           u == <<a, b, c, d>>
<1>1. s \in Seq(S) /\ t \in Seq(S) /\ u \in Seq(S) /\ Len(s) = 2 /\ Len(t) = 2 /\ Len(u) = 4
  OBVIOUS
<1>2. s \o t \in Seq(S) /\ Len(s \o t) = 4
  BY <1>1, ConcatProperties
<1>3. /\ (s \o t)[1] = s[1] /\ (s \o t)[2] = s[2]
      /\ (s \o t)[3] = t[1] /\ (s \o t)[4] = t[2]
  BY <1>1, <1>2, ConcatProperties
<1>4. \A i \in 1..4 : (s \o t)[i] = u[i]
  BY <1>3
<1> QED
  BY <1>1, <1>2, <1>4, SeqEqual

\* The writes of a save, by what becomes of the migration.
LEMMA SaveIs ==
  ASSUME NEW v \in Views, NEW b, NEW m, b = <<v.name, "body">>, m = <<v.name, "mig">>
  PROVE  /\ v.mig = None =>
              SaveWrites(v) = <<Write(b, v.body), Seal(b, v.body, priv), Write(m, None), Write(Sig(m), None)>>
         /\ v.mig = Bad => SaveWrites(v) = <<Write(b, v.body), Seal(b, v.body, priv)>>
         /\ v.mig \in Migrations =>
              SaveWrites(v) = <<Write(b, v.body), Seal(b, v.body, priv), Write(m, v.mig), Seal(m, v.mig, priv)>>
<1>1. None \notin Migrations /\ Bad \notin Migrations /\ Bad # None
  BY ServerAssumption DEF Plain
<1>2. CASE v.mig = None
  <2>1. SaveWrites(v) = <<Write(b, v.body), Seal(b, v.body, priv)>> \o <<Write(m, None), Write(Sig(m), None)>>
    BY <1>1, <1>2 DEF SaveWrites
  <2> QED
    BY <1>2, <1>1, <2>1, JoinTwo
<1>3. CASE v.mig = Bad
  BY <1>1, <1>3 DEF SaveWrites
<1>4. CASE v.mig \in Migrations
  <2>1. SaveWrites(v) = <<Write(b, v.body), Seal(b, v.body, priv)>> \o <<Write(m, v.mig), Seal(m, v.mig, priv)>>
    BY <1>1, <1>4 DEF SaveWrites
  <2> QED
    BY <1>4, <1>1, <2>1, JoinTwo
<1> QED
  BY <1>2, <1>3, <1>4

-----------------------------------------------------------------------------
(* A part is fine if it will fit when the writes are done, and is nothing without a body
   even now; an operation will have done what it promises once they are. *)

Body(p) == <<p[1], "body">>

Fine(d, t, k, p) ==
  /\ After(d, t, p) # None =>
       After(d, t, Body(p)) # None /\ After(d, t, Sig(p)) = <<k, After(d, t, p)>>
  /\ d[p] # None => d[Body(p)] # None

\* What a save, a deletion and a change of keys promise.
SaveDone(d, t, k, v) ==
  LET b == <<v.name, "body">>
      m == <<v.name, "mig">> IN
  /\ k \in Keys /\ After(d, t, b) = v.body /\ After(d, t, Sig(b)) = <<k, v.body>>
  /\ v.mig \in Migrations => After(d, t, m) = v.mig /\ After(d, t, Sig(m)) = <<k, v.mig>>
DeleteDone(d, t, n) ==
  \A p \in Parts : p[1] = n => After(d, t, p) = None /\ After(d, t, Sig(p)) = None
KeyDone(d, t, k, u) ==
  /\ \A f \in Of(t) : \E p \in Parts : f = Sig(p)
  /\ \A i \in 1..Len(t) : t[i].put # None
  /\ \A p \in Parts \ u : d[Body(p)] # None /\ d[p] # None => After(d, t, Sig(p)) = <<k, d[p]>>

\* With nothing left to write, being fine is fitting.
LEMMA FineNow ==
  ASSUME NEW d, NEW k, NEW p,
         d[p] # None => d[Body(p)] # None /\ d[Sig(p)] = <<k, d[p]>>
  PROVE  Fine(d, <<>>, k, p)
<1>1. Of(<<>>) = {}
  BY DEF Of
<1>2. \A f : After(d, <<>>, f) = d[f]
  BY <1>1, AfterElse
<1> QED
  BY <1>2 DEF Fine

\* And the other way about.
LEMMA FineThen ==
  ASSUME NEW d, NEW k, NEW p, Fine(d, <<>>, k, p)
  PROVE  d[p] # None => d[Body(p)] # None /\ d[Sig(p)] = <<k, d[p]>>
<1>1. Of(<<>>) = {}
  BY DEF Of
<1>2. \A f : After(d, <<>>, f) = d[f]
  BY <1>1, AfterElse
<1> QED
  BY <1>2 DEF Fine

\* A write that succeeds leaves a part fine.
LEMMA FineStep ==
  ASSUME NEW d \in Disks, NEW t \in Seq(Writes), t # <<>>, Distinct(t), Ordered(t),
         NEW k, NEW p \in Parts, Fine(d, t, k, p)
  PROVE  Fine([d EXCEPT ![Head(t).at] = Head(t).put], Tail(t), k, p)
<1> DEFINE d2 == [d EXCEPT ![Head(t).at] = Head(t).put]
           u  == Tail(t)
           h  == Head(t)
<1>1. p \in Files /\ Sig(p) \in Files /\ Body(p) \in Files /\ Body(p) \in Parts /\ p[1] \in Names
      /\ (p = Body(p) \/ p = <<p[1], "mig">>)
  BY FilesDiffer DEF Body
<1>2. \A f \in Files : After(d2, u, f) = After(d, t, f)
  BY AfterStep
<1>3. h.at \in Files /\ d2[h.at] = h.put /\ \A g \in Files : g # h.at => d2[g] = d[g]
  BY Shorter, WriteIs DEF Disks
<1>4. /\ h = t[1] /\ 1 \in 1..Len(t) /\ h.at \notin Of(u)
  BY Shorter
<1> SUFFICES Fine(d2, u, k, p)
  OBVIOUS
<1> HIDE DEF d2, u, h
<1>a. After(d2, u, h.at) = d2[h.at]
  BY <1>4, AfterElse
<1>5. ASSUME p = <<p[1], "mig">>, d2[p] # None PROVE d2[Body(p)] # None
  <2>1. CASE h.at = p
    <3>1. h.put # None /\ After(d, t, p) = h.put
      <4>1. After(d2, u, p) = d2[p]
        BY <1>a, <2>1
      <4> QED
        BY <1>1, <1>2, <1>3, <1>5, <2>1, <4>1
    <3>2. After(d, t, Body(p)) # None
      BY <3>1 DEF Fine
    <3>3. Body(p) \notin Of(t)
      <4> SUFFICES ASSUME NEW i \in 1..Len(t), t[i].at = Body(p) PROVE FALSE
        BY DEF Of
      <4>1. i < 1
        BY <1>1, <1>4, <1>5, <2>1, <3>1 DEF Ordered, Body
      <4> QED
        BY <4>1
    <3>4. d[Body(p)] # None
      BY <3>2, <3>3, AfterElse
    <3>5. Body(p) # h.at
      BY <1>5, <2>1 DEF Body
    <3> QED
      BY <1>1, <1>3, <3>4, <3>5
  <2>2. CASE h.at = Body(p)
    <3>1. d2[p] = d[p] /\ d[p] # None
      BY <1>1, <1>3, <1>5, <2>2 DEF Body
    <3> SUFFICES ASSUME h.put = None PROVE FALSE
      BY <1>3, <2>2
    <3>2. After(d, t, Body(p)) = None
      <4>1. After(d2, u, Body(p)) = d2[Body(p)]
        BY <1>a, <2>2
      <4> QED
        BY <1>1, <1>2, <1>3, <2>2, <4>1
    <3>3. After(d, t, p) = None
      BY <3>2 DEF Fine
    <3>4. p \notin Of(t)
      <4> SUFFICES ASSUME NEW i \in 1..Len(t), t[i].at = p PROVE FALSE
        BY DEF Of
      <4>1. i < 1
        BY <1>1, <1>4, <1>5, <2>2 DEF Ordered, Body
      <4> QED
        BY <4>1
    <3> QED
      BY <3>1, <3>3, <3>4, AfterElse
  <2>3. CASE h.at # p /\ h.at # Body(p)
    BY <1>1, <1>3, <1>5, <2>3 DEF Fine
  <2> QED
    BY <2>1, <2>2, <2>3
<1>6. d2[p] # None => d2[Body(p)] # None
  BY <1>1, <1>5
<1> QED
  BY <1>1, <1>2, <1>6 DEF Fine

\* So does a removal that fails, for the parts whose files it is not of.
LEMMA FineSkip ==
  ASSUME NEW d \in Disks, NEW t \in Seq(Writes), t # <<>>, Distinct(t),
         NEW k, NEW p \in Parts, Fine(d, t, k, p),
         Head(t).at \notin {p, Sig(p)}, d[Head(t).at] # None
  PROVE  Fine(d, Tail(t), k, p)
<1>1. p \in Files /\ Sig(p) \in Files /\ Body(p) \in Files
  BY FilesDiffer DEF Body
<1>2. /\ After(d, Tail(t), p) = After(d, t, p) /\ After(d, Tail(t), Sig(p)) = After(d, t, Sig(p))
      /\ After(d, Tail(t), Body(p)) = IF Body(p) = Head(t).at THEN d[Body(p)] ELSE After(d, t, Body(p))
  BY <1>1, AfterSkip
<1> QED
  BY <1>2 DEF Fine

\* So does giving up, for the parts none of whose files was to be written.
LEMMA FineCut ==
  ASSUME NEW d \in Disks, NEW t, NEW k, NEW p \in Parts, Fine(d, t, k, p),
         p \notin Of(t), Sig(p) \notin Of(t), NEW h \in Of(t), NEW c \in {d[h], Torn}
  PROVE  Fine([d EXCEPT ![h] = c], <<>>, k, p)
<1> DEFINE d2 == [d EXCEPT ![h] = c]
<1>1. p \in Files /\ Sig(p) \in Files /\ Body(p) \in Files
  BY FilesDiffer DEF Body
<1>2. Torn # None
  BY ServerAssumption DEF Plain
<1>3. After(d, t, p) = d[p] /\ After(d, t, Sig(p)) = d[Sig(p)]
  BY AfterElse
<1>4. d2[p] = d[p] /\ d2[Sig(p)] = d[Sig(p)] /\ (d[Body(p)] # None => d2[Body(p)] # None)
  BY <1>1, <1>2 DEF Disks
<1> HIDE DEF d2
<1>5. d2[p] # None => d2[Body(p)] # None /\ d2[Sig(p)] = <<k, d2[p]>>
  BY <1>3, <1>4 DEF Fine
<1>6. Fine(d2, <<>>, k, p)
  BY <1>5, FineNow
<1> QED
  BY <1>6 DEF d2

\* What an operation will have done stays so when a write succeeds.
LEMMA DoneStep ==
  ASSUME NEW d \in Disks, NEW t \in Seq(Writes), t # <<>>, Distinct(t)
  PROVE  LET d2 == [d EXCEPT ![Head(t).at] = Head(t).put] IN
         /\ \A k, v : v \in Views /\ SaveDone(d, t, k, v) => SaveDone(d2, Tail(t), k, v)
         /\ \A n : DeleteDone(d, t, n) => DeleteDone(d2, Tail(t), n)
         /\ \A k, w : KeyDone(d, t, k, w) => KeyDone(d2, Tail(t), k, w)
<1> DEFINE d2 == [d EXCEPT ![Head(t).at] = Head(t).put]
           u  == Tail(t)
<1>1. \A f \in Files : After(d2, u, f) = After(d, t, f)
  BY AfterStep
<1>2. /\ Head(t).at \in Of(t) /\ \A f \in Of(u) : f \in Of(t)
      /\ \A i \in 1..Len(u) : i + 1 \in 1..Len(t) /\ u[i] = t[i + 1]
      /\ \A f \in Files : f # Head(t).at => d2[f] = d[f]
  BY Shorter, WriteIs DEF Disks
<1> HIDE DEF d2, u
<1>3. ASSUME NEW k, NEW v \in Views, SaveDone(d, t, k, v) PROVE SaveDone(d2, u, k, v)
  <2>1. v.name \in Names
    BY DEF Views
  <2> QED
    BY <1>1, <1>3, <2>1, FilesDiffer DEF SaveDone
<1>4. ASSUME NEW n, DeleteDone(d, t, n) PROVE DeleteDone(d2, u, n)
  BY <1>1, <1>4, FilesDiffer DEF DeleteDone
<1>5. ASSUME NEW k, NEW w, KeyDone(d, t, k, w) PROVE KeyDone(d2, u, k, w)
  <2>1. \A p \in Parts : d2[p] = d[p] /\ p \in Files /\ Sig(p) \in Files /\ Body(p) \in Parts
    <3>a. PICK q \in Parts : Head(t).at = Sig(q)
      BY <1>2, <1>5 DEF KeyDone
    <3>1. Head(t).at \notin Parts
      BY <3>a, FilesDiffer
    <3> QED
      BY <1>2, <3>1, FilesDiffer DEF Body
  <2>2. /\ \A f \in Of(u) : \E p \in Parts : f = Sig(p)
        /\ \A i \in 1..Len(u) : u[i].put # None
    BY <1>2, <1>5 DEF KeyDone
  <2>3. \A p \in Parts \ w : d2[Body(p)] # None /\ d2[p] # None => After(d2, u, Sig(p)) = <<k, d2[p]>>
    BY <1>1, <1>5, <2>1 DEF KeyDone
  <2> QED
    BY <2>2, <2>3 DEF KeyDone
<1> QED
  BY <1>3, <1>4, <1>5 DEF d2, u

\* What a save will have done stays so when a removal fails.
LEMMA SaveDoneSkip ==
  ASSUME NEW d \in Disks, NEW t \in Seq(Writes), t # <<>>, Distinct(t),
         NEW k, NEW v \in Views, SaveDone(d, t, k, v), Head(t).put = None
  PROVE  SaveDone(d, Tail(t), k, v)
<1> DEFINE b == <<v.name, "body">>
           m == <<v.name, "mig">>
<1>1. b \in Files /\ Sig(b) \in Files /\ m \in Files /\ Sig(m) \in Files
  BY FilesDiffer DEF Views
<1>2. /\ v.body # None /\ <<k, v.body>> # None
      /\ v.mig \in Migrations => v.mig # None /\ <<k, v.mig>> # None
  BY ServerAssumption DEF Views, Plain, SaveDone
<1>3. After(d, t, Head(t).at) = None
  <2>1. Head(t) = t[1] /\ 1 \in 1..Len(t)
    BY Shorter
  <2>2. PICK i \in 1..Len(t) : t[i] = Head(t)
    BY <2>1
  <2>3. After(d, t, t[i].at) = t[i].put
    BY AfterAt, Zenon
  <2> QED
    BY <2>2, <2>3
<1>4. \A f \in Files : After(d, t, f) # None => After(d, Tail(t), f) = After(d, t, f)
  <2> SUFFICES ASSUME NEW f \in Files, After(d, t, f) # None
               PROVE  After(d, Tail(t), f) = After(d, t, f)
    OBVIOUS
  <2>1. f # Head(t).at
    BY <1>3
  <2> QED
    BY <2>1, AfterSkip
<1> DEFINE u == Tail(t)
<1> SUFFICES SaveDone(d, u, k, v)
  OBVIOUS
<1>5. \A f \in Files : After(d, t, f) # None => After(d, u, f) = After(d, t, f)
  BY <1>4
<1> HIDE DEF u
<1> QED
  BY <1>1, <1>2, <1>5 DEF SaveDone
\* Four writes of four files.
LEMMA FourWrites ==
  ASSUME NEW d, NEW a, NEW b, NEW c, NEW e,
         a.at # b.at, a.at # c.at, a.at # e.at, b.at # c.at, b.at # e.at, c.at # e.at
  PROVE  LET t == <<a, b, c, e>> IN
         /\ Distinct(t) /\ \A f \in Of(t) : f = a.at \/ f = b.at \/ f = c.at \/ f = e.at
         /\ After(d, t, a.at) = a.put /\ After(d, t, b.at) = b.put
         /\ After(d, t, c.at) = c.put /\ After(d, t, e.at) = e.put
<1> DEFINE t == <<a, b, c, e>>
<1>1. 1..Len(t) = {1, 2, 3, 4} /\ t[1] = a /\ t[2] = b /\ t[3] = c /\ t[4] = e
  OBVIOUS
<1> HIDE DEF t
<1>2. Distinct(t) /\ \A f \in Of(t) : f = a.at \/ f = b.at \/ f = c.at \/ f = e.at
  BY <1>1 DEF Distinct, Of
<1>3. \A i \in 1..Len(t) : After(d, t, t[i].at) = t[i].put
  <2> SUFFICES ASSUME NEW i \in 1..Len(t) PROVE After(d, t, t[i].at) = t[i].put
    OBVIOUS
  <2>1. Distinct(t)
    BY <1>2
  <2> QED
    BY <2>1, AfterAt
<1>4. /\ After(d, t, a.at) = a.put /\ After(d, t, b.at) = b.put
      /\ After(d, t, c.at) = c.put /\ After(d, t, e.at) = e.put
  BY <1>1, <1>3
<1> QED
  BY <1>2, <1>4 DEF t

\* Two writes of two files.
LEMMA TwoWrites ==
  ASSUME NEW d, NEW a, NEW b, a.at # b.at
  PROVE  LET t == <<a, b>> IN
         /\ Distinct(t) /\ \A f \in Of(t) : f = a.at \/ f = b.at
         /\ After(d, t, a.at) = a.put /\ After(d, t, b.at) = b.put
<1> DEFINE t == <<a, b>>
<1>1. 1..Len(t) = {1, 2} /\ t[1] = a /\ t[2] = b
  OBVIOUS
<1> HIDE DEF t
<1>2. Distinct(t) /\ \A f \in Of(t) : f = a.at \/ f = b.at
  BY <1>1 DEF Distinct, Of
<1>3. \A i \in 1..Len(t) : After(d, t, t[i].at) = t[i].put
  <2> SUFFICES ASSUME NEW i \in 1..Len(t) PROVE After(d, t, t[i].at) = t[i].put
    OBVIOUS
  <2>1. Distinct(t)
    BY <1>2
  <2> QED
    BY <2>1, AfterAt
<1>4. After(d, t, a.at) = a.put /\ After(d, t, b.at) = b.put
  BY <1>1, <1>3
<1> QED
  BY <1>2, <1>4 DEF t

\* A save's writes are what it promises, and spoil nothing that fits.
LEMMA SaveBegins ==
  ASSUME NEW v \in Views, priv \in Keys, NEW t, t = SaveWrites(v)
  PROVE  /\ t \in Seq(Writes) /\ t # <<>> /\ Distinct(t) /\ Ordered(t) /\ KeyFile \notin Of(t)
         /\ SaveDone(disk, t, priv, v)
         /\ \A p \in Parts : Fine(disk, <<>>, priv, p) => Fine(disk, t, priv, p)
<1> DEFINE b == <<v.name, "body">>
           m == <<v.name, "mig">>
<1>1. /\ b \in Parts /\ m \in Parts /\ b \in Files /\ m \in Files
      /\ Sig(b) = <<v.name, "sig">> /\ Sig(m) = <<v.name, "migsig">>
      /\ Sig(b) \in Files /\ Sig(m) \in Files /\ v.name \in Names
      /\ KeyFile \notin {b, m, Sig(b), Sig(m)}
  BY FilesDiffer DEF Views
<1>2. /\ v.body \in Plain /\ v.body # None /\ None \notin Migrations /\ Bad \notin Migrations /\ Bad # None
      /\ v.mig \in Migrations => v.mig \in Plain
      /\ v.body \in Contents(b) /\ <<priv, v.body>> \in Contents(Sig(b)) /\ None \in Contents(m) /\ None \in Contents(Sig(m))
      /\ v.mig \in Migrations => v.mig \in Contents(m) /\ <<priv, v.mig>> \in Contents(Sig(m))
      /\ v.mig \in Migrations \cup {Bad, None}
  <2>1. /\ v.body \in Plain /\ v.body # None /\ None \notin Migrations /\ Bad \notin Migrations /\ Bad # None
        /\ v.mig \in Migrations => v.mig \in Plain
        /\ v.mig \in Migrations \cup {Bad, None}
    BY ServerAssumption DEF Views, Plain
  <2>2. /\ b \notin {KeyFile} /\ b[2] = "body" /\ m \notin {KeyFile} /\ m[2] = "mig"
        /\ \A f \in {Sig(b), Sig(m)} : f # KeyFile /\ f \notin Parts
    BY <1>1, FilesDiffer
  <2> HIDE DEF b, m
  <2>3. v.body \in Bodies
    BY DEF Views
  <2>4. /\ v.body \in Contents(b) /\ None \in Contents(m) /\ None \in Contents(Sig(m))
        /\ v.mig \in Migrations => v.mig \in Contents(m)
    BY <1>1, <2>2, <2>3 DEF Contents
  <2>5. \A c \in Plain : <<priv, c>> \in Contents(Sig(b)) /\ <<priv, c>> \in Contents(Sig(m))
    BY <2>2 DEF Contents
  <2> QED
    BY <2>1, <2>4, <2>5
<1>3. \A p \in Parts : /\ p = b \/ p = m \/ (p[1] # v.name /\ p # b /\ p # m /\ Body(p) # b /\ Body(p) # m)
                       /\ p \notin {Sig(b), Sig(m)} /\ Body(p) \notin {Sig(b), Sig(m)}
                       /\ p \notin {b, m} => Sig(p) \notin {b, m, Sig(b), Sig(m)}
                       /\ Body(b) = b /\ Body(m) = b
  <2> SUFFICES ASSUME NEW p \in Parts
               PROVE  /\ p = b \/ p = m \/ (p[1] # v.name /\ p # b /\ p # m /\ Body(p) # b /\ Body(p) # m)
                      /\ p \notin {Sig(b), Sig(m)} /\ Body(p) \notin {Sig(b), Sig(m)}
                      /\ p \notin {b, m} => Sig(p) \notin {b, m, Sig(b), Sig(m)}
    BY <1>1 DEF Body
  <2>1. p = <<p[1], p[2]>> /\ p[2] \in {"body", "mig"}
    BY FilesDiffer
  <2>2. p = b \/ p = m \/ p[1] # v.name
    BY <2>1
  <2>3. p \notin {Sig(b), Sig(m)} /\ Body(p) \notin {Sig(b), Sig(m)}
    BY <1>1, <2>1 DEF Body
  <2>4. p \notin {b, m} => Sig(p) \notin {b, m, Sig(b), Sig(m)}
    <3>1. ASSUME p # b, p # m PROVE Sig(p) # Sig(b) /\ Sig(p) # Sig(m)
      BY <1>1, <3>1, FilesDiffer
    <3>2. Sig(p) # b /\ Sig(p) # m
      <4>1. Sig(p) \notin Parts
        BY FilesDiffer
      <4> QED
        BY <1>1, <4>1
    <3> QED
      BY <3>1, <3>2
  <2>5. p[1] # v.name => p # b /\ p # m /\ Body(p) # b /\ Body(p) # m
    BY DEF Body
  <2> QED
    BY <2>2, <2>3, <2>4, <2>5
<1>4. \A f \in {b, m, Sig(b), Sig(m)} : \A c : Write(f, c).at = f /\ Write(f, c).put = c
  BY DEF Write
<1> DEFINE w1 == Write(b, v.body)
           w2 == Seal(b, v.body, priv)
<1>5. /\ w1.at = b /\ w1.put = v.body /\ w1 \in Writes
      /\ w2.at = Sig(b) /\ w2.put = <<priv, v.body>> /\ w2 \in Writes
  BY <1>1, <1>2, <1>4, WriteIs DEF Seal
<1>6. ASSUME NEW w3, NEW w4, t = <<w1, w2, w3, w4>>, w3 \in Writes, w4 \in Writes,
             w3.at = m, w4.at = Sig(m),
             \/ v.mig = None /\ w3.put = None
             \/ v.mig \in Migrations /\ w3.put = v.mig /\ w4.put = <<priv, v.mig>>
      PROVE  /\ t \in Seq(Writes) /\ t # <<>> /\ Distinct(t) /\ Ordered(t) /\ KeyFile \notin Of(t)
             /\ SaveDone(disk, t, priv, v)
             /\ \A p \in Parts : Fine(disk, <<>>, priv, p) => Fine(disk, t, priv, p)
  <2>1. b # m /\ b # Sig(b) /\ b # Sig(m) /\ m # Sig(b) /\ m # Sig(m) /\ Sig(b) # Sig(m)
    BY <1>1
  <2> HIDE DEF w1, w2, b, m
  <2>2. /\ 1..Len(t) = {1, 2, 3, 4} /\ t[1] = w1 /\ t[2] = w2 /\ t[3] = w3 /\ t[4] = w4
        /\ Distinct(t) /\ \A f \in Of(t) : f \in {b, Sig(b), m, Sig(m)}
        /\ After(disk, t, b) = v.body /\ After(disk, t, Sig(b)) = <<priv, v.body>>
        /\ After(disk, t, m) = w3.put /\ After(disk, t, Sig(m)) = w4.put
    <3>1. /\ w1.at # w2.at /\ w1.at # w3.at /\ w1.at # w4.at
          /\ w2.at # w3.at /\ w2.at # w4.at /\ w3.at # w4.at
      BY <1>5, <1>6, <2>1
    <3>2. /\ Distinct(t) /\ \A f \in Of(t) : f = w1.at \/ f = w2.at \/ f = w3.at \/ f = w4.at
          /\ After(disk, t, w1.at) = w1.put /\ After(disk, t, w2.at) = w2.put
          /\ After(disk, t, w3.at) = w3.put /\ After(disk, t, w4.at) = w4.put
      BY <1>6, <3>1, FourWrites
    <3>3. 1..Len(t) = {1, 2, 3, 4} /\ t[1] = w1 /\ t[2] = w2 /\ t[3] = w3 /\ t[4] = w4
      BY <1>6
    <3> QED
      BY <1>5, <1>6, <3>2, <3>3
  <2>3. t \in Seq(Writes) /\ t # <<>>
    BY <1>5, <1>6
  <2>4. SaveDone(disk, t, priv, v)
    BY <1>2, <1>6, <2>2 DEF SaveDone, b, m
  <2>5. Ordered(t)
    <3> SUFFICES ASSUME NEW i \in 1..Len(t), NEW j \in 1..Len(t), NEW n \in Names,
                        t[i].at = <<n, "body">>, t[j].at = <<n, "mig">>
                 PROVE  t[i].put # None /\ i < j
      BY DEF Ordered
    <3>1. i = 1
      BY <1>1, <1>5, <1>6, <2>2 DEF b, m
    <3>2. j = 3
      BY <1>1, <1>5, <1>6, <2>2 DEF b, m
    <3> QED
      BY <3>1, <3>2, <1>2, <1>5, <2>2
  <2>6. ASSUME NEW p \in Parts, Fine(disk, <<>>, priv, p) PROVE Fine(disk, t, priv, p)
    <3>1. disk[p] # None => disk[Body(p)] # None /\ disk[Sig(p)] = <<priv, disk[p]>>
      BY <2>6, FineThen
    <3>2. CASE p = b
      BY <1>2, <1>3, <2>2, <3>1, <3>2 DEF Fine
    <3>3. CASE p = m
      BY <1>2, <1>3, <1>6, <2>2, <3>1, <3>3 DEF Fine
    <3>4. CASE p \notin {b, m}
      <4>1. After(disk, t, p) = disk[p] /\ After(disk, t, Sig(p)) = disk[Sig(p)]
            /\ After(disk, t, Body(p)) = disk[Body(p)]
        <5>1. p \notin Of(t) /\ Sig(p) \notin Of(t) /\ Body(p) \notin Of(t)
          BY <1>3, <2>2, <3>4
        <5> QED
          BY <5>1, AfterElse
      <4> QED
        BY <3>1, <4>1 DEF Fine
    <3> QED
      BY <3>2, <3>3, <3>4
  <2>7. KeyFile \notin Of(t)
    BY <1>1, <2>2
  <2> QED
    BY <2>2, <2>3, <2>4, <2>5, <2>6, <2>7
<1>7. CASE v.mig = None
  <2>1. t = <<w1, w2, Write(m, None), Write(Sig(m), None)>>
    BY <1>7, SaveIs
  <2> QED
    <3>1. /\ Write(m, None) \in Writes /\ Write(m, None).at = m /\ Write(m, None).put = None
          /\ Write(Sig(m), None) \in Writes /\ Write(Sig(m), None).at = Sig(m)
      BY <1>1, <1>2, WriteIs
    <3> QED
      BY <1>6, <1>7, <2>1, <3>1
<1>8. CASE v.mig \in Migrations
  <2>1. t = <<w1, w2, Write(m, v.mig), Seal(m, v.mig, priv)>>
    BY <1>8, SaveIs
  <2> QED
    <3>1. /\ Write(m, v.mig) \in Writes /\ Write(m, v.mig).at = m /\ Write(m, v.mig).put = v.mig
      BY <1>1, <1>2, <1>8, WriteIs
    <3>2. /\ Seal(m, v.mig, priv) \in Writes /\ Seal(m, v.mig, priv).at = Sig(m)
          /\ Seal(m, v.mig, priv).put = <<priv, v.mig>>
      BY <1>1, <1>2, <1>8, WriteIs DEF Seal
    <3> QED
      BY <1>6, <1>8, <2>1, <3>1, <3>2
<1>9. CASE v.mig = Bad
  <2>1. t = <<w1, w2>>
    BY <1>9, SaveIs
  <2>2. b # Sig(b)
    BY <1>1
  <2> HIDE DEF w1, w2, b, m
  <2>3. /\ 1..Len(t) = {1, 2} /\ t[1] = w1 /\ t[2] = w2
        /\ Distinct(t) /\ \A f \in Of(t) : f \in {b, Sig(b)}
        /\ After(disk, t, b) = v.body /\ After(disk, t, Sig(b)) = <<priv, v.body>>
    <3>1. w1.at # w2.at
      BY <1>5, <2>2
    <3>2. /\ Distinct(t) /\ \A f \in Of(t) : f = w1.at \/ f = w2.at
          /\ After(disk, t, w1.at) = w1.put /\ After(disk, t, w2.at) = w2.put
      BY <2>1, <3>1, TwoWrites
    <3>3. 1..Len(t) = {1, 2} /\ t[1] = w1 /\ t[2] = w2
      BY <2>1
    <3> QED
      BY <1>5, <3>2, <3>3
  <2>4. t \in Seq(Writes) /\ t # <<>>
    BY <1>5, <2>1
  <2>5. SaveDone(disk, t, priv, v)
    BY <1>2, <1>9, <2>3 DEF SaveDone, b, m
  <2>6. Ordered(t)
    BY <1>1, <1>5, <2>3 DEF Ordered, b, m
  <2>7. ASSUME NEW p \in Parts, Fine(disk, <<>>, priv, p) PROVE Fine(disk, t, priv, p)
    <3>1. disk[p] # None => disk[Body(p)] # None /\ disk[Sig(p)] = <<priv, disk[p]>>
      BY <2>7, FineThen
    <3>2. CASE p = b
      BY <1>2, <1>3, <2>3, <3>1, <3>2 DEF Fine
    <3>3. CASE p # b
      <4>1. After(disk, t, p) = disk[p] /\ After(disk, t, Sig(p)) = disk[Sig(p)]
            /\ (Body(p) # b => After(disk, t, Body(p)) = disk[Body(p)])
        <5>1. p \notin Of(t) /\ Sig(p) \notin Of(t) /\ (Body(p) # b => Body(p) \notin Of(t))
          BY <1>1, <1>3, <2>3, <3>3, FilesDiffer
        <5> QED
          BY <5>1, AfterElse
      <4>2. After(disk, t, b) # None
        BY <1>2, <2>3
      <4>3. disk[p] # None => After(disk, t, Body(p)) # None
        BY <3>1, <4>1, <4>2
      <4> QED
        BY <3>1, <4>1, <4>3 DEF Fine
    <3> QED
      BY <3>2, <3>3
  <2> QED
    BY <1>1, <2>3, <2>4, <2>5, <2>6, <2>7
<1> QED
  BY <1>2, <1>7, <1>8, <1>9

\* A deletion's writes are what it promises, and spoil nothing that fits.
LEMMA DeleteBegins ==
  ASSUME NEW n \in Names, NEW t,
         t = <<Write(<<n, "mig">>, None), Write(Sig(<<n, "mig">>), None),
               Write(<<n, "body">>, None), Write(Sig(<<n, "body">>), None)>>
  PROVE  /\ t \in Seq(Writes) /\ t # <<>> /\ Distinct(t) /\ Ordered(t) /\ KeyFile \notin Of(t)
         /\ DeleteDone(disk, t, n)
         /\ \A p \in Parts : Fine(disk, <<>>, priv, p) => Fine(disk, t, priv, p)
<1> DEFINE b  == <<n, "body">>
           m  == <<n, "mig">>
           w1 == Write(m, None)
           w2 == Write(Sig(m), None)
           w3 == Write(b, None)
           w4 == Write(Sig(b), None)
<1>1. /\ b \in Parts /\ m \in Parts /\ b \in Files /\ m \in Files
      /\ Sig(b) = <<n, "sig">> /\ Sig(m) = <<n, "migsig">> /\ Sig(b) \in Files /\ Sig(m) \in Files
      /\ KeyFile \notin {b, m, Sig(b), Sig(m)}
      /\ b # m /\ b # Sig(b) /\ b # Sig(m) /\ m # Sig(b) /\ m # Sig(m) /\ Sig(b) # Sig(m)
  BY FilesDiffer
<1>2. \A p \in Parts : /\ p = b \/ p = m \/ (p[1] # n /\ Body(p) # b /\ Body(p) # m)
                       /\ p \notin {Sig(b), Sig(m)} /\ Body(p) \notin {Sig(b), Sig(m)}
                       /\ p \notin {b, m} => Sig(p) \notin {b, m, Sig(b), Sig(m)}
  <2> SUFFICES ASSUME NEW p \in Parts
               PROVE  /\ p = b \/ p = m \/ (p[1] # n /\ Body(p) # b /\ Body(p) # m)
                      /\ p \notin {Sig(b), Sig(m)} /\ Body(p) \notin {Sig(b), Sig(m)}
                      /\ p \notin {b, m} => Sig(p) \notin {b, m, Sig(b), Sig(m)}
    OBVIOUS
  <2>1. p = <<p[1], p[2]>> /\ p[2] \in {"body", "mig"}
    BY FilesDiffer
  <2>2. p = b \/ p = m \/ p[1] # n
    BY <2>1
  <2>3. p \notin {Sig(b), Sig(m)} /\ Body(p) \notin {Sig(b), Sig(m)}
    BY <1>1, <2>1 DEF Body
  <2>4. p \notin {b, m} => Sig(p) \notin {b, m, Sig(b), Sig(m)}
    BY <1>1, FilesDiffer
  <2>5. p[1] # n => Body(p) # b /\ Body(p) # m
    BY DEF Body
  <2> QED
    BY <2>2, <2>3, <2>4, <2>5
<1>3. /\ w1.at = m /\ w1.put = None /\ w1 \in Writes /\ w2.at = Sig(m) /\ w2.put = None /\ w2 \in Writes
      /\ w3.at = b /\ w3.put = None /\ w3 \in Writes /\ w4.at = Sig(b) /\ w4.put = None /\ w4 \in Writes
  <2>1. \A f : None \in Contents(f)
    BY DEF Contents
  <2> QED
    BY <1>1, <2>1, WriteIs
<1>4. t = <<w1, w2, w3, w4>>
  OBVIOUS
<1> HIDE DEF w1, w2, w3, w4
<1>5. /\ Distinct(t) /\ \A f \in Of(t) : f \in {b, Sig(b), m, Sig(m)}
      /\ After(disk, t, b) = None /\ After(disk, t, Sig(b)) = None
      /\ After(disk, t, m) = None /\ After(disk, t, Sig(m)) = None
  <2>1. /\ w1.at # w2.at /\ w1.at # w3.at /\ w1.at # w4.at
        /\ w2.at # w3.at /\ w2.at # w4.at /\ w3.at # w4.at
    BY <1>1, <1>3
  <2> HIDE DEF b, m
  <2>2. /\ Distinct(t) /\ \A f \in Of(t) : f = w1.at \/ f = w2.at \/ f = w3.at \/ f = w4.at
        /\ After(disk, t, w1.at) = w1.put /\ After(disk, t, w2.at) = w2.put
        /\ After(disk, t, w3.at) = w3.put /\ After(disk, t, w4.at) = w4.put
    BY ONLY <1>4, <2>1, FourWrites
  <2> QED
    BY <1>3, <2>2
<1>6. 1..Len(t) = {1, 2, 3, 4} /\ t[1] = w1 /\ t[2] = w2 /\ t[3] = w3 /\ t[4] = w4
  BY <1>4
<1>7. t \in Seq(Writes) /\ t # <<>> /\ KeyFile \notin Of(t)
  BY <1>1, <1>3, <1>4, <1>5
<1>8. Ordered(t)
  <2> SUFFICES ASSUME NEW i \in 1..Len(t), NEW j \in 1..Len(t), NEW q \in Names,
                      t[i].at = <<q, "body">>, t[j].at = <<q, "mig">>
               PROVE  t[j].put = None /\ j < i
    BY DEF Ordered
  <2>1. i = 3 /\ j = 1
    BY <1>1, <1>3, <1>6
  <2> QED
    BY <1>3, <1>6, <2>1
<1>9. DeleteDone(disk, t, n)
  BY <1>2, <1>5 DEF DeleteDone
<1>10. ASSUME NEW p \in Parts, Fine(disk, <<>>, priv, p) PROVE Fine(disk, t, priv, p)
  <2>1. disk[p] # None => disk[Body(p)] # None /\ disk[Sig(p)] = <<priv, disk[p]>>
    BY <1>10, FineThen
  <2>2. CASE p \in {b, m}
    BY <1>5, <2>1, <2>2 DEF Fine
  <2>3. CASE p \notin {b, m}
    <3>1. p \notin Of(t) /\ Sig(p) \notin Of(t) /\ Body(p) \notin Of(t)
      BY <1>2, <1>5, <2>3
    <3>2. After(disk, t, p) = disk[p] /\ After(disk, t, Sig(p)) = disk[Sig(p)]
          /\ After(disk, t, Body(p)) = disk[Body(p)]
      BY <3>1, AfterElse
    <3> QED
      BY <2>1, <3>2 DEF Fine
  <2> QED
    BY <2>2, <2>3
<1> QED
  BY <1>5, <1>7, <1>8, <1>9, <1>10

\* A new key, once it is on file, leaves everything to be signed with it
\* that can be read.
LEMMA KeyTaken ==
  ASSUME disk \in Disks, NEW k \in Keys, NEW u, NEW s \in Resign(k, u), NEW d,
         d = [disk EXCEPT ![KeyFile] = k]
  PROVE  /\ s \in Seq(Writes) /\ Distinct(s) /\ Ordered(s) /\ KeyFile \notin Of(s) /\ KeyDone(d, s, k, u)
         /\ \A p \in Parts \ u : (disk[p] # None => disk[Body(p)] # None) => Fine(d, s, k, p)
<1>1. /\ s \in Seq(Writes) /\ Distinct(s) /\ Ordered(s)
      /\ \A i \in 1..Len(s) : \E p \in Resigned(u) : s[i] = Seal(p, disk[p], k)
      /\ \A p \in Resigned(u) : \E i \in 1..Len(s) : s[i] = Seal(p, disk[p], k)
      /\ \A f \in Of(s) : \E p \in Parts : f = Sig(p)
  BY ResignDoes
<1>2. \A p \in Parts : /\ d[p] = disk[p] /\ p \in Files /\ Sig(p) \in Files /\ Body(p) \in Parts
                       /\ d[Body(p)] = disk[Body(p)] /\ p \notin Of(s) /\ Body(p) \notin Of(s)
  <2>1. \A f \in Files : f # KeyFile => d[f] = disk[f]
    BY FilesDiffer DEF Disks
  <2>2. ASSUME NEW f \in Of(s) PROVE f \notin Parts
    <3>1. PICK q \in Parts : f = Sig(q)
      BY <1>1
    <3> QED
      BY <3>1, FilesDiffer
  <2> QED
    BY <2>1, <2>2, FilesDiffer DEF Body
<1>3. KeyFile \notin Of(s)
  BY <1>1, FilesDiffer
<1>4. ASSUME NEW p \in Parts \ u, disk[p] # None, disk[Body(p)] # None
      PROVE  After(d, s, Sig(p)) = <<k, disk[p]>>
  <2>1. p \in Resigned(u)
    BY <1>4 DEF Resigned, Body
  <2>2. PICK i \in 1..Len(s) : s[i] = Seal(p, disk[p], k)
    BY <1>1, <2>1
  <2>3. s[i].at = Sig(p) /\ s[i].put = <<k, disk[p]>>
    BY <2>2 DEF Seal, Write
  <2>a. Distinct(s)
    BY <1>1
  <2>4. \A j \in 1..Len(s) : After(d, s, s[j].at) = s[j].put
    BY <2>a, AfterAll
  <2> QED
    BY <2>3, <2>4
<1>5. \A i \in 1..Len(s) : s[i].put # None
  <2> SUFFICES ASSUME NEW i \in 1..Len(s) PROVE s[i].put # None
    OBVIOUS
  <2>1. PICK p \in Resigned(u) : s[i] = Seal(p, disk[p], k)
    BY <1>1
  <2>2. disk[p] \in Plain /\ s[i].put = <<k, disk[p]>>
    <3>1. p \in Parts /\ disk[p] # None /\ disk[p] \in Contents(p) /\ p # KeyFile
      BY FilesDiffer DEF Resigned, Disks
    <3> QED
      BY <2>1, <3>1 DEF Seal, Write, Contents, Plain
  <2> QED
    BY <2>2, ServerAssumption
<1>6. KeyDone(d, s, k, u)
  BY <1>1, <1>2, <1>4, <1>5 DEF KeyDone
<1>7. ASSUME NEW p \in Parts \ u, disk[p] # None => disk[Body(p)] # None PROVE Fine(d, s, k, p)
  <2>1. After(d, s, p) = disk[p] /\ After(d, s, Body(p)) = disk[Body(p)]
    <3>1. p \notin Of(s) /\ Body(p) \notin Of(s) /\ d[p] = disk[p] /\ d[Body(p)] = disk[Body(p)]
      BY <1>2
    <3>2. After(d, s, p) = d[p]
      BY <3>1, AfterElse
    <3>3. After(d, s, Body(p)) = d[Body(p)]
      BY <3>1, AfterElse
    <3> QED
      BY <3>1, <3>2, <3>3
  <2> QED
    BY <1>2, <1>4, <1>7, <2>1 DEF Fine
<1> QED
  BY <1>1, <1>3, <1>6, <1>7
-----------------------------------------------------------------------------
(* The inductive invariant. *)

\* What the operation that holds the mutex will have done, if it ends without an error; a
\* change of keys knows its writes only when the key is on file.
Does(j, d, t, k, a, u) ==
  /\ j.kind = "save" => SaveDone(d, t, k, j.view)
  /\ j.kind = "delete" /\ a = "ok" => DeleteDone(d, t, j.view.name)
  /\ j.kind = "key" /\ KeyFile \notin Of(t) => k = j.key /\ KeyDone(d, t, k, u)

\* Each file is written once, and the key's file by itself.
Shape ==
  /\ Distinct(todo) /\ Ordered(todo)
  /\ KeyFile \in Of(todo) =>
       todo = <<Write(KeyFile, job.key)>> /\ job.kind = "key" /\ job.key \in Keys

\* The key in memory is the one on file, unless that file is torn.
KeyOnFile == disk[KeyFile] \in {priv, Torn}

\* Every part that no fault spoiled is or will be fine.
Vouched == \A p \in Parts \ spoiled : Fine(disk, todo, priv, p)

\* An operation that has something to write is one.
Busy == todo # <<>> => job.kind # "none"

StoreInv == TypeOK /\ Shape /\ Busy /\ KeyOnFile /\ Vouched /\ Does(job, disk, todo, priv, told, unread)

\* A part that is not spoiled was not before and has not been cut short, or fits.
LEMMA SpoilIs ==
  ASSUME NEW parts, Spoil(parts), NEW p \in Parts, p \notin spoiled'
  PROVE  \/ p \notin spoiled /\ p \notin parts
         \/ todo' = <<>> /\ Fine(disk', todo', priv', p)
<1>1. CASE p \notin spoiled /\ p \notin parts
  BY <1>1
<1>2. CASE p \in spoiled \cup parts
  <2>1. todo' = <<>> /\ Fits(p)'
    BY <1>2 DEF Spoil
  <2>2. disk'[p] # None => disk'[Body(p)] # None /\ disk'[Sig(p)] = <<priv', disk'[p]>>
    BY <2>1 DEF Fits, Served, Body
  <2>3. Fine(disk', <<>>, priv', p)
    BY <2>2, FineNow
  <2> QED
    BY <2>1, <2>3
<1> QED
  BY <1>1, <1>2

\* No operation is a value of job.
LEMMA FreeIs == NoView \in Views /\ Free \in Jobs /\ Free.kind = "none"
<1>1. \E v \in Views : v.mig = None
  <2>1. PICK n \in Names, b \in Bodies : TRUE
    BY ServerAssumption
  <2>2. [name |-> n, body |-> b, mig |-> None] \in Views
    BY DEF Views
  <2> QED
    BY <2>2
<1>2. NoView \in Views
  BY <1>1 DEF NoView
<1> QED
  BY <1>2 DEF Free, Jobs

\* With nothing to write there is nothing to keep to.
LEMMA NothingTodo ==
  ASSUME NEW d, NEW k, NEW a, NEW u
  PROVE  /\ Distinct(<<>>) /\ Ordered(<<>>) /\ Of(<<>>) = {}
         /\ Does(Free, d, <<>>, k, a, u) /\ <<>> \in Seq(Writes)
BY FreeIs DEF Distinct, Ordered, Of, Does

\* StoreInv holds of an empty directory.
LEMMA StoreStart == Init => StoreInv
<1> SUFFICES ASSUME Init PROVE StoreInv
  OBVIOUS
<1> USE DEF Init
<1>1. disk \in Disks
  BY DEF Disks, Contents
<1>2. TypeOK
  BY <1>1, FreeIs DEF TypeOK
<1>3. Shape /\ Does(job, disk, todo, priv, told, unread)
  BY NothingTodo DEF Shape
<1>4. KeyOnFile
  BY FilesDiffer DEF KeyOnFile
<1>5. ASSUME NEW p \in Parts PROVE Fine(disk, todo, priv, p)
  <2>1. disk[p] = None
    BY FilesDiffer
  <2> QED
    BY <2>1, FineNow
<1> QED
  BY <1>2, <1>3, <1>4, <1>5 DEF StoreInv, Vouched, Busy

\* What remains to do is over or goes on.
LEMMA FinishIs ==
  ASSUME TypeOK, NEW outcome \in {"ok", "error"}, Finish(outcome), todo' \in Seq(Writes), todo # <<>>
  PROVE  /\ job' \in Jobs /\ (todo' = <<>> <=> job' = Free) /\ told' \in {"ok", "error"}
         /\ todo' = <<>> => job' = Free
         /\ todo' # <<>> => job' = job /\ told' = outcome
         /\ told' = "ok" => outcome = "ok" /\ (todo' = <<>> /\ job.kind = "save" => job.view.mig # Bad)
<1>1. job # Free /\ job \in Jobs
  BY DEF TypeOK
<1> QED
  BY <1>1, FreeIs DEF Finish

\* A write other than the key's keeps the account, and what the operation will have done.
LEMMA StepOther ==
  ASSUME StoreInv, Step, Head(todo).at # KeyFile
  PROVE  StoreInv' /\ Does(job, disk', todo', priv', told, unread')
<1>1. /\ todo \in Seq(Writes) /\ todo # <<>> /\ Distinct(todo) /\ Ordered(todo) /\ disk \in Disks /\ job \in Jobs
      /\ disk' = [disk EXCEPT ![Head(todo).at] = Head(todo).put] /\ todo' = Tail(todo) /\ priv' = priv
      /\ unread' = unread
  BY DEF StoreInv, Shape, TypeOK, Step
<1>2. /\ Head(todo) \in Writes /\ todo' \in Seq(Writes) /\ Distinct(todo') /\ Ordered(todo')
      /\ \A f \in Of(todo') : f \in Of(todo)
  BY <1>1, Shorter
<1>3. Head(todo).at \in Files /\ Head(todo).put \in Contents(Head(todo).at)
  BY <1>2, WriteIs
<1>4. disk' \in Disks
  BY <1>1, <1>3 DEF Disks
<1>5. KeyFile \notin Of(todo)
  <2>1. KeyFile \in Of(todo) => Head(todo) = Write(KeyFile, job.key)
    BY DEF StoreInv, Shape
  <2> QED
    BY <2>1 DEF Write
<1>6. TypeOK'
  <2>1. /\ job' \in Jobs /\ (todo' = <<>> <=> job' = Free) /\ told' \in {"ok", "error"}
    BY <1>1, <1>2, FinishIs DEF StoreInv, TypeOK, Step
  <2>2. held' \in [Operators -> Views \cup {None}] /\ priv' \in Keys \cup {None} /\ up' \in BOOLEAN
    BY DEF StoreInv, TypeOK, Step
  <2>3. spoiled' \subseteq Parts /\ unread' \subseteq Parts
    BY <1>1 DEF StoreInv, TypeOK, Step, Spoil
  <2> QED
    BY <1>2, <1>4, <2>1, <2>2, <2>3 DEF TypeOK
<1>7. Shape'
  BY <1>2, <1>5 DEF Shape
<1>8. KeyOnFile'
  BY <1>1, FilesDiffer DEF StoreInv, KeyOnFile, Disks
<1>9. Does(job, disk', todo', priv', told, unread')
  <2>1. job.view \in Views
    BY <1>1 DEF Jobs
  <2> QED
    BY <1>1, <1>5, <2>1, DoneStep DEF StoreInv, Does
<1>10. Does(job', disk', todo', priv', told', unread')
  <2>1. \/ todo' = <<>> /\ job' = Free
        \/ job' = job /\ told' = told
    BY <1>1, <1>2, FinishIs DEF StoreInv, TypeOK, Step
  <2> QED
    BY <1>9, <2>1, NothingTodo
<1>11. Vouched'
  <2> SUFFICES ASSUME NEW p \in Parts, p \notin spoiled' PROVE Fine(disk', todo', priv', p)
    BY DEF Vouched
  <2>1. CASE p \notin spoiled
    BY <1>1, <2>1, FineStep DEF StoreInv, Vouched
  <2>2. CASE p \in spoiled
    BY <2>2, SpoilIs DEF Step
  <2> QED
    BY <2>1, <2>2
<1>12. Busy'
  <2>1. todo' # <<>> => job' = job
    BY <1>1, <1>2, FinishIs DEF StoreInv, TypeOK, Step
  <2> QED
    BY <1>1, <2>1 DEF StoreInv, Busy
<1> QED
  BY <1>6, <1>7, <1>8, <1>9, <1>10, <1>11, <1>12 DEF StoreInv

\* The key's write keeps it: everything that can be read is to be signed again with the new key.
LEMMA StepKey ==
  ASSUME StoreInv, Step, Head(todo).at = KeyFile
  PROVE  /\ StoreInv' /\ Does(job, disk', todo', priv', told, unread')
         /\ job.kind = "key" /\ KeyFile \notin Of(todo')
         /\ \A p \in Parts : disk'[p] = disk[p]
<1>1. /\ todo \in Seq(Writes) /\ todo # <<>> /\ disk \in Disks /\ job \in Jobs
  BY DEF StoreInv, TypeOK, Step
<1>2. Head(todo).at \in Of(todo)
  BY <1>1 DEF Of
<1>3. Head(todo) = Write(KeyFile, job.key) /\ job.kind = "key" /\ job.key \in Keys
  BY <1>2 DEF StoreInv, Shape
<1>4. /\ disk' = [disk EXCEPT ![KeyFile] = job.key] /\ priv' = job.key /\ todo' \in Resign(job.key, unread')
      /\ unread' \subseteq Parts /\ Spoil(unread')
  <2>1. Head(todo).at = KeyFile /\ Head(todo).put = job.key
    BY <1>3 DEF Write
  <2> QED
    BY <2>1 DEF Step, Unseen, Resigned
<1>5. /\ todo' \in Seq(Writes) /\ Distinct(todo') /\ Ordered(todo') /\ KeyFile \notin Of(todo')
      /\ KeyDone(disk', todo', job.key, unread')
      /\ \A p \in Parts \ unread' : (disk[p] # None => disk[Body(p)] # None) => Fine(disk', todo', job.key, p)
  BY <1>1, <1>3, <1>4, KeyTaken
<1>6. disk' \in Disks /\ disk'[KeyFile] = job.key /\ \A p \in Parts : disk'[p] = disk[p]
  <2>1. job.key \in Contents(KeyFile) /\ KeyFile \in Files
    BY <1>3, FilesDiffer DEF Contents
  <2>2. disk \in Disks /\ disk' = [disk EXCEPT ![KeyFile] = job.key]
    BY <1>1, <1>4
  <2>3. disk' \in Disks /\ disk'[KeyFile] = job.key
    BY <2>1, <2>2 DEF Disks
  <2>4. \A p \in Parts : p \in Files /\ p # KeyFile
    BY FilesDiffer
  <2>5. \A p \in Parts : disk'[p] = disk[p]
    BY <2>2, <2>4 DEF Disks
  <2> QED
    BY <2>3, <2>5
<1>7. TypeOK'
  <2>1. /\ job' \in Jobs /\ (todo' = <<>> <=> job' = Free) /\ told' \in {"ok", "error"}
    BY <1>1, <1>5, FinishIs DEF StoreInv, TypeOK, Step
  <2>2. held' \in [Operators -> Views \cup {None}] /\ priv' \in Keys \cup {None} /\ up' \in BOOLEAN
    BY <1>3, <1>4 DEF StoreInv, TypeOK, Step
  <2>3. spoiled' \subseteq Parts
    BY <1>4 DEF StoreInv, TypeOK, Spoil
  <2> QED
    BY <1>4, <1>5, <1>6, <2>1, <2>2, <2>3 DEF TypeOK
<1>8. Shape' /\ KeyOnFile'
  BY <1>4, <1>5, <1>6 DEF Shape, KeyOnFile
<1>9. Does(job, disk', todo', priv', told, unread')
  BY <1>3, <1>4, <1>5 DEF Does
<1>10. Does(job', disk', todo', priv', told', unread')
  <2>1. \/ todo' = <<>> /\ job' = Free
        \/ job' = job /\ told' = told
    BY <1>1, <1>5, FinishIs DEF StoreInv, TypeOK, Step
  <2> QED
    BY <1>9, <2>1, NothingTodo
<1>11. Vouched'
  <2> SUFFICES ASSUME NEW p \in Parts, p \notin spoiled' PROVE Fine(disk', todo', priv', p)
    BY DEF Vouched
  <2>1. CASE p \notin spoiled /\ p \notin unread'
    <3>1. disk[p] # None => disk[Body(p)] # None
      BY <2>1 DEF StoreInv, Vouched, Fine
    <3> QED
      BY <1>4, <1>5, <2>1, <3>1
  <2>2. CASE p \in spoiled \cup unread'
    BY <1>4, <2>2, SpoilIs
  <2> QED
    BY <2>1, <2>2
<1>12. Busy'
  <2>1. todo' # <<>> => job' = job
    BY <1>1, <1>5, FinishIs DEF StoreInv, TypeOK, Step
  <2> QED
    BY <1>3, <2>1 DEF Busy
<1> QED
  BY <1>3, <1>5, <1>6, <1>7, <1>8, <1>9, <1>10, <1>11, <1>12 DEF StoreInv
-----------------------------------------------------------------------------
(* Each action keeps it. *)

\* An operation begins with writes that fit what it promises.
LEMMA Begun ==
  ASSUME StoreInv, NEW j, j \in Jobs, j.kind # "none",
         todo = <<>>, job' = j, told' = "ok", unread' = {}, UNCHANGED <<disk, priv, up, spoiled>>,
         held' \in [Operators -> Views \cup {None}],
         todo' \in Seq(Writes), todo' # <<>>, Distinct(todo'), Ordered(todo'),
         KeyFile \in Of(todo') => todo' = <<Write(KeyFile, j.key)>> /\ j.kind = "key" /\ j.key \in Keys,
         Does(j, disk, todo', priv, "ok", {}),
         \A p \in Parts : Fine(disk, <<>>, priv, p) => Fine(disk, todo', priv, p)
  PROVE  StoreInv'
<1>1. TypeOK'
  BY FreeIs DEF StoreInv, TypeOK
<1>2. Shape' /\ KeyOnFile'
  BY DEF StoreInv, Shape, KeyOnFile
<1>3. Vouched'
  BY DEF StoreInv, Vouched
<1>4. Does(job', disk', todo', priv', told', unread')
  OBVIOUS
<1> QED
  BY <1>1, <1>2, <1>3, <1>4 DEF StoreInv, Busy

\* A save begins, or is refused for want of a key.
LEMMA SaveInv ==
  ASSUME StoreInv, NEW v \in Views, NEW by \in {"admin", "operator"}, Save(v, by),
         held' \in [Operators -> Views \cup {None}]
  PROVE  StoreInv'
<1>1. CASE priv = None
  <2>1. todo = <<>> /\ UNCHANGED <<disk, priv, up, todo, job, unread, spoiled>> /\ told' = "error"
    BY <1>1 DEF Save
  <2>2. TypeOK' /\ Shape' /\ KeyOnFile' /\ Vouched'
    BY <2>1 DEF StoreInv, TypeOK, Shape, KeyOnFile, Vouched
  <2>3. Does(job', disk', todo', priv', told', unread')
    BY <2>1, FreeIs DEF StoreInv, TypeOK, Does
  <2> QED
    BY <2>1, <2>2, <2>3 DEF StoreInv, Busy
<1>2. CASE priv # None
  <2> DEFINE j == [kind |-> "save", view |-> v, key |-> None, by |-> by]
  <2>1. /\ todo = <<>> /\ job' = j /\ todo' = SaveWrites(v) /\ told' = "ok"
        /\ unread' = {} /\ UNCHANGED <<disk, priv, up, spoiled>>
    BY <1>2 DEF Save, Begin
  <2>2. priv \in Keys
    BY <1>2 DEF StoreInv, TypeOK
  <2>3. /\ todo' \in Seq(Writes) /\ todo' # <<>> /\ Distinct(todo') /\ Ordered(todo') /\ KeyFile \notin Of(todo')
        /\ SaveDone(disk, todo', priv, v)
        /\ \A p \in Parts : Fine(disk, <<>>, priv, p) => Fine(disk, todo', priv, p)
    BY <2>1, <2>2, SaveBegins
  <2>4. j \in Jobs /\ j.kind = "save" /\ j.view = v
    BY DEF Jobs
  <2> HIDE DEF j
  <2>5. Does(j, disk, todo', priv, "ok", {})
    BY <2>3, <2>4 DEF Does
  <2> QED
    BY <2>1, <2>3, <2>4, <2>5, Begun
<1> QED
  BY <1>1, <1>2

\* A deletion begins.
LEMMA DeleteInv ==
  ASSUME StoreInv, NEW n \in Names, Delete(n)
  PROVE  StoreInv'
<1> DEFINE j == [kind |-> "delete", view |-> [NoView EXCEPT !.name = n], key |-> None, by |-> "admin"]
<1>1. /\ todo = <<>> /\ job' = j /\ told' = "ok" /\ unread' = {} /\ UNCHANGED <<disk, priv, up, spoiled>>
      /\ todo' = <<Write(<<n, "mig">>, None), Write(Sig(<<n, "mig">>), None),
                   Write(<<n, "body">>, None), Write(Sig(<<n, "body">>), None)>>
  BY DEF Delete, Begin
<1>2. /\ todo' \in Seq(Writes) /\ todo' # <<>> /\ Distinct(todo') /\ Ordered(todo') /\ KeyFile \notin Of(todo')
      /\ DeleteDone(disk, todo', n)
      /\ \A p \in Parts : Fine(disk, <<>>, priv, p) => Fine(disk, todo', priv, p)
  BY <1>1, DeleteBegins
<1>3. j \in Jobs /\ j.kind = "delete" /\ j.view.name = n
  BY FreeIs DEF Jobs, Views
<1>4. held' \in [Operators -> Views \cup {None}]
  BY DEF StoreInv, TypeOK, Delete
<1> HIDE DEF j
<1>5. Does(j, disk, todo', priv, "ok", {})
  BY <1>2, <1>3 DEF Does
<1> QED
  BY <1>1, <1>2, <1>3, <1>4, <1>5, Begun

\* A change of keys begins.
LEMMA SetKeyInv ==
  ASSUME StoreInv, NEW k \in Keys, SetKey(k)
  PROVE  StoreInv'
<1> DEFINE j == [kind |-> "key", view |-> NoView, key |-> k, by |-> "admin"]
           w == Write(KeyFile, k)
<1>1. /\ todo = <<>> /\ job' = j /\ told' = "ok" /\ unread' = {} /\ UNCHANGED <<disk, priv, up, spoiled>>
      /\ todo' = <<w>>
  BY DEF SetKey, Begin
<1>2. w \in Writes /\ w.at = KeyFile /\ w.put = k
  BY FilesDiffer, WriteIs DEF Contents
<1>3. j \in Jobs /\ j.kind = "key" /\ j.key = k
  BY FreeIs DEF Jobs
<1>4. held' \in [Operators -> Views \cup {None}]
  BY DEF StoreInv, TypeOK, SetKey
<1>5. todo' = <<Write(KeyFile, j.key)>>
  BY <1>1
<1> HIDE DEF j, w
<1>6. 1..Len(todo') = {1} /\ todo'[1] = w /\ todo' \in Seq(Writes) /\ todo' # <<>>
  BY <1>1, <1>2
<1>7. Distinct(todo') /\ \A f \in Of(todo') : f = KeyFile
  BY <1>2, <1>6 DEF Distinct, Of
<1>8. KeyFile \in Of(todo') /\ Ordered(todo')
  BY <1>2, <1>6, FilesDiffer DEF Of, Ordered
<1>9. Does(j, disk, todo', priv, "ok", {})
  BY <1>3, <1>8 DEF Does
<1>10. ASSUME NEW p \in Parts, Fine(disk, <<>>, priv, p) PROVE Fine(disk, todo', priv, p)
  <2>1. disk[p] # None => disk[Body(p)] # None /\ disk[Sig(p)] = <<priv, disk[p]>>
    BY <1>10, FineThen
  <2>2. p \notin Of(todo') /\ Sig(p) \notin Of(todo') /\ Body(p) \notin Of(todo')
    BY <1>7, FilesDiffer DEF Body
  <2>3. After(disk, todo', p) = disk[p] /\ After(disk, todo', Sig(p)) = disk[Sig(p)]
        /\ After(disk, todo', Body(p)) = disk[Body(p)]
    BY <2>2, AfterElse
  <2> QED
    BY <2>1, <2>3 DEF Fine
<1> QED
  BY <1>1, <1>3, <1>4, <1>5, <1>6, <1>7, <1>8, <1>9, <1>10, Begun

\* What an operation has yet to write is of files of the parts it may cut short.
LEMMA CutIs ==
  ASSUME NEW t, NEW p \in Parts, p \notin Cut(t), DOMAIN t = 1..Len(t)
  PROVE  p \notin Of(t) /\ Sig(p) \notin Of(t)
BY DEF Cut, Of

\* An operation that gives up, or is cut off.
LEMMA GivenUp ==
  ASSUME StoreInv, todo' = <<>>, job' = Free, priv' = priv, up' \in BOOLEAN, told' \in {"ok", "error"},
         unread' = {}, held' \in [Operators -> Views \cup {None}],
         \/ UNCHANGED disk
         \/ /\ todo # <<>>
            /\ \E c \in {disk[Head(todo).at], Torn} : disk' = [disk EXCEPT ![Head(todo).at] = c],
         Spoil(Cut(todo))
  PROVE  StoreInv'
<1>1. todo \in Seq(Writes) /\ Distinct(todo) /\ disk \in Disks /\ DOMAIN todo = 1..Len(todo)
  BY DEF StoreInv, Shape, TypeOK
<1>2. todo # <<>> => Head(todo).at \in Files /\ Head(todo).at \in Of(todo)
  BY <1>1, Shorter, WriteIs
<1>3. disk' \in Disks
  BY <1>1, <1>2 DEF Disks, Contents
<1>4. TypeOK'
  <2>1. spoiled' \subseteq Parts
    BY DEF StoreInv, TypeOK, Spoil, Cut
  <2> QED
    BY <1>3, <2>1, FreeIs, NothingTodo DEF StoreInv, TypeOK
<1>5. Shape' /\ Does(job', disk', todo', priv', told', unread')
  BY NothingTodo DEF Shape
<1>6. KeyOnFile'
  BY <1>1, <1>2, FilesDiffer DEF StoreInv, KeyOnFile, Disks
<1>7. Vouched'
  <2> SUFFICES ASSUME NEW p \in Parts, p \notin spoiled' PROVE Fine(disk', todo', priv', p)
    BY DEF Vouched
  <2> SUFFICES ASSUME p \notin spoiled, p \notin Cut(todo) PROVE Fine(disk', todo', priv', p)
    BY SpoilIs
  <2>1. Fine(disk, todo, priv, p) /\ p \notin Of(todo) /\ Sig(p) \notin Of(todo)
    BY <1>1, CutIs DEF StoreInv, Vouched
  <2>2. CASE UNCHANGED disk
    <3>1. After(disk, todo, p) = disk[p] /\ After(disk, todo, Sig(p)) = disk[Sig(p)]
      BY <2>1, AfterElse
    <3>2. disk[p] # None => disk[Body(p)] # None /\ disk[Sig(p)] = <<priv, disk[p]>>
      BY <2>1, <3>1 DEF Fine
    <3> QED
      BY <2>2, <3>2, FineNow
  <2>3. CASE todo # <<>> /\ \E c \in {disk[Head(todo).at], Torn} : disk' = [disk EXCEPT ![Head(todo).at] = c]
    <3> DEFINE h == Head(todo).at
    <3>1. h \in Of(todo)
      BY <1>2, <2>3
    <3>2. PICK c \in {disk[h], Torn} : disk' = [disk EXCEPT ![h] = c]
      BY <2>3
    <3> HIDE DEF h
    <3>3. Fine([disk EXCEPT ![h] = c], <<>>, priv, p)
      BY <1>1, <2>1, <3>1, FineCut
    <3> QED
      BY <3>2, <3>3
  <2> QED
    BY <2>2, <2>3
<1> QED
  BY <1>4, <1>5, <1>6, <1>7 DEF StoreInv, Busy

\* A removal that fails spoils the part; what is left to remove goes on.
LEMMA RemoveFailsInv ==
  ASSUME StoreInv, RemoveFails
  PROVE  /\ StoreInv'
         /\ told' = "ok" => job.kind = "save" /\ SaveDone(disk', todo', priv', job.view)
<1> DEFINE outcome == IF job.kind = "delete" THEN "error" ELSE told
<1>1. /\ todo \in Seq(Writes) /\ todo # <<>> /\ Distinct(todo) /\ Ordered(todo) /\ disk \in Disks /\ job \in Jobs
      /\ Head(todo).put = None /\ disk[Head(todo).at] # None
      /\ todo' = Tail(todo) /\ UNCHANGED <<disk, priv, up, held, unread>>
      /\ Finish(outcome) /\ Spoil(Cut(todo)) /\ outcome \in {"ok", "error"}
  BY DEF StoreInv, Shape, TypeOK, RemoveFails
<1>2. /\ Head(todo) \in Writes /\ todo' \in Seq(Writes) /\ Distinct(todo') /\ Ordered(todo')
      /\ Head(todo) = todo[1] /\ 1 \in 1..Len(todo) /\ Head(todo).at \in Of(todo)
      /\ \A f \in Of(todo') : f \in Of(todo)
  BY <1>1, Shorter
<1>3. KeyFile \notin Of(todo)
  <2> SUFFICES ASSUME KeyFile \in Of(todo) PROVE FALSE
    OBVIOUS
  <2>1. Head(todo) = Write(KeyFile, job.key) /\ job.key \in Keys
    BY DEF StoreInv, Shape
  <2> QED
    BY <1>1, <2>1, ServerAssumption DEF Write
<1>4. job.kind # "key"
  <2> SUFFICES ASSUME job.kind = "key" PROVE FALSE
    OBVIOUS
  <2>1. KeyDone(disk, todo, priv, unread)
    BY <1>3 DEF StoreInv, Does
  <2>2. todo[1].put # None
    BY <1>2, <2>1 DEF KeyDone
  <2> QED
    BY <1>1, <1>2, <2>2
<1>5. job.kind = "save" => SaveDone(disk', todo', priv', job.view)
  <2> SUFFICES ASSUME job.kind = "save" PROVE SaveDone(disk', todo', priv', job.view)
    OBVIOUS
  <2>1. job.view \in Views /\ SaveDone(disk, todo, priv, job.view)
    BY <1>1 DEF StoreInv, Does, Jobs
  <2>2. SaveDone(disk, Tail(todo), priv, job.view)
    BY <1>1, <2>1, SaveDoneSkip
  <2> QED
    BY <1>1, <2>2
<1>6. job.kind \in {"save", "delete"}
  <2>1. job.kind \in {"none", "save", "delete", "key"}
    BY <1>1 DEF Jobs
  <2>2. job.kind # "none"
    BY <1>1 DEF StoreInv, Busy
  <2> QED
    BY <1>4, <2>1, <2>2
<1>7. /\ job' \in Jobs /\ (todo' = <<>> <=> job' = Free) /\ told' \in {"ok", "error"}
      /\ ((job' = Free /\ todo' = <<>>) \/ (job' = job /\ told' = outcome))
      /\ told' = "ok" => outcome = "ok"
  <2>1. TypeOK
    BY DEF StoreInv
  <2>2. Finish(outcome) /\ outcome \in {"ok", "error"} /\ todo' \in Seq(Writes) /\ todo # <<>>
    BY <1>1, <1>2
  <2> HIDE DEF outcome
  <2>3. /\ job' \in Jobs /\ (todo' = <<>> <=> job' = Free) /\ told' \in {"ok", "error"}
        /\ todo' = <<>> => job' = Free
        /\ todo' # <<>> => job' = job /\ told' = outcome
        /\ told' = "ok" => outcome = "ok"
    BY <2>1, <2>2, FinishIs
  <2> QED
    BY <2>3
<1>8. TypeOK'
  <2>1. spoiled' \subseteq Parts
    BY DEF StoreInv, TypeOK, RemoveFails, Spoil, Cut
  <2> QED
    BY <1>1, <1>2, <1>7, <2>1 DEF StoreInv, TypeOK
<1>9. Shape' /\ KeyOnFile' /\ Busy'
  <2>1. Shape' /\ KeyOnFile'
    BY <1>1, <1>2, <1>3 DEF StoreInv, Shape, KeyOnFile
  <2> QED
    BY <1>6, <1>7, <2>1 DEF Busy
<1>10. Does(job', disk', todo', priv', told', unread')
  <2>1. CASE job' = Free /\ todo' = <<>>
    BY <2>1, NothingTodo
  <2>2. CASE job' = job /\ told' = outcome
    BY <1>4, <1>5, <1>6, <2>2 DEF Does
  <2> QED
    BY <1>7, <2>1, <2>2
<1>11. Vouched'
  <2> SUFFICES ASSUME NEW p \in Parts, p \notin spoiled' PROVE Fine(disk', todo', priv', p)
    BY DEF Vouched
  <2> SUFFICES ASSUME p \notin spoiled, p \notin Cut(todo) PROVE Fine(disk', todo', priv', p)
    BY <1>1, SpoilIs
  <2>1. Fine(disk, todo, priv, p)
    BY DEF StoreInv, Vouched
  <2>2. p \notin Of(todo) /\ Sig(p) \notin Of(todo)
    BY <1>1, CutIs
  <2>3. Head(todo).at \notin {p, Sig(p)}
    BY <1>2, <2>2
  <2>4. Fine(disk, Tail(todo), priv, p)
    BY <1>1, <2>1, <2>3, FineSkip
  <2> QED
    BY <1>1, <2>4
<1> QED
  BY <1>5, <1>6, <1>7, <1>8, <1>9, <1>10, <1>11 DEF StoreInv

\* A write that fails: the operation gives up.
LEMMA WriteFailsInv ==
  ASSUME StoreInv, WriteFails
  PROVE  StoreInv'
<1>1. /\ todo # <<>> /\ todo' = <<>> /\ job' = Free /\ told' = "error" /\ unread' = {} /\ UNCHANGED <<priv, up, held>>
      /\ \E c \in {disk[Head(todo).at], Torn} : disk' = [disk EXCEPT ![Head(todo).at] = c]
      /\ Spoil(Cut(todo))
  BY DEF WriteFails
<1>2. up' \in BOOLEAN /\ held' \in [Operators -> Views \cup {None}]
  BY <1>1 DEF StoreInv, TypeOK
<1> QED
  BY <1>1, <1>2, GivenUp

\* A crash cuts the operation off, perhaps in the middle of a write.
LEMMA CrashInv ==
  ASSUME StoreInv, Crash
  PROVE  StoreInv'
<1>1. /\ todo' = <<>> /\ job' = Free /\ priv' = priv /\ up' \in BOOLEAN
      /\ held' = [o \in Operators |-> None] /\ unread' = {} /\ Spoil(Cut(todo))
      /\ \/ UNCHANGED disk
         \/ /\ todo # <<>>
            /\ \E c \in {disk[Head(todo).at], Torn} : disk' = [disk EXCEPT ![Head(todo).at] = c]
  BY DEF Crash
<1>2. told' \in {"ok", "error"} /\ held' \in [Operators -> Views \cup {None}]
  BY <1>1 DEF StoreInv, TypeOK, Crash
<1> QED
  BY <1>1, <1>2, GivenUp

\* After a restart the key is the one on file, which is the one the server had.
LEMMA OpenInv ==
  ASSUME StoreInv, Open
  PROVE  StoreInv'
<1>1. priv' = priv /\ up' = TRUE /\ UNCHANGED <<disk, todo, job, held, told, unread, spoiled>>
  BY DEF StoreInv, KeyOnFile, Open
<1> QED
  BY <1>1 DEF StoreInv, TypeOK, Shape, Busy, KeyOnFile, Vouched

\* What an operator's save will submit.
LEMMA PrepareInv ==
  ASSUME StoreInv, NEW o \in Operators, NEW v \in Submitted, Prepare(o, v)
  PROVE  StoreInv'
<1>1. UNCHANGED <<disk, priv, up, todo, job, told, unread, spoiled>>
      /\ held' = [held EXCEPT ![o] = [v EXCEPT !.mig = Migration(v.name)]]
  BY DEF Prepare
<1>2. v \in Views
  BY ServerAssumption
<1>3. Migration(v.name) \in Migrations \cup {None}
  <2> DEFINE m == <<v.name, "mig">>
  <2>1. m \in Parts /\ m \in Files /\ m # KeyFile /\ m[2] = "mig"
    BY <1>2, FilesDiffer DEF Views
  <2>2. disk[m] \in Contents(m)
    BY <2>1 DEF StoreInv, TypeOK, Disks
  <2>3. disk[m] \in Migrations \cup {None, Torn}
    <3> HIDE DEF m
    <3> QED
      BY <2>1, <2>2 DEF Contents
  <2> QED
    BY <2>3 DEF Migration
<1>4. [v EXCEPT !.mig = Migration(v.name)] \in Views
  BY <1>2, <1>3 DEF Views
<1>5. held' \in [Operators -> Views \cup {None}]
  BY <1>1, <1>4 DEF StoreInv, TypeOK
<1> QED
  BY <1>1, <1>5 DEF StoreInv, TypeOK, Shape, Busy, KeyOnFile, Vouched

\* Every step keeps the account.
LEMMA StoreStep == StoreInv /\ [Next]_vars => StoreInv'
<1> SUFFICES ASSUME StoreInv, [Next]_vars PROVE StoreInv'
  OBVIOUS
<1>1. ASSUME NEW v \in Submitted, SaveByAdmin(v) PROVE StoreInv'
  <2>1. v \in Views /\ Save(v, "admin") /\ held' \in [Operators -> Views \cup {None}]
    BY <1>1, ServerAssumption DEF SaveByAdmin, StoreInv, TypeOK
  <2> QED
    BY <2>1, SaveInv
<1>2. ASSUME NEW o \in Operators, SaveHeld(o) PROVE StoreInv'
  <2>1. held[o] \in Views /\ Save(held[o], "operator") /\ held' \in [Operators -> Views \cup {None}]
    BY <1>2 DEF SaveHeld, StoreInv, TypeOK
  <2> QED
    BY <2>1, SaveInv
<1>3. CASE Step
  BY <1>3, StepOther, StepKey
<1>4. CASE UNCHANGED vars
  BY <1>4 DEF vars, StoreInv, TypeOK, Shape, Busy, KeyOnFile, Vouched
<1> QED
  BY <1>1, <1>2, <1>3, <1>4, PrepareInv, DeleteInv, SetKeyInv, WriteFailsInv, RemoveFailsInv,
     CrashInv, OpenInv DEF Next

-----------------------------------------------------------------------------
\* For any profiles, contents, keys, operators and submissions, whatever fails or crashes
\* at whichever write: the account of the store holds, types included (store.go).
THEOREM StoreAccount == Spec => []StoreInv
<1>1. StoreInv /\ [Next]_vars => StoreInv'
  BY StoreStep
<1> QED
  BY <1>1, StoreStart, PTL DEF Spec

\* ServedIsVouched: between two operations of a running server, what is served is signed by
\* the server's key unless a fault spoiled it and nothing has mended it since
\* (SaveProfile, resignAllLocked, Open).
THEOREM ProfilesAreVouched == Spec => []ServedIsVouched
<1>1. StoreInv => ServedIsVouched
  <2> SUFFICES ASSUME StoreInv, todo = <<>>, NEW p \in Parts, p \notin spoiled PROVE Fits(p)
    BY DEF ServedIsVouched
  <2>1. Fine(disk, <<>>, priv, p)
    BY DEF StoreInv, Vouched
  <2>2. disk[p] # None => disk[Body(p)] # None /\ disk[Sig(p)] = <<priv, disk[p]>>
    BY <2>1, FineThen
  <2> QED
    BY <2>2 DEF Fits, Served, Body
<1> QED
  BY <1>1, StoreAccount, PTL

\* What an operation answers at its end.
LEMMA Answers ==
  ASSUME StoreInv, [Next]_vars, todo # <<>>, todo' = <<>>, up', told' = "ok"
  PROVE  /\ Does(job, disk', <<>>, priv', "ok", unread') /\ job \in Jobs
         /\ job.kind = "save" => job.view.mig # Bad
         /\ job.kind = "key" => Step
<1>1. todo' \in Seq(Writes) /\ TypeOK /\ job \in Jobs /\ told \in {"ok", "error"}
  BY NothingTodo DEF StoreInv, TypeOK
<1>2. Step \/ RemoveFails
  BY DEF Next, vars, SaveByAdmin, SaveHeld, Save, Begin, Prepare, Delete, SetKey, WriteFails, Crash, Open
<1>3. CASE Step
  <2>1. Does(job, disk', todo', priv', told, unread')
    BY <1>3, StepOther, StepKey
  <2>2. told = "ok" /\ (job.kind = "save" => job.view.mig # Bad)
    BY <1>1, <1>3, FinishIs DEF Step
  <2> QED
    BY <1>1, <1>3, <2>1, <2>2
<1>4. CASE RemoveFails
  <2>1. job.kind = "save" /\ SaveDone(disk', <<>>, priv', job.view)
    BY <1>4, RemoveFailsInv
  <2>2. Finish(told)
    BY <1>4, <2>1 DEF RemoveFails
  <2>3. job.view.mig # Bad
    BY <1>1, <2>1, <2>2, FinishIs
  <2> QED
    BY <1>1, <2>1, <2>3 DEF Does
<1> QED
  BY <1>2, <1>3, <1>4

\* A change of keys touches the key's file and signatures only.
LEMMA KeyStepKeeps ==
  ASSUME StoreInv, Step, todo # <<>>, job.kind = "key", NEW p \in Parts
  PROVE  disk'[p] = disk[p]
<1>1. CASE Head(todo).at = KeyFile
  BY <1>1, StepKey
<1>2. CASE Head(todo).at # KeyFile
  <2>1. /\ todo \in Seq(Writes) /\ Distinct(todo) /\ disk \in Disks
        /\ disk' = [disk EXCEPT ![Head(todo).at] = Head(todo).put]
    BY DEF StoreInv, Shape, TypeOK, Step
  <2>2. KeyFile \notin Of(todo)
    <3>1. KeyFile \in Of(todo) => Head(todo) = Write(KeyFile, job.key)
      BY DEF StoreInv, Shape
    <3> QED
      BY <1>2, <3>1 DEF Write
  <2>3. KeyDone(disk, todo, priv, unread) /\ Head(todo).at \in Of(todo)
    BY <2>1, <2>2, Shorter DEF StoreInv, Does
  <2>4. PICK q \in Parts : Head(todo).at = Sig(q)
    BY <2>3 DEF KeyDone
  <2>5. Head(todo).at # p
    <3>1. Sig(q) \notin Parts
      BY FilesDiffer
    <3> QED
      BY <2>4, <3>1
  <2> QED
    BY <2>1, <2>5, FilesDiffer DEF Disks
<1> QED
  BY <1>1, <1>2

\* AnswerIsTrue: an operation that answers without an error has done what it was asked
\* for, every file of it, but for what a change of keys could not read (SaveProfile, DeleteProfile, GenerateKey, ImportKey).
THEOREM AnswersAreTrue == Spec => AnswerIsTrue
<1> DEFINE Ends == todo # <<>> /\ todo' = <<>> /\ up' /\ told' = "ok"
           Holds(n) ==
             /\ job.kind = "save" =>
                  /\ disk'[<<n, "body">>] = job.view.body /\ Fits(<<n, "body">>)'
                  /\ job.view.mig # None => disk'[<<n, "mig">>] = job.view.mig /\ Fits(<<n, "mig">>)'
             /\ job.kind = "key" =>
                  /\ priv' = job.key
                  /\ \A p \in Parts \ unread' : disk[<<p[1], "body">>] # None => Fits(p)'
             /\ job.kind = "delete" =>
                  \A p \in {q \in Parts : q[1] = n} : disk'[p] = None /\ disk'[Sig(p)] = None
<1>1. ASSUME StoreInv, [Next]_vars, Ends, NEW n \in {job.view.name} PROVE Holds(n)
  <2>1. /\ Does(job, disk', <<>>, priv', "ok", unread') /\ job \in Jobs
        /\ job.kind = "save" => job.view.mig # Bad
        /\ job.kind = "key" => Step
    BY <1>1, Answers
  <2>2. \A f : After(disk', <<>>, f) = disk'[f]
    BY NothingTodo, AfterElse
  <2>3. job.view \in Views /\ n \in Names /\ n = job.view.name
    BY <2>1 DEF Jobs, Views
  <2>4. \A p : (disk'[p] # None => disk'[Body(p)] # None /\ disk'[Sig(p)] = <<priv', disk'[p]>>) => Fits(p)'
    BY DEF Fits, Served, Body
  <2>5. ASSUME job.kind = "save"
        PROVE  /\ disk'[<<n, "body">>] = job.view.body /\ Fits(<<n, "body">>)'
               /\ job.view.mig # None => disk'[<<n, "mig">>] = job.view.mig /\ Fits(<<n, "mig">>)'
    <3> DEFINE b == <<n, "body">>
               m == <<n, "mig">>
    <3>1. SaveDone(disk', <<>>, priv', job.view)
      BY <2>1, <2>5 DEF Does
    <3>2. /\ disk'[b] = job.view.body /\ disk'[Sig(b)] = <<priv', job.view.body>>
          /\ job.view.mig \in Migrations => disk'[m] = job.view.mig /\ disk'[Sig(m)] = <<priv', job.view.mig>>
      BY <2>2, <2>3, <3>1 DEF SaveDone
    <3>3. job.view.body # None /\ (job.view.mig # None => job.view.mig \in Migrations)
      BY <2>1, <2>3, <2>5, ServerAssumption DEF Views, Plain
    <3>4. Body(b) = b /\ Body(m) = b
      BY DEF Body
    <3> SUFFICES /\ disk'[b] = job.view.body /\ Fits(b)'
                 /\ job.view.mig # None => disk'[m] = job.view.mig /\ Fits(m)'
      OBVIOUS
    <3> HIDE DEF b, m
    <3>5. Fits(b)'
      BY <2>4, <3>2, <3>3, <3>4
    <3>6. job.view.mig # None => Fits(m)'
      BY <2>4, <3>2, <3>3, <3>4
    <3> QED
      BY <3>2, <3>3, <3>5, <3>6
  <2>6. ASSUME job.kind = "delete", NEW p \in Parts, p[1] = n
        PROVE  disk'[p] = None /\ disk'[Sig(p)] = None
    <3>1. DeleteDone(disk', <<>>, n)
      BY <2>1, <2>3, <2>6 DEF Does
    <3> QED
      BY <2>2, <2>6, <3>1 DEF DeleteDone
  <2>7. ASSUME job.kind = "key"
        PROVE  priv' = job.key /\ KeyDone(disk', <<>>, priv', unread')
    BY <2>1, <2>7, NothingTodo DEF Does
  <2>8. ASSUME job.kind = "key", NEW p \in Parts \ unread', disk[<<p[1], "body">>] # None
        PROVE  Fits(p)'
    <3>1. Body(p) \in Parts /\ disk[Body(p)] # None
      BY <2>8, FilesDiffer DEF Body
    <3>2. disk'[Body(p)] # None
      BY <1>1, <2>1, <2>8, <3>1, KeyStepKeeps
    <3>3. disk'[p] # None => disk'[Sig(p)] = <<priv', disk'[p]>>
      BY <2>2, <2>7, <2>8, <3>2 DEF KeyDone
    <3> QED
      BY <2>4, <3>2, <3>3
  <2>9. \A p \in {q \in Parts : q[1] = n} : job.kind = "delete" => disk'[p] = None /\ disk'[Sig(p)] = None
    BY <2>6
  <2> QED
    BY <2>5, <2>7, <2>8, <2>9
<1>2. StoreInv /\ [Next]_vars => [Ends => \A n \in {job.view.name} : Holds(n)]_vars
  BY <1>1
<1> QED
  BY <1>2, StoreAccount, PTL DEF Spec, AnswerIsTrue

-----------------------------------------------------------------------------
(* MCConfigServer.  A step of the store, of a sign-in, of a file or of the watch leaves the
   variables of the others alone. *)

AllInv == StoreInv /\ AuthInv /\ RulesInv /\ EgressTypeOK

\* Each part starts as it does alone.
LEMMA PartsStart == MCInit => AllInv
<1> SUFFICES ASSUME MCInit PROVE AllInv
  OBVIOUS
<1>1. Init /\ AuthInit /\ RulesInit /\ EgressInit
  BY DEF MCInit, NoWatch
<1>2. QED
  BY <1>1, StoreStart, AuthStart, RulesStart, EgressInitTypes DEF AllInv

\* A step of the composition is a step of one part and a stutter of the others.
LEMMA PartsStep ==
  AllInv /\ [MCNext]_<<vars, authVars, ruleVars, egressVars>> => AllInv'
<1> SUFFICES ASSUME AllInv, [MCNext]_<<vars, authVars, ruleVars, egressVars>> PROVE AllInv'
  OBVIOUS
<1>1. /\ [Next]_vars /\ [AuthNext]_authVars
      /\ [RulesNext]_ruleVars /\ [EgressNext]_egressVars
  BY DEF MCNext
<1>2. StoreInv'
  BY <1>1, StoreStep DEF AllInv
<1>3. AuthInv'
  BY <1>1, AuthStepTypes, AuthStepCounted DEF AllInv, AuthInv
<1>4. RulesInv'
  BY <1>1, RulesStep DEF AllInv
<1>5. EgressTypeOK'
  BY <1>1, EgressStepTypes DEF AllInv
<1>6. QED
  BY <1>2, <1>3, <1>4, <1>5 DEF AllInv

\* Beside each other as on their own, the store, the sign-ins, a client's file and the watch
\* keep their types (store.go, auth.go, schema.go, egress_windows.go).
THEOREM PartsTypes == MCSpec => []Types
<1>1. AllInv => Types
  BY DEF AllInv, StoreInv, AuthInv, RulesInv, Types
<1>2. QED
  BY <1>1, PartsStart, PartsStep, PTL DEF MCSpec

=============================================================================
