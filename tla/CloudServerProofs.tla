-------------------------- MODULE CloudServerProofs --------------------------
(***************************************************************************)
(* Proofs about CloudServer and the tables of CloudIndex under it: where   *)
(* Agent resources are reachable, which default scope an account has, what *)
(* a login may end, and how the cursors of a run advance.                  *)
(*                                                                         *)
(* A step of the service is at most one move of the scopes, bindings and   *)
(* of what AgInTi holds (Move of the world), and one request that takes a  *)
(* new place.  The invariant is kept move by move.                         *)
(*                                                                         *)
(* At the end, proofs about RolloutAdmission, the latch its requests take  *)
(* their leases from, which shares no variable with it: for every number   *)
(* of leases, requests, operators and closures, with and without power     *)
(* loss.                                                                   *)
(***************************************************************************)
EXTENDS CloudServer, RolloutAdmission, FiniteSetTheorems, SequenceTheorems, WellFoundedInduction, TLAPS

-----------------------------------------------------------------------------
(* The invariant of the scopes.                                            *)

WorldTypes ==
  /\ accounts \in [Accounts -> Identities \cup {None}]
  /\ scopes \in [Digests -> ScopeRow \cup {None}]
  /\ bindings \in [Resources -> BindingRow \cup {None}]
  /\ agent \in [Resources -> Digests \cup {None}]
  /\ deleted \subseteq Resources

\* An account with a scope is there; one that is there has one scope that is not old.
ScopesFine ==
  /\ \A s \in Digests : scopes[s] # None => Exists(scopes[s].owner)
  /\ \A a \in Accounts : Exists(a) => HasDefault(a)
  /\ \A a \in Accounts : \A s, u \in Owned(scopes, a) :
       scopes[s].kind # "legacy_session" /\ scopes[u].kind # "legacy_session" => s = u

\* A resource is bound to nothing but the scope it was made under.
BindingsFine ==
  \A y \in Resources : bindings[y] # None =>
    bindings[y] = [owner |-> Account, scope |-> agent[y]] /\ agent[y] \in Mine

\* What belongs to a thread was made under the thread's scope.
AgentFine ==
  /\ \A y \in Resources : agent[y] \in {None, agent[Home[y]]}
  /\ \A x \in Live : bindings[x] = None => agent[x] \in Mine
  /\ \A x \in deleted : agent[x] # None /\ (IsThread(x) => Resolved(x, agent[x]))

World == WorldTypes /\ ScopesFine /\ BindingsFine /\ AgentFine

Working == {"call", "probe", "probed", "answered", "list", "listed"}
Saw == {"probed", "answered", "listed"}

\* What a request knows: the scope that answered is the one its finds were made under,
\* the scope it will call is the one its resource is reached by, and nothing is
\* made under an old scope that has shown nothing.
RowFine(r) ==
  /\ r.at \in Working => Defaults(Account) # {}
  /\ r.at \notin {"idle", "login"} => (r.on = None <=> r.path \in {"threads.create", "threads.list"})
  /\ r.at = "call" => /\ r.scope \in Digests
                      /\ IF r.on = None THEN r.scope \in Defaults(Account) ELSE Resolved(r.on, r.scope)
  /\ r.at \in Saw => r.scope \in Digests /\ \A y \in r.found : agent[y] = r.scope
  /\ r.at = "probed" => r.on \in r.found
  /\ r.at = "listed" /\ r.found = {} /\ r.scope \in Mine /\ scopes[r.scope].kind = "legacy_session" =>
       \A x \in Live : agent[x] # r.scope

Stands(r) == \E q \in Requests : request[q] = r

RequestsFine ==
  /\ request \in [Requests -> RequestRow]
  /\ \A r \in RequestRow : Stands(r) => RowFine(r)

ScopeInv == World /\ RequestsFine

-----------------------------------------------------------------------------
(* What the world does.                                                    *)

Still == UNCHANGED <<accounts, scopes, bindings, agentVars>>

Provides(a) ==
  /\ \E id \in Identities : accounts' = [accounts EXCEPT ![a] = id]
  /\ EnsureDefault(a)
  /\ UNCHANGED <<bindings, agentVars>>

Primes(d) == scopes' = Primed(Account, d) /\ UNCHANGED <<accounts, bindings, agentVars>>

Makes(y, s) ==
  /\ agent[y] = None
  /\ \/ IsThread(y) /\ s \in Defaults(Account)
     \/ Home[y] \in Live /\ agent[Home[y]] = s
  /\ agent' = [agent EXCEPT ![y] = s]
  /\ UNCHANGED <<accounts, scopes, bindings, deleted>>

Deletes(x) ==
  /\ agent[x] # None /\ Resolved(x, agent[x])
  /\ deleted' = deleted \cup {y \in Resources : Home[y] = x /\ agent[y] # None}
  /\ UNCHANGED <<accounts, scopes, bindings, agent>>

Binds(X, s) ==
  /\ \A y \in X : agent[y] = s
  /\ Bindable(Account, X, s)
  /\ bindings' = Bound(Account, X, s)
  /\ UNCHANGED <<accounts, scopes, agentVars>>

Retires(s) ==
  /\ \A x \in Live : agent[x] # s
  /\ Retirable(Account, s) /\ Retire(Account, s)
  /\ UNCHANGED <<accounts, agentVars>>

Turns ==
  \/ Still
  \/ \E a \in Accounts : Provides(a)
  \/ \E d \in Digests \cup {None} : Primes(d)
  \/ \E y \in Resources, s \in Digests : Makes(y, s)
  \/ \E x \in Resources : Deletes(x)
  \/ \E X \in SUBSET Resources, s \in Digests : Binds(X, s)
  \/ \E s \in Digests : Retires(s)

\* What no move takes from a request that is under way.
Old(s) == s \in Mine /\ scopes[s].kind = "legacy_session"
Unused(s) == \A x \in Live : agent[x] # s

Gentle ==
  /\ \A a \in Accounts : Defaults(a) # {} => Defaults(a)' = Defaults(a)
  /\ \A x \in Resources, s \in Digests : Resolved(x, s) => Resolved(x, s)'
  /\ \A y \in Resources : agent[y] # None => agent'[y] = agent[y]
  /\ Defaults(Account) # {} => \A s \in Digests : Old(s)' => Old(s) /\ (Unused(s) => Unused(s)')

LEMMA NoNone ==
  /\ None \notin Digests /\ None \notin Resources /\ None \notin Identities
  /\ None \notin ScopeRow /\ None \notin BindingRow /\ Account \in Accounts
BY IndexAssumption, ServerAssumption

LEMMA HomeIs == \A x \in Resources : Home[x] \in Resources /\ Home[Home[x]] = Home[x]
BY ServerAssumption

LEMMA GentleRow ==
  ASSUME Gentle, NEW r \in RequestRow, RowFine(r)
  PROVE  RowFine(r)'
<1> USE NoNone
<1>1. r.on \in Resources \cup {None} /\ r.scope \in Digests \cup {None} /\ r.found \subseteq Resources
  BY DEF RequestRow
<1>2. r.at \in Working => Defaults(Account)' # {}
  BY DEF Gentle, RowFine
<1>3. r.at \in Working => Defaults(Account)' = Defaults(Account)
  BY DEF Gentle, RowFine
<1>4. r.at = "call" => /\ r.scope \in Digests
                       /\ IF r.on = None THEN r.scope \in Defaults(Account)' ELSE Resolved(r.on, r.scope)'
  <2> SUFFICES ASSUME r.at = "call"
               PROVE  /\ r.scope \in Digests
                      /\ IF r.on = None THEN r.scope \in Defaults(Account)' ELSE Resolved(r.on, r.scope)'
    OBVIOUS
  <2>1. r.at \in Working
    BY DEF Working
  <2>2. r.scope \in Digests /\ IF r.on = None THEN r.scope \in Defaults(Account) ELSE Resolved(r.on, r.scope)
    BY DEF RowFine
  <2> QED BY <1>1, <1>3, <2>1, <2>2 DEF Gentle
<1>5. r.at \in Saw => r.scope \in Digests /\ \A y \in r.found : agent'[y] = r.scope
  BY <1>1 DEF Gentle, RowFine
<1>6. r.at = "listed" /\ r.found = {} /\ Old(r.scope)' => Unused(r.scope)'
  <2> SUFFICES ASSUME r.at = "listed", r.found = {}, Old(r.scope)'
               PROVE  Unused(r.scope)'
    OBVIOUS
  <2>1. r.at \in Working /\ r.at \in Saw
    BY DEF Working, Saw
  <2>2. r.scope \in Digests /\ Defaults(Account) # {}
    BY <2>1 DEF RowFine
  <2>3. Old(r.scope) /\ (Unused(r.scope) => Unused(r.scope)')
    BY <2>2 DEF Gentle
  <2>4. Unused(r.scope)
    BY <2>3 DEF RowFine, Old, Unused
  <2> QED BY <2>3, <2>4
<1>7. r.at = "listed" /\ r.found = {} /\ r.scope \in Mine' /\ scopes'[r.scope].kind = "legacy_session" =>
        \A x \in Live' : agent'[x] # r.scope
  BY <1>6 DEF Old, Unused
<1> QED BY <1>2, <1>4, <1>5, <1>7 DEF RowFine

LEMMA StillTurns ==
  ASSUME World, Still
  PROVE  World' /\ Gentle
<1>1. World'
  BY DEF World, WorldTypes, ScopesFine, BindingsFine, AgentFine, Still, agentVars, Mine, Owned, Exists,
         HasDefault, Live, IsThread, Resolved
<1>2. Gentle
  BY DEF Gentle, Still, agentVars, Defaults, Mine, Owned, Live, Resolved, Old, Unused
<1> QED BY <1>1, <1>2

LEMMA ScopeIs ==
  ASSUME World, NEW s \in Digests, scopes[s] # None
  PROVE  scopes[s].owner \in Accounts /\ s \in Owned(scopes, scopes[s].owner)
         /\ scopes[s].kind \in {"default", "default_pending", "legacy_session"}
<1>1. scopes[s] \in ScopeRow /\ DOMAIN scopes = Digests
  BY DEF World, WorldTypes
<1> QED BY <1>1 DEF ScopeRow, Owned

\* Where the owners stay, so does what is resolved.
LEMMA OwnersStay ==
  ASSUME World, DOMAIN scopes' = DOMAIN scopes, UNCHANGED bindings,
         \A s \in Digests : scopes'[s] # None <=> scopes[s] # None,
         \A s \in Digests : scopes[s] # None => scopes'[s].owner = scopes[s].owner
  PROVE  /\ \A a : Owned(scopes, a)' = Owned(scopes, a)
         /\ Mine' = Mine
         /\ \A x, s : Resolved(x, s) <=> Resolved(x, s)'
<1>1. DOMAIN scopes = Digests
  BY DEF World, WorldTypes
<1>2. \A a : Owned(scopes, a)' = Owned(scopes, a)
  BY <1>1 DEF Owned
<1>3. Mine' = Mine
  BY <1>2 DEF Mine
<1> QED BY <1>2, <1>3 DEF Resolved

LEMMA PrimesTurns ==
  ASSUME World, NEW d \in Digests \cup {None}, Primes(d)
  PROVE  World' /\ Gentle
<1> USE NoNone
<1>1. DOMAIN scopes = Digests /\ scopes \in [Digests -> ScopeRow \cup {None}]
  BY DEF World, WorldTypes
<1>2. CASE \A s \in Owned(scopes, Account) : scopes[s].kind # "default_pending"
  <2>1. Still
    BY <1>2 DEF Primes, Primed, Still
  <2> QED BY <2>1, StillTurns
<1>3. ASSUME NEW p \in Owned(scopes, Account), scopes[p].kind = "default_pending"
      PROVE  World' /\ Gentle
  <2>1. p \in Digests /\ \A s \in Owned(scopes, Account) : scopes[s].kind # "legacy_session" => s = p
    BY <1>1, <1>3 DEF World, ScopesFine, Owned
  <2>2. Defaults(Account) = {}
    BY <1>3, <2>1 DEF Defaults
  <2> DEFINE Def == [owner |-> Account, kind |-> "default"]
             Leg == [owner |-> Account, kind |-> "legacy_session"]
  <2>3. Def \in ScopeRow /\ Leg \in ScopeRow /\ Def.owner = Account /\ Leg.owner = Account
        /\ Def.kind = "default" /\ Leg.kind = "legacy_session"
    BY DEF ScopeRow
  <2> HIDE DEF Def, Leg
  <2>4. \E n \in Owned(scopes, Account) :
          scopes' = [s \in Digests |-> IF s = n THEN Def
                                       ELSE IF s \in Owned(scopes, Account) THEN Leg
                                       ELSE scopes[s]]
    <3>1. CASE d \in Owned(scopes, Account) /\ scopes[d].kind = "legacy_session"
      BY <1>3, <3>1 DEF Primes, Primed, Def, Leg
    <3>2. CASE ~(d \in Owned(scopes, Account) /\ scopes[d].kind = "legacy_session")
      <4>1. scopes' = [s \in Digests |->
              IF s \in Owned(scopes, Account) /\ scopes[s].kind = "default_pending" THEN Def ELSE scopes[s]]
        BY <1>3, <3>2 DEF Primes, Primed, Def
      <4>2. \A s \in Owned(scopes, Account) : scopes[s].kind = "default_pending" <=> s = p
        BY <1>3, <2>1
      <4>3. \A s \in Owned(scopes, Account) \ {p} : scopes[s] = Leg
        <5> SUFFICES ASSUME NEW s \in Owned(scopes, Account) \ {p}
                     PROVE  scopes[s] = Leg
          OBVIOUS
        <5>1. scopes[s] \in ScopeRow /\ scopes[s].owner = Account /\ scopes[s].kind = "legacy_session"
          BY <1>1, <2>1 DEF Owned
        <5> QED BY <5>1 DEF ScopeRow, Leg
      <4>4. \A s \in Digests : scopes'[s] = IF s = p THEN Def
                                            ELSE IF s \in Owned(scopes, Account) THEN Leg
                                            ELSE scopes[s]
        BY <1>3, <4>1, <4>2, <4>3
      <4> QED BY <1>3, <4>1, <4>4
    <3> QED BY <3>1, <3>2
  <2>5. PICK n \in Owned(scopes, Account) :
          scopes' = [s \in Digests |-> IF s = n THEN Def
                                       ELSE IF s \in Owned(scopes, Account) THEN Leg
                                       ELSE scopes[s]]
    BY <2>4
  <2>6. n \in Digests /\ DOMAIN scopes' = Digests /\ scopes' \in [Digests -> ScopeRow \cup {None}]
    BY <1>1, <2>3, <2>5 DEF Owned
  <2>7. \A s \in Digests : (scopes'[s] # None <=> scopes[s] # None)
                           /\ (scopes[s] # None => scopes'[s].owner = scopes[s].owner)
    BY <1>1, <2>3, <2>5, <2>6 DEF Owned
  <2>8. UNCHANGED <<accounts, bindings, agent, deleted>>
    BY DEF Primes, agentVars
  <2>9. /\ \A a : Owned(scopes, a)' = Owned(scopes, a)
        /\ Mine' = Mine
        /\ \A x, s : Resolved(x, s) <=> Resolved(x, s)'
    BY <1>1, <2>6, <2>7, <2>8, OwnersStay
  <2>10. \A a \in Accounts \ {Account} : \A s \in Owned(scopes, a) : s \in Digests /\ scopes'[s] = scopes[s]
    BY <1>1, <2>3, <2>5 DEF Owned
  <2>11. scopes'[n] = Def /\ \A s \in Owned(scopes, Account) \ {n} : scopes'[s] = Leg
    BY <1>1, <2>5, <2>6 DEF Owned
  <2>12. WorldTypes'
    BY <2>6, <2>8 DEF World, WorldTypes
  <2>13. ScopesFine'
    <3>1. \A s \in Digests : scopes'[s] # None => accounts'[scopes'[s].owner] # None
      BY <2>7, <2>8 DEF World, ScopesFine, Exists
    <3>2. ASSUME NEW a \in Accounts, Exists(a)'
          PROVE  HasDefault(a)'
      <4>1. CASE a = Account
        BY <2>3, <2>9, <2>11, <4>1 DEF HasDefault
      <4>2. CASE a # Account
        BY <2>8, <2>9, <2>10, <3>2, <4>2 DEF World, ScopesFine, Exists, HasDefault
      <4> QED BY <4>1, <4>2
    <3>3. ASSUME NEW a \in Accounts, NEW s \in Owned(scopes, a), NEW u \in Owned(scopes, a),
                 scopes'[s].kind # "legacy_session", scopes'[u].kind # "legacy_session"
          PROVE  s = u
      <4>1. CASE a = Account
        BY <2>3, <2>11, <3>3, <4>1
      <4>2. CASE a # Account
        BY <2>10, <3>3, <4>2 DEF World, ScopesFine
      <4> QED BY <4>1, <4>2
    <3> QED BY <2>9, <3>1, <3>2, <3>3 DEF ScopesFine, Exists
  <2>14. BindingsFine' /\ AgentFine'
    BY <2>8, <2>9 DEF World, BindingsFine, AgentFine, Live, IsThread
  <2>15. \A a \in Accounts : Defaults(a) # {} => Defaults(a)' = Defaults(a)
    <3> SUFFICES ASSUME NEW a \in Accounts, a # Account
                 PROVE  Defaults(a)' = Defaults(a)
      BY <2>2
    <3> QED BY <2>9, <2>10 DEF Defaults
  <2>16. Gentle
    BY <2>2, <2>8, <2>9, <2>15 DEF Gentle
  <2> QED BY <2>12, <2>13, <2>14, <2>16 DEF World
<1> QED BY <1>2, <1>3

LEMMA ProvidesTurns ==
  ASSUME World, NEW a \in Accounts, Provides(a)
  PROVE  World' /\ Gentle
<1> USE NoNone
<1>1. scopes \in [Digests -> ScopeRow \cup {None}] /\ DOMAIN scopes = Digests
      /\ accounts \in [Accounts -> Identities \cup {None}]
  BY DEF World, WorldTypes
<1>2. PICK id \in Identities : accounts' = [accounts EXCEPT ![a] = id]
  BY DEF Provides
<1>3. accounts' \in [Accounts -> Identities \cup {None}] /\ Exists(a)'
      /\ \A b \in Accounts : (Exists(b) => Exists(b)') /\ (b # a => (Exists(b)' => Exists(b)))
  BY <1>1, <1>2 DEF Exists
<1>4. UNCHANGED <<bindings, agent, deleted>>
  BY DEF Provides, agentVars
<1>5. CASE scopes' = scopes /\ HasDefault(a)
  <2>1. WorldTypes'
    BY <1>3, <1>4, <1>5 DEF World, WorldTypes
  <2>2. ScopesFine'
    <3>1. \A s \in Digests : scopes'[s] # None => accounts'[scopes'[s].owner] # None
      BY <1>3, <1>5, ScopeIs DEF World, ScopesFine, Exists
    <3>2. \A b \in Accounts : Exists(b)' => HasDefault(b)'
      BY <1>3, <1>5 DEF World, ScopesFine, HasDefault, Owned
    <3>3. \A b \in Accounts : \A s, u \in Owned(scopes, b)' :
            scopes'[s].kind # "legacy_session" /\ scopes'[u].kind # "legacy_session" => s = u
      BY <1>5 DEF World, ScopesFine, Owned
    <3> QED BY <3>1, <3>2, <3>3 DEF ScopesFine, Exists
  <2>3. BindingsFine' /\ AgentFine' /\ Gentle
    BY <1>4, <1>5 DEF World, BindingsFine, AgentFine, Mine, Owned, Live, IsThread, Resolved,
                      Gentle, Defaults, Old, Unused
  <2> QED BY <2>1, <2>2, <2>3 DEF World
<1>6. CASE ~HasDefault(a)
  <2> DEFINE Def == [owner |-> a, kind |-> "default"]
  <2>1. Def \in ScopeRow /\ Def.owner = a /\ Def.kind = "default"
    BY DEF ScopeRow
  <2>2. PICK n \in Digests : scopes[n] = None /\ scopes' = [scopes EXCEPT ![n] = Def]
    BY <1>6 DEF Provides, EnsureDefault
  <2> HIDE DEF Def
  <2>3. ~Exists(a) /\ Owned(scopes, a) = {}
    BY <1>1, <1>6, ScopeIs DEF World, ScopesFine, Owned
  <2>4. scopes' \in [Digests -> ScopeRow \cup {None}] /\ DOMAIN scopes' = Digests
        /\ scopes'[n] = Def /\ \A s \in Digests \ {n} : scopes'[s] = scopes[s]
    BY <1>1, <2>1, <2>2
  <2>5. Owned(scopes, a)' = {n} /\ \A b \in Accounts \ {a} : Owned(scopes, b)' = Owned(scopes, b)
    BY <1>1, <2>1, <2>2, <2>3, <2>4 DEF Owned
  <2>6. \A b \in Accounts : n \notin Owned(scopes, b)
    BY <2>2 DEF Owned
  <2>7. WorldTypes'
    BY <1>3, <1>4, <2>4 DEF World, WorldTypes
  <2>8. ScopesFine'
    <3>1. \A s \in Digests : scopes'[s] # None => accounts'[scopes'[s].owner] # None
      BY <1>3, <2>1, <2>4, ScopeIs DEF World, ScopesFine, Exists
    <3>2. ASSUME NEW b \in Accounts, Exists(b)'
          PROVE  HasDefault(b)'
      <4>1. CASE b = a
        BY <2>1, <2>4, <2>5, <4>1 DEF HasDefault
      <4>2. CASE b # a
        <5>1. PICK s \in Owned(scopes, b) : scopes[s].kind # "legacy_session"
          BY <1>3, <3>2, <4>2 DEF World, ScopesFine, HasDefault
        <5>2. s \in Digests \ {n}
          BY <1>1, <2>6 DEF Owned
        <5> QED BY <2>4, <2>5, <4>2, <5>1, <5>2 DEF HasDefault
      <4> QED BY <4>1, <4>2
    <3>3. ASSUME NEW b \in Accounts, NEW s \in Owned(scopes, b)', NEW u \in Owned(scopes, b)',
                 scopes'[s].kind # "legacy_session", scopes'[u].kind # "legacy_session"
          PROVE  s = u
      <4>1. CASE b = a
        BY <2>5, <4>1
      <4>2. CASE b # a
        <5>1. s \in Owned(scopes, b) /\ u \in Owned(scopes, b)
          BY <2>5, <4>2
        <5>2. s \in Digests \ {n} /\ u \in Digests \ {n}
          BY <1>1, <2>6, <5>1 DEF Owned
        <5> QED BY <2>4, <3>3, <5>1, <5>2 DEF World, ScopesFine
      <4> QED BY <4>1, <4>2
    <3> QED BY <3>1, <3>2, <3>3 DEF ScopesFine, Exists
  <2>9. \A s \in Mine : s \in Digests /\ s # n /\ s \in Mine' /\ scopes'[s] = scopes[s]
    BY <1>1, <2>3, <2>4, <2>5, <2>6 DEF Mine, Owned
  <2>10. Mine # {} => Mine' = Mine
    BY <2>3, <2>5 DEF Mine
  <2>11. \A x, s : Resolved(x, s) => Resolved(x, s)'
    BY <1>4, <2>10 DEF Resolved
  <2>12. BindingsFine'
    BY <1>4, <2>9 DEF World, BindingsFine
  <2>13. AgentFine'
    BY <1>4, <2>9, <2>11 DEF World, AgentFine, Live, IsThread
  <2>14. \A b \in Accounts : Defaults(b) # {} => Defaults(b)' = Defaults(b)
    <3> SUFFICES ASSUME NEW b \in Accounts, Defaults(b) # {}
                 PROVE  Defaults(b)' = Defaults(b)
      OBVIOUS
    <3>1. b # a
      BY <2>3 DEF Defaults
    <3>2. \A s \in Owned(scopes, b) : scopes'[s] = scopes[s]
      BY <1>1, <2>4, <2>6 DEF Owned
    <3> QED BY <2>5, <3>1, <3>2 DEF Defaults
  <2>15. Defaults(Account) # {} => \A s \in Digests : Old(s)' => Old(s) /\ (Unused(s) => Unused(s)')
    <3> SUFFICES ASSUME Defaults(Account) # {}, NEW s \in Digests, Old(s)'
                 PROVE  Old(s) /\ (Unused(s) => Unused(s)')
      OBVIOUS
    <3>1. Mine' = Mine
      BY <2>10 DEF Defaults, Mine
    <3> QED BY <1>4, <2>9, <3>1 DEF Old, Unused, Live
  <2>16. Gentle
    BY <1>4, <2>11, <2>14, <2>15 DEF Gentle
  <2> QED BY <2>7, <2>8, <2>12, <2>13, <2>16 DEF World
<1> QED BY <1>5, <1>6 DEF Provides, EnsureDefault

LEMMA MakesTurns ==
  ASSUME World, NEW y \in Resources, NEW s \in Digests, Makes(y, s)
  PROVE  World' /\ Gentle
<1> USE NoNone
<1>1. agent \in [Resources -> Digests \cup {None}] /\ DOMAIN scopes = Digests /\ agent[y] = None
  BY DEF World, WorldTypes, Makes
<1>2. UNCHANGED <<accounts, scopes, bindings, deleted>>
  BY DEF Makes
<1>3. agent' \in [Resources -> Digests \cup {None}] /\ agent'[y] = s
      /\ \A z \in Resources \ {y} : agent'[z] = agent[z]
  BY <1>1 DEF Makes
<1>4. y \notin deleted /\ bindings[y] = None
  BY <1>1 DEF World, AgentFine, BindingsFine, Mine, Owned
<1>5. Live' = Live \cup {y}
  BY <1>1, <1>2, <1>3, <1>4 DEF Live
<1>6. s \in Mine
  <2>1. CASE s \in Defaults(Account)
    BY <2>1 DEF Defaults, Mine
  <2>2. CASE Home[y] \in Live /\ agent[Home[y]] = s
    BY <2>2, HomeIs DEF World, AgentFine, BindingsFine
  <2> QED BY <2>1, <2>2 DEF Makes
<1>7. /\ Mine' = Mine
      /\ \A a : Defaults(a)' = Defaults(a)
      /\ \A x, u : Resolved(x, u)' <=> Resolved(x, u)
  BY <1>2 DEF Mine, Defaults, Owned, Resolved
<1>8. WorldTypes' /\ ScopesFine'
  BY <1>2, <1>3 DEF World, WorldTypes, ScopesFine, Exists, HasDefault, Owned
<1>9. BindingsFine'
  BY <1>2, <1>3, <1>4, <1>7 DEF World, BindingsFine
<1>10. AgentFine'
  <2>1. ASSUME NEW z \in Resources
        PROVE  agent'[z] \in {None, agent'[Home[z]]}
    <3>1. Home[z] \in Resources /\ Home[y] \in Resources /\ agent[z] \in {None, agent[Home[z]]}
      BY HomeIs DEF World, AgentFine
    <3>2. CASE z = y
      <4>1. CASE IsThread(y)
        BY <3>2, <4>1 DEF IsThread
      <4>2. CASE Home[y] \in Live /\ agent[Home[y]] = s
        <5>1. Home[y] # y
          BY <1>1, <4>2
        <5> QED BY <1>3, <3>1, <3>2, <4>2, <5>1
      <4> QED BY <4>1, <4>2 DEF Makes
    <3>3. CASE z # y
      BY <1>1, <1>3, <3>1, <3>3
    <3> QED BY <3>2, <3>3
  <2>2. \A x \in Live' : bindings'[x] = None => agent'[x] \in Mine'
    BY <1>2, <1>3, <1>5, <1>6, <1>7 DEF World, AgentFine, Live
  <2>3. \A x \in deleted' : agent'[x] # None /\ (IsThread(x) => Resolved(x, agent[x])') 
    <3> SUFFICES ASSUME NEW x \in deleted
                 PROVE  agent'[x] # None /\ (IsThread(x) => Resolved(x, agent'[x]))
      BY <1>2, <1>7 DEF Resolved
    <3>1. x \in Resources \ {y}
      BY <1>4 DEF World, WorldTypes
    <3> QED BY <1>3, <3>1 DEF World, AgentFine
  <2> QED BY <2>1, <2>2, <2>3 DEF AgentFine, IsThread
<1>11. Gentle
  <2>1. ASSUME NEW u \in Digests, Old(u), Unused(u)
        PROVE  Unused(u)'
    <3>1. u # s
      <4>1. CASE s \in Defaults(Account)
        BY <2>1, <4>1 DEF Old, Defaults
      <4>2. CASE Home[y] \in Live /\ agent[Home[y]] = s
        BY <2>1, <4>2 DEF Unused
      <4> QED BY <4>1, <4>2 DEF Makes
    <3> QED BY <1>3, <1>5, <2>1, <3>1 DEF Unused, Live
  <2>2. \A u \in Digests : Old(u)' => Old(u)
    BY <1>2, <1>7 DEF Old
  <2> QED BY <1>1, <1>3, <1>7, <2>1, <2>2 DEF Gentle
<1> QED BY <1>8, <1>9, <1>10, <1>11 DEF World

LEMMA DeletesTurns ==
  ASSUME World, NEW x \in Resources, Deletes(x)
  PROVE  World' /\ Gentle
<1> USE NoNone
<1>1. UNCHANGED <<accounts, scopes, bindings, agent>>
      /\ deleted' = deleted \cup {y \in Resources : Home[y] = x /\ agent[y] # None}
  BY DEF Deletes
<1>2. /\ Mine' = Mine
      /\ \A a : Defaults(a)' = Defaults(a)
      /\ \A z, u : Resolved(z, u)' <=> Resolved(z, u)
      /\ Live' \subseteq Live
  BY <1>1 DEF Mine, Defaults, Owned, Resolved, Live
<1>3. WorldTypes' /\ ScopesFine' /\ BindingsFine'
  BY <1>1 DEF World, WorldTypes, ScopesFine, BindingsFine, Exists, HasDefault, Mine, Owned
<1>4. \A z \in deleted' : agent[z] # None /\ (IsThread(z) => Resolved(z, agent[z]))
  BY <1>1 DEF World, AgentFine, IsThread, Deletes
<1>5. \A z \in deleted' : agent'[z] # None /\ (IsThread(z) => Resolved(z, agent[z])')
  BY <1>1, <1>4 DEF Resolved, Mine, Owned
<1>6. AgentFine'
  BY <1>1, <1>2, <1>5 DEF World, AgentFine, IsThread
<1>7. Gentle
  BY <1>1, <1>2 DEF Gentle, Old, Unused
<1> QED BY <1>3, <1>6, <1>7 DEF World

LEMMA BindsTurns ==
  ASSUME World, NEW X \in SUBSET Resources, NEW s \in Digests, Binds(X, s)
  PROVE  World' /\ Gentle
<1> USE NoNone
<1>1. UNCHANGED <<accounts, scopes, agent, deleted>> /\ bindings \in [Resources -> BindingRow \cup {None}]
      /\ \A y \in X : agent[y] = s
  BY DEF Binds, agentVars, World, WorldTypes
<1> DEFINE Row == [owner |-> Account, scope |-> s]
<1>2. Row \in BindingRow /\ \A u : Row = [owner |-> Account, scope |-> u] => u = s
  BY DEF BindingRow
<1>3. X # {} => s \in Mine
  BY DEF Binds, Bindable, Mine
<1>4. \A x \in X : bindings[x] \in {None, Row}
  BY DEF Binds, Bindable
<1>5. bindings' = [x \in Resources |-> IF x \in X THEN Row ELSE bindings[x]]
  BY DEF Binds, Bound
<1>6. /\ bindings' \in [Resources -> BindingRow \cup {None}]
      /\ \A x \in X : bindings'[x] = Row
      /\ \A x \in Resources \ X : bindings'[x] = bindings[x]
  BY <1>1, <1>2, <1>5
<1>7. /\ Mine' = Mine /\ Live' = Live
      /\ \A a : Defaults(a)' = Defaults(a)
  BY <1>1 DEF Mine, Defaults, Owned, Live
<1>8. ASSUME NEW x \in Resources, NEW u \in Digests, Resolved(x, u)
      PROVE  Resolved(x, u)'
  <2>1. CASE x \in X
    <3>1. u = s
      BY <1>2, <1>3, <1>4, <1>8, <2>1 DEF Resolved
    <3> QED BY <1>2, <1>6, <2>1, <3>1 DEF Resolved
  <2>2. CASE x \notin X
    BY <1>6, <1>7, <1>8, <2>2 DEF Resolved
  <2> QED BY <2>1, <2>2
<1>9. WorldTypes' /\ ScopesFine'
  BY <1>1, <1>6 DEF World, WorldTypes, ScopesFine, Exists, HasDefault, Owned
<1>10. BindingsFine'
  <2> SUFFICES ASSUME NEW y \in Resources, bindings'[y] # None
               PROVE  bindings'[y] = [owner |-> Account, scope |-> agent[y]] /\ agent[y] \in Mine
    BY <1>1, <1>7 DEF BindingsFine
  <2>1. CASE y \in X
    BY <1>1, <1>3, <1>6, <2>1
  <2>2. CASE y \notin X
    BY <1>6, <2>2 DEF World, BindingsFine
  <2> QED BY <2>1, <2>2
<1>11. AgentFine'
  <2>1. \A x \in Live' : bindings'[x] = None => agent'[x] \in Mine'
    <3> SUFFICES ASSUME NEW x \in Live, bindings'[x] = None
                 PROVE  agent[x] \in Mine
      BY <1>1, <1>7
    <3>1. x \in Resources \ X
      BY <1>2, <1>6 DEF Live
    <3> QED BY <1>6, <3>1 DEF World, AgentFine
  <2>2. \A x \in deleted : x \in Resources /\ agent[x] \in Digests
                           /\ (IsThread(x) => Resolved(x, agent[x]))
    BY DEF World, WorldTypes, AgentFine
  <2>3. \A x \in deleted : \A u : u = agent[x] => (IsThread(x) => Resolved(x, u)')
    BY <1>8, <2>2
  <2>4. \A x \in deleted : IsThread(x) => Resolved(x, agent[x])'
    BY <1>1, <2>3 DEF Resolved
  <2> QED BY <1>1, <2>1, <2>2, <2>4 DEF World, AgentFine, IsThread
<1>12. Gentle
  BY <1>1, <1>7, <1>8 DEF Gentle, Old, Unused
<1> QED BY <1>9, <1>10, <1>11, <1>12 DEF World

LEMMA RetiresTurns ==
  ASSUME World, NEW s \in Digests, Retires(s)
  PROVE  World' /\ Gentle
<1> USE NoNone
<1>1. UNCHANGED <<accounts, agent, deleted>> /\ scopes \in [Digests -> ScopeRow \cup {None}]
      /\ DOMAIN scopes = Digests /\ bindings \in [Resources -> BindingRow \cup {None}]
  BY DEF Retires, agentVars, World, WorldTypes
<1>2. s \in Mine /\ scopes[s].kind = "legacy_session" /\ scopes[s] # None /\ scopes[s].owner = Account
      /\ \A x \in Resources : bindings[x] # [owner |-> Account, scope |-> s]
  BY DEF Retires, Retirable, Mine, Owned
<1>3. \A x \in Resources : bindings'[x] = bindings[x]
  BY <1>2 DEF Retires, Retire
<1>4. bindings' = bindings
  BY <1>1, <1>3 DEF Retires, Retire
<1>5. scopes' \in [Digests -> ScopeRow \cup {None}] /\ DOMAIN scopes' = Digests
      /\ scopes'[s] = None /\ \A u \in Digests \ {s} : scopes'[u] = scopes[u]
  BY <1>1 DEF Retires, Retire
<1>6. \A a : /\ Owned(scopes, a)' = Owned(scopes, a) \ {s}
             /\ Defaults(a)' = Defaults(a)
  BY <1>1, <1>2, <1>5 DEF Owned, Defaults
<1>7. Mine' = Mine \ {s}
  BY <1>6 DEF Mine
<1>8. PICK n \in Mine : scopes[n].kind # "legacy_session"
  <2>1. Exists(Account)
    BY <1>2 DEF World, ScopesFine
  <2> QED BY <2>1 DEF World, ScopesFine, HasDefault, Mine
<1>9. \A x, u : Resolved(x, u) => Resolved(x, u)'
  BY <1>2, <1>4, <1>7, <1>8 DEF Resolved
<1>10. WorldTypes'
  BY <1>1, <1>4, <1>5 DEF World, WorldTypes
<1>11. ScopesFine'
  <2>1. \A u \in Digests : scopes'[u] # None => accounts'[scopes'[u].owner] # None
    BY <1>1, <1>5 DEF World, ScopesFine, Exists
  <2>2. ASSUME NEW a \in Accounts, Exists(a)
        PROVE  HasDefault(a)'
    <3>1. PICK u \in Owned(scopes, a) : scopes[u].kind # "legacy_session"
      BY <2>2 DEF World, ScopesFine, HasDefault
    <3>2. u \in Owned(scopes, a)' /\ scopes'[u] = scopes[u]
      BY <1>1, <1>2, <1>5, <1>6, <3>1 DEF Owned
    <3> QED BY <3>1, <3>2 DEF HasDefault
  <2>3. \A a \in Accounts : \A u \in Owned(scopes, a)' : u \in Owned(scopes, a) /\ scopes'[u] = scopes[u]
    BY <1>1, <1>5, <1>6 DEF Owned
  <2> QED BY <1>1, <2>1, <2>2, <2>3 DEF World, ScopesFine, Exists
<1>12. BindingsFine'
  <2> SUFFICES ASSUME NEW y \in Resources, bindings[y] # None
               PROVE  bindings[y] = [owner |-> Account, scope |-> agent[y]] /\ agent[y] \in Mine \ {s}
    BY <1>1, <1>4, <1>7 DEF BindingsFine
  <2> QED BY <1>2 DEF World, BindingsFine
<1>13. AgentFine'
  <2>1. \A x \in Live' : bindings'[x] = None => agent'[x] \in Mine'
    BY <1>1, <1>4, <1>7 DEF World, AgentFine, Live, Retires
  <2>2. \A x \in deleted : IsThread(x) => Resolved(x, agent[x])'
    BY <1>1, <1>2, <1>4, <1>7, <1>8 DEF World, AgentFine, Resolved
  <2> QED BY <1>1, <2>1, <2>2 DEF World, AgentFine, IsThread
<1>14. \A u \in Digests : Old(u)' => Old(u)
  BY <1>5, <1>7 DEF Old
<1>15. Live' = Live
  BY <1>1 DEF Live
<1>16. \A u : Unused(u) => Unused(u)'
  BY <1>1, <1>15 DEF Unused
<1>17. Gentle
  BY <1>1, <1>6, <1>9, <1>14, <1>16 DEF Gentle
<1> QED BY <1>10, <1>11, <1>12, <1>13, <1>17 DEF World

LEMMA WorldTurns ==
  ASSUME World, Turns
  PROVE  World' /\ Gentle
BY StillTurns, ProvidesTurns, PrimesTurns, MakesTurns, DeletesTurns, BindsTurns, RetiresTurns DEF Turns

-----------------------------------------------------------------------------
(* Every step of the service is a turn of the world, and a request that is fine. *)

LEMMA RowsStay ==
  ASSUME RequestsFine, Gentle, request' \in [Requests -> RequestRow],
         \A r \in RequestRow : Stands(r)' => Stands(r) \/ RowFine(r)'
  PROVE  RequestsFine'
BY GentleRow DEF RequestsFine

LEMMA Placed ==
  ASSUME RequestsFine, Gentle, NEW q \in Requests, NEW r \in RequestRow, Move(q, r), RowFine(r)'
  PROVE  RequestsFine'
<1>1. request' \in [Requests -> RequestRow] /\ request'[q] = r
      /\ \A o \in Requests \ {q} : request'[o] = request[o]
  BY DEF RequestsFine, Move
<1>2. \A p \in RequestRow : Stands(p)' => Stands(p) \/ p = r
  BY <1>1 DEF Stands
<1> QED BY <1>1, <1>2, RowsStay

LEMMA IdleFine == Idle \in RequestRow /\ Idle.at = "idle" /\ RowFine(Idle) /\ RowFine(Idle)'
<1>1. /\ Idle \in RequestRow
      /\ Idle.at = "idle" /\ Idle.found = {}
  BY DEF Idle, RequestRow, Steps
<1>2. RowFine(Idle)
  BY <1>1 DEF RowFine, Working, Saw
<1>3. RowFine(Idle)'
  BY <1>1 DEF RowFine, Working, Saw
<1> QED BY <1>1, <1>2, <1>3

LEMMA StoreTurns ==
  ASSUME ScopeInv, StoreStep
  PROVE  Turns /\ RequestsFine'
<1>1. UNCHANGED <<request, agent, deleted>>
  BY DEF StoreStep, agentVars
<1>2. ASSUME NEW t, StoreCall(t)
      PROVE  Turns
  <2>1. CASE UNCHANGED <<accounts, scopes, bindings>>
    BY <1>1, <2>1 DEF Turns, Still, agentVars
  <2>2. CASE \E a \in Accounts, key \in Keys, id \in Identities : ProvisionAccount(a, id, key, t)
    <3>1. PICK a \in Accounts, key \in Keys, id \in Identities : ProvisionAccount(a, id, key, t)
      BY <2>2
    <3>2. Provides(a)
      BY <1>1, <3>1 DEF ProvisionAccount, Provides, agentVars
    <3> QED BY <3>2 DEF Turns
  <2>3. CASE \E a \in Accounts, key \in Keys, x \in Threads :
               \/ RemoveThreadIndex(a, x, key, t)
               \/ \E meta \in Metas :
                    \/ RegisterThread(a, x, meta, key, t)
                    \/ \E op \in {"thread.update", "thread.sync"} : UpdateThread(op, a, x, meta, key, t)
    <3>1. ASSUME NEW a, NEW key, NEW x, RemoveThreadIndex(a, x, key, t)
          PROVE  UNCHANGED <<accounts, scopes, bindings>>
      BY <3>1 DEF RemoveThreadIndex
    <3>2. ASSUME NEW a, NEW key, NEW x, NEW meta, RegisterThread(a, x, meta, key, t)
          PROVE  UNCHANGED <<accounts, scopes, bindings>>
      BY <3>2 DEF RegisterThread
    <3>3. ASSUME NEW op, NEW a, NEW key, NEW x, NEW meta, UpdateThread(op, a, x, meta, key, t)
          PROVE  UNCHANGED <<accounts, scopes, bindings>>
      BY <3>3 DEF UpdateThread
    <3> QED BY <2>1, <2>3, <3>1, <3>2, <3>3
  <2>4. CASE \E a \in Accounts, x \in Threads, r \in Runs, seq \in 0 .. MaxSeq, hash \in Hashes \cup {None} :
               RecordRunCursor(a, x, r, seq, hash, t)
    BY <2>1, <2>4 DEF RecordRunCursor
  <2>5. CASE (\E a \in Accounts : Replay(a, t)) \/ PruneExpiredState(t)
    BY <2>1, <2>5 DEF Replay, PruneExpiredState
  <2> QED BY <1>2, <2>2, <2>3, <2>4, <2>5 DEF StoreCall
<1>3. ASSUME Tick
      PROVE  Turns
  BY <1>1, <1>3 DEF Turns, Tick, Still, agentVars
<1>4. Turns
  BY <1>2, <1>3 DEF StoreStep
<1>5. Gentle
  BY <1>4, WorldTurns DEF ScopeInv
<1>6. RequestsFine'
  <2>1. request' \in [Requests -> RequestRow]
    BY <1>1 DEF ScopeInv, RequestsFine
  <2>2. \A r \in RequestRow : Stands(r)' => Stands(r)
    BY <1>1 DEF Stands
  <2> QED BY <1>5, <2>1, <2>2, RowsStay DEF ScopeInv
<1> QED BY <1>4, <1>6

LEMMA SessionTurns ==
  ASSUME ScopeInv, SessionCall
  PROVE  Turns /\ RequestsFine'
<1>1. Still
  <2>1. ASSUME NEW q \in Requests, NEW p \in Servers, EnterLogin(q, p)
        PROVE  Still
    BY <2>1 DEF EnterLogin, Still, indexVars
  <2>2. ASSUME NEW q \in Requests, NEW d \in Digests, NEW age \in Ages, NEW t \in Started,
               FinishLogin(q, d, age, t)
        PROVE  Still
    BY <2>2 DEF FinishLogin, CreateBrowserSession, Still, indexVars
  <2>3. ASSUME NEW p \in Servers, NEW d \in Digests, NEW t \in Started, Logout(p, d, t)
        PROVE  Still
    BY <2>3 DEF Logout, RevokeBrowserSession, Still, indexVars
  <2>4. ASSUME NEW p \in Servers, EphemeralEnds(p) \/ Restart(p)
        PROVE  Still
    BY <2>4 DEF EphemeralEnds, Restart, PruneExpiredState, Still, indexVars
  <2> QED BY <2>1, <2>2, <2>3, <2>4 DEF SessionCall
<1>2. Gentle
  BY <1>1, StillTurns DEF ScopeInv
<1>3. request \in [Requests -> RequestRow]
  BY DEF ScopeInv, RequestsFine
<1>4. ASSUME NEW q \in Requests, NEW p \in Servers, EnterLogin(q, p)
      PROVE  RequestsFine'
  <2> DEFINE new == [Idle EXCEPT !.at = "login", !.server = p]
  <2>1. new \in RequestRow /\ new.at = "login" /\ new.found = {}
    BY DEF Idle, RequestRow, Steps
  <2>2. Move(q, new)
    BY <1>4 DEF EnterLogin
  <2>3. \E r \in RequestRow : Move(q, r) /\ r.at = "login"
    BY <2>1, <2>2
  <2>4. PICK r \in RequestRow : Move(q, r) /\ r.at = "login"
    BY <2>3
  <2>5. RowFine(r)'
    BY <2>4 DEF RowFine, Working, Saw
  <2> QED BY <1>2, <2>4, <2>5, Placed DEF ScopeInv
<1>5. ASSUME NEW q \in Requests, NEW d \in Digests, NEW age \in Ages, NEW t \in Started,
             FinishLogin(q, d, age, t)
      PROVE  RequestsFine'
  BY <1>2, <1>5, IdleFine, Placed DEF FinishLogin, ScopeInv
<1>6. ASSUME request' = request
      PROVE  RequestsFine'
  <2>1. \A r \in RequestRow : Stands(r)' => Stands(r)
    BY <1>6 DEF Stands
  <2> QED BY <1>2, <1>3, <1>6, <2>1, RowsStay DEF ScopeInv
<1>7. ASSUME NEW p \in Servers, Restart(p)
      PROVE  RequestsFine'
  <2>1. request' = [q \in Requests |-> IF request[q].server = p THEN Idle ELSE request[q]]
    BY <1>7 DEF Restart
  <2>2. request' \in [Requests -> RequestRow]
    BY <1>3, <2>1, IdleFine
  <2>3. \A r \in RequestRow : Stands(r)' => Stands(r) \/ r = Idle
    BY <2>1 DEF Stands
  <2> QED BY <1>2, <2>2, <2>3, IdleFine, RowsStay DEF ScopeInv
<1>8. ASSUME NEW p \in Servers, NEW d \in Digests, NEW t \in Started, Logout(p, d, t)
      PROVE  RequestsFine'
  BY <1>6, <1>8 DEF Logout
<1>9. ASSUME NEW p \in Servers, EphemeralEnds(p)
      PROVE  RequestsFine'
  BY <1>6, <1>9 DEF EphemeralEnds
<1> QED BY <1>1, <1>4, <1>5, <1>7, <1>8, <1>9 DEF SessionCall, Turns

\* The row a request has: a name that does not change with the state.
LEMMA RowIs ==
  ASSUME ScopeInv, NEW q \in Requests
  PROVE  \E o \in RequestRow : o = request[q] /\ RowFine(o)
<1>1. request[q] \in RequestRow /\ Stands(request[q])
  BY DEF ScopeInv, RequestsFine, Stands
<1> QED BY <1>1 DEF ScopeInv, RequestsFine

LEMMA AdmitTurns ==
  ASSUME ScopeInv, NEW q \in Requests, NEW p \in Servers, NEW d \in Digests, NEW path \in Paths,
         NEW x \in Resources \cup {None}, Admit(q, p, d, path, x)
  PROVE  Turns /\ RequestsFine'
<1>1. Still
  BY DEF Admit, Still, indexVars
<1>2. Gentle
  BY <1>1, StillTurns DEF ScopeInv
<1> DEFINE new == [Idle EXCEPT !.at = "admitted", !.server = p, !.path = path, !.on = x, !.digest = d]
<1>3. new \in RequestRow /\ new.at = "admitted" /\ new.on = x /\ new.path = path
  BY DEF Idle, RequestRow, Steps
<1>4. Move(q, new)
  BY DEF Admit
<1>5. PICK r \in RequestRow : Move(q, r) /\ r.at = "admitted" /\ r.on = x /\ r.path = path
  BY <1>3, <1>4
<1>6. x = None <=> path \in {"threads.create", "threads.list"}
  BY NoNone DEF Admit
<1>7. RowFine(r)'
  BY <1>5, <1>6 DEF RowFine, Working, Saw
<1> QED BY <1>1, <1>2, <1>5, <1>7, Placed DEF Turns, ScopeInv

LEMMA PrimeTurns ==
  ASSUME ScopeInv, NEW q \in Requests, Prime(q)
  PROVE  Turns /\ RequestsFine'
<1>1. PICK o \in RequestRow : o = request[q] /\ RowFine(o)
  BY RowIs
<1>2. Primes(o.digest) /\ o.digest \in Digests \cup {None}
  BY <1>1 DEF Prime, Primes, RequestRow
<1>3. Turns
  BY <1>2 DEF Turns
<1>4. Gentle
  BY <1>3, WorldTurns DEF ScopeInv
<1> DEFINE new == [o EXCEPT !.at = "primed", !.digest = None]
<1>5. new \in RequestRow /\ new.at = "primed" /\ new.on = o.on /\ new.path = o.path
  BY DEF RequestRow, Steps
<1>6. Move(q, new)
  BY <1>1 DEF Prime
<1>7. PICK r \in RequestRow : Move(q, r) /\ r.at = "primed" /\ r.on = o.on /\ r.path = o.path
  BY <1>5, <1>6
<1>8. o.at = "admitted"
  BY <1>1 DEF Prime
<1>9. RowFine(r)'
  BY <1>1, <1>7, <1>8 DEF RowFine, Working, Saw
<1> QED BY <1>3, <1>4, <1>7, <1>9, Placed DEF ScopeInv

LEMMA ResolveTurns ==
  ASSUME ScopeInv, NEW q \in Requests, Resolve(q)
  PROVE  Turns /\ RequestsFine'
<1> USE NoNone
<1>1. PICK o \in RequestRow : o = request[q] /\ RowFine(o)
  BY RowIs
<1>2. Still /\ Turns
  BY DEF Resolve, Still, Turns, indexVars
<1>3. Gentle
  BY <1>2, StillTurns DEF ScopeInv
<1>4. /\ Defaults(Account)' = Defaults(Account) /\ Defaults(Account) # {}
      /\ \A x, s : Resolved(x, s)' <=> Resolved(x, s)
  BY <1>2 DEF Still, Defaults, Owned, Resolved, Mine, Resolve
<1>5. Defaults(Account) \subseteq Digests /\ Mine \subseteq Digests
  BY DEF Defaults, Mine, Owned, ScopeInv, World, WorldTypes
<1>6. /\ o.at = "primed"
      /\ o.on = None <=> o.path \in {"threads.create", "threads.list"}
  BY <1>1 DEF Resolve, RowFine
<1>7. \A s \in Digests : LET n == [o EXCEPT !.at = "call", !.scope = s]
                         IN n \in RequestRow /\ n.at = "call" /\ n.scope = s /\ n.on = o.on /\ n.path = o.path
  BY DEF RequestRow, Steps
<1>8. ASSUME NEW s \in Digests, Move(q, [o EXCEPT !.at = "call", !.scope = s]),
             o.on = None => s \in Defaults(Account), o.on # None => Resolved(o.on, s)
      PROVE  RequestsFine'
  <2>1. PICK r \in RequestRow : Move(q, r) /\ r.at = "call" /\ r.scope = s /\ r.on = o.on /\ r.path = o.path
    BY <1>7, <1>8
  <2>2. RowFine(r)'
    BY <1>4, <1>6, <1>8, <2>1 DEF RowFine, Saw
  <2> QED BY <1>3, <2>1, <2>2, Placed DEF ScopeInv
<1>9. CASE o.path = "threads.create" /\ \E s \in Defaults(Account) : Move(q, [o EXCEPT !.at = "call", !.scope = s])
  <2>1. PICK s \in Defaults(Account) : Move(q, [o EXCEPT !.at = "call", !.scope = s])
    BY <1>9
  <2>2. s \in Digests /\ o.on = None
    BY <1>5, <1>6, <1>9
  <2> QED BY <1>2, <1>8, <2>1, <2>2
<1>10. CASE o.on # None /\ \E s \in Mine : Resolved(o.on, s) /\ Move(q, [o EXCEPT !.at = "call", !.scope = s])
  <2>1. PICK s \in Mine : Resolved(o.on, s) /\ Move(q, [o EXCEPT !.at = "call", !.scope = s])
    BY <1>10
  <2>2. s \in Digests
    BY <1>5
  <2> QED BY <1>2, <1>8, <1>10, <2>1, <2>2
<1>11. ASSUME NEW at \in {"list", "probe"}, Move(q, [o EXCEPT !.at = at, !.todo = Mine])
       PROVE  RequestsFine'
  <2>1. PICK mine \in SUBSET Digests : mine = Mine
    BY <1>5
  <2> DEFINE new == [o EXCEPT !.at = at, !.todo = mine]
  <2>2. new \in RequestRow /\ new.at = at /\ new.on = o.on /\ new.path = o.path
    BY DEF RequestRow, Steps
  <2>3. PICK r \in RequestRow : Move(q, r) /\ r.at = at /\ r.on = o.on /\ r.path = o.path
    BY <1>11, <2>1, <2>2
  <2>4. RowFine(r)'
    BY <1>4, <1>6, <2>3 DEF RowFine, Saw
  <2> QED BY <1>3, <2>3, <2>4, Placed DEF ScopeInv
<1>12. RequestsFine'
  <2>1. \/ o.path = "threads.create" /\ \E s \in Defaults(Account) : Move(q, [o EXCEPT !.at = "call", !.scope = s])
        \/ Move(q, [o EXCEPT !.at = "list", !.todo = Mine])
        \/ o.on # None /\ \E s \in Mine : Resolved(o.on, s) /\ Move(q, [o EXCEPT !.at = "call", !.scope = s])
        \/ Move(q, [o EXCEPT !.at = "probe", !.todo = Mine])
    BY <1>1 DEF Resolve
  <2> QED BY <1>9, <1>10, <1>11, <2>1
<1> QED BY <1>2, <1>12

LEMMA ProbeTurns ==
  ASSUME ScopeInv, NEW q \in Requests, Probe(q)
  PROVE  Turns /\ RequestsFine'
<1> USE NoNone
<1>1. PICK o \in RequestRow : o = request[q] /\ RowFine(o)
  BY RowIs
<1>2. Still
  BY DEF Probe, Still, indexVars
<1>3. Gentle
  BY <1>2, StillTurns DEF ScopeInv
<1>4. Defaults(Account)' = Defaults(Account) /\ agent' = agent
  BY <1>2 DEF Still, Defaults, Owned, agentVars
<1>5. o.at = "probe"
  BY <1>1 DEF Probe
<1>6. /\ Defaults(Account) # {}
      /\ o.on = None <=> o.path \in {"threads.create", "threads.list"}
  BY <1>1, <1>5 DEF RowFine, Working
<1>7. PICK s \in o.todo :
        IF o.on \in Live /\ agent[o.on] = s
        THEN \E found \in SUBSET {y \in Live : Home[y] = Home[o.on]} :
               /\ o.on \in found
               /\ Move(q, [o EXCEPT !.at = "probed", !.scope = s, !.found = found, !.todo = {}])
        ELSE Move(q, [o EXCEPT !.todo = @ \ {s}])
  BY <1>1 DEF Probe
<1>8. s \in Digests
  <2>1. o.todo \subseteq Digests
    BY DEF RequestRow
  <2> QED BY <2>1
<1>9. CASE Move(q, [o EXCEPT !.todo = @ \ {s}])
  <2> DEFINE new == [o EXCEPT !.todo = @ \ {s}]
  <2>1. new \in RequestRow /\ new.at = o.at /\ new.on = o.on /\ new.path = o.path
    BY DEF RequestRow
  <2>2. PICK r \in RequestRow : Move(q, r) /\ r.at = "probe" /\ r.on = o.on /\ r.path = o.path
    BY <1>5, <1>9, <2>1
  <2>3. RowFine(r)'
    BY <1>4, <1>6, <2>2 DEF RowFine, Saw
  <2> QED BY <1>2, <1>3, <2>2, <2>3, Placed DEF ScopeInv, Turns
<1>10. ASSUME o.on \in Live, agent[o.on] = s, NEW found \in SUBSET {y \in Live : Home[y] = Home[o.on]},
              o.on \in found,
              Move(q, [o EXCEPT !.at = "probed", !.scope = s, !.found = found, !.todo = {}])
       PROVE  Turns /\ RequestsFine'
  <2> DEFINE new == [o EXCEPT !.at = "probed", !.scope = s, !.found = found, !.todo = {}]
  <2>1. found \subseteq Resources
    BY DEF Live
  <2>2. new \in RequestRow /\ new.at = "probed" /\ new.on = o.on /\ new.path = o.path
        /\ new.scope = s /\ new.found = found
    BY <1>8, <2>1 DEF RequestRow, Steps
  <2>3. PICK r \in RequestRow : Move(q, r) /\ r.at = "probed" /\ r.on = o.on /\ r.path = o.path
                                /\ r.scope = s /\ r.found = found
    BY <1>10, <2>2
  <2>4. \A y \in found : agent[y] = s
    <3> SUFFICES ASSUME NEW y \in found
                 PROVE  agent[y] = s
      OBVIOUS
    <3>1. y \in Resources /\ o.on \in Resources /\ Home[y] = Home[o.on] /\ agent[y] # None
      BY <1>10, <2>1 DEF Live
    <3>2. agent[y] \in {None, agent[Home[y]]} /\ agent[o.on] \in {None, agent[Home[o.on]]}
      BY <3>1 DEF ScopeInv, World, AgentFine
    <3> QED BY <1>8, <1>10, <3>1, <3>2
  <2>5. RowFine(r)'
    BY <1>4, <1>6, <1>8, <1>10, <2>3, <2>4 DEF RowFine
  <2> QED BY <1>2, <1>3, <2>3, <2>5, Placed DEF ScopeInv, Turns
<1>11. CASE o.on \in Live /\ agent[o.on] = s
  BY <1>7, <1>10, <1>11
<1>12. CASE ~(o.on \in Live /\ agent[o.on] = s)
  BY <1>7, <1>9, <1>12
<1> QED BY <1>11, <1>12

LEMMA AskTurns ==
  ASSUME ScopeInv, NEW q \in Requests, Ask(q)
  PROVE  Turns /\ RequestsFine'
<1> USE NoNone
<1>1. PICK o \in RequestRow : o = request[q] /\ RowFine(o)
  BY RowIs
<1>2. o.at = "call" /\ o.on \in Resources \cup {None}
  BY <1>1 DEF Ask, RequestRow
<1>3. /\ Defaults(Account) # {} /\ o.scope \in Digests
      /\ o.on = None <=> o.path \in {"threads.create", "threads.list"}
      /\ o.on = None => o.scope \in Defaults(Account)
      /\ o.on # None => Resolved(o.on, o.scope)
  BY <1>1, <1>2 DEF RowFine, Working
<1>4. UNCHANGED <<accounts, scopes, bindings>>
  BY DEF Ask, indexVars
<1>5. Defaults(Account)' = Defaults(Account)
  BY <1>4 DEF Defaults, Owned
<1>6. ASSUME NEW found \in SUBSET Resources, Turns, Move(q, [o EXCEPT !.at = "answered", !.found = found]),
             \A y \in found : agent'[y] = o.scope
      PROVE  RequestsFine'
  <2> DEFINE new == [o EXCEPT !.at = "answered", !.found = found]
  <2>1. /\ new \in RequestRow /\ new.at = "answered" /\ new.found = found
        /\ new.on = o.on /\ new.path = o.path /\ new.scope = o.scope
    BY DEF RequestRow, Steps
  <2>2. PICK r \in RequestRow : /\ Move(q, r) /\ r.at = "answered" /\ r.found = found
                                /\ r.on = o.on /\ r.path = o.path /\ r.scope = o.scope
    BY <1>6, <2>1
  <2>3. RowFine(r)'
    BY <1>3, <1>5, <1>6, <2>2 DEF RowFine
  <2>4. Gentle
    BY <1>6, WorldTurns DEF ScopeInv
  <2> QED BY <2>2, <2>3, <2>4, Placed DEF ScopeInv
<1>7. PICK found \in SUBSET Resources :
        /\ \/ /\ o.path = "threads.create"
              /\ \E y \in Resources :
                   /\ IsThread(y) /\ agent[y] = None /\ found = {y}
                   /\ agent' = [agent EXCEPT ![y] = o.scope]
              /\ UNCHANGED deleted
           \/ /\ o.path = "read" /\ o.on \in Live /\ agent[o.on] = o.scope
              /\ o.on \in found /\ found \subseteq {y \in Live : Home[y] = Home[o.on]}
              /\ UNCHANGED agentVars
           \/ /\ o.path = "runs.start" /\ o.on \in Live /\ agent[o.on] = o.scope
              /\ \E y \in Resources :
                   /\ Home[y] = o.on /\ agent[y] = None /\ found = {o.on, y}
                   /\ agent' = [agent EXCEPT ![y] = o.scope]
              /\ UNCHANGED deleted
           \/ /\ o.path = "threads.delete" /\ agent[o.on] = o.scope /\ found = {o.on}
              /\ deleted' = deleted \cup {y \in Resources : Home[y] = o.on /\ agent[y] # None}
              /\ UNCHANGED agent
        /\ Move(q, [o EXCEPT !.at = "answered", !.found = found])
  BY <1>1 DEF Ask
<1>8. Turns /\ \A y \in found : agent'[y] = o.scope
  <2>1. agent \in [Resources -> Digests \cup {None}]
    BY DEF ScopeInv, World, WorldTypes
  <2>2. ASSUME o.path = "threads.create", UNCHANGED deleted,
               NEW y \in Resources, IsThread(y), agent[y] = None, found = {y},
               agent' = [agent EXCEPT ![y] = o.scope]
        PROVE  Turns /\ \A z \in found : agent'[z] = o.scope
    <3>1. Makes(y, o.scope)
      BY <1>3, <1>4, <2>2 DEF Makes
    <3> QED BY <1>3, <2>1, <2>2, <3>1 DEF Turns
  <2>3. ASSUME o.path = "runs.start", o.on \in Live, agent[o.on] = o.scope, UNCHANGED deleted,
               NEW y \in Resources, Home[y] = o.on, agent[y] = None, found = {o.on, y},
               agent' = [agent EXCEPT ![y] = o.scope]
        PROVE  Turns /\ \A z \in found : agent'[z] = o.scope
    <3>1. Makes(y, o.scope)
      BY <1>4, <2>3 DEF Makes
    <3>2. o.on \in Resources
      BY <2>3 DEF Live
    <3> QED BY <1>3, <2>1, <2>3, <3>1, <3>2 DEF Turns
  <2>4. ASSUME o.path = "read", o.on \in Live, agent[o.on] = o.scope, UNCHANGED agentVars,
               found \subseteq {y \in Live : Home[y] = Home[o.on]}
        PROVE  Turns /\ \A z \in found : agent'[z] = o.scope
    <3>1. Still
      BY <1>4, <2>4 DEF Still
    <3>2. ASSUME NEW z \in found
          PROVE  agent[z] = o.scope
      <4>1. z \in Resources /\ o.on \in Resources /\ Home[z] = Home[o.on] /\ agent[z] # None
        BY <2>4 DEF Live
      <4>2. agent[z] \in {None, agent[Home[z]]} /\ agent[o.on] \in {None, agent[Home[o.on]]}
        BY <4>1 DEF ScopeInv, World, AgentFine
      <4> QED BY <1>3, <2>4, <4>1, <4>2
    <3> QED BY <2>4, <3>1, <3>2 DEF Turns, agentVars
  <2>5. ASSUME o.path = "threads.delete", agent[o.on] = o.scope, found = {o.on}, UNCHANGED agent,
               deleted' = deleted \cup {y \in Resources : Home[y] = o.on /\ agent[y] # None}
        PROVE  Turns /\ \A z \in found : agent'[z] = o.scope
    <3>1. o.on \in Resources
      BY <1>2, <1>3, <2>5
    <3>2. Deletes(o.on)
      BY <1>3, <1>4, <2>5, <3>1 DEF Deletes
    <3> QED BY <2>5, <3>1, <3>2 DEF Turns
  <2> QED BY <1>7, <2>2, <2>3, <2>4, <2>5
<1> QED BY <1>6, <1>7, <1>8

LEMMA BoundRow ==
  ASSUME ScopeInv, NEW X \in SUBSET Resources, NEW s \in Digests, \A y \in X : agent[y] = s,
         Bindable(Account, X, s), bindings' = Bound(Account, X, s),
         UNCHANGED <<accounts, scopes, agentVars>>
  PROVE  Turns /\ World' /\ Gentle /\ \A x \in X : Resolved(x, s)'
<1>1. Binds(X, s)
  BY DEF Binds
<1>2. Turns
  BY <1>1 DEF Turns
<1>3. \A x \in X : bindings'[x] = [owner |-> Account, scope |-> s]
  BY DEF Bound
<1>4. \A x \in X : Resolved(x, s)'
  <2>1. [owner |-> Account, scope |-> s] \in BindingRow
    BY NoNone DEF BindingRow
  <2> QED BY <1>3, <2>1, NoNone DEF Resolved
<1> QED BY <1>2, <1>4, WorldTurns DEF ScopeInv

LEMMA TakeTurns ==
  ASSUME ScopeInv, NEW q \in Requests, Take(q)
  PROVE  Turns /\ RequestsFine'
<1> USE NoNone
<1>1. PICK o \in RequestRow : o = request[q] /\ RowFine(o)
  BY RowIs
<1>2. o.at \in {"probed", "answered"} /\ o.found \in SUBSET Resources
  BY <1>1 DEF Take, RequestRow
<1>3. o.scope \in Digests /\ \A y \in o.found : agent[y] = o.scope
  BY <1>1, <1>2 DEF RowFine, Saw
<1>4. UNCHANGED <<accounts, scopes, agentVars>>
  BY DEF Take
<1>5. PICK done \in SUBSET o.found :
        /\ Bindable(Account, done, o.scope)
        /\ bindings' = Bound(Account, done, o.scope)
        /\ \/ Move(q, Idle)
           \/ /\ o.at = "probed" /\ done = o.found
              /\ Move(q, [o EXCEPT !.at = "call", !.found = {}])
  BY <1>1 DEF Take, Remember
<1>6. Turns /\ Gentle /\ \A x \in done : Resolved(x, o.scope)'
  BY <1>2, <1>3, <1>4, <1>5, BoundRow
<1>7. CASE Move(q, Idle)
  BY <1>6, <1>7, IdleFine, Placed DEF ScopeInv
<1>8. CASE o.at = "probed" /\ done = o.found /\ Move(q, [o EXCEPT !.at = "call", !.found = {}])
  <2> DEFINE new == [o EXCEPT !.at = "call", !.found = {}]
  <2>1. /\ new \in RequestRow /\ new.at = "call" /\ new.found = {}
        /\ new.on = o.on /\ new.path = o.path /\ new.scope = o.scope
    BY DEF RequestRow, Steps
  <2>2. PICK r \in RequestRow : /\ Move(q, r) /\ r.at = "call" /\ r.found = {}
                                /\ r.on = o.on /\ r.path = o.path /\ r.scope = o.scope
    BY <1>8, <2>1
  <2>3. /\ Defaults(Account) # {} /\ o.on \in o.found
        /\ o.on = None <=> o.path \in {"threads.create", "threads.list"}
    BY <1>1, <1>8 DEF RowFine, Working
  <2>4. Resolved(o.on, o.scope)' /\ o.on # None
    BY <1>2, <1>6, <1>8, <2>3
  <2>5. Defaults(Account)' = Defaults(Account)
    BY <1>4 DEF Defaults, Owned
  <2>6. RowFine(r)'
    BY <1>3, <2>2, <2>3, <2>4, <2>5 DEF RowFine, Saw
  <2> QED BY <1>6, <2>2, <2>6, Placed DEF ScopeInv
<1> QED BY <1>5, <1>7, <1>8

LEMMA ListAskTurns ==
  ASSUME ScopeInv, NEW q \in Requests, ListAsk(q)
  PROVE  Turns /\ RequestsFine'
<1> USE NoNone
<1>1. PICK o \in RequestRow : o = request[q] /\ RowFine(o)
  BY RowIs
<1>2. Still /\ Turns
  BY DEF ListAsk, Still, Turns, indexVars
<1>3. Gentle
  BY <1>2, StillTurns DEF ScopeInv
<1>4. o.at = "list" /\ o.todo \subseteq Digests
  BY <1>1 DEF ListAsk, RequestRow
<1>5. /\ Defaults(Account) # {}
      /\ o.on = None <=> o.path \in {"threads.create", "threads.list"}
  BY <1>1, <1>4 DEF RowFine, Working
<1>6. PICK s \in o.todo :
        Move(q, [o EXCEPT !.at = "listed", !.scope = s, !.todo = @ \ {s},
                          !.found = {x \in Live : agent[x] = s}])
  BY <1>1 DEF ListAsk
<1>7. PICK found \in SUBSET Resources : found = {x \in Live : agent[x] = s}
  BY DEF Live
<1>8. s \in Digests
  BY <1>4
<1> DEFINE new == [o EXCEPT !.at = "listed", !.scope = s, !.todo = @ \ {s}, !.found = found]
<1>9. /\ new \in RequestRow /\ new.at = "listed" /\ new.on = o.on /\ new.path = o.path
      /\ new.scope = s /\ new.found = found
  BY <1>8 DEF RequestRow, Steps
<1>10. PICK r \in RequestRow : /\ Move(q, r) /\ r.at = "listed" /\ r.on = o.on /\ r.path = o.path
                               /\ r.scope = s /\ r.found = found
  BY <1>6, <1>7, <1>9
<1>11. Defaults(Account)' = Defaults(Account) /\ agent' = agent /\ Live' = Live
  BY <1>2 DEF Still, Defaults, Owned, Live, agentVars
<1>12. \A y \in found : agent[y] = s
  BY <1>7
<1>13. found = {} => \A x \in Live : agent[x] # s
  BY <1>7
<1>14. RowFine(r)'
  BY <1>5, <1>8, <1>10, <1>11, <1>12, <1>13 DEF RowFine
<1> QED BY <1>2, <1>3, <1>10, <1>14, Placed DEF ScopeInv

LEMMA ListTakeTurns ==
  ASSUME ScopeInv, NEW q \in Requests, ListTake(q)
  PROVE  Turns /\ RequestsFine'
<1> USE NoNone
<1>1. PICK o \in RequestRow : o = request[q] /\ RowFine(o)
  BY RowIs
<1>2. o.at = "listed" /\ o.found \in SUBSET Resources
  BY <1>1 DEF ListTake, RequestRow
<1>3. /\ Defaults(Account) # {} /\ o.scope \in Digests /\ \A y \in o.found : agent[y] = o.scope
      /\ o.on = None <=> o.path \in {"threads.create", "threads.list"}
      /\ o.found = {} /\ Old(o.scope) => \A x \in Live : agent[x] # o.scope
  BY <1>1, <1>2 DEF RowFine, Saw, Working, Old
<1>4. UNCHANGED <<accounts, agentVars>>
  BY DEF ListTake
<1> DEFINE next == IF o.todo = {} THEN Idle ELSE [o EXCEPT !.at = "list", !.found = {}]
<1>5. ASSUME Turns, Move(q, Idle) \/ Move(q, next)
      PROVE  RequestsFine'
  <2>1. Gentle
    BY <1>5, WorldTurns DEF ScopeInv
  <2>2. CASE Move(q, Idle)
    BY <2>1, <2>2, IdleFine, Placed DEF ScopeInv
  <2>3. CASE Move(q, [o EXCEPT !.at = "list", !.found = {}])
    <3> DEFINE new == [o EXCEPT !.at = "list", !.found = {}]
    <3>1. /\ new \in RequestRow /\ new.at = "list" /\ new.found = {}
          /\ new.on = o.on /\ new.path = o.path /\ new.scope = o.scope
      BY DEF RequestRow, Steps
    <3>2. PICK r \in RequestRow : /\ Move(q, r) /\ r.at = "list" /\ r.found = {}
                                  /\ r.on = o.on /\ r.path = o.path /\ r.scope = o.scope
      BY <2>3, <3>1
    <3>3. Defaults(Account)' # {}
      BY <1>3, <2>1, NoNone DEF Gentle
    <3>4. RowFine(r)'
      BY <1>3, <3>2, <3>3 DEF RowFine, Saw
    <3> QED BY <2>1, <3>2, <3>4, Placed DEF ScopeInv
  <2> QED BY <1>5, <2>2, <2>3
<1> HIDE DEF next
<1>6. \/ \E done \in SUBSET o.found :
           /\ Bindable(Account, done, o.scope) /\ bindings' = Bound(Account, done, o.scope)
           /\ UNCHANGED scopes /\ (Move(q, Idle) \/ Move(q, next))
      \/ o.found = {} /\ Retirable(Account, o.scope) /\ Retire(Account, o.scope) /\ Move(q, next)
      \/ Move(q, next) /\ UNCHANGED <<scopes, bindings>>
  BY <1>1 DEF ListTake, Remember, next
<1>7. ASSUME NEW done \in SUBSET o.found, Bindable(Account, done, o.scope),
             bindings' = Bound(Account, done, o.scope), UNCHANGED scopes
      PROVE  Turns
  BY <1>2, <1>3, <1>4, <1>7, BoundRow
<1>8. ASSUME o.found = {}, Retirable(Account, o.scope), Retire(Account, o.scope)
      PROVE  Turns
  <2>1. Old(o.scope)
    BY <1>8 DEF Retirable, Old, Mine
  <2>2. Retires(o.scope)
    BY <1>3, <1>4, <1>8, <2>1 DEF Retires
  <2> QED BY <1>3, <2>2 DEF Turns
<1>9. ASSUME UNCHANGED <<scopes, bindings>>
      PROVE  Turns
  BY <1>4, <1>9 DEF Turns, Still
<1> QED BY <1>5, <1>6, <1>7, <1>8, <1>9

LEMMA AbandonTurns ==
  ASSUME ScopeInv, NEW q \in Requests, Abandon(q)
  PROVE  Turns /\ RequestsFine'
<1>1. Still /\ Turns
  BY DEF Abandon, Still, Turns, indexVars
<1> QED BY <1>1, StillTurns, IdleFine, Placed DEF Abandon, ScopeInv

LEMMA InitWorld == Init => ScopeInv
<1> SUFFICES ASSUME Init
             PROVE  ScopeInv
  OBVIOUS
<1> USE NoNone
<1>1. PICK old \in SUBSET Digests, random \in [Accounts -> Digests] :
        /\ \A a \in Accounts : random[a] \notin old
        /\ \A a, b \in Accounts : a # b => random[a] # random[b]
        /\ old # {} => Exists(Account)
        /\ scopes = [s \in Digests |->
             IF s \in old THEN [owner |-> Account, kind |-> "legacy_session"]
             ELSE IF \E a \in Accounts : Exists(a) /\ random[a] = s
             THEN [owner |-> CHOOSE a \in Accounts : random[a] = s,
                   kind |-> IF random[Account] = s /\ old # {} THEN "default_pending" ELSE "default"]
             ELSE None]
        /\ agent \in [Resources -> old \cup {None}]
  BY DEF Init
<1> DEFINE Leg == [owner |-> Account, kind |-> "legacy_session"]
           Own(a) == [owner |-> a, kind |-> IF a = Account /\ old # {} THEN "default_pending" ELSE "default"]
<1>2. /\ Leg \in ScopeRow /\ Leg.owner = Account /\ Leg.kind = "legacy_session"
      /\ \A a \in Accounts : Own(a) \in ScopeRow /\ Own(a).owner = a /\ Own(a).kind # "legacy_session"
  BY DEF ScopeRow
<1>3. \A a \in Accounts : random[a] \in Digests \ old /\ (Exists(a) => scopes[random[a]] = Own(a))
  <2> SUFFICES ASSUME NEW a \in Accounts
               PROVE  random[a] \in Digests \ old /\ (Exists(a) => scopes[random[a]] = Own(a))
    OBVIOUS
  <2>1. random[a] \in Digests \ old
    BY <1>1
  <2>2. (CHOOSE b \in Accounts : random[b] = random[a]) = a
    BY <1>1
  <2>3. random[Account] = random[a] <=> a = Account
    BY <1>1
  <2> QED BY <1>1, <2>1, <2>2, <2>3
<1> HIDE DEF Own
<1>4. \A s \in old : s \in Digests /\ scopes[s] = Leg
  BY <1>1
<1> HIDE DEF Leg
<1>5. \A s \in Digests \ old : scopes[s] # None => \E a \in Accounts : Exists(a) /\ random[a] = s
  BY <1>1
<1>6. DOMAIN scopes = Digests /\ scopes \in [Digests -> ScopeRow \cup {None}]
  <2>1. \A s \in Digests : scopes[s] \in ScopeRow \cup {None}
    BY <1>2, <1>3, <1>4, <1>5
  <2>2. DOMAIN scopes = Digests /\ scopes = [s \in Digests |-> scopes[s]]
    BY <1>1
  <2> QED BY <2>1, <2>2
<1>7. accounts \in [Accounts -> Identities \cup {None}]
      /\ bindings = [x \in Resources |-> None] /\ deleted = {}
      /\ request = [q \in Requests |-> Idle]
      /\ \A x \in Resources : agent[x] \in {None, agent[Home[x]]}
  BY DEF Init
<1>8. WorldTypes
  BY <1>1, <1>6, <1>7 DEF WorldTypes
<1>9. ASSUME NEW a \in Accounts, NEW s \in Owned(scopes, a), scopes[s].kind # "legacy_session"
      PROVE  s = random[a]
  <2>1. s \in Digests /\ scopes[s] # None /\ scopes[s].owner = a
    BY <1>6 DEF Owned
  <2>2. s \notin old
    BY <1>2, <1>4, <1>9
  <2>3. PICK b \in Accounts : Exists(b) /\ random[b] = s
    BY <1>5, <2>1, <2>2
  <2>4. scopes[s].owner = b
    BY <1>2, <1>3, <2>3
  <2> QED BY <2>1, <2>3, <2>4
<1>10. ScopesFine
  <2>1. ASSUME NEW s \in Digests, scopes[s] # None
        PROVE  Exists(scopes[s].owner)
    <3>1. CASE s \in old
      BY <1>1, <1>2, <1>4, <3>1
    <3>2. CASE s \notin old
      BY <1>2, <1>3, <1>5, <2>1, <3>2
    <3> QED BY <3>1, <3>2
  <2>2. ASSUME NEW a \in Accounts, Exists(a)
        PROVE  HasDefault(a)
    BY <1>2, <1>3, <1>6, <2>2 DEF HasDefault, Owned
  <2> QED BY <1>9, <2>1, <2>2 DEF ScopesFine
<1>11. BindingsFine
  BY <1>7 DEF BindingsFine
<1>12. AgentFine
  <2>1. \A s \in old : s \in Mine
    BY <1>2, <1>4, <1>6 DEF Mine, Owned
  <2> QED BY <1>1, <1>7, <2>1 DEF AgentFine, Live
<1>13. RequestsFine
  BY <1>7, IdleFine DEF RequestsFine, Stands
<1> QED BY <1>8, <1>10, <1>11, <1>12, <1>13 DEF ScopeInv, World

LEMMA NextTurns ==
  ASSUME ScopeInv, [Next]_serverVars
  PROVE  Turns /\ RequestsFine'
<1>1. CASE StoreStep
  BY <1>1, StoreTurns
<1>2. CASE SessionCall
  BY <1>2, SessionTurns
<1>3. ASSUME NEW q \in Requests, AgentCall(q)
      PROVE  Turns /\ RequestsFine'
  BY <1>3, AdmitTurns, PrimeTurns, ResolveTurns, ProbeTurns, AskTurns, TakeTurns, ListAskTurns,
     ListTakeTurns, AbandonTurns DEF AgentCall
<1>4. CASE UNCHANGED serverVars
  <2>1. Still /\ Turns
    BY <1>4 DEF serverVars, indexVars, agentVars, Still, Turns
  <2>2. request' = request
    BY <1>4 DEF serverVars
  <2>3. request' \in [Requests -> RequestRow] /\ \A r \in RequestRow : Stands(r)' => Stands(r)
    BY <2>2 DEF ScopeInv, RequestsFine, Stands
  <2> QED BY <2>1, <2>3, StillTurns, RowsStay DEF ScopeInv
<1> QED BY <1>1, <1>2, <1>3, <1>4 DEF Next

LEMMA NextWorld ==
  ASSUME ScopeInv, [Next]_serverVars
  PROVE  ScopeInv' /\ Gentle
BY NextTurns, WorldTurns DEF ScopeInv

\* What the scopes, the bindings and the requests under way say of each other: one settled
\* scope for an account, and every find and every call under the scope a resource has.
THEOREM ScopesStaySound == Spec => []ScopeInv
<1>1. Init => ScopeInv
  BY InitWorld
<1>2. ScopeInv /\ [Next]_serverVars => ScopeInv'
  BY NextWorld
<1> QED BY <1>1, <1>2, PTL DEF Spec

LEMMA SoundIsReachable == ScopeInv => AgentsReachable
<1> SUFFICES ASSUME ScopeInv
             PROVE  AgentsReachable
  OBVIOUS
<1> USE NoNone
<1>1. ASSUME NEW x \in Live
      PROVE  \/ Resolved(x, agent[x])
             \/ bindings[x] = None /\ agent[x] \in Mine /\ \A s \in Mine : ~Resolved(x, s)
  <2>1. x \in Resources
    BY DEF Live
  <2>2. CASE bindings[x] # None
    BY <2>1, <2>2 DEF ScopeInv, World, BindingsFine, Resolved
  <2>3. CASE bindings[x] = None
    <3>1. agent[x] \in Mine
      BY <2>3 DEF ScopeInv, World, AgentFine
    <3> QED BY <2>3, <3>1 DEF Resolved
  <2> QED BY <2>2, <2>3
<1>2. LiveReachable
  BY <1>1 DEF LiveReachable
<1>3. DeletedReachable
  BY DEF DeletedReachable, ScopeInv, World, AgentFine
<1> QED BY <1>2, <1>3 DEF AgentsReachable

\* Whatever AgInTi holds for the account is bound to the scope it was made under or still
\* asked for under all of them, and a deletion can be repeated where its receipt is, for
\* any number of requests, scopes and resources (resolveAgentResource).
THEOREM AgentsAlwaysReachable == Spec => []AgentsReachable
<1>1. ScopeInv => AgentsReachable
  BY SoundIsReachable
<1> QED BY <1>1, ScopesStaySound, PTL

\* No call, login or late answer ever moves a default scope that is settled
\* (primeDefaultAgentAuthorityScope, retireEmptyLegacyAgentAuthorityScope).
THEOREM DefaultAlwaysStable == Spec => DefaultIsStable
<1>1. ScopeInv /\ [Next]_serverVars =>
        [\A a \in Accounts : Defaults(a) # {} => Defaults(a)' = Defaults(a)]_serverVars
  BY NextWorld DEF Gentle
<1> QED BY <1>1, ScopesStaySound, PTL DEF Spec, DefaultIsStable

-----------------------------------------------------------------------------
(* The sessions.                                                           *)

SessionsFine ==
  /\ now \in 0 .. MaxTime
  /\ sessions \in [Digests -> SessionRow \cup {None}]
  /\ \A d \in Digests : sessions[d] # None =>
       /\ Exists(sessions[d].owner)
       /\ sessions[d].created <= now /\ sessions[d].expires - sessions[d].created \in Ages
  /\ \A a \in Accounts : Cardinality(Owned(sessions, a)) <= MaxSessions

\* Time goes on, accounts stay, and sessions stay as they are or go.
Onward ==
  /\ now' \in now .. MaxTime
  /\ \A a \in Accounts : Exists(a) => Exists(a)'

Drops ==
  /\ sessions' \in [Digests -> SessionRow \cup {None}]
  /\ \A d \in Digests : sessions'[d] \in {None, sessions[d]}

\* What a login may end.
Rotates(a) ==
  LET gone == {d \in Owned(sessions, a) : sessions'[d] = None /\ sessions[d].expires > now}
      kept == {d \in Owned(sessions, a) : sessions'[d] # None}
  IN (\E d \in Digests : sessions[d] = None /\ sessions'[d] # None /\ sessions'[d].owner = a)
     => /\ Cardinality(gone) <= 1
        /\ gone # {} => Cardinality(kept) = MaxSessions - 1
        /\ \A o \in gone, s \in kept : sessions[o].created <= sessions[s].created

LEMMA OwnedFinite ==
  ASSUME NEW table, DOMAIN table = Digests, NEW a
  PROVE  /\ Owned(table, a) \subseteq Digests /\ IsFiniteSet(Owned(table, a))
         /\ Cardinality(Owned(table, a)) \in Nat
<1>1. Owned(table, a) \subseteq Digests
  BY DEF Owned
<1>2. IsFiniteSet(Owned(table, a))
  BY <1>1, FS_Subset, IndexAssumption
<1> QED BY <1>1, <1>2, FS_CardinalityType

LEMMA DropsFine ==
  ASSUME SessionsFine, Onward, Drops
  PROVE  SessionsFine' /\ \A a : Rotates(a)
<1>1. /\ DOMAIN sessions = Digests /\ DOMAIN sessions' = Digests
      /\ now \in Nat /\ now' \in Nat /\ now <= now' /\ now' \in 0 .. MaxTime
  BY IndexAssumption DEF SessionsFine, Onward, Drops
<1>2. ASSUME NEW a \in Accounts
      PROVE  Cardinality(Owned(sessions, a)') <= MaxSessions
  <2>1. Owned(sessions, a)' \subseteq Owned(sessions, a)
    BY <1>1 DEF Owned, Drops
  <2>2. IsFiniteSet(Owned(sessions, a)) /\ Cardinality(Owned(sessions, a)) \in Nat
        /\ Cardinality(Owned(sessions, a)) <= MaxSessions
    BY <1>1, OwnedFinite DEF SessionsFine
  <2>3. Cardinality(Owned(sessions, a)') <= Cardinality(Owned(sessions, a))
    BY <2>1, <2>2, FS_Subset
  <2>4. Cardinality(Owned(sessions, a)') \in Nat
    BY <2>1, <2>2, FS_Subset, FS_CardinalityType
  <2> QED BY <2>2, <2>3, <2>4, IndexAssumption
<1>3. ASSUME NEW d \in Digests, sessions'[d] # None
      PROVE  /\ accounts'[sessions'[d].owner] # None
             /\ sessions'[d].created <= now' /\ sessions'[d].expires - sessions'[d].created \in Ages
  <2>1. sessions'[d] = sessions[d] /\ sessions[d] # None /\ sessions[d] \in SessionRow
    BY <1>3 DEF Drops, SessionsFine
  <2>2. /\ Exists(sessions[d].owner) /\ sessions[d].owner \in Accounts /\ sessions[d].created \in Nat
        /\ sessions[d].created <= now /\ sessions[d].expires - sessions[d].created \in Ages
    BY <2>1 DEF SessionsFine, SessionRow
  <2>3. sessions[d].created <= now'
    BY <1>1, <2>2
  <2> QED BY <2>1, <2>2, <2>3 DEF Onward, Exists
<1>4. SessionsFine'
  BY <1>1, <1>2, <1>3 DEF SessionsFine, Drops, Exists
<1>5. \A d \in Digests : sessions[d] = None => sessions'[d] = None
  BY DEF Drops
<1> QED BY <1>4, <1>5 DEF Rotates

LEMMA PrunedIs ==
  ASSUME SessionsFine, NEW t
  PROVE  /\ PrunedSessions(t) \in [Digests -> SessionRow \cup {None}]
         /\ \A d \in Digests : PrunedSessions(t)[d] \in {None, sessions[d]}
         /\ \A d \in Digests : sessions[d] # None /\ ~(sessions[d].expires <= t) =>
              PrunedSessions(t)[d] = sessions[d]
BY DEF PrunedSessions, SessionsFine

LEMMA StartedIs ==
  ASSUME now \in 0 .. MaxTime, NEW t \in Started
  PROVE  t \in Nat /\ t <= now /\ now \in Nat
BY IndexAssumption DEF Started

LEMMA LoginFine ==
  ASSUME SessionsFine, Onward, now' = now, NEW a \in Accounts, NEW d \in Digests, NEW age \in Ages,
         NEW key, NEW t \in Started, CreateBrowserSession(a, d, age, key, t)
  PROVE  SessionsFine' /\ \A b \in Accounts : Rotates(b)
<1>1. t \in Nat /\ t <= now /\ now \in Nat /\ age \in Nat /\ age > 0 /\ now \in 0 .. MaxTime
      /\ MaxSessions \in Nat \ {0}
  BY StartedIs, IndexAssumption DEF SessionsFine
<1> DEFINE row == [owner |-> a, created |-> now, expires |-> now + age]
<1>2. row \in SessionRow /\ row.owner = a /\ row.created = now /\ row.expires = now + age /\ row # None
  BY <1>1, IndexAssumption DEF SessionRow
<1>3. PICK P : P = PrunedSessions(t)
  OBVIOUS
<1>4. /\ P \in [Digests -> SessionRow \cup {None}] /\ DOMAIN P = Digests /\ DOMAIN sessions = Digests
      /\ \A x \in Digests : P[x] \in {None, sessions[x]}
      /\ \A x \in Digests : sessions[x] # None /\ ~(sessions[x].expires <= t) => P[x] = sessions[x]
  BY <1>3, PrunedIs DEF SessionsFine
<1>5. Exists(a) /\ P[d] = None
  BY <1>3 DEF CreateBrowserSession
<1>6. PICK out \in Rotated(P, a) :
        sessions' = [x \in Digests |-> IF x = d THEN row ELSE IF x \in out THEN None ELSE P[x]]
  BY <1>3 DEF CreateBrowserSession
<1> HIDE DEF row
<1>7. /\ sessions' \in [Digests -> SessionRow \cup {None}] /\ DOMAIN sessions' = Digests
      /\ sessions'[d] = row
      /\ \A x \in Digests \ {d} : sessions'[x] = IF x \in out THEN None ELSE P[x]
  BY <1>2, <1>4, <1>6
<1> DEFINE left == Owned(P, a) \ out
<1>8. /\ out \in SUBSET Owned(P, a) /\ Cardinality(left) < MaxSessions
      /\ out # {} => Cardinality(left) = MaxSessions - 1
      /\ \A o \in out, s \in left : P[o].created <= P[s].created
  BY <1>6 DEF Rotated
<1>9. /\ Owned(P, a) \subseteq Digests /\ IsFiniteSet(Owned(P, a)) /\ Cardinality(Owned(P, a)) \in Nat
      /\ IsFiniteSet(left) /\ Cardinality(left) \in Nat /\ IsFiniteSet(out) /\ Cardinality(out) \in Nat
  <2>1. Owned(P, a) \subseteq Digests /\ IsFiniteSet(Owned(P, a)) /\ Cardinality(Owned(P, a)) \in Nat
    BY <1>4, OwnedFinite
  <2>2. IsFiniteSet(left) /\ IsFiniteSet(out)
    BY <1>8, <2>1, FS_Subset
  <2> QED BY <2>1, <2>2, FS_CardinalityType
<1>10. d \notin Owned(P, a)
  BY <1>5 DEF Owned
<1>11. Owned(sessions, a)' = left \cup {d}
  BY <1>2, <1>4, <1>7 DEF Owned
<1>12. Cardinality(Owned(sessions, a)') <= MaxSessions
  <2>1. Cardinality(left \cup {d}) = Cardinality(left) + 1
    BY <1>9, <1>10, FS_AddElement
  <2> QED BY <1>1, <1>8, <1>9, <1>11, <2>1
<1>13. ASSUME NEW b \in Accounts \ {a}
       PROVE  Cardinality(Owned(sessions, b)') <= MaxSessions
  <2>1. Owned(sessions, b)' \subseteq Owned(sessions, b)
    BY <1>2, <1>4, <1>7 DEF Owned
  <2>2. IsFiniteSet(Owned(sessions, b)) /\ Cardinality(Owned(sessions, b)) \in Nat
        /\ Cardinality(Owned(sessions, b)) <= MaxSessions
    BY <1>4, OwnedFinite DEF SessionsFine
  <2>3. Cardinality(Owned(sessions, b)') <= Cardinality(Owned(sessions, b))
        /\ Cardinality(Owned(sessions, b)') \in Nat
    BY <2>1, <2>2, FS_Subset, FS_CardinalityType
  <2> QED BY <1>1, <2>2, <2>3
<1>14. ASSUME NEW x \in Digests, sessions'[x] # None
       PROVE  /\ accounts'[sessions'[x].owner] # None
              /\ sessions'[x].created <= now' /\ sessions'[x].expires - sessions'[x].created \in Ages
  <2>1. CASE x = d
    <3>1. accounts'[a] # None
      BY <1>5 DEF Onward, Exists
    <3>2. (now + age) - now = age
      BY <1>1
    <3> QED BY <1>1, <1>2, <1>7, <2>1, <3>1, <3>2
  <2>2. CASE x # d
    <3>1. sessions'[x] = sessions[x] /\ sessions[x] # None /\ sessions[x] \in SessionRow
      BY <1>4, <1>7, <1>14, <2>2 DEF SessionsFine
    <3>2. sessions[x].owner \in Accounts
      BY <3>1 DEF SessionRow
    <3> QED BY <3>1, <3>2 DEF SessionsFine, Onward, Exists
  <2> QED BY <2>1, <2>2
<1>15. SessionsFine'
  <2>1. \A b \in Accounts : Cardinality(Owned(sessions, b)') <= MaxSessions
    BY <1>12, <1>13
  <2>2. now' \in 0 .. MaxTime
    BY <1>1
  <2> QED BY <1>7, <1>14, <2>1, <2>2 DEF SessionsFine, Exists
<1>16. ASSUME NEW b \in Accounts,
              \E e \in Digests : sessions[e] = None /\ sessions'[e] # None /\ sessions'[e].owner = b
       PROVE  b = a /\ sessions[d] = None
  BY <1>2, <1>4, <1>7, <1>16
<1>17. ASSUME sessions[d] = None
       PROVE  Rotates(a)
  <2> DEFINE gone == {x \in Owned(sessions, a) : sessions'[x] = None /\ sessions[x].expires > now}
             kept == {x \in Owned(sessions, a) : sessions'[x] # None}
  <2>1. gone \subseteq out
    <3> SUFFICES ASSUME NEW x \in gone
                 PROVE  x \in out
      OBVIOUS
    <3>1. x \in Digests /\ sessions[x] # None /\ sessions[x] \in SessionRow /\ x # d
      BY <1>4, <1>17 DEF Owned, SessionsFine
    <3>2. sessions[x].expires \in Nat /\ sessions[x].expires > now /\ sessions'[x] = None
      BY <3>1 DEF SessionRow
    <3>3. ~(sessions[x].expires <= t)
      BY <1>1, <3>2
    <3>4. P[x] # None
      BY <1>4, <3>1, <3>3
    <3> QED BY <1>7, <3>1, <3>2, <3>4
  <2>2. kept = left
    <3>1. \A x \in Digests : P[x] # None => P[x] = sessions[x]
      BY <1>4
    <3> QED BY <1>4, <1>7, <1>8, <1>9, <1>10, <1>17, <3>1 DEF Owned
  <2>3. \A x \in Owned(P, a) : sessions[x] = P[x]
    BY <1>4 DEF Owned
  <2>4. Cardinality(out) <= 1
    <3>1. CASE out = {}
      BY <3>1, FS_EmptySet
    <3>2. CASE out # {}
      <4>1. Owned(P, a) \subseteq Owned(sessions, a)
        BY <1>4 DEF Owned
      <4>2. IsFiniteSet(Owned(sessions, a)) /\ Cardinality(Owned(sessions, a)) \in Nat
            /\ Cardinality(Owned(sessions, a)) <= MaxSessions
        BY <1>4, OwnedFinite DEF SessionsFine
      <4>3. Cardinality(Owned(P, a)) <= Cardinality(Owned(sessions, a))
        BY <4>1, <4>2, FS_Subset
      <4>4. Owned(P, a) \cap out = out
        BY <1>8
      <4>5. Cardinality(left) = Cardinality(Owned(P, a)) - Cardinality(out)
        BY <1>9, <4>4, FS_Difference
      <4> QED BY <1>1, <1>8, <1>9, <3>2, <4>2, <4>3, <4>5
    <3> QED BY <3>1, <3>2
  <2>5. Cardinality(gone) <= 1
    <3>1. Cardinality(gone) <= Cardinality(out) /\ Cardinality(gone) \in Nat
      BY <1>9, <2>1, FS_Subset, FS_CardinalityType
    <3> QED BY <1>9, <2>4, <3>1
  <2>6. gone # {} => Cardinality(kept) = MaxSessions - 1
    BY <1>8, <2>1, <2>2
  <2>7. \A o \in gone, s \in kept : sessions[o].created <= sessions[s].created
    BY <1>8, <2>1, <2>2, <2>3
  <2> HIDE DEF gone, kept
  <2>8. Cardinality(gone) <= 1 /\ (gone # {} => Cardinality(kept) = MaxSessions - 1)
        /\ \A o \in gone, s \in kept : sessions[o].created <= sessions[s].created
    BY <2>5, <2>6, <2>7
  <2> QED BY <2>8 DEF Rotates, gone, kept
<1>18. \A b \in Accounts : Rotates(b)
  BY <1>16, <1>17 DEF Rotates
<1> QED BY <1>15, <1>18

\* A step that leaves the sessions, or takes from them only what expired or was revoked.
Quiet == UNCHANGED <<now, accounts, sessions>>

LEMMA QuietDrops ==
  ASSUME SessionsFine, Quiet
  PROVE  Onward /\ Drops
<1>1. now' = now /\ accounts' = accounts /\ sessions' = sessions
  BY DEF Quiet
<1>2. now \in 0 .. MaxTime /\ MaxTime \in Nat
  BY IndexAssumption DEF SessionsFine
<1>3. now' \in now .. MaxTime
  BY <1>1, <1>2
<1>4. Onward
  BY <1>1, <1>3 DEF Onward, Exists
<1> QED BY <1>1, <1>4 DEF Drops, SessionsFine

LEMMA OnwardIs ==
  ASSUME SessionsFine, WorldTypes, now' = now,
         \/ accounts' = accounts
         \/ \E a \in Accounts, id \in Identities : accounts' = [accounts EXCEPT ![a] = id]
  PROVE  Onward
<1>1. now' \in now .. MaxTime
  BY IndexAssumption DEF SessionsFine
<1>2. \A a \in Accounts : accounts[a] # None => accounts'[a] # None
  BY NoNone DEF WorldTypes
<1> QED BY <1>1, <1>2 DEF Onward, Exists

LEMMA PruneDrops ==
  ASSUME SessionsFine, NEW t, sessions' = PrunedSessions(t)
  PROVE  Drops
BY PrunedIs DEF Drops

LEMMA StoreOnward ==
  ASSUME SessionsFine, WorldTypes, NEW t, StoreCall(t)
  PROVE  Onward /\ Drops
<1>1. sessions' = PrunedSessions(t) /\ now' = now
      /\ \/ accounts' = accounts
         \/ \E a \in Accounts, id \in Identities : accounts' = [accounts EXCEPT ![a] = id]
  <2>1. CASE \E a \in Accounts, key \in Keys, id \in Identities : ProvisionAccount(a, id, key, t)
    BY <2>1 DEF ProvisionAccount
  <2>2. CASE \E a \in Accounts, key \in Keys, x \in Threads : RemoveThreadIndex(a, x, key, t)
    BY <2>2 DEF RemoveThreadIndex
  <2>3. CASE \E a \in Accounts, key \in Keys, x \in Threads, meta \in Metas : RegisterThread(a, x, meta, key, t)
    BY <2>3 DEF RegisterThread
  <2>4. CASE \E a \in Accounts, key \in Keys, x \in Threads, meta \in Metas, op \in {"thread.update", "thread.sync"} :
               UpdateThread(op, a, x, meta, key, t)
    BY <2>4 DEF UpdateThread
  <2>5. CASE \E a \in Accounts, x \in Threads, r \in Runs, seq \in 0 .. MaxSeq, hash \in Hashes \cup {None} :
               RecordRunCursor(a, x, r, seq, hash, t)
    BY <2>5 DEF RecordRunCursor
  <2>6. CASE \E a \in Accounts : Replay(a, t)
    BY <2>6 DEF Replay
  <2>7. CASE PruneExpiredState(t)
    BY <2>7 DEF PruneExpiredState
  <2> QED BY <2>1, <2>2, <2>3, <2>4, <2>5, <2>6, <2>7 DEF StoreCall
<1> QED BY <1>1, OnwardIs, PruneDrops

LEMMA AgentQuiet ==
  ASSUME NEW q \in Requests, AgentCall(q)
  PROVE  Quiet
<1>1. CASE \E p \in Servers, d \in Digests, path \in Paths, x \in Resources \cup {None} : Admit(q, p, d, path, x)
  BY <1>1 DEF Admit, Quiet, indexVars
<1>2. CASE Prime(q)
  BY <1>2 DEF Prime, Quiet
<1>3. CASE Resolve(q)
  BY <1>3 DEF Resolve, Quiet, indexVars
<1>4. CASE Probe(q)
  BY <1>4 DEF Probe, Quiet, indexVars
<1>5. CASE Ask(q)
  BY <1>5 DEF Ask, Quiet, indexVars
<1>6. CASE Take(q)
  BY <1>6 DEF Take, Quiet
<1>7. CASE ListAsk(q)
  BY <1>7 DEF ListAsk, Quiet, indexVars
<1>8. CASE ListTake(q)
  BY <1>8 DEF ListTake, Quiet
<1>9. CASE Abandon(q)
  BY <1>9 DEF Abandon, Quiet, indexVars
<1> QED BY <1>1, <1>2, <1>3, <1>4, <1>5, <1>6, <1>7, <1>8, <1>9 DEF AgentCall

LEMMA RevokeDrops ==
  ASSUME SessionsFine, WorldTypes, NEW a, NEW d, NEW key, NEW t, RevokeBrowserSession(a, d, key, t)
  PROVE  Onward /\ Drops
<1>1. sessions' = [PrunedSessions(t) EXCEPT ![d] = None] /\ now' = now /\ accounts' = accounts
  BY DEF RevokeBrowserSession
<1>2. PICK P : P = PrunedSessions(t)
  OBVIOUS
<1>3. P \in [Digests -> SessionRow \cup {None}] /\ \A x \in Digests : P[x] \in {None, sessions[x]}
  BY <1>2, PrunedIs
<1>4. sessions' = [P EXCEPT ![d] = None]
  BY <1>1, <1>2
<1>5. sessions' \in [Digests -> SessionRow \cup {None}] /\ \A x \in Digests : sessions'[x] \in {None, P[x]}
  BY <1>3, <1>4
<1>6. Drops
  BY <1>3, <1>5 DEF Drops
<1> QED BY <1>1, <1>6, OnwardIs

\* Every step leaves the sessions within their cap and rotates as it should.
LEMMA SessionsSteps ==
  ASSUME SessionsFine, WorldTypes, [Next]_serverVars
  PROVE  SessionsFine' /\ \A a \in Accounts : Rotates(a)
<1>1. CASE UNCHANGED serverVars
  <2>1. Quiet
    BY <1>1 DEF serverVars, indexVars, Quiet
  <2> QED BY <2>1, QuietDrops, DropsFine
<1>2. CASE StoreStep
  <2>1. CASE \E t \in Started : StoreCall(t)
    BY <2>1, StoreOnward, DropsFine
  <2>2. CASE Tick
    <3>1. now' = now + 1 /\ now < MaxTime /\ accounts' = accounts /\ sessions' = sessions
      BY <2>2 DEF Tick
    <3>2. now' \in now .. MaxTime
      BY <3>1, IndexAssumption DEF SessionsFine
    <3>3. Onward /\ Drops
      BY <3>1, <3>2 DEF Onward, Drops, Exists, SessionsFine
    <3> QED BY <3>3, DropsFine
  <2> QED BY <1>2, <2>1, <2>2 DEF StoreStep
<1>3. CASE SessionCall
  <2>1. CASE \E q \in Requests, p \in Servers : EnterLogin(q, p)
    <3>1. Quiet
      BY <2>1 DEF EnterLogin, indexVars, Quiet
    <3> QED BY <3>1, QuietDrops, DropsFine
  <2>2. CASE \E q \in Requests, d \in Digests, age \in Ages, t \in Started : FinishLogin(q, d, age, t)
    <3>1. PICK q \in Requests, d \in Digests, age \in Ages, t \in Started : FinishLogin(q, d, age, t)
      BY <2>2
    <3>2. CASE CreateBrowserSession(Account, d, age, d, t)
      <4>1. now' = now /\ accounts' = accounts
        BY <3>2 DEF CreateBrowserSession
      <4>2. Onward
        BY <4>1, OnwardIs
      <4> QED BY <3>2, <4>1, <4>2, NoNone, LoginFine
    <3>3. CASE UNCHANGED indexVars
      <4>1. Quiet
        BY <3>3 DEF indexVars, Quiet
      <4> QED BY <4>1, QuietDrops, DropsFine
    <3> QED BY <3>1, <3>2, <3>3 DEF FinishLogin
  <2>3. CASE \E p \in Servers, d \in Digests, t \in Started : Logout(p, d, t)
    <3>1. PICK p \in Servers, d \in Digests, t \in Started : Logout(p, d, t)
      BY <2>3
    <3>2. CASE UNCHANGED indexVars
      <4>1. Quiet
        BY <3>2 DEF indexVars, Quiet
      <4> QED BY <4>1, QuietDrops, DropsFine
    <3>3. CASE RevokeBrowserSession(Account, d, d, t)
      BY <3>3, RevokeDrops, DropsFine
    <3> QED BY <3>1, <3>2, <3>3 DEF Logout
  <2>4. CASE \E p \in Servers : EphemeralEnds(p)
    <3>1. Quiet
      BY <2>4 DEF EphemeralEnds, indexVars, Quiet
    <3> QED BY <3>1, QuietDrops, DropsFine
  <2>5. CASE \E p \in Servers : Restart(p)
    <3>1. sessions' = PrunedSessions(now) /\ now' = now /\ accounts' = accounts
      BY <2>5 DEF Restart, PruneExpiredState
    <3>2. Onward /\ Drops
      BY <3>1, OnwardIs, PruneDrops
    <3> QED BY <3>2, DropsFine
  <2> QED BY <1>3, <2>1, <2>2, <2>3, <2>4, <2>5 DEF SessionCall
<1>4. CASE \E q \in Requests : AgentCall(q)
  BY <1>4, AgentQuiet, QuietDrops, DropsFine
<1> QED BY <1>1, <1>2, <1>3, <1>4 DEF Next

LEMMA SessionsInit ==
  ASSUME Init
  PROVE  SessionsFine
<1>1. now = 0 /\ MaxTime \in Nat /\ MaxSessions \in Nat /\ Account \in Accounts
  BY IndexAssumption, ServerAssumption DEF Init
<1>2. PICK old \in SUBSET Digests, kept \in SUBSET Digests, age \in Ages :
        /\ kept \subseteq old /\ Cardinality(old) <= MaxSessions /\ (old # {} => Exists(Account))
        /\ sessions = [d \in Digests |->
             IF d \in kept THEN [owner |-> Account, created |-> 0, expires |-> age] ELSE None]
  <2>1. PICK old \in SUBSET Digests :
          /\ Cardinality(old) <= MaxSessions /\ (old # {} => Exists(Account))
          /\ \E kept \in SUBSET old, age \in Ages :
               sessions = [d \in Digests |->
                 IF d \in kept THEN [owner |-> Account, created |-> 0, expires |-> age] ELSE None]
    BY DEF Init
  <2>2. PICK kept \in SUBSET old, age \in Ages :
          sessions = [d \in Digests |->
            IF d \in kept THEN [owner |-> Account, created |-> 0, expires |-> age] ELSE None]
    BY <2>1
  <2>3. kept \in SUBSET Digests
    OBVIOUS
  <2> QED BY <2>1, <2>2, <2>3
<1> DEFINE row == [owner |-> Account, created |-> 0, expires |-> age]
<1>3. age \in Nat /\ row \in SessionRow /\ row # None /\ row.owner = Account /\ row.created = 0 /\ row.expires = age
  BY <1>1, IndexAssumption DEF SessionRow
<1>4. sessions = [d \in Digests |-> IF d \in kept THEN row ELSE None]
  BY <1>2
<1> HIDE DEF row
<1>5. sessions \in [Digests -> SessionRow \cup {None}]
      /\ \A d \in Digests : sessions[d] # None => sessions[d] = row /\ d \in old
  BY <1>2, <1>3, <1>4
<1>6. ASSUME NEW d \in Digests, sessions[d] # None
      PROVE  /\ Exists(sessions[d].owner)
             /\ sessions[d].created <= now /\ sessions[d].expires - sessions[d].created \in Ages
  <2>1. sessions[d] = row /\ old # {}
    BY <1>5, <1>6
  <2>2. age - 0 = age
    BY <1>3
  <2> QED BY <1>1, <1>2, <1>3, <2>1, <2>2
<1>7. ASSUME NEW a \in Accounts
      PROVE  Cardinality(Owned(sessions, a)) <= MaxSessions
  <2>1. Owned(sessions, a) \subseteq old
    BY <1>5 DEF Owned
  <2>2. IsFiniteSet(old)
    BY IndexAssumption, FS_Subset
  <2>3. Cardinality(Owned(sessions, a)) <= Cardinality(old) /\ Cardinality(old) \in Nat
        /\ Cardinality(Owned(sessions, a)) \in Nat
    BY <2>1, <2>2, FS_Subset, FS_CardinalityType
  <2> QED BY <1>1, <1>2, <2>3
<1>8. now \in 0 .. MaxTime
  BY <1>1
<1> QED BY <1>5, <1>6, <1>7, <1>8 DEF SessionsFine

\* A login makes room only when the account is at its cap, with exactly one session,
\* and never one while an older one stays: createBrowserSession (store.js:664), for
\* every cap, whatever other processes, prunings and clocks do meanwhile.
THEOREM RotationAlwaysTakesOldest == Spec => RotationTakesOldest
<1> DEFINE Turn == \A a \in Accounts : Rotates(a)
<1>1. Init => SessionsFine /\ ScopeInv
  BY SessionsInit, InitWorld
<1>2. SessionsFine /\ ScopeInv /\ [Next]_serverVars => (SessionsFine /\ ScopeInv)'
  BY SessionsSteps, NextWorld DEF ScopeInv, World
<1>3. SessionsFine /\ ScopeInv /\ [Next]_serverVars => [Turn]_indexVars
  BY SessionsSteps DEF ScopeInv, World
<1>4. [][Turn]_indexVars => RotationTakesOldest
  BY PTL DEF RotationTakesOldest, Rotates
<1> QED BY <1>1, <1>2, <1>3, <1>4, PTL DEF Spec

-----------------------------------------------------------------------------
(* The index of threads and its cursors.                                   *)

OwnersThere == \A x \in Threads : threads[x] # None => Exists(threads[x].owner)
ThreadOfCursor == \A r \in Runs : cursors[r] # None => cursors[r].thread \in Owned(threads, cursors[r].owner)
LastIsOwn ==
  \A x \in Threads : threads[x] # None /\ threads[x].last # None =>
    cursors[threads[x].last] # None /\ cursors[threads[x].last].thread = x

DeliveryFine ==
  /\ threads \in [Threads -> ThreadRow \cup {None}]
  /\ cursors \in [Runs -> CursorRow \cup {None}]
  /\ OwnersThere /\ ThreadOfCursor /\ LastIsOwn

\* How a step may change the cursor of a run.
Goes(r) ==
  cursors[r] # None /\ cursors'[r] # None =>
    /\ cursors'[r].thread = cursors[r].thread
    /\ cursors'[r].seq >= cursors[r].seq
    /\ cursors'[r].seq = cursors[r].seq => cursors'[r] = cursors[r]

\* The moves of the index.
Keeps == UNCHANGED <<threads, cursors>>

Puts(x, row) ==
  /\ row \in ThreadRow /\ Exists(row.owner)
  /\ IF threads[x] = None THEN row.last = None
     ELSE row.owner = threads[x].owner /\ row.last = threads[x].last
  /\ threads' = [threads EXCEPT ![x] = row] /\ cursors' = cursors

Removes(x) ==
  /\ threads' = [threads EXCEPT ![x] = None]
  /\ cursors' = [r \in Runs |-> IF cursors[r] # None /\ cursors[r].thread = x THEN None ELSE cursors[r]]

Records(a, x, r, seq, hash) ==
  /\ x \in Owned(threads, a) /\ Advances(a, x, r, seq, hash)
  /\ ~(cursors[r] # None /\ seq = cursors[r].seq)
  /\ cursors' = [cursors EXCEPT ![r] = [owner |-> a, thread |-> x, seq |-> seq, hash |-> hash]]
  /\ threads' = [threads EXCEPT ![x] = [@ EXCEPT !.last = r]]

Moves ==
  \/ Keeps
  \/ \E x \in Threads, row \in ThreadRow : Puts(x, row)
  \/ \E x \in Threads : Removes(x)
  \/ \E a \in Accounts, x \in Threads, r \in Runs, seq \in 0 .. MaxSeq, hash \in Hashes \cup {None} :
       Records(a, x, r, seq, hash)

LEMMA NoRows ==
  /\ None \notin ThreadRow /\ None \notin CursorRow /\ None \notin Runs /\ None \notin Threads
  /\ None \notin SessionRow /\ MaxSeq \in Nat
BY IndexAssumption

LEMMA CursorIs ==
  ASSUME DeliveryFine, NEW r \in Runs, cursors[r] # None
  PROVE  /\ cursors[r] \in CursorRow /\ cursors[r].seq \in 0 .. MaxSeq /\ cursors[r].seq \in Int
         /\ cursors[r].thread \in Threads /\ cursors[r].owner \in Accounts
         /\ threads[cursors[r].thread] # None /\ threads[cursors[r].thread].owner = cursors[r].owner
<1>1. cursors[r] \in CursorRow
  BY DEF DeliveryFine
<1>2. cursors[r].thread \in Owned(threads, cursors[r].owner)
  BY DEF DeliveryFine, ThreadOfCursor
<1> QED BY <1>1, <1>2, NoRows DEF CursorRow, Owned

LEMMA ThreadIs ==
  ASSUME DeliveryFine, NEW x \in Threads, threads[x] # None
  PROVE  /\ threads[x] \in ThreadRow /\ threads[x].owner \in Accounts /\ threads[x].last \in Runs \cup {None}
         /\ Exists(threads[x].owner)
BY DEF DeliveryFine, OwnersThere, ThreadRow

LEMMA CursorKept ==
  ASSUME DeliveryFine, NEW r \in Runs, cursors'[r] \in {None, cursors[r]}
  PROVE  Goes(r)
<1> SUFFICES ASSUME cursors[r] # None, cursors'[r] = cursors[r]
             PROVE  cursors'[r].seq >= cursors[r].seq
  BY DEF Goes
<1>1. cursors[r].seq \in Int
  BY CursorIs
<1> QED BY <1>1

LEMMA PutsFine ==
  ASSUME DeliveryFine, \A a \in Accounts : Exists(a) => Exists(a)',
         NEW x \in Threads, NEW row \in ThreadRow, Puts(x, row)
  PROVE  DeliveryFine' /\ \A r \in Runs : Goes(r)
<1> USE NoRows
<1>1. threads' = [threads EXCEPT ![x] = row] /\ cursors' = cursors /\ Exists(row.owner) /\ row # None
      /\ row.owner \in Accounts
  BY DEF Puts, ThreadRow
<1>2. threads' \in [Threads -> ThreadRow \cup {None}] /\ cursors' \in [Runs -> CursorRow \cup {None}]
      /\ threads'[x] = row /\ \A y \in Threads \ {x} : threads'[y] = threads[y]
      /\ DOMAIN threads = Threads /\ DOMAIN threads' = Threads
  BY <1>1 DEF DeliveryFine
<1>3. ASSUME NEW y \in Threads, threads'[y] # None
      PROVE  accounts'[threads'[y].owner] # None
  <2>1. CASE y = x
    BY <1>1, <1>2, <2>1 DEF Exists
  <2>2. CASE y # x
    <3>1. threads'[y] = threads[y] /\ threads[y] # None
      BY <1>2, <1>3, <2>2
    <3> QED BY <3>1, ThreadIs DEF Exists
  <2> QED BY <2>1, <2>2
<1>4. ThreadOfCursor'
  <2> SUFFICES ASSUME NEW r \in Runs, cursors[r] # None
               PROVE  cursors[r].thread \in Threads /\ threads'[cursors[r].thread] # None
                      /\ threads'[cursors[r].thread].owner = cursors[r].owner
    BY <1>1, <1>2 DEF ThreadOfCursor, Owned
  <2>1. cursors[r].thread \in Threads /\ threads[cursors[r].thread] # None
        /\ threads[cursors[r].thread].owner = cursors[r].owner
    BY CursorIs
  <2> QED BY <1>1, <1>2, <2>1 DEF Puts
<1>5. LastIsOwn'
  <2> SUFFICES ASSUME NEW y \in Threads, threads'[y] # None, threads'[y].last # None
               PROVE  cursors[threads'[y].last] # None /\ cursors[threads'[y].last].thread = y
    BY <1>1 DEF LastIsOwn
  <2>1. threads[y] # None /\ threads[y].last = threads'[y].last
    BY <1>2 DEF Puts
  <2> QED BY <2>1 DEF DeliveryFine, LastIsOwn
<1>6. \A r \in Runs : Goes(r)
  BY <1>1, CursorKept
<1>7. OwnersThere'
  BY <1>3 DEF OwnersThere, Exists
<1> QED BY <1>2, <1>4, <1>5, <1>6, <1>7 DEF DeliveryFine

LEMMA RemovesFine ==
  ASSUME DeliveryFine, \A a \in Accounts : Exists(a) => Exists(a)', NEW x \in Threads, Removes(x)
  PROVE  DeliveryFine' /\ \A r \in Runs : Goes(r)
<1> USE NoRows
<1>1. threads' \in [Threads -> ThreadRow \cup {None}] /\ cursors' \in [Runs -> CursorRow \cup {None}]
      /\ threads'[x] = None /\ \A y \in Threads \ {x} : threads'[y] = threads[y]
      /\ DOMAIN threads = Threads /\ DOMAIN threads' = Threads
  BY DEF DeliveryFine, Removes
<1>2. \A r \in Runs : cursors'[r] = IF cursors[r] # None /\ cursors[r].thread = x THEN None ELSE cursors[r]
  BY DEF Removes
<1>3. \A y \in Threads : threads'[y] # None => accounts'[threads'[y].owner] # None
  BY <1>1, ThreadIs DEF Exists
<1>4. ThreadOfCursor'
  <2> SUFFICES ASSUME NEW r \in Runs, cursors'[r] # None
               PROVE  cursors'[r].thread \in Threads /\ threads'[cursors'[r].thread] # None
                      /\ threads'[cursors'[r].thread].owner = cursors'[r].owner
    BY <1>1 DEF ThreadOfCursor, Owned
  <2>1. cursors'[r] = cursors[r] /\ cursors[r] # None /\ cursors[r].thread # x
    BY <1>2
  <2> QED BY <1>1, <2>1, CursorIs
<1>5. LastIsOwn'
  <2> SUFFICES ASSUME NEW y \in Threads, threads'[y] # None, threads'[y].last # None
               PROVE  cursors'[threads'[y].last] # None /\ cursors'[threads'[y].last].thread = y
    BY DEF LastIsOwn
  <2>1. y # x /\ threads'[y] = threads[y] /\ threads[y].last \in Runs
    BY <1>1, ThreadIs
  <2>2. cursors[threads[y].last] # None /\ cursors[threads[y].last].thread = y
    BY <2>1 DEF DeliveryFine, LastIsOwn
  <2> QED BY <1>2, <2>1, <2>2
<1>6. \A r \in Runs : Goes(r)
  BY <1>2, CursorKept
<1>7. OwnersThere'
  BY <1>3 DEF OwnersThere, Exists
<1> QED BY <1>1, <1>4, <1>5, <1>6, <1>7 DEF DeliveryFine

LEMMA RecordsFine ==
  ASSUME DeliveryFine, \A a \in Accounts : Exists(a) => Exists(a)', NEW a \in Accounts, NEW x \in Threads,
         NEW r \in Runs, NEW seq \in 0 .. MaxSeq, NEW hash \in Hashes \cup {None}, Records(a, x, r, seq, hash)
  PROVE  DeliveryFine' /\ \A s \in Runs : Goes(s)
<1> USE NoRows
<1> DEFINE cursor == [owner |-> a, thread |-> x, seq |-> seq, hash |-> hash]
           row == [threads[x] EXCEPT !.last = r]
<1>1. cursor \in CursorRow /\ cursor # None
      /\ cursor.owner = a /\ cursor.thread = x /\ cursor.seq = seq
  BY DEF CursorRow
<1>2. threads[x] # None /\ threads[x].owner = a /\ threads[x] \in ThreadRow
  BY ThreadIs DEF Records, Owned
<1>3. row \in ThreadRow /\ row # None /\ row.owner = a /\ row.last = r
  BY <1>2 DEF ThreadRow
<1>4. cursors' = [cursors EXCEPT ![r] = cursor] /\ threads' = [threads EXCEPT ![x] = row]
  BY DEF Records
<1> HIDE DEF cursor, row
<1>5. threads' \in [Threads -> ThreadRow \cup {None}] /\ cursors' \in [Runs -> CursorRow \cup {None}]
      /\ threads'[x] = row /\ (\A y \in Threads \ {x} : threads'[y] = threads[y])
      /\ cursors'[r] = cursor /\ (\A s \in Runs \ {r} : cursors'[s] = cursors[s])
      /\ DOMAIN threads = Threads /\ DOMAIN threads' = Threads
  BY <1>1, <1>3, <1>4 DEF DeliveryFine
<1>6. cursors[r] # None =>
        cursors[r].thread = x /\ seq > cursors[r].seq
  BY DEF Records, Advances
<1>7. \A y \in Threads : threads'[y] # None => accounts'[threads'[y].owner] # None
  BY <1>2, <1>3, <1>5, ThreadIs DEF Exists
<1>8. ThreadOfCursor'
  <2> SUFFICES ASSUME NEW s \in Runs, cursors'[s] # None
               PROVE  cursors'[s].thread \in Threads /\ threads'[cursors'[s].thread] # None
                      /\ threads'[cursors'[s].thread].owner = cursors'[s].owner
    BY <1>5 DEF ThreadOfCursor, Owned
  <2>1. CASE s = r
    BY <1>1, <1>3, <1>5, <2>1
  <2>2. CASE s # r
    BY <1>2, <1>3, <1>5, <2>2, CursorIs
  <2> QED BY <2>1, <2>2
<1>9. LastIsOwn'
  <2> SUFFICES ASSUME NEW y \in Threads, threads'[y] # None, threads'[y].last # None
               PROVE  cursors'[threads'[y].last] # None /\ cursors'[threads'[y].last].thread = y
    BY DEF LastIsOwn
  <2>1. CASE y = x
    BY <1>1, <1>3, <1>5, <2>1
  <2>2. CASE y # x
    <3>1. threads'[y] = threads[y] /\ threads[y].last \in Runs
      BY <1>5, <2>2, ThreadIs
    <3>2. cursors[threads[y].last] # None /\ cursors[threads[y].last].thread = y
      BY <3>1 DEF DeliveryFine, LastIsOwn
    <3>3. threads[y].last # r
      BY <1>6, <2>2, <3>2
    <3> QED BY <1>5, <3>1, <3>2, <3>3
  <2> QED BY <2>1, <2>2
<1>10. ASSUME NEW s \in Runs
       PROVE  Goes(s)
  <2>1. CASE s = r
    <3> SUFFICES ASSUME cursors[r] # None
                 PROVE  Goes(r)
      BY <2>1 DEF Goes
    <3>1. cursors[r].seq \in Int /\ seq \in Int
      BY CursorIs
    <3> QED BY <1>1, <1>5, <1>6, <3>1 DEF Goes
  <2>2. CASE s # r
    BY <1>5, <2>2, CursorKept
  <2> QED BY <2>1, <2>2
<1>11. OwnersThere'
  BY <1>7 DEF OwnersThere, Exists
<1> QED BY <1>5, <1>8, <1>9, <1>10, <1>11 DEF DeliveryFine

LEMMA MovesFine ==
  ASSUME DeliveryFine, \A a \in Accounts : Exists(a) => Exists(a)', Moves
  PROVE  DeliveryFine' /\ \A r \in Runs : Goes(r)
<1>1. CASE Keeps
  <2>1. threads' = threads /\ cursors' = cursors
    BY <1>1 DEF Keeps
  <2>2. \A r \in Runs : Goes(r)
    BY <2>1, CursorKept
  <2>3. \A x \in Threads : threads'[x] # None => accounts'[threads'[x].owner] # None
    BY <2>1, ThreadIs DEF Exists
  <2>4. OwnersThere'
    BY <2>3 DEF OwnersThere, Exists
  <2>5. ThreadOfCursor' /\ LastIsOwn'
    BY <2>1 DEF DeliveryFine, ThreadOfCursor, LastIsOwn, Owned
  <2> QED BY <2>1, <2>2, <2>4, <2>5 DEF DeliveryFine
<1> QED BY <1>1, PutsFine, RemovesFine, RecordsFine DEF Moves

LEMMA AccountsStay ==
  ASSUME WorldTypes, Turns
  PROVE  \A a \in Accounts : Exists(a) => Exists(a)'
<1>1. \/ accounts' = accounts
      \/ \E a \in Accounts, id \in Identities : accounts' = [accounts EXCEPT ![a] = id]
  BY DEF Turns, Still, Provides, Primes, Makes, Deletes, Binds, Retires
<1>2. \A a \in Accounts : accounts[a] # None => accounts'[a] # None
  BY <1>1, NoNone DEF WorldTypes
<1> QED BY <1>2 DEF Exists

LEMMA StoreMoves ==
  ASSUME DeliveryFine, NEW t, StoreCall(t)
  PROVE  Moves
<1>1. CASE \E a \in Accounts, key \in Keys, id \in Identities : ProvisionAccount(a, id, key, t)
  BY <1>1 DEF ProvisionAccount, Moves, Keeps
<1>2. CASE \E a \in Accounts, key \in Keys, x \in Threads : RemoveThreadIndex(a, x, key, t)
  BY <1>2 DEF RemoveThreadIndex, Moves, Removes
<1>3. CASE \E a \in Accounts, key \in Keys, x \in Threads, meta \in Metas : RegisterThread(a, x, meta, key, t)
  <2>1. PICK a \in Accounts, key \in Keys, x \in Threads, meta \in Metas : RegisterThread(a, x, meta, key, t)
    BY <1>3
  <2> DEFINE row == [owner |-> a, meta |-> meta, last |-> None]
  <2>2. threads' = [threads EXCEPT ![x] = row] /\ cursors' = cursors /\ threads[x] = None /\ Exists(a)
    BY <2>1 DEF RegisterThread
  <2>3. row \in ThreadRow /\ row.owner = a /\ row.last = None
    BY DEF ThreadRow
  <2> HIDE DEF row
  <2>4. Puts(x, row)
    BY <2>2, <2>3 DEF Puts
  <2> QED BY <2>3, <2>4 DEF Moves
<1>4. CASE \E a \in Accounts, key \in Keys, x \in Threads, meta \in Metas, op \in {"thread.update", "thread.sync"} :
             UpdateThread(op, a, x, meta, key, t)
  <2>1. PICK a \in Accounts, key \in Keys, x \in Threads, meta \in Metas, op \in {"thread.update", "thread.sync"} :
          UpdateThread(op, a, x, meta, key, t)
    BY <1>4
  <2> DEFINE row == [threads[x] EXCEPT !.meta = meta]
  <2>2. threads' = [threads EXCEPT ![x] = row] /\ cursors' = cursors /\ threads[x] # None
    BY <2>1 DEF UpdateThread, Owned
  <2>3. threads[x] \in ThreadRow /\ Exists(threads[x].owner)
    BY <2>2, ThreadIs
  <2>4. row \in ThreadRow /\ row.owner = threads[x].owner /\ row.last = threads[x].last
    BY <2>3 DEF ThreadRow
  <2> HIDE DEF row
  <2>5. Puts(x, row)
    BY <2>2, <2>3, <2>4 DEF Puts
  <2> QED BY <2>4, <2>5 DEF Moves
<1>5. CASE \E a \in Accounts, x \in Threads, r \in Runs, seq \in 0 .. MaxSeq, hash \in Hashes \cup {None} :
             RecordRunCursor(a, x, r, seq, hash, t)
  <2>1. PICK a \in Accounts, x \in Threads, r \in Runs, seq \in 0 .. MaxSeq, hash \in Hashes \cup {None} :
          RecordRunCursor(a, x, r, seq, hash, t)
    BY <1>5
  <2>2. Keeps \/ Records(a, x, r, seq, hash)
    BY <2>1 DEF RecordRunCursor, Keeps, Records
  <2> QED BY <2>2 DEF Moves
<1>6. CASE \E a \in Accounts : Replay(a, t)
  BY <1>6 DEF Replay, Moves, Keeps
<1>7. CASE PruneExpiredState(t)
  BY <1>7 DEF PruneExpiredState, Moves, Keeps
<1> QED BY <1>1, <1>2, <1>3, <1>4, <1>5, <1>6, <1>7 DEF StoreCall

LEMMA AgentKeeps ==
  ASSUME NEW q \in Requests, AgentCall(q)
  PROVE  Keeps /\ receipts' = receipts /\ attempts' = attempts
<1>1. CASE \E p \in Servers, d \in Digests, path \in Paths, x \in Resources \cup {None} : Admit(q, p, d, path, x)
  BY <1>1 DEF Admit, Keeps, indexVars
<1>2. CASE Prime(q)
  BY <1>2 DEF Prime, Keeps
<1>3. CASE Resolve(q)
  BY <1>3 DEF Resolve, Keeps, indexVars
<1>4. CASE Probe(q)
  BY <1>4 DEF Probe, Keeps, indexVars
<1>5. CASE Ask(q)
  BY <1>5 DEF Ask, Keeps, indexVars
<1>6. CASE Take(q)
  BY <1>6 DEF Take, Keeps
<1>7. CASE ListAsk(q)
  BY <1>7 DEF ListAsk, Keeps, indexVars
<1>8. CASE ListTake(q)
  BY <1>8 DEF ListTake, Keeps
<1>9. CASE Abandon(q)
  BY <1>9 DEF Abandon, Keeps, indexVars
<1> QED BY <1>1, <1>2, <1>3, <1>4, <1>5, <1>6, <1>7, <1>8, <1>9 DEF AgentCall

LEMMA NextMoves ==
  ASSUME DeliveryFine, [Next]_serverVars
  PROVE  Moves
<1>1. CASE UNCHANGED serverVars
  BY <1>1 DEF serverVars, indexVars, Moves, Keeps
<1>2. CASE StoreStep
  <2>1. CASE \E t \in Started : StoreCall(t)
    BY <2>1, StoreMoves
  <2>2. CASE Tick
    BY <2>2 DEF Tick, Moves, Keeps
  <2> QED BY <1>2, <2>1, <2>2 DEF StoreStep
<1>3. CASE SessionCall
  <2>1. CASE \E q \in Requests, p \in Servers : EnterLogin(q, p)
    BY <2>1 DEF EnterLogin, indexVars, Moves, Keeps
  <2>2. CASE \E q \in Requests, d \in Digests, age \in Ages, t \in Started : FinishLogin(q, d, age, t)
    BY <2>2 DEF FinishLogin, CreateBrowserSession, indexVars, Moves, Keeps
  <2>3. CASE \E p \in Servers, d \in Digests, t \in Started : Logout(p, d, t)
    BY <2>3 DEF Logout, RevokeBrowserSession, indexVars, Moves, Keeps
  <2>4. CASE \E p \in Servers : EphemeralEnds(p) \/ Restart(p)
    BY <2>4 DEF EphemeralEnds, Restart, PruneExpiredState, indexVars, Moves, Keeps
  <2> QED BY <1>3, <2>1, <2>2, <2>3, <2>4 DEF SessionCall
<1>4. CASE \E q \in Requests : AgentCall(q)
  BY <1>4, AgentKeeps DEF Moves
<1> QED BY <1>1, <1>2, <1>3, <1>4 DEF Next

LEMMA DeliverySteps ==
  ASSUME DeliveryFine, ScopeInv, [Next]_serverVars
  PROVE  DeliveryFine' /\ \A r \in Runs : Goes(r)
BY NextMoves, NextTurns, AccountsStay, MovesFine DEF ScopeInv, World

LEMMA DeliveryInit == Init => DeliveryFine
BY DEF Init, DeliveryFine, OwnersThere, ThreadOfCursor, LastIsOwn

\* The cursor of a run only goes forward, on its own thread and under one hash, and the
\* last run of a thread is one of its own: recordRunCursor (store.js:1064), for any
\* number of threads and runs, in whatever order cursors are reported and threads removed.
THEOREM DeliveryAlwaysAdvances == Spec => DeliveryOnlyAdvances
<1> DEFINE Step ==
             /\ \A r \in Runs : Goes(r)
             /\ \A x \in Threads : threads'[x] # None /\ threads'[x].last # None =>
                  cursors'[threads'[x].last] # None /\ cursors'[threads'[x].last].thread = x
<1>1. Init => DeliveryFine /\ ScopeInv
  BY DeliveryInit, InitWorld
<1>2. DeliveryFine /\ ScopeInv /\ [Next]_serverVars => (DeliveryFine /\ ScopeInv)'
  BY DeliverySteps, NextWorld
<1>3. DeliveryFine /\ ScopeInv /\ [Next]_serverVars => [Step]_indexVars
  BY DeliverySteps DEF DeliveryFine, LastIsOwn
<1>4. [][Step]_indexVars => DeliveryOnlyAdvances
  BY PTL DEF DeliveryOnlyAdvances, Goes
<1> QED BY <1>1, <1>2, <1>3, <1>4, PTL DEF Spec

-----------------------------------------------------------------------------
(* The receipts, the windows of attempts, and types.                       *)

\* What is sifted from a list is a list, no longer, of entries of the list.
LEMMA CountStep ==
  ASSUME NEW keep, IsFiniteSet(keep), keep \subseteq Nat, NEW m \in Nat
  PROVE  /\ Cardinality({j \in keep : j <= m + 1}) \in Nat /\ Cardinality({j \in keep : j <= m}) \in Nat
         /\ m + 1 \in keep => Cardinality({j \in keep : j <= m + 1}) = Cardinality({j \in keep : j <= m}) + 1
         /\ m + 1 \notin keep => Cardinality({j \in keep : j <= m + 1}) = Cardinality({j \in keep : j <= m})
<1> DEFINE low == {j \in keep : j <= m}
<1>1. IsFiniteSet(low) /\ Cardinality(low) \in Nat
  <2>1. low \subseteq keep
    OBVIOUS
  <2> QED BY <2>1, FS_Subset, FS_CardinalityType
<1>2. CASE m + 1 \in keep
  <2>1. {j \in keep : j <= m + 1} = low \cup {m + 1}
    <3>1. \A j \in keep : j <= m + 1 <=> (j <= m \/ j = m + 1)
      OBVIOUS
    <3> QED BY <1>2, <3>1
  <2>2. m + 1 \notin low
    OBVIOUS
  <2>3. Cardinality(low \cup {m + 1}) = Cardinality(low) + 1
    BY <1>1, <2>2, FS_AddElement
  <2> QED BY <1>1, <1>2, <2>1, <2>3
<1>3. CASE m + 1 \notin keep
  <2>1. {j \in keep : j <= m + 1} = low
    <3>1. \A j \in keep : j <= m + 1 <=> j <= m
      BY <1>3
    <3> QED BY <3>1
  <2> QED BY <1>1, <1>3, <2>1
<1> QED BY <1>2, <1>3

LEMMA PlaceExists ==
  ASSUME NEW len \in Nat, NEW keep \in SUBSET (1 .. len), NEW n \in 1 .. Cardinality(keep)
  PROVE  \E i \in keep : Cardinality({j \in keep : j <= i}) = n
<1>1. IsFiniteSet(keep) /\ keep \subseteq Nat /\ Cardinality(keep) \in Nat /\ n \in Nat
  <2>1. IsFiniteSet(1 .. len)
    BY FS_Interval
  <2>2. IsFiniteSet(keep)
    BY <2>1, FS_Subset
  <2>3. keep \subseteq Nat /\ n \in Nat
    OBVIOUS
  <2> QED BY <2>2, <2>3, FS_CardinalityType
<1> DEFINE Count(i) == Cardinality({j \in keep : j <= i})
           Enough == {i \in Nat : Count(i) >= n}
<1>2. len \in Enough
  <2>1. {j \in keep : j <= len} = keep
    <3>1. \A j \in keep : j <= len
      OBVIOUS
    <3> QED BY <3>1
  <2> QED BY <1>1, <2>1
<1>3. PICK i \in Enough : \A k \in Nat : k < i => k \notin Enough
  <2>1. PICK i \in Enough : \A k \in Enough : <<k, i>> \notin OpToRel(<, Nat)
    BY <1>2, NatLessThanWellFounded, WFMin, Zenon
  <2> QED BY <2>1 DEF OpToRel
<1>4. i # 0
  <2>1. {j \in keep : j <= 0} = {}
    <3>1. \A j \in keep : ~(j <= 0)
      OBVIOUS
    <3> QED BY <3>1
  <2>2. Count(0) = 0
    BY <2>1, FS_EmptySet
  <2> QED BY <1>1, <2>2
<1>5. PICK m \in Nat : i = m + 1
  <2>1. i - 1 \in Nat /\ i = (i - 1) + 1
    BY <1>4
  <2> QED BY <2>1
<1>6. m \notin Enough
  BY <1>3, <1>5
<1>7. /\ Count(m + 1) \in Nat /\ Count(m) \in Nat
      /\ m + 1 \in keep => Count(m + 1) = Count(m) + 1
      /\ m + 1 \notin keep => Count(m + 1) = Count(m)
  BY <1>1, CountStep
<1>8. Count(m + 1) >= n /\ ~(Count(m) >= n)
  BY <1>3, <1>5, <1>6
<1> HIDE DEF Count
<1>9. m + 1 \in keep /\ Count(m + 1) = n
  BY <1>1, <1>7, <1>8
<1> QED BY <1>9 DEF Count

LEMMA SiftedIs ==
  ASSUME NEW S, NEW list \in Seq(S), NEW keep \in SUBSET DOMAIN list
  PROVE  Sifted(list, keep) \in Seq(S) /\ Len(Sifted(list, keep)) \in Nat /\ Len(Sifted(list, keep)) <= Len(list)
<1> DEFINE Place(n) == CHOOSE i \in keep : Cardinality({j \in keep : j <= i}) = n
<1>1. DOMAIN list = 1 .. Len(list) /\ Len(list) \in Nat /\ \A i \in 1 .. Len(list) : list[i] \in S
  BY LenProperties, ElementOfSeq
<1>2. IsFiniteSet(1 .. Len(list)) /\ Cardinality(1 .. Len(list)) = Len(list)
  BY <1>1, FS_Interval
<1>3. Cardinality(keep) \in Nat /\ Cardinality(keep) <= Len(list)
  BY <1>1, <1>2, FS_Subset, FS_CardinalityType
<1>4. ASSUME NEW n \in 1 .. Cardinality(keep)
      PROVE  list[Place(n)] \in S
  <2>1. \E i \in keep : Cardinality({j \in keep : j <= i}) = n
    BY <1>1, PlaceExists
  <2>2. Place(n) \in keep
    BY <2>1
  <2> QED BY <1>1, <2>2
<1> HIDE DEF Place
<1> DEFINE sifted == [n \in 1 .. Cardinality(keep) |-> list[Place(n)]]
<1>5. sifted \in [1 .. Cardinality(keep) -> S]
  BY <1>4
<1>6. sifted \in Seq(S) /\ Len(sifted) = Cardinality(keep)
  BY <1>3, <1>5
<1>7. Sifted(list, keep) = sifted
  BY DEF Sifted, Place
<1> HIDE DEF sifted
<1> QED BY <1>3, <1>6, <1>7

\* The receipts are lists, as long as they may be, of accounts that are there.
Lists(S) == receipts \in [Accounts -> Seq(S)]

ReceiptsFine ==
  /\ \E S : Lists(S)
  /\ \A a \in Accounts : Len(receipts[a]) <= MaxReceipts /\ (receipts[a] # <<>> => Exists(a))

\* The window of every process counts no more than it may.
AttemptsFine == attempts \in [Servers -> [start : Nat, count : 0 .. MaxAttempts]]

\* Nothing but an answer brings finds.
FoundFine == \A q \in Requests : request[q].found # {} => request[q].at \in Saw

LEMMA NewestIs ==
  ASSUME NEW S, NEW list \in Seq(S)
  PROVE  Newest(list) \in Seq(S) /\ Len(Newest(list)) <= MaxReceipts
<1>1. MaxReceipts \in Nat /\ Len(list) \in Nat
  BY IndexAssumption
<1>2. CASE Len(list) <= MaxReceipts
  BY <1>2 DEF Newest
<1>3. CASE ~(Len(list) <= MaxReceipts)
  <2> DEFINE m == Len(list) - MaxReceipts + 1
  <2>1. m \in 1 .. Len(list) + 1 /\ m \in Int /\ Len(list) - m + 1 = MaxReceipts
        /\ (m <= Len(list) => m \in 1 .. Len(list))
    BY <1>1, <1>3
  <2>2. Newest(list) = SubSeq(list, m, Len(list))
    BY <1>3 DEF Newest
  <2> HIDE DEF m
  <2>3. SubSeq(list, m, Len(list)) \in Seq(S) /\ Len(SubSeq(list, m, Len(list))) = MaxReceipts
    BY <1>1, <2>1, SubSeqProperties
  <2> QED BY <1>1, <2>2, <2>3
<1> QED BY <1>2, <1>3

LEMMA PrunedReceiptsAre ==
  ASSUME NEW S, Lists(S), ReceiptsFine, NEW t
  PROVE  /\ PrunedReceipts(t) \in [Accounts -> Seq(S)]
         /\ \A a \in Accounts : /\ Len(PrunedReceipts(t)[a]) <= MaxReceipts
                                /\ PrunedReceipts(t)[a] # <<>> => Exists(a)
<1>1. ASSUME NEW a \in Accounts
      PROVE  /\ PrunedReceipts(t)[a] \in Seq(S) /\ Len(PrunedReceipts(t)[a]) <= MaxReceipts
             /\ PrunedReceipts(t)[a] # <<>> => Exists(a)
  <2> DEFINE keep == {i \in DOMAIN receipts[a] : receipts[a][i].expires > t}
  <2>1. PICK list : list = receipts[a]
    OBVIOUS
  <2>2. list \in Seq(S) /\ Len(list) \in Nat /\ Len(list) <= MaxReceipts /\ (list # <<>> => Exists(a))
    BY <2>1 DEF Lists, ReceiptsFine
  <2>3. PrunedReceipts(t)[a] = Sifted(list, keep)
    BY <2>1 DEF PrunedReceipts
  <2>4. keep \in SUBSET DOMAIN list
    BY <2>1
  <2> HIDE DEF keep
  <2>5. /\ Sifted(list, keep) \in Seq(S) /\ Len(Sifted(list, keep)) \in Nat
        /\ Len(Sifted(list, keep)) <= Len(list)
    BY <2>2, <2>4, SiftedIs
  <2>6. Len(Sifted(list, keep)) <= MaxReceipts
    BY <2>2, <2>5, IndexAssumption
  <2>7. list = <<>> => Sifted(list, keep) = <<>>
    <3>1. list = <<>> => Len(list) = 0
      OBVIOUS
    <3>2. Len(list) = 0 => Len(Sifted(list, keep)) = 0
      BY <2>5
    <3>3. Len(Sifted(list, keep)) = 0 => Sifted(list, keep) = <<>>
      BY <2>5, EmptySeq
    <3> QED BY <3>1, <3>2, <3>3
  <2> QED BY <2>2, <2>3, <2>5, <2>6, <2>7
<1>2. PrunedReceipts(t) = [a \in Accounts |-> PrunedReceipts(t)[a]]
  BY DEF PrunedReceipts
<1> QED BY <1>1, <1>2

\* What a call does to the receipts: nothing, a pruning, or a pruning and one more.
Files == \E c, t, result : File(c, t, result) /\ c.account \in Accounts /\ accounts'[c.account] # None

LEMMA FilesFine ==
  ASSUME ReceiptsFine, \A a \in Accounts : Exists(a) => Exists(a)',
         \/ receipts' = receipts
         \/ \E t : receipts' = PrunedReceipts(t)
         \/ Files
  PROVE  ReceiptsFine'
<1>1. PICK S : Lists(S)
  BY DEF ReceiptsFine
<1>2. CASE receipts' = receipts
  <2>1. \E R : Lists(R)'
    BY <1>1, <1>2 DEF Lists
  <2> QED BY <1>2, <2>1 DEF ReceiptsFine
<1>3. CASE \E t : receipts' = PrunedReceipts(t)
  <2>1. PICK t : receipts' = PrunedReceipts(t)
    BY <1>3
  <2>2. Lists(S)'
    BY <1>1, <2>1, PrunedReceiptsAre DEF Lists
  <2>3. \E R : Lists(R)'
    BY <2>2
  <2>4. \A a \in Accounts : Len(receipts'[a]) <= MaxReceipts /\ (receipts'[a] # <<>> => Exists(a))
    BY <1>1, <2>1, PrunedReceiptsAre
  <2> QED BY <2>3, <2>4 DEF ReceiptsFine
<1>4. CASE Files
  <2>1. PICK c, t, result : File(c, t, result) /\ c.account \in Accounts /\ accounts'[c.account] # None
    BY <1>4 DEF Files
  <2> DEFINE row == [call |-> c, result |-> result, expires |-> t + ReceiptAge]
             R == S \cup {row}
  <2>2. PICK P : P = PrunedReceipts(t)
    OBVIOUS
  <2>3. P \in [Accounts -> Seq(S)] /\ \A a \in Accounts : Len(P[a]) <= MaxReceipts /\ (P[a] # <<>> => Exists(a))
    BY <1>1, <2>2, PrunedReceiptsAre
  <2>4. receipts' = [P EXCEPT ![c.account] = Newest(Append(P[c.account], row))]
    BY <2>1, <2>2, <2>3 DEF File
  <2>5. row \in R
    OBVIOUS
  <2>6. \A a \in Accounts : P[a] \in Seq(R)
    <3>1. S \subseteq R
      OBVIOUS
    <3> HIDE DEF R, row
    <3> SUFFICES ASSUME NEW a \in Accounts
                 PROVE  P[a] \in Seq(R)
      OBVIOUS
    <3>2. P[a] \in Seq(S)
      BY <2>3
    <3> QED BY <3>1, <3>2
  <2> HIDE DEF R, row
  <2>7. Append(P[c.account], row) \in Seq(R)
    BY <2>1, <2>5, <2>6, AppendProperties
  <2>8. Newest(Append(P[c.account], row)) \in Seq(R)
        /\ Len(Newest(Append(P[c.account], row))) <= MaxReceipts
    BY <2>7, NewestIs
  <2>9. \A a \in Accounts : receipts'[a] = IF a = c.account THEN Newest(Append(P[c.account], row)) ELSE P[a]
    BY <2>3, <2>4
  <2>10. receipts' \in [Accounts -> Seq(R)]
    BY <2>3, <2>4, <2>6, <2>8
  <2>11. \E Q : Lists(Q)'
    BY <2>10 DEF Lists
  <2>12. \A a \in Accounts : Len(receipts'[a]) <= MaxReceipts /\ (receipts'[a] # <<>> => accounts'[a] # None)
    BY <2>1, <2>3, <2>8, <2>9 DEF Exists
  <2> QED BY <2>11, <2>12 DEF ReceiptsFine, Exists
<1> QED BY <1>2, <1>3, <1>4

LEMMA NextFiles ==
  ASSUME SessionsFine, DeliveryFine, ScopeInv, [Next]_serverVars
  PROVE  receipts' = receipts \/ (\E t : receipts' = PrunedReceipts(t)) \/ Files
<1> USE NoNone
<1>1. CASE UNCHANGED serverVars
  BY <1>1 DEF serverVars, indexVars
<1>2. CASE StoreStep
  <2>1. CASE Tick
    BY <2>1 DEF Tick
  <2>2. CASE \E t \in Started : StoreCall(t)
    <3>1. PICK t \in Started : StoreCall(t)
      BY <2>2
    <3>2. CASE \E a \in Accounts, key \in Keys, id \in Identities : ProvisionAccount(a, id, key, t)
      <4>1. PICK a \in Accounts, key \in Keys, id \in Identities : ProvisionAccount(a, id, key, t)
        BY <3>2
      <4>2. File(Call("account.provision", a, key, a, id), t, id) /\ accounts' = [accounts EXCEPT ![a] = id]
        BY <4>1 DEF ProvisionAccount
      <4>3. accounts'[a] # None
        BY <4>2 DEF ScopeInv, World, WorldTypes
      <4> QED BY <4>2, <4>3 DEF Files, Call
    <3>3. CASE \E a \in Accounts, key \in Keys, x \in Threads : RemoveThreadIndex(a, x, key, t)
      <4>1. PICK a \in Accounts, key \in Keys, x \in Threads : RemoveThreadIndex(a, x, key, t)
        BY <3>3
      <4>2. File(Call("thread.remove_index", a, key, x, None), t, "done") /\ accounts' = accounts
            /\ threads[x] # None /\ threads[x].owner = a
        BY <4>1 DEF RemoveThreadIndex, Owned
      <4>3. accounts'[a] # None
        BY <4>2, ThreadIs DEF Exists
      <4> QED BY <4>2, <4>3 DEF Files, Call
    <3>4. CASE \E a \in Accounts, key \in Keys, x \in Threads, meta \in Metas : RegisterThread(a, x, meta, key, t)
      <4>1. PICK a \in Accounts, key \in Keys, x \in Threads, meta \in Metas : RegisterThread(a, x, meta, key, t)
        BY <3>4
      <4>2. \E row : File(Call("thread.register", a, key, x, meta), t, row)
        BY <4>1 DEF RegisterThread
      <4>3. accounts'[a] # None
        BY <4>1 DEF RegisterThread, Exists
      <4> QED BY <4>2, <4>3 DEF Files, Call
    <3>5. CASE \E a \in Accounts, key \in Keys, x \in Threads, meta \in Metas, op \in {"thread.update", "thread.sync"} :
                 UpdateThread(op, a, x, meta, key, t)
      <4>1. PICK a \in Accounts, key \in Keys, x \in Threads, meta \in Metas, op \in {"thread.update", "thread.sync"} :
              UpdateThread(op, a, x, meta, key, t)
        BY <3>5
      <4>2. \E row : File(Call(op, a, key, x, meta), t, row)
        BY <4>1 DEF UpdateThread
      <4>3. threads[x] # None /\ threads[x].owner = a /\ accounts' = accounts
        BY <4>1 DEF UpdateThread, Owned
      <4>4. accounts'[a] # None
        BY <4>3, ThreadIs DEF Exists
      <4> QED BY <4>2, <4>4 DEF Files, Call
    <3>6. CASE \E a \in Accounts, x \in Threads, r \in Runs, seq \in 0 .. MaxSeq, hash \in Hashes \cup {None} :
                 RecordRunCursor(a, x, r, seq, hash, t)
      BY <3>6 DEF RecordRunCursor
    <3>7. CASE \E a \in Accounts : Replay(a, t)
      BY <3>7 DEF Replay
    <3>8. CASE PruneExpiredState(t)
      BY <3>8 DEF PruneExpiredState
    <3> QED BY <3>1, <3>2, <3>3, <3>4, <3>5, <3>6, <3>7, <3>8 DEF StoreCall
  <2> QED BY <1>2, <2>1, <2>2 DEF StoreStep
<1>3. CASE SessionCall
  <2>1. CASE \E q \in Requests, p \in Servers : EnterLogin(q, p)
    BY <2>1 DEF EnterLogin, indexVars
  <2>2. CASE \E q \in Requests, d \in Digests, age \in Ages, t \in Started : FinishLogin(q, d, age, t)
    <3>1. PICK q \in Requests, d \in Digests, age \in Ages, t \in Started : FinishLogin(q, d, age, t)
      BY <2>2
    <3>2. CASE CreateBrowserSession(Account, d, age, d, t)
      <4>1. \E row : File(Call("browser_session.create", Account, d, d, age), t, row)
        BY <3>2 DEF CreateBrowserSession
      <4>2. accounts'[Account] # None
        BY <3>2 DEF CreateBrowserSession, Exists
      <4> QED BY <4>1, <4>2 DEF Files, Call
    <3>3. CASE UNCHANGED indexVars
      BY <3>3 DEF indexVars
    <3> QED BY <3>1, <3>2, <3>3 DEF FinishLogin
  <2>3. CASE \E p \in Servers, d \in Digests, t \in Started : Logout(p, d, t)
    <3>1. PICK p \in Servers, d \in Digests, t \in Started : Logout(p, d, t)
      BY <2>3
    <3>2. CASE RevokeBrowserSession(Account, d, d, t)
      <4>1. File(Call("browser_session.revoke", Account, d, d, None), t, "done") /\ accounts' = accounts
            /\ d \in Owned(PrunedSessions(t), Account)
        BY <3>2 DEF RevokeBrowserSession
      <4>2. PrunedSessions(t)[d] # None /\ PrunedSessions(t)[d].owner = Account
        BY <4>1 DEF Owned
      <4>3. sessions[d] # None /\ sessions[d].owner = Account
        BY <4>2, PrunedIs
      <4>4. accounts'[Account] # None
        BY <4>1, <4>3 DEF SessionsFine, Exists
      <4> QED BY <4>1, <4>4 DEF Files, Call
    <3>3. CASE UNCHANGED indexVars
      BY <3>3 DEF indexVars
    <3> QED BY <3>1, <3>2, <3>3 DEF Logout
  <2>4. CASE \E p \in Servers : EphemeralEnds(p) \/ Restart(p)
    BY <2>4 DEF EphemeralEnds, Restart, PruneExpiredState, indexVars
  <2> QED BY <1>3, <2>1, <2>2, <2>3, <2>4 DEF SessionCall
<1>4. CASE \E q \in Requests : AgentCall(q)
  BY <1>4, AgentKeeps
<1> QED BY <1>1, <1>2, <1>3, <1>4 DEF Next

LEMMA AttemptsSteps ==
  ASSUME AttemptsFine, SessionsFine, [Next]_serverVars
  PROVE  AttemptsFine'
<1>1. now \in Nat /\ MaxAttempts \in Nat
  BY IndexAssumption, ServerAssumption DEF SessionsFine
<1>2. ASSUME attempts' = attempts
      PROVE  AttemptsFine'
  BY <1>2 DEF AttemptsFine
<1>3. CASE \E q \in Requests, p \in Servers : EnterLogin(q, p)
  <2>1. PICK q \in Requests, p \in Servers : EnterLogin(q, p)
    BY <1>3
  <2>2. PICK w : w = Counted(p)
    OBVIOUS
  <2>3. attempts[p] \in [start : Nat, count : 0 .. MaxAttempts]
    BY DEF AttemptsFine
  <2>4. w \in [start : Nat, count : 0 .. MaxAttempts] /\ w.count < MaxAttempts
    BY <1>1, <2>1, <2>2, <2>3 DEF Counted, EnterLogin
  <2> DEFINE new == [w EXCEPT !.count = @ + 1]
  <2>5. new \in [start : Nat, count : 0 .. MaxAttempts]
    BY <1>1, <2>4
  <2>6. attempts' = [attempts EXCEPT ![p] = new]
    BY <2>1, <2>2 DEF EnterLogin
  <2> HIDE DEF new
  <2> QED BY <2>5, <2>6 DEF AttemptsFine
<1>4. CASE \E p \in Servers : Restart(p)
  <2>1. [start |-> now, count |-> 0] \in [start : Nat, count : 0 .. MaxAttempts]
    BY <1>1
  <2> QED BY <1>4, <2>1 DEF Restart, AttemptsFine
<1>5. CASE UNCHANGED serverVars
  BY <1>2, <1>5 DEF serverVars
<1>6. CASE StoreStep
  BY <1>2, <1>6 DEF StoreStep
<1>7. CASE \E q \in Requests, d \in Digests, age \in Ages, t \in Started : FinishLogin(q, d, age, t)
  BY <1>2, <1>7 DEF FinishLogin
<1>8. CASE \E p \in Servers, d \in Digests, t \in Started : Logout(p, d, t)
  BY <1>2, <1>8 DEF Logout
<1>9. CASE \E p \in Servers : EphemeralEnds(p)
  BY <1>2, <1>9 DEF EphemeralEnds
<1>10. CASE \E q \in Requests : AgentCall(q)
  BY <1>2, <1>10, AgentKeeps
<1> QED BY <1>3, <1>4, <1>5, <1>6, <1>7, <1>8, <1>9, <1>10 DEF Next, SessionCall

Shown(r) == r.found # {} => r.at \in Saw

LEMMA MoveShown ==
  ASSUME ScopeInv, FoundFine, NEW q \in Requests, NEW new, Shown(new), Move(q, new)
  PROVE  FoundFine'
<1>1. DOMAIN request = Requests
  BY DEF ScopeInv, RequestsFine
<1>2. \A p \in Requests : request'[p] = IF p = q THEN new ELSE request[p]
  BY <1>1 DEF Move
<1> QED BY <1>2 DEF FoundFine, Shown

LEMMA IdleShown == Shown(Idle)
BY DEF Shown, Idle

LEMMA RememberShown ==
  ASSUME ScopeInv, FoundFine, NEW q \in Requests, NEW next, Shown(next), Remember(q, next)
  PROVE  FoundFine'
BY MoveShown, IdleShown DEF Remember

LEMMA AgentShown ==
  ASSUME ScopeInv, FoundFine, NEW q \in Requests, AgentCall(q)
  PROVE  FoundFine'
<1>1. PICK o : o = request[q]
  OBVIOUS
<1>2. o \in RequestRow /\ Shown(o)
  BY <1>1 DEF ScopeInv, RequestsFine, FoundFine, Shown
<1>3. CASE \E p \in Servers, d \in Digests, path \in Paths, x \in Resources \cup {None} : Admit(q, p, d, path, x)
  <2>1. PICK p \in Servers, d \in Digests, path \in Paths, x \in Resources \cup {None} : Admit(q, p, d, path, x)
    BY <1>3
  <2> DEFINE new == [Idle EXCEPT !.at = "admitted", !.server = p, !.path = path, !.on = x, !.digest = d]
  <2>2. Shown(new)
    BY DEF Shown, Idle
  <2>3. Move(q, new)
    BY <2>1 DEF Admit
  <2> QED BY <2>2, <2>3, MoveShown
<1>4. CASE Prime(q)
  <2> DEFINE new == [o EXCEPT !.at = "primed", !.digest = None]
  <2>1. o.at = "admitted" /\ Move(q, new)
    BY <1>1, <1>4 DEF Prime
  <2>2. new.found = {}
    BY <1>2, <2>1 DEF RequestRow, Shown, Saw
  <2> QED BY <2>1, <2>2, MoveShown DEF Shown
<1>5. CASE Resolve(q)
  <2>1. o.at = "primed" /\ o.found = {}
    BY <1>1, <1>2, <1>5 DEF Resolve, Shown, Saw
  <2>2. \E new : Move(q, new) /\ Shown(new)
    <3>1. CASE \E s \in Digests : Move(q, [o EXCEPT !.at = "call", !.scope = s])
      <4>1. PICK s \in Digests : Move(q, [o EXCEPT !.at = "call", !.scope = s])
        BY <3>1
      <4>2. [o EXCEPT !.at = "call", !.scope = s].found = {}
        BY <1>2, <2>1 DEF RequestRow
      <4> QED BY <4>1, <4>2 DEF Shown
    <3>2. CASE Move(q, [o EXCEPT !.at = "list", !.todo = Mine])
      <4>1. [o EXCEPT !.at = "list", !.todo = Mine].found = {}
        BY <1>2, <2>1 DEF RequestRow
      <4> QED BY <3>2, <4>1 DEF Shown
    <3>3. CASE Move(q, [o EXCEPT !.at = "probe", !.todo = Mine])
      <4>1. [o EXCEPT !.at = "probe", !.todo = Mine].found = {}
        BY <1>2, <2>1 DEF RequestRow
      <4> QED BY <3>3, <4>1 DEF Shown
    <3>4. Mine \subseteq Digests /\ Defaults(Account) \subseteq Digests
      BY DEF ScopeInv, World, WorldTypes, Mine, Defaults, Owned
    <3> QED BY <1>1, <1>5, <3>1, <3>2, <3>3, <3>4 DEF Resolve
  <2> QED BY <2>2, MoveShown
<1>6. CASE Probe(q)
  <2>1. o.at = "probe" /\ o.found = {}
    BY <1>1, <1>2, <1>6 DEF Probe, Shown, Saw
  <2>2. PICK s \in o.todo :
          \/ \E found \in SUBSET Resources :
               Move(q, [o EXCEPT !.at = "probed", !.scope = s, !.found = found, !.todo = {}])
          \/ Move(q, [o EXCEPT !.todo = @ \ {s}])
    <3>1. \A F \in SUBSET {y \in Live : Home[y] = Home[o.on]} : F \in SUBSET Resources
      BY DEF Live
    <3> QED BY <1>1, <1>6, <3>1 DEF Probe
  <2>3. CASE \E found \in SUBSET Resources :
               Move(q, [o EXCEPT !.at = "probed", !.scope = s, !.found = found, !.todo = {}])
    <3>1. PICK found \in SUBSET Resources :
            Move(q, [o EXCEPT !.at = "probed", !.scope = s, !.found = found, !.todo = {}])
      BY <2>3
    <3>2. [o EXCEPT !.at = "probed", !.scope = s, !.found = found, !.todo = {}].at = "probed"
      BY <1>2 DEF RequestRow
    <3>3. Shown([o EXCEPT !.at = "probed", !.scope = s, !.found = found, !.todo = {}])
      BY <3>2 DEF Shown, Saw
    <3> QED BY <3>1, <3>3, MoveShown
  <2>4. CASE Move(q, [o EXCEPT !.todo = @ \ {s}])
    <3>1. [o EXCEPT !.todo = @ \ {s}].found = {}
      BY <1>2, <2>1 DEF RequestRow
    <3> QED BY <2>4, <3>1, MoveShown DEF Shown
  <2> QED BY <2>2, <2>3, <2>4
<1>7. CASE Ask(q)
  <2>1. PICK found \in SUBSET Resources : Move(q, [o EXCEPT !.at = "answered", !.found = found])
    BY <1>1, <1>7 DEF Ask
  <2>2. [o EXCEPT !.at = "answered", !.found = found].at = "answered"
    BY <1>2 DEF RequestRow
  <2>3. Shown([o EXCEPT !.at = "answered", !.found = found])
    BY <2>2 DEF Shown, Saw
  <2> QED BY <2>1, <2>3, MoveShown
<1>8. CASE Take(q)
  <2> DEFINE new == [o EXCEPT !.at = "call", !.found = {}]
  <2>1. new.found = {}
    BY <1>2 DEF RequestRow
  <2>2. Shown(new)
    BY <2>1 DEF Shown
  <2>3. Remember(q, new) \/ Remember(q, Idle)
    BY <1>1, <1>8 DEF Take
  <2> QED BY <2>2, <2>3, RememberShown, IdleShown
<1>9. CASE ListAsk(q)
  <2>1. PICK s \in o.todo, F \in SUBSET Resources :
          Move(q, [o EXCEPT !.at = "listed", !.scope = s, !.todo = @ \ {s}, !.found = F])
    <3>1. \A s \in Digests : {x \in Live : agent[x] = s} \in SUBSET Resources
      BY DEF Live
    <3>2. o.todo \subseteq Digests
      BY <1>2 DEF RequestRow
    <3> QED BY <1>1, <1>9, <3>1, <3>2 DEF ListAsk
  <2>2. [o EXCEPT !.at = "listed", !.scope = s, !.todo = @ \ {s}, !.found = F].at = "listed"
    BY <1>2 DEF RequestRow
  <2>3. Shown([o EXCEPT !.at = "listed", !.scope = s, !.todo = @ \ {s}, !.found = F])
    BY <2>2 DEF Shown, Saw
  <2> QED BY <2>1, <2>3, MoveShown
<1>10. CASE ListTake(q)
  <2> DEFINE next == IF o.todo = {} THEN Idle ELSE [o EXCEPT !.at = "list", !.found = {}]
  <2>1. [o EXCEPT !.at = "list", !.found = {}].found = {}
    BY <1>2 DEF RequestRow
  <2>2. Shown(next)
    BY <2>1, IdleShown DEF Shown
  <2>3. Remember(q, next) \/ Move(q, next)
    BY <1>1, <1>10 DEF ListTake
  <2> QED BY <2>2, <2>3, RememberShown, MoveShown
<1>11. CASE Abandon(q)
  BY <1>11, MoveShown, IdleShown DEF Abandon
<1> QED BY <1>3, <1>4, <1>5, <1>6, <1>7, <1>8, <1>9, <1>10, <1>11 DEF AgentCall

LEMMA FoundSteps ==
  ASSUME ScopeInv, FoundFine, [Next]_serverVars
  PROVE  FoundFine'
<1>1. ASSUME request' = request
      PROVE  FoundFine'
  BY <1>1 DEF FoundFine
<1>2. CASE \E q \in Requests : AgentCall(q)
  BY <1>2, AgentShown
<1>3. CASE UNCHANGED serverVars
  BY <1>1, <1>3 DEF serverVars
<1>4. CASE StoreStep
  BY <1>1, <1>4 DEF StoreStep
<1>5. CASE \E q \in Requests, p \in Servers : EnterLogin(q, p)
  <2>1. PICK q \in Requests, p \in Servers : Move(q, [Idle EXCEPT !.at = "login", !.server = p])
    BY <1>5 DEF EnterLogin
  <2>2. Shown([Idle EXCEPT !.at = "login", !.server = p])
    BY DEF Shown, Idle
  <2> QED BY <2>1, <2>2, MoveShown
<1>6. CASE \E q \in Requests, d \in Digests, age \in Ages, t \in Started : FinishLogin(q, d, age, t)
  BY <1>6, MoveShown, IdleShown DEF FinishLogin
<1>7. CASE \E p \in Servers, d \in Digests, t \in Started : Logout(p, d, t)
  BY <1>1, <1>7 DEF Logout
<1>8. CASE \E p \in Servers : EphemeralEnds(p)
  BY <1>1, <1>8 DEF EphemeralEnds
<1>9. CASE \E p \in Servers : Restart(p)
  <2>1. PICK p \in Servers : request' = [q \in Requests |-> IF request[q].server = p THEN Idle ELSE request[q]]
    BY <1>9 DEF Restart
  <2>2. \A q \in Requests : request'[q] \in {Idle, request[q]}
    BY <2>1
  <2> QED BY <2>2, IdleShown DEF FoundFine, Shown
<1> QED BY <1>2, <1>3, <1>4, <1>5, <1>6, <1>7, <1>8, <1>9 DEF Next, SessionCall

-----------------------------------------------------------------------------
ServerInv == ScopeInv /\ SessionsFine /\ DeliveryFine /\ ReceiptsFine /\ AttemptsFine /\ FoundFine

LEMMA ServerInit == Init => ServerInv
<1> SUFFICES ASSUME Init
             PROVE  ServerInv
  OBVIOUS
<1>1. ScopeInv /\ SessionsFine /\ DeliveryFine
  BY InitWorld, SessionsInit, DeliveryInit
<1>2. ReceiptsFine
  <2>1. receipts = [a \in Accounts |-> <<>>]
    BY DEF Init
  <2>2. Lists({})
    BY <2>1 DEF Lists
  <2>3. \A a \in Accounts : receipts[a] = <<>> /\ Len(receipts[a]) = 0
    BY <2>1
  <2>4. \E S : Lists(S)
    BY <2>2
  <2> QED BY <2>3, <2>4, IndexAssumption DEF ReceiptsFine
<1>3. AttemptsFine
  BY ServerAssumption DEF Init, AttemptsFine
<1>4. FoundFine
  BY DEF Init, FoundFine, Idle
<1> QED BY <1>1, <1>2, <1>3, <1>4 DEF ServerInv

LEMMA ServerSteps ==
  ASSUME ServerInv, [Next]_serverVars
  PROVE  ServerInv'
<1>1. ScopeInv' /\ SessionsFine' /\ DeliveryFine'
  BY NextWorld, SessionsSteps, DeliverySteps DEF ServerInv, ScopeInv, World
<1>2. ReceiptsFine'
  BY NextFiles, FilesFine, NextTurns, AccountsStay DEF ServerInv, ScopeInv, World
<1> QED BY <1>1, <1>2, AttemptsSteps, FoundSteps DEF ServerInv

LEMMA ServerTypes == ServerInv => TypeOK
<1> SUFFICES ASSUME ServerInv
             PROVE  TypeOK
  OBVIOUS
<1>1. /\ now \in 0 .. MaxTime
      /\ accounts \in [Accounts -> Identities \cup {None}]
      /\ sessions \in [Digests -> SessionRow \cup {None}]
      /\ scopes \in [Digests -> ScopeRow \cup {None}]
      /\ bindings \in [Resources -> BindingRow \cup {None}]
      /\ threads \in [Threads -> ThreadRow \cup {None}]
      /\ cursors \in [Runs -> CursorRow \cup {None}]
  BY DEF ServerInv, ScopeInv, World, WorldTypes, SessionsFine, DeliveryFine
<1>2. ASSUME NEW a \in Accounts, Exists(a)
      PROVE  Cardinality({s \in Owned(scopes, a) : scopes[s].kind # "legacy_session"}) = 1
  <2>1. PICK s \in Owned(scopes, a) : scopes[s].kind # "legacy_session"
    BY <1>2 DEF ServerInv, ScopeInv, World, ScopesFine, HasDefault
  <2>2. {u \in Owned(scopes, a) : scopes[u].kind # "legacy_session"} = {s}
    BY <2>1 DEF ServerInv, ScopeInv, World, ScopesFine
  <2> QED BY <2>2, FS_Singleton
<1>3. \A x \in Resources : bindings[x] # None => bindings[x].scope \in Owned(scopes, bindings[x].owner)
  <2> SUFFICES ASSUME NEW x \in Resources, bindings[x] # None
               PROVE  bindings[x].scope \in Owned(scopes, bindings[x].owner)
    OBVIOUS
  <2>1. bindings[x] = [owner |-> Account, scope |-> agent[x]] /\ agent[x] \in Owned(scopes, Account)
    BY DEF ServerInv, ScopeInv, World, BindingsFine, Mine
  <2>2. bindings[x].owner = Account /\ bindings[x].scope = agent[x]
    BY <2>1
  <2> QED BY <2>1, <2>2
<1>4. /\ \A d \in Digests : sessions[d] # None =>
           /\ Exists(sessions[d].owner)
           /\ sessions[d].created <= now /\ sessions[d].expires - sessions[d].created \in Ages
      /\ \A s \in Digests : scopes[s] # None => Exists(scopes[s].owner)
      /\ \A x \in Threads : threads[x] # None => Exists(threads[x].owner)
      /\ \A r \in Runs : cursors[r] # None => cursors[r].thread \in Owned(threads, cursors[r].owner)
      /\ \A a \in Accounts :
           /\ Len(receipts[a]) <= MaxReceipts
           /\ receipts[a] # <<>> => Exists(a)
           /\ Cardinality(Owned(sessions, a)) <= MaxSessions
  BY DEF ServerInv, ScopeInv, World, ScopesFine, SessionsFine, DeliveryFine, OwnersThere, ThreadOfCursor,
         ReceiptsFine
<1>5. IndexTypeOK
  BY <1>1, <1>2, <1>3, <1>4 DEF IndexTypeOK
<1>6. \A p \in Servers : attempts[p].count \in 0 .. MaxAttempts
  BY DEF ServerInv, AttemptsFine
<1>7. ASSUME NEW q \in Requests, request[q].found # {}
      PROVE  request[q].scope \in Digests
  <2>1. request[q].at \in Saw /\ request[q] \in RequestRow
    BY <1>7 DEF ServerInv, FoundFine, ScopeInv, RequestsFine
  <2>2. RowFine(request[q])
    BY <2>1 DEF ServerInv, ScopeInv, RequestsFine, Stands
  <2> QED BY <2>1, <2>2 DEF RowFine
<1> QED BY <1>5, <1>6, <1>7 DEF TypeOK, ServerInv, ScopeInv, RequestsFine

\* Every table keeps its columns and references, every account one default scope and no
\* more sessions and receipts than it may have, and every process its limit of attempts.
THEOREM TypeCorrect == Spec => []TypeOK
<1>1. Init => ServerInv
  BY ServerInit
<1>2. ServerInv /\ [Next]_serverVars => ServerInv'
  BY ServerSteps
<1>3. ServerInv => TypeOK
  BY ServerTypes
<1> QED BY <1>1, <1>2, <1>3, PTL DEF Spec

-----------------------------------------------------------------------------
(* The latch.                                                              *)

Held == {s \in Slot : held[s] # "none"}

\* What makes DrainedIsIdle inductive: an answer stands only while the closure
\* it was given for does, a drain that was woken either finds nothing active or
\* has lost its closure, and no generation is drawn twice.
Drawn(c) == c # NoClosure => c.generation <= closes

LatchInv ==
  /\ state = "open" <=> closure = NoClosure
  /\ drained => closure \in answered
  /\ closure \in answered => active = 0
  /\ Drawn(closure) /\ Drawn(marker) /\ Drawn(durable)
  /\ \A c \in answered : c.generation <= closes
  /\ \A r \in Request : drains[r] # NoDrain =>
       /\ drains[r].closure.generation <= closes
       /\ drains[r].step = "resumed" /\ closure = drains[r].closure => active = 0
  /\ ~up => active = 0 /\ drains = [r \in Request |-> NoDrain] /\ closure = NoClosure

LatchIInv == LatchTypeOK /\ CountIsExact /\ LatchInv

LEMMA HeldFinite == IsFiniteSet(Held)
<1>1. Held \in SUBSET Slot
  BY DEF Held
<1> QED BY <1>1, SlotAssumption, FS_Subset

\* The count is zero exactly when nobody holds a lease.
LEMMA IdleCount ==
  ASSUME CountIsExact
  PROVE  active = 0 <=> \A s \in Slot : held[s] = "none"
<1>1. active = Cardinality(Held)
  BY DEF CountIsExact, Held
<1>2. Cardinality(Held) = 0 <=> Held = {}
  BY HeldFinite, FS_EmptySet
<1> QED BY <1>1, <1>2 DEF Held

LEMMA CreateLeaseType ==
  ASSUME LatchIInv, NEW s \in Slot, NEW kind \in {"request", "generation"}, CreateLease(s, kind)
  PROVE  LatchTypeOK' /\ CountIsExact' /\ active' = active + 1
<1>1. LatchTypeOK' /\ active' = active + 1
  BY DEF LatchIInv, LatchTypeOK, CreateLease, memory, disk
<1>2. Held' = Held \cup {s} /\ s \notin Held
  BY DEF LatchIInv, LatchTypeOK, CreateLease, Held
<1>3. Cardinality(Held') = Cardinality(Held) + 1
  BY <1>2, HeldFinite, FS_AddElement
<1> QED BY <1>1, <1>3 DEF LatchIInv, CountIsExact, Held

\* Under a closure nothing is created unless something is active already.
LEMMA CreateLeaseLatch ==
  ASSUME LatchIInv, NEW s \in Slot, NEW kind \in {"request", "generation"}, CreateLease(s, kind),
         up, state = "open" \/ active # 0
  PROVE  LatchInv'
<1>1. UNCHANGED <<up, state, closure, drained, drains, marker, durable, closes, answered>>
  BY DEF CreateLease, memory, disk
<1>2. CASE state = "open"
  <2>1. closure = NoClosure /\ closure \notin answered
    BY <1>2, NullAssumption DEF LatchIInv, LatchInv, LatchTypeOK
  <2>2. \A r \in Request : drains[r] # NoDrain => drains[r].closure # NoClosure
    BY NullAssumption DEF LatchIInv, LatchTypeOK, Drain
  <2> QED BY <1>1, <2>1, <2>2 DEF LatchIInv, LatchInv, Drawn
<1>3. CASE active # 0
  BY <1>1, <1>3 DEF LatchIInv, LatchInv, Drawn
<1> QED BY <1>2, <1>3

LEMMA WokenType ==
  ASSUME NEW ds \in [Request -> Drain \cup {NoDrain}]
  PROVE  /\ Woken(ds) \in [Request -> Drain \cup {NoDrain}]
         /\ \A r \in Request : /\ Woken(ds)[r] # NoDrain => ds[r] # NoDrain
                               /\ Woken(ds)[r] # NoDrain => Woken(ds)[r].closure = ds[r].closure
BY DEF Woken, Drain

LEMMA ReleaseStep ==
  ASSUME LatchIInv, NEW s \in Slot, Release(s)
  PROVE  LatchIInv'
<1>1. s \in Held /\ Held' = Held \ {s}
  BY DEF LatchIInv, LatchTypeOK, Release, Held
<1>2. Cardinality(Held') = Cardinality(Held) - 1
  BY <1>1, HeldFinite, FS_RemoveElement
<1>3. active # 0 /\ active' = active - 1 /\ active' \in Nat
  BY <1>1, IdleCount DEF LatchIInv, LatchTypeOK, Release, Held
<1>4. CountIsExact'
  BY <1>2, <1>3 DEF LatchIInv, CountIsExact, Held
<1>5. LatchTypeOK'
  BY <1>3, WokenType DEF LatchIInv, LatchTypeOK, Release, memory, disk
<1>6. LatchInv'
  <2>1. UNCHANGED <<up, state, closure, drained, marker, durable, closes, answered>> /\ up
    BY DEF Release, memory, disk
  <2>2. closure \notin answered /\ ~drained
    BY <1>3 DEF LatchIInv, LatchInv
  <2>3. CASE active' = 0
    <3>1. drains' = Woken(drains)
      BY <2>3 DEF Release
    <3>2. \A r \in Request : drains'[r] # NoDrain =>
            drains[r] # NoDrain /\ drains'[r].closure = drains[r].closure
      BY <3>1, WokenType DEF LatchIInv, LatchTypeOK
    <3> QED BY <2>1, <2>2, <2>3, <3>2 DEF LatchIInv, LatchInv, Drawn
  <2>4. CASE active' # 0
    BY <1>3, <2>1, <2>2, <2>4 DEF LatchIInv, LatchInv, Drawn, Release
  <2> QED BY <2>3, <2>4
<1> QED BY <1>4, <1>5, <1>6 DEF LatchIInv

\* A fresh closure has no answer and no drain.
LEMMA CloseStep ==
  ASSUME LatchIInv, NEW c \in Closure, CloseMemory(c), marker' \in {marker, c},
         durable' \in {durable, c}, acked' \in {acked, c}
  PROVE  LatchIInv'
<1>1. closes \in Nat /\ closes' = closes + 1 /\ c.generation = closes + 1 /\ c.generation \in 1 .. MaxCloses
  BY DEF LatchIInv, LatchTypeOK, CloseMemory, Closure
<1>2. LatchTypeOK'
  <2>1. closes' \in 0 .. MaxCloses
    BY <1>1, BoundAssumption
  <2>2. UNCHANGED <<up, reopenable, active, held, drains, answered>>
    BY DEF CloseMemory
  <2>3. state' = "closed" /\ closure' = c /\ drained' = FALSE
    BY DEF CloseMemory
  <2> QED BY <2>1, <2>2, <2>3 DEF LatchIInv, LatchTypeOK
<1>3. CountIsExact'
  BY DEF LatchIInv, CountIsExact, CloseMemory
<1>4. c \notin answered /\ c # NoClosure
  BY <1>1, NullAssumption DEF LatchIInv, LatchInv, Closure
<1>5. \A d \in Closure : d.generation \in Nat
  BY DEF Closure
<1>6. LatchInv'
  <2>1. /\ up /\ up' /\ ~drained' /\ state' = "closed" /\ closure' = c
        /\ UNCHANGED <<active, drains, answered>>
    BY DEF CloseMemory
  <2>2. \A d \in answered : d.generation <= closes'
    BY <1>1, <1>5 DEF LatchIInv, LatchInv, LatchTypeOK
  <2>3. \A r \in Request : drains[r] # NoDrain =>
          drains[r].closure.generation <= closes' /\ drains[r].closure # c
    BY <1>1, <1>5 DEF LatchIInv, LatchInv, LatchTypeOK, Drain
  <2>4. Drawn(closure)' /\ Drawn(marker)' /\ Drawn(durable)'
    BY <1>1, <1>5, <2>1 DEF LatchIInv, LatchInv, LatchTypeOK, Drawn
  <2> QED BY <1>4, <2>1, <2>2, <2>3, <2>4 DEF LatchInv
<1> QED BY <1>2, <1>3, <1>6 DEF LatchIInv

\* The process is gone, whatever the disk keeps.
LEMMA DieStep ==
  ASSUME LatchIInv, Die, marker' \in {marker, durable}, durable' \in {marker, durable}
  PROVE  LatchIInv'
<1>1. LatchTypeOK'
  BY DEF LatchIInv, LatchTypeOK, Die
<1>2. Held' = {} /\ active' = 0
  BY DEF Die, Held
<1>3. CountIsExact'
  BY <1>2, FS_EmptySet DEF CountIsExact, Held
<1>4. LatchInv'
  BY NullAssumption DEF LatchIInv, LatchInv, LatchTypeOK, Die, Drawn
<1> QED BY <1>1, <1>3, <1>4 DEF LatchIInv

\* An answer is given under authority, with nothing active.
LEMMA AnswerStep ==
  ASSUME LatchIInv, NEW c \in Closure, up, ClosedAuthority(c), active = 0, Answer(c),
         NEW ds \in [Request -> Drain \cup {NoDrain}], drains' = ds,
         \A r \in Request : ds[r] # NoDrain => drains[r] = ds[r],
         UNCHANGED <<up, state, closure, reopenable, active, held, disk, closes, acked>>
  PROVE  LatchIInv'
<1>1. LatchTypeOK'
  BY DEF LatchIInv, LatchTypeOK, Answer, disk
<1>2. CountIsExact'
  BY DEF LatchIInv, CountIsExact
<1>3. closure = c /\ c.generation <= closes
  BY NullAssumption DEF LatchIInv, LatchInv, Drawn, ClosedAuthority
<1>4. LatchInv'
  BY <1>3 DEF LatchIInv, LatchInv, Answer, Drawn, disk
<1> QED BY <1>1, <1>2, <1>4 DEF LatchIInv

LEMMA DrainCallStep ==
  ASSUME LatchIInv, NEW r \in Request, NEW c \in Closure, DrainCall(r, c)
  PROVE  LatchIInv'
<1>1. CASE active = 0
  <2>1. Answer(c) /\ drains' = drains
    BY <1>1 DEF DrainCall
  <2>2. drains \in [Request -> Drain \cup {NoDrain}]
    BY DEF LatchIInv, LatchTypeOK
  <2> QED BY <1>1, <2>1, <2>2, AnswerStep DEF DrainCall
<1>2. CASE active # 0
  <2> DEFINE d == [step |-> "waiting", closure |-> c]
  <2>1. /\ drains' = [drains EXCEPT ![r] = d]
        /\ UNCHANGED <<up, state, closure, drained, reopenable, active, held, disk,
                       closes, acked, answered>>
    BY <1>2 DEF DrainCall
  <2>2. d \in Drain /\ d.closure = c /\ d.step # "resumed"
    BY DEF Drain
  <2>3. closure = c /\ c.generation <= closes /\ up
    BY NullAssumption DEF LatchIInv, LatchInv, Drawn, DrainCall, ClosedAuthority
  <2> HIDE DEF d
  <2>4. LatchTypeOK'
    BY <2>1, <2>2 DEF LatchIInv, LatchTypeOK, disk
  <2>5. CountIsExact'
    BY <2>1 DEF LatchIInv, CountIsExact
  <2>6. \A q \in Request : drains'[q] = IF q = r THEN d ELSE drains[q]
    BY <2>1 DEF LatchIInv, LatchTypeOK
  <2>7. LatchInv'
    BY <2>1, <2>2, <2>3, <2>6 DEF LatchIInv, LatchInv, Drawn, disk
  <2> QED BY <2>4, <2>5, <2>7 DEF LatchIInv
<1> QED BY <1>1, <1>2

\* The heart of the argument: a drain resumes with the authority it had only if
\* its closure never ended, and then nothing became active in between.
LEMMA DrainResumeStep ==
  ASSUME LatchIInv, NEW r \in Request, DrainResume(r)
  PROVE  LatchIInv'
<1> DEFINE c == drains[r].closure  ds == [drains EXCEPT ![r] = NoDrain]
<1>1. c \in Closure /\ up /\ drains' = ds /\ drains[r] # NoDrain /\ drains[r].step = "resumed"
  BY DEF LatchIInv, LatchTypeOK, Drain, DrainResume
<1>2. /\ ds \in [Request -> Drain \cup {NoDrain}]
      /\ \A q \in Request : ds[q] # NoDrain => drains[q] = ds[q]
  BY DEF LatchIInv, LatchTypeOK
<1>3. UNCHANGED <<up, state, closure, reopenable, active, held, disk, closes, acked>>
  BY DEF DrainResume
<1>4. CASE ClosedAuthority(c)
  <2>1. active = 0
    BY <1>1, <1>4 DEF LatchIInv, LatchInv, ClosedAuthority
  <2>2. Answer(c)
    BY <1>4 DEF DrainResume
  <2> HIDE DEF c, ds
  <2> QED BY <1>1, <1>2, <1>3, <1>4, <2>1, <2>2, AnswerStep
<1>5. CASE ~ClosedAuthority(c)
  <2>1. UNCHANGED <<drained, answered>>
    BY <1>5 DEF DrainResume
  <2> HIDE DEF ds
  <2>2. LatchTypeOK'
    BY <1>1, <1>2, <1>3, <2>1 DEF LatchIInv, LatchTypeOK, disk
  <2>3. CountIsExact'
    BY <1>3 DEF LatchIInv, CountIsExact
  <2>4. LatchInv'
    BY <1>1, <1>2, <1>3, <2>1 DEF LatchIInv, LatchInv, Drawn, disk
  <2> QED BY <2>2, <2>3, <2>4 DEF LatchIInv
<1> QED BY <1>4, <1>5

LEMMA InvStep == LatchIInv /\ [LatchNext]_latchVars => LatchIInv'
<1> SUFFICES ASSUME LatchIInv, [LatchNext]_latchVars
             PROVE  LatchIInv'
  OBVIOUS
<1>1. ASSUME NEW s \in Slot, NEW kind \in {"request", "generation"}, Acquire(s, kind)
      PROVE  LatchIInv'
  BY <1>1, CreateLeaseType, CreateLeaseLatch DEF Acquire, LatchIInv
<1>2. ASSUME NEW s \in Slot, NEW parent \in Slot, Fork(parent, s)
      PROVE  LatchIInv'
  <2>1. active # 0
    BY <1>2, IdleCount DEF Fork, LatchIInv
  <2> QED BY <1>2, <2>1, CreateLeaseType, CreateLeaseLatch DEF Fork, LatchIInv
<1>3. ASSUME NEW s \in Slot, Release(s)
      PROVE  LatchIInv'
  BY <1>3, ReleaseStep
<1>4. ASSUME NEW c \in Closure, Close(c) \/ CloseFails(c)
      PROVE  LatchIInv'
  BY <1>4, CloseStep DEF Close, CloseFails, disk
<1>5. ASSUME NEW c \in Closure, NEW r \in Request, DrainCall(r, c)
      PROVE  LatchIInv'
  BY <1>5, DrainCallStep
<1>6. ASSUME NEW r \in Request, DrainResume(r)
      PROVE  LatchIInv'
  BY <1>6, DrainResumeStep
<1>7. ASSUME NEW c \in Closure, Reopen(c)
      PROVE  LatchIInv'
  <2>1. LatchTypeOK'
    BY <1>7 DEF Reopen, OpenMemory, LatchIInv, LatchTypeOK
  <2>2. CountIsExact' /\ active' = 0
    BY <1>7 DEF Reopen, MayReopen, LatchIInv, CountIsExact
  <2>3. LatchInv'
    BY <1>7, <2>2, NullAssumption DEF Reopen, MayReopen, OpenMemory, LatchIInv, LatchTypeOK, LatchInv, Drawn
  <2> QED BY <2>1, <2>2, <2>3 DEF LatchIInv
<1>8. ASSUME NEW c \in Closure, ReopenFails(c)
      PROVE  LatchIInv'
  <2>1. LatchTypeOK'
    BY <1>8 DEF ReopenFails, memory, LatchIInv, LatchTypeOK
  <2>2. CountIsExact'
    BY <1>8 DEF ReopenFails, LatchIInv, CountIsExact
  <2>3. LatchInv'
    BY <1>8 DEF ReopenFails, memory, LatchIInv, LatchInv, Drawn
  <2> QED BY <2>1, <2>2, <2>3 DEF LatchIInv
<1>9. ASSUME NEW op \in Operation, CloseAgain(op)
      PROVE  LatchIInv'
  <2>1. LatchTypeOK'
    BY <1>9 DEF CloseAgain, memory, disk, LatchIInv, LatchTypeOK
  <2>2. CountIsExact'
    BY <1>9 DEF CloseAgain, LatchIInv, CountIsExact
  <2>3. LatchInv'
    BY <1>9 DEF CloseAgain, memory, disk, LatchIInv, LatchInv, Drawn
  <2> QED BY <2>1, <2>2, <2>3 DEF LatchIInv
<1>10. CASE Crash
  BY <1>10, DieStep DEF Crash, disk
<1>11. CASE LosePower
  BY <1>11, DieStep DEF LosePower
<1>12. CASE Start
  <2>1. LatchTypeOK'
    BY <1>12 DEF Start, disk, LatchIInv, LatchTypeOK
  <2>2. CountIsExact' /\ active' = 0
    BY <1>12 DEF Start, LatchIInv, CountIsExact, LatchInv
  <2>3. LatchInv'
    BY <1>12, <2>2 DEF Start, disk, LatchIInv, LatchTypeOK, LatchInv, Drawn
  <2> QED BY <2>1, <2>2, <2>3 DEF LatchIInv
<1>13. CASE OfflineRemove
  <2>1. LatchTypeOK'
    BY <1>13 DEF OfflineRemove, memory, LatchIInv, LatchTypeOK
  <2>2. CountIsExact'
    BY <1>13 DEF OfflineRemove, LatchIInv, CountIsExact
  <2>3. LatchInv'
    BY <1>13 DEF OfflineRemove, memory, LatchIInv, LatchInv, Drawn
  <2> QED BY <2>1, <2>2, <2>3 DEF LatchIInv
<1>14. CASE UNCHANGED latchVars
  BY <1>14 DEF latchVars, memory, disk, LatchIInv, LatchTypeOK, CountIsExact, LatchInv, Drawn
<1> QED BY <1>1, <1>2, <1>3, <1>4, <1>5, <1>6, <1>7, <1>8, <1>9, <1>10, <1>11, <1>12,
           <1>13, <1>14 DEF LatchNext

LEMMA InvInit == LatchInit => LatchIInv
<1> SUFFICES ASSUME LatchInit PROVE LatchIInv
  OBVIOUS
<1>1. LatchTypeOK
  <2>1. closes \in 0 .. MaxCloses /\ active \in Nat
    BY BoundAssumption DEF LatchInit
  <2>2. /\ up = TRUE /\ drained = FALSE /\ reopenable = TRUE
        /\ state = "open" /\ closure = NoClosure /\ marker = NoClosure
        /\ durable = NoClosure /\ acked = NoClosure /\ answered = {}
    BY DEF LatchInit
  <2>3. /\ held \in [Slot -> {"none", "request", "generation"}]
        /\ drains \in [Request -> Drain \cup {NoDrain}]
    BY DEF LatchInit
  <2> QED BY <2>1, <2>2, <2>3 DEF LatchTypeOK
<1>2. Held = {}
  BY DEF LatchInit, Held
<1>3. CountIsExact
  BY <1>2, FS_EmptySet DEF LatchInit, CountIsExact, Held
<1>4. LatchInv
  BY DEF LatchInit, LatchInv, Drawn
<1> QED BY <1>1, <1>3, <1>4 DEF LatchIInv

\* The inductive invariant of the latch: counts, leases, waiting drains, answered closures
\* and the durable marker agree.
THEOREM LatchInductive == LatchSpec => []LatchIInv
BY InvInit, InvStep, PTL DEF LatchSpec

\* The latch's variables stay in their domains; its count never underflows.
THEOREM LatchTypeCorrect == LatchSpec => []LatchTypeOK
<1>1. LatchIInv => LatchTypeOK
  BY DEF LatchIInv
<1> QED BY <1>1, LatchInductive, PTL

\* release counts every lease exactly once.
THEOREM CountAlwaysExact == LatchSpec => []CountIsExact
<1>1. LatchIInv => CountIsExact
  BY DEF LatchIInv
<1> QED BY <1>1, LatchInductive, PTL

\* What drain answered is true when it answers and stays true until the
\* closure ends, whatever runs between a release and the drain it wakes.
THEOREM DrainedAlwaysIdle == LatchSpec => []DrainedIsIdle
<1>1. LatchIInv => DrainedIsIdle
  BY IdleCount DEF LatchIInv, LatchInv, DrainedIsIdle
<1> QED BY <1>1, LatchInductive, PTL

\* Reopening is the end of an answered drain of the same closure.
THEOREM ReopensOnlyDrainedAlways == LatchSpec => ReopensOnlyDrained
<1>1. LatchIInv /\ [LatchNext]_latchVars =>
        [up /\ up' /\ state = "closed" /\ state' = "open" =>
           closure \in answered /\ active = 0]_latchVars
  <2> SUFFICES ASSUME LatchIInv, LatchNext, up, up', state = "closed", state' = "open"
               PROVE  closure \in answered /\ active = 0
    BY DEF latchVars
  <2>1. \E c \in Closure : MayReopen(c)
    BY DEF LatchNext, Acquire, Fork, CreateLease, Release, Close, CloseFails, CloseMemory,
           CloseAgain, DrainCall, DrainResume, Reopen, ReopenFails, Crash, LosePower, Die,
           Start, OfflineRemove, memory
  <2> QED BY <2>1 DEF MayReopen, LatchIInv, LatchInv
<1> QED BY <1>1, LatchInductive, PTL DEF LatchSpec, ReopensOnlyDrained

\* An open process has no marker behind its back.
THEOREM OpenNeverLeavesMarker == LatchSpec => []OpenLeavesNoMarker
<1>1. LatchInit => OpenLeavesNoMarker
  BY DEF LatchInit, OpenLeavesNoMarker
<1>2. OpenLeavesNoMarker /\ [LatchNext]_latchVars => OpenLeavesNoMarker'
  BY DEF OpenLeavesNoMarker, LatchNext, latchVars, Acquire, Fork, CreateLease, Release, Close, CloseFails,
         CloseMemory, CloseAgain, DrainCall, DrainResume, Reopen, OpenMemory, ReopenFails,
         MayReopen, ClosedAuthority, Crash, LosePower, Die, Start, OfflineRemove, memory, disk
<1> QED BY <1>1, <1>2, PTL DEF LatchSpec

\* Without power loss an acknowledged close holds through every crash.
THEOREM AckedCloseAlwaysHolds ==
  ASSUME ~PowerLoss
  PROVE  LatchSpec => []AckedCloseHolds
<1>1. LatchInit => AckedCloseHolds
  BY DEF LatchInit, AckedCloseHolds
<1>2. AckedCloseHolds /\ [LatchNext]_latchVars => AckedCloseHolds'
  <2> SUFFICES ASSUME AckedCloseHolds, [LatchNext]_latchVars
               PROVE  AckedCloseHolds'
    OBVIOUS
  <2>1. ASSUME NEW c \in Closure, Close(c) \/ CloseFails(c)
        PROVE  AckedCloseHolds'
    BY <2>1 DEF AckedCloseHolds, Close, CloseFails, CloseMemory
  <2>2. ASSUME NEW op \in Operation, CloseAgain(op)
        PROVE  AckedCloseHolds'
    BY <2>2 DEF AckedCloseHolds, CloseAgain, memory, disk
  <2>3. ASSUME NEW c \in Closure, Reopen(c) \/ ReopenFails(c)
        PROVE  AckedCloseHolds'
    BY <2>3 DEF AckedCloseHolds, Reopen, ReopenFails
  <2>4. CASE Crash \/ LosePower \/ Start \/ OfflineRemove
    BY <2>4 DEF AckedCloseHolds, Crash, LosePower, Die, Start, OfflineRemove, disk
  <2>5. ASSUME NEW s \in Slot,
               \/ \E kind \in {"request", "generation"} : Acquire(s, kind)
               \/ \E parent \in Slot : Fork(parent, s)
               \/ Release(s)
        PROVE  AckedCloseHolds'
    BY <2>5 DEF AckedCloseHolds, Acquire, Fork, CreateLease, Release, memory, disk
  <2>6. ASSUME NEW r \in Request, DrainResume(r) \/ \E c \in Closure : DrainCall(r, c)
        PROVE  AckedCloseHolds'
    BY <2>6 DEF AckedCloseHolds, DrainResume, DrainCall, disk
  <2>7. CASE UNCHANGED latchVars
    BY <2>7 DEF AckedCloseHolds, latchVars, memory, disk
  <2> QED BY <2>1, <2>2, <2>3, <2>4, <2>5, <2>6, <2>7 DEF LatchNext
<1> QED BY <1>1, <1>2, PTL DEF LatchSpec
=============================================================================
