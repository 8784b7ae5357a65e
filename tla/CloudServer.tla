----------------------------- MODULE CloudServer -----------------------------
(***************************************************************************)
(* The handlers of src/src/cloud-server.js over the control-plane store:   *)
(* login, logout and the sessions a process keeps in memory, and the Agent *)
(* routes, which find out under which scope AgInTi knows a resource before *)
(* they call it, and bind what its answers mention.                        *)
(*                                                                         *)
(* A handler runs in any process.  Its store calls and its awaits of       *)
(* AgInTi are steps of their own; at any of them it may end: refused, timed*)
(* out, left by its client, or dead with its process.  AgInTi is external: *)
(* what a digest may see, and an answer that says what it saw.             *)
(***************************************************************************)
EXTENDS CloudIndex

CONSTANTS
  Account,                 \* the one account of the service
  Servers, Requests,
  Home,                    \* the Agent thread a resource belongs to
  MaxAttempts, MaxLogins,  \* loginAttemptsPerMinute, concurrentLoginsPerSource
  Window                   \* the minute they are counted in

ASSUME ServerAssumption ==
  /\ Account \in Accounts /\ MaxAttempts \in Nat /\ MaxLogins \in Nat /\ Window \in Nat
  /\ Home \in [Resources -> Resources] /\ \A x \in Resources : Home[Home[x]] = Home[x]
  /\ None \notin Resources

VARIABLES
  request,    \* where every request stands
  ephemeral,  \* ephemeralSessions of every process, which holds at most one
  attempts,   \* #attempts of every process, for the one address of the model
  agent,      \* AgInTi: the digest a resource was made under
  deleted     \* AgInTi: the resources whose thread was deleted

agentVars == <<agent, deleted>>
serverVars == <<indexVars, request, ephemeral, attempts, agentVars>>

Idle == [at |-> "idle", server |-> None, path |-> None, on |-> None, digest |-> None,
         scope |-> None, todo |-> {}, found |-> {}]

Move(q, r) == request' = [request EXCEPT ![q] = r]

-----------------------------------------------------------------------------
(* Sessions.                                                               *)

\* LoginAdmission.enter: a window is counted from its first attempt.
Counted(p) ==
  IF now - attempts[p].start >= Window THEN [start |-> now, count |-> 0] ELSE attempts[p]

\* handleLogin, until the password is verified.
EnterLogin(q, p) ==
  /\ request[q] = Idle
  /\ Counted(p).count < MaxAttempts
  /\ Cardinality({o \in Requests : request[o].at = "login" /\ request[o].server = p}) < MaxLogins
  /\ attempts' = [attempts EXCEPT ![p] = [Counted(p) EXCEPT !.count = @ + 1]]
  /\ Move(q, [Idle EXCEPT !.at = "login", !.server = p])
  /\ UNCHANGED <<indexVars, ephemeral, agentVars>>

\* opaqueToken: a digest that is nowhere.
Fresh(d) ==
  /\ sessions[d] = None /\ scopes[d] = None
  /\ \A p \in Servers : ephemeral[p].digest # d
  /\ \A q \in Requests : request[q].digest # d
  /\ \A r \in ToSet(receipts[Account]) : r.call.on # d

NoEphemeral == [digest |-> None, expires |-> 0]

\* An ephemeral session takes the place of the one its process had.
FinishLogin(q, d, age, t) ==
  /\ request[q].at = "login" /\ Exists(Account) /\ Fresh(d)
  /\ \/ /\ CreateBrowserSession(Account, d, age, d, t)
        /\ UNCHANGED ephemeral
     \/ /\ ephemeral' = [ephemeral EXCEPT ![request[q].server] =
                           [digest |-> d, expires |-> now + age]]
        /\ UNCHANGED indexVars
  /\ Move(q, Idle)
  /\ UNCHANGED <<attempts, agentVars>>

\* authenticate: the process's own memory first, then the store.
Authenticated(p, d) ==
  IF ephemeral[p].digest = d THEN ephemeral[p].expires > now ELSE Authenticates(Account, d)

Logout(p, d, t) ==
  /\ Authenticated(p, d)
  /\ IF ephemeral[p].digest = d
     THEN ephemeral' = [ephemeral EXCEPT ![p] = NoEphemeral] /\ UNCHANGED indexVars
     ELSE RevokeBrowserSession(Account, d, d, t) /\ UNCHANGED ephemeral
  /\ UNCHANGED <<request, attempts, agentVars>>

\* The timer, or the first authentication after the end.
EphemeralEnds(p) ==
  /\ ephemeral[p].digest # None /\ ephemeral[p].expires <= now
  /\ ephemeral' = [ephemeral EXCEPT ![p] = NoEphemeral]
  /\ UNCHANGED <<indexVars, request, attempts, agentVars>>

\* The process dies, and one that starts in its place opens the store.
Restart(p) ==
  /\ PruneExpiredState(now)
  /\ request' = [q \in Requests |-> IF request[q].server = p THEN Idle ELSE request[q]]
  /\ ephemeral' = [ephemeral EXCEPT ![p] = NoEphemeral]
  /\ attempts' = [attempts EXCEPT ![p] = [start |-> now, count |-> 0]]
  /\ UNCHANGED agentVars

-----------------------------------------------------------------------------
(* Agent routes.                                                           *)

Paths == {"threads.create", "threads.list", "threads.delete", "runs.start", "read"}

Live == {x \in Resources : agent[x] # None /\ x \notin deleted}
IsThread(x) == Home[x] = x
Mine == Owned(scopes, Account)

\* The request is authenticated and its body read.
Admit(q, p, d, path, x) ==
  /\ request[q] = Idle /\ Authenticated(p, d)
  /\ IF path \in {"threads.create", "threads.list"} THEN x = None
     ELSE x \in Resources /\ (path # "read" => IsThread(x))
  /\ Move(q, [Idle EXCEPT !.at = "admitted", !.server = p, !.path = path, !.on = x, !.digest = d])
  /\ UNCHANGED <<indexVars, ephemeral, attempts, agentVars>>

\* primeAgentAuthority
Prime(q) ==
  /\ request[q].at = "admitted"
  /\ scopes' = Primed(Account, request[q].digest)
  /\ Move(q, [request[q] EXCEPT !.at = "primed", !.digest = None])
  /\ UNCHANGED <<now, accounts, sessions, bindings, threads, cursors, receipts>>
  /\ UNCHANGED <<ephemeral, attempts, agentVars>>

\* Mutant: two scopes are still taken for one.
ResolvedMutantTwoScopes(x, s) ==
  IF bindings[x] # None THEN bindings[x] = [owner |-> Account, scope |-> s]
  ELSE Cardinality(Mine) <= 2 /\ s \in Defaults(Account)

\* resolveAgentResource, without AgInTi: the binding, or the only scope there is.
Resolved(x, s) ==
  IF bindings[x] # None THEN bindings[x] = [owner |-> Account, scope |-> s]
  ELSE Mine = {s}

\* resolveAgentRequestScope and the first lines of listAgentThreadsAcrossScopes
Resolve(q) ==
  LET r == request[q]
  IN /\ r.at = "primed" /\ Defaults(Account) # {}
     /\ \/ /\ r.path = "threads.create"
           /\ \E s \in Defaults(Account) : Move(q, [r EXCEPT !.at = "call", !.scope = s])
        \/ /\ r.path = "threads.list"
           /\ Move(q, [r EXCEPT !.at = "list", !.todo = Mine])
        \/ /\ r.on # None
           /\ \E s \in Mine : Resolved(r.on, s) /\ Move(q, [r EXCEPT !.at = "call", !.scope = s])
        \/ /\ r.on # None /\ bindings[r.on] = None /\ \A s \in Mine : ~Resolved(r.on, s)
           /\ Move(q, [r EXCEPT !.at = "probe", !.todo = Mine])
     /\ UNCHANGED <<indexVars, ephemeral, attempts, agentVars>>

\* probeAgentResource asks under one scope after the other until one sees it.
Probe(q) ==
  LET r == request[q]
  IN /\ r.at = "probe"
     /\ \E s \in r.todo :
          IF r.on \in Live /\ agent[r.on] = s
          THEN \E found \in SUBSET {y \in Live : Home[y] = Home[r.on]} :
                 /\ r.on \in found
                 /\ Move(q, [r EXCEPT !.at = "probed", !.scope = s, !.found = found, !.todo = {}])
          ELSE Move(q, [r EXCEPT !.todo = @ \ {s}])
     /\ UNCHANGED <<indexVars, ephemeral, attempts, agentVars>>

\* AgInTi carries the request out under its scope and answers; a resource the
\* scope does not see is a 404, which ends the request.
Ask(q) ==
  LET r == request[q]
      x == r.on
  IN /\ r.at = "call"
     /\ \E found \in SUBSET Resources :
          /\ \/ /\ r.path = "threads.create"
                /\ \E y \in Resources :
                     /\ IsThread(y) /\ agent[y] = None /\ found = {y}
                     /\ agent' = [agent EXCEPT ![y] = r.scope]
                /\ UNCHANGED deleted
             \/ /\ r.path = "read" /\ x \in Live /\ agent[x] = r.scope
                /\ x \in found /\ found \subseteq {y \in Live : Home[y] = Home[x]}
                /\ UNCHANGED agentVars
             \/ /\ r.path = "runs.start" /\ x \in Live /\ agent[x] = r.scope
                /\ \E y \in Resources :
                     /\ Home[y] = x /\ agent[y] = None /\ found = {x, y}
                     /\ agent' = [agent EXCEPT ![y] = r.scope]
                /\ UNCHANGED deleted
             \/ /\ r.path = "threads.delete" /\ agent[x] = r.scope /\ found = {x}
                /\ deleted' = deleted \cup {y \in Resources : Home[y] = x /\ agent[y] # None}
                /\ UNCHANGED agent
          /\ Move(q, [r EXCEPT !.at = "answered", !.found = found])
     /\ UNCHANGED <<indexVars, ephemeral, attempts>>

\* rememberAgentResponse: each binding is a transaction, and the last may never come.
Remember(q, next) ==
  \E done \in SUBSET request[q].found :
    /\ Bindable(Account, done, request[q].scope)
    /\ bindings' = Bound(Account, done, request[q].scope)
    /\ Move(q, IF done = request[q].found THEN next ELSE Idle)

Take(q) ==
  LET r == request[q]
  IN /\ \/ r.at = "probed" /\ Remember(q, [r EXCEPT !.at = "call", !.found = {}])
        \/ r.at = "answered" /\ Remember(q, Idle)
     /\ UNCHANGED <<now, accounts, sessions, scopes, threads, cursors, receipts>>
     /\ UNCHANGED <<ephemeral, attempts, agentVars>>

\* listAgentThreadsAcrossScopes: AgInTi lists what one scope sees.
ListAsk(q) ==
  LET r == request[q]
  IN /\ r.at = "list"
     /\ \E s \in r.todo :
          Move(q, [r EXCEPT !.at = "listed", !.scope = s, !.todo = @ \ {s},
                            !.found = {x \in Live : agent[x] = s}])
     /\ UNCHANGED <<indexVars, ephemeral, attempts, agentVars>>

\* The answer is remembered, and an old scope that showed nothing is retired.
ListTake(q) ==
  LET r == request[q]
      next == IF r.todo = {} THEN Idle ELSE [r EXCEPT !.at = "list", !.found = {}]
  IN /\ r.at = "listed"
     /\ \/ /\ r.found # {} /\ Remember(q, next)
           /\ UNCHANGED scopes
        \/ /\ r.found = {} /\ Retirable(Account, r.scope) /\ Retire(Account, r.scope)
           /\ Move(q, next)
        \/ /\ r.found = {} /\ ~Retirable(Account, r.scope)
           /\ Move(q, next)
           /\ UNCHANGED <<scopes, bindings>>
     /\ UNCHANGED <<now, accounts, sessions, threads, cursors, receipts>>
     /\ UNCHANGED <<ephemeral, attempts, agentVars>>

\* A refusal, a timeout, a client that left: the request ends where it stands.
Abandon(q) ==
  /\ request[q] # Idle /\ Move(q, Idle)
  /\ UNCHANGED <<indexVars, ephemeral, attempts, agentVars>>

-----------------------------------------------------------------------------
SessionCall ==
  \/ \E q \in Requests, p \in Servers : EnterLogin(q, p)
  \/ \E q \in Requests, d \in Digests, age \in Ages, t \in Started : FinishLogin(q, d, age, t)
  \/ \E p \in Servers, d \in Digests, t \in Started : Logout(p, d, t)
  \/ \E p \in Servers : EphemeralEnds(p) \/ Restart(p)

AgentCall(q) ==
  \/ \E p \in Servers, d \in Digests, path \in Paths, x \in Resources \cup {None} :
       Admit(q, p, d, path, x)
  \/ Prime(q) \/ Resolve(q) \/ Probe(q) \/ Ask(q) \/ Take(q) \/ ListAsk(q) \/ ListTake(q)
  \/ Abandon(q)

StoreStep ==
  /\ (\E t \in Started : StoreCall(t)) \/ Tick
  /\ UNCHANGED <<request, ephemeral, attempts, agentVars>>

\* A database as the second migration left it: the digests of the sessions there
\* were are scopes, under which AgInTi made whatever it had.
Init ==
  /\ now = 0 /\ accounts \in [Accounts -> Identities \cup {None}]
  /\ \A a, b \in Accounts : a # b /\ Exists(a) => accounts[a] # accounts[b]
  /\ \E old \in SUBSET Digests, random \in [Accounts -> Digests] :
       /\ \A a \in Accounts : random[a] \notin old
       /\ \A a, b \in Accounts : a # b => random[a] # random[b]
       /\ Cardinality(old) <= MaxSessions /\ (old # {} => Exists(Account))
       /\ scopes = [s \in Digests |->
            IF s \in old THEN [owner |-> Account, kind |-> "legacy_session"]
            ELSE IF \E a \in Accounts : Exists(a) /\ random[a] = s
            THEN [owner |-> CHOOSE a \in Accounts : random[a] = s,
                  kind |-> IF random[Account] = s /\ old # {} THEN "default_pending" ELSE "default"]
            ELSE None]
       /\ \E kept \in SUBSET old, age \in Ages :
            sessions = [d \in Digests |->
              IF d \in kept THEN [owner |-> Account, created |-> 0, expires |-> age] ELSE None]
       /\ agent \in [Resources -> old \cup {None}]
  /\ \A x \in Resources : agent[x] \in {None, agent[Home[x]]}
  /\ bindings = [x \in Resources |-> None] /\ deleted = {}
  /\ threads = [x \in Threads |-> None] /\ cursors = [r \in Runs |-> None]
  /\ receipts = [a \in Accounts |-> <<>>]
  /\ request = [q \in Requests |-> Idle]
  /\ ephemeral = [p \in Servers |-> NoEphemeral]
  /\ attempts = [p \in Servers |-> [start |-> 0, count |-> 0]]

Next == StoreStep \/ SessionCall \/ \E q \in Requests : AgentCall(q)

Spec == Init /\ [][Next]_serverVars

-----------------------------------------------------------------------------
Steps == {"idle", "login", "admitted", "primed", "call", "probe", "probed", "answered", "list", "listed"}

RequestRow ==
  [at : Steps, server : Servers \cup {None}, path : Paths \cup {None},
   on : Resources \cup {None}, digest : Digests \cup {None}, scope : Digests \cup {None},
   todo : SUBSET Digests, found : SUBSET Resources]

TypeOK ==
  /\ IndexTypeOK
  /\ request \in [Requests -> RequestRow]
  /\ \A p \in Servers : attempts[p].count \in 0 .. MaxAttempts
  /\ \A q \in Requests : request[q].found # {} => request[q].scope \in Digests

LiveReachable ==
  \A x \in Live :
    \/ Resolved(x, agent[x])
    \/ bindings[x] = None /\ agent[x] \in Mine /\ \A s \in Mine : ~Resolved(x, s)
DeletedReachable == \A x \in deleted : IsThread(x) => Resolved(x, agent[x])

\* Wherever an Agent resource was made, before the migration or after, requests find
\* it: it is bound to the scope AgInTi knows it under or that scope is still asked,
\* whatever logins come and go, scopes are adopted or retired, and answers are late
\* (cloud-server.js:1348).  And a delete whose answer was lost is repeated under the
\* scope that carried it out, where its receipt is, though no scope sees the thread
\* any more (cloud-server.js:1254).
AgentsReachable == LiveReachable /\ DeletedReachable

\* Once settled, the default scope of an account never changes: what was made under it
\* is asked for under it, and a repeated create reaches the scope of the first.
DefaultIsStable ==
  [][\A a \in Accounts : Defaults(a) # {} => Defaults(a)' = Defaults(a)]_serverVars
=============================================================================
