--------------------------- MODULE MCCloudServer ---------------------------
(* Instances of CloudServer.  Its three groups of calls touch tables that   *)
(* share no row, so one run explores them side by side, each with room of   *)
(* its own, instead of multiplied.                                          *)
EXTENDS CloudServer

CONSTANTS x1, x2, r1

MCHome == [x \in Resources |-> IF x = r1 THEN x1 ELSE x]

Interchangeable == Permutations(Digests) \cup Permutations(Requests)

\* Where an account is there from the start, which identity it has makes no difference.
There == accounts[Account] = CHOOSE i \in Identities : TRUE

VARIABLE part

MCInit ==
  /\ Init
  /\ \/ /\ part = "store"
        /\ \A a \in Accounts : ~Exists(a)
     \/ /\ part = "sessions" /\ There
        /\ \A a \in Accounts \ {Account} : ~Exists(a)
        /\ \A x \in Resources : agent[x] = None
        /\ \A s \in Digests : scopes[s] # None => scopes[s].kind = "default"
     \/ /\ part = "agents" /\ There
        /\ \A a \in Accounts \ {Account} : ~Exists(a)
        /\ \A d \in Digests : /\ scopes[d] # None /\ scopes[d].kind = "legacy_session" => sessions[d] # None
                              /\ sessions[d] # None => sessions[d].expires = 1

MCNext ==
  /\ \/ part = "store" /\ StoreStep /\ now' <= 1
     \/ part = "sessions" /\ (SessionCall \/ (StoreStep /\ UNCHANGED <<accounts, threads, scopes>>))
     \/ part = "agents" /\ \E q \in Requests :
          \/ (\A o \in Requests : request[o].at # "login") /\ AgentCall(q)
          \/ \E p \in Servers : (\A o \in Requests : request[o] = Idle) /\ EnterLogin(q, p)
          \/ \E d \in Digests : FinishLogin(q, d, 1, now) /\ UNCHANGED ephemeral
  /\ UNCHANGED part

MCSpec == MCInit /\ [][MCNext]_<<serverVars, part>>
=============================================================================
