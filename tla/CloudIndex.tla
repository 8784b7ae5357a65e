----------------------------- MODULE CloudIndex -----------------------------
(***************************************************************************)
(* CloudIndexStore (src/src/store.js): the control-plane database of the   *)
(* cloud service.  It holds accounts, the digests of browser sessions, the *)
(* scopes an account's Agent work runs under and the bindings of Agent     *)
(* resources to them, the index of Agent threads with the delivery cursors *)
(* of their runs, and the receipts of idempotent mutations.                *)
(*                                                                         *)
(* A call is one BEGIN IMMEDIATE transaction of whichever process makes    *)
(* it.  Its clock is read before it waits for the lock, so it may prune    *)
(* with an older time than the one it writes rows with.  A refusal rolls   *)
(* everything back, the pruning included, and is no step.                  *)
(***************************************************************************)
EXTENDS Integers, FiniteSets, FiniteSetsExt, SequencesExt

CONSTANTS
  Accounts, Identities,      \* identifiers; issuer and subject pairs
  Digests,                   \* digests of session tokens, and random scope digests
  Threads, Runs, Metas,      \* Agent threads and runs; what presentation and routing say
  Resources,                 \* Agent resources that can be bound: threads, runs, artifacts
  Keys, Hashes,              \* idempotency keys; hashes of events
  Ages, ReceiptAge,          \* lifetimes of sessions and of receipts
  MaxSessions, MaxReceipts,  \* limits of an account
  MaxTime, MaxSeq,           \* bounds of the model: the clock, event numbers
  None

\* The columns of the rows.
SessionRow == [owner : Accounts, created : Nat, expires : Nat]
ScopeRow   == [owner : Accounts, kind : {"default", "default_pending", "legacy_session"}]
BindingRow == [owner : Accounts, scope : Digests]
ThreadRow  == [owner : Accounts, meta : Metas, last : Runs \cup {None}]
CursorRow  == [owner : Accounts, thread : Threads, seq : 0 .. MaxSeq, hash : Hashes \cup {None}]

ASSUME IndexAssumption ==
  /\ MaxSessions \in Nat \ {0} /\ MaxReceipts \in Nat /\ MaxSeq \in Nat /\ MaxTime \in Nat
  /\ Ages \subseteq Nat \ {0} /\ ReceiptAge \in Nat /\ IsFiniteSet(Digests)
  /\ \A S \in {Identities, Digests, Threads, Runs} : None \notin S
  /\ None \notin SessionRow \cup ScopeRow \cup BindingRow \cup ThreadRow \cup CursorRow

VARIABLES
  now,       \* the clock
  accounts,  \* the identity of every account, None if it is not provisioned
  sessions, scopes, bindings, threads, cursors,  \* rows by primary key, or None
  receipts   \* of every account, in rowid order

indexVars == <<now, accounts, sessions, scopes, bindings, threads, cursors, receipts>>

-----------------------------------------------------------------------------
Owned(table, a) == {k \in DOMAIN table : table[k] # None /\ table[k].owner = a}

\* #assertAccountExists
Exists(a) == accounts[a] # None

\* When a call that writes now may have read the clock first.
Started == {t \in {now - 1, now} : t >= 0}

\* The entries of a list at the places of keep, in their order.
Sifted(list, keep) ==
  LET Place(n) == CHOOSE i \in keep : Cardinality({j \in keep : j <= i}) = n
  IN [n \in 1 .. Cardinality(keep) |-> list[Place(n)]]

\* pruneExpiredRows
PrunedSessions(t) ==
  [d \in Digests |->
     IF sessions[d] # None /\ sessions[d].expires <= t THEN None ELSE sessions[d]]
PrunedReceipts(t) ==
  [a \in Accounts |->
     Sifted(receipts[a], {i \in DOMAIN receipts[a] : receipts[a][i].expires > t})]

Call(op, a, key, on, with) == [op |-> op, account |-> a, key |-> key, on |-> on, with |-> with]

\* Mutant: one receipt too many is kept.
NewestMutantOffByOne(list) ==
  IF Len(list) <= MaxReceipts + 1 THEN list ELSE SubSeq(list, Len(list) - MaxReceipts, Len(list))

\* The last MaxReceipts of an account's receipts.
Newest(list) ==
  IF Len(list) <= MaxReceipts THEN list
  ELSE SubSeq(list, Len(list) - MaxReceipts + 1, Len(list))

\* #idempotentMutation, the first time: nothing is filed under the key.
First(c, t) ==
  \A r \in ToSet(PrunedReceipts(t)[c.account]) : r.call.op = c.op => r.call.key # c.key

\* The result of the mutation is filed with it, and the oldest receipts go.
File(c, t, result) ==
  receipts' = [PrunedReceipts(t) EXCEPT ![c.account] =
                 Newest(Append(@, [call |-> c, result |-> result, expires |-> t + ReceiptAge]))]

\* What the replay functions read back.
View(c, t) ==
  CASE c.op = "account.provision" -> accounts[c.on]
    [] c.op = "browser_session.create" -> PrunedSessions(t)[c.on]
    [] c.op \in {"thread.register", "thread.update", "thread.sync"} ->
         IF c.on \in Owned(threads, c.account) THEN threads[c.on] ELSE None
    [] OTHER -> "done"

\* #idempotentMutation, repeated: the row still has to be what was answered.
Replay(a, t) ==
  /\ \E r \in ToSet(PrunedReceipts(t)[a]) : View(r.call, t) = r.result
  /\ sessions' = PrunedSessions(t) /\ receipts' = PrunedReceipts(t)
  /\ UNCHANGED <<now, accounts, scopes, bindings, threads, cursors>>

-----------------------------------------------------------------------------
(* Accounts and browser sessions.                                          *)

HasDefault(a) == \E s \in Owned(scopes, a) : scopes[s].kind # "legacy_session"

\* #ensureDefaultAgentScope: a random digest nobody has.
EnsureDefault(a) ==
  IF HasDefault(a) THEN scopes' = scopes
  ELSE \E s \in {s \in Digests : scopes[s] = None /\ sessions[s] = None} :
         scopes' = [scopes EXCEPT ![s] = [owner |-> a, kind |-> "default"]]

ProvisionAccount(a, id, key, t) ==
  LET c == Call("account.provision", a, key, a, id)
  IN /\ First(c, t)
     /\ \/ accounts[a] = id
        \/ accounts[a] = None /\ \A b \in Accounts : accounts[b] # id
     /\ accounts' = [accounts EXCEPT ![a] = id]
     /\ EnsureDefault(a)
     /\ sessions' = PrunedSessions(t) /\ File(c, t, id)
     /\ UNCHANGED <<now, bindings, threads, cursors>>

\* Mutant: the sessions that expire first make room, not those made first.
RotatedMutantExpiry(rows, a) ==
  {out \in SUBSET Owned(rows, a) :
     /\ Cardinality(Owned(rows, a) \ out) < MaxSessions
     /\ out # {} => Cardinality(Owned(rows, a) \ out) = MaxSessions - 1
     /\ \A o \in out, s \in Owned(rows, a) \ out : rows[o].expires <= rows[s].expires}

\* The oldest sessions that have to go for one more; ties fall as the digests do.
Rotated(rows, a) ==
  {out \in SUBSET Owned(rows, a) :
     /\ Cardinality(Owned(rows, a) \ out) < MaxSessions
     /\ out # {} => Cardinality(Owned(rows, a) \ out) = MaxSessions - 1
     /\ \A o \in out, s \in Owned(rows, a) \ out : rows[o].created <= rows[s].created}

CreateBrowserSession(a, d, age, key, t) ==
  LET c == Call("browser_session.create", a, key, d, age)
      row == [owner |-> a, created |-> now, expires |-> now + age]
  IN /\ First(c, t) /\ Exists(a) /\ PrunedSessions(t)[d] = None
     /\ \E out \in Rotated(PrunedSessions(t), a) :
          sessions' = [x \in Digests |->
             IF x = d THEN row ELSE IF x \in out THEN None ELSE PrunedSessions(t)[x]]
     /\ File(c, t, row)
     /\ UNCHANGED <<now, accounts, scopes, bindings, threads, cursors>>

\* #authenticateBrowserSession
Authenticates(a, d) == d \in Owned(sessions, a) /\ sessions[d].expires > now

RevokeBrowserSession(a, d, key, t) ==
  LET c == Call("browser_session.revoke", a, key, d, None)
  IN /\ First(c, t) /\ d \in Owned(PrunedSessions(t), a)
     /\ sessions' = [PrunedSessions(t) EXCEPT ![d] = None]
     /\ File(c, t, "done")
     /\ UNCHANGED <<now, accounts, scopes, bindings, threads, cursors>>

-----------------------------------------------------------------------------
(* The scopes of Agent work.                                               *)

\* Mutant: a login under an old session's digest moves a default that is settled.
PrimedMutantAlways(a, d) ==
  IF d \in Owned(scopes, a) /\ scopes[d].kind = "legacy_session"
  THEN [s \in Digests |->
          IF s = d THEN [owner |-> a, kind |-> "default"]
          ELSE IF s \in Owned(scopes, a) THEN [owner |-> a, kind |-> "legacy_session"]
          ELSE scopes[s]]
  ELSE [s \in Digests |->
          IF s \in Owned(scopes, a) /\ scopes[s].kind = "default_pending"
          THEN [owner |-> a, kind |-> "default"] ELSE scopes[s]]

\* primeDefaultAgentAuthorityScope: a default left pending by the migration is the
\* scope of the first session that comes back, if that session is from before it.
Primed(a, d) ==
  IF \A s \in Owned(scopes, a) : scopes[s].kind # "default_pending" THEN scopes
  ELSE IF d \in Owned(scopes, a) /\ scopes[d].kind = "legacy_session"
  THEN [s \in Digests |->
          IF s = d THEN [owner |-> a, kind |-> "default"]
          ELSE IF s \in Owned(scopes, a) THEN [owner |-> a, kind |-> "legacy_session"]
          ELSE scopes[s]]
  ELSE [s \in Digests |->
          IF s \in Owned(scopes, a) /\ scopes[s].kind = "default_pending"
          THEN [owner |-> a, kind |-> "default"] ELSE scopes[s]]

\* getDefaultAgentAuthorityScope
Defaults(a) == {s \in Owned(scopes, a) : scopes[s].kind = "default"}

\* bindAgentResource refuses a scope that is not the account's, and a resource that
\* is bound to another; it leaves one that is bound to this scope as it is.
Bindable(a, X, s) ==
  /\ X # {} => s \in Owned(scopes, a)
  /\ \A x \in X : bindings[x] \in {None, [owner |-> a, scope |-> s]}

Bound(a, X, s) ==
  [x \in Resources |-> IF x \in X THEN [owner |-> a, scope |-> s] ELSE bindings[x]]

\* Mutant: a scope goes whatever is bound to it, and the bindings go with it.
RetirableMutantBound(a, s) == s \in Owned(scopes, a) /\ scopes[s].kind = "legacy_session"

\* retireEmptyLegacyAgentAuthorityScope
Retirable(a, s) ==
  /\ s \in Owned(scopes, a) /\ scopes[s].kind = "legacy_session"
  /\ \A x \in Resources : bindings[x] # [owner |-> a, scope |-> s]

\* The row goes, and by its foreign key whatever is still bound to it.
Retire(a, s) ==
  /\ scopes' = [scopes EXCEPT ![s] = None]
  /\ bindings' = [x \in Resources |->
       IF bindings[x] = [owner |-> a, scope |-> s] THEN None ELSE bindings[x]]

-----------------------------------------------------------------------------
(* The index of Agent threads and the delivery cursors of their runs.      *)

RegisterThread(a, x, meta, key, t) ==
  LET c == Call("thread.register", a, key, x, meta)
      row == [owner |-> a, meta |-> meta, last |-> None]
  IN /\ First(c, t) /\ Exists(a) /\ threads[x] = None
     /\ threads' = [threads EXCEPT ![x] = row]
     /\ sessions' = PrunedSessions(t) /\ File(c, t, row)
     /\ UNCHANGED <<now, accounts, scopes, bindings, cursors>>

\* updateThreadPresentation and syncThreadAuthorityMetadataFromAginti
UpdateThread(op, a, x, meta, key, t) ==
  LET c == Call(op, a, key, x, meta)
      row == [threads[x] EXCEPT !.meta = meta]
  IN /\ First(c, t) /\ x \in Owned(threads, a)
     /\ threads' = [threads EXCEPT ![x] = row]
     /\ sessions' = PrunedSessions(t) /\ File(c, t, row)
     /\ UNCHANGED <<now, accounts, scopes, bindings, cursors>>

\* The cursors of its runs go by their foreign key.
RemoveThreadIndex(a, x, key, t) ==
  LET c == Call("thread.remove_index", a, key, x, None)
  IN /\ First(c, t) /\ x \in Owned(threads, a)
     /\ threads' = [threads EXCEPT ![x] = None]
     /\ cursors' = [r \in Runs |->
          IF cursors[r] # None /\ cursors[r].thread = x THEN None ELSE cursors[r]]
     /\ sessions' = PrunedSessions(t) /\ File(c, t, "done")
     /\ UNCHANGED <<now, accounts, scopes, bindings>>

\* Mutant: a run is not held to the thread it was first recorded for.
AdvancesMutantAnyThread(a, x, r, seq, hash) ==
  IF cursors[r] = None THEN TRUE
  ELSE /\ cursors[r].owner = a
       /\ \/ seq > cursors[r].seq
          \/ seq = cursors[r].seq /\ hash = cursors[r].hash

\* A cursor is new, or its run's own and further on, or repeated exactly.
Advances(a, x, r, seq, hash) ==
  IF cursors[r] = None THEN TRUE
  ELSE /\ cursors[r].owner = a /\ cursors[r].thread = x
       /\ \/ seq > cursors[r].seq
          \/ seq = cursors[r].seq /\ hash = cursors[r].hash

\* recordRunCursor.  An exact repetition writes nothing, not even the last run.
RecordRunCursor(a, x, r, seq, hash, t) ==
  /\ x \in Owned(threads, a) /\ Advances(a, x, r, seq, hash)
  /\ hash = None <=> seq = 0
  /\ IF cursors[r] # None /\ seq = cursors[r].seq THEN UNCHANGED <<threads, cursors>>
     ELSE /\ cursors' = [cursors EXCEPT ![r] =
                           [owner |-> a, thread |-> x, seq |-> seq, hash |-> hash]]
          /\ threads' = [threads EXCEPT ![x] = [@ EXCEPT !.last = r]]
  /\ sessions' = PrunedSessions(t) /\ receipts' = PrunedReceipts(t)
  /\ UNCHANGED <<now, accounts, scopes, bindings>>

-----------------------------------------------------------------------------
\* pruneExpiredState, and the constructor of every process that opens the store.
PruneExpiredState(t) ==
  /\ sessions' = PrunedSessions(t) /\ receipts' = PrunedReceipts(t)
  /\ UNCHANGED <<now, accounts, scopes, bindings, threads, cursors>>

Tick ==
  /\ now < MaxTime /\ now' = now + 1
  /\ UNCHANGED <<accounts, sessions, scopes, bindings, threads, cursors, receipts>>

\* Calls on accounts and threads, which the service's own handlers do not make.
StoreCall(t) ==
  \/ \E a \in Accounts, key \in Keys :
       \/ \E id \in Identities : ProvisionAccount(a, id, key, t)
       \/ \E x \in Threads :
            \/ RemoveThreadIndex(a, x, key, t)
            \/ \E meta \in Metas :
                 \/ RegisterThread(a, x, meta, key, t)
                 \/ \E op \in {"thread.update", "thread.sync"} :
                      UpdateThread(op, a, x, meta, key, t)
  \/ \E a \in Accounts, x \in Threads, r \in Runs, seq \in 0 .. MaxSeq, hash \in Hashes \cup {None} :
       RecordRunCursor(a, x, r, seq, hash, t)
  \/ \E a \in Accounts : Replay(a, t)
  \/ PruneExpiredState(t)

-----------------------------------------------------------------------------
\* Every row has its columns, every reference its row, and every account with a
\* row one default scope, pending or not: the constraints of migrations.js.
IndexTypeOK ==
  /\ now \in 0 .. MaxTime
  /\ accounts \in [Accounts -> Identities \cup {None}]
  /\ sessions \in [Digests -> SessionRow \cup {None}]
  /\ scopes \in [Digests -> ScopeRow \cup {None}]
  /\ bindings \in [Resources -> BindingRow \cup {None}]
  /\ threads \in [Threads -> ThreadRow \cup {None}]
  /\ cursors \in [Runs -> CursorRow \cup {None}]
  /\ \A d \in Digests : sessions[d] # None =>
       /\ Exists(sessions[d].owner)
       /\ sessions[d].created <= now /\ sessions[d].expires - sessions[d].created \in Ages
  /\ \A s \in Digests : scopes[s] # None => Exists(scopes[s].owner)
  /\ \A a \in Accounts : Exists(a) =>
       Cardinality({s \in Owned(scopes, a) : scopes[s].kind # "legacy_session"}) = 1
  /\ \A x \in Resources : bindings[x] # None =>
       bindings[x].scope \in Owned(scopes, bindings[x].owner)
  /\ \A x \in Threads : threads[x] # None => Exists(threads[x].owner)
  /\ \A r \in Runs : cursors[r] # None => cursors[r].thread \in Owned(threads, cursors[r].owner)
  /\ \A a \in Accounts :
       /\ Len(receipts[a]) <= MaxReceipts
       /\ receipts[a] # <<>> => Exists(a)
       /\ Cardinality(Owned(sessions, a)) <= MaxSessions

\* A login makes room only when the account is at its cap, with exactly one session,
\* and never one while an older one stays (store.js:664); nothing else drops a
\* session before its time but its own logout.
RotationTakesOldest ==
  [][\A a \in Accounts :
       LET gone == {d \in Owned(sessions, a) : sessions'[d] = None /\ sessions[d].expires > now}
           kept == {d \in Owned(sessions, a) : sessions'[d] # None}
       IN (\E d \in Digests : sessions[d] = None /\ sessions'[d] # None /\ sessions'[d].owner = a)
          => /\ Cardinality(gone) <= 1
             /\ gone # {} => Cardinality(kept) = MaxSessions - 1
             /\ \A o \in gone, s \in kept : sessions[o].created <= sessions[s].created]_indexVars

\* The delivery cursor of a run only goes forward, on the thread it began on, under
\* the same hash at the same event; and the last run of a thread is one of its own
\* (store.js:1064), whatever order or thread the cursors are reported in.
DeliveryOnlyAdvances ==
  [][/\ \A r \in Runs : cursors[r] # None /\ cursors'[r] # None =>
          /\ cursors'[r].thread = cursors[r].thread
          /\ cursors'[r].seq >= cursors[r].seq
          /\ cursors'[r].seq = cursors[r].seq => cursors'[r] = cursors[r]
     /\ \A x \in Threads : threads'[x] # None /\ threads'[x].last # None =>
          cursors'[threads'[x].last] # None /\ cursors'[threads'[x].last].thread = x]_indexVars
=============================================================================
