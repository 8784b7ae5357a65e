--------------------------- MODULE DispatchLease ---------------------------
(***************************************************************************)
(* The generation part of DirectChatStore (src/src/chat-store.js): which   *)
(* generation of a thread is current, the fenced dispatch lease of every   *)
(* generation, and the delta journal a lease holder writes.  Every method  *)
(* is one BEGIN IMMEDIATE transaction of SQLite, so every method is one    *)
(* action here.  A call that throws is rolled back; a call that throws,    *)
(* replays or returns without writing leaves the state as it was and is a  *)
(* stuttering step, not an action.                                         *)
(*                                                                         *)
(* Callers are arbitrary: any owner token, any fence, any time to live, at *)
(* any moment, from any number of processes that share the database.       *)
(***************************************************************************)
EXTENDS Integers, Sequences, FiniteSets

CONSTANTS
  Thread,        \* direct_chat_threads
  Generation,    \* generation identifiers, each used in one thread only
  ThreadOf,      \* the thread a generation identifier belongs to
  Owner,         \* owner tokens (opaqueToken() in cloud-server.js)
  Time,          \* the instants the wall clock can show
  Ttl,           \* the times to live callers ask for
  MaxFence,      \* MAX_DISPATCH_LEASE_FENCE (2^53 - 1 in the code)
  MaxDeltas,     \* DIRECT_CHAT_LIMITS.deltasPerGeneration (8192 in the code)
  NoGeneration,  \* current_generation_id IS NULL
  NoOwner,       \* the owner of a lease row that does not exist
  NoProof        \* a call without dispatchLease

Never == -1  \* NULL in a timestamp column

Proof == [owner : Owner, fence : 1 .. MaxFence]

ASSUME ThreadAssumption  == ThreadOf \in [Generation -> Thread]
ASSUME TimeAssumption    == Time \subseteq Nat
ASSUME TtlAssumption     == Ttl \subseteq Nat \ {0}
ASSUME BoundAssumption   == MaxFence \in Nat \ {0} /\ MaxDeltas \in Nat \ {0}
ASSUME NullAssumption    == /\ NoGeneration \notin Generation
                            /\ NoOwner \notin Owner
                            /\ NoProof \notin Proof

VARIABLES
  now,      \* what nowIso(clock) returns; it may be set back
  current,  \* current_generation_id of every thread
  status,   \* generation rows, "absent" before the row exists
  lease,    \* direct_chat_generation_leases, one row per generation
  journal,  \* direct_chat_deltas: for each delta the proof it was written with
  grants    \* history: the proofs markGenerationDispatchStarted authorised

vars == <<now, current, status, lease, journal, grants>>

Status == {"absent", "in_progress", "completed", "cancelled", "failed"}
Phase == {"none", "claimed", "dispatch_started", "released", "interrupted"}

\* The failure categories of FAILURE_CODES the store tells apart.
PreDispatchFailure == {"provider_unavailable", "timeout"}
FailureCode == PreDispatchFailure \cup {"content_rejected"}

Lease == [phase : Phase, owner : Owner \cup {NoOwner}, fence : 0 .. MaxFence,
          expires : Nat, claimed : Nat, started : Nat \cup {Never},
          updated : Nat, released : Nat \cup {Never}]

NoLease == [phase |-> "none", owner |-> NoOwner, fence |-> 0, expires |-> 0,
            claimed |-> 0, started |-> Never, updated |-> 0, released |-> Never]

-----------------------------------------------------------------------------
(* Reading a row.                                                          *)

Active(g) == status[g] = "in_progress" /\ current[ThreadOf[g]] = g

Live(l) == l.phase # "none" /\ l.released = Never /\ l.expires > now

\* A row's clock never runs backwards, whatever the wall clock does.
Stamp(l) == IF now < l.updated THEN l.updated ELSE now

\* Mutant: the proof of a lease that has ended is still good.
HoldsMutantIgnoresRelease(g, p, phases) ==
  /\ p # NoProof
  /\ lease[g].owner = p.owner
  /\ lease[g].fence = p.fence
  /\ lease[g].phase \in phases \cup {"released", "interrupted"}

\* Mutant: neither owner nor fence of the proof is compared.
HoldsMutantIgnoresFence(g, p, phases) ==
  /\ p # NoProof
  /\ lease[g].released = Never
  /\ lease[g].expires > now
  /\ lease[g].phase \in phases

\* #requireGenerationLease: the proof is the one of the live lease.
Holds(g, p, phases) ==
  /\ p # NoProof
  /\ lease[g].owner = p.owner
  /\ lease[g].fence = p.fence
  /\ Live(lease[g])
  /\ lease[g].phase \in phases

\* The writers' check: a generation without a lease row takes no proof.
Admits(g, p, phases) ==
  IF lease[g].phase = "none" THEN p = NoProof ELSE Holds(g, p, phases)

\* #reconcileExpiredGenerationDispatches
Expired(l) ==
  l.phase = "dispatch_started" /\ l.released = Never /\ l.expires <= now

Interrupted(l) ==
  [l EXCEPT !.fence = @ + 1, !.phase = "interrupted",
            !.expires = now, !.updated = now, !.released = now]

\* Mutant: the fence bound is not looked at.
ReconciledMutantUnbounded ==
  [g \in Generation |->
     IF Expired(lease[g]) THEN Interrupted(lease[g]) ELSE lease[g]]

\* The rows after the reconciliation that opens a claim and a mark.
Reconciled ==
  [g \in Generation |->
     IF Expired(lease[g]) /\ lease[g].fence < MaxFence
       THEN Interrupted(lease[g])
       ELSE lease[g]]

\* The reconciliation refuses the whole transaction.
FenceExhausted ==
  \E g \in Generation : Expired(Reconciled[g]) /\ Reconciled[g].fence >= MaxFence

\* Mutant: the end is stamped with the wall clock.
InvalidatedMutantRawClock(l, phase) ==
  IF l.phase = "none" \/ l.released # Never
    THEN l
    ELSE [l EXCEPT !.phase = phase, !.expires = now,
                   !.updated = now, !.released = now]

\* #invalidateGenerationLease: the row's end, on the row's own clock.
Invalidated(l, phase) ==
  IF l.phase = "none" \/ l.released # Never
    THEN l
    ELSE [l EXCEPT !.phase = phase, !.expires = Stamp(l),
                   !.updated = Stamp(l), !.released = Stamp(l)]
-----------------------------------------------------------------------------
Init ==
  /\ now \in Time
  /\ current = [t \in Thread |-> NoGeneration]
  /\ status  = [g \in Generation |-> "absent"]
  /\ lease   = [g \in Generation |-> NoLease]
  /\ journal = [g \in Generation |-> <<>>]
  /\ grants  = [g \in Generation |-> <<>>]

\* The wall clock advances, or is set back.
Tick ==
  /\ now' \in Time
  /\ UNCHANGED <<current, status, lease, journal, grants>>

\* Mutant: a thread takes a second generation next to the current one.
StartGenerationMutantReplaces(g) ==
  /\ status[g] = "absent"
  /\ status'  = [status EXCEPT ![g] = "in_progress"]
  /\ current' = [current EXCEPT ![ThreadOf[g]] = g]
  /\ UNCHANGED <<now, lease, journal, grants>>

\* startTurn and startGeneration: the thread must have no current generation.
StartGeneration(g) ==
  /\ status[g] = "absent"
  /\ current[ThreadOf[g]] = NoGeneration
  /\ status'  = [status EXCEPT ![g] = "in_progress"]
  /\ current' = [current EXCEPT ![ThreadOf[g]] = g]
  /\ UNCHANGED <<now, lease, journal, grants>>

\* claimGenerationLease, the returns that write nothing but the
\* reconciliation: an interrupted generation (blocked), or the live lease of
\* the same owner.
ClaimExisting(g, o) ==
  LET l == Reconciled[g] IN
    /\ Active(g)
    /\ ~FenceExhausted
    /\ l.phase = "interrupted" \/ (Live(l) /\ l.owner = o)
    /\ lease' = Reconciled
    /\ UNCHANGED <<now, current, status, journal, grants>>

\* Mutant: an expired lease is taken over whatever its phase.
ClaimMutantAnyPhase(g, o, ttl) ==
  LET l  == lease[g]
      at == Stamp(l) IN
    /\ Active(g)
    /\ ~Live(l)
    /\ l.fence < MaxFence
    /\ lease' = [lease EXCEPT ![g] =
         [phase |-> "claimed", owner |-> o, fence |-> l.fence + 1,
          expires |-> at + ttl, claimed |-> at, started |-> Never,
          updated |-> at, released |-> Never]]
    /\ UNCHANGED <<now, current, status, journal, grants>>

\* Mutant: a takeover keeps the fence.
ClaimMutantSameFence(g, o, ttl) ==
  LET l  == Reconciled[g]
      at == Stamp(l) IN
    /\ Active(g)
    /\ ~FenceExhausted
    /\ l.phase \in {"none", "claimed", "released"} /\ ~Live(l) /\ l.started = Never
    /\ lease' = [Reconciled EXCEPT ![g] =
         [phase |-> "claimed", owner |-> o,
          fence |-> IF l.phase = "none" THEN 1 ELSE l.fence,
          expires |-> at + ttl, claimed |-> at, started |-> Never,
          updated |-> at, released |-> Never]]
    /\ UNCHANGED <<now, current, status, journal, grants>>

\* claimGenerationLease, the first claim or the takeover of a lease that was
\* given back or ran out before its dispatch started.  After the
\* reconciliation a row that was ever dispatched is interrupted, so the
\* method's later branch for a dispatched row is never taken.
Claim(g, o, ttl) ==
  LET l  == Reconciled[g]
      at == Stamp(l) IN
    /\ Active(g)
    /\ ~FenceExhausted
    /\ l.phase # "interrupted" /\ ~Live(l) /\ l.started = Never
    /\ l.fence < MaxFence
    /\ lease' = [Reconciled EXCEPT ![g] =
         [phase |-> "claimed", owner |-> o, fence |-> l.fence + 1,
          expires |-> at + ttl, claimed |-> at, started |-> Never,
          updated |-> at, released |-> Never]]
    /\ UNCHANGED <<now, current, status, journal, grants>>

\* Another lease is dispatched, in whichever thread: global_busy.
DispatchBusy(g) ==
  \E h \in Generation \ {g} :
    Reconciled[h].phase = "dispatch_started" /\ Reconciled[h].released = Never

Dispatched(l) ==
  [l EXCEPT !.phase = "dispatch_started", !.started = Stamp(l), !.updated = Stamp(l)]

\* Mutant: only the leases of the same thread are looked at.
MarkMutantPerThread(g, p) ==
  /\ Active(g)
  /\ Holds(g, p, {"claimed"})
  /\ ~FenceExhausted
  /\ \A h \in Generation \ {g} : ThreadOf[h] = ThreadOf[g] =>
       ~(Reconciled[h].phase = "dispatch_started" /\ Reconciled[h].released = Never)
  /\ lease' = [Reconciled EXCEPT ![g] = Dispatched(lease[g])]
  /\ grants' = [grants EXCEPT ![g] = Append(@, p)]
  /\ UNCHANGED <<now, current, status, journal>>

\* markGenerationDispatchStarted, when it answers dispatchAuthorized.
MarkDispatchStarted(g, p) ==
  /\ Active(g)
  /\ Holds(g, p, {"claimed"})
  /\ ~FenceExhausted
  /\ ~DispatchBusy(g)
  /\ lease' = [Reconciled EXCEPT ![g] = Dispatched(lease[g])]
  /\ grants' = [grants EXCEPT ![g] = Append(@, p)]
  /\ UNCHANGED <<now, current, status, journal>>

\* markGenerationDispatchStarted, when it answers global_busy: what it
\* reconciled is committed.
MarkBusy(g, p) ==
  /\ Active(g)
  /\ Holds(g, p, {"claimed"})
  /\ ~FenceExhausted
  /\ DispatchBusy(g)
  /\ lease' = Reconciled
  /\ UNCHANGED <<now, current, status, journal, grants>>

\* renewGenerationLease: an earlier expiry is never written.
Renew(g, p, ttl) ==
  LET at == Stamp(lease[g]) IN
    /\ Active(g)
    /\ Holds(g, p, {"claimed", "dispatch_started"})
    /\ at + ttl > lease[g].expires
    /\ lease' = [lease EXCEPT ![g] = [@ EXCEPT !.expires = at + ttl, !.updated = at]]
    /\ UNCHANGED <<now, current, status, journal, grants>>

\* releaseGenerationLease: a dispatch that started can only be interrupted.
Release(g, p) ==
  /\ Active(g)
  /\ Holds(g, p, {"claimed", "dispatch_started"})
  /\ lease' = [lease EXCEPT ![g] =
       Invalidated(@, IF @.phase = "dispatch_started" THEN "interrupted" ELSE "released")]
  /\ UNCHANGED <<now, current, status, journal, grants>>

\* appendGenerationDelta at the journal's cursor; a stale cursor is refused
\* or, when the delta is already there, replayed.
AppendDelta(g, p) ==
  /\ Admits(g, p, {"dispatch_started"})
  /\ Active(g)
  /\ Len(journal[g]) < MaxDeltas
  /\ journal' = [journal EXCEPT ![g] = Append(@, p)]
  /\ UNCHANGED <<now, current, status, lease, grants>>

\* What finalizeGeneration and #terminateGeneration write when they succeed.
Terminate(g, s) ==
  /\ status'  = [status EXCEPT ![g] = s]
  /\ current' = [current EXCEPT ![ThreadOf[g]] = NoGeneration]
  /\ lease'   = [lease EXCEPT ![g] = Invalidated(@, "released")]
  /\ UNCHANGED <<now, journal, grants>>

\* finalizeGeneration
Finalize(g, p) ==
  /\ Admits(g, p, {"dispatch_started"})
  /\ Active(g)
  /\ journal[g] # <<>>
  /\ Terminate(g, "completed")

\* cancelGeneration asks for no proof.
Cancel(g) ==
  /\ Active(g)
  /\ Terminate(g, "cancelled")

\* failGeneration: anybody may fail an interrupted generation as
\* provider_unavailable; a lease that has only been claimed may be failed
\* with the codes that can come before the dispatch.
Fail(g, p, code) ==
  /\ \/ /\ p = NoProof
        /\ lease[g].phase = "interrupted"
        /\ code = "provider_unavailable"
     \/ Admits(g, p, IF p # NoProof /\ code \in PreDispatchFailure
                       THEN {"claimed", "dispatch_started"}
                       ELSE {"dispatch_started"})
  /\ Active(g)
  /\ Terminate(g, "failed")

Next ==
  \/ Tick
  \/ \E g \in Generation :
       \/ StartGeneration(g)
       \/ Cancel(g)
       \/ \E o \in Owner :
            \/ ClaimExisting(g, o)
            \/ \E ttl \in Ttl : Claim(g, o, ttl)
       \/ \E p \in Proof :
            \/ MarkDispatchStarted(g, p)
            \/ MarkBusy(g, p)
            \/ \E ttl \in Ttl : Renew(g, p, ttl)
            \/ Release(g, p)
       \/ \E p \in Proof \cup {NoProof} :
            \/ AppendDelta(g, p)
            \/ Finalize(g, p)
            \/ \E code \in FailureCode : Fail(g, p, code)

Spec == Init /\ [][Next]_vars
-----------------------------------------------------------------------------
(* What the schema and the store's own audit demand of the rows.           *)

\* auditDispatchLease
LeaseAudit(l) ==
  /\ l.fence >= 1
  /\ l.claimed <= l.updated
  /\ l.started # Never => l.claimed <= l.started /\ l.started <= l.updated
  /\ l.phase \in {"claimed", "dispatch_started"} =>
       l.released = Never /\ l.updated < l.expires
  /\ l.phase \in {"released", "interrupted"} =>
       /\ l.released # Never
       /\ l.expires = l.released /\ l.updated = l.released
       /\ l.claimed <= l.released
  /\ l.phase = "claimed" => l.started = Never
  /\ l.phase \in {"dispatch_started", "interrupted"} => l.started # Never

\* Trigger direct_chat_generation_leases_fence_monotonic
FenceMonotonic(old, new) ==
  /\ new.fence \in {old.fence, old.fence + 1}
  /\ new.owner # old.owner => new.fence = old.fence + 1
  /\ old.released # Never /\ new.released = Never => new.fence = old.fence + 1
  /\ old.started # Never => new.started # Never

\* Trigger direct_chat_generation_leases_phase_monotonic
PhaseMonotonic(old, new) ==
  \/ old.phase = "claimed" /\ new.phase \in {"claimed", "dispatch_started", "released"}
  \/ old.phase = "dispatch_started"
       /\ new.phase \in {"dispatch_started", "released", "interrupted"}
  \/ old.phase = "released" /\ new.phase = "released"
  \/ /\ old.phase = "released" /\ old.started = Never
     /\ new.phase = "claimed" /\ new.fence = old.fence + 1
  \/ old.phase = "interrupted" /\ new.phase = "interrupted"
-----------------------------------------------------------------------------
(* Properties.                                                             *)

\* Every column of the modelled tables stays in its domain; in particular no
\* fence passes MAX_DISPATCH_LEASE_FENCE.
TypeOK ==
  /\ now \in Time
  /\ current \in [Thread -> Generation \cup {NoGeneration}]
  /\ status  \in [Generation -> Status]
  /\ lease   \in [Generation -> Lease]
  /\ journal \in [Generation -> Seq(Proof \cup {NoProof})]
  /\ grants  \in [Generation -> Seq(Proof)]

\* The workstation runs one inference at a time: over all threads at most one
\* lease is dispatched and not released, whoever asked, whatever expired and
\* wherever the clock was set (the unique index direct_chat_one_active_dispatch
\* never has to refuse a write).
OneActiveDispatch ==
  \A g, h \in Generation :
    /\ lease[g].phase = "dispatch_started"
    /\ lease[h].phase = "dispatch_started"
    => g = h

\* markGenerationDispatchStarted answers dispatchAuthorized at most once for a
\* generation, over all owners, takeovers, expiries and interruptions: a
\* dispatch that may have run is never run again.
AtMostOneDispatch == \A g \in Generation : Len(grants[g]) <= 1

\* The deltas of a generation written under a lease were all written with the
\* one authorised proof, and once one was, nobody writes without a lease: the
\* journal never mixes the output of two dispatches.
SingleWriter ==
  \A g \in Generation : \A i \in DOMAIN journal[g] :
    journal[g][i] # NoProof =>
      /\ grants[g] = <<journal[g][i]>>
      /\ \A j \in DOMAIN journal[g] : i <= j => journal[g][j] = journal[g][i]

\* No sequence of calls, expiries and clock changes writes a row that the
\* audit of the thread (auditDispatchLease, auditThread) rejects afterwards as
\* corrupt: an unreleased lease belongs to the current generation, and the
\* generations in progress are exactly the current ones.
AuditClean ==
  \A g \in Generation :
    /\ lease[g].phase # "none" => LeaseAudit(lease[g]) /\ status[g] # "absent"
    /\ lease[g].phase \in {"claimed", "dispatch_started"} => Active(g)
    /\ status[g] = "in_progress" <=> current[ThreadOf[g]] = g

\* The updates the store issues always satisfy the two monotonicity triggers
\* of the lease table, so no method ever fails with their ABORT.
TriggersNeverAbort ==
  [][\A g \in Generation : lease[g].phase # "none" =>
       FenceMonotonic(lease[g], lease'[g]) /\ PhaseMonotonic(lease[g], lease'[g])]_vars

\* An interrupted dispatch is final: its row is frozen, nothing is added to its
\* journal, and the generation can only fail or be cancelled, never complete.
InterruptedIsFinal ==
  [][\A g \in Generation : lease[g].phase = "interrupted" =>
       /\ lease'[g] = lease[g]
       /\ journal'[g] = journal[g]
       /\ status'[g] \in {status[g], "failed", "cancelled"}]_vars
-----------------------------------------------------------------------------
(* The promise.                                                            *)

\* How a row reads to somebody who does not know about leases.
TurnOf(g) ==
  IF status[g] # "in_progress" THEN status[g]
  ELSE IF lease[g].phase = "dispatch_started" THEN "running"
  ELSE IF lease[g].phase = "interrupted" THEN "lost"
  ELSE "pending"

Turn == INSTANCE InferenceTurn
  WITH turn <- [g \in Generation |-> TurnOf(g)],
       text <- [g \in Generation |-> Len(journal[g])]

\* The fenced lease implements the promise: through every takeover, expiry,
\* interruption and change of the clock a generation is dispatched at most
\* once, never next to another one, and never completes after it was lost.
ImplementsTurn == Turn!Spec
=============================================================================
