------------------------ MODULE DispatchLeaseProofs ------------------------
(***************************************************************************)
(* Proofs about DispatchLease for every set of threads, generations and    *)
(* owners, every clock and every bound.                                    *)
(***************************************************************************)
EXTENDS DispatchLease, TLAPS

LEMMA InterruptedType ==
  ASSUME now \in Nat, NEW l \in Lease, l.fence < MaxFence
  PROVE  Interrupted(l) \in Lease
<1>1. l.fence + 1 \in 0 .. MaxFence
  BY BoundAssumption DEF Lease
<1> QED BY <1>1 DEF Interrupted, Lease, Phase

LEMMA DispatchedType ==
  ASSUME now \in Nat, NEW l \in Lease
  PROVE  Dispatched(l) \in Lease
BY DEF Dispatched, Stamp, Lease, Phase

\* Reconciling keeps every row a row, with a fence in range.
LEMMA ReconciledType ==
  ASSUME TypeOK
  PROVE  Reconciled \in [Generation -> Lease]
<1> SUFFICES ASSUME NEW g \in Generation
             PROVE  (IF Expired(lease[g]) /\ lease[g].fence < MaxFence
                       THEN Interrupted(lease[g]) ELSE lease[g]) \in Lease
  BY DEF Reconciled
<1>1. now \in Nat /\ lease[g] \in Lease
  BY TimeAssumption DEF TypeOK
<1> QED BY <1>1, InterruptedType

LEMMA InvalidatedType ==
  ASSUME now \in Nat, NEW l \in Lease, NEW phase \in Phase
  PROVE  Invalidated(l, phase) \in Lease
BY DEF Invalidated, Lease, Stamp, Phase

\* What a successful terminal write leaves.
LEMMA TerminateType ==
  ASSUME TypeOK, NEW g \in Generation, NEW s \in Status, Terminate(g, s)
  PROVE  TypeOK'
<1>1. now \in Nat /\ "released" \in Phase
  BY TimeAssumption DEF TypeOK, Phase
<1>2. lease' \in [Generation -> Lease]
  BY <1>1, InvalidatedType DEF TypeOK, Terminate
<1> QED BY <1>2, ThreadAssumption DEF TypeOK, Terminate

\* Types hold in every reachable state of the store, and no fence passes
\* MAX_DISPATCH_LEASE_FENCE (#reconcileExpiredGenerationDispatches and
\* claimGenerationLease stop at the bound).
THEOREM TypeCorrect == Spec => []TypeOK
<1>1. Init => TypeOK
  BY BoundAssumption DEF Init, TypeOK, Status, Lease, NoLease, Phase, Never
<1>2. TypeOK /\ [Next]_vars => TypeOK'
  <2> SUFFICES ASSUME TypeOK, [Next]_vars
               PROVE  TypeOK'
    OBVIOUS
  <2>0. now \in Nat /\ Reconciled \in [Generation -> Lease]
    BY TimeAssumption, ReconciledType DEF TypeOK
  <2>1. CASE Tick
    BY <2>1 DEF Tick, TypeOK
  <2>2. ASSUME NEW g \in Generation, StartGeneration(g)
        PROVE  TypeOK'
    BY <2>2, ThreadAssumption DEF StartGeneration, TypeOK, Status
  <2>3. ASSUME NEW g \in Generation, Cancel(g)
        PROVE  TypeOK'
    BY <2>3, TerminateType DEF Cancel, Status
  <2>4. ASSUME NEW g \in Generation,
               \/ \E o \in Owner : ClaimExisting(g, o)
               \/ \E p \in Proof : MarkBusy(g, p)
        PROVE  TypeOK'
    BY <2>0, <2>4 DEF ClaimExisting, MarkBusy, TypeOK
  <2>5. ASSUME NEW g \in Generation, NEW o \in Owner, NEW ttl \in Ttl, Claim(g, o, ttl)
        PROVE  TypeOK'
    <3>1. Stamp(Reconciled[g]) \in Nat /\ Reconciled[g].fence + 1 \in 0 .. MaxFence
      BY <2>0, <2>5, BoundAssumption DEF Claim, Stamp, Lease
    <3>2. lease' \in [Generation -> Lease]
      BY <2>0, <2>5, <3>1, TtlAssumption DEF Claim, Lease, Phase, Never
    <3> QED BY <2>5, <3>2 DEF Claim, TypeOK
  <2>6. ASSUME NEW g \in Generation, NEW p \in Proof, MarkDispatchStarted(g, p)
        PROVE  TypeOK'
    <3>1. Dispatched(lease[g]) \in Lease
      BY <2>0, DispatchedType DEF TypeOK
    <3>2. lease' \in [Generation -> Lease]
      BY <2>0, <2>6, <3>1 DEF MarkDispatchStarted
    <3>3. grants' \in [Generation -> Seq(Proof)]
      BY <2>6 DEF MarkDispatchStarted, TypeOK
    <3> QED BY <2>6, <3>2, <3>3 DEF MarkDispatchStarted, TypeOK
  <2>7. ASSUME NEW g \in Generation, NEW p \in Proof, NEW ttl \in Ttl, Renew(g, p, ttl)
        PROVE  TypeOK'
    <3> DEFINE at == Stamp(lease[g])
    <3>1. at \in Nat /\ at + ttl \in Nat /\ lease[g] \in Lease
      BY <2>0, TtlAssumption DEF TypeOK, Stamp, Lease
    <3>2. [lease[g] EXCEPT !.expires = at + ttl, !.updated = at] \in Lease
      BY <3>1 DEF Lease
    <3>3. lease' \in [Generation -> Lease]
      BY <2>7, <3>2 DEF Renew, TypeOK
    <3> QED BY <2>7, <3>3 DEF Renew, TypeOK
  <2>8. ASSUME NEW g \in Generation, NEW p \in Proof, Release(g, p)
        PROVE  TypeOK'
    <3>1. lease' \in [Generation -> Lease]
      BY <2>0, <2>8, InvalidatedType DEF Release, TypeOK, Phase
    <3> QED BY <2>8, <3>1 DEF Release, TypeOK
  <2>9. ASSUME NEW g \in Generation, NEW p \in Proof \cup {NoProof}, AppendDelta(g, p)
        PROVE  TypeOK'
    BY <2>9 DEF AppendDelta, TypeOK
  <2>10. ASSUME NEW g \in Generation, NEW p \in Proof \cup {NoProof}, Finalize(g, p)
         PROVE  TypeOK'
    BY <2>10, TerminateType DEF Finalize, Status
  <2>11. ASSUME NEW g \in Generation, NEW p \in Proof \cup {NoProof},
                NEW code \in FailureCode, Fail(g, p, code)
         PROVE  TypeOK'
    BY <2>11, TerminateType DEF Fail, Status
  <2>12. CASE UNCHANGED vars
    BY <2>12 DEF vars, TypeOK
  <2> QED BY <2>1, <2>2, <2>3, <2>4, <2>5, <2>6, <2>7, <2>8, <2>9, <2>10, <2>11, <2>12
          DEF Next
<1> QED BY <1>1, <1>2, PTL DEF Spec

-----------------------------------------------------------------------------
(***************************************************************************)
(* The audit.  AuditClean is inductive: an unreleased row has a live span  *)
(* (updated < expires), which is what lets the reconciliation write the    *)
(* raw wall clock, and every other write uses the row's own clock, Stamp.  *)
(***************************************************************************)

\* A row as the reconciliation leaves it.
LEMMA ReconciledRow ==
  ASSUME TypeOK, AuditClean, NEW g \in Generation
  PROVE  /\ \/ Reconciled[g] = lease[g]
            \/ Expired(lease[g]) /\ Reconciled[g] = Interrupted(lease[g])
         /\ Reconciled[g].started = lease[g].started
         /\ Reconciled[g].phase = "none" <=> lease[g].phase = "none"
         /\ Reconciled[g].phase \in {"claimed", "dispatch_started"} =>
              Reconciled[g] = lease[g]
         /\ Reconciled[g].phase # "none" => LeaseAudit(Reconciled[g])
<1>1. /\ now \in Nat /\ lease[g] \in Lease
      /\ lease[g].phase # "none" => LeaseAudit(lease[g])
  BY TimeAssumption DEF TypeOK, AuditClean
<1>2. \/ Reconciled[g] = lease[g]
      \/ Expired(lease[g]) /\ Reconciled[g] = Interrupted(lease[g])
  BY DEF Reconciled
<1>3. CASE Reconciled[g] = lease[g]
  BY <1>1, <1>3
<1>4. CASE Expired(lease[g]) /\ Reconciled[g] = Interrupted(lease[g])
  <2>1. /\ Reconciled[g].phase = "interrupted"
        /\ Reconciled[g].fence = lease[g].fence + 1
        /\ Reconciled[g].started = lease[g].started
        /\ Reconciled[g].claimed = lease[g].claimed
        /\ Reconciled[g].expires = now
        /\ Reconciled[g].updated = now
        /\ Reconciled[g].released = now
    BY <1>1, <1>4 DEF Interrupted, Lease
  <2>2. lease[g].phase = "dispatch_started" /\ lease[g].expires <= now
    BY <1>4 DEF Expired
  <2> QED BY <1>1, <1>4, <2>1, <2>2 DEF LeaseAudit, Lease, Never
<1> QED BY <1>2, <1>3, <1>4

\* The end of a lease as #invalidateGenerationLease writes it.
LEMMA InvalidatedRow ==
  ASSUME now \in Nat, NEW l \in Lease, LeaseAudit(l), l.phase # "none",
         NEW phase \in {"released", "interrupted"},
         phase = "interrupted" => l.started # Never
  PROVE  /\ LeaseAudit(Invalidated(l, phase))
         /\ Invalidated(l, phase).phase \in {"released", "interrupted"}
         /\ Invalidated(l, phase).started = l.started
         /\ Invalidated(l, phase).fence = l.fence
<1>1. CASE l.released # Never
  BY <1>1 DEF Invalidated, LeaseAudit, Lease, Phase
<1>2. CASE l.released = Never
  <2> DEFINE k == Invalidated(l, phase)
  <2>1. /\ k.phase = phase /\ k.fence = l.fence /\ k.claimed = l.claimed
        /\ k.started = l.started /\ k.expires = Stamp(l)
        /\ k.updated = Stamp(l) /\ k.released = Stamp(l)
    BY <1>2 DEF Invalidated, Lease
  <2>2. Stamp(l) \in Nat /\ l.updated <= Stamp(l)
    BY DEF Stamp, Lease
  <2> QED BY <2>1, <2>2 DEF LeaseAudit, Lease, Never
<1> QED BY <1>1, <1>2

\* The terminal write of finalizeGeneration, cancelGeneration, failGeneration.
LEMMA TerminateAudit ==
  ASSUME TypeOK, AuditClean, NEW g \in Generation, Active(g),
         NEW s \in {"completed", "cancelled", "failed"}, Terminate(g, s)
  PROVE  AuditClean'
<1> SUFFICES ASSUME NEW h \in Generation
             PROVE  /\ lease'[h].phase # "none" => LeaseAudit(lease'[h]) /\ status'[h] # "absent"
                    /\ lease'[h].phase \in {"claimed", "dispatch_started"} => Active(h)'
                    /\ status'[h] = "in_progress" <=> current'[ThreadOf[h]] = h
  BY DEF AuditClean, LeaseAudit
<1>1. /\ now \in Nat /\ lease[h] \in Lease /\ lease[g] \in Lease
      /\ ThreadOf[h] \in Thread /\ ThreadOf[g] \in Thread
      /\ NoGeneration # h
  BY TimeAssumption, ThreadAssumption, NullAssumption DEF TypeOK
<1>2. CASE h = g
  <2>1. /\ lease'[g] = Invalidated(lease[g], "released")
        /\ status'[g] = s /\ current'[ThreadOf[g]] = NoGeneration
    BY <1>1 DEF Terminate, TypeOK
  <2>2. CASE lease[g].phase = "none"
    <3>1. lease'[g] = lease[g]
      BY <2>1, <2>2 DEF Invalidated
    <3> QED BY <1>1, <1>2, <2>1, <2>2, <3>1
  <2>3. CASE lease[g].phase # "none"
    <3>1. LeaseAudit(lease'[g]) /\ lease'[g].phase \in {"released", "interrupted"}
      BY <1>1, <2>1, <2>3, InvalidatedRow DEF AuditClean
    <3> QED BY <1>1, <1>2, <2>1, <3>1
  <2> QED BY <2>2, <2>3
<1>3. CASE h # g
  <2>1. lease'[h] = lease[h] /\ status'[h] = status[h]
    BY <1>3 DEF Terminate, TypeOK
  <2>2. current'[ThreadOf[h]] = h <=> current[ThreadOf[h]] = h
    BY <1>1, <1>3 DEF Terminate, TypeOK, Active
  <2> QED BY <2>1, <2>2 DEF AuditClean, Active
<1> QED BY <1>2, <1>3

\* A step that leaves generations and threads alone and moves every row to an
\* audited row that is unreleased only for an active generation.
LEMMA RowsAudit ==
  ASSUME TypeOK, AuditClean, UNCHANGED <<current, status>>,
         \A h \in Generation :
           \/ lease'[h] = lease[h]
           \/ /\ status[h] # "absent"
              /\ LeaseAudit(lease'[h])
              /\ Active(h) \/ lease'[h].phase \in {"released", "interrupted"}
  PROVE  AuditClean'
BY DEF AuditClean, Active, LeaseAudit

LEMMA AuditStep == TypeOK /\ AuditClean /\ [Next]_vars => AuditClean'
<1> SUFFICES ASSUME TypeOK, AuditClean, [Next]_vars
             PROVE  AuditClean'
  OBVIOUS
<1>0. /\ now \in Nat
      /\ \A h \in Generation : lease[h] \in Lease /\ Reconciled[h] \in Lease
  BY TimeAssumption, ReconciledType DEF TypeOK
<1>a. \A h \in Generation :
        \/ Reconciled[h] = lease[h]
        \/ /\ status[h] # "absent" /\ LeaseAudit(Reconciled[h])
           /\ Reconciled[h].phase = "interrupted"
  <2> SUFFICES ASSUME NEW h \in Generation, Reconciled[h] # lease[h]
               PROVE  /\ status[h] # "absent" /\ LeaseAudit(Reconciled[h])
                      /\ Reconciled[h].phase = "interrupted"
    OBVIOUS
  <2>1. Expired(lease[h]) /\ Reconciled[h] = Interrupted(lease[h])
    BY DEF Reconciled
  <2>2. lease[h].phase = "dispatch_started" /\ Reconciled[h].phase = "interrupted"
    BY <1>0, <2>1 DEF Expired, Interrupted, Lease
  <2> QED BY <2>2, ReconciledRow DEF AuditClean
<1>1. CASE Tick
  BY <1>1 DEF Tick, AuditClean, Active, LeaseAudit
<1>2. ASSUME NEW g \in Generation, StartGeneration(g)
      PROVE  AuditClean'
  <2>1. lease[g].phase = "none"
    BY <1>2 DEF StartGeneration, AuditClean
  <2>2. \A h \in Generation : h # g =>
          /\ status'[h] = status[h]
          /\ current'[ThreadOf[h]] = h <=> current[ThreadOf[h]] = h
    BY <1>2, ThreadAssumption, NullAssumption DEF StartGeneration, TypeOK
  <2>3. status'[g] = "in_progress" /\ current'[ThreadOf[g]] = g
    BY <1>2, ThreadAssumption DEF StartGeneration, TypeOK
  <2>4. lease' = lease
    BY <1>2 DEF StartGeneration
  <2> QED BY <2>1, <2>2, <2>3, <2>4 DEF AuditClean, Active, LeaseAudit
<1>3. ASSUME NEW g \in Generation, Cancel(g)
      PROVE  AuditClean'
  BY <1>3, TerminateAudit DEF Cancel
<1>4. ASSUME NEW g \in Generation,
             \/ \E o \in Owner : ClaimExisting(g, o)
             \/ \E p \in Proof : MarkBusy(g, p)
      PROVE  AuditClean'
  <2>1. lease' = Reconciled /\ UNCHANGED <<current, status>>
    BY <1>4 DEF ClaimExisting, MarkBusy
  <2> QED BY <2>1, <1>a, RowsAudit
<1>5. ASSUME NEW g \in Generation, NEW o \in Owner, NEW ttl \in Ttl, Claim(g, o, ttl)
      PROVE  AuditClean'
  <2> DEFINE l == Reconciled[g]  at == Stamp(l)
  <2>1. at \in Nat /\ l.fence \in Nat /\ at < at + ttl
    BY <1>0, TtlAssumption DEF Stamp, Lease
  <2>2. lease'[g] = [phase |-> "claimed", owner |-> o, fence |-> l.fence + 1,
                     expires |-> at + ttl, claimed |-> at, started |-> Never,
                     updated |-> at, released |-> Never]
    BY <1>5 DEF Claim, Reconciled
  <2>3. LeaseAudit(lease'[g])
    BY <2>1, <2>2 DEF LeaseAudit
  <2>4. \A h \in Generation : h # g => lease'[h] = Reconciled[h]
    BY <1>5 DEF Claim, Reconciled
  <2>5. Active(g) /\ status[g] # "absent" /\ UNCHANGED <<current, status>>
    BY <1>5 DEF Claim, Active
  <2> QED BY <2>3, <2>4, <2>5, <1>a, RowsAudit
<1>6. ASSUME NEW g \in Generation, NEW p \in Proof, MarkDispatchStarted(g, p)
      PROVE  AuditClean'
  <2>1. lease'[g] = Dispatched(lease[g])
    BY <1>6 DEF MarkDispatchStarted, Reconciled
  <2>2. lease[g].phase = "claimed" /\ LeaseAudit(lease[g]) /\ now < lease[g].expires
    BY <1>6, <1>0 DEF MarkDispatchStarted, Holds, Live, AuditClean, Lease
  <2>3. LeaseAudit(lease'[g])
    BY <1>0, <2>1, <2>2 DEF Dispatched, LeaseAudit, Lease, Stamp, Never
  <2>4. \A h \in Generation : h # g => lease'[h] = Reconciled[h]
    BY <1>6 DEF MarkDispatchStarted, Reconciled
  <2>5. Active(g) /\ status[g] # "absent" /\ UNCHANGED <<current, status>>
    BY <1>6 DEF MarkDispatchStarted, Active
  <2> QED BY <2>3, <2>4, <2>5, <1>a, RowsAudit
<1>7. ASSUME NEW g \in Generation, NEW p \in Proof, NEW ttl \in Ttl, Renew(g, p, ttl)
      PROVE  AuditClean'
  <2> DEFINE at == Stamp(lease[g])
  <2>1. at \in Nat /\ at < at + ttl /\ lease[g].updated <= at
    BY <1>0, TtlAssumption DEF Stamp, Lease
  <2>2. lease'[g] = [lease[g] EXCEPT !.expires = at + ttl, !.updated = at]
    BY <1>7 DEF Renew, TypeOK
  <2>3. lease[g].phase \in {"claimed", "dispatch_started"} /\ LeaseAudit(lease[g])
    BY <1>7 DEF Renew, Holds, AuditClean
  <2>4. LeaseAudit(lease'[g])
    BY <1>0, <2>1, <2>2, <2>3 DEF LeaseAudit, Lease, Never
  <2>5. \A h \in Generation : h # g => lease'[h] = lease[h]
    BY <1>7 DEF Renew, TypeOK
  <2>6. Active(g) /\ status[g] # "absent" /\ UNCHANGED <<current, status>>
    BY <1>7 DEF Renew, Active
  <2> QED BY <2>4, <2>5, <2>6, RowsAudit
<1>8. ASSUME NEW g \in Generation, NEW p \in Proof, Release(g, p)
      PROVE  AuditClean'
  <2> DEFINE target == IF lease[g].phase = "dispatch_started" THEN "interrupted" ELSE "released"
  <2>1. lease[g].phase \in {"claimed", "dispatch_started"} /\ LeaseAudit(lease[g])
    BY <1>8 DEF Release, Holds, AuditClean
  <2>2. lease'[g] = Invalidated(lease[g], target)
    BY <1>8 DEF Release, TypeOK
  <2>3. target = "interrupted" => lease[g].started # Never
    BY <2>1 DEF LeaseAudit
  <2>4. target \in {"released", "interrupted"}
    OBVIOUS
  <2> HIDE DEF target
  <2>5. LeaseAudit(lease'[g]) /\ lease'[g].phase \in {"released", "interrupted"}
    BY <1>0, <2>1, <2>2, <2>3, <2>4, InvalidatedRow
  <2>6. \A h \in Generation : h # g => lease'[h] = lease[h]
    BY <1>8 DEF Release, TypeOK
  <2>7. status[g] # "absent" /\ UNCHANGED <<current, status>>
    BY <1>8 DEF Release, Active
  <2> QED BY <2>5, <2>6, <2>7, RowsAudit
<1>9. ASSUME NEW g \in Generation, NEW p \in Proof \cup {NoProof}, AppendDelta(g, p)
      PROVE  AuditClean'
  BY <1>9 DEF AppendDelta, AuditClean, Active, LeaseAudit
<1>10. ASSUME NEW g \in Generation, NEW p \in Proof \cup {NoProof}, Finalize(g, p)
       PROVE  AuditClean'
  BY <1>10, TerminateAudit DEF Finalize
<1>11. ASSUME NEW g \in Generation, NEW p \in Proof \cup {NoProof},
              NEW code \in FailureCode, Fail(g, p, code)
       PROVE  AuditClean'
  BY <1>11, TerminateAudit DEF Fail
<1>12. CASE UNCHANGED vars
  BY <1>12 DEF vars, AuditClean, Active, LeaseAudit
<1> QED BY <1>1, <1>2, <1>3, <1>4, <1>5, <1>6, <1>7, <1>8, <1>9, <1>10, <1>11, <1>12
        DEF Next

\* No sequence of calls, expiries and clock changes leaves a row that
\* auditDispatchLease or auditThread reports as corrupt.
THEOREM AuditAlwaysClean == Spec => []AuditClean
<1>1. Init => AuditClean
  BY NullAssumption, ThreadAssumption DEF Init, AuditClean, NoLease
<1> QED BY <1>1, AuditStep, TypeCorrect, PTL DEF Spec
-----------------------------------------------------------------------------
(***************************************************************************)
(* One dispatch at a time, one dispatch per generation, one writer per     *)
(* journal.  The strengthening is GrantBook: a row that was never          *)
(* dispatched has no grant, and a row that is dispatched holds the one     *)
(* proof that was granted.                                                 *)
(***************************************************************************)
Holder(l) == [owner |-> l.owner, fence |-> l.fence]

GrantBook ==
  \A g \in Generation :
    /\ lease[g].phase = "none" => lease[g].started = Never
    /\ lease[g].started = Never => grants[g] = <<>>
    /\ lease[g].phase = "dispatch_started" => grants[g] = <<Holder(lease[g])>>

IInv == TypeOK /\ AuditClean /\ OneActiveDispatch /\ AtMostOneDispatch
          /\ GrantBook /\ SingleWriter

\* How one step may change one row, its journal and its grants.
Kept(g)    == /\ lease'[g] = lease[g]
              /\ grants'[g] = grants[g] /\ journal'[g] = journal[g]
Ended(g)   == /\ lease'[g].phase \in {"released", "interrupted"}
              /\ lease'[g].started = lease[g].started
              /\ grants'[g] = grants[g] /\ journal'[g] = journal[g]
Claimed(g) == /\ lease'[g].phase = "claimed" /\ lease[g].started = Never
              /\ lease'[g].started = Never
              /\ grants'[g] = grants[g] /\ journal'[g] = journal[g]
Granted(g) == /\ lease'[g].phase = "dispatch_started"
              /\ lease[g].phase = "claimed"
              /\ lease'[g].started # Never
              /\ grants'[g] = Append(grants[g], Holder(lease'[g]))
              /\ journal'[g] = journal[g]
              /\ \A h \in Generation \ {g} : lease'[h].phase # "dispatch_started"
Renewed(g) == /\ lease'[g].phase = lease[g].phase
              /\ lease'[g].phase \in {"claimed", "dispatch_started"}
              /\ Holder(lease'[g]) = Holder(lease[g])
              /\ lease'[g].started = lease[g].started
              /\ grants'[g] = grants[g] /\ journal'[g] = journal[g]
Written(g) == /\ lease'[g] = lease[g] /\ grants'[g] = grants[g]
              /\ \/ /\ lease[g].phase = "none"
                    /\ journal'[g] = Append(journal[g], NoProof)
                 \/ /\ lease[g].phase = "dispatch_started"
                    /\ journal'[g] = Append(journal[g], Holder(lease[g]))

RowStep(g) == Kept(g) \/ Ended(g) \/ Claimed(g) \/ Granted(g) \/ Renewed(g) \/ Written(g)

LEMMA ReconciledStep ==
  ASSUME TypeOK, AuditClean, NEW g \in Generation, lease'[g] = Reconciled[g],
         grants'[g] = grants[g], journal'[g] = journal[g]
  PROVE  Kept(g) \/ Ended(g)
<1>1. CASE Reconciled[g] = lease[g]
  BY <1>1 DEF Kept
<1>2. CASE Expired(lease[g]) /\ Reconciled[g] = Interrupted(lease[g])
  <2>1. lease[g] \in Lease
    BY DEF TypeOK
  <2>2. Reconciled[g].phase = "interrupted"
    BY <1>2, <2>1 DEF Interrupted, Lease
  <2> QED BY <2>2, ReconciledRow DEF Ended
<1> QED BY <1>1, <1>2, ReconciledRow

LEMMA TerminateStep ==
  ASSUME TypeOK, AuditClean, NEW g \in Generation, NEW s \in Status, Terminate(g, s),
         NEW h \in Generation
  PROVE  Kept(h) \/ Ended(h)
<1>1. now \in Nat /\ lease[g] \in Lease
  BY TimeAssumption DEF TypeOK
<1>2. grants'[h] = grants[h] /\ journal'[h] = journal[h]
  BY DEF Terminate
<1>3. CASE h # g \/ lease[g].phase = "none"
  <2>1. lease'[h] = lease[h]
    BY <1>3 DEF Terminate, TypeOK, Invalidated
  <2> QED BY <1>2, <2>1 DEF Kept
<1>4. CASE h = g /\ lease[g].phase # "none"
  <2>1. lease'[g] = Invalidated(lease[g], "released")
    BY DEF Terminate, TypeOK
  <2> QED BY <1>1, <1>2, <1>4, <2>1, InvalidatedRow DEF Ended, AuditClean
<1> QED BY <1>3, <1>4

\* A proof that #requireGenerationLease accepts is the holder's.
LEMMA HolderProof ==
  ASSUME NEW g \in Generation, NEW p \in Proof, NEW phases, Holds(g, p, phases)
  PROVE  p = Holder(lease[g])
BY DEF Holds, Holder, Proof

LEMMA StepRows ==
  ASSUME TypeOK, AuditClean, [Next]_vars, NEW h \in Generation
  PROVE  RowStep(h)
<1>0. /\ now \in Nat
      /\ \A g \in Generation : lease[g] \in Lease /\ Reconciled[g] \in Lease
  BY TimeAssumption, ReconciledType DEF TypeOK
<1>1. CASE Tick
  BY <1>1 DEF Tick, RowStep, Kept
<1>2. ASSUME NEW g \in Generation, StartGeneration(g)
      PROVE  RowStep(h)
  BY <1>2 DEF StartGeneration, RowStep, Kept
<1>3. ASSUME NEW g \in Generation, Cancel(g)
      PROVE  RowStep(h)
  BY <1>3, TerminateStep DEF Cancel, Status, RowStep
<1>4. ASSUME NEW g \in Generation,
             \/ \E o \in Owner : ClaimExisting(g, o)
             \/ \E p \in Proof : MarkBusy(g, p)
      PROVE  RowStep(h)
  BY <1>4, ReconciledStep DEF ClaimExisting, MarkBusy, RowStep
<1>5. ASSUME NEW g \in Generation, NEW o \in Owner, NEW ttl \in Ttl, Claim(g, o, ttl)
      PROVE  RowStep(h)
  <2>1. grants'[h] = grants[h] /\ journal'[h] = journal[h]
    BY <1>5 DEF Claim
  <2>2. CASE h = g
    <3>1. lease'[h].phase = "claimed" /\ lease'[h].started = Never
      BY <1>5, <2>2 DEF Claim, Reconciled
    <3>2. lease[h].started = Never
      BY <1>5, <2>2, ReconciledRow DEF Claim
    <3> QED BY <2>1, <3>1, <3>2 DEF RowStep, Claimed
  <2>3. CASE h # g
    <3>1. lease'[h] = Reconciled[h]
      BY <1>5, <2>3 DEF Claim, Reconciled
    <3> QED BY <2>1, <3>1, ReconciledStep DEF RowStep
  <2> QED BY <2>2, <2>3
<1>6. ASSUME NEW g \in Generation, NEW p \in Proof, MarkDispatchStarted(g, p)
      PROVE  RowStep(h)
  <2>1. /\ lease'[g] = Dispatched(lease[g]) /\ journal' = journal
        /\ grants' = [grants EXCEPT ![g] = Append(@, p)]
        /\ \A k \in Generation \ {g} : lease'[k] = Reconciled[k]
    BY <1>6 DEF MarkDispatchStarted, Reconciled
  <2>2. CASE h = g
    <3>1. p = Holder(lease[g]) /\ lease[g].phase = "claimed"
      BY <1>6, HolderProof DEF MarkDispatchStarted, Holds
    <3>2. /\ lease'[g].phase = "dispatch_started" /\ lease'[g].started = Stamp(lease[g])
          /\ Holder(lease'[g]) = Holder(lease[g])
      BY <1>0, <2>1 DEF Dispatched, Lease, Holder
    <3>3. lease'[g].started # Never
      BY <1>0, <3>2 DEF Stamp, Lease, Never
    <3>4. \A k \in Generation \ {g} : lease'[k].phase # "dispatch_started"
      <4> SUFFICES ASSUME NEW k \in Generation \ {g}
                   PROVE  Reconciled[k].phase # "dispatch_started"
        BY <2>1
      <4>1. Reconciled[k].phase = "dispatch_started" => Reconciled[k].released = Never
        BY ReconciledRow DEF LeaseAudit
      <4> QED BY <1>6, <4>1 DEF MarkDispatchStarted, DispatchBusy
    <3>5. grants'[g] = Append(grants[g], Holder(lease'[g]))
      BY <2>1, <3>1, <3>2 DEF TypeOK
    <3> QED BY <2>1, <2>2, <3>1, <3>2, <3>3, <3>4, <3>5 DEF RowStep, Granted
  <2>3. CASE h # g
    BY <2>1, <2>3, ReconciledStep DEF RowStep
  <2> QED BY <2>2, <2>3
<1>7. ASSUME NEW g \in Generation, NEW p \in Proof, NEW ttl \in Ttl, Renew(g, p, ttl)
      PROVE  RowStep(h)
  <2>1. CASE h = g
    <3>1. lease'[g] = [lease[g] EXCEPT !.expires = Stamp(lease[g]) + ttl,
                                       !.updated = Stamp(lease[g])]
      BY <1>7 DEF Renew, TypeOK
    <3>2. /\ lease'[g].phase = lease[g].phase /\ Holder(lease'[g]) = Holder(lease[g])
          /\ lease'[g].started = lease[g].started
      BY <1>0, <3>1 DEF Lease, Holder
    <3> QED BY <1>7, <2>1, <3>2 DEF RowStep, Renewed, Renew, Holds
  <2>2. CASE h # g
    BY <1>7, <2>2 DEF Renew, TypeOK, RowStep, Kept
  <2> QED BY <2>1, <2>2
<1>8. ASSUME NEW g \in Generation, NEW p \in Proof, Release(g, p)
      PROVE  RowStep(h)
  <2>1. CASE h = g
    <3> DEFINE target == IF lease[g].phase = "dispatch_started" THEN "interrupted" ELSE "released"
    <3>1. lease[g].phase \in {"claimed", "dispatch_started"} /\ LeaseAudit(lease[g])
      BY <1>8 DEF Release, Holds, AuditClean
    <3>2. lease'[g] = Invalidated(lease[g], target)
      BY <1>8 DEF Release, TypeOK
    <3>3. /\ target \in {"released", "interrupted"}
          /\ target = "interrupted" => lease[g].started # Never
      BY <3>1 DEF LeaseAudit
    <3>4. grants'[h] = grants[h] /\ journal'[h] = journal[h]
      BY <1>8 DEF Release
    <3> HIDE DEF target
    <3> QED BY <1>0, <2>1, <3>1, <3>2, <3>3, <3>4, InvalidatedRow DEF RowStep, Ended
  <2>2. CASE h # g
    BY <1>8, <2>2 DEF Release, TypeOK, RowStep, Kept
  <2> QED BY <2>1, <2>2
<1>9. ASSUME NEW g \in Generation, NEW p \in Proof \cup {NoProof}, AppendDelta(g, p)
      PROVE  RowStep(h)
  <2>1. CASE h # g
    BY <1>9, <2>1 DEF AppendDelta, TypeOK, RowStep, Kept
  <2>2. CASE h = g
    <3>1. /\ journal'[g] = Append(journal[g], p)
          /\ lease'[g] = lease[g] /\ grants'[g] = grants[g]
      BY <1>9 DEF AppendDelta, TypeOK
    <3>2. CASE lease[g].phase = "none"
      BY <1>9, <2>2, <3>1, <3>2 DEF AppendDelta, Admits, RowStep, Written
    <3>3. CASE lease[g].phase # "none"
      <4>1. Holds(g, p, {"dispatch_started"})
        BY <1>9, <3>3 DEF AppendDelta, Admits
      <4>2. lease[g].phase = "dispatch_started" /\ p \in Proof
        BY <4>1 DEF Holds
      <4>3. p = Holder(lease[g])
        BY <4>1, <4>2, HolderProof
      <4> QED BY <2>2, <3>1, <4>2, <4>3 DEF RowStep, Written
    <3> QED BY <3>2, <3>3
  <2> QED BY <2>1, <2>2
<1>10. ASSUME NEW g \in Generation, NEW p \in Proof \cup {NoProof}, Finalize(g, p)
       PROVE  RowStep(h)
  BY <1>10, TerminateStep DEF Finalize, Status, RowStep
<1>11. ASSUME NEW g \in Generation, NEW p \in Proof \cup {NoProof},
              NEW code \in FailureCode, Fail(g, p, code)
       PROVE  RowStep(h)
  BY <1>11, TerminateStep DEF Fail, Status, RowStep
<1>12. CASE UNCHANGED vars
  BY <1>12 DEF vars, RowStep, Kept
<1> QED BY <1>1, <1>2, <1>3, <1>4, <1>5, <1>6, <1>7, <1>8, <1>9, <1>10, <1>11, <1>12
        DEF Next

LEMMA GrantStep ==
  ASSUME IInv, [Next]_vars
  PROVE  GrantBook' /\ AtMostOneDispatch'
<1> SUFFICES ASSUME NEW g \in Generation
             PROVE  /\ lease'[g].phase = "none" => lease'[g].started = Never
                    /\ lease'[g].started = Never => grants'[g] = <<>>
                    /\ lease'[g].phase = "dispatch_started" => grants'[g] = <<Holder(lease'[g])>>
                    /\ Len(grants'[g]) <= 1
  BY DEF GrantBook, AtMostOneDispatch, Holder
<1>1. RowStep(g)
  BY StepRows DEF IInv
<1>2. /\ lease[g].phase = "none" => lease[g].started = Never
      /\ lease[g].started = Never => grants[g] = <<>>
      /\ lease[g].phase = "dispatch_started" => grants[g] = <<Holder(lease[g])>>
      /\ Len(grants[g]) <= 1
      /\ lease[g].phase = "claimed" => lease[g].started = Never
  BY DEF IInv, GrantBook, AtMostOneDispatch, AuditClean, LeaseAudit
<1>3. CASE Kept(g) \/ Ended(g) \/ Claimed(g) \/ Renewed(g) \/ Written(g)
  BY <1>2, <1>3 DEF Kept, Ended, Claimed, Renewed, Written
<1>4. CASE Granted(g)
  <2>1. grants[g] = <<>> /\ grants'[g] = Append(grants[g], Holder(lease'[g]))
    BY <1>2, <1>4 DEF Granted
  <2>2. grants'[g] = <<Holder(lease'[g])>> /\ Len(grants'[g]) = 1
    BY <2>1
  <2> QED BY <1>4, <2>2 DEF Granted
<1> QED BY <1>1, <1>3, <1>4 DEF RowStep

LEMMA ActiveDispatchStep ==
  ASSUME IInv, [Next]_vars
  PROVE  OneActiveDispatch'
<1> SUFFICES ASSUME NEW g \in Generation, NEW h \in Generation, g # h,
                    lease'[g].phase = "dispatch_started",
                    lease'[h].phase = "dispatch_started"
             PROVE  FALSE
  BY DEF OneActiveDispatch
<1>1. RowStep(g) /\ RowStep(h)
  BY StepRows DEF IInv
<1>2. ~Granted(g) /\ ~Granted(h)
  BY DEF Granted
<1>3. lease[g].phase = "dispatch_started" /\ lease[h].phase = "dispatch_started"
  BY <1>1, <1>2 DEF RowStep, Kept, Ended, Claimed, Renewed, Written
<1> QED BY <1>3 DEF IInv, OneActiveDispatch

LEMMA WriterStep ==
  ASSUME IInv, [Next]_vars
  PROVE  SingleWriter'
<1> SUFFICES ASSUME NEW g \in Generation, NEW i \in DOMAIN journal'[g],
                    journal'[g][i] # NoProof
             PROVE  /\ grants'[g] = <<journal'[g][i]>>
                    /\ \A j \in DOMAIN journal'[g] : i <= j => journal'[g][j] = journal'[g][i]
  BY DEF SingleWriter
<1>1. RowStep(g)
  BY StepRows DEF IInv
<1>2. /\ journal[g] \in Seq(Proof \cup {NoProof})
      /\ lease[g].phase = "none" => grants[g] = <<>>
      /\ lease[g].phase = "dispatch_started" => grants[g] = <<Holder(lease[g])>>
      /\ \A k \in DOMAIN journal[g] : journal[g][k] # NoProof =>
           /\ grants[g] = <<journal[g][k]>>
           /\ \A j \in DOMAIN journal[g] : k <= j => journal[g][j] = journal[g][k]
  BY DEF IInv, TypeOK, GrantBook, SingleWriter
<1>3. CASE Kept(g) \/ Ended(g) \/ Claimed(g) \/ Renewed(g)
  BY <1>2, <1>3 DEF Kept, Ended, Claimed, Renewed
<1>4. CASE Granted(g)
  <2>1. lease[g].started = Never
    BY <1>4 DEF Granted, IInv, AuditClean, LeaseAudit
  <2>2. grants[g] = <<>> /\ journal'[g] = journal[g]
    BY <1>4, <2>1 DEF Granted, IInv, GrantBook
  <2>3. grants[g] = <<journal[g][i]>>
    BY <1>2, <2>2
  <2> QED BY <2>2, <2>3
<1>5. CASE Written(g)
  <2>1. grants'[g] = grants[g]
    BY <1>5 DEF Written
  <2>2. CASE lease[g].phase = "none" /\ journal'[g] = Append(journal[g], NoProof)
    <3>1. i \in DOMAIN journal[g] /\ journal'[g][i] = journal[g][i]
      BY <1>2, <2>2
    <3>2. grants[g] = <<>> /\ grants[g] = <<journal[g][i]>>
      BY <1>2, <2>2, <3>1
    <3>3. Len(grants[g]) = 0 /\ Len(grants[g]) = 1
      BY <3>2
    <3> QED BY <3>3
  <2>3. CASE /\ lease[g].phase = "dispatch_started"
             /\ journal'[g] = Append(journal[g], Holder(lease[g]))
    <3> DEFINE p == Holder(lease[g])  n == Len(journal[g])
    <3>1. /\ DOMAIN journal'[g] = 1 .. n + 1 /\ DOMAIN journal[g] = 1 .. n
          /\ n \in Nat
          /\ journal'[g][n + 1] = p
          /\ \A k \in 1 .. n : journal'[g][k] = journal[g][k]
      BY <1>2, <2>3
    <3>2. grants[g] = <<p>>
      BY <1>2, <2>3
    <3> HIDE DEF p, n
    <3>3. journal'[g][i] = p
      BY <1>2, <3>1, <3>2
    <3>4. ASSUME NEW j \in DOMAIN journal'[g], i <= j
          PROVE  journal'[g][j] = p
      <4>1. CASE j = n + 1
        BY <3>1, <4>1
      <4>2. CASE j \in 1 .. n
        <5>1. i \in 1 .. n
          BY <3>1, <3>4, <4>2
        <5>2. journal[g][j] = journal[g][i]
          BY <1>2, <3>1, <3>4, <4>2, <5>1
        <5> QED BY <3>1, <3>3, <4>2, <5>1, <5>2
      <4> QED BY <3>1, <4>1, <4>2
    <3> QED BY <2>1, <3>2, <3>3, <3>4
  <2> QED BY <1>5, <2>2, <2>3 DEF Written
<1> QED BY <1>1, <1>3, <1>4, <1>5 DEF RowStep

\* The inductive invariant of the leases: what was authorised to be dispatched, and in which
\* phase, fence and owner that left the lease.
THEOREM Inductive == Spec => []IInv
<1>1. Init => AtMostOneDispatch /\ OneActiveDispatch /\ GrantBook /\ SingleWriter
  BY DEF Init, AtMostOneDispatch, OneActiveDispatch, GrantBook, SingleWriter, NoLease
<1>2. TypeOK /\ AuditClean /\ IInv /\ [Next]_vars /\ TypeOK' /\ AuditClean' => IInv'
  BY GrantStep, ActiveDispatchStep, WriterStep DEF IInv
<1>3. TypeOK /\ AuditClean /\ AtMostOneDispatch /\ OneActiveDispatch /\ GrantBook
        /\ SingleWriter => IInv
  BY DEF IInv
<1> QED BY <1>1, <1>2, <1>3, TypeCorrect, AuditAlwaysClean, PTL DEF Spec

\* At most one dispatched lease exists in the whole store
\* (markGenerationDispatchStarted reconciles, then looks for another one).
THEOREM OneActiveDispatchAlways == Spec => []OneActiveDispatch
<1>1. IInv => OneActiveDispatch
  BY DEF IInv
<1> QED BY <1>1, Inductive, PTL

\* markGenerationDispatchStarted authorises a generation at most once.
THEOREM AtMostOneDispatchAlways == Spec => []AtMostOneDispatch
<1>1. IInv => AtMostOneDispatch
  BY DEF IInv
<1> QED BY <1>1, Inductive, PTL

\* A delta journal holds the output of at most one dispatch.
THEOREM SingleWriterAlways == Spec => []SingleWriter
<1>1. IInv => SingleWriter
  BY DEF IInv
<1> QED BY <1>1, Inductive, PTL
-----------------------------------------------------------------------------
(***************************************************************************)
(* What a step may never do to one row.                                    *)
(***************************************************************************)
Monotonic(old, new) == FenceMonotonic(old, new) /\ PhaseMonotonic(old, new)

LEMMA SameRowMonotonic ==
  ASSUME NEW l \in Lease, l.phase # "none"
  PROVE  Monotonic(l, l)
BY DEF Monotonic, FenceMonotonic, PhaseMonotonic, Lease, Phase

LEMMA ReconciledMonotonic ==
  ASSUME TypeOK, AuditClean, NEW g \in Generation, lease[g].phase # "none"
  PROVE  Monotonic(lease[g], Reconciled[g])
<1>1. lease[g] \in Lease /\ now \in Nat
  BY TimeAssumption DEF TypeOK
<1>2. CASE Reconciled[g] = lease[g]
  BY <1>1, <1>2, SameRowMonotonic
<1>3. CASE Expired(lease[g]) /\ Reconciled[g] = Interrupted(lease[g])
  <2>1. /\ lease[g].phase = "dispatch_started" /\ Reconciled[g].phase = "interrupted"
        /\ Reconciled[g].fence = lease[g].fence + 1
        /\ Reconciled[g].started = lease[g].started
        /\ Reconciled[g].released = now
    BY <1>1, <1>3 DEF Interrupted, Expired, Lease
  <2> QED BY <1>1, <2>1 DEF Monotonic, FenceMonotonic, PhaseMonotonic, Lease, Never
<1> QED BY <1>2, <1>3, ReconciledRow

LEMMA InvalidatedMonotonic ==
  ASSUME now \in Nat, NEW l \in Lease, LeaseAudit(l), l.phase # "none",
         NEW phase \in {"released", "interrupted"},
         phase = "interrupted" => l.phase = "dispatch_started"
  PROVE  Monotonic(l, Invalidated(l, phase))
<1>1. CASE l.released # Never
  BY <1>1, SameRowMonotonic DEF Invalidated
<1>2. CASE l.released = Never
  <2> DEFINE k == Invalidated(l, phase)
  <2>1. /\ k.phase = phase /\ k.fence = l.fence /\ k.owner = l.owner
        /\ k.started = l.started /\ k.released = Stamp(l)
    BY <1>2 DEF Invalidated, Lease
  <2>2. l.phase \in {"claimed", "dispatch_started"} /\ Stamp(l) # Never
    BY <1>2 DEF LeaseAudit, Lease, Phase, Stamp, Never
  <2> HIDE DEF k
  <2>3. Monotonic(l, k)
    BY <1>2, <2>1, <2>2 DEF Monotonic, FenceMonotonic, PhaseMonotonic, Lease
  <2> QED BY <2>3 DEF k
<1> QED BY <1>1, <1>2

LEMMA TerminateMonotonic ==
  ASSUME TypeOK, AuditClean, NEW g \in Generation, NEW s \in Status, Terminate(g, s),
         NEW h \in Generation, lease[h].phase # "none"
  PROVE  /\ Monotonic(lease[h], lease'[h])
         /\ lease[h].phase = "interrupted" => lease'[h] = lease[h]
<1>1. now \in Nat /\ lease[h] \in Lease /\ LeaseAudit(lease[h])
  BY TimeAssumption DEF TypeOK, AuditClean
<1>2. CASE h # g
  BY <1>1, <1>2, SameRowMonotonic DEF Terminate, TypeOK
<1>3. CASE h = g
  <2>1. lease'[g] = Invalidated(lease[g], "released")
    BY DEF Terminate, TypeOK
  <2>2. Monotonic(lease[h], lease'[h])
    BY <1>1, <1>3, <2>1, InvalidatedMonotonic
  <2>3. lease[h].phase = "interrupted" => lease'[h] = lease[h]
    BY <1>1, <1>3, <2>1 DEF Invalidated, LeaseAudit
  <2> QED BY <2>2, <2>3
<1> QED BY <1>2, <1>3

\* Every step that is not a terminal write, row by row.
LEMMA MonotonicStep ==
  ASSUME TypeOK, AuditClean, [Next]_vars, NEW h \in Generation, lease[h].phase # "none"
  PROVE  /\ Monotonic(lease[h], lease'[h])
         /\ lease[h].phase = "interrupted" => lease'[h] = lease[h]
<1>0. /\ now \in Nat /\ LeaseAudit(lease[h])
      /\ \A g \in Generation : lease[g] \in Lease /\ Reconciled[g] \in Lease
  BY TimeAssumption, ReconciledType DEF TypeOK, AuditClean
<1>a. Monotonic(lease[h], lease[h])
  BY <1>0, SameRowMonotonic
<1>b. /\ Monotonic(lease[h], Reconciled[h])
      /\ lease[h].phase = "interrupted" => Reconciled[h] = lease[h]
  BY <1>0, ReconciledMonotonic DEF Reconciled, Expired
<1>1. CASE Tick
  BY <1>1, <1>a DEF Tick
<1>2. ASSUME NEW g \in Generation, StartGeneration(g)
      PROVE  lease'[h] = lease[h]
  BY <1>2 DEF StartGeneration
<1>3. ASSUME NEW g \in Generation, NEW s \in Status, Terminate(g, s)
      PROVE  /\ Monotonic(lease[h], lease'[h])
             /\ lease[h].phase = "interrupted" => lease'[h] = lease[h]
  BY <1>3, TerminateMonotonic
<1>4. ASSUME NEW g \in Generation,
             \/ \E o \in Owner : ClaimExisting(g, o)
             \/ \E p \in Proof : MarkBusy(g, p)
      PROVE  lease'[h] = Reconciled[h]
  BY <1>4 DEF ClaimExisting, MarkBusy
<1>5. ASSUME NEW g \in Generation, NEW o \in Owner, NEW ttl \in Ttl, Claim(g, o, ttl)
      PROVE  \/ lease'[h] = Reconciled[h]
             \/ lease[h].phase # "interrupted" /\ Monotonic(lease[h], lease'[h])
  <2>1. CASE h # g
    BY <1>5, <2>1 DEF Claim, Reconciled
  <2>2. CASE h = g
    <3>1. Reconciled[h] = lease[h]
      <4>1. Reconciled[h].phase # "interrupted" /\ Reconciled[h].phase # "none"
        BY <1>5, <2>2, ReconciledRow DEF Claim
      <4>2. Reconciled[h].started = Never
        BY <1>5, <2>2 DEF Claim
      <4>3. Expired(lease[h]) => lease[h].started # Never
        BY <1>0 DEF Expired, LeaseAudit
      <4> QED BY <4>1, <4>2, <4>3, ReconciledRow
    <3>2. /\ lease'[h].phase = "claimed" /\ lease'[h].fence = lease[h].fence + 1
          /\ lease'[h].started = Never /\ lease[h].started = Never
          /\ lease[h].phase # "interrupted"
      BY <1>5, <2>2, <3>1 DEF Claim, Reconciled
    <3>3. lease[h].phase \in {"claimed", "released"}
      BY <1>0, <3>2 DEF LeaseAudit, Lease, Phase
    <3> QED BY <3>2, <3>3 DEF Monotonic, FenceMonotonic, PhaseMonotonic
  <2> QED BY <2>1, <2>2
<1>6. ASSUME NEW g \in Generation, NEW p \in Proof, MarkDispatchStarted(g, p)
      PROVE  \/ lease'[h] = Reconciled[h]
             \/ lease[h].phase # "interrupted" /\ Monotonic(lease[h], lease'[h])
  <2>1. CASE h # g
    BY <1>6, <2>1 DEF MarkDispatchStarted, Reconciled
  <2>2. CASE h = g
    <3>1. lease'[h] = Dispatched(lease[h])
      BY <1>6, <2>2 DEF MarkDispatchStarted, Reconciled
    <3>2. lease[h].phase = "claimed" /\ lease[h].released = Never
      BY <1>6, <2>2 DEF MarkDispatchStarted, Holds, Live
    <3>3. /\ lease'[h].phase = "dispatch_started" /\ lease'[h].fence = lease[h].fence
          /\ lease'[h].owner = lease[h].owner /\ lease'[h].released = lease[h].released
          /\ lease'[h].started # Never
      BY <1>0, <3>1 DEF Dispatched, Stamp, Lease, Never
    <3> QED BY <1>0, <3>2, <3>3 DEF Monotonic, FenceMonotonic, PhaseMonotonic, Lease
  <2> QED BY <2>1, <2>2
<1>7. ASSUME NEW g \in Generation, NEW p \in Proof, NEW ttl \in Ttl, Renew(g, p, ttl)
      PROVE  \/ lease'[h] = lease[h]
             \/ lease[h].phase # "interrupted" /\ Monotonic(lease[h], lease'[h])
  <2>1. CASE h # g
    BY <1>7, <2>1 DEF Renew, TypeOK
  <2>2. CASE h = g
    <3>1. lease'[h] = [lease[h] EXCEPT !.expires = Stamp(lease[h]) + ttl,
                                       !.updated = Stamp(lease[h])]
      BY <1>7, <2>2 DEF Renew, TypeOK
    <3>2. lease[h].phase \in {"claimed", "dispatch_started"}
      BY <1>7, <2>2 DEF Renew, Holds
    <3>3. /\ lease'[h].phase = lease[h].phase /\ lease'[h].fence = lease[h].fence
          /\ lease'[h].owner = lease[h].owner /\ lease'[h].released = lease[h].released
          /\ lease'[h].started = lease[h].started
      BY <1>0, <3>1 DEF Lease
    <3> QED BY <1>0, <3>2, <3>3 DEF Monotonic, FenceMonotonic, PhaseMonotonic, Lease
  <2> QED BY <2>1, <2>2
<1>8. ASSUME NEW g \in Generation, NEW p \in Proof, Release(g, p)
      PROVE  \/ lease'[h] = lease[h]
             \/ lease[h].phase # "interrupted" /\ Monotonic(lease[h], lease'[h])
  <2>1. CASE h # g
    BY <1>8, <2>1 DEF Release, TypeOK
  <2>2. CASE h = g
    <3> DEFINE target == IF lease[g].phase = "dispatch_started" THEN "interrupted" ELSE "released"
    <3>1. lease[g].phase \in {"claimed", "dispatch_started"}
      BY <1>8 DEF Release, Holds
    <3>2. lease'[g] = Invalidated(lease[g], target)
      BY <1>8 DEF Release, TypeOK
    <3>3. /\ target \in {"released", "interrupted"}
          /\ target = "interrupted" => lease[g].phase = "dispatch_started"
      OBVIOUS
    <3> HIDE DEF target
    <3> QED BY <1>0, <2>2, <3>1, <3>2, <3>3, InvalidatedMonotonic
  <2> QED BY <2>1, <2>2
<1>9. ASSUME NEW g \in Generation, NEW p \in Proof \cup {NoProof}, AppendDelta(g, p)
      PROVE  lease'[h] = lease[h]
  BY <1>9 DEF AppendDelta
<1>10. CASE UNCHANGED vars
  BY <1>10, <1>a DEF vars
<1>11. ASSUME NEW g \in Generation,
              \/ Cancel(g)
              \/ \E p \in Proof \cup {NoProof} :
                   Finalize(g, p) \/ \E code \in FailureCode : Fail(g, p, code)
       PROVE  \E s \in Status : Terminate(g, s)
  BY <1>11 DEF Cancel, Finalize, Fail, Status
<1>12. ASSUME Next PROVE \/ Tick
                         \/ lease'[h] = lease[h]
                         \/ lease'[h] = Reconciled[h]
                         \/ \E g \in Generation, s \in Status : Terminate(g, s)
                         \/ lease[h].phase # "interrupted" /\ Monotonic(lease[h], lease'[h])
  BY <1>12, <1>2, <1>4, <1>5, <1>6, <1>7, <1>8, <1>9, <1>11 DEF Next
<1> QED BY <1>1, <1>3, <1>10, <1>12, <1>a, <1>b

\* No update of a lease row is ever aborted by the two monotonicity triggers
\* of migration 3: the store asks for nothing they refuse.
THEOREM TriggersNeverAbortAlways == Spec => TriggersNeverAbort
<1>1. TypeOK /\ AuditClean /\ [Next]_vars =>
        [\A g \in Generation : lease[g].phase # "none" =>
           FenceMonotonic(lease[g], lease'[g]) /\ PhaseMonotonic(lease[g], lease'[g])]_vars
  BY MonotonicStep DEF Monotonic
<1> QED BY <1>1, TypeCorrect, AuditAlwaysClean, PTL DEF Spec, TriggersNeverAbort

LEMMA InterruptedStep ==
  ASSUME TypeOK, AuditClean, [Next]_vars, NEW h \in Generation, lease[h].phase = "interrupted"
  PROVE  /\ journal'[h] = journal[h]
         /\ status'[h] \in {status[h], "failed", "cancelled"}
<1>0. status[h] # "absent"
  BY DEF AuditClean
<1>1. ASSUME NEW g \in Generation, StartGeneration(g)
      PROVE  journal'[h] = journal[h] /\ status'[h] = status[h]
  BY <1>1, <1>0 DEF StartGeneration, TypeOK
<1>2. ASSUME NEW g \in Generation, NEW s \in {"failed", "cancelled"}, Terminate(g, s)
      PROVE  journal'[h] = journal[h] /\ status'[h] \in {status[h], s}
  BY <1>2 DEF Terminate, TypeOK
<1>3. ASSUME NEW g \in Generation, NEW p \in Proof \cup {NoProof},
             Admits(g, p, {"dispatch_started"})
      PROVE  g # h
  BY <1>3 DEF Admits, Holds
<1>4. ASSUME NEW g \in Generation, NEW p \in Proof \cup {NoProof}, AppendDelta(g, p)
      PROVE  journal'[h] = journal[h] /\ status'[h] = status[h]
  <2>1. g # h
    BY <1>3, <1>4 DEF AppendDelta
  <2> QED BY <1>4, <2>1 DEF AppendDelta, TypeOK
<1>5. ASSUME NEW g \in Generation, NEW p \in Proof \cup {NoProof}, Finalize(g, p)
      PROVE  journal'[h] = journal[h] /\ status'[h] = status[h]
  <2>1. g # h
    BY <1>3, <1>5 DEF Finalize
  <2> QED BY <1>5, <2>1 DEF Finalize, Terminate, TypeOK
<1>6. ASSUME NEW g \in Generation,
             \/ Cancel(g)
             \/ \E p \in Proof \cup {NoProof}, code \in FailureCode : Fail(g, p, code)
      PROVE  \E s \in {"failed", "cancelled"} : Terminate(g, s)
  BY <1>6 DEF Cancel, Fail
<1>7. ASSUME NEW g \in Generation,
             \/ \E o \in Owner : ClaimExisting(g, o) \/ \E ttl \in Ttl : Claim(g, o, ttl)
             \/ \E p \in Proof : \/ MarkDispatchStarted(g, p) \/ MarkBusy(g, p) \/ Release(g, p)
                                 \/ \E ttl \in Ttl : Renew(g, p, ttl)
      PROVE  journal' = journal /\ status' = status
  BY <1>7 DEF ClaimExisting, Claim, MarkDispatchStarted, MarkBusy, Release, Renew
<1>8. CASE Tick \/ UNCHANGED vars
  BY <1>8 DEF Tick, vars
<1> QED BY <1>1, <1>2, <1>4, <1>5, <1>6, <1>7, <1>8 DEF Next

\* An interrupted dispatch can only be failed or cancelled; it never completes,
\* its row is frozen and its journal is closed.
THEOREM InterruptedIsFinalAlways == Spec => InterruptedIsFinal
<1>1. TypeOK /\ AuditClean /\ [Next]_vars =>
        [\A g \in Generation : lease[g].phase = "interrupted" =>
           /\ lease'[g] = lease[g]
           /\ journal'[g] = journal[g]
           /\ status'[g] \in {status[g], "failed", "cancelled"}]_vars
  BY MonotonicStep, InterruptedStep
<1> QED BY <1>1, TypeCorrect, AuditAlwaysClean, PTL DEF Spec, InterruptedIsFinal
-----------------------------------------------------------------------------
(***************************************************************************)
(* The lease implements InferenceTurn.                                     *)
(***************************************************************************)
TurnMap == [g \in Generation |-> TurnOf(g)]
TextMap == [g \in Generation |-> Len(journal[g])]

TurnStep == [Turn!Next]_<<TurnMap, TextMap>>

\* The values of TurnOf, by row.
LEMMA TurnCases ==
  ASSUME TypeOK, AuditClean, NEW g \in Generation
  PROVE  /\ TurnOf(g) = "running" <=> lease[g].phase = "dispatch_started"
         /\ Active(g) /\ lease[g].phase \in {"none", "claimed", "released"} => TurnOf(g) = "pending"
         /\ Active(g) => TurnOf(g) \in {"pending", "running", "lost"}
         /\ status[g] # "in_progress" => TurnOf(g) = status[g]
BY DEF TypeOK, AuditClean, TurnOf, Active, Status, Lease, Phase

\* Expired dispatches are lost, and there is one at most.
LEMMA ReconciledTurn ==
  ASSUME IInv, UNCHANGED <<status, journal>>,
         \A h \in Generation : lease'[h] = Reconciled[h] \/ TurnOf(h)' = TurnOf(h)
  PROVE  TurnStep
<1>1. TextMap' = TextMap
  BY DEF TextMap
<1>2. ASSUME NEW h \in Generation, TurnOf(h)' # TurnOf(h)
      PROVE  TurnOf(h) = "running" /\ TurnOf(h)' = "lost"
  <2>1. lease'[h] = Reconciled[h] /\ lease[h] \in Lease /\ status'[h] = status[h]
    BY <1>2 DEF IInv, TypeOK
  <2>2. lease'[h] # lease[h]
    BY <1>2, <2>1 DEF TurnOf
  <2>3. Expired(lease[h]) /\ lease'[h] = Interrupted(lease[h])
    BY <2>1, <2>2 DEF Reconciled
  <2>4. lease[h].phase = "dispatch_started" /\ lease'[h].phase = "interrupted"
    BY <2>1, <2>3 DEF Expired, Interrupted, Lease
  <2>5. status[h] = "in_progress"
    BY <2>4 DEF IInv, AuditClean, Active
  <2> QED BY <2>1, <2>4, <2>5 DEF TurnOf
<1>3. CASE \A h \in Generation : TurnOf(h)' = TurnOf(h)
  <2>1. TurnMap' = TurnMap
    BY <1>3 DEF TurnMap
  <2> QED BY <1>1, <2>1 DEF TurnStep
<1>4. ASSUME NEW g \in Generation, TurnOf(g)' # TurnOf(g)
      PROVE  TurnStep
  <2>1. \A h \in Generation : h # g => TurnOf(h)' = TurnOf(h)
    BY <1>2, <1>4, TurnCases DEF IInv, OneActiveDispatch
  <2>2. TurnMap[g] = "running" /\ TurnMap' = [TurnMap EXCEPT ![g] = "lost"]
    BY <1>2, <1>4, <2>1 DEF TurnMap
  <2>3. Turn!Lose(g)
    BY <1>1, <2>2 DEF Turn!Lose, TurnMap, TextMap
  <2> QED BY <2>3 DEF TurnStep, Turn!Next
<1> QED BY <1>3, <1>4

LEMMA TerminateTurn ==
  ASSUME IInv, NEW g \in Generation, Active(g), NEW s \in {"completed", "failed", "cancelled"},
         Terminate(g, s),
         s = "completed" => journal[g] # <<>> /\ TurnOf(g) \in {"pending", "running"}
  PROVE  TurnStep
<1>1. TextMap' = TextMap
  BY DEF Terminate, TextMap
<1>2. ASSUME NEW h \in Generation
      PROVE  TurnOf(h)' = IF h = g THEN s ELSE TurnOf(h)
  BY DEF Terminate, TurnOf, IInv, TypeOK
<1>3. TurnMap' = [TurnMap EXCEPT ![g] = s]
  BY <1>2 DEF TurnMap
<1>4. TurnMap[g] \in {"pending", "running", "lost"} /\ TurnMap[g] = TurnOf(g)
  BY TurnCases DEF TurnMap, IInv
<1>5. CASE s = "completed"
  <2>1. TextMap[g] = Len(journal[g]) /\ journal[g] \in Seq(Proof \cup {NoProof})
    BY DEF TextMap, IInv, TypeOK
  <2>2. Len(journal[g]) \in Nat /\ Len(journal[g]) # 0
    BY <1>5, <2>1
  <2>3. TextMap[g] > 0
    BY <2>1, <2>2
  <2>4. Turn!Complete(g)
    BY <1>1, <1>3, <1>4, <1>5, <2>3 DEF Turn!Complete, TurnMap, TextMap
  <2> QED BY <2>4 DEF TurnStep, Turn!Next
<1>6. CASE s \in {"failed", "cancelled"}
  <2>1. Turn!GiveUp(g)
    BY <1>1, <1>3, <1>4, <1>6 DEF Turn!GiveUp, Turn!Open, TurnMap, TextMap
  <2> QED BY <2>1 DEF TurnStep, Turn!Next
<1> QED BY <1>5, <1>6

LEMMA BeginTurn ==
  ASSUME IInv, NEW g \in Generation, StartGeneration(g)
  PROVE  TurnStep
<1>1. TextMap' = TextMap
  BY DEF StartGeneration, TextMap
<1>2. lease[g].phase = "none" /\ ThreadOf[g] \in Thread
  BY ThreadAssumption DEF StartGeneration, IInv, AuditClean
<1>3. ASSUME NEW h \in Generation
      PROVE  TurnOf(h)' = IF h = g THEN "pending" ELSE TurnOf(h)
  BY <1>2 DEF StartGeneration, TurnOf, IInv, TypeOK
<1>4. TurnMap' = [TurnMap EXCEPT ![g] = "pending"]
  BY <1>3 DEF TurnMap
<1>5. TurnMap[g] = "absent"
  BY DEF StartGeneration, TurnMap, TurnOf
<1>6. ASSUME NEW h \in Generation, ThreadOf[h] = ThreadOf[g]
      PROVE  TurnMap[h] \notin Turn!Open
  <2>1. status[h] # "in_progress" /\ status[h] \in Status
    BY <1>6, NullAssumption DEF StartGeneration, IInv, AuditClean, TypeOK
  <2> QED BY <2>1 DEF TurnMap, TurnOf, Status, Turn!Open
<1>7. Turn!Begin(g)
  BY <1>1, <1>4, <1>5, <1>6 DEF Turn!Begin, TurnMap, TextMap
<1> QED BY <1>7 DEF TurnStep, Turn!Next

LEMMA DispatchTurn ==
  ASSUME IInv, NEW g \in Generation, NEW p \in Proof, MarkDispatchStarted(g, p)
  PROVE  TurnStep
<1>1. TextMap' = TextMap /\ UNCHANGED <<status, current>> /\ Active(g)
  BY DEF MarkDispatchStarted, TextMap
<1>2. /\ lease[g] \in Lease /\ lease[g].phase = "claimed"
      /\ lease'[g] = Dispatched(lease[g])
      /\ \A h \in Generation \ {g} : lease'[h] = Reconciled[h]
  BY DEF MarkDispatchStarted, Holds, Reconciled, IInv, TypeOK
<1>3. TurnOf(g) = "pending" /\ TurnOf(g)' = "running"
  <2>1. lease'[g].phase = "dispatch_started"
    BY <1>2 DEF Dispatched, Lease
  <2> QED BY <1>1, <1>2, <2>1, TurnCases DEF TurnOf, Active, IInv
<1>4. ASSUME NEW h \in Generation \ {g}
      PROVE  TurnOf(h)' = IF TurnOf(h) = "running" THEN "lost" ELSE TurnOf(h)
  <2>1. lease[h] \in Lease /\ lease'[h] = Reconciled[h] /\ status'[h] = status[h]
    BY <1>1, <1>2 DEF IInv, TypeOK
  <2>2. CASE TurnOf(h) = "running"
    <3>1. lease[h].phase = "dispatch_started" /\ lease[h].released = Never /\ Active(h)
      BY <2>2, TurnCases DEF IInv, AuditClean, LeaseAudit
    <3>2. Reconciled[h] # lease[h]
      BY <3>1 DEF MarkDispatchStarted, DispatchBusy
    <3>3. Reconciled[h] = Interrupted(lease[h])
      BY <3>2 DEF Reconciled
    <3>4. lease'[h].phase = "interrupted"
      BY <2>1, <3>3 DEF Interrupted, Lease
    <3> QED BY <2>1, <2>2, <3>1, <3>4 DEF TurnOf, Active
  <2>3. CASE TurnOf(h) # "running"
    <3>1. lease[h].phase # "dispatch_started"
      BY <2>3, TurnCases DEF IInv
    <3>2. lease'[h] = lease[h]
      BY <2>1, <3>1 DEF Reconciled, Expired
    <3> QED BY <2>1, <2>3, <3>2 DEF TurnOf
  <2> QED BY <2>2, <2>3
<1>5. TurnMap' = [h \in Generation |->
                   IF h = g THEN "running"
                   ELSE IF TurnMap[h] = "running" THEN "lost" ELSE TurnMap[h]]
  BY <1>3, <1>4 DEF TurnMap
<1>6. TurnMap[g] = "pending"
  BY <1>3 DEF TurnMap
<1>7. Turn!Dispatch(g)
  BY <1>1, <1>5, <1>6 DEF Turn!Dispatch, TurnMap, TextMap
<1> QED BY <1>7 DEF TurnStep, Turn!Next

LEMMA ReleaseTurn ==
  ASSUME IInv, NEW g \in Generation, NEW p \in Proof, Release(g, p)
  PROVE  TurnStep
<1> DEFINE target == IF lease[g].phase = "dispatch_started" THEN "interrupted" ELSE "released"
<1>1. TextMap' = TextMap /\ UNCHANGED <<status, current>> /\ Active(g)
  BY DEF Release, TextMap
<1>2. /\ lease[g] \in Lease /\ lease[g].phase \in {"claimed", "dispatch_started"}
      /\ lease[g].released = Never
      /\ lease'[g] = Invalidated(lease[g], target)
      /\ \A h \in Generation \ {g} : lease'[h] = lease[h]
  BY DEF Release, Holds, Live, IInv, TypeOK
<1> HIDE DEF target
<1>3. lease'[g].phase = target
  BY <1>2 DEF Invalidated, Lease
<1>4. \A h \in Generation : h # g => TurnOf(h)' = TurnOf(h)
  BY <1>1, <1>2 DEF TurnOf
<1>5. CASE lease[g].phase = "dispatch_started"
  <2>1. TurnOf(g) = "running" /\ TurnOf(g)' = "lost"
    BY <1>1, <1>3, <1>5, TurnCases DEF TurnOf, Active, IInv, target
  <2>2. TurnMap[g] = "running" /\ TurnMap' = [TurnMap EXCEPT ![g] = "lost"]
    BY <1>4, <2>1 DEF TurnMap
  <2>3. Turn!Lose(g)
    BY <1>1, <2>2 DEF Turn!Lose, TurnMap, TextMap
  <2> QED BY <2>3 DEF TurnStep, Turn!Next
<1>6. CASE lease[g].phase = "claimed"
  <2>1. TurnOf(g)' = TurnOf(g)
    BY <1>1, <1>3, <1>6 DEF TurnOf, target
  <2>2. TurnMap' = TurnMap
    BY <1>4, <2>1 DEF TurnMap
  <2> QED BY <1>1, <2>2 DEF TurnStep
<1> QED BY <1>2, <1>5, <1>6

LEMMA WriteTurn ==
  ASSUME IInv, NEW g \in Generation, NEW p \in Proof \cup {NoProof}, AppendDelta(g, p)
  PROVE  TurnStep
<1>1. TurnMap' = TurnMap
  BY DEF AppendDelta, TurnMap, TurnOf
<1>2. Active(g) /\ lease[g].phase \in {"none", "dispatch_started"}
  BY DEF AppendDelta, Admits, Holds
<1>3. TurnOf(g) \in {"pending", "running"}
  BY <1>2, TurnCases DEF IInv
<1>4. \A h \in Generation : journal'[h] = IF h = g THEN Append(journal[g], p) ELSE journal[h]
  BY DEF AppendDelta, IInv, TypeOK
<1>5. Len(journal'[g]) = Len(journal[g]) + 1
  <2>1. journal[g] \in Seq(Proof \cup {NoProof}) /\ journal'[g] = Append(journal[g], p)
    BY <1>4 DEF IInv, TypeOK
  <2> QED BY <2>1
<1>6. TextMap' = [TextMap EXCEPT ![g] = @ + 1]
  BY <1>4, <1>5 DEF TextMap
<1>7. TurnMap[g] \in {"pending", "running"}
  BY <1>3 DEF TurnMap
<1>8. Turn!Write(g)
  BY <1>1, <1>6, <1>7 DEF Turn!Write, TurnMap, TextMap
<1> QED BY <1>8 DEF TurnStep, Turn!Next

LEMMA TurnNext == IInv /\ [Next]_vars => TurnStep
<1> SUFFICES ASSUME IInv, [Next]_vars
             PROVE  TurnStep
  OBVIOUS
<1>1. CASE Tick \/ UNCHANGED vars
  <2>1. TurnMap' = TurnMap /\ TextMap' = TextMap
    BY <1>1 DEF Tick, vars, TurnMap, TextMap, TurnOf
  <2> QED BY <2>1 DEF TurnStep
<1>2. ASSUME NEW g \in Generation, StartGeneration(g)
      PROVE  TurnStep
  BY <1>2, BeginTurn
<1>3. ASSUME NEW g \in Generation, Cancel(g)
      PROVE  TurnStep
  BY <1>3, TerminateTurn DEF Cancel
<1>4. ASSUME NEW g \in Generation,
             \/ \E o \in Owner : ClaimExisting(g, o)
             \/ \E p \in Proof : MarkBusy(g, p)
      PROVE  TurnStep
  BY <1>4, ReconciledTurn DEF ClaimExisting, MarkBusy
<1>5. ASSUME NEW g \in Generation, NEW o \in Owner, NEW ttl \in Ttl, Claim(g, o, ttl)
      PROVE  TurnStep
  <2>1. UNCHANGED <<status, journal>> /\ Active(g)
    BY <1>5 DEF Claim
  <2>2. \A h \in Generation \ {g} : lease'[h] = Reconciled[h]
    BY <1>5 DEF Claim, Reconciled
  <2>3. lease'[g].phase = "claimed"
    BY <1>5 DEF Claim, Reconciled
  <2>4. TurnOf(g)' = "pending"
    BY <2>1, <2>3 DEF TurnOf, Active
  <2>5. lease[g].phase \in {"none", "claimed", "released"}
    <3>1. Reconciled[g].phase # "interrupted" /\ Reconciled[g].started = Never
      BY <1>5 DEF Claim
    <3>2. lease[g].started = Never /\ lease[g] \in Lease
      BY <3>1, ReconciledRow DEF IInv, TypeOK
    <3> QED BY <3>2 DEF IInv, AuditClean, LeaseAudit, Lease, Phase
  <2>6. TurnOf(g) = "pending"
    BY <2>1, <2>5, TurnCases DEF IInv
  <2> QED BY <2>1, <2>2, <2>4, <2>6, ReconciledTurn
<1>6. ASSUME NEW g \in Generation, NEW p \in Proof, MarkDispatchStarted(g, p)
      PROVE  TurnStep
  BY <1>6, DispatchTurn
<1>7. ASSUME NEW g \in Generation, NEW p \in Proof, NEW ttl \in Ttl, Renew(g, p, ttl)
      PROVE  TurnStep
  <2>1. lease'[g] = [lease[g] EXCEPT !.expires = Stamp(lease[g]) + ttl, !.updated = Stamp(lease[g])]
    BY <1>7 DEF Renew, IInv, TypeOK
  <2>2. \A h \in Generation : lease'[h].phase = lease[h].phase
    BY <1>7, <2>1 DEF Renew, IInv, TypeOK, Lease
  <2>3. TurnMap' = TurnMap /\ TextMap' = TextMap
    BY <1>7, <2>2 DEF Renew, TurnMap, TextMap, TurnOf
  <2> QED BY <2>3 DEF TurnStep
<1>8. ASSUME NEW g \in Generation, NEW p \in Proof, Release(g, p)
      PROVE  TurnStep
  BY <1>8, ReleaseTurn
<1>9. ASSUME NEW g \in Generation, NEW p \in Proof \cup {NoProof}, AppendDelta(g, p)
      PROVE  TurnStep
  BY <1>9, WriteTurn
<1>10. ASSUME NEW g \in Generation, NEW p \in Proof \cup {NoProof}, Finalize(g, p)
       PROVE  TurnStep
  <2>1. Active(g) /\ journal[g] # <<>> /\ Terminate(g, "completed")
    BY <1>10 DEF Finalize
  <2>2. lease[g].phase \in {"none", "dispatch_started"}
    BY <1>10 DEF Finalize, Admits, Holds
  <2>3. TurnOf(g) \in {"pending", "running"}
    BY <2>1, <2>2, TurnCases DEF IInv
  <2> QED BY <2>1, <2>3, TerminateTurn
<1>11. ASSUME NEW g \in Generation, NEW p \in Proof \cup {NoProof},
              NEW code \in FailureCode, Fail(g, p, code)
       PROVE  TurnStep
  BY <1>11, TerminateTurn DEF Fail
<1> QED BY <1>1, <1>2, <1>3, <1>4, <1>5, <1>6, <1>7, <1>8, <1>9, <1>10, <1>11 DEF Next

\* The fenced, expiring lease implements the one-inference promise: initial
\* states map to initial states, and every step to a step or a stutter.
THEOREM LeaseImplementsTurn == Spec => ImplementsTurn
<1>1. Init => Turn!Init
  BY DEF Init, Turn!Init, TurnOf
<1>2. IInv /\ [Next]_vars => [Turn!Next]_(Turn!vars)
  BY TurnNext DEF TurnStep, TurnMap, TextMap, Turn!vars
<1> QED BY <1>1, <1>2, Inductive, PTL DEF Spec, ImplementsTurn, Turn!Spec
=============================================================================
