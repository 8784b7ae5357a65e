------------------------ MODULE GenerationJobProofs ------------------------
(***************************************************************************)
(* Proofs about GenerationJob for every set of processes and generations,  *)
(* any number of stops and lapses, and any size of the job table.          *)
(***************************************************************************)
EXTENDS GenerationJob, TLAPS, FiniteSetTheorems

JobTable == [Server -> [Generation -> Job]]

\* A state of the jobs and rows that is typed, apart from the table's limit.
Typed ==
  /\ status \in [Generation -> {"absent", "in_progress", "completed", "cancelled", "failed"}]
  /\ row \in [Generation -> Row]
  /\ text \in [Generation -> 0 .. MaxDeltas]
  /\ server \in [Server -> {"up", "stopping", "down"}]
  /\ job \in JobTable
  /\ calls \in [Generation -> Nat]
  /\ stops \in 0 .. MaxStops /\ lapses \in 0 .. MaxLapses

\* The table of a process is a finite set within its limit.
Bounded ==
  \A s \in Server : IsFiniteSet(Jobs(s)) /\ Cardinality(Jobs(s)) <= MaxJobs

-----------------------------------------------------------------------------
(* The operators.                                                          *)

LEMMA WithJobIs ==
  ASSUME job \in JobTable, NEW s \in Server, NEW g \in Generation, NEW j \in Job
  PROVE  /\ WithJob(s, g, j) \in JobTable
         /\ \A t \in Server, h \in Generation :
              WithJob(s, g, j)[t][h] = IF t = s /\ h = g THEN j ELSE job[t][h]
BY DEF WithJob, JobTable

LEMMA JobIs ==
  ASSUME job \in JobTable, NEW s \in Server, NEW g \in Generation
  PROVE  job[s][g] \in Job
BY DEF JobTable

LEMMA GotoIs ==
  ASSUME NEW j \in Job, NEW step \in Step
  PROVE  /\ At(j, step) \in Job
         /\ At(j, step).step = step
         /\ At(j, step).error = j.error
BY DEF At, Job

LEMMA ThrowIs ==
  ASSUME NEW j \in Job, NEW error \in {"none", "server_stopping", "other"}
  PROVE  /\ Thrown(j, error) \in Job
         /\ Thrown(j, error).step = "failing"
BY DEF Thrown, Job, Step

LEMMA NewJobIs ==
  ASSUME NEW n \in 0 .. MaxDeltas
  PROVE  NewJob(n) \in Job /\ NewJob(n).step = "claiming"
BY DEF NewJob, NoJob, Job, Step

LEMMA NoJobIs == NoJob \in Job /\ NoJob.step = "none"
BY BoundAssumption DEF NoJob, Job, Step

LEMMA AbortIs ==
  ASSUME NEW j \in Job, NEW reason \in {"server_stopping", "other"}
  PROVE  Abort(j, reason) \in Job /\ Abort(j, reason).step = j.step
BY DEF Abort, Job

LEMMA InvalidatedIs ==
  ASSUME NEW r \in Row, NEW phase \in {"released", "interrupted"}
  PROVE  /\ Invalidated(r, phase) \in Row
         /\ Invalidated(r, phase).holder = r.holder
         /\ Invalidated(r, phase).phase =
              IF r.phase \in {"claimed", "dispatch_started"} THEN phase ELSE r.phase
BY DEF Invalidated, Row

LEMMA OrphanedIs ==
  ASSUME NEW r \in Row, NEW s \in Server
  PROVE  /\ Orphaned(r, s) \in Row
         /\ Orphaned(r, s).phase = r.phase
         /\ Orphaned(r, s).holder = IF r.holder = s THEN Nobody ELSE r.holder
BY DEF Orphaned, Row

LEMMA ReconciledIs ==
  ASSUME row \in [Generation -> Row]
  PROVE  /\ Reconciled \in [Generation -> Row]
         /\ \A g \in Generation :
              /\ Reconciled[g].holder = row[g].holder
              /\ Reconciled[g].expired = row[g].expired
              /\ Reconciled[g].phase =
                   IF row[g].phase = "dispatch_started" /\ row[g].expired
                     THEN "interrupted" ELSE row[g].phase
BY DEF Reconciled, Row
-----------------------------------------------------------------------------
(* What a step does to the jobs and rows of the other places.              *)

\* The table is typed and bounded after a step that enters no job.
LEMMA NoEntry ==
  ASSUME Bounded, job' \in JobTable,
         \A t \in Server, h \in Generation : job[t][h].step = "none" => job'[t][h].step = "none"
  PROVE  Bounded'
<1> SUFFICES ASSUME NEW t \in Server
             PROVE  IsFiniteSet(Jobs(t)') /\ Cardinality(Jobs(t)') <= MaxJobs
  BY DEF Bounded
<1>1. IsFiniteSet(Jobs(t)) /\ Cardinality(Jobs(t)) <= MaxJobs
  BY DEF Bounded
<1>2. Jobs(t)' \in SUBSET Jobs(t)
  BY DEF Jobs
<1>3. IsFiniteSet(Jobs(t)') /\ Cardinality(Jobs(t)') <= Cardinality(Jobs(t))
  BY <1>1, <1>2, FS_Subset
<1>4. Cardinality(Jobs(t)) \in Nat /\ Cardinality(Jobs(t)') \in Nat /\ MaxJobs \in Nat
  BY <1>1, <1>3, FS_CardinalityType, BoundAssumption
<1> QED BY <1>1, <1>3, <1>4

\* The table is bounded after a schedule, which looked at its capacity.
LEMMA OneEntry ==
  ASSUME Bounded, job \in JobTable, NEW s \in Server, NEW g \in Generation,
         text[g] \in 0 .. MaxDeltas, Capacity(s), job' = Scheduled(s, g)
  PROVE  job' \in JobTable /\ Bounded'
<1>1. NewJob(text[g]) \in Job /\ NewJob(text[g]).step = "claiming"
  BY NewJobIs
<1>2. /\ job' \in JobTable
      /\ \A t \in Server, h \in Generation :
           job'[t][h].step = IF t = s /\ h = g THEN "claiming" ELSE job[t][h].step
  BY <1>1, WithJobIs DEF Scheduled
<1>3. ASSUME NEW t \in Server
      PROVE  IsFiniteSet(Jobs(t)') /\ Cardinality(Jobs(t)') <= MaxJobs
  <2>0. IsFiniteSet(Jobs(t)) /\ Cardinality(Jobs(t)) <= MaxJobs
    BY DEF Bounded
  <2>1. CASE t = s
    <3>1. Jobs(t)' = Jobs(t) \cup {g}
      BY <1>2, <2>1 DEF Jobs
    <3>2. Cardinality(Jobs(t)) < MaxJobs
      BY <2>1 DEF Capacity
    <3>3. IsFiniteSet(Jobs(t)') /\ Cardinality(Jobs(t)') \in {Cardinality(Jobs(t)), Cardinality(Jobs(t)) + 1}
      BY <2>0, <3>1, FS_AddElement
    <3>4. Cardinality(Jobs(t)) \in Nat /\ MaxJobs \in Nat
      BY <2>0, FS_CardinalityType, BoundAssumption
    <3> QED BY <3>2, <3>3, <3>4
  <2>2. CASE t # s
    <3>1. Jobs(t)' = Jobs(t)
      BY <1>2, <2>2 DEF Jobs
    <3> QED BY <2>0, <3>1
  <2> QED BY <2>1, <2>2
<1> QED BY <1>2, <1>3 DEF Bounded
-----------------------------------------------------------------------------
(***************************************************************************)
(* Which job a lease may belong to.                                        *)
(***************************************************************************)
Fits(step, phase) ==
  /\ step \in {"assembling", "dispatching", "running", "failing", "releasing"}
  /\ step \in {"assembling", "dispatching"} => phase # "dispatch_started"
  /\ step = "running" => phase # "claimed"
  /\ phase # "none"

\* LeaseMatchesJob, and a row nobody has claimed has no holder.
Matching ==
  \A s \in Server, g \in Generation :
    row[g].holder = s => Fits(job[s][g].step, row[g].phase)

\* A row that at most loses its holder or ends.
Lower(h) ==
  /\ row'[h].holder \in {row[h].holder, Nobody}
  /\ row'[h].phase \in {row[h].phase, "released", "interrupted"}

LEMMA Matches == Matching => LeaseMatchesJob
BY DEF Matching, LeaseMatchesJob, Fits

JobsFine == job \in JobTable /\ Bounded /\ Matching

\* One job moves, and the row of its generation moves with it.
LEMMA JobStep ==
  ASSUME JobsFine, NEW s \in Server, NEW g \in Generation, NEW j \in Job,
         job' = WithJob(s, g, j),
         job[s][g].step = "none" => j.step = "none",
         \A h \in Generation : Lower(h) \/ (h = g /\ row'[h].holder = s),
         row'[g].holder = s => Fits(j.step, row'[g].phase)
  PROVE  JobsFine'
<1>1. /\ job' \in JobTable
      /\ \A t \in Server, h \in Generation :
           job'[t][h] = IF t = s /\ h = g THEN j ELSE job[t][h]
  BY WithJobIs DEF JobsFine
<1>2. Bounded'
  BY <1>1, NoEntry DEF JobsFine
<1>3. ASSUME NEW t \in Server, NEW h \in Generation, row'[h].holder = t
      PROVE  Fits(job'[t][h].step, row'[h].phase)
  <2>1. CASE t = s /\ h = g
    BY <1>1, <1>3, <2>1
  <2>2. CASE ~(t = s /\ h = g)
    <3>1. Lower(h) /\ row[h].holder = t
      BY <1>3, <2>2, NullAssumption DEF Lower
    <3>2. Fits(job[t][h].step, row[h].phase)
      BY <3>1 DEF Matching, JobsFine
    <3> QED BY <1>1, <2>2, <3>1, <3>2 DEF Lower, Fits
  <2> QED BY <2>1, <2>2
<1>4. Matching'
  BY <1>3 DEF Matching
<1> QED BY <1>1, <1>2, <1>4 DEF JobsFine

\* No job moves.
LEMMA RowStep ==
  ASSUME JobsFine, job' = job, \A h \in Generation : Lower(h)
  PROVE  JobsFine'
<1>1. job' \in JobTable /\ Bounded'
  BY NoEntry DEF JobsFine
<1>2. ASSUME NEW t \in Server, NEW h \in Generation, row'[h].holder = t
      PROVE  Fits(job'[t][h].step, row'[h].phase)
  <2>1. Lower(h) /\ row[h].holder = t
    BY <1>2, NullAssumption DEF Lower
  <2>2. Fits(job[t][h].step, row[h].phase)
    BY <2>1 DEF Matching, JobsFine
  <2> QED BY <2>1, <2>2 DEF Lower, Fits
<1>3. Matching'
  BY <1>2 DEF Matching
<1> QED BY <1>1, <1>3 DEF JobsFine

\* A job is scheduled.
LEMMA ScheduleStep ==
  ASSUME JobsFine, NEW s \in Server, NEW g \in Generation, text[g] \in 0 .. MaxDeltas,
         Capacity(s), row[g].holder # s, job' = Scheduled(s, g), row' = row
  PROVE  JobsFine'
<1>1. job' \in JobTable /\ Bounded'
  BY OneEntry DEF JobsFine
<1>2. \A t \in Server, h \in Generation : ~(t = s /\ h = g) => job'[t][h] = job[t][h]
  BY NewJobIs, WithJobIs DEF Scheduled, JobsFine
<1>3. Matching'
  BY <1>2 DEF Matching, JobsFine
<1> QED BY <1>1, <1>3 DEF JobsFine
-----------------------------------------------------------------------------
(***************************************************************************)
(* What a step does to the turns.  The jobs only matter to whether a move  *)
(* is allowed: every action is one of these moves of the store's rows.     *)
(***************************************************************************)
Ends == {"completed", "cancelled", "failed"}

Same(h) == status'[h] = status[h] /\ text'[h] = text[h] /\ calls'[h] = calls[h]

Still(h) == Same(h) /\ row'[h].phase = row[h].phase

\* At most the row's expired dispatch is reconciled, or its release loses it.
Kept(h) ==
  /\ Same(h)
  /\ \/ row'[h].phase = row[h].phase
     \/ row[h].phase = "dispatch_started" /\ row'[h].phase = "interrupted"

Begins(g) ==
  /\ status[g] = "absent" /\ status'[g] = "in_progress"
  /\ \A h \in Generation : ThreadOf[h] = ThreadOf[g] => ~InProgress(h)
  /\ text'[g] = text[g] /\ calls'[g] = calls[g] /\ row'[g].phase = row[g].phase

Claims(g) ==
  /\ Same(g) /\ InProgress(g)
  /\ row[g].phase \in {"none", "claimed", "released"} /\ row'[g].phase = "claimed"

Called(g) ==
  /\ status'[g] = "in_progress" /\ InProgress(g) /\ text'[g] = text[g]
  /\ row[g].phase = "claimed" /\ row'[g].phase = "dispatch_started"
  /\ calls'[g] = calls[g] + 1

Writes(g) ==
  /\ status'[g] = "in_progress" /\ InProgress(g)
  /\ row[g].phase = "dispatch_started" /\ row'[g].phase = "dispatch_started"
  /\ text'[g] = text[g] + 1 /\ calls'[g] = calls[g]

Closes(g) ==
  /\ InProgress(g) /\ status'[g] \in Ends
  /\ text'[g] = text[g] /\ calls'[g] = calls[g]
  /\ row'[g].phase = IF row[g].phase \in {"claimed", "dispatch_started"}
                       THEN "released" ELSE row[g].phase
  /\ status'[g] = "completed" => row[g].phase = "dispatch_started" /\ text[g] > 0

Returns(g) == Same(g) /\ row[g].phase = "claimed" /\ row'[g].phase = "released"

Move ==
  \/ \A h \in Generation : Kept(h)
  \/ \E g \in Generation :
       \/ Claims(g) /\ \A h \in Generation \ {g} : Kept(h)
       \/ Called(g) /\ \A h \in Generation \ {g} : Kept(h) /\ row'[h].phase # "dispatch_started"
       \/ /\ Begins(g) \/ Writes(g) \/ Closes(g) \/ Returns(g)
          /\ \A h \in Generation \ {g} : Still(h)
-----------------------------------------------------------------------------
(***************************************************************************)
(* CalledOnce is not inductive: a claim must know that the phases it       *)
(* accepts were never dispatched, and a write that its dispatch was.       *)
(***************************************************************************)
RowBook(g) ==
  /\ calls[g] = IF row[g].phase \in {"dispatch_started", "interrupted"} THEN 1
                ELSE IF InProgress(g) \/ status[g] = "absent" THEN 0 ELSE calls[g]
  /\ calls[g] <= 1
  /\ status[g] = "completed" \/ text[g] > 0 => calls[g] = 1
  /\ status[g] = "absent" => row[g].phase = "none"
  /\ row[g].phase \in {"claimed", "dispatch_started"} => InProgress(g)

\* Two dispatched leases would be lost by one reconciliation.
OneDispatched ==
  \A g, h \in Generation :
    row[g].phase = "dispatch_started" /\ row[h].phase = "dispatch_started" => g = h

Book == (\A g \in Generation : RowBook(g)) /\ OneDispatched

IInv == Typed /\ JobsFine /\ Book

LEMMA BookStep ==
  ASSUME Typed, Typed', Book, Move
  PROVE  Book'
<1>1. ASSUME NEW h \in Generation
      PROVE  /\ row[h] \in Row /\ row'[h] \in Row
             /\ calls[h] \in Nat /\ calls'[h] \in Nat
             /\ text[h] \in 0 .. MaxDeltas /\ text'[h] \in 0 .. MaxDeltas
             /\ text[h] \in Int /\ text[h] >= 0
             /\ RowBook(h)
  BY BoundAssumption DEF Typed, Book
<1>2. ASSUME NEW h \in Generation, Kept(h)
      PROVE  RowBook(h)' /\ (row'[h].phase = "dispatch_started" => row[h].phase = "dispatch_started")
  BY <1>1, <1>2 DEF Kept, Same, RowBook, InProgress
<1>3. ASSUME NEW h \in Generation, Still(h)
      PROVE  Kept(h)
  BY <1>3 DEF Still, Kept
<1>4. ASSUME NEW g \in Generation,
             Claims(g) \/ Begins(g) \/ Closes(g) \/ Returns(g) \/ Writes(g)
      PROVE  RowBook(g)' /\ (row'[g].phase = "dispatch_started" => row[g].phase = "dispatch_started")
  <2>0. RowBook(g) /\ calls[g] \in Nat /\ text[g] \in Int /\ text[g] >= 0
    BY <1>1
  <2>1. CASE Claims(g)
    BY <2>0, <2>1 DEF Claims, Same, RowBook, InProgress
  <2>2. CASE Begins(g)
    BY <2>0, <2>2 DEF Begins, RowBook, InProgress
  <2>3. CASE Closes(g)
    BY <2>0, <2>3 DEF Closes, Ends, RowBook, InProgress
  <2>4. CASE Returns(g)
    BY <2>0, <2>4 DEF Returns, Same, RowBook, InProgress
  <2>5. CASE Writes(g)
    BY <2>0, <2>5 DEF Writes, RowBook, InProgress
  <2> QED BY <1>4, <2>1, <2>2, <2>3, <2>4, <2>5
<1>5. ASSUME NEW g \in Generation, Called(g)
      PROVE  RowBook(g)'
  BY <1>1, <1>5 DEF Called, RowBook, InProgress
<1>6. CASE \E g \in Generation :
             Called(g) /\ \A h \in Generation \ {g} : Kept(h) /\ row'[h].phase # "dispatch_started"
  BY <1>2, <1>5, <1>6 DEF Book, OneDispatched
<1>7. CASE \A h \in Generation : RowBook(h)'
             /\ (row'[h].phase = "dispatch_started" => row[h].phase = "dispatch_started")
  BY <1>7 DEF Book, OneDispatched
<1> QED BY <1>2, <1>3, <1>4, <1>6, <1>7 DEF Move
-----------------------------------------------------------------------------
(* Every action keeps the jobs and the types, and is a move.               *)

Fine == Typed' /\ JobsFine' /\ Move

LEMMA TypedRows ==
  ASSUME Typed
  PROVE  /\ \A g \in Generation :
              /\ row[g] \in Row /\ text[g] \in 0 .. MaxDeltas /\ calls[g] \in Nat
              /\ status[g] \in {"absent", "in_progress", "completed", "cancelled", "failed"}
         /\ row \in [Generation -> Row]
         /\ job \in JobTable
         /\ \A s \in Server, g \in Generation : job[s][g] \in Job
BY JobIs DEF Typed

\* A job moves by itself.
LEMMA QuietStep ==
  ASSUME IInv, NEW s \in Server, NEW g \in Generation, NEW j \in Job,
         job' = WithJob(s, g, j), job[s][g].step # "none",
         row[g].holder = s => Fits(j.step, row[g].phase),
         UNCHANGED <<status, row, text, server, calls, stops, lapses>>
  PROVE  Fine
<1>1. \A h \in Generation : Lower(h) /\ Kept(h)
  BY DEF Lower, Kept, Same
<1>2. JobsFine'
  BY <1>1, JobStep DEF IInv
<1>3. Typed'
  BY <1>2 DEF IInv, Typed, JobsFine
<1> QED BY <1>1, <1>2, <1>3 DEF Fine, Move

\* A job ends badly, or stays where it is with another reason to end.
LEMMA QuietSteps ==
  ASSUME IInv, NEW s \in Server, NEW g \in Generation,
         \/ \E error \in {"none", "server_stopping", "other"} :
              job' = Throw(s, g, error) /\ job[s][g].step \in {"assembling", "dispatching", "running"}
         \/ \E reason \in {"server_stopping", "other"} :
              job' = WithJob(s, g, Abort(job[s][g], reason)) /\ job[s][g].step # "none"
         \/ job' = Goto(s, g, "dispatching") /\ job[s][g].step = "assembling",
         UNCHANGED <<status, row, text, server, calls, stops, lapses>>
  PROVE  Fine
<1>0. /\ job[s][g] \in Job /\ row[g] \in Row
      /\ row[g].holder = s => Fits(job[s][g].step, row[g].phase)
  BY TypedRows DEF IInv, JobsFine, Matching
<1>1. ASSUME NEW error \in {"none", "server_stopping", "other"}, job' = Throw(s, g, error),
             job[s][g].step \in {"assembling", "dispatching", "running"}
      PROVE  Fine
  <2>1. Thrown(job[s][g], error) \in Job /\ Thrown(job[s][g], error).step = "failing"
    BY <1>0, ThrowIs
  <2>2. row[g].holder = s => Fits(Thrown(job[s][g], error).step, row[g].phase)
    BY <1>0, <2>1 DEF Fits
  <2> QED BY <1>1, <2>1, <2>2, QuietStep DEF Throw
<1>2. ASSUME NEW reason \in {"server_stopping", "other"},
             job' = WithJob(s, g, Abort(job[s][g], reason)), job[s][g].step # "none"
      PROVE  Fine
  <2>1. Abort(job[s][g], reason) \in Job /\ Abort(job[s][g], reason).step = job[s][g].step
    BY <1>0, AbortIs
  <2> QED BY <1>0, <1>2, <2>1, QuietStep
<1>3. CASE job' = Goto(s, g, "dispatching") /\ job[s][g].step = "assembling"
  <2>1. At(job[s][g], "dispatching") \in Job /\ At(job[s][g], "dispatching").step = "dispatching"
    BY <1>0, GotoIs DEF Step
  <2>2. row[g].holder = s => Fits(At(job[s][g], "dispatching").step, row[g].phase)
    BY <1>0, <1>3, <2>1 DEF Fits
  <2> QED BY <1>3, <2>1, <2>2, QuietStep DEF Goto
<1> QED BY <1>1, <1>2, <1>3
-----------------------------------------------------------------------------
(* Turns that start and are polled.                                        *)

LEMMA StartTurnFine ==
  ASSUME IInv, NEW s \in Server, NEW g \in Generation, StartTurn(s, g)
  PROVE  Fine
<1>1. \A h \in Generation : Lower(h)
  BY DEF StartTurn, Lower
<1>2. text[g] \in 0 .. MaxDeltas /\ row[g].phase = "none" /\ row[g].holder # s
  BY TypedRows DEF IInv, JobsFine, Matching, Fits, Book, RowBook, StartTurn
<1>3. JobsFine'
  <2>1. CASE Capacity(s)
    BY <1>2, <2>1, ScheduleStep DEF StartTurn, IInv
  <2>2. CASE ~Capacity(s)
    BY <1>1, <2>2, RowStep DEF StartTurn, IInv
  <2> QED BY <2>1, <2>2
<1>4. Typed'
  BY <1>3 DEF IInv, Typed, JobsFine, StartTurn
<1>5. Begins(g) /\ \A h \in Generation \ {g} : Still(h)
  BY DEF StartTurn, Begins, Still, Same, IInv, Typed
<1> QED BY <1>3, <1>4, <1>5 DEF Fine, Move

LEMMA PollFine ==
  ASSUME IInv, NEW s \in Server, NEW g \in Generation, Poll(s, g)
  PROVE  Fine
<1>1. text[g] \in 0 .. MaxDeltas /\ row[g].holder # s
  BY TypedRows DEF IInv, JobsFine, Matching, Fits, Poll
<1>2. JobsFine'
  BY <1>1, ScheduleStep DEF Poll, IInv
<1>3. Typed'
  BY <1>2 DEF IInv, Typed, JobsFine, Poll
<1>4. \A h \in Generation : Kept(h)
  BY DEF Poll, Kept, Same
<1> QED BY <1>2, <1>3, <1>4 DEF Fine, Move
-----------------------------------------------------------------------------
(* The claim.                                                              *)

\* What a reconciliation does to the other rows.
LEMMA ReconciledRows ==
  ASSUME IInv, NEW g \in Generation,
         \A h \in Generation \ {g} : Same(h) /\ row'[h] = Reconciled[h]
  PROVE  \A h \in Generation \ {g} : Lower(h) /\ Kept(h)
BY ReconciledIs DEF IInv, Typed, Lower, Kept

LEMMA ClaimLeaseFine ==
  ASSUME IInv, NEW s \in Server, NEW g \in Generation, ClaimLease(s, g)
  PROVE  Fine
<1> DEFINE claimed == [phase |-> "claimed", holder |-> s, expired |-> FALSE]
           j == IF job[s][g].found # 0 THEN Thrown(job[s][g], "other")
                                       ELSE At(job[s][g], "assembling")
<1>1. claimed \in Row
  BY DEF Row
<1>2. /\ row' \in [Generation -> Row]
      /\ row'[g] = claimed
      /\ \A h \in Generation \ {g} : row'[h] = Reconciled[h]
  BY <1>1, ReconciledIs DEF ClaimLease, IInv, Typed
<1>3. \A h \in Generation \ {g} : Lower(h) /\ Kept(h)
  BY <1>2, ReconciledRows DEF ClaimLease, Same
<1>4. j \in Job /\ j.step \in {"failing", "assembling"} /\ job' = WithJob(s, g, j)
  BY TypedRows, ThrowIs, GotoIs DEF ClaimLease, Throw, Goto, IInv, Step
<1>5. Fits(j.step, row'[g].phase) /\ row'[g].holder = s /\ row'[g].phase = "claimed"
  BY <1>2, <1>4 DEF Fits
<1>6. JobsFine'
  <2>1. job[s][g].step # "none"
    BY DEF ClaimLease
  <2> HIDE DEF j
  <2> QED BY <1>3, <1>4, <1>5, <2>1, JobStep DEF IInv
<1>7. Typed'
  BY <1>2, <1>6 DEF IInv, Typed, JobsFine, ClaimLease
<1>8. Claims(g)
  <2>1. row[g] \in Row /\ row \in [Generation -> Row]
    BY TypedRows DEF IInv
  <2>2. row[g].phase \in {"none", "claimed", "released"}
    BY <2>1, ReconciledIs DEF ClaimLease, ClaimRefused, Live, Row
  <2> QED BY <1>5, <2>2 DEF ClaimLease, ClaimRefused, Claims, Same
<1> QED BY <1>3, <1>6, <1>7, <1>8 DEF Fine, Move

LEMMA ClaimThrowsFine ==
  ASSUME IInv, NEW s \in Server, NEW g \in Generation, ClaimThrows(s, g)
  PROVE  Fine
<1>1. /\ row' \in [Generation -> Row]
      /\ \A h \in Generation : Lower(h) /\ Kept(h)
  BY ReconciledIs DEF ClaimThrows, IInv, Typed, Lower, Kept, Same
<1>2. At(job[s][g], "resolving") \in Job /\ job' = WithJob(s, g, At(job[s][g], "resolving"))
  BY TypedRows, GotoIs DEF ClaimThrows, Goto, IInv, Step
<1>3. row'[g].holder # s
  BY <1>1, NullAssumption DEF ClaimThrows, IInv, JobsFine, Matching, Fits, Lower
<1>4. JobsFine'
  BY <1>1, <1>2, <1>3, JobStep DEF ClaimThrows, IInv
<1>5. Typed'
  BY <1>1, <1>4 DEF IInv, Typed, JobsFine, ClaimThrows
<1> QED BY <1>1, <1>4, <1>5 DEF Fine, Move

LEMMA ResolveFine ==
  ASSUME IInv, NEW s \in Server, NEW g \in Generation, Resolve(s, g)
  PROVE  Fine
<1>1. \A h \in Generation : Lower(h)
  BY DEF Resolve, Lower
<1>2. row'[g].holder # s
  BY DEF Resolve, IInv, JobsFine, Matching, Fits
<1>3. JobsFine'
  BY <1>1, <1>2, NoJobIs, JobStep DEF Resolve, IInv
<1>4. Typed'
  BY <1>3 DEF IInv, Typed, JobsFine, Resolve
<1>5. CASE InProgress(g) /\ row[g].phase = "interrupted"
  <2>1. Closes(g) /\ \A h \in Generation \ {g} : Still(h)
    BY <1>5 DEF Resolve, Closes, Ends, Still, Same, IInv, Typed
  <2> QED BY <1>3, <1>4, <2>1 DEF Fine, Move
<1>6. CASE ~(InProgress(g) /\ row[g].phase = "interrupted")
  <2>1. \A h \in Generation : Kept(h)
    BY <1>6 DEF Resolve, Kept, Same
  <2> QED BY <1>3, <1>4, <2>1 DEF Fine, Move
<1> QED BY <1>5, <1>6
-----------------------------------------------------------------------------
(* The dispatch and the stream.                                            *)

LEMMA DispatchFine ==
  ASSUME IInv, NEW s \in Server, NEW g \in Generation, Dispatch(s, g)
  PROVE  Fine
<1>0. row[g] \in Row /\ row[g].holder = s /\ row[g].phase = "claimed"
  BY TypedRows DEF IInv, Dispatch, Holds
<1>1. /\ row' \in [Generation -> Row]
      /\ row'[g].phase = "dispatch_started" /\ row'[g].holder = s
      /\ \A h \in Generation \ {g} : row'[h] = Reconciled[h]
  <2>1. Reconciled \in [Generation -> Row] /\ Reconciled[g].holder = s
    BY <1>0, ReconciledIs DEF IInv, Typed
  <2>2. ASSUME NEW r \in Row
        PROVE  /\ [r EXCEPT !.phase = "dispatch_started"] \in Row
               /\ [r EXCEPT !.phase = "dispatch_started"].phase = "dispatch_started"
               /\ [r EXCEPT !.phase = "dispatch_started"].holder = r.holder
    BY DEF Row
  <2> QED BY <2>1, <2>2 DEF Dispatch
<1>2. \A h \in Generation \ {g} : Lower(h) /\ Kept(h)
  BY <1>1, ReconciledRows DEF Dispatch, Same, IInv, Typed
<1>3. \A h \in Generation \ {g} : row'[h].phase # "dispatch_started"
  BY <1>1 DEF Dispatch, Busy
<1>4. At(job[s][g], "running") \in Job /\ At(job[s][g], "running").step = "running"
  BY TypedRows, GotoIs DEF IInv, Step
<1>5. Fits(At(job[s][g], "running").step, row'[g].phase)
  BY <1>1, <1>4 DEF Fits
<1>6. JobsFine'
  BY <1>1, <1>2, <1>4, <1>5, JobStep DEF Dispatch, Goto, IInv
<1>7. Typed'
  BY <1>1, <1>6 DEF IInv, Typed, JobsFine, Dispatch
<1>8. Called(g)
  BY <1>0, <1>1, TypedRows DEF IInv, Typed, Dispatch, Called, InProgress
<1> QED BY <1>2, <1>3, <1>6, <1>7, <1>8 DEF Fine, Move

LEMMA DeltaFine ==
  ASSUME IInv, NEW s \in Server, NEW g \in Generation, Delta(s, g)
  PROVE  Fine
<1>1. CASE InProgress(g) /\ Holds(s, g, {"dispatch_started"})
  <2>1. JobsFine'
    BY <1>1, RowStep DEF Delta, IInv, Lower
  <2>2. text[g] + 1 \in 0 .. MaxDeltas
    BY TypedRows, BoundAssumption DEF Delta, IInv
  <2>3. Typed'
    BY <1>1, <2>1, <2>2 DEF IInv, Typed, JobsFine, Delta
  <2>4. Writes(g) /\ \A h \in Generation \ {g} : Still(h)
    BY <1>1 DEF Delta, Writes, Still, Same, Holds, InProgress, IInv, Typed
  <2> QED BY <2>1, <2>3, <2>4 DEF Fine, Move
<1>2. CASE ~(InProgress(g) /\ Holds(s, g, {"dispatch_started"}))
  BY <1>2, QuietSteps DEF Delta
<1> QED BY <1>1, <1>2

\* A job that moves to its finally block closes its turn.
LEMMA CloseFine ==
  ASSUME IInv, NEW s \in Server, NEW g \in Generation,
         InProgress(g), Holds(s, g, {"claimed", "dispatch_started"}),
         NEW end \in Ends, end = "completed" => row[g].phase = "dispatch_started" /\ text[g] > 0,
         job[s][g].step # "none",
         status' = [status EXCEPT ![g] = end],
         row' = [row EXCEPT ![g] = Invalidated(@, "released")],
         job' = Goto(s, g, "releasing"),
         UNCHANGED <<text, server, calls, stops, lapses>>
  PROVE  Fine
<1>1. /\ Invalidated(row[g], "released") \in Row
      /\ Invalidated(row[g], "released").phase = "released"
      /\ Invalidated(row[g], "released").holder = row[g].holder
  BY TypedRows, InvalidatedIs DEF IInv, Holds
<1>2. /\ row' \in [Generation -> Row]
      /\ row'[g].phase = "released"
      /\ \A h \in Generation : Lower(h) /\ (h # g => row'[h] = row[h])
  BY <1>1 DEF IInv, Typed, Lower
<1>3. At(job[s][g], "releasing") \in Job /\ At(job[s][g], "releasing").step = "releasing"
  BY TypedRows, GotoIs DEF IInv, Step
<1>4. Fits(At(job[s][g], "releasing").step, row'[g].phase)
  BY <1>2, <1>3 DEF Fits
<1>5. JobsFine'
  BY <1>2, <1>3, <1>4, JobStep DEF Goto, IInv
<1>6. Typed'
  BY <1>2, <1>5 DEF IInv, Typed, JobsFine, Ends
<1>7. Closes(g) /\ \A h \in Generation \ {g} : Still(h)
  BY <1>2 DEF Closes, Still, Same, Holds, IInv, Typed
<1> QED BY <1>5, <1>6, <1>7 DEF Fine, Move

LEMMA FinishFine ==
  ASSUME IInv, NEW s \in Server, NEW g \in Generation, Finish(s, g)
  PROVE  Fine
<1>1. CASE InProgress(g) /\ Holds(s, g, {"dispatch_started"}) /\ text[g] > 0
  <2>1. Holds(s, g, {"claimed", "dispatch_started"}) /\ row[g].phase = "dispatch_started"
    BY <1>1 DEF Holds
  <2>2. "completed" \in Ends
    BY DEF Ends
  <2> QED BY <1>1, <2>1, <2>2, CloseFine DEF Finish
<1>2. CASE ~(InProgress(g) /\ Holds(s, g, {"dispatch_started"}) /\ text[g] > 0)
  BY <1>2, QuietSteps DEF Finish
<1> QED BY <1>1, <1>2

LEMMA ReleasingFits ==
  ASSUME IInv, NEW s \in Server, NEW g \in Generation
  PROVE  /\ At(job[s][g], "releasing") \in Job
         /\ row[g].holder = s => Fits(At(job[s][g], "releasing").step, row[g].phase)
<1>1. At(job[s][g], "releasing") \in Job /\ At(job[s][g], "releasing").step = "releasing"
  BY TypedRows, GotoIs DEF IInv, Step
<1> QED BY <1>1 DEF Fits, IInv, JobsFine, Matching

LEMMA FailFine ==
  ASSUME IInv, NEW s \in Server, NEW g \in Generation, Fail(s, g)
  PROVE  Fine
<1>1. CASE /\ InProgress(g) /\ job[s][g].error # "server_stopping"
           /\ Holds(s, g, {"claimed", "dispatch_started"})
  <2>1. "failed" \in Ends
    BY DEF Ends
  <2> QED BY <1>1, <2>1, CloseFine DEF Fail
<1>2. CASE ~(/\ InProgress(g) /\ job[s][g].error # "server_stopping"
             /\ Holds(s, g, {"claimed", "dispatch_started"}))
  BY <1>2, ReleasingFits, QuietStep DEF Fail, Goto
<1> QED BY <1>1, <1>2

\* The end of a job drops its row, which it may have released before.
LEMMA DropFine ==
  ASSUME IInv, NEW s \in Server, NEW g \in Generation, NEW r \in Row,
         job' = WithJob(s, g, NoJob), row' = [row EXCEPT ![g] = r],
         r.holder = IF row[g].holder = s THEN Nobody ELSE row[g].holder,
         \/ r.phase = row[g].phase
         \/ row[g].phase = "dispatch_started" /\ r.phase = "interrupted"
         \/ row[g].phase = "claimed" /\ r.phase = "released",
         UNCHANGED <<status, text, server, calls, stops>>, lapses' \in 0 .. MaxLapses
  PROVE  Fine
<1>1. /\ row' \in [Generation -> Row] /\ row'[g] = r
      /\ \A h \in Generation : Lower(h) /\ (h # g => row'[h] = row[h])
  BY DEF IInv, Typed, Lower
<1>2. row'[g].holder # s
  BY <1>1, NullAssumption
<1>3. JobsFine'
  BY <1>1, <1>2, NoJobIs, JobStep DEF IInv
<1>4. Typed'
  BY <1>1, <1>3 DEF IInv, Typed, JobsFine
<1>5. Same(g) /\ \A h \in Generation \ {g} : Still(h)
  BY <1>1 DEF Same, Still
<1>6. CASE row[g].phase = "claimed" /\ r.phase = "released"
  <2>1. Returns(g)
    BY <1>1, <1>5, <1>6 DEF Returns
  <2> QED BY <1>3, <1>4, <1>5, <2>1 DEF Fine, Move
<1>7. CASE \/ r.phase = row[g].phase
           \/ row[g].phase = "dispatch_started" /\ r.phase = "interrupted"
  <2>1. \A h \in Generation : Kept(h)
    BY <1>1, <1>5, <1>7 DEF Kept, Still
  <2> QED BY <1>3, <1>4, <2>1 DEF Fine, Move
<1> QED BY <1>6, <1>7

LEMMA ReleaseFine ==
  ASSUME IInv, NEW s \in Server, NEW g \in Generation, Release(s, g)
  PROVE  Fine
<1> DEFINE end == IF row[g].phase = "dispatch_started" THEN "interrupted" ELSE "released"
<1>0. row[g] \in Row /\ row \in [Generation -> Row] /\ lapses \in 0 .. MaxLapses
  BY TypedRows DEF IInv, Typed
<1>1. CASE InProgress(g) /\ Holds(s, g, {"claimed", "dispatch_started"})
  <2>1. /\ Invalidated(row[g], end) \in Row
        /\ Invalidated(row[g], end).holder = row[g].holder
        /\ Invalidated(row[g], end).phase = end
    BY <1>0, <1>1, InvalidatedIs DEF Holds
  <2>2. row' = [row EXCEPT ![g] = Orphaned(Invalidated(row[g], end), s)]
    BY <1>0, <1>1 DEF Release
  <2>3. /\ Orphaned(Invalidated(row[g], end), s) \in Row
        /\ Orphaned(Invalidated(row[g], end), s).phase = end
        /\ Orphaned(Invalidated(row[g], end), s).holder =
             IF row[g].holder = s THEN Nobody ELSE row[g].holder
    BY <2>1, OrphanedIs
  <2>4. row[g].phase \in {"claimed", "dispatch_started"}
    BY <1>1 DEF Holds
  <2> QED BY <1>0, <2>2, <2>3, <2>4, DropFine DEF Release
<1>2. CASE ~(InProgress(g) /\ Holds(s, g, {"claimed", "dispatch_started"}))
  <2>1. row' = [row EXCEPT ![g] = Orphaned(row[g], s)]
    BY <1>0, <1>2 DEF Release
  <2> QED BY <1>0, <2>1, OrphanedIs, DropFine DEF Release
<1> QED BY <1>1, <1>2

LEMMA StoreThrowsFine ==
  ASSUME IInv, NEW s \in Server, NEW g \in Generation, StoreThrows(s, g)
  PROVE  Fine
<1>0. /\ row[g] \in Row /\ row \in [Generation -> Row]
      /\ lapses' \in 0 .. MaxLapses
  BY TypedRows, BoundAssumption DEF IInv, Typed, StoreThrows
<1>1. CASE job[s][g].step = "failing" /\ job' = Goto(s, g, "releasing") /\ UNCHANGED row
  <2>1. \A h \in Generation : Lower(h) /\ Kept(h)
    BY <1>1 DEF StoreThrows, Lower, Kept, Same
  <2>2. JobsFine'
    BY <1>1, <2>1, ReleasingFits, JobStep DEF Goto, IInv
  <2>3. Typed'
    BY <1>0, <1>1, <2>2 DEF IInv, Typed, JobsFine, StoreThrows
  <2> QED BY <2>1, <2>2, <2>3 DEF Fine, Move
<1>2. CASE /\ job[s][g].step = "releasing" /\ job' = WithJob(s, g, NoJob)
           /\ row' = [row EXCEPT ![g] = Orphaned(@, s)]
  <2>1. row' = [row EXCEPT ![g] = Orphaned(row[g], s)]
    BY <1>0, <1>2
  <2> QED BY <1>0, <1>2, <2>1, OrphanedIs, DropFine DEF StoreThrows
<1> QED BY <1>1, <1>2 DEF StoreThrows
-----------------------------------------------------------------------------
(* What happens to jobs and leases from outside.                           *)

LEMMA CancelFine ==
  ASSUME IInv, NEW s \in Server, NEW g \in Generation, Cancel(s, g)
  PROVE  Fine
<1>1. row[g] \in Row /\ job[s][g] \in Job /\ row \in [Generation -> Row]
  BY TypedRows DEF IInv
<1>2. /\ Invalidated(row[g], "released") \in Row
      /\ Invalidated(row[g], "released").holder = row[g].holder
      /\ Invalidated(row[g], "released").phase =
           IF row[g].phase \in {"claimed", "dispatch_started"} THEN "released" ELSE row[g].phase
  BY <1>1, InvalidatedIs
<1>3. /\ row' \in [Generation -> Row] /\ row'[g] = Invalidated(row[g], "released")
      /\ \A h \in Generation : Lower(h) /\ (h # g => row'[h] = row[h])
  BY <1>1, <1>2 DEF Cancel, Lower
<1>4. /\ Abort(job[s][g], "other") \in Job
      /\ Abort(job[s][g], "other").step = job[s][g].step
  BY <1>1, AbortIs
<1>5. row'[g].holder = s => Fits(Abort(job[s][g], "other").step, row'[g].phase)
  BY <1>2, <1>3, <1>4 DEF IInv, JobsFine, Matching, Fits
<1>6. JobsFine'
  BY <1>3, <1>4, <1>5, JobStep DEF Cancel, IInv
<1>7. Typed'
  BY <1>3, <1>6 DEF IInv, Typed, JobsFine, Cancel
<1>8. Closes(g) /\ \A h \in Generation \ {g} : Still(h)
  BY <1>2, <1>3 DEF Closes, Ends, Still, Same, Cancel, IInv, Typed
<1> QED BY <1>6, <1>7, <1>8 DEF Fine, Move

LEMMA ExpireFine ==
  ASSUME IInv, NEW g \in Generation, Expire(g)
  PROVE  Fine
<1>1. row[g] \in Row /\ row \in [Generation -> Row]
  BY TypedRows DEF IInv
<1>2. ASSUME NEW r \in Row
      PROVE  /\ [r EXCEPT !.expired = TRUE] \in Row
             /\ [r EXCEPT !.expired = TRUE].phase = r.phase
             /\ [r EXCEPT !.expired = TRUE].holder = r.holder
  BY DEF Row
<1>3. /\ row' \in [Generation -> Row]
      /\ \A h \in Generation : Lower(h) /\ Kept(h)
  BY <1>1, <1>2 DEF Expire, Lower, Kept, Same
<1>4. lapses' \in 0 .. MaxLapses
  BY BoundAssumption DEF Expire, IInv, Typed
<1>5. JobsFine'
  BY <1>3, RowStep DEF Expire, IInv
<1>6. Typed'
  BY <1>3, <1>4, <1>5 DEF IInv, Typed, JobsFine, Expire
<1> QED BY <1>3, <1>5, <1>6 DEF Fine, Move

\* The jobs of a process are all told to stop, or all gone.
LEMMA AllJobs ==
  ASSUME IInv, NEW s \in Server, job' \in JobTable,
         \A t \in Server \ {s} : job'[t] = job[t],
         \A h \in Generation : job[s][h].step = "none" => job'[s][h].step = "none",
         \A h \in Generation : Lower(h),
         \A h \in Generation : row'[h].holder = s => job'[s][h].step = job[s][h].step
  PROVE  JobsFine'
<1>1. Bounded'
  BY NoEntry DEF IInv, JobsFine
<1>2. ASSUME NEW t \in Server, NEW h \in Generation, row'[h].holder = t
      PROVE  Fits(job'[t][h].step, row'[h].phase)
  <2>1. Lower(h) /\ row[h].holder = t
    BY <1>2, NullAssumption DEF Lower
  <2>2. Fits(job[t][h].step, row[h].phase) /\ job'[t][h].step = job[t][h].step
    BY <1>2, <2>1 DEF IInv, JobsFine, Matching
  <2> QED BY <2>1, <2>2 DEF Lower, Fits
<1> QED BY <1>1, <1>2 DEF JobsFine, Matching

LEMMA StopFine ==
  ASSUME IInv, NEW s \in Server, Stop(s)
  PROVE  Fine
<1> DEFINE jobs == [g \in Generation |-> Abort(job[s][g], "server_stopping")]
<1>1. \A h \in Generation :
        /\ Abort(job[s][h], "server_stopping") \in Job
        /\ Abort(job[s][h], "server_stopping").step = job[s][h].step
  BY TypedRows, AbortIs DEF IInv
<1>2. /\ jobs \in [Generation -> Job]
      /\ \A h \in Generation : jobs[h].step = job[s][h].step
  BY <1>1
<1>3. /\ job' \in JobTable
      /\ \A t \in Server \ {s} : job'[t] = job[t]
      /\ job'[s] = jobs
  BY <1>2 DEF Stop, IInv, JobsFine, JobTable
<1>4. \A h \in Generation : Lower(h) /\ Kept(h)
  BY DEF Stop, Lower, Kept, Same
<1>5. JobsFine'
  <2> HIDE DEF jobs
  <2> QED BY <1>2, <1>3, <1>4, AllJobs
<1>6. stops' \in 0 .. MaxStops
  BY BoundAssumption DEF Stop, IInv, Typed
<1>7. Typed'
  BY <1>5, <1>6 DEF IInv, Typed, JobsFine, Stop
<1> QED BY <1>4, <1>5, <1>7 DEF Fine, Move

LEMMA CrashFine ==
  ASSUME IInv, NEW s \in Server, Crash(s)
  PROVE  Fine
<1> DEFINE jobs == [g \in Generation |-> NoJob]
<1>1. \A h \in Generation :
        /\ Orphaned(row[h], s) \in Row
        /\ Orphaned(row[h], s).phase = row[h].phase
        /\ Orphaned(row[h], s).holder = IF row[h].holder = s THEN Nobody ELSE row[h].holder
  BY TypedRows, OrphanedIs DEF IInv
<1>2. /\ row' \in [Generation -> Row]
      /\ \A h \in Generation : Lower(h) /\ Kept(h) /\ row'[h].holder # s
  BY <1>1, NullAssumption DEF Crash, Lower, Kept, Same
<1>3. jobs \in [Generation -> Job] /\ \A h \in Generation : jobs[h].step = "none"
  BY NoJobIs
<1>4. JobsFine'
  <2>1. /\ job' \in JobTable
        /\ \A t \in Server \ {s} : job'[t] = job[t]
        /\ job'[s] = jobs
    BY <1>3 DEF Crash, IInv, JobsFine, JobTable
  <2> HIDE DEF jobs
  <2> QED BY <1>2, <1>3, <2>1, AllJobs
<1>5. stops' \in 0 .. MaxStops
  BY BoundAssumption DEF Crash, IInv, Typed
<1>6. Typed'
  BY <1>2, <1>4, <1>5 DEF IInv, Typed, JobsFine, Crash
<1> QED BY <1>2, <1>4, <1>6 DEF Fine, Move

\* A process exits, or is started again.
LEMMA ServerFine ==
  ASSUME IInv, NEW s \in Server, Exit(s) \/ Restart(s)
  PROVE  Fine
<1>1. \A h \in Generation : Lower(h) /\ Kept(h)
  BY DEF Exit, Restart, Lower, Kept, Same
<1>2. JobsFine'
  BY <1>1, RowStep DEF Exit, Restart, IInv
<1>3. Typed'
  BY <1>2 DEF IInv, Typed, JobsFine, Exit, Restart
<1> QED BY <1>1, <1>2, <1>3 DEF Fine, Move
-----------------------------------------------------------------------------
(* The inductive invariant.                                                *)

LEMMA AdvanceFine ==
  ASSUME IInv, NEW s \in Server, NEW g \in Generation, Advance(s, g)
  PROVE  Fine
<1>1. CASE Assemble(s, g)
  BY <1>1, QuietSteps DEF Assemble
<1>2. CASE DispatchThrows(s, g)
  BY <1>2, QuietSteps, TypedRows DEF DispatchThrows, IInv, Job
<1>3. CASE Aborted(s, g)
  BY <1>3, QuietSteps, TypedRows DEF Aborted, IInv, Job
<1> QED BY <1>1, <1>2, <1>3, ResolveFine, ReleaseFine, ClaimLeaseFine, ClaimThrowsFine,
           DispatchFine, FailFine DEF Advance

LEMMA EventFine ==
  ASSUME IInv, NEW s \in Server, NEW g \in Generation, Event(s, g)
  PROVE  Fine
<1>1. CASE AssembleFails(s, g)
  BY <1>1, QuietSteps DEF AssembleFails
<1>2. CASE ConnectorFails(s, g)
  BY <1>2, QuietSteps DEF ConnectorFails
<1>3. CASE Timeout(s, g)
  BY <1>3, QuietSteps DEF Timeout
<1>4. CASE RenewThrows(s, g)
  BY <1>4, QuietSteps DEF RenewThrows
<1> QED BY <1>1, <1>2, <1>3, <1>4, StartTurnFine, PollFine, CancelFine, DeltaFine, FinishFine
        DEF Event

LEMMA NextFine ==
  ASSUME IInv, [Next]_vars
  PROVE  Fine
<1>1. CASE UNCHANGED vars
  <2>1. \A h \in Generation : Lower(h) /\ Kept(h)
    BY <1>1 DEF vars, Lower, Kept, Same
  <2>2. JobsFine'
    BY <1>1, <2>1, RowStep DEF vars, IInv
  <2>3. Typed'
    BY <1>1, <2>2 DEF vars, IInv, Typed, JobsFine
  <2> QED BY <2>1, <2>2, <2>3 DEF Fine, Move
<1>2. CASE Next
  BY <1>2, AdvanceFine, EventFine, StoreThrowsFine, ExpireFine, StopFine, CrashFine, ServerFine
  DEF Next
<1> QED BY <1>1, <1>2

LEMMA Initially == Init => IInv
<1> SUFFICES ASSUME Init PROVE IInv
  OBVIOUS
<1>1. NoRow \in Row /\ NoRow.phase = "none" /\ NoRow.holder = Nobody
  BY DEF NoRow, Row
<1>2. Typed
  BY <1>1, NoJobIs, BoundAssumption DEF Init, Typed, JobTable
<1>3. Bounded
  <2>1. \A s \in Server : Jobs(s) = {}
    BY NoJobIs DEF Init, Jobs
  <2> QED BY <2>1, FS_EmptySet, BoundAssumption DEF Bounded
<1>4. Matching
  BY <1>1, NullAssumption DEF Init, Matching
<1>5. Book
  BY <1>1 DEF Init, Book, RowBook, OneDispatched, InProgress
<1> QED BY <1>2, <1>3, <1>4, <1>5 DEF IInv, JobsFine, Typed

\* The inductive invariant of the jobs: which step the job behind a held lease may be at, and
\* what a lease's phase says of the calls made to the connector.
THEOREM Inductive == Spec => []IInv
<1>1. IInv /\ [Next]_vars => IInv'
  BY NextFine, BookStep DEF Fine, IInv
<1> QED BY <1>1, Initially, PTL DEF Spec

\* Jobs, rows and counters keep their types, and the table its limit
\* (scheduleGeneration's capacity check).
THEOREM TypeCorrect == Spec => []TypeOK
<1>1. IInv => TypeOK
  BY DEF IInv, Typed, JobsFine, JobTable, Bounded, TypeOK
<1> QED BY <1>1, Inductive, PTL

\* The connector is called at most once for a turn, by whatever processes
\* schedule it, and every completed turn was answered by that call.
THEOREM CalledOnceAlways == Spec => []CalledOnce
<1>1. IInv => CalledOnce
  BY DEF IInv, Book, RowBook, CalledOnce
<1> QED BY <1>1, Inductive, PTL

\* A lease that a process holds belongs to its job of that generation, and is
\* marked as dispatched exactly when that job has called the connector.
THEOREM LeaseMatchesJobAlways == Spec => []LeaseMatchesJob
<1>1. IInv => LeaseMatchesJob
  BY Matches DEF IInv, JobsFine
<1> QED BY <1>1, Inductive, PTL

\* Of the jobs that wait for the model at once, in whatever process, one at most
\* still has the right to answer: the lease is marked as dispatched for one
\* generation only, and it has one holder.
THEOREM OneRightfulInferenceAlways == Spec => []OneRightfulInference
<1>1. IInv => OneRightfulInference
  BY DEF IInv, Book, OneDispatched, OneRightfulInference
<1> QED BY <1>1, Inductive, PTL
-----------------------------------------------------------------------------
(* A stop is no answer.                                                    *)

\* Only an action of its own moves a job that a stop has aborted, or the end of
\* its process: an abort that comes later finds its reason taken.
LEMMA StoppedKeeps ==
  ASSUME IInv, Next, NEW s \in Server, NEW g \in Generation, InProgress(g), StoppedWaiting(s, g)
  PROVE  \/ job'[s][g] = job[s][g]
         \/ DispatchThrows(s, g) \/ Aborted(s, g) \/ Fail(s, g) \/ Release(s, g) \/ StoreThrows(s, g)
         \/ Crash(s)
<1>1. job \in JobTable
  BY DEF IInv, Typed
<1>2. ASSUME NEW t \in Server, NEW h \in Generation, ~(t = s /\ h = g), NEW j, job' = WithJob(t, h, j)
      PROVE  job'[s][g] = job[s][g]
  BY <1>1, <1>2 DEF WithJob, JobTable
<1>3. ASSUME job' = job
      PROVE  job'[s][g] = job[s][g]
  BY <1>3
<1>4. ASSUME NEW t \in Server, NEW h \in Generation, Advance(t, h), ~(t = s /\ h = g)
      PROVE  job'[s][g] = job[s][g]
  <2>1. \/ \E j : job' = WithJob(t, h, j)
        \/ job' = job
    <3>1. CASE Resolve(t, h)
      BY <3>1 DEF Resolve
    <3>2. CASE Release(t, h)
      BY <3>2 DEF Release
    <3>3. CASE ClaimLease(t, h)
      BY <3>3 DEF ClaimLease, Throw, Goto
    <3>4. CASE ClaimThrows(t, h)
      BY <3>4 DEF ClaimThrows, Goto
    <3>5. CASE Assemble(t, h)
      BY <3>5 DEF Assemble, Goto
    <3>6. CASE Dispatch(t, h)
      BY <3>6 DEF Dispatch, Goto
    <3>7. CASE DispatchThrows(t, h)
      BY <3>7 DEF DispatchThrows, Throw
    <3>8. CASE Aborted(t, h)
      BY <3>8 DEF Aborted, Throw
    <3>9. CASE Fail(t, h)
      BY <3>9 DEF Fail, Goto
    <3> QED BY <1>4, <3>1, <3>2, <3>3, <3>4, <3>5, <3>6, <3>7, <3>8, <3>9 DEF Advance
  <2> QED BY <1>2, <1>3, <1>4, <2>1
<1>5. ASSUME NEW t \in Server, NEW h \in Generation, Event(t, h), ~(t = s /\ h = g)
      PROVE  job'[s][g] = job[s][g]
  <2>1. \/ \E j : job' = WithJob(t, h, j)
        \/ job' = job
    <3>1. CASE StartTurn(t, h)
      BY <3>1 DEF StartTurn, Scheduled
    <3>2. CASE Poll(t, h)
      BY <3>2 DEF Poll, Scheduled
    <3>3. CASE Cancel(t, h) \/ Timeout(t, h) \/ RenewThrows(t, h)
      BY <3>3 DEF Cancel, Timeout, RenewThrows
    <3>4. CASE AssembleFails(t, h) \/ ConnectorFails(t, h)
      BY <3>4 DEF AssembleFails, ConnectorFails, Throw
    <3>5. CASE Delta(t, h)
      BY <3>5 DEF Delta, Throw
    <3>6. CASE Finish(t, h)
      BY <3>6 DEF Finish, Throw, Goto
    <3> QED BY <1>5, <3>1, <3>2, <3>3, <3>4, <3>5, <3>6 DEF Event
  <2> QED BY <1>2, <1>3, <1>5, <2>1
<1>6. ASSUME Advance(s, g)
      PROVE  \/ job'[s][g] = job[s][g]
             \/ DispatchThrows(s, g) \/ Aborted(s, g) \/ Fail(s, g) \/ Release(s, g)
  BY <1>6 DEF StoppedWaiting, Advance, Resolve, ClaimLease, ClaimThrows, Assemble, Dispatch
<1>7. ASSUME Event(s, g)
      PROVE  job'[s][g] = job[s][g]
  <2>1. Cancel(s, g)
    BY <1>7 DEF StoppedWaiting, Event, StartTurn, Poll, AssembleFails, Delta, Finish,
                ConnectorFails, Timeout, RenewThrows
  <2>2. Abort(job[s][g], "other") = job[s][g]
    BY DEF StoppedWaiting, Abort
  <2> QED BY <1>1, <2>1, <2>2 DEF Cancel, WithJob, JobTable
<1>8. ASSUME NEW t \in Server, NEW h \in Generation, StoreThrows(t, h), ~(t = s /\ h = g)
      PROVE  job'[s][g] = job[s][g]
  <2>1. \E j : job' = WithJob(t, h, j)
    BY <1>8 DEF StoreThrows, Goto
  <2> QED BY <1>2, <1>8, <2>1
<1>9. ASSUME NEW t \in Server, Stop(t)
      PROVE  job'[s][g] = job[s][g]
  <2>1. Abort(job[s][g], "server_stopping") = job[s][g]
    BY DEF StoppedWaiting, Abort
  <2> QED BY <1>1, <1>9, <2>1 DEF Stop, JobTable
<1>10. ASSUME NEW t \in Server, Crash(t), t # s
       PROVE  job'[s][g] = job[s][g]
  BY <1>1, <1>10 DEF Crash, JobTable
<1>11. ASSUME NEW t \in Server, Exit(t) \/ Restart(t)
       PROVE  job'[s][g] = job[s][g]
  BY <1>11 DEF Exit, Restart
<1>12. ASSUME NEW h \in Generation, Expire(h)
       PROVE  job'[s][g] = job[s][g]
  BY <1>12 DEF Expire
<1> QED
  <2>1. CASE \E t \in Server, h \in Generation : Advance(t, h) \/ Event(t, h) \/ StoreThrows(t, h)
    BY <1>4, <1>5, <1>6, <1>7, <1>8, <2>1
  <2>2. CASE \E h \in Generation : Expire(h)
    BY <1>12, <2>2
  <2>3. CASE \E t \in Server : Stop(t) \/ Exit(t) \/ Crash(t) \/ Restart(t)
    BY <1>9, <1>10, <1>11, <2>3
  <2> QED BY <2>1, <2>2, <2>3 DEF Next

\* So it stays a stopped job until it is gone.
LEMMA StoppedStays ==
  ASSUME IInv, Next, NEW s \in Server, NEW g \in Generation, InProgress(g), StoppedWaiting(s, g)
  PROVE  job'[s][g].step = "none" \/ StoppedWaiting(s, g)'
<1> DEFINE j == job[s][g]
<1>1. job \in JobTable /\ j \in Job
  BY TypedRows DEF IInv, Typed
<1>2. ASSUME NEW k \in Job, job' = WithJob(s, g, k)
      PROVE  job'[s][g] = k
  BY <1>1, <1>2, WithJobIs
<1>3. CASE job'[s][g] = j
  BY <1>3 DEF StoppedWaiting
<1>4. CASE DispatchThrows(s, g) \/ Aborted(s, g)
  <2>1. job' = WithJob(s, g, Thrown(j, "server_stopping")) /\ j.step \in {"dispatching", "running"}
    BY <1>4 DEF DispatchThrows, Aborted, Throw, StoppedWaiting
  <2>2. /\ Thrown(j, "server_stopping") \in Job /\ Thrown(j, "server_stopping").step = "failing"
        /\ Thrown(j, "server_stopping").error = "server_stopping"
        /\ Thrown(j, "server_stopping").abort = j.abort
    BY <1>1, ThrowIs DEF Thrown, Job
  <2> QED BY <1>2, <2>1, <2>2 DEF StoppedWaiting
<1>5. CASE job' = Goto(s, g, "releasing") /\ j.step = "failing"
  <2>1. /\ At(j, "releasing") \in Job /\ At(j, "releasing").step = "releasing"
        /\ At(j, "releasing").error = j.error
    BY <1>1, GotoIs DEF Step
  <2>2. At(j, "releasing").abort = j.abort
    BY <1>1 DEF At, Job
  <2> QED BY <1>2, <1>5, <2>1, <2>2 DEF StoppedWaiting, Goto
<1>6. CASE job' = WithJob(s, g, NoJob)
  BY <1>2, <1>6, NoJobIs
<1>7. CASE Crash(s)
  BY <1>1, <1>7, NoJobIs DEF Crash, JobTable
<1> QED BY <1>3, <1>4, <1>5, <1>6, <1>7, StoppedKeeps DEF Fail, Release, StoreThrows

\* While it has its lease nobody ends its turn but a cancellation.
LEMMA StoppedTurn ==
  ASSUME IInv, Next, NEW s \in Server, NEW g \in Generation, InProgress(g), StoppedWaiting(s, g),
         Holds(s, g, {"claimed", "dispatch_started"})
  PROVE  status'[g] \in {"in_progress", "cancelled"}
<1>1. /\ status \in [Generation -> {"absent", "in_progress", "completed", "cancelled", "failed"}]
      /\ status[g] = "in_progress" /\ row[g].holder = s
      /\ row[g].phase \in {"claimed", "dispatch_started"}
  BY DEF IInv, Typed, InProgress, Holds
<1>2. SUFFICES ASSUME status'[g] # status[g]
               PROVE  status'[g] = "cancelled"
  BY <1>1
<1>3. ASSUME NEW t \in Server, NEW h \in Generation, Advance(t, h)
      PROVE  FALSE
  <2>1. Resolve(t, h) \/ Fail(t, h)
    BY <1>2, <1>3 DEF Advance, Release, ClaimLease, ClaimThrows, Assemble, Dispatch,
                      DispatchThrows, Aborted
  <2>2. CASE Resolve(t, h)
    BY <1>1, <1>2, <2>2 DEF Resolve
  <2>3. CASE Fail(t, h)
    <3>1. h = g /\ job[t][h].step = "failing" /\ job[t][h].error # "server_stopping" /\ row[h].holder = t
      BY <1>1, <1>2, <2>3 DEF Fail, Holds
    <3> QED BY <1>1, <3>1 DEF StoppedWaiting
  <2> QED BY <2>1, <2>2, <2>3
<1>4. ASSUME NEW t \in Server, NEW h \in Generation, Event(t, h)
      PROVE  status'[g] = "cancelled"
  <2>1. StartTurn(t, h) \/ Cancel(t, h) \/ Finish(t, h)
    BY <1>2, <1>4 DEF Event, Poll, AssembleFails, Delta, ConnectorFails, Timeout, RenewThrows
  <2>2. CASE StartTurn(t, h)
    BY <1>1, <1>2, <2>2 DEF StartTurn
  <2>3. CASE Cancel(t, h)
    BY <1>1, <1>2, <2>3 DEF Cancel
  <2>4. CASE Finish(t, h)
    <3>1. h = g /\ job[t][h].abort = "none" /\ row[h].holder = t
      BY <1>1, <1>2, <2>4 DEF Finish, Holds
    <3> QED BY <1>1, <3>1 DEF StoppedWaiting
  <2> QED BY <2>1, <2>2, <2>3, <2>4
<1>5. \E t \in Server, h \in Generation : Advance(t, h) \/ Event(t, h)
  BY <1>2 DEF Next, StoreThrows, Expire, Stop, Exit, Crash, Restart
<1> QED BY <1>3, <1>4, <1>5

\* When it goes by itself, with its release, it gives its lease back.
LEMMA StoppedGoes ==
  ASSUME IInv, Next, NEW s \in Server, NEW g \in Generation, InProgress(g), StoppedWaiting(s, g),
         Holds(s, g, {"claimed", "dispatch_started"}),
         job'[s][g].step = "none", lapses' = lapses, server'[s] # "down"
  PROVE  /\ ~Live(row'[g])
         /\ TurnOf(g)' = (IF row[g].phase = "claimed" THEN "pending" ELSE "lost")
<1>1. /\ job \in JobTable /\ job[s][g] \in Job /\ lapses \in Nat
      /\ row \in [Generation -> Row] /\ row[g] \in Row
      /\ status \in [Generation -> {"absent", "in_progress", "completed", "cancelled", "failed"}]
      /\ server \in [Server -> {"up", "stopping", "down"}]
  BY TypedRows, BoundAssumption DEF IInv, Typed
<1>2. ASSUME NEW k \in Job, job' = WithJob(s, g, k)
      PROVE  k.step = "none"
  BY <1>1, <1>2, WithJobIs
<1>3. ~StoreThrows(s, g)
  BY <1>1 DEF StoreThrows
<1>4. ~Crash(s)
  BY <1>1 DEF Crash
<1>5. ~(DispatchThrows(s, g) \/ Aborted(s, g) \/ Fail(s, g))
  <2>1. /\ At(job[s][g], "releasing") \in Job /\ At(job[s][g], "releasing").step = "releasing"
        /\ \A e \in {"none", "server_stopping", "other"} :
             Thrown(job[s][g], e) \in Job /\ Thrown(job[s][g], e).step = "failing"
    BY <1>1, GotoIs, ThrowIs DEF Step
  <2>2. job[s][g].abort = "server_stopping"
    BY DEF StoppedWaiting
  <2> QED BY <1>2, <2>1, <2>2 DEF DispatchThrows, Aborted, Fail, Throw, Goto
<1>6. job'[s][g] # job[s][g]
  BY DEF StoppedWaiting
<1>7. Release(s, g)
  BY <1>3, <1>4, <1>5, <1>6, StoppedKeeps
<1>8. row[g].phase \in {"claimed", "dispatch_started"}
  BY DEF Holds
<1> DEFINE phase == IF row[g].phase = "dispatch_started" THEN "interrupted" ELSE "released"
<1>9. row'[g] = Orphaned(Invalidated(row[g], phase), s) /\ status' = status
  BY <1>1, <1>7 DEF Release
<1>10. row'[g].phase = phase /\ phase \in {"released", "interrupted"}
  <2>1. /\ Invalidated(row[g], phase) \in Row /\ Invalidated(row[g], phase).phase = phase
    BY <1>1, <1>8, InvalidatedIs
  <2> HIDE DEF phase
  <2>2. Orphaned(Invalidated(row[g], phase), s).phase = phase
    BY <2>1, OrphanedIs
  <2> QED BY <1>9, <2>2 DEF phase
<1> QED BY <1>8, <1>9, <1>10 DEF Live, TurnOf, InProgress

\* A job that a stop was the first to abort while it waited gives its turn back,
\* unanswered: to be claimed at once, or known to be lost (scheduleGeneration's
\* waits reject with the reason of the abort, its catch block skips failGeneration
\* for a stop, and its finally block releases the lease).
THEOREM StopIsNoAnswerAlways == Spec => StopIsNoAnswer
<1> DEFINE Answer ==
      \A s \in Server, g \in Generation : InProgress(g) /\ StoppedWaiting(s, g) =>
        LET gone == job'[s][g].step = "none"
            undispatched == row[g].phase = "claimed"
        IN /\ gone \/ StoppedWaiting(s, g)'
           /\ Holds(s, g, {"claimed", "dispatch_started"}) =>
                /\ status'[g] \in {"in_progress", "cancelled"}
                /\ gone /\ lapses' = lapses /\ server'[s] # "down" =>
                     /\ ~Live(row'[g])
                     /\ TurnOf(g)' = (IF undispatched THEN "pending" ELSE "lost")
<1>1. IInv /\ [Next]_vars => [Answer]_vars
  <2>1. IInv /\ Next => Answer
    BY StoppedStays, StoppedTurn, StoppedGoes
  <2> QED BY <2>1
<1> QED BY <1>1, Inductive, PTL DEF Spec, StopIsNoAnswer
-----------------------------------------------------------------------------
(***************************************************************************)
(* The jobs implement InferenceTurn: every move is a step of it.           *)
(***************************************************************************)
TurnMap == [g \in Generation |-> TurnOf(g)]

TurnStep == [Turn!Next]_<<TurnMap, text>>

LEMMA TurnCases ==
  ASSUME IInv, NEW g \in Generation
  PROVE  /\ InProgress(g) <=> TurnOf(g) \in Turn!Open
         /\ status[g] # "in_progress" => TurnOf(g) = status[g]
         /\ TurnOf(g) = "running" <=> row[g].phase = "dispatch_started"
         /\ TurnOf(g) = "pending" <=>
              InProgress(g) /\ row[g].phase \in {"none", "claimed", "released"}
<1>1. row[g] \in Row /\ RowBook(g)
      /\ status[g] \in {"absent", "in_progress", "completed", "cancelled", "failed"}
  BY TypedRows DEF IInv, Book
<1> QED BY <1>1 DEF TurnOf, InProgress, RowBook, Row, Turn!Open

LEMMA SameText ==
  ASSUME IInv, Typed', \A h \in Generation : text'[h] = text[h]
  PROVE  text' = text
BY DEF IInv, Typed

LEMMA StillTurn ==
  ASSUME NEW h \in Generation, Still(h)
  PROVE  TurnOf(h)' = TurnOf(h)
BY DEF Still, Same, TurnOf

LEMMA KeptTurn ==
  ASSUME IInv, NEW h \in Generation, Kept(h)
  PROVE  \/ TurnOf(h)' = TurnOf(h)
         \/ TurnOf(h) = "running" /\ TurnOf(h)' = "lost"
BY DEF Kept, Same, TurnOf, IInv, Book, RowBook, InProgress

\* At most one dispatch is lost at a time.
LEMMA LoseTurn ==
  ASSUME IInv, Typed', \A h \in Generation : text'[h] = text[h],
         \A h \in Generation :
           \/ TurnOf(h)' = TurnOf(h)
           \/ TurnOf(h) = "running" /\ TurnOf(h)' = "lost"
  PROVE  TurnStep
<1>1. text' = text
  BY SameText
<1>2. CASE \A h \in Generation : TurnOf(h)' = TurnOf(h)
  <2>1. TurnMap' = TurnMap
    BY <1>2 DEF TurnMap
  <2> QED BY <1>1, <2>1 DEF TurnStep
<1>3. ASSUME NEW g \in Generation, TurnOf(g)' # TurnOf(g)
      PROVE  TurnStep
  <2>1. \A h \in Generation : h # g => TurnOf(h)' = TurnOf(h)
    BY <1>3, TurnCases DEF IInv, Book, OneDispatched
  <2>2. TurnMap[g] = "running" /\ TurnMap' = [TurnMap EXCEPT ![g] = "lost"]
    BY <1>3, <2>1 DEF TurnMap
  <2>3. Turn!Lose(g)
    BY <1>1, <2>2 DEF Turn!Lose, TurnMap
  <2> QED BY <2>3 DEF TurnStep, Turn!Next
<1> QED BY <1>2, <1>3

LEMMA CalledTurn ==
  ASSUME IInv, Typed', NEW g \in Generation, Called(g),
         \A h \in Generation \ {g} : Kept(h) /\ row'[h].phase # "dispatch_started"
  PROVE  TurnStep
<1>1. text' = text
  BY SameText DEF Called, Kept, Same
<1>2. TurnOf(g) = "pending" /\ TurnOf(g)' = "running"
  BY DEF Called, TurnOf, InProgress
<1>3. ASSUME NEW h \in Generation \ {g}
      PROVE  TurnOf(h)' = IF TurnOf(h) = "running" THEN "lost" ELSE TurnOf(h)
  <2>1. TurnOf(h)' # "running"
    BY DEF TurnOf, Typed
  <2> QED BY <2>1, KeptTurn
<1>4. /\ TurnMap[g] = "pending"
      /\ TurnMap' = [h \in Generation |->
                       IF h = g THEN "running"
                       ELSE IF TurnMap[h] = "running" THEN "lost" ELSE TurnMap[h]]
  BY <1>2, <1>3 DEF TurnMap
<1>5. Turn!Dispatch(g)
  BY <1>1, <1>4 DEF Turn!Dispatch, TurnMap
<1> QED BY <1>5 DEF TurnStep, Turn!Next

LEMMA BeginsTurn ==
  ASSUME IInv, Typed', NEW g \in Generation, Begins(g), \A h \in Generation \ {g} : Still(h)
  PROVE  TurnStep
<1>1. text' = text
  BY SameText DEF Begins, Still, Same
<1>2. TurnOf(g) = "absent" /\ TurnOf(g)' = "pending"
  BY DEF Begins, TurnOf, IInv, Book, RowBook
<1>3. TurnMap[g] = "absent" /\ TurnMap' = [TurnMap EXCEPT ![g] = "pending"]
  BY <1>2, StillTurn DEF TurnMap
<1>4. \A h \in Generation : ThreadOf[h] = ThreadOf[g] => TurnMap[h] \notin Turn!Open
  BY TurnCases DEF TurnMap, Begins
<1>5. Turn!Begin(g)
  BY <1>1, <1>3, <1>4 DEF Turn!Begin, TurnMap
<1> QED BY <1>5 DEF TurnStep, Turn!Next

LEMMA WritesTurn ==
  ASSUME IInv, Typed', NEW g \in Generation, Writes(g), \A h \in Generation \ {g} : Still(h)
  PROVE  TurnStep
<1>1. TurnOf(g) = "running" /\ TurnOf(g)' = "running"
  BY DEF Writes, TurnOf, InProgress
<1>2. TurnMap[g] = "running" /\ TurnMap' = TurnMap
  BY <1>1, StillTurn DEF TurnMap
<1>3. text' = [text EXCEPT ![g] = @ + 1]
  BY DEF Writes, Still, Same, IInv, Typed
<1>4. Turn!Write(g)
  BY <1>2, <1>3 DEF Turn!Write, TurnMap
<1> QED BY <1>4 DEF TurnStep, Turn!Next

LEMMA ClosesTurn ==
  ASSUME IInv, Typed', NEW g \in Generation, Closes(g), \A h \in Generation \ {g} : Still(h)
  PROVE  TurnStep
<1>1. text' = text
  BY SameText DEF Closes, Still, Same
<1>2. TurnOf(g) \in Turn!Open /\ TurnOf(g)' = status'[g]
  BY TurnCases DEF Closes, Ends, TurnOf
<1>3. TurnMap[g] = TurnOf(g) /\ TurnMap' = [TurnMap EXCEPT ![g] = status'[g]]
  BY <1>2, StillTurn DEF TurnMap
<1>4. CASE status'[g] = "completed"
  <2>1. TurnOf(g) = "running" /\ text[g] > 0
    BY <1>4, TurnCases DEF Closes
  <2>2. Turn!Complete(g)
    BY <1>1, <1>3, <1>4, <2>1 DEF Turn!Complete, TurnMap
  <2> QED BY <2>2 DEF TurnStep, Turn!Next
<1>5. CASE status'[g] \in {"cancelled", "failed"}
  <2>1. Turn!GiveUp(g)
    BY <1>1, <1>2, <1>3, <1>5 DEF Turn!GiveUp, TurnMap
  <2> QED BY <2>1 DEF TurnStep, Turn!Next
<1> QED BY <1>4, <1>5 DEF Closes, Ends

\* A claim and a released claim are the same pending turn.
LEMMA PendingTurn ==
  ASSUME IInv, NEW g \in Generation, Claims(g) \/ Returns(g)
  PROVE  TurnOf(g)' = TurnOf(g)
BY DEF Claims, Returns, Same, TurnOf, InProgress

LEMMA MoveTurn ==
  ASSUME IInv, Typed', Move
  PROVE  TurnStep
<1>1. ASSUME NEW h \in Generation, Kept(h) \/ Still(h)
      PROVE  /\ text'[h] = text[h]
             /\ \/ TurnOf(h)' = TurnOf(h)
                \/ TurnOf(h) = "running" /\ TurnOf(h)' = "lost"
  BY <1>1, KeptTurn, StillTurn DEF Kept, Still, Same
<1>2. CASE \A h \in Generation : Kept(h)
  BY <1>1, <1>2, LoseTurn
<1>3. ASSUME NEW g \in Generation, Claims(g) \/ Returns(g),
             \A h \in Generation \ {g} : Kept(h) \/ Still(h)
      PROVE  TurnStep
  <2>1. text'[g] = text[g] /\ TurnOf(g)' = TurnOf(g)
    BY <1>3, PendingTurn DEF Claims, Returns, Same
  <2> QED BY <1>1, <1>3, <2>1, LoseTurn
<1> QED BY <1>2, <1>3, CalledTurn, BeginsTurn, WritesTurn, ClosesTurn DEF Move

\* The jobs, whatever crashes, stops, lapses and retries, show a client only
\* turns that begin, run once, and end (InferenceTurn).
THEOREM JobsImplementTurn == Spec => ImplementsTurn
<1>1. Init => Turn!Init
  BY DEF Init, Turn!Init, TurnOf
<1>2. IInv /\ [Next]_vars => [Turn!Next]_(Turn!vars)
  BY NextFine, MoveTurn DEF Fine, TurnStep, TurnMap, Turn!vars
<1> QED BY <1>1, <1>2, Inductive, PTL DEF Spec, ImplementsTurn, Turn!Spec
=============================================================================
