--------------------------- MODULE GenerationJob ---------------------------
(***************************************************************************)
(* The background jobs that run Direct Chat generations (src/src/          *)
(* cloud-server.js, scheduleGeneration): several BFF processes that share  *)
(* one database, each with its in-memory table of jobs, against clients    *)
(* that start, poll and cancel turns.                                      *)
(*                                                                         *)
(* A job is an async function.  Between two awaits nothing else of its     *)
(* process runs (Synchronous), but the other processes do between any two  *)
(* transactions, so every action makes at most one transaction.  The store *)
(* is DispatchLease seen from here: a lease has a phase, the process whose *)
(* job holds it, and whether it has expired.  A lease lasts 30 seconds and *)
(* its job renews it every 10, so it expires under a living job only when  *)
(* that job's process stalls or the clock jumps.                           *)
(***************************************************************************)
EXTENDS Integers, FiniteSets

CONSTANTS
  Server,      \* BFF processes
  Thread,
  Generation,
  ThreadOf,
  MaxDeltas,   \* bound: deltas a connector delivers
  MaxJobs,     \* limits.directChatJobs
  MaxStops,    \* bound: stops and crashes of processes
  MaxLapses,   \* bound: leases lost by a living job, store calls that throw
  Nobody       \* no living job knows the owner token of the lease

ASSUME ThreadAssumption == ThreadOf \in [Generation -> Thread]
ASSUME BoundAssumption  ==
  /\ MaxDeltas \in Nat /\ MaxJobs \in Nat \ {0}
  /\ MaxStops \in Nat /\ MaxLapses \in Nat
ASSUME NullAssumption   == Nobody \notin Server

VARIABLES
  status,  \* generation rows, "absent" before the row exists
  row,     \* the lease row of every generation
  text,    \* how many deltas the journal has
  server,  \* "up", "stopping" or "down"
  job,     \* the entry of jobs for a generation, in each process
  calls,   \* history: how often directChatConnector.generate was called
  stops, lapses

vars == <<status, row, text, server, job, calls, stops, lapses>>

Step == {"none", "claiming", "resolving", "assembling", "dispatching",
         "running", "failing", "releasing"}

\* abort: why the job's controller was aborted; error: what its catch block
\* caught; found: how many deltas persistedDeltas read.
Job == [step : Step, found : 0 .. MaxDeltas,
        abort : {"none", "server_stopping", "other"},
        error : {"none", "server_stopping", "other"}]

NoJob == [step |-> "none", found |-> 0, abort |-> "none", error |-> "none"]

Row == [phase : {"none", "claimed", "dispatch_started", "released", "interrupted"},
        holder : Server \cup {Nobody}, expired : BOOLEAN]

NoRow == [phase |-> "none", holder |-> Nobody, expired |-> FALSE]

InProgress(g) == status[g] = "in_progress"

Live(r) == r.phase \in {"claimed", "dispatch_started"} /\ ~r.expired

Holds(s, g, phases) ==
  row[g].holder = s /\ Live(row[g]) /\ row[g].phase \in phases

\* #reconcileExpiredGenerationDispatches
Reconciled ==
  [g \in Generation |->
     IF row[g].phase = "dispatch_started" /\ row[g].expired
       THEN [row[g] EXCEPT !.phase = "interrupted"]
       ELSE row[g]]

\* #invalidateGenerationLease: a lease that has already ended stays as it is.
Invalidated(r, phase) ==
  IF r.phase \in {"claimed", "dispatch_started"} THEN [r EXCEPT !.phase = phase] ELSE r

\* A job of the process is between two transactions with no await between
\* them: nothing else of the process runs.
Synchronous(s) == \E g \in Generation : job[s][g].step \in {"resolving", "releasing"}

Jobs(s) == {g \in Generation : job[s][g].step # "none"}

WithJob(s, g, j) == [job EXCEPT ![s] = [@ EXCEPT ![g] = j]]

At(j, step) == [j EXCEPT !.step = step]

Goto(s, g, step) == WithJob(s, g, At(job[s][g], step))

\* The catch block, with the error it catches.
Thrown(j, error) == [j EXCEPT !.step = "failing", !.error = error]

Throw(s, g, error) == WithJob(s, g, Thrown(job[s][g], error))
-----------------------------------------------------------------------------
Init ==
  /\ status = [g \in Generation |-> "absent"]
  /\ row    = [g \in Generation |-> NoRow]
  /\ text   = [g \in Generation |-> 0]
  /\ server = [s \in Server |-> "up"]
  /\ job    = [s \in Server |-> [g \in Generation |-> NoJob]]
  /\ calls  = [g \in Generation |-> 0]
  /\ stops = 0 /\ lapses = 0

\* Mutant: the table takes one job more than its limit.
CapacityMutantOffByOne(s) == server[s] = "up" /\ Cardinality(Jobs(s)) <= MaxJobs

\* What scheduleGeneration refuses: a stopping process, a full table.
Capacity(s) == server[s] = "up" /\ Cardinality(Jobs(s)) < MaxJobs

\* scheduleGeneration, up to the await of persistedDeltas.
NewJob(found) == [NoJob EXCEPT !.step = "claiming", !.found = found]

Scheduled(s, g) == WithJob(s, g, NewJob(text[g]))

\* handleChat, chatRunsStart, after its await of the context's preparation: the
\* table it looked at before the await may have filled, and the process may be
\* stopping, so the turn is persisted whether or not a job can be scheduled.
StartTurn(s, g) ==
  /\ server[s] # "down"
  /\ status[g] = "absent"
  /\ \A h \in Generation : ThreadOf[h] = ThreadOf[g] => ~InProgress(h)
  /\ status' = [status EXCEPT ![g] = "in_progress"]
  /\ job' = IF Capacity(s) THEN Scheduled(s, g) ELSE job
  /\ UNCHANGED <<row, text, server, calls, stops, lapses>>

\* handleChat, chatRunsStatus, and streamChatEvents: a client that asks for a
\* generation in progress has it scheduled again.
Poll(s, g) ==
  /\ InProgress(g)
  /\ job[s][g].step = "none"
  /\ Capacity(s)
  /\ job' = Scheduled(s, g)
  /\ UNCHANGED <<status, row, text, server, calls, stops, lapses>>

\* Mutant: an interrupted dispatch may be claimed again.
ClaimRefusedMutantIgnoresPhase(g) == ~InProgress(g) \/ Live(Reconciled[g])

\* What makes claimGenerationLease throw, after its reconciliation.
ClaimRefused(g) ==
  ~InProgress(g) \/ Reconciled[g].phase = "interrupted" \/ Live(Reconciled[g])

\* The claim.  A generation with deltas can never be claimed again, but the job
\* does not rely on it.
ClaimLease(s, g) ==
  /\ job[s][g].step = "claiming"
  /\ ~ClaimRefused(g)
  /\ row' = [Reconciled EXCEPT ![g] = [phase |-> "claimed", holder |-> s, expired |-> FALSE]]
  /\ job' = IF job[s][g].found # 0 THEN Throw(s, g, "other") ELSE Goto(s, g, "assembling")
  /\ UNCHANGED <<status, text, server, calls, stops, lapses>>

\* A claim that throws Conflict for an interrupted generation has committed its
\* reconciliation; one that throws inside the transaction is rolled back.
ClaimThrows(s, g) ==
  /\ job[s][g].step = "claiming"
  /\ ClaimRefused(g)
  /\ row' = IF InProgress(g) /\ Reconciled[g].phase = "interrupted" THEN Reconciled ELSE row
  /\ job' = Goto(s, g, "resolving")
  /\ UNCHANGED <<status, text, server, calls, stops, lapses>>

\* The job's inner catch: only an interrupted generation is failed, without a
\* proof, and the job ends without having held a lease.
Resolve(s, g) ==
  /\ job[s][g].step = "resolving"
  /\ status' = IF InProgress(g) /\ row[g].phase = "interrupted"
                 THEN [status EXCEPT ![g] = "failed"]
                 ELSE status
  /\ job' = WithJob(s, g, NoJob)
  /\ UNCHANGED <<row, text, server, calls, stops, lapses>>

\* contextCoordinator.assemble, the only await between claim and dispatch, which
\* does not look at the controller.
Assemble(s, g) ==
  /\ job[s][g].step = "assembling"
  /\ job' = Goto(s, g, "dispatching")
  /\ UNCHANGED <<status, row, text, server, calls, stops, lapses>>

AssembleFails(s, g) ==
  /\ job[s][g].step = "assembling"
  /\ job' = Throw(s, g, "other")
  /\ UNCHANGED <<status, row, text, server, calls, stops, lapses>>

\* Mutant: only the conversation's own dispatch keeps others waiting.
BusyMutantPerThread(g) ==
  \E h \in Generation \ {g} : ThreadOf[h] = ThreadOf[g] /\ Reconciled[h].phase = "dispatch_started"

Busy(g) ==
  \E h \in Generation \ {g} : Reconciled[h].phase = "dispatch_started"

\* Mutant: the dispatch does not ask for the lease.
DispatchMutantNoLease(s, g) ==
  /\ job[s][g].step = "dispatching"
  /\ job[s][g].abort = "none"
  /\ InProgress(g)
  /\ ~Busy(g)
  /\ row' = [Reconciled EXCEPT ![g] = [@ EXCEPT !.phase = "dispatch_started"]]
  /\ job' = Goto(s, g, "running")
  /\ calls' = [calls EXCEPT ![g] = @ + 1]
  /\ UNCHANGED <<status, text, server, stops, lapses>>

\* The dispatch loop: markGenerationDispatchStarted authorises, and generate is
\* called.  While another generation is dispatched the loop waits (its retries
\* change nothing).
Dispatch(s, g) ==
  /\ job[s][g].step = "dispatching"
  /\ job[s][g].abort = "none"
  /\ InProgress(g) /\ Holds(s, g, {"claimed"})
  /\ ~Busy(g)
  /\ row' = [Reconciled EXCEPT ![g] = [@ EXCEPT !.phase = "dispatch_started"]]
  /\ job' = Goto(s, g, "running")
  /\ calls' = [calls EXCEPT ![g] = @ + 1]
  /\ UNCHANGED <<status, text, server, stops, lapses>>

\* Mutant: the wait for the dispatch rejects with an error of its own when it is
\* aborted, not with the reason.
DispatchThrowsMutantOwnError(s, g) ==
  /\ job[s][g].step = "dispatching"
  /\ job[s][g].abort # "none" \/ ~(InProgress(g) /\ Holds(s, g, {"claimed"}))
  /\ job' = Throw(s, g, "other")
  /\ UNCHANGED <<status, row, text, server, calls, stops, lapses>>

\* The dispatch loop finds its controller aborted, or the mark throws.
DispatchThrows(s, g) ==
  /\ job[s][g].step = "dispatching"
  /\ \/ job[s][g].abort # "none" /\ job' = Throw(s, g, job[s][g].abort)
     \/ /\ job[s][g].abort = "none"
        /\ ~(InProgress(g) /\ Holds(s, g, {"claimed"}))
        /\ job' = Throw(s, g, "other")
  /\ UNCHANGED <<status, row, text, server, calls, stops, lapses>>

\* The connector delivers a delta: appended, or refused by the store.
Delta(s, g) ==
  /\ job[s][g].step = "running" /\ job[s][g].abort = "none"
  /\ text[g] < MaxDeltas
  /\ IF InProgress(g) /\ Holds(s, g, {"dispatch_started"})
       THEN text' = [text EXCEPT ![g] = @ + 1] /\ UNCHANGED job
       ELSE job' = Throw(s, g, "other") /\ UNCHANGED text
  /\ UNCHANGED <<status, row, server, calls, stops, lapses>>

\* Mutant: the store takes the end of the stream from any job.
FinishMutantNoProof(s, g) ==
  /\ job[s][g].step = "running" /\ job[s][g].abort = "none"
  /\ IF InProgress(g) /\ text[g] > 0
       THEN /\ status' = [status EXCEPT ![g] = "completed"]
            /\ row' = [row EXCEPT ![g] = Invalidated(@, "released")]
            /\ job' = Goto(s, g, "releasing")
       ELSE job' = Throw(s, g, "other") /\ UNCHANGED <<status, row>>
  /\ UNCHANGED <<text, server, calls, stops, lapses>>

\* The connector's stream ends: finalizeGeneration, which refuses an empty
\* journal and a lost lease.
Finish(s, g) ==
  /\ job[s][g].step = "running" /\ job[s][g].abort = "none"
  /\ IF InProgress(g) /\ Holds(s, g, {"dispatch_started"}) /\ text[g] > 0
       THEN /\ status' = [status EXCEPT ![g] = "completed"]
            /\ row' = [row EXCEPT ![g] = Invalidated(@, "released")]
            /\ job' = Goto(s, g, "releasing")
       ELSE job' = Throw(s, g, "other") /\ UNCHANGED <<status, row>>
  /\ UNCHANGED <<text, server, calls, stops, lapses>>

\* The connector throws or breaks a limit.
ConnectorFails(s, g) ==
  /\ job[s][g].step = "running" /\ job[s][g].abort = "none"
  /\ job' = Throw(s, g, "other")
  /\ UNCHANGED <<status, row, text, server, calls, stops, lapses>>

\* Mutant: a stopping process waits for what the connector does.
AbortedMutantWaitsForConnector(s, g) ==
  /\ job[s][g].step = "running" /\ job[s][g].abort = "other"
  /\ job' = Throw(s, g, job[s][g].abort)
  /\ UNCHANGED <<status, row, text, server, calls, stops, lapses>>

\* valueWithAbort and abortableAsyncIterable: the job stops waiting for an
\* aborted connector, whatever the connector does.
Aborted(s, g) ==
  /\ job[s][g].step = "running" /\ job[s][g].abort # "none"
  /\ job' = Throw(s, g, job[s][g].abort)
  /\ UNCHANGED <<status, row, text, server, calls, stops, lapses>>

\* The outer catch: a stopping process leaves the turn in progress, any other
\* error fails it under the job's lease, with a code that is allowed before and
\* after the dispatch; failGeneration may refuse.
Fail(s, g) ==
  /\ job[s][g].step = "failing"
  /\ IF /\ InProgress(g) /\ job[s][g].error # "server_stopping"
        /\ Holds(s, g, {"claimed", "dispatch_started"})
       THEN /\ status' = [status EXCEPT ![g] = "failed"]
            /\ row' = [row EXCEPT ![g] = Invalidated(@, "released")]
       ELSE UNCHANGED <<status, row>>
  /\ job' = Goto(s, g, "releasing")
  /\ UNCHANGED <<text, server, calls, stops, lapses>>

\* What is left of a lease whose job is gone.
Orphaned(r, s) == IF r.holder = s THEN [r EXCEPT !.holder = Nobody] ELSE r

\* The finally block: releaseGenerationLease, which marks a dispatch that
\* started as interrupted, and the end of the job.
Release(s, g) ==
  /\ job[s][g].step = "releasing"
  /\ row' = [row EXCEPT ![g] =
       IF InProgress(g) /\ Holds(s, g, {"claimed", "dispatch_started"})
         THEN Orphaned(Invalidated(@, IF @.phase = "dispatch_started"
                                        THEN "interrupted" ELSE "released"), s)
         ELSE Orphaned(@, s)]
  /\ job' = WithJob(s, g, NoJob)
  /\ UNCHANGED <<status, text, server, calls, stops, lapses>>

\* A store call of the catch or finally block throws, which the job swallows: a
\* lease that is not released lasts until it expires.
StoreThrows(s, g) ==
  /\ lapses < MaxLapses
  /\ lapses' = lapses + 1
  /\ \/ job[s][g].step = "failing" /\ job' = Goto(s, g, "releasing") /\ UNCHANGED row
     \/ /\ job[s][g].step = "releasing"
        /\ job' = WithJob(s, g, NoJob)
        /\ row' = [row EXCEPT ![g] = Orphaned(@, s)]
  /\ UNCHANGED <<status, text, server, calls, stops>>

\* What aborts a job: its controller keeps the first reason.
Abort(j, reason) ==
  IF j.step # "none" /\ j.abort = "none" THEN [j EXCEPT !.abort = reason] ELSE j

\* Mutant: the timer is not armed again for the execution.
TimeoutMutantAdmissionOnly(s, g) ==
  /\ job[s][g].step \in {"claiming", "assembling", "dispatching"}
  /\ job[s][g].abort = "none"
  /\ job' = WithJob(s, g, Abort(job[s][g], "other"))
  /\ UNCHANGED <<status, row, text, server, calls, stops, lapses>>

\* armJobTimeout: one timer from the schedule to the dispatch, another from
\* the dispatch on.
Timeout(s, g) ==
  /\ job[s][g].step \in {"claiming", "assembling", "dispatching", "running"}
  /\ job[s][g].abort = "none"
  /\ job' = WithJob(s, g, Abort(job[s][g], "other"))
  /\ UNCHANGED <<status, row, text, server, calls, stops, lapses>>

\* The renew timer: a renewal that is refused aborts the job.  One that
\* succeeds keeps the lease from expiring.
RenewThrows(s, g) ==
  /\ job[s][g].step \in {"assembling", "dispatching", "running"}
  /\ job[s][g].abort = "none"
  /\ ~(InProgress(g) /\ Holds(s, g, {"claimed", "dispatch_started"}))
  /\ job' = WithJob(s, g, Abort(job[s][g], "other"))
  /\ UNCHANGED <<status, row, text, server, calls, stops, lapses>>

\* handleChat, chatRunsCancel: the row is cancelled for everybody, the job only
\* in the process that got the request.
Cancel(s, g) ==
  /\ server[s] # "down"
  /\ InProgress(g)
  /\ status' = [status EXCEPT ![g] = "cancelled"]
  /\ row' = [row EXCEPT ![g] = Invalidated(@, "released")]
  /\ job' = WithJob(s, g, Abort(job[s][g], "other"))
  /\ UNCHANGED <<text, server, calls, stops, lapses>>

\* A lease runs out: nobody renews it any more, or its process stalls.
Expire(g) ==
  /\ Live(row[g])
  /\ row[g].holder # Nobody => lapses < MaxLapses
  /\ lapses' = IF row[g].holder = Nobody THEN lapses ELSE lapses + 1
  /\ row' = [row EXCEPT ![g] = [@ EXCEPT !.expired = TRUE]]
  /\ UNCHANGED <<status, text, server, job, calls, stops>>

\* closeGenerationJobs
Stop(s) ==
  /\ server[s] = "up"
  /\ stops < MaxStops
  /\ stops' = stops + 1
  /\ server' = [server EXCEPT ![s] = "stopping"]
  /\ job' = [job EXCEPT ![s] = [g \in Generation |-> Abort(@[g], "server_stopping")]]
  /\ UNCHANGED <<status, row, text, calls, lapses>>

\* Promise.allSettled of the jobs there were, and the process exits.
Exit(s) ==
  /\ server[s] = "stopping"
  /\ Jobs(s) = {}
  /\ server' = [server EXCEPT ![s] = "down"]
  /\ UNCHANGED <<status, row, text, job, calls, stops, lapses>>

\* A process is killed: its jobs are gone, its leases are not.
Crash(s) ==
  /\ server[s] # "down"
  /\ stops < MaxStops
  /\ stops' = stops + 1
  /\ server' = [server EXCEPT ![s] = "down"]
  /\ job' = [job EXCEPT ![s] = [g \in Generation |-> NoJob]]
  /\ row' = [g \in Generation |-> Orphaned(row[g], s)]
  /\ UNCHANGED <<status, text, calls, lapses>>

Restart(s) ==
  /\ server[s] = "down"
  /\ server' = [server EXCEPT ![s] = "up"]
  /\ UNCHANGED <<status, row, text, job, calls, stops, lapses>>

\* What a job does on its own, without its connector.
Advance(s, g) ==
  \/ Resolve(s, g) \/ Release(s, g)
  \/ /\ ~Synchronous(s)
     /\ \/ ClaimLease(s, g) \/ ClaimThrows(s, g)
        \/ Assemble(s, g)
        \/ Dispatch(s, g) \/ DispatchThrows(s, g)
        \/ Aborted(s, g)
        \/ Fail(s, g)

\* What else the event loop of a process may run.
Event(s, g) ==
  /\ ~Synchronous(s)
  /\ \/ StartTurn(s, g) \/ Poll(s, g) \/ Cancel(s, g)
     \/ AssembleFails(s, g)
     \/ Delta(s, g) \/ Finish(s, g) \/ ConnectorFails(s, g)
     \/ Timeout(s, g) \/ RenewThrows(s, g)

Next ==
  \/ \E s \in Server, g \in Generation :
       Advance(s, g) \/ Event(s, g) \/ StoreThrows(s, g)
  \/ \E g \in Generation : Expire(g)
  \/ \E s \in Server :
       \/ ~Synchronous(s) /\ Stop(s)
       \/ Exit(s) \/ Crash(s) \/ Restart(s)

Spec == Init /\ [][Next]_vars

\* The event loop runs what is ready (a synchronous section is over at once),
\* timers fire, a lease nobody renews runs out, a supervisor restarts the
\* service, and the client keeps polling its turn.  The connector owes
\* nothing: it may hang for ever.
Fairness ==
  /\ \A s \in Server, g \in Generation :
       WF_vars(Advance(s, g)) /\ WF_vars(Timeout(s, g)) /\ WF_vars(Poll(s, g))
  /\ \A g \in Generation : WF_vars(row[g].holder = Nobody /\ Expire(g))
  /\ \A s \in Server : WF_vars(Exit(s)) /\ WF_vars(Restart(s))

FairSpec == Spec /\ Fairness
-----------------------------------------------------------------------------
(* Properties.                                                             *)

\* Rows, jobs and counters stay in their domains, and the job table within
\* limits.directChatJobs.
TypeOK ==
  /\ status \in [Generation -> {"absent", "in_progress", "completed", "cancelled", "failed"}]
  /\ row \in [Generation -> Row]
  /\ text \in [Generation -> 0 .. MaxDeltas]
  /\ server \in [Server -> {"up", "stopping", "down"}]
  /\ job \in [Server -> [Generation -> Job]]
  /\ \A s \in Server : Cardinality(Jobs(s)) <= MaxJobs
  /\ calls \in [Generation -> Nat]
  /\ stops \in 0 .. MaxStops /\ lapses \in 0 .. MaxLapses

\* The model is called at most once for a turn, however often the turn is
\* polled, by how many processes, and across stops, crashes and lost leases;
\* a turn that completed was answered by that one call.
CalledOnce ==
  \A g \in Generation :
    /\ calls[g] <= 1
    /\ status[g] = "completed" \/ text[g] > 0 => calls[g] = 1

\* A job and the lease row agree: a lease a process holds belongs to its job of
\* that generation, and it is marked as dispatched exactly when that job has
\* called the model, so no crash or error in between leaves a claimed row
\* behind a running model or a running row nobody dispatched.
LeaseMatchesJob ==
  \A s \in Server, g \in Generation :
    row[g].holder = s =>
      /\ job[s][g].step \in {"assembling", "dispatching", "running", "failing", "releasing"}
      /\ job[s][g].step \in {"assembling", "dispatching"} => row[g].phase # "dispatch_started"
      /\ job[s][g].step = "running" => row[g].phase # "claimed"

\* How a turn looks to somebody who does not know about jobs.
TurnOf(g) ==
  IF status[g] # "in_progress" THEN status[g]
  ELSE IF row[g].phase = "dispatch_started" THEN "running"
  ELSE IF row[g].phase = "interrupted" THEN "lost"
  ELSE "pending"

\* A stop reached the job while it waited for its dispatch or for the model, and
\* nothing had gone wrong with it before; it may have left its wait since.
StoppedWaiting(s, g) ==
  /\ job[s][g].abort = "server_stopping"
  /\ \/ job[s][g].step \in {"dispatching", "running"}
     \/ job[s][g].step \in {"failing", "releasing"} /\ job[s][g].error = "server_stopping"

\* A stop is no answer: from the moment a stop is the first to abort a job that
\* waits, and as long as that job and its turn last, the job is nothing but a
\* stopped one; while it has its lease the turn is at most cancelled, and when the
\* job is gone the turn can be claimed at once, or is known to be lost if it was
\* dispatched.  Only a release that throws and a killed process leave the lease to
\* its expiry.  A job that is still assembling, one whose deadline came first and
\* one that has already thrown something else are not spared: they fail their
\* turns during a stop as at any other time.
StopIsNoAnswer ==
  [][\A s \in Server, g \in Generation : InProgress(g) /\ StoppedWaiting(s, g) =>
       LET gone == job'[s][g].step = "none"
           undispatched == row[g].phase = "claimed"
       IN /\ gone \/ StoppedWaiting(s, g)'
          /\ Holds(s, g, {"claimed", "dispatch_started"}) =>
               /\ status'[g] \in {"in_progress", "cancelled"}
               /\ gone /\ lapses' = lapses /\ server'[s] # "down" =>
                    /\ ~Live(row'[g])
                    /\ TurnOf(g)' = (IF undispatched THEN "pending" ELSE "lost")]_vars

\* One inference at a time: no two jobs, in whatever process, wait for the
\* model at the same time.
OneInferenceAtATime ==
  \A s, t \in Server : \A g, h \in Generation :
    /\ job[s][g].step = "running" /\ job[s][g].abort = "none"
    /\ job[t][h].step = "running" /\ job[t][h].abort = "none"
    => s = t /\ g = h

\* When two jobs wait for the model at once, in whatever process, one of them
\* has already lost its right to answer: its turn was ended elsewhere or its
\* lease lapsed. The dispatch is freed by nothing else.
OneRightfulInference ==
  LET Rightful(s, g) == /\ job[s][g].step = "running" /\ job[s][g].abort = "none"
                        /\ InProgress(g)
                        /\ row[g].holder = s /\ row[g].phase = "dispatch_started"
  IN \A s, t \in Server : \A g, h \in Generation :
       Rightful(s, g) /\ Rightful(t, h) => s = t /\ g = h

\* Every turn ends, whatever hangs, stops or is lost, as long as its client
\* keeps polling.
EveryTurnEnds == \A g \in Generation : InProgress(g) ~> ~InProgress(g)

\* A process that was asked to stop waits for its jobs and does stop.
StopEnds == \A s \in Server : server[s] = "stopping" ~> server[s] = "down"

Turn == INSTANCE InferenceTurn
  WITH turn <- [g \in Generation |-> TurnOf(g)], text <- text

\* The jobs implement the promise the lease makes.
ImplementsTurn == Turn!Spec
=============================================================================
