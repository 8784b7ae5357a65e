-------------------------- MODULE RolloutAdmission --------------------------
(***************************************************************************)
(* RolloutAdmissionLatch (src/src/rollout-admission.js): the latch every   *)
(* new piece of work of the service crosses, and the closed marker beside  *)
(* the database that makes a close survive the process.                    *)
(*                                                                         *)
(* The process is single threaded: close, reopen, acquire and release run  *)
(* to completion, and only drain waits.  Its wait is a promise: between    *)
(* the release that resolves it and its continuation any other call may    *)
(* run.  The process may be killed, the machine may lose power, and a new  *)
(* process starts from the marker.  A close that fails or is killed after  *)
(* the rename leaves a marker the directory was never synced for.          *)
(***************************************************************************)
EXTENDS Integers, FiniteSets

CONSTANTS
  Slot,       \* the admission leases that can be held at the same time
  Request,    \* control connections that can wait in drain
  Operation,  \* operation identifiers of rollout operators
  MaxCloses,  \* bound: how many closures the model generates
  PowerLoss,  \* whether the machine may lose power
  NoClosure,
  NoDrain

\* A closure is an operation with the random generation close() draws for it;
\* the model counts generations instead of drawing them.
Closure == [operation : Operation, generation : 1 .. MaxCloses]

ASSUME SlotAssumption  == IsFiniteSet(Slot)
ASSUME BoundAssumption == MaxCloses \in Nat /\ PowerLoss \in BOOLEAN
ASSUME NullAssumption  == NoClosure \notin Closure

VARIABLES
  up,          \* the process runs
  state,       \* "open" or "closed"
  closure,     \* operationId and generation, both null when open
  drained,
  reopenable,  \* reopenAllowed: FALSE for a process that started closed
  active,      \* the count of leases
  held,        \* the leases callers hold: "request" may fork a "generation"
  drains,      \* the drain calls under way
  marker,      \* the closed marker as the file system shows it
  durable,     \* the closed marker a power loss would leave
  closes,      \* how many generations were drawn
  acked,       \* history: the closure last acknowledged and not given up
  answered     \* history: the closures a drain was answered for

memory == <<state, closure, drained, reopenable>>
disk == <<marker, durable>>
latchVars == <<up, memory, active, held, drains, disk, closes, acked, answered>>

Drain == [step : {"waiting", "resumed"}, closure : Closure]

LatchTypeOK ==
  /\ up \in BOOLEAN
  /\ state \in {"open", "closed"}
  /\ closure \in Closure \cup {NoClosure}
  /\ drained \in BOOLEAN
  /\ reopenable \in BOOLEAN
  /\ active \in Nat
  /\ held \in [Slot -> {"none", "request", "generation"}]
  /\ drains \in [Request -> Drain \cup {NoDrain}]
  /\ marker \in Closure \cup {NoClosure}
  /\ durable \in Closure \cup {NoClosure}
  /\ closes \in 0 .. MaxCloses
  /\ acked \in Closure \cup {NoClosure}
  /\ answered \subseteq Closure
-----------------------------------------------------------------------------
LatchInit ==
  /\ up = TRUE
  /\ state = "open" /\ closure = NoClosure /\ drained = FALSE /\ reopenable = TRUE
  /\ active = 0
  /\ held = [s \in Slot |-> "none"]
  /\ drains = [r \in Request |-> NoDrain]
  /\ marker = NoClosure /\ durable = NoClosure
  /\ closes = 0
  /\ acked = NoClosure
  /\ answered = {}

\* #createLease
CreateLease(s, kind) ==
  /\ held[s] = "none"
  /\ held' = [held EXCEPT ![s] = kind]
  /\ active' = active + 1
  /\ UNCHANGED <<up, memory, drains, disk, closes, acked, answered>>

\* acquire: a request that is admitted, or a generation a poll schedules again.
Acquire(s, kind) ==
  /\ up
  /\ state = "open"
  /\ CreateLease(s, kind)

\* fork: the generation of an admitted request inherits its admission, also
\* after the latch has closed.
Fork(parent, s) ==
  /\ up
  /\ held[parent] = "request"
  /\ CreateLease(s, "generation")

\* #resolveDrainWaiters
Woken(ds) ==
  [r \in Request |-> IF ds[r] # NoDrain THEN [ds[r] EXCEPT !.step = "resumed"] ELSE NoDrain]

\* Mutant: a second release of the same lease counts again.
ReleaseMutantNotIdempotent(s) ==
  /\ up
  /\ active > 0
  /\ held' = [held EXCEPT ![s] = "none"]
  /\ active' = active - 1
  /\ drains' = IF active' = 0 THEN Woken(drains) ELSE drains
  /\ UNCHANGED <<up, memory, disk, closes, acked, answered>>

\* Mutant: nothing stops a lease from being released again and again.
ReleaseMutantUnderflows(s) ==
  /\ up
  /\ held' = [held EXCEPT ![s] = "none"]
  /\ active' = active - 1
  /\ drains' = IF active' = 0 THEN Woken(drains) ELSE drains
  /\ UNCHANGED <<up, memory, disk, closes, acked, answered>>

\* Mutant: only the end of a request wakes the drains.
ReleaseMutantForgetsFork(s) ==
  /\ up
  /\ held[s] # "none"
  /\ held' = [held EXCEPT ![s] = "none"]
  /\ active' = active - 1
  /\ drains' = IF active' = 0 /\ held[s] = "request" THEN Woken(drains) ELSE drains
  /\ UNCHANGED <<up, memory, disk, closes, acked, answered>>

\* release: the last one out resolves every waiting drain.
Release(s) ==
  /\ up
  /\ held[s] # "none"
  /\ held' = [held EXCEPT ![s] = "none"]
  /\ active' = active - 1
  /\ drains' = IF active' = 0 THEN Woken(drains) ELSE drains
  /\ UNCHANGED <<up, memory, disk, closes, acked, answered>>

\* What close() writes in memory before it touches the disk.
CloseMemory(c) ==
  /\ up
  /\ state = "open"
  /\ closes < MaxCloses
  /\ c.generation = closes + 1
  /\ closes' = closes + 1
  /\ state' = "closed"
  /\ closure' = c
  /\ drained' = FALSE
  /\ UNCHANGED <<up, reopenable, active, held, drains, answered>>

\* close, with createClosedMarker done and the command acknowledged.
Close(c) ==
  /\ CloseMemory(c)
  /\ marker' = c /\ durable' = c
  /\ acked' = c

\* close, with createClosedMarker failing before or after its rename: the
\* latch stays closed in memory and the command is answered with an error.
CloseFails(c) ==
  /\ CloseMemory(c)
  /\ \/ UNCHANGED disk
     \/ marker' = c /\ UNCHANGED durable
  /\ UNCHANGED acked

\* close of the operation that owns the closed latch: acknowledged when the
\* marker reads back as the closure in memory.
CloseAgain(op) ==
  /\ up
  /\ state = "closed"
  /\ closure.operation = op
  /\ marker = closure
  /\ acked' = closure
  /\ UNCHANGED <<up, memory, active, held, drains, disk, closes, answered>>

\* #requireClosedAuthority, with #assertMarkerMatchesMemory
ClosedAuthority(c) == state = "closed" /\ closure = c /\ marker = c

\* The end of a drain that succeeds.
Answer(c) ==
  /\ drained' = TRUE
  /\ answered' = answered \cup {c}

\* drain, up to its wait or, with nothing active, to its end.
DrainCall(r, c) ==
  /\ up
  /\ drains[r] = NoDrain
  /\ ClosedAuthority(c)
  /\ \/ /\ active # 0
        /\ drains' = [drains EXCEPT ![r] = [step |-> "waiting", closure |-> c]]
        /\ UNCHANGED <<drained, answered>>
     \/ /\ active = 0
        /\ Answer(c)
        /\ UNCHANGED drains
  /\ UNCHANGED <<up, state, closure, reopenable, active, held, disk, closes, acked>>

\* Mutant: the authority is not required again after the wait.
DrainResumeMutantNoRecheck(r) ==
  /\ up
  /\ drains[r] # NoDrain
  /\ drains[r].step = "resumed"
  /\ drains' = [drains EXCEPT ![r] = NoDrain]
  /\ Answer(drains[r].closure)
  /\ UNCHANGED <<up, state, closure, reopenable, active, held, disk, closes, acked>>

\* drain after its wait: the authority is required again, and a drain that lost
\* it is answered with an error.
DrainResume(r) ==
  /\ up
  /\ drains[r] # NoDrain
  /\ drains[r].step = "resumed"
  /\ drains' = [drains EXCEPT ![r] = NoDrain]
  /\ IF ClosedAuthority(drains[r].closure)
       THEN Answer(drains[r].closure)
       ELSE UNCHANGED <<drained, answered>>
  /\ UNCHANGED <<up, state, closure, reopenable, active, held, disk, closes, acked>>

\* Mutant: reopen does not ask for a completed drain.
MayReopenMutantUndrained(c) ==
  up /\ ClosedAuthority(c) /\ reopenable /\ active = 0

\* The checks of reopen.
MayReopen(c) ==
  up /\ ClosedAuthority(c) /\ reopenable /\ active = 0 /\ drained

\* What reopen writes in memory after removeClosedMarker.
OpenMemory ==
  /\ state' = "open"
  /\ closure' = NoClosure
  /\ drained' = FALSE

\* Mutant: memory opens before the marker is removed, and the removal fails.
ReopenMutantOpensFirst(c) ==
  /\ MayReopen(c)
  /\ OpenMemory
  /\ \/ marker' = NoClosure /\ durable' = NoClosure
     \/ UNCHANGED disk
  /\ acked' = NoClosure
  /\ UNCHANGED <<up, reopenable, active, held, drains, closes, answered>>

\* reopen, with the marker removed and the directory synced.
Reopen(c) ==
  /\ MayReopen(c)
  /\ marker' = NoClosure /\ durable' = NoClosure
  /\ OpenMemory
  /\ acked' = NoClosure
  /\ UNCHANGED <<up, reopenable, active, held, drains, closes, answered>>

\* reopen that fails after removeClosedMarker's unlink: memory stays closed.
ReopenFails(c) ==
  /\ MayReopen(c)
  /\ marker' = NoClosure
  /\ acked' = NoClosure
  /\ UNCHANGED <<up, memory, active, held, drains, durable, closes, answered>>

\* The process dies: leases, waiting drains and memory are gone.
Die ==
  /\ up' = FALSE
  /\ state' = "open" /\ closure' = NoClosure /\ drained' = FALSE /\ reopenable' = TRUE
  /\ active' = 0
  /\ held' = [s \in Slot |-> "none"]
  /\ drains' = [r \in Request |-> NoDrain]
  /\ UNCHANGED <<closes, acked, answered>>

Crash ==
  /\ up
  /\ Die
  /\ UNCHANGED disk

\* The machine loses power: a directory entry that was never synced may or may
\* not have reached the disk.
LosePower ==
  /\ PowerLoss
  /\ Die
  /\ marker' \in {marker, durable}
  /\ durable' = marker'

\* createStandaloneService and the latch's constructor: a process that finds
\* the marker starts closed, on read-only stores, and cannot reopen.
Start ==
  /\ ~up
  /\ up' = TRUE
  /\ state' = IF marker = NoClosure THEN "open" ELSE "closed"
  /\ closure' = marker
  /\ drained' = FALSE
  /\ reopenable' = (marker = NoClosure)
  /\ UNCHANGED <<active, held, drains, disk, closes, acked, answered>>

\* The operator's offline marker transition: removed while nothing runs.
OfflineRemove ==
  /\ ~up
  /\ marker # NoClosure
  /\ marker' = NoClosure /\ durable' = NoClosure
  /\ acked' = NoClosure
  /\ UNCHANGED <<up, memory, active, held, drains, closes, answered>>

LatchNext ==
  \/ \E s \in Slot :
       \/ \E kind \in {"request", "generation"} : Acquire(s, kind)
       \/ \E parent \in Slot : Fork(parent, s)
       \/ Release(s)
  \/ \E c \in Closure :
       \/ Close(c)
       \/ CloseFails(c)
       \/ \E r \in Request : DrainCall(r, c)
       \/ Reopen(c)
       \/ ReopenFails(c)
  \/ \E op \in Operation : CloseAgain(op)
  \/ \E r \in Request : DrainResume(r)
  \/ Crash
  \/ LosePower
  \/ Start
  \/ OfflineRemove

LatchSpec == LatchInit /\ [][LatchNext]_latchVars

\* Every handler gives its admission back in a finally block, every background
\* generation is bounded by its execution timeout, and the event loop runs the
\* continuation of a resolved promise.  Operators and crashes owe nothing.
LatchFairness ==
  /\ \A s \in Slot : WF_latchVars(Release(s))
  /\ \A r \in Request : WF_latchVars(DrainResume(r))

LatchFairSpec == LatchSpec /\ LatchFairness
-----------------------------------------------------------------------------
(* Properties.                                                             *)

\* release counts each lease once however often the caller releases it, so the
\* count drain and reopen trust is the number of leases held.
CountIsExact == active = Cardinality({s \in Slot : held[s] # "none"})

\* "drain replies only after every pre-close admission and inherited Direct
\* Chat generation has released", and what it replied stays true: while the
\* latch is closed under a closure whose drain was answered, in this process or
\* an earlier one, nothing admitted is running; nor when drained is reported.
DrainedIsIdle ==
  drained \/ closure \in answered => \A s \in Slot : held[s] = "none"

\* An open process never has a closed marker on the disk: a restart nobody
\* asked for would silently close the service and open its stores read-only.
OpenLeavesNoMarker == up /\ state = "open" => marker = NoClosure

\* A close that was acknowledged holds through failing disks and any number of
\* process restarts until an operator reopens or takes the marker away.
AckedCloseHolds ==
  acked # NoClosure =>
    /\ marker = acked
    /\ up => state = "closed" /\ closure = acked

\* A running process opens only when a drain of this very closure has been
\* answered and nothing is running: a stale drain or timer of an earlier
\* closure never opens a newer one.
ReopensOnlyDrained ==
  [][up /\ up' /\ state = "closed" /\ state' = "open" =>
       closure \in answered /\ active = 0]_latchVars

\* A drain never waits for ever: it is answered, refused, or dies with the
\* process.
DrainEnds == \A r \in Request : drains[r] # NoDrain ~> drains[r] = NoDrain
=============================================================================
