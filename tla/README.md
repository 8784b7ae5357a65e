# LazyingAgentWeb in TLA+

A verification project for LazyingAgentWeb: a small BFF ("cloud server") that
signs a browser in, keeps Direct Chat threads in SQLite, runs Direct Chat turns
against a local model, and relays Agent requests to AgInTi; and the browser
application that drives it. The modules here model the parts where several
processes, pages, crashes and clocks meet. They are
translated from the code in `src/src/`; `PROJECT.json` maps every definition to
its lines.

## The system

| part | code | state it keeps | how it is driven |
|---|---|---|---|
| Direct Chat store | `chat-store.js`, `chat-migrations.js` | threads, messages, generations, deltas, dispatch leases, receipts (SQLite) | one `BEGIN IMMEDIATE` transaction per method, from any number of processes |
| Background generation jobs | `cloud-server.js`, `scheduleGeneration` | the in-memory map `jobs`, an `AbortController` and two timers per job | scheduled by the routes that start, poll and stream a turn |
| Rollout admission latch | `rollout-admission.js`, `service.js` | open/closed, operation and generation, active count, waiting drains; a closed marker file | every request that starts work; an operator over a control socket |
| Context coordinator | `chat-context.js`, `deterministic-context-summarizer.js` | none of its own; writes compaction snapshots | before and inside a turn |
| Cloud index store | `store.js`, `migrations.js` | account, browser sessions, agent scopes and bindings, thread index, run cursors, receipts (SQLite) | login, logout, agent routes |
| HTTP server | `cloud-server.js`, `http-contract.js` | concurrency gates, login admission, ephemeral sessions | requests, disconnects, deadlines |
| AgInTi adapter, connectors | `aginti-adapter.js`, `localllm-connector.js`, `speech-connector.js`, `vision-attachment.js` | none that outlives a call | the server |
| Service | `service.js`, `service-config.js`, `cli.js` | start/stop state | the supervisor |
| Browser | `src/src/web/` | drafts, keys of unanswered requests, streams, the PWA update handoff | the user, lost answers, reloads |

A turn goes through them like this: the browser posts a message with an
idempotency key; the server admits the request through the latch, prepares the
context, writes the message and a generation in one transaction, and schedules a
job that inherits the admission. The job claims the generation's lease,
assembles the context, marks the dispatch, streams the model's output into the
delta journal and finalizes; the browser polls or streams the journal, possibly
from another process, and each poll of an unfinished turn schedules it again.

What is hard: the lease is taken over after it expired while its old holder may
still run; the wall clock may be set back; a process dies between any two
transactions; a cancel reaches the process that does not run the turn; a drain's
promise is resolved before its continuation runs; a marker is renamed but not
synced; a receipt is evicted before its call is retried; a prepared context is
overtaken by another turn; the browser loses an answer, its session or its page
at any step, and still may neither lose nor repeat what the user typed. The list, line by line, is under `hazards` in `PROJECT.json`.

## The modules

**`InferenceTurn`** is the promise, without leases, fences, clocks or processes: a
generation is dispatched at most once, at most one is dispatched at a time,
and a dispatch that was lost can only fail or be cancelled. Both modules below
implement it (`ImplementsTurn`).

**`DispatchLease`** is the generation part of `DirectChatStore`. One action per
method: `StartGeneration` (startTurn and startGeneration), `Claim` and
`ClaimExisting` (claimGenerationLease), `MarkDispatchStarted` and `MarkBusy`
(markGenerationDispatchStarted), `Renew`, `Release`, `AppendDelta`, `Finalize`,
`Cancel`, `Fail`; `Tick` moves the wall clock to any instant. Because every
method is one transaction, a method is one atomic action, including the
reconciliation of expired dispatches it starts with; a method that throws inside
its transaction is a stuttering step. `lease` has the columns of the lease table
(`expires` and `released` can never disagree in another way than the code lets
them), `grants` is a history variable: the proofs that were ever authorised to
dispatch. Callers are arbitrary, which covers every job, stale job and process.
`MarkBusy` and `ClaimExisting` commit the reconciliation they ran; `MarkBusy`
never changes a row, because what it waits for is the only dispatched lease.

**`GenerationJob`** is the job that uses the store: two or more processes, each with
a table of jobs. A job's `step` is the await it stands at, and one action makes at
most one store transaction, so other processes interleave wherever they can.
Within its own process a job that has left its catch block, or whose claim has
thrown, goes on without an await: `Synchronous` keeps the rest of that process
still until it is done. The actions are
`StartTurn`, `Poll` (status and event routes), `ClaimLease`/`ClaimThrows`,
`Resolve` (the inner catch that fails an interrupted turn), `Assemble`,
`Dispatch`/`DispatchThrows` (the retry loop), `Delta`, `Finish`,
`ConnectorFails`, `Aborted`, `Fail` (outer catch), `Release` (finally),
`StoreThrows`, `Timeout`, `RenewThrows`, `Cancel`, `Stop`/`Exit`
(closeGenerationJobs), `Crash`, `Restart`. The lease is abstracted to phase,
holder and "expired": the clock of `DispatchLease` is replaced by `Expire`,
which is free for a lease nobody renews and counted (`MaxLapses`) for a lease
whose job lives, since a job renews every 10 of its 30 seconds.

**`RolloutAdmission`** is the latch with its marker. `acquire`, `fork`, `release`,
`close`, `reopen` run to completion and are one action each; `drain` is
`DrainCall` and `DrainResume` around its await. `marker` is what the file system
shows, `durable` what a power loss would leave; `CloseFails` and `ReopenFails`
are disk operations that fail or die half way; `Crash`, `LosePower`, `Start` (the
closed, read-only startup) and `OfflineRemove` (the operator) surround the
process. `acked` and `answered` are history variables.

**`Conversation`** is the promise of the ledger, without keys, receipts, limits or
maintenance: an identifier names one conversation only, messages are only
appended, a generation belongs to one user message and runs once, an answer
directly follows what it answers, nothing unresolved is forgotten.

**`ChatLedger`** is the rest of `DirectChatStore`, one action per method:
`CreateThread`, `SendUserMessage`, `StartTurn`, `StartGeneration`, `AppendDelta`,
`FinalizeGeneration`, `CancelGeneration`, `FailGeneration`,
`CreateCompactionSnapshot`, `DeleteThread`, `RunMaintenance`. A mutation is
`Mutate`: first the clean-up of expired receipts, then the receipt (`Replay`),
then recognition by what an earlier call made (`Recognise`), then the effect
(`Fresh`) and the receipt's `Record` with its eviction. Receipts expire whenever
they like (`Kept` bounds how many a clean-up takes). Hashes are the revisions they
belong to, which is sound because revisions never fork; `Conversation` and the audits
check that. `ChatLedger` implements `Conversation` (`ImplementsConversation`).

**`ChatStore`** puts the cache of audited threads in front: `Read` and
`ListThreads` compare the data version before and after, `Outside` is another
connection that commits rows, sound or damaged, at any point the file locking
allows, `Write` empties the cache.

**`ChatContext`** is `prepareForTurn` over the ledger, one action between two awaits:
`Load`, `Reuse`, `Compact` (with whatever summary the contract allows), `Raced`
(a snapshot conflict and the second look), `Persist`; requests of any process run
side by side with every other call of the ledger (`RestOfServer`). `Assembles` is what
`assemble` does with the same turn later. `Octets` are the bytes of messages, so that what
is measured is counted and not summed. `overtaken` and `exposed` are history variables for the one
case the code does not cover, below.

**`CloudIndex`** is `CloudIndexStore`, one action per method; a method reads its clock
before it waits for the lock, so it may prune with an older time than it writes.
`Sifted` is what a `DELETE` leaves of the receipts, in their order.
**`CloudServer`** is the handlers over it: `EnterLogin`/`FinishLogin` around the
password check with the counters of login admission, `Logout`, in-memory
sessions and their loss at a restart, and an Agent request as `Admit`, `Prime`,
`Resolve`, `Probe`, `Ask`, `Take`, `ListAsk`, `ListTake`, `Abandon`. AgInTi is
external: `agent` says under which digest it knows a resource, and an answer
says what it saw when it was made, not when it arrives.

**`BrowserSend`** is the page's durable send. `work` is the workflow record, `flow`
the await its handler stands at with the request under way, `conv` and `accepted` what the
server has; a request the page gave up on is one of `stray` and may be served at any time.
`Arrive` passes the server's gates in their order (release, authentication, rollout). **`BrowserStream`** is the conversation view: each asynchronous
handler is a job that knows whether it still `owned` the view (its epoch) and
whether its session is `fresh`, and every check the code makes before it writes
the page is a guard. **`BrowserHandoff`** is the update handoff: the page, the
worker, the encrypted rows of IndexedDB and the claim in the URL; `task` is the
one asynchronous operation under way. **`BrowserDelete`** is the deletion of a
conversation, for Chat (whose ticket carries the revision the user confirmed)
and for Agent (whose ticket does not). After two lost answers it takes a Chat
conversation that is not in the list for deleted. The page asks for 100 threads
(browser-app.js:4516), so this is sound because an account has at most 100
(`threadsPerAccount`, chat-store.js:57, the guard of `ChatLedger`'s `CreateThread`); with a larger
quota a page could forget a conversation that is still there.

The four share no variable except through the user, so `MCBrowser` explores them side
by side. Where the code is known not to keep a promise, the module marks the step
in a history variable (`seen`, `past`, `lapses`; in `ChatContext` `exposed`) and the property
names the exception; nothing else may break it. What those exceptions are is listed below.

The `MC...` modules name the model values, the functions a `.cfg` cannot write, the
symmetry sets and, in `MCCloudServer` and `MCBrowser`, the parts a run explores one beside
the other. Definitions called
`...Mutant...` are deliberate bugs, defined next to what they alter: replacing the
definition by its mutant must make the named property fail (`mutants` in
`PROJECT.json`). Nothing else uses them.

## What TLC checks

| run | instance | question |
|---|---|---|
| `lease` | 2 generations in 2 threads, 2 owners, 3 instants, ttl 2, fence up to 2, 1 delta | Does any order of calls, expiries, takeovers and clock changes dispatch twice or two at once, mix writers, write a row the audit or a trigger rejects, or break `InferenceTurn`? |
| `jobs` | 2 processes, 2 turns, 1 job slot, 1 delta, 1 stop or crash, 1 lapse | Is the model called at most once per turn, do jobs and rows agree, can only one of the jobs that wait for the model still answer, does a stop keep undispatched turns, is `InferenceTurn` implemented? |
| `jobs_live` | the same without lapses | Does every polled turn end and every stop complete, with a connector that may hang? |
| `jobs_overlap` (violation) | 2 processes, no fault at all | "one-active-inference policy durable across overlapping BFF processes" |
| `latch` | 3 leases, 2 drains, 3 closures, power loss, with fairness | Is the count exact, does a drain answer only when idle, does only a drained closure reopen, does an open process leave no marker, does every drain end? |
| `latch_power_loss` (violation) | the same instance | "acknowledge the command only after the durable marker has reached its parent directory" |
| `ledger` | 1 thread, 3 message, 2 generation and 2 snapshot identifiers, 2 keys, 2 messages, 2 receipts, 1 cached thread | Is every call, replay and retry a step of `Conversation` or none, does the audit accept what was written, are retries answered as the first call was, is damage never served? |
| `context` | 1 thread of 4 messages, short and long, 2 requests, budget 3, 2 snapshots | Can a turn that was admitted be assembled when it runs, unless a late summary exposed it, do snapshots never cover less? |
| `index` | three parts: tables (2 accounts, 2 sessions, 1 receipt), sessions, Agent requests (2 requests, 4 digests, 2 threads and a run) | Does a login rotate only the oldest session, do cursors only advance, do requests find what was made under any scope, is the default scope settled once? |
| `browser` | four parts: 2 texts, 2 sends, 2 logins, 3 mishaps, 2 stray requests; 2 threads, 2 turns, 1 delta, 2 snags, 2 waiting handlers; 2 drafts, 2 accounts, 3 releases, 1 hitch; revisions up to 3, 2 tickets, 2 faults | Is a prompt a turn once and never lost, is what the page shows the server's, does a draft survive its update, is a deletion reported as it went? |
| `browser_rejected` (violation) | sends, 4 mishaps | "The message was rejected before it ran." |
| `browser_resent` (violation) | handoff, 2 hitches | "Your unsent prompt was restored" |

**Bounds.** Two generations are what every lease hazard needs (one holds the
dispatch, one wants it; or an old and a current one); two owners make a takeover;
three instants make an expiry, a clock set back before the claim and one after
it; a fence of 2 is exhausted by one takeover or interruption. Two processes and
one fault give each crash and each lost lease against a healthy peer; more faults
repeat the same situations with fewer live jobs. `MaxDeltas` bounds journals.
Three closures make "earlier, current, next" for a stale drain. Two messages are a
question and its answer, or two questions, which is what a limit of two, an
answer that must follow its question and a deletion over an unresolved message
need; threads do not interact but in the eviction of receipts, for which two keys
and two receipts are enough (`MaxThreads`, `MaxGens` and `MaxDeletions` are as many as there
are identifiers, which run out first: a refusal there changes no row). Four messages of one or two bytes against a budget
of three reach every way a context fits, is compacted, is overtaken, or does not fit; a late
summary overtakes requests there, but a turn that no longer fits takes six messages (below).
A session cap of two makes an oldest and a younger session; two Agent requests
race over one resource, the second already stale; an account that is there from the
start has a fixed identity in those parts (`There`), since identities are only compared. Two threads and two turns make
"the conversation left and the one opened", and a generation replaced by the next;
the handoff and deletion parts also hold with one hitch or fault more. The two
violation runs have one mishap more because that is where they occur. `browser`
leaves a behaviour where one of the exceptions that void every later claim
occurs, and does not follow more than two handlers of the view or two abandoned requests
at a time (`Claimed`). The theorems have none of these bounds.

**Fairness.** `GenerationJob`: what the event loop runs on its own (`Advance`),
timers (`Timeout`), the expiry of leases nobody renews, the restart by the
supervisor and the exit of a process whose jobs have ended; and the client that
keeps polling its turn, without which a persisted turn is by design nobody's
work. The connector, operators, users, stops and crashes owe nothing. WF is
enough: a table that is full of refused jobs is emptied by the jobs' own steps.
`RolloutAdmission`: the release of a lease (finally blocks and the jobs' timeouts)
and the continuation of a resolved drain.

Nothing else is said to happen: the ledger and the index are moved only by calls, and
in the browser users, networks and servers owe nothing.

The `GenerationJob` runs say `CHECK_DEADLOCK FALSE`: when all turns have ended, all
stops are used up and nobody polls, the system rests. Waiting for each other is
excluded by `EveryTurnEnds` instead. The runs of the ledger, the context, the index and
the browser say it as well: identifiers, revisions and mishaps are used up.

## What the violations show

- `jobs_overlap`: process A runs turn 1; its cancel is handled by process B,
  which releases the lease but aborts only its own jobs; B dispatches turn 2
  while A is still waiting for the model. A notices at its next delta or renewal (at most
  10 seconds later). The rows never show two dispatches (`OneActiveDispatch`),
  and of two jobs that wait only one can still answer (`OneRightfulInference`), so no
  data is damaged; what the schema's comment promises, one inference of the workstation,
  does not hold across processes.
- `latch_power_loss`: close renames its marker, the directory sync fails, the
  command is answered with an error and memory stays closed. The retry finds
  memory closed, reads the marker back and acknowledges without a sync. A power
  loss may then bring the service back open.
- `browser_rejected`: the answer to a start is lost; a retry or probe settles it and the
  page forgets the ambiguity (browser-app.js:5175) just before it finds its session
  revoked. Resume sends again, is refused with 401, and the page gives the prompt back as
  rejected before it ran. The turn is in the ledger.
- `browser_resent`: the user presses Update, which prepares a protected draft, and sends
  the prompt before the new worker takes over. The composer is emptied by assignment
  (browser-app.js:5666), which does not invalidate the draft, so the reloaded page restores it as
  unsent.

## What the properties except

Each exception is a step the code takes; its name is the mark in the model.

| mark | what the code does |
|---|---|
| `exposed` (`PreparedTurnAssembles`) | A request was prepared with a snapshot, and then another one, which never saw that snapshot, writes the newest: the turn is not measured again (cloud-server.js:1947). |
| `barred` (`WorkIsKept`) | A prompt submitted while the conversation's generation runs: the composer is emptied (browser-app.js:5666), then sendChat throws (5412) before any workflow exists. |
| `revoked` (`WorkIsKept`, `SentOnce`) | A session found revoked while a send is in flight drops the workflow; docs/architecture.md:438 says unsent work is kept. |
| `probed` (`SentOnce`) | A send with images is probed with 404 while its first request is still under way, and is given back as not sent (5212). |
| `blind` (`OutputIsJournal`) | A reconnect carries the cursor of another generation (4167). Or a reconnect that knew no generation attaches to the conversation's run, is cut off, and later resumes when another run has taken its place: the page is told of the new run before `streamChatGeneration` asks whether it continues (4194, 4035), so the first run's cursor and text are taken for the new one's. |
| `raced` (`OneConversation`) | A conversation opened just as its generation completes shows "completed" without the answer (4150). |
| `swapped` (`OneConversation`) | Stop's answer is written without asking whether the view is still its own (6533), or whether the page is still signed in. |
| `barged`, `late` | A list that opens a conversation asks only for the epoch (5012); a failed reconnect reinstalls its generation under a later session (6313). |
| `migrated` (`DraftArrives`) | Moving a protected draft to the next release does not look again after its awaits (7404); a draft given up and replaced meanwhile is lost. |
| `overtaken` | The row was saved for a release that is no longer the server's when the page loads: it is taken and discarded. |
| `expired` | The row's five minutes are over. |

`DeletionHonest` holds for Chat without
exception; for Agent only what the page says of the conversation (`Truthful`, without
its list) is claimed, since an Agent ticket names no revision, a deletion reported as
stopped may still be carried out, and a list that was read before shows it again.

## What is proved

`DispatchLeaseProofs`, `GenerationJobProofs`, `ChatLedgerProofs`,
`LedgerUsersProofs`, `CloudServerProofs` (the control plane and the latch), `BrowserSendProofs`,
`BrowserStreamProofs` and `BrowserPageProofs` prove, for every value of the constants that satisfies the named assumptions:

- *Dispatch lease* (assumptions: `ThreadAssumption`, `TimeAssumption`,
  `TtlAssumption`, `BoundAssumption`, `NullAssumption`; any number of threads,
  generations, owners and instants). `TypeCorrect`, then `AuditAlwaysClean`,
  which is inductive given the types. `AtMostOneDispatch`, `OneActiveDispatch` and
  `SingleWriter` are not: nothing in them says why a second grant is impossible. `IInv`
  adds `GrantBook`: a row that never started a dispatch has no grant, and a row
  that is dispatched was granted exactly once, to the owner and fence it shows.
  A claim never takes over a row that started, so no second grant can come.
  `TriggersNeverAbortAlways` and
  `InterruptedIsFinalAlways` are action properties from the same invariants, and
  `LeaseImplementsTurn` maps every action to one of `InferenceTurn` or a stutter
  (the reconciliation inside a claim is `Lose`, inside a mark it is part of `Dispatch`).
- *Jobs* (assumptions: `ThreadAssumption`, `BoundAssumption`, `NullAssumption`; any
  number of processes, turns, deltas, job slots, stops and lapses). `IInv` is
  `Typed`, `JobsFine` and `Book`. `JobsFine` bounds each table and says which step the job behind a
  held lease may be at (`Matching`, which also says that an unclaimed row has no
  holder, so a turn that starts cannot meet an old lease). `Book` says, per row, what
  its phase tells about the calls made: none while it was only claimed or released,
  exactly one once it was dispatched or interrupted; that is what `CalledOnce`
  lacks to be inductive. Every action is shown to keep `JobsFine` and to be one of
  a few moves of the rows (`Move`); `BookStep` and `MoveTurn` then need only the
  moves, for `Book` and for the refinement of `InferenceTurn` (a move of several
  rows loses at most one dispatch, because `Book` allows only one).
  `StopIsNoAnswerAlways` needs who else may touch the row of a stopped job (`StoppedTurn`)
  and what the job's last step leaves of it (`StoppedGoes`); it names the escapes, a job
  that is still assembling, whose deadline came first or that has thrown another error,
  because the catch (cloud-server.js:1825) looks only at the error it caught.
  `OneRightfulInferenceAlways` from `OneDispatched` in `Book`: two
  rightful jobs would mean two dispatched rows.
- *Latch* (assumptions: `SlotAssumption`, `BoundAssumption`, `NullAssumption`).
  `LatchInductive` adds what the properties do not say: an answered closure
  that is still current has nothing active, a drain that was woken finds the
  latch idle or its closure gone, and no closure or marker carries a generation
  that was not drawn yet, so a new closure is never one that was answered before.
  `AckedCloseAlwaysHolds` assumes `~PowerLoss`, as it must.

- *Deletion* (assumptions: `BoundAssumption`, `NullAssumption`; any number of
  revisions, tickets and faults). `DeletionHonest` is not inductive: that a ticket
  given up deletes nothing later depends on requests still in flight. `IInv` adds that a
  ticket and all its requests carry one revision, which the user agreed to and at which
  the page saw no turn run (`Tickets`); that revisions only grow, so a conflict means
  the ticket's revision is over for good (`Over`); and that a list read under way cannot
  show a deleted row again (`Gone`). `DeletionAlwaysHonest` follows.
- *Update handoff* (assumption `HandoffAssumption`: `Nothing` is told from what stands beside it; any
  drafts, accounts and row identifiers, any number of releases and hitches). `DraftArrives` says where
  an owed draft may be, which is not inductive: `Reachable` looks in four places, and a step
  that empties one must know that the draft is not there, or is in the next. `HandoffInv` says
  in which place it is (`Owed`: the row of an unread claim, the kept record, the row the sign in
  holds in its hands, or the composer), that a page with a claim shows nothing else (`AgreeFine`), that a
  kept record is its account's and durable exactly when the URL reaches its row (`KeptFine`), that the rows under
  way and prepared are neither the claim's nor each other's (`StageFine`), that a row being
  carried over a release cannot be edited (`ChainFine`), and that a claim whose draft has found its place
  has no row left (`ClaimFine`). Most steps keep the claim and the record (`QuietStep`), end them
  (`FinishStep`) or load a page (`LoadStep`); the others are done by hand. The losses in `lapses`
  stay excepted, as in the property.

- *Ledger* (assumptions: `BoundAssumption`, `TextAssumption`, `NullAssumption`; any number of
  threads, identifiers, keys and codes, any limits). The audit is not inductive as it stands:
  an answer is written with the identifier its generation reserved when it started, and nothing in
  the audit says that no message took it meanwhile. `IInv` adds that (`RowFine`), that the
  snapshots of a thread have different identifiers (a clean-up removes one by its row), and
  that a thread has no rows before it is opened or after it is deleted, when it has its
  deletion receipt. The proof goes by moves: each action is shown once to be a `Move` of one
  thread, which says what it does to that thread's rows and nothing of the caller, to leave the
  other threads alone (`Elsewhere`), and to file only what it should among the
  receipts (`Filed`). `MoveFine` (types and audit), `NextServed` and the refinement then need only the
  moves. `ReceiptsAlwaysReplay` is inductive once `Filed` is known, because no move
  of a living thread takes back what an earlier call wrote (`RowsKept`, `SumsKept`);
  a clean-up of snapshots leaves one that reaches at least as far, which needs a
  least-number argument (the last in the order `Newer` is removed by nobody).
  `LedgerImplementsConversation` maps the rows to `Conversation` (`Talk`, `Turn`) and each move to
  one of its steps or a stutter.
- *Cache* (`LedgerUsersProofs`, as the next; in addition `CacheAssumption`). `StoreImplementsLedger`: every step of a connection,
  reads and outside commits included, is a step of the ledger or a stutter, so the five
  results above hold of it. `SInv` adds that the cache lists no thread twice and that only
  finitely many threads are alive (reading all of them orders them, and the operator
  for that has no meaning on an infinite set). `DamageIsNeverServed` and `CacheAlwaysFits` follow.
  A `DELETE` or an eviction is written with `Thinned`, the list of the entries at the places kept,
  because the prover can reason about it (`ThinnedList`, `NewestList`), which it cannot
  about a recursive selection.

- *Context* (in addition to the ledger's `DigestAssumption`, `WeightAssumption`, `BudgetAssumption`,
  `ClientAssumption`; any number of requests, any weights, budget, window and limits).
  `ContextImplementsLedger`: whatever requests do to the store is a call of the store, so the ledger's
  results hold under them. `TurnsAssemble` is not inductive: it says nothing of the turn a
  prepared request is still to write, nor of the summary another is waiting for. `KInv` adds both.
  A prepared request whose cursor is still the thread's could be written now and would fit
  (`Ready`). A request that waits for a summary saw a shorter snapshot than it will write, or
  none, and if what it saw is still the newest, it did not help (`Longing`). Every snapshot ends
  before the recent window of whatever is asked next (`Behaved`), since that window never moves back
  (`WindowMoves`). The argument is then what happens when a snapshot is replaced: if its writer had seen the
  old one, the old one was too long for the writer's own turn with the same history behind it, or a
  turn that could use it can use the new one (`ShorterTurn`, `OthersMeet`); if not, the requests
  that were measured with it are `overtaken`, which is the exception. `CoverageHolds` needs of it
  only that the newest snapshot of a list is the one that ends last (`TopIs`, `TopGrows`) and that a
  clean-up keeps it (`TopStays`).

- *Control plane* (assumptions `IndexAssumption`, `ServerAssumption`; any number of accounts,
  requests, processes, resources and runs, any limits; finitely many digests, since a
  table holds finitely many rows and a cardinality means nothing otherwise). The
  theorems are about `Spec`, where logins, Agent requests and the other calls interleave
  freely, and not only about the three groups the `index` run explores side by side.
  `AgentsReachable` is not inductive: it says nothing of requests under way, and one of
  them could bind a resource to the wrong scope or retire a scope in use. `ScopeInv` adds
  what a request knows (`RowFine`): what it found was made under the scope that
  answered, the scope it will call is the one its resource resolves to, and an old scope
  that showed nothing has nothing live and cannot get anything (new work goes
  to a default, or to the scope of the thread it belongs to). Each action is shown once to be a
  move of the scopes, bindings and what AgInTi holds (`Turns`), and each move to take
  nothing from a request under way (`Gentle`); `DefaultAlwaysStable` is part of that.
  `RotationAlwaysTakesOldest` needs that no account is above its cap before a login
  (`SessionsFine`), or more than one session would go; it counts with the
  theorems of finite sets. `DeliveryAlwaysAdvances` needs that a cursor's thread
  exists and is its owner's (`ThreadOfCursor`), or a removed thread could leave a last run
  without a cursor. `TypeCorrect` adds receipts, windows of attempts and
  finds (`ServerInv`); `SiftedIs` and `PlaceExists` say what a `DELETE` leaves of a list of receipts.

- *Send* (assumption `SendAssumption`: a bound on the submissions, and that `None` is told from what
  stands beside it; any texts, any number of sends, sessions and mishaps). Neither
  `SentOnce` nor the part about given-back sends is inductive: both depend on requests nobody
  waits for, which a server may take at any time. `SendInv` says which of them still can be
  taken: one whose base is its conversation's revision (`TicketFine`; revisions only grow and a
  thread not yet made has nobody left who could make it, so one that is over stays over), all
  requests of the page's send carry the ticket it holds, and there is none unless the page
  remembers the doubt (`KnownInv`). `May` is a turn, a request that can become one, or
  the page's send; `ClaimInv` has one send at the most for each text, and
  `DeniedInv` none that was given back. `PageInv` relates handler, workflow and draft: what a step
  waits for (`Stage`), how far the workflow came (`Core`), who holds the text (`Draft`).
  Each answer is shown once to keep the workflow, land it or give it up (`Reacts`),
  each request to have one of a few effects on the server (`Serves`); the pairs keep the invariant
  (`RequestKeeps`), as do the steps that ask nothing (`QuietKeeps`). The named
  escapes (`probed`, `revoked`, `barred`) are part of the properties and of the invariant.

- *View* (assumption `StreamAssumption`: the bounds are numbers, `Nobody` is told from what stands in its
  place; any conversations, any number of turns, deltas and snags). `TextIsJournal` is not inductive: a
  stream's text is taken over by whatever attaches next, and an opening, a recovery or a signed-out
  page may hold a copy of it meanwhile. `StreamInv` says of the server that generations keep their thread and what they
  came to and that an answer of a completed one is in its ledger (`Serving`), of every handler what it has read so
  far (`JobsFine`), and of the page that what it names exists (`PageFine`). While no list barged into a send and
  no failure came late, one handler at the most has the view, but for a send beside a stream
  that reads again, and what it remembers is what the page holds (`Alone`); and a generation the page or a copy
  calls completed is (`Tells`). `Texts` then says that the text is always the journal of some run up to the
  cursor, and that run's own when the generation is still going for the page or on the server: a text of an
  earlier run can be left only where the next attachment drops it. `Texts` needs `blind` absent; the rest does not.
  Each action is shown to keep the handlers, then `Alone` and `Tells`, then `Texts`
  (`AloneSwap` and `FurtherFine`, where one handler takes the place of another or only the page goes on, do it for most).

  `ConversationIsOne` rests on `StreamInv` and on `ViewInv`, which holds while no Stop was answered after the user
  moved on (`swapped`) besides. `Shows` strengthens the property where it is not inductive: a signed-out page, or one
  without a thread, is blank; a descriptor the page holds is of its thread; so is a generation it offers to resume.
  `Fits` says where the handlers with the view wait: sends, streams, stops and reconnects for the thread on the page
  (`Placed`); a reconnect that may yet put its descriptor back has left no "completed" there without the answer
  (`Reread`). `Apart` keeps an opening from running beside a Stop that still has the view: Stop starts beside a
  stream, which has the view alone, and what opens a conversation disowns every handler. A step either keeps thread
  and messages (`ViewLess`, `ViewSwap`), or its handler had the view but for stops (`ViewLeft`, `ViewEnds`), or everyone else
  lost it (`ViewAnew`, `ViewNone`); a snapshot shown is the ledger as it is (`SnapshotShows`). `blind` does
  not matter here: a wrong text is still a text of the right conversation.

Only model-checked: liveness (`EveryTurnEnds`, `StopEnds`, `DrainEnds`), which is out of the prover's reach.

## What is not modelled, and the plan

Left out of the modules above: byte limits, corrupted databases other than the damage
`ChatStore` models, clock jumps in `GenerationJob`, and the admission of a job (in
`RolloutAdmission`). A job
that finds its vision attachments inconsistent with the generation's model is
left out as well: the store writes the alias from the attachments and its audit
refuses any other, so the case needs a changed configuration. `RolloutAdmission` is one
process at a time; a process that starts while another closes reads the marker a
second time in the latch's constructor and so starts closed.

Some facts the models brought up that no property states:

- `runMaintenance` and `cleanupExpiredIdempotency` are called by nothing in the service.
  A thread that has reached its 32 snapshots can only be refused from then on.
- A prepared turn can be refused when it runs, although docs/architecture.md:285 has the coordinator
  prepare capacity "before the atomic turn starts". A summarizer is slow (one may be configured, service.js:267;
  or a second process is). Request A loads the thread and waits for its summary; a turn
  is added; B finds no snapshot and waits for a longer summary; A's snapshot is written; C is
  measured with it and prepared; B's longer snapshot, with a larger text, becomes the newest; C's turn is
  persisted without another look, does not fit with B's snapshot, and `assemble` throws (chat-context.js:1014).
  The generation fails, no data is damaged. It takes six messages (four short, two long), texts of 1
  and 3 bytes, a budget of 4, one recent turn, three entries, two requests at a time and
  three generations, 19 steps; `PreparedTurnAssembles` excludes it by name.
- A preparation overtaken by another request's snapshot that ends beyond the revision it
  expects fails as storage corruption (503) on a healthy database; no turn is written.
- `CloudIndexStore.registerThread`, `updateThreadPresentation`,
  `syncThreadAuthorityMetadataFromAginti`, `removeThreadIndex` and `recordRunCursor` are
  called by no handler of the server; they are modelled as calls anybody may make.
- A page with an ambiguous send will not reload for a newer release, whose server
  refuses its retries: it stays until the user reloads by hand.
- Resuming a recovered reconnect hides Resume before the read it needs may fail
  (browser-app.js:2768); the page then stays locked until it is reloaded.
- Finalization asks for a ledger that ends with its answer (3985): a turn of another page
  right after it keeps it from ever completing.

Not modelled: concurrency gates and event-stream relays of the server, the Agent view of the
browser apart from deletion, the control socket (its commands are the actions of
`RolloutAdmission`), vision and speech routes; rendering and the user interface, parsing of
configuration and of provider streams, password hashing, file-system permission checks,
publishing scripts, which are pure or I/O and keep no state two actors share.

Next: the Agent view and the stream relays.
