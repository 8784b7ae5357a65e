----------------------------- MODULE ChatLedger -----------------------------
(***************************************************************************)
(* The ledger of DirectChatStore (src/src/chat-store.js): threads, their   *)
(* append-only messages, the generations that answer them, compaction      *)
(* snapshots, deletion, maintenance, and the idempotency receipts that     *)
(* make every mutation safe to retry.  Every method is one BEGIN IMMEDIATE *)
(* transaction and so one action; a call that throws is rolled back, the   *)
(* clean-up of expired receipts included, and is a stuttering step.        *)
(*                                                                         *)
(* One account.  A title and a text are a function of the identifier they  *)
(* come with, and a hash is the revision it belongs to: messages are only  *)
(* appended and a thread identifier is never reborn, which Conversation    *)
(* states and the runs check, so no revision of a thread ever has two      *)
(* hashes.  The lease proof finalizeGeneration and failGeneration ask for  *)
(* is in DispatchLease; here those two calls are accepted from anybody.    *)
(***************************************************************************)
EXTENDS Integers, Sequences, FiniteSets, SequencesExt, FiniteSetsExt

CONSTANTS
  Threads,      \* thread identifiers
  Ids,          \* message identifiers, of users and of assistants
  Gens,         \* generation identifiers
  Snaps,        \* snapshot identifiers
  Keys,         \* idempotency keys
  Codes,        \* failure codes
  Texts,        \* summaries of a snapshot, by their length
  MaxThreads,   \* DIRECT_CHAT_LIMITS.threadsPerAccount (100 in the code)
  MaxMessages,  \* DIRECT_CHAT_LIMITS.messagesPerThread (2000)
  MaxGens,      \* DIRECT_CHAT_LIMITS.generationsPerThread (1024)
  MaxSnaps,     \* DIRECT_CHAT_LIMITS.compactionsPerThread (32)
  MaxReceipts,  \* DIRECT_CHAT_LIMITS.idempotencyReceiptsPerAccount (1024)
  MaxDeletions, \* DIRECT_CHAT_LIMITS.threadDeletionReceiptsPerAccount (100000)
  CleanupRows,  \* DIRECT_CHAT_LIMITS.cleanupRows (256)
  None          \* NULL

ASSUME BoundAssumption ==
  {MaxThreads, MaxMessages, MaxGens, MaxSnaps, MaxReceipts, MaxDeletions, CleanupRows}
     \subseteq Nat \ {0}
ASSUME TextAssumption  == Texts \subseteq Nat
ASSUME NullAssumption  == None \notin Ids \cup Gens \cup Snaps \cup Keys \cup Codes \cup [key : Keys, rev : Nat]

VARIABLES
  thread,     \* "unborn", "live", or "deleted" once it has a deletion receipt
  ledger,     \* direct_chat_messages of every thread, by revision
  gens,       \* direct_chat_generations of every thread
  current,    \* current_generation_id of every thread
  snaps,      \* direct_chat_compactions of every thread, oldest first
  deletions,  \* direct_chat_thread_deletions: the key and the cursor of the call
  receipts    \* direct_chat_idempotency, oldest first

rows == <<thread, ledger, gens, current, snaps, deletions>>
vars == <<thread, ledger, gens, current, snaps, deletions, receipts>>

Ended == {"completed", "cancelled", "failed"}

Message == [id : Ids, role : {"user", "assistant"}, gen : Gens \cup {None}, pic : BOOLEAN]

Generation ==
  [status : {"absent", "in_progress"} \cup Ended, source : Nat, reply : Ids \cup {None},
   vision : BOOLEAN, deltas : BOOLEAN, pruned : BOOLEAN, code : Codes \cup {None}]

NoRow == [status |-> "absent", source |-> 0, reply |-> None,
          vision |-> FALSE, deltas |-> FALSE, pruned |-> FALSE, code |-> None]

\* A mutation as its caller writes it; what a method does not take is None.
Request ==
  [kind : {"create", "send", "turn", "begin", "finalize", "cancel", "fail", "compact"},
   key : Keys, thread : Threads, rev : Nat, id : Ids \cup Snaps \cup {None},
   gen : Gens \cup {None}, reply : Ids \cup {None}, pic : BOOLEAN,
   code : Codes \cup {None}, text : Nat]

Blank(kind, k, t) ==
  [kind |-> kind, key |-> k, thread |-> t, rev |-> 0, id |-> None,
   gen |-> None, reply |-> None, pic |-> FALSE, code |-> None, text |-> 0]

\* The operation a receipt is stored under: startTurn and startGeneration share one.
Op(q) == IF q.kind = "turn" THEN "begin" ELSE q.kind

-----------------------------------------------------------------------------
(* Reading the rows of a thread.                                           *)

Revision(t) == Len(ledger[t])
Rows(t) == {g \in Gens : gens[t][g].status # "absent"}
Used(t, m) == \E i \in DOMAIN ledger[t] : ledger[t][i].id = m
Reserved(t, m) == \E g \in Rows(t) : gens[t][g].reply = m
Seen(t, r) == \E i \in DOMAIN ledger[t] : i <= r /\ ledger[t][i].pic
FromUser(t, r) == r \in DOMAIN ledger[t] /\ ledger[t][r].role = "user"

\* Mutant: the snapshot that was written last is the newest.
NewerMutantByAge(t, i, j) == i > j

\* The newest snapshot ends last; of two with the same end the younger is newer.
Newer(t, i, j) ==
  LET a == snaps[t][i]
      b == snaps[t][j]
  IN a.last > b.last \/ (a.last = b.last /\ i > j)

Unresolved(t) ==
  /\ FromUser(t, Revision(t))
  /\ ~\E g \in Rows(t) : gens[t][g].source = Revision(t)

Said(t, q) ==
  /\ FromUser(t, q.rev + 1)
  /\ ledger[t][q.rev + 1].id = q.id

Snapshot(q) == [id |-> q.id, last |-> q.rev, text |-> q.text]

\* The call's rows are already there, bound to exactly what it asks for.
Effect(q) ==
  LET t == q.thread
      row == gens[t][q.gen]
  IN /\ thread[t] = "live"
     /\ CASE q.kind = "create"   -> TRUE
          [] q.kind = "send"     -> Said(t, q)
          [] q.kind = "turn"     -> /\ Said(t, q) /\ ledger[t][q.rev + 1].pic = q.pic
                                    /\ row.status # "absent" /\ row.reply = q.reply
                                    /\ row.source = q.rev + 1 /\ row.vision = Seen(t, q.rev + 1)
          [] q.kind = "begin"    -> /\ row.status # "absent" /\ row.reply = q.reply
                                    /\ row.source = q.rev /\ row.vision = Seen(t, q.rev)
          [] q.kind = "finalize" -> row.status = "completed"
          [] q.kind = "cancel"   -> row.status = "cancelled"
          [] q.kind = "fail"     -> row.status = "failed" /\ row.code = q.code
          [] q.kind = "compact"  -> \E i \in DOMAIN snaps[t] :
                                      snaps[t][i] = Snapshot(q)

-----------------------------------------------------------------------------
(* Lists of rows, oldest first, and what a DELETE or a limit leaves of them.*)

\* The entries of a list at the places of keep, in their order: the one list of them.
Thinned(list, keep) ==
  LET span == 1 .. Cardinality(keep)
      InOrder(at) == \A m, n \in span : m < n => at[m] < at[n]
  IN {[n \in span |-> list[at[n]]] : at \in {h \in Bijection(span, keep) : InOrder(h)}}

\* The newest entries of a list, as many as the limit allows; what is older is evicted.
Newest(list, limit) ==
  IF Len(list) > limit THEN SubSeq(list, Len(list) - limit + 1, Len(list)) ELSE list

-----------------------------------------------------------------------------
(* The frame every retried mutation runs in.                               *)

\* deleteExpiredReceipts: seven days pass for the oldest first, and one call
\* deletes at most CleanupRows of them; gone is how many.
Kept(gone) == SubSeq(receipts, gone + 1, Len(receipts))
Expired(limit) == {n \in 0 .. Len(receipts) : n <= limit}

Holds(list, q) == \E i \in DOMAIN list : Op(list[i]) = Op(q) /\ list[i].key = q.key

\* The receipt of a call that had none is stored behind those that are kept.
Record(q) ==
  \E gone \in Expired(CleanupRows) :
    /\ ~Holds(Kept(gone), q)
    /\ receipts' = Newest(Append(Kept(gone), q), MaxReceipts)

\* The same call again: the stored result, from the rows as they are now.
Replay(q) ==
  /\ Effect(q)
  /\ \E gone \in Expired(CleanupRows) :
       /\ Contains(Kept(gone), q)
       /\ receipts' = Kept(gone)
  /\ UNCHANGED rows

\* The same call without its receipt: its rows are recognised, nothing is written twice.
Recognise(q) == Effect(q) /\ Record(q) /\ UNCHANGED rows

\* A call nobody has made: the write of the method, with its receipt.
Fresh(q) == ~Effect(q) /\ Record(q)

-----------------------------------------------------------------------------
(* The mutations.                                                          *)

CreateThread(k, t) ==
  LET q == Blank("create", k, t)
  IN /\ thread[t] = "unborn"
     /\ Cardinality({u \in Threads : thread[u] = "live"}) < MaxThreads
     /\ Fresh(q)
     /\ thread' = [thread EXCEPT ![t] = "live"]
     /\ UNCHANGED <<ledger, gens, current, snaps, deletions>>

\* Mutant: the limit is compared after the message is counted.
AppendableMutantOffByOne(t, m, r) ==
  /\ thread[t] = "live" /\ current[t] = None
  /\ r = Revision(t) /\ r <= MaxMessages
  /\ ~Used(t, m) /\ ~Reserved(t, m)

\* What both sends ask of the thread: idle, at the caller's cursor, with room.
Appendable(t, m, r) ==
  /\ thread[t] = "live" /\ current[t] = None
  /\ r = Revision(t) /\ r < MaxMessages
  /\ ~Used(t, m) /\ ~Reserved(t, m)

UserMessage(m, pic) == [id |-> m, role |-> "user", gen |-> None, pic |-> pic]

SendUserMessage(k, t, m, r) ==
  LET q == [Blank("send", k, t) EXCEPT !.id = m, !.rev = r]
  IN /\ Appendable(t, m, r)
     /\ Fresh(q)
     /\ ledger' = [ledger EXCEPT ![t] = Append(@, UserMessage(m, FALSE))]
     /\ UNCHANGED <<thread, gens, current, snaps, deletions>>

\* A generation takes an identifier for its answer that nothing else has, in a
\* thread with room for one more.
Startable(t, g, a) ==
  /\ current[t] = None /\ Cardinality(Rows(t)) < MaxGens
  /\ gens[t][g].status = "absent"
  /\ ~Used(t, a) /\ ~Reserved(t, a)

Started(r, a, pic) ==
  [NoRow EXCEPT !.status = "in_progress", !.source = r, !.reply = a, !.vision = pic]

\* A thread with pictures has its turns answered by the vision model.  A process that
\* has pictures switched off refuses them; here any process may be asked.
StartTurn(k, t, m, g, a, r, pic) ==
  LET q == [Blank("turn", k, t) EXCEPT !.id = m, !.rev = r, !.gen = g, !.reply = a, !.pic = pic]
      seen == pic \/ Seen(t, r)
  IN /\ m # a
     /\ Appendable(t, m, r) /\ Startable(t, g, a)
     /\ Fresh(q)
     /\ ledger' = [ledger EXCEPT ![t] = Append(@, UserMessage(m, pic))]
     /\ gens' = [gens EXCEPT ![t][g] = Started(r + 1, a, seen)]
     /\ current' = [current EXCEPT ![t] = g]
     /\ UNCHANGED <<thread, snaps, deletions>>

StartGeneration(k, t, g, a, r) ==
  LET q == [Blank("begin", k, t) EXCEPT !.rev = r, !.gen = g, !.reply = a]
  IN /\ thread[t] = "live" /\ Startable(t, g, a)
     /\ r = Revision(t) /\ FromUser(t, r)
     /\ Fresh(q)
     /\ gens' = [gens EXCEPT ![t][g] = Started(r, a, Seen(t, r))]
     /\ current' = [current EXCEPT ![t] = g]
     /\ UNCHANGED <<thread, ledger, snaps, deletions>>

\* appendGenerationDelta, as far as the ledger sees it: the answer is not empty.
AppendDelta(t, g) ==
  /\ current[t] = g /\ ~gens[t][g].deltas
  /\ gens' = [gens EXCEPT ![t][g].deltas = TRUE]
  /\ UNCHANGED <<thread, ledger, current, snaps, deletions, receipts>>

\* The answer goes right behind its question, or nowhere.
FinalizeGeneration(k, t, g) ==
  LET q == [Blank("finalize", k, t) EXCEPT !.gen = g]
      row == gens[t][g]
  IN /\ row.status = "in_progress" /\ current[t] = g /\ row.deltas
     /\ row.source = Revision(t) /\ Revision(t) < MaxMessages
     /\ Fresh(q)
     /\ ledger' = [ledger EXCEPT ![t] =
                     Append(@, [id |-> row.reply, role |-> "assistant", gen |-> g, pic |-> FALSE])]
     /\ gens' = [gens EXCEPT ![t][g].status = "completed"]
     /\ current' = [current EXCEPT ![t] = None]
     /\ UNCHANGED <<thread, snaps, deletions>>

\* Mutant: the generation ends and its thread still points at it.
TerminateMutantKeepsCurrent(q, end) ==
  LET t == q.thread
      g == q.gen
  IN /\ gens[t][g].status = "in_progress" /\ current[t] = g
     /\ Fresh(q)
     /\ gens' = [gens EXCEPT ![t][g].status = end, ![t][g].code = q.code]
     /\ UNCHANGED <<thread, ledger, current, snaps, deletions>>

Terminate(q, end) ==
  LET t == q.thread
      g == q.gen
  IN /\ gens[t][g].status = "in_progress" /\ current[t] = g
     /\ Fresh(q)
     /\ gens' = [gens EXCEPT ![t][g].status = end, ![t][g].code = q.code]
     /\ current' = [current EXCEPT ![t] = None]
     /\ UNCHANGED <<thread, ledger, snaps, deletions>>

CancelGeneration(k, t, g) ==
  Terminate([Blank("cancel", k, t) EXCEPT !.gen = g], "cancelled")

FailGeneration(k, t, g, c) ==
  Terminate([Blank("fail", k, t) EXCEPT !.gen = g, !.code = c], "failed")

\* A summary of the messages up to revision r, never while one is being written.
CreateCompactionSnapshot(k, t, s, r, text) ==
  LET q == [Blank("compact", k, t) EXCEPT !.id = s, !.rev = r, !.text = text]
  IN /\ thread[t] = "live" /\ current[t] = None
     /\ r \in 1 .. Revision(t)
     /\ ~\E i \in DOMAIN snaps[t] : snaps[t][i].id = s
     /\ Len(snaps[t]) < MaxSnaps
     /\ Fresh(q)
     /\ snaps' = [snaps EXCEPT ![t] = Append(@, Snapshot(q))]
     /\ UNCHANGED <<thread, ledger, gens, current, deletions>>

\* The deletions of an account, kept for ever; a full table refuses the next one.
Deleted == {u \in Threads : deletions[u] # None}

\* Mutant: a message nobody has answered yet does not keep the thread.
DeleteThreadMutantUnresolved(k, t, r) ==
  /\ \A u \in Deleted : deletions[u].key # k
  /\ Cardinality(Deleted) < MaxDeletions
  /\ thread[t] = "live" /\ r = Revision(t) /\ current[t] = None
  /\ thread' = [thread EXCEPT ![t] = "deleted"]
  /\ deletions' = [deletions EXCEPT ![t] = [key |-> k, rev |-> r]]
  /\ ledger' = [ledger EXCEPT ![t] = <<>>]
  /\ gens' = [gens EXCEPT ![t] = [g \in Gens |-> NoRow]]
  /\ snaps' = [snaps EXCEPT ![t] = <<>>]
  /\ receipts' = <<>>
  /\ UNCHANGED current

\* The deletion keeps its own receipt for ever and takes all other rows with it.
DeleteThread(k, t, r) ==
  /\ \A u \in Deleted : deletions[u].key # k
  /\ Cardinality(Deleted) < MaxDeletions
  /\ thread[t] = "live" /\ r = Revision(t)
  /\ current[t] = None /\ ~Unresolved(t)
  /\ thread' = [thread EXCEPT ![t] = "deleted"]
  /\ deletions' = [deletions EXCEPT ![t] = [key |-> k, rev |-> r]]
  /\ ledger' = [ledger EXCEPT ![t] = <<>>]
  /\ gens' = [gens EXCEPT ![t] = [g \in Gens |-> NoRow]]
  /\ snaps' = [snaps EXCEPT ![t] = <<>>]
  /\ receipts' \in Thinned(receipts, {i \in DOMAIN receipts : receipts[i].thread # t})
  /\ UNCHANGED current

-----------------------------------------------------------------------------
(* What happens on its own.                                                *)

Pruned(row) == [row EXCEPT !.pruned = TRUE]

\* Journals and snapshots a newer one of the thread replaces.
Prunable(t) ==
  {g \in Gens : /\ gens[t][g].status = "completed" /\ ~gens[t][g].pruned
                /\ \E h \in Gens : gens[t][h].status = "completed"
                                   /\ gens[t][h].source > gens[t][g].source}

\* Mutant: every snapshot that is old enough is removed, the newest included.
SupersededMutantNewestToo(t) == {snaps[t][i] : i \in DOMAIN snaps[t]}

Superseded(t) ==
  {snaps[t][i] : i \in {n \in DOMAIN snaps[t] : \E j \in DOMAIN snaps[t] : Newer(t, j, n)}}

\* runMaintenance: the cutoffs choose what is old enough, one budget covers all three.
RunMaintenance(t, old, gone) ==
  /\ old \subseteq Prunable(t) /\ gone \subseteq Superseded(t)
  /\ Cardinality(old) + Cardinality(gone) <= CleanupRows
  /\ \E n \in Expired(CleanupRows - Cardinality(old) - Cardinality(gone)) : receipts' = Kept(n)
  /\ gens' = [gens EXCEPT ![t] = [g \in Gens |->
                 IF g \in old THEN Pruned(gens[t][g]) ELSE gens[t][g]]]
  /\ \E left \in Thinned(snaps[t], {i \in DOMAIN snaps[t] : snaps[t][i] \notin gone}) :
       snaps' = [snaps EXCEPT ![t] = left]
  /\ UNCHANGED <<thread, ledger, current, deletions>>

-----------------------------------------------------------------------------
\* The cursors a caller may hold; one ahead of the ledger is refused by every method.
Revisions(t) == 0 .. Revision(t)

\* The call that ends a generation in this way.
Ending == [completed |-> "finalize", cancelled |-> "cancel", failed |-> "fail"]

\* The calls that may have written the rows a thread has now.
Calls(k, t) ==
  {Blank("create", k, t)}
  \cup {[Blank("send", k, t) EXCEPT !.id = ledger[t][i].id, !.rev = i - 1] : i \in DOMAIN ledger[t]}
  \cup {[Blank("turn", k, t) EXCEPT !.id = ledger[t][gens[t][g].source].id, !.rev = gens[t][g].source - 1,
                                    !.gen = g, !.reply = gens[t][g].reply,
                                    !.pic = ledger[t][gens[t][g].source].pic] : g \in Rows(t)}
  \cup {[Blank("begin", k, t) EXCEPT !.rev = gens[t][g].source, !.gen = g, !.reply = gens[t][g].reply] :
          g \in Rows(t)}
  \cup {[Blank(Ending[gens[t][g].status], k, t) EXCEPT !.gen = g, !.code = gens[t][g].code] :
          g \in {h \in Gens : gens[t][h].status \in Ended}}
  \cup {[Blank("compact", k, t) EXCEPT !.id = snaps[t][i].id, !.rev = snaps[t][i].last,
                                       !.text = snaps[t][i].text] : i \in DOMAIN snaps[t]}

Init ==
  /\ thread = [t \in Threads |-> "unborn"]
  /\ ledger = [t \in Threads |-> <<>>]
  /\ gens = [t \in Threads |-> [g \in Gens |-> NoRow]]
  /\ current = [t \in Threads |-> None]
  /\ snaps = [t \in Threads |-> <<>>]
  /\ deletions = [t \in Threads |-> None]
  /\ receipts = <<>>

\* A call that was made before, with or without its receipt.
Again(k, t) ==
  \/ \E i \in DOMAIN receipts :
       receipts[i].key = k /\ receipts[i].thread = t /\ Replay(receipts[i])
  \/ \E q \in Calls(k, t) : Recognise(q)

Mutate(k, t) ==
  \/ CreateThread(k, t)
  \/ \E m \in Ids, r \in Revisions(t) : SendUserMessage(k, t, m, r)
  \/ \E m \in Ids, g \in Gens, a \in Ids, r \in Revisions(t), pic \in BOOLEAN :
       StartTurn(k, t, m, g, a, r, pic)
  \/ \E g \in Gens, a \in Ids, r \in Revisions(t) : StartGeneration(k, t, g, a, r)
  \/ \E g \in Gens : FinalizeGeneration(k, t, g) \/ CancelGeneration(k, t, g)
  \/ \E g \in Gens, c \in Codes : FailGeneration(k, t, g, c)
  \/ \E s \in Snaps, r \in Revisions(t), text \in Texts : CreateCompactionSnapshot(k, t, s, r, text)
  \/ \E r \in Revisions(t) : DeleteThread(k, t, r)

Maintain(t) ==
  \E old \in SUBSET Prunable(t), gone \in SUBSET Superseded(t) : RunMaintenance(t, old, gone)

Next ==
  \/ \E k \in Keys, t \in Threads : Mutate(k, t) \/ Again(k, t)
  \/ \E t \in Threads, g \in Gens : AppendDelta(t, g)
  \/ \E t \in Threads : Maintain(t)

Spec == Init /\ [][Next]_vars

-----------------------------------------------------------------------------
(* Properties.                                                             *)

\* Every row has its type and every table stays within its limit.
TypeOK ==
  /\ thread \in [Threads -> {"unborn", "live", "deleted"}]
  /\ ledger \in [Threads -> Seq(Message)]
  /\ \A t \in Threads : Len(ledger[t]) <= MaxMessages /\ Len(snaps[t]) <= MaxSnaps
  /\ gens \in [Threads -> [Gens -> Generation]]
  /\ current \in [Threads -> Gens \cup {None}]
  /\ snaps \in [Threads -> Seq([id : Snaps, last : Nat, text : Nat])]
  /\ deletions \in [Threads -> [key : Keys, rev : Nat] \cup {None}]
  /\ receipts \in Seq(Request) /\ Len(receipts) <= MaxReceipts

\* auditThread, one conjunct per check: messages, generations, pointer, snapshots.
MessageAudit(t, i) ==
  LET m == ledger[t][i]
  IN /\ m.pic => m.role = "user"
     /\ m.role = "assistant" => m.gen \in Gens /\ gens[t][m.gen].status = "completed"
     /\ \A j \in DOMAIN ledger[t] : ledger[t][j].id = m.id => j = i

GenerationAudit(t, g) ==
  LET row == gens[t][g]
  IN /\ FromUser(t, row.source)
     /\ row.vision = Seen(t, row.source)
     /\ row.status = "completed" =>
          /\ row.deltas
          /\ row.source + 1 \in DOMAIN ledger[t]
          /\ ledger[t][row.source + 1] =
               [id |-> row.reply, role |-> "assistant", gen |-> g, pic |-> FALSE]
     /\ row.pruned => row.status = "completed"
     /\ row.status = "in_progress" <=> current[t] = g

ThreadAudit(t) ==
  /\ \A i \in DOMAIN ledger[t] : MessageAudit(t, i)
  /\ \A g \in Rows(t) : GenerationAudit(t, g)
  /\ current[t] # None => current[t] \in Rows(t)
  /\ \A i \in DOMAIN snaps[t] : snaps[t][i].last \in 1 .. Revision(t)

DatabaseAudit ==
  \A t \in Threads :
    /\ deletions[t] # None <=> thread[t] = "deleted"
    /\ thread[t] # "live" => ledger[t] = <<>> /\ Rows(t) = {} /\ snaps[t] = <<>>

\* The audit the store runs before and after every write (chat-store.js:583 and
\* :796) never rejects what the store itself wrote, in any order of calls,
\* retries, deletions and clean-ups.
AuditClean == DatabaseAudit /\ \A t \in Threads : ThreadAudit(t)

\* A caller that retries while its receipt is kept is told what happened and
\* never that its data changed under it; the one exception is a snapshot that
\* maintenance removed for a newer one (#idempotentMutation's replay callbacks).
ReceiptsReplay ==
  \A i \in DOMAIN receipts :
    LET q == receipts[i]
    IN \/ Effect(q)
       \/ /\ q.kind = "compact"
          /\ \E j \in DOMAIN snaps[q.thread] : snaps[q.thread][j].last >= q.rev

\* What a caller sees of the messages and of the generations of every thread.
TurnOf(row) ==
  [state |-> CASE row.status = "absent" -> "absent"
               [] row.status = "in_progress" -> "running"
               [] row.status = "completed" -> "answered"
               [] OTHER -> "stopped",
   at |-> row.source]

Talk == [t \in Threads |-> [i \in 1 .. Len(ledger[t]) |->
           [id |-> ledger[t][i].id, role |-> ledger[t][i].role]]]
Turn == [t \in Threads |-> [g \in Gens |-> TurnOf(gens[t][g])]]

Conv == INSTANCE Conversation WITH talk <- Talk, turn <- Turn

\* Whatever is retried, evicted, expired, pruned or deleted, callers see one
\* append-only conversation: no message or answer twice, no thread reborn, none
\* forgotten while a message in it waits for its answer (deleteThread, 1541).
ImplementsConversation == Conv!Spec
=============================================================================
