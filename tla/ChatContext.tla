----------------------------- MODULE ChatContext -----------------------------
(***************************************************************************)
(* DirectChatContextCoordinator (src/src/chat-context.js) over the ledger: *)
(* before a turn is written its context is measured, and if the thread has *)
(* grown past the model's window its older part is summarised into a       *)
(* snapshot (prepareForTurn); when the turn runs its context is put        *)
(* together again from whatever the ledger holds then (assemble), with or  *)
(* without the preparation, in this process or after a restart in another. *)
(*                                                                         *)
(* Every request runs in a handler of its own, of any process.  Each store *)
(* call and each await of the summarizer is a step; the pages of           *)
(* #loadLedger are one step, because the part of a ledger below the cursor *)
(* changes only when the whole thread goes.  A payload is its bytes: those *)
(* of its messages, by identifier, and of its summary; one token per byte. *)
(***************************************************************************)
EXTENDS ChatLedger

CONSTANTS
  Requests,     \* requests to start a turn
  Weight,       \* the bytes of a message, by identifier
  Budget,       \* the tighter of maxContextBytes and maxInputTokens
  MaxEntries,   \* maxContextEntries
  RecentTurns,  \* minimumRecentTurns
  UserKey       \* the idempotency key a client sends

\* A snapshot and its key are named by the range they cover, which starts at 1:
\* the digest prepareForTurn computes does not depend on the summary's text.
ASSUME DigestAssumption == 1 .. MaxMessages \subseteq Snaps \cap Keys
ASSUME WeightAssumption == Weight \in [Ids -> Nat] /\ 0 \notin Texts
ASSUME BudgetAssumption == Budget \in Nat /\ MaxEntries \in Nat /\ RecentTurns \in Nat \ {0}
ASSUME ClientAssumption == UserKey \in Keys

VARIABLES
  request,    \* where every request stands
  overtaken,  \* history: the prepared requests behind whose back a late summary came
  exposed     \* history: the threads whose turn was prepared by such a request

contextVars == <<vars, request, overtaken, exposed>>

\* rev is the cursor a request was loaded at, seen the end of the snapshot it found
\* then, 0 if there was none, and end where the summary it waits for is to end.
Idle == [at |-> "idle", thread |-> None, id |-> None, rev |-> 0, seen |-> 0, end |-> 0]

-----------------------------------------------------------------------------
(* Measuring.                                                              *)

\* The bytes of the messages behind the first few of a list, each with its place.
Octets(list, start) ==
  UNION {{i} \X (1 .. Weight[list[i].id]) : i \in start + 1 .. Len(list)}

\* #fits and #measure: a summary is one entry more.
Fits(list, start, text) ==
  /\ Cardinality(Octets(list, start)) + text <= Budget
  /\ Len(list) - start + (IF text = 0 THEN 0 ELSE 1) <= MaxEntries

Users(list) == {i \in DOMAIN list : list[i].role = "user"}

\* recentStartIndex: how many messages have the last RecentTurns turns all behind them.
RecentStart(list) ==
  Cardinality({k \in DOMAIN list : Cardinality({i \in Users(list) : i > k}) >= RecentTurns})

Least(a, b) == IF a < b THEN a ELSE b

\* getLatestCompactionSnapshot
Latest(t) ==
  CHOOSE s \in {snaps[t][i] : i \in DOMAIN snaps[t]} : s \notin Superseded(t)

\* #tailForSnapshot and what is measured with it: the gap behind a short
\* snapshot stays exact, and so does the whole recent window under a long one.
WithSnapshot(list, s) == Fits(list, Least(s.last, RecentStart(list)), s.text)

\* The ledger as it is with the pending message of a request behind it.
Projected(r) == Append(SubSeq(ledger[r.thread], 1, r.rev), UserMessage(r.id, FALSE))

\* validateSnapshot, as far as an intact ledger can fail it: a snapshot written
\* meanwhile may reach past the revision the request loaded.
Reusable(r) ==
  /\ snaps[r.thread] # <<>>
  /\ Latest(r.thread).last <= r.rev
  /\ WithSnapshot(Projected(r), Latest(r.thread))

\* There is history before the recent window, the window leaves room for a summary,
\* and the summarizer, which wants new messages, gets some behind the last snapshot.
Summarisable(r) ==
  LET start == RecentStart(Projected(r))
  IN /\ Fits(Projected(r), start, 1)
     /\ snaps[r.thread] # <<>> => Latest(r.thread).last < start

-----------------------------------------------------------------------------
(* prepareForTurn.  Whatever it refuses, and whatever dies, is Abandon.    *)

\* A request moves on, and nothing else changes.
Goes(q, r) == request' = [request EXCEPT ![q] = r] /\ UNCHANGED <<vars, overtaken, exposed>>

Prepared(r) == [r EXCEPT !.at = "prepared", !.seen = 0, !.end = 0]

\* The route and #loadLedger: the client's cursor is the thread's, nothing runs,
\* and the raw history fits or is longer than the recent window.
Load(q, t, m) ==
  LET r == [Idle EXCEPT !.thread = t, !.id = m, !.rev = Revision(t)]
  IN /\ request[q] = Idle
     /\ thread[t] = "live" /\ current[t] = None /\ ~Used(t, m)
     /\ \/ Fits(Projected(r), 0, 0) /\ Goes(q, Prepared(r))
        \/ /\ ~Fits(Projected(r), 0, 0) /\ RecentStart(Projected(r)) > 0
           /\ Goes(q, [r EXCEPT !.at = "loaded"])

\* The newest snapshot is used again if it fits; otherwise a longer one is asked for.
Reuse(q) ==
  LET r == request[q]
      seen == IF snaps[r.thread] = <<>> THEN 0 ELSE Latest(r.thread).last
  IN /\ r.at = "loaded" /\ thread[r.thread] = "live"
     /\ \/ Reusable(r) /\ Goes(q, Prepared(r))
        \/ /\ ~Reusable(r) /\ Summarisable(r)
           /\ Goes(q, [r EXCEPT !.at = "summarising", !.seen = seen,
                               !.end = RecentStart(Projected(r))])

Call(r, text) ==
  [Blank("compact", r.end, r.thread) EXCEPT !.id = r.end, !.rev = r.end, !.text = text]

\* createCompactionSnapshot throws a conflict: a turn runs, the limit is reached, or
\* the range was summarised with another text, by a row or only by a receipt.
Conflict(c) ==
  /\ ~Effect(c)
  /\ \/ current[c.thread] # None
     \/ Len(snaps[c.thread]) >= MaxSnaps
     \/ \E i \in DOMAIN snaps[c.thread] : snaps[c.thread][i].id = c.id
     \/ Holds(receipts, c)

\* A summary becomes the newest and its writer never saw the one that was: requests
\* that were prepared with that one cannot have been compared with the writer's.
Overtakes(r) ==
  /\ snaps[r.thread] # <<>>
  /\ r.seen < Latest(r.thread).last /\ Latest(r.thread).last < r.end

Behind(r) == {p \in Requests : request[p].at = "prepared" /\ request[p].thread = r.thread}

\* The summarizer has answered, with a text that fits, and the snapshot is written.
Compact(q, text) ==
  LET r == request[q]
      c == Call(r, text)
  IN /\ r.at = "summarising" /\ thread[r.thread] = "live"
     /\ Fits(Projected(r), r.end, text)
     /\ \/ /\ \/ CreateCompactionSnapshot(r.end, r.thread, r.end, r.end, text)
              \/ Replay(c) \/ Recognise(c)
           /\ request' = [request EXCEPT ![q] = Prepared(r)]
           /\ overtaken' = IF Overtakes(r) THEN overtaken \cup Behind(r) ELSE overtaken
           /\ UNCHANGED exposed
        \/ Conflict(c) /\ Goes(q, [r EXCEPT !.at = "raced", !.seen = 0, !.end = 0])

\* Mutant: after a lost race the other request's snapshot is taken as it is.
RacedMutantUnmeasured(q) ==
  request[q].at = "raced" /\ Goes(q, Prepared(request[q]))

\* Another request was first: its snapshot has to fit this turn too.
Raced(q) ==
  /\ request[q].at = "raced" /\ thread[request[q].thread] = "live"
  /\ Reusable(request[q])
  /\ Goes(q, Prepared(request[q]))

\* The request is over.
Leaves(q) == request' = [request EXCEPT ![q] = Idle] /\ overtaken' = overtaken \ {q}

\* A refusal, an aborted request, or the death of the process it runs in.
Abandon(q) == request[q] # Idle /\ Leaves(q) /\ UNCHANGED <<vars, exposed>>

\* The prepared turn is written at the cursor it was prepared for.
Persist(q, g, a) ==
  LET r == request[q]
  IN /\ r.at = "prepared"
     /\ StartTurn(UserKey, r.thread, r.id, g, a, r.rev, FALSE)
     /\ Leaves(q)
     /\ exposed' = IF q \in overtaken THEN exposed \cup {r.thread} ELSE exposed \ {r.thread}

-----------------------------------------------------------------------------
\* assemble: the raw history, or the newest snapshot with what it leaves exact.
Assembles(t) ==
  \/ Fits(ledger[t], 0, 0)
  \/ /\ RecentStart(ledger[t]) > 0
     /\ snaps[t] # <<>> /\ Latest(t).last <= Revision(t)
     /\ WithSnapshot(ledger[t], Latest(t))

\* The rest of the server: answers, cancels, deletes, and the clean-up of the ledger.
RestOfServer(t) ==
  /\ \/ CreateThread(UserKey, t)
     \/ \E g \in Gens : \/ AppendDelta(t, g)
                        \/ FinalizeGeneration(UserKey, t, g)
                        \/ CancelGeneration(UserKey, t, g)
                        \/ \E c \in Codes : FailGeneration(UserKey, t, g, c)
     \/ DeleteThread(UserKey, t, Revision(t))
     \/ Maintain(t)
  /\ UNCHANGED <<request, overtaken, exposed>>

ContextInit ==
  Init /\ request = [q \in Requests |-> Idle] /\ overtaken = {} /\ exposed = {}

ContextNext ==
  \/ \E q \in Requests :
       \/ \E t \in Threads, m \in Ids : Load(q, t, m)
       \/ Reuse(q) \/ Raced(q) \/ Abandon(q)
       \/ \E text \in Texts : Compact(q, text)
       \/ \E g \in Gens, a \in Ids : Persist(q, g, a)
  \/ \E t \in Threads : RestOfServer(t)

ContextSpec == ContextInit /\ [][ContextNext]_contextVars

-----------------------------------------------------------------------------
\* A turn that was accepted can run: whatever other requests prepared, compacted,
\* wrote and cleaned up between its preparation and its dispatch, and in whatever
\* process it is dispatched, its context can be put together (chat-context.js:959).
\* The exception: behind the back of the prepared request a summary was written by
\* another that had not seen the newest one (a slow summarizer, chat-context.js:853).
PreparedTurnAssembles ==
  \A t \in Threads : current[t] # None => Assembles(t) \/ t \in exposed

\* A summary is never given up for one of a shorter range, not even by a request
\* that was overtaken and writes its snapshot late (getLatestCompactionSnapshot).
CoverageNeverShrinks ==
  [][\A t \in Threads :
       /\ thread[t] = "live" /\ thread'[t] = "live" /\ snaps[t] # <<>>
       => snaps'[t] # <<>> /\ Latest(t)'.last >= Latest(t).last]_contextVars
=============================================================================
