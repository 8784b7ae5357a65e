--------------------------- MODULE BrowserStream ---------------------------
(* The browser's view of Direct Chat conversations (browser-app.js):        *)
(* opening one, following the event stream of its generation, replacing the *)
(* streamed text by the authoritative snapshot when the generation          *)
(* completes, Stop, Resume, a change of mode, and the session that expires  *)
(* under any of them.  How a turn is sent is BrowserSend's subject; here a  *)
(* send is its two requests.                                                *)
(*                                                                          *)
(* Every handler that waits for an answer is a job.  A job owns the view    *)
(* while state.viewEpoch is what it was at its start, and is fresh while    *)
(* state.session is.  Aborting the stream's controller removes its job.     *)
EXTENDS Naturals, Sequences, SequencesExt, FiniteSets, TLC

CONSTANTS Threads,    \* conversations
          MaxTurns,   \* bound: turns
          MaxDeltas,  \* bound: deltas of a generation
          MaxSnags,   \* bound: failed reads, broken streams, expiries, writes by another page
          Nobody      \* no thread, no generation

VARIABLES log,    \* the server's ledgers: messages [role, gen] of each thread
          live,   \* the generation running in each thread, or Nobody
          runs,   \* the generations: thread, status, deltas in the journal
          authed, \* the server accepts the page's session
          tab,    \* the page's state object and what it shows
          jobs,   \* handlers waiting for an answer
          snags,  \* snags so far
          past    \* history: the cases the properties except

streamVars == <<log, live, runs, authed, tab, jobs, snags, past>>
ledgers == <<log, live, runs>>

Turns == 1..MaxTurns
Statuses == {"none", "in_progress", "completed", "failed", "cancelled"}

(* A message, and what a read of a thread or a signed out page keeps of it. *)
Message == [role : {"user", "assistant"}, gen : Turns]
Snapshot == [msgs : Seq(Message), live : Turns \cup {Nobody}]
Descriptor == [thread : Threads, gen : Turns \cup {Nobody}, known : Statuses,
               cursor : Nat, output : Seq(Turns \X Nat)]

(* Nobody is told from whatever may stand in its place.                     *)
ASSUME StreamAssumption ==
  /\ {MaxTurns, MaxDeltas, MaxSnags} \subseteq Nat
  /\ Nobody \notin Threads \cup Turns \cup [thread : Threads, gen : Turns]
  /\ Nobody \notin Snapshot /\ Nobody \notin Descriptor

Unused == [thread |-> Nobody, status |-> "none", deltas |-> 0]
Notes(what, case) == past' = IF case THEN past \cup {what} ELSE past
Never(what) == past \cap what = {}

Kept == {t \in Threads : log[t] # << >>}
Snap(t) == [msgs |-> log[t], live |-> live[t]]
Answer(g) == [role |-> "assistant", gen |-> g]
Prompt(g) == [role |-> "user", gen |-> g]
Ends(msgs, m) == msgs # << >> /\ Last(msgs) = m

NoJob == [kind |-> "none", pc |-> "none", thread |-> Nobody, gen |-> Nobody, owned |-> TRUE,
          fresh |-> TRUE, busy |-> FALSE, clears |-> FALSE, aim |-> "view", before |-> Nobody, back |-> Nobody]

-----------------------------------------------------------------------------
(* The view and its epoch.                                                  *)

Streaming == {j \in jobs : j.kind = "stream"}
Running == tab.gen # Nobody /\ tab.known = "in_progress"
Busy == \E j \in jobs : j.busy
Restoring == \E j \in jobs : j.kind = "open" /\ j.owned
Locked == Busy \/ Restoring \/ tab.final # Nobody \/ tab.back # Nobody

(* A new epoch disowns every job and aborts the stream.  A list or an       *)
(* opening that nobody waits for leaves nothing once it is disowned.        *)
Outlives(j) == j.kind # "stream" /\ (j.kind \in {"list", "open"} => j.busy)
Disowned(js) == {[j EXCEPT !.owned = FALSE] : j \in {i \in js : Outlives(i)}}
SignedAway(js) == {[j EXCEPT !.owned = FALSE, !.fresh = FALSE] : j \in {i \in js : Outlives(i)}}

Cleared(p) == [p EXCEPT !.shown = << >>, !.node = Nobody, !.status = "idle", !.resume = FALSE]

(* captureChatReadRecovery: the cursor and the text are whatever the page   *)
(* holds, of the generation asked for or not.                               *)
Capture(t, g) ==
  IF t = Nobody THEN Nobody
  ELSE [thread |-> t, gen |-> g, known |-> IF tab.gen = g THEN tab.known ELSE "none",
        cursor |-> tab.cursor, output |-> tab.output]

(* requireFreshAuthentication.                                              *)
SignsOut(back, js) ==
  /\ tab' = [Cleared(tab) EXCEPT !.signedIn = FALSE, !.thread = Nobody, !.gen = Nobody,
                                 !.final = Nobody, !.back = back]
  /\ jobs' = SignedAway(js)
  /\ Notes("blind", back # Nobody /\ back.cursor > 0 /\ back.gen \notin {tab.gen} \ {Nobody})

(* recoverChatReadAuthentication, which does not ask whose session it was.  *)
Recovers(back, js) ==
  IF tab.signedIn THEN SignsOut(back, js)
  ELSE jobs' = js /\ UNCHANGED <<tab, past>>

-----------------------------------------------------------------------------
(* Rendering a snapshot, and the finalization lock.                         *)

FinalCurrent(f) == tab.signedIn /\ tab.final = f /\ tab.thread = f.thread
FinalOf(j) == [thread |-> j.thread, gen |-> j.gen]

(* renderChatSnapshot without a finalization: a ledger that ends with an    *)
(* answer is shown completed and takes the lock from whoever held it.       *)
Rendered(p, t, s) ==
  LET done == s.msgs # << >> /\ Last(s.msgs).role = "assistant" IN
  [Cleared(p) EXCEPT !.thread = t, !.shown = s.msgs,
                     !.status = IF done THEN "completed" ELSE "idle",
                     !.final = IF done THEN Nobody ELSE @]

(* pauseChatFinalization.                                                   *)
Paused(f) == IF FinalCurrent(f) THEN [tab EXCEPT !.status = "finalizing", !.resume = TRUE] ELSE tab

(* A reconnect that fails on a page that signed in anew reinstalls the      *)
(* descriptor it started from (authenticated's catch); Resume's does not.   *)
AtSignIn(j) == j.clears /\ ~j.busy
HeldBy(b) == IF b.known = "none" THEN Nobody ELSE b.gen
Reinstated(p, j) == IF ~AtSignIn(j) THEN p
                    ELSE [p EXCEPT !.thread = j.back.thread, !.gen = HeldBy(j.back),
                                   !.back = j.back, !.resume = TRUE]

(* A snapshot is taken when the thread did not change while it was read.    *)
Stable(before, after) == before = after

(* The job may still touch the view.                                        *)
OwnsMutantSession(j) == j.fresh /\ tab.signedIn
Owns(j) == j.owned /\ j.fresh /\ tab.signedIn

Without(j) == jobs \ {j}
Becomes(j, i) == jobs' = Without(j) \cup {i}
Starts(i) == jobs' = jobs \cup {i}

-----------------------------------------------------------------------------
(* The stream of a generation.                                              *)

(* streamChatGeneration's start: a page that holds the generation already   *)
(* continues from its own cursor and text.                                  *)
AttachMutantRewinds(p, g, cursor, output) ==
  [p EXCEPT !.gen = g, !.known = "in_progress", !.cursor = cursor,
            !.output = IF p.gen = g THEN @ ELSE output, !.node = g, !.resume = FALSE, !.status = "running"]
Attach(p, g, cursor, output) ==
  LET on == p.gen = g IN
  [p EXCEPT !.gen = g, !.known = "in_progress",
            !.cursor = IF on /\ @ > cursor THEN @ ELSE cursor,
            !.output = IF on THEN @ ELSE output,
            !.node = IF on /\ @ # Nobody THEN @ ELSE g, !.resume = FALSE, !.status = "running"]

Attached(p, j, g, cursor, output) ==
  /\ tab' = Attach(p, g, cursor, output)
  /\ jobs' = {i \in Without(j) : i.kind # "stream"}
              \cup {[j EXCEPT !.kind = "stream", !.pc = "events", !.gen = g, !.before = Nobody]}

(* openChatThread's stream runs in the background.                         *)
Follows(p, j, g) ==
  /\ tab' = Attach(p, g, 0, << >>)
  /\ jobs' = {i \in Without(j) : i.kind # "stream"}
              \cup {[j EXCEPT !.kind = "stream", !.pc = "events", !.before = Nobody, !.busy = FALSE]}

(* What follows the job that waited for a stream or a read: the caller's    *)
(* finally, and the descriptor its success clears.                          *)
Settled(p, j) == IF j.clears /\ j.fresh /\ p.signedIn THEN [p EXCEPT !.back = Nobody] ELSE p

(* finishChatGeneration.                                                    *)
Finish(p, j, g, status) ==
  LET q == [p EXCEPT !.gen = g, !.known = status]
      f == [thread |-> j.thread, gen |-> g] IN
  IF Owns(j) /\ p.thread = j.thread
  THEN /\ tab' = IF status = "completed" THEN [q EXCEPT !.final = f, !.status = "finalizing"] ELSE q
       /\ Becomes(j, [j EXCEPT !.pc = "before", !.before = Nobody, !.gen = g,
                               !.aim = IF status = "completed" THEN "final" ELSE "refresh"])
  ELSE /\ tab' = Settled(IF Owns(j) THEN [q EXCEPT !.status = status] ELSE q, j)
       /\ jobs' = Without(j)

(* A stream that throws is left to Resume.                                  *)
Interrupts(p, j) == tab' = Reinstated([p EXCEPT !.resume = TRUE], j) /\ jobs' = Without(j)

(* One delta event, with its cursor; it cannot be shown without a node.     *)
Deliver(j) ==
  /\ j.pc = "events" /\ tab.cursor < runs[j.gen].deltas
  /\ LET p == [tab EXCEPT !.cursor = @ + 1, !.output = Append(@, <<j.gen, tab.cursor + 1>>)] IN
     IF tab.node = Nobody THEN Interrupts(p, j) ELSE tab' = p /\ UNCHANGED jobs
  /\ UNCHANGED <<ledgers, authed, snags, past>>

(* The terminal event, after the whole journal.                             *)
Terminal(j) ==
  /\ j.pc = "events" /\ runs[j.gen].status # "in_progress" /\ tab.cursor = runs[j.gen].deltas
  /\ Finish(tab, j, j.gen, runs[j.gen].status)
  /\ UNCHANGED <<ledgers, authed, snags, past>>

Snag == snags < MaxSnags /\ snags' = snags + 1

(* The stream breaks; the status decides how to go on.                      *)
Breaks(j) ==
  /\ j.pc = "events" /\ Snag /\ Becomes(j, [j EXCEPT !.pc = "probe"])
  /\ UNCHANGED <<ledgers, authed, tab, past>>

Probe(j) ==
  /\ j.pc = "probe" /\ authed
  /\ IF runs[j.gen].status # "in_progress" THEN Finish(tab, j, j.gen, runs[j.gen].status)
     ELSE Becomes(j, [j EXCEPT !.pc = "events"]) /\ UNCHANGED tab
  /\ UNCHANGED <<ledgers, authed, snags, past>>

(* The server or the client refuses it for good.                            *)
Interrupted(j) ==
  /\ j.pc = "events" /\ Snag /\ Interrupts(tab, j)
  /\ UNCHANGED <<ledgers, authed, past>>

StreamExpired(j) ==
  /\ j.pc = "probe" /\ ~authed /\ Recovers(Capture(j.thread, j.gen), Without(j))
  /\ UNCHANGED <<ledgers, authed, snags>>

-----------------------------------------------------------------------------
(* fetchChatSnapshot: the thread, its messages, the thread again.           *)

Reading(j) == j.pc \in {"before", "after", "status"}

ReadBefore(j) ==
  /\ j.pc = "before" /\ authed /\ j.fresh /\ Owns(j)
  /\ Becomes(j, [j EXCEPT !.pc = "after", !.before = Snap(j.thread)])
  /\ UNCHANGED <<ledgers, authed, tab, snags, past>>

Again(j) ==
  /\ j.pc = "after" /\ authed /\ Owns(j) /\ ~Stable(j.before, Snap(j.thread))
  /\ Becomes(j, [j EXCEPT !.pc = "before", !.before = Nobody])
  /\ UNCHANGED <<ledgers, authed, tab, snags, past>>

(* What a job does with its snapshot: the messages first read, the thread   *)
(* last read.                                                               *)
Take(j, s) ==
  \/ /\ j.kind = "open"
     /\ IF s.live = Nobody
        THEN /\ tab' = [Rendered(tab, j.thread, s) EXCEPT !.gen = Nobody, !.cursor = 0, !.output = << >>]
             /\ jobs' = Without(j)
        ELSE /\ tab' = Rendered(tab, j.thread, s)
             /\ Becomes(j, [j EXCEPT !.pc = "status", !.gen = s.live, !.before = s])
  \/ /\ j.kind = "reconnect" /\ j.aim = "view"
     /\ LET g == IF j.back.gen # Nobody THEN j.back.gen ELSE s.live IN
        IF g = Nobody
        THEN /\ tab' = Settled([Rendered(tab, j.thread, s) EXCEPT !.gen = Nobody], j)
             /\ jobs' = Without(j)
        ELSE /\ tab' = Rendered(tab, j.thread, s)
             /\ Becomes(j, [j EXCEPT !.pc = "status", !.gen = g, !.before = s])
  \/ /\ j.aim = "final"
     /\ LET shown == [Cleared(tab) EXCEPT !.thread = j.thread, !.shown = s.msgs]
            held == [shown EXCEPT !.status = "finalizing"] IN
        tab' = CASE ~FinalCurrent(FinalOf(j)) -> Settled(shown, j)
                 [] FinalCurrent(FinalOf(j)) /\ Ends(s.msgs, Answer(j.gen)) ->
                      Settled([held EXCEPT !.final = Nobody, !.status = "completed"], j)
                 [] OTHER -> Settled([held EXCEPT !.resume = TRUE], j)
     /\ jobs' = Without(j)
  \/ /\ j.aim = "refresh"
     /\ tab' = Settled([Rendered(tab, j.thread, s) EXCEPT !.status = runs[j.gen].status], j)
     /\ jobs' = Without(j)

ReadAfter(j) ==
  /\ j.pc = "after" /\ authed /\ Owns(j) /\ Stable(j.before, Snap(j.thread))
  /\ Take(j, [msgs |-> j.before.msgs, live |-> live[j.thread]])
  /\ UNCHANGED <<ledgers, authed, snags, past>>

(* What is left when a read fails for good, or because the view is          *)
(* another's by now.  A descriptor may name a generation of the thread the  *)
(* page held before: the server knows no such generation of this one.       *)
Failed(j) ==
  CASE j.aim = "final" -> Settled(IF Owns(j) THEN Paused(FinalOf(j)) ELSE tab, j)
    [] j.aim = "refresh" -> Settled([tab EXCEPT !.status = runs[j.gen].status, !.resume = FALSE], j)
    [] j.aim = "view" /\ j.kind = "reconnect" /\ (Owns(j) \/ j.pc # "status") -> Reinstated(tab, j)
    [] OTHER -> tab

Misdirected(j) == j.pc = "status" /\ runs[j.gen].thread # j.thread

Fails(j) ==
  /\ Reading(j)
  /\ IF Owns(j) /\ ~Misdirected(j) THEN Snag ELSE UNCHANGED snags
  /\ tab' = Failed(j) /\ jobs' = Without(j)
  /\ Notes("late", tab.signedIn /\ ~j.fresh /\ AtSignIn(j))
  /\ UNCHANGED <<ledgers, authed>>

(* It is refused for the session: opening asks who owns the view before it  *)
(* signs out, Stop ignores it, the others do not ask.                       *)
Expired(j) ==
  /\ Reading(j) /\ (~authed \/ ~j.fresh)
  /\ IF j.kind = "stop" \/ (j.kind = "open" /\ ~Owns(j))
     THEN tab' = Failed(j) /\ jobs' = Without(j) /\ UNCHANGED past
     ELSE Recovers(IF j.kind = "reconnect" /\ j.aim = "view" THEN j.back ELSE Capture(j.thread, j.gen), Without(j))
  /\ UNCHANGED <<ledgers, authed, snags>>

(* The text on the page is of another generation.                           *)
Foreign(g) == tab.output # << >> /\ Head(tab.output)[1] # g

(* getRunStatus after the snapshot.                                         *)
Status(j) ==
  /\ j.pc = "status" /\ authed /\ Owns(j) /\ ~Misdirected(j)
  /\ LET g == j.gen
         status == runs[g].status
         p == [tab EXCEPT !.gen = g, !.known = status]
         fresh == [p EXCEPT !.cursor = 0, !.output = << >>] IN
     \/ /\ j.kind = "open"
        /\ IF status = "in_progress" THEN Follows(fresh, j, g)
           ELSE tab' = [fresh EXCEPT !.status = status] /\ jobs' = Without(j)
        /\ Notes("raced", status = "completed")
     \/ /\ j.kind = "reconnect"
        /\ Notes("blind", status = "in_progress" /\ j.back.gen = Nobody /\ Foreign(g))
        /\ CASE status = "in_progress" ->
                  Attached(p, j, g, IF j.back.gen = g THEN j.back.cursor ELSE 0,
                           IF j.back.gen = g THEN j.back.output ELSE << >>)
             [] status = "completed" /\ ~Ends(j.before.msgs, Answer(g)) ->
                  Finish(p, j, g, status)
             [] OTHER -> tab' = Settled([p EXCEPT !.status = status], j) /\ jobs' = Without(j)
  /\ UNCHANGED <<ledgers, authed, snags>>

-----------------------------------------------------------------------------
(* The user.                                                                *)

(* openThread.                                                              *)
Opener(t, busy) == [NoJob EXCEPT !.kind = "open", !.pc = "before", !.thread = t, !.busy = busy]

OpenThread(t) ==
  /\ tab.signedIn /\ ~Locked /\ t \in Kept
  /\ jobs' = Disowned(jobs) \cup {Opener(t, TRUE)}
  /\ UNCHANGED <<ledgers, authed, tab, snags, past>>

NewConversation ==
  /\ tab.signedIn /\ ~Locked
  /\ tab' = [Cleared(tab) EXCEPT !.thread = Nobody, !.gen = Nobody, !.cursor = 0, !.output = << >>]
  /\ jobs' = Disowned(jobs)
  /\ UNCHANGED <<ledgers, authed, snags, past>>

(* To the other mode and back: restoreModeView clears the view at once and  *)
(* opens a conversation by itself when its list has loaded.                 *)
Lister(t) == [NoJob EXCEPT !.kind = "list", !.pc = "list", !.thread = t]

SwitchModes ==
  /\ tab.signedIn /\ ~Locked /\ \A j \in jobs : j.kind # "list"
  /\ tab' = Cleared(tab)
  /\ jobs' = Disowned(jobs) \cup {Lister(tab.thread)}
  /\ UNCHANGED <<ledgers, authed, snags, past>>

Listed(j) ==
  /\ j.pc = "list"
  /\ \/ /\ Owns(j) /\ authed
        /\ \E t \in IF j.thread \in Kept THEN {j.thread} ELSE Kept : Becomes(j, Opener(t, FALSE))
     \/ /\ ~(Owns(j) /\ authed /\ Kept # {})
        /\ jobs' = Without(j)
  /\ UNCHANGED <<ledgers, authed, tab, snags, past>>

(* A send: in the conversation shown, or in a new one.                      *)
SendTurn(t) ==
  /\ tab.signedIn /\ ~Locked /\ ~Running
  /\ t \in IF tab.thread = Nobody THEN Threads \ Kept ELSE {tab.thread}
  /\ Starts([NoJob EXCEPT !.kind = "send", !.pc = IF tab.thread = Nobody THEN "create" ELSE "start",
                          !.thread = t, !.busy = TRUE])
  /\ Notes("barged", \E j \in jobs : j.kind = "list" /\ j.owned)
  /\ UNCHANGED <<ledgers, authed, tab, snags>>

Created(j) ==
  /\ j.pc = "create" /\ authed /\ j.fresh
  /\ tab' = [tab EXCEPT !.thread = j.thread] /\ Becomes(j, [j EXCEPT !.pc = "start"])
  /\ UNCHANGED <<ledgers, authed, snags, past>>

NextTurn(g) == runs[g] = Unused /\ \A h \in Turns : h < g => runs[h] # Unused

Begun(t, g) == /\ NextTurn(g) /\ live[t] = Nobody
               /\ log' = [log EXCEPT ![t] = Append(@, Prompt(g))]
               /\ live' = [live EXCEPT ![t] = g]
               /\ runs' = [runs EXCEPT ![g] = [thread |-> t, status |-> "in_progress", deltas |-> 0]]

(* The turn is accepted: the page shows its prompt and follows it.  Only a  *)
(* page with local pictures renders the snapshot it read before.            *)
Sent(j, g) ==
  /\ j.pc = "start" /\ authed /\ j.fresh /\ Begun(j.thread, g)
  /\ \E pictures \in BOOLEAN :
       LET p == IF pictures THEN Rendered(tab, j.thread, Snap(j.thread)) ELSE tab IN
       Attached([p EXCEPT !.gen = g, !.known = "in_progress", !.cursor = 0, !.output = << >>,
                          !.shown = IF p.thread = j.thread THEN Append(@, Prompt(g)) ELSE @],
                j, g, 0, << >>)
  /\ UNCHANGED <<authed, snags, past>>

(* It is not: BrowserSend says what becomes of it.                          *)
Unsent(j) ==
  /\ j.kind = "send" /\ (~authed \/ ~j.fresh \/ live[j.thread] # Nobody)
  /\ IF ~authed /\ j.fresh THEN Recovers(Nobody, Without(j)) ELSE jobs' = Without(j) /\ UNCHANGED <<tab, past>>
  /\ UNCHANGED <<ledgers, authed, snags>>

(* Stop cancels the generation the page shows running.  The answer is taken *)
(* whatever the page shows by then: the stream is aborted and the cancelled *)
(* generation's conversation read again, which a signed out page refuses.   *)
StopRun ==
  /\ tab.signedIn /\ authed /\ Running
  /\ \E j \in Streaming : j.pc \in {"events", "probe"}
  /\ \A j \in jobs : j.kind # "stop"
  /\ Starts([NoJob EXCEPT !.kind = "stop", !.pc = "cancel", !.thread = runs[tab.gen].thread, !.gen = tab.gen])
  /\ UNCHANGED <<ledgers, authed, tab, snags, past>>

Ended(g, status) == /\ runs' = [runs EXCEPT ![g].status = status]
                    /\ live' = [live EXCEPT ![runs[g].thread] = Nobody]

Cancelled(j) ==
  /\ j.pc = "cancel" /\ runs[j.gen].status = "in_progress"
  /\ Ended(j.gen, "cancelled") /\ UNCHANGED log
  /\ LET kept == {i \in Without(j) : i.kind # "stream"}
         p == [tab EXCEPT !.gen = j.gen, !.known = "cancelled",
                          !.back = IF \E i \in Streaming : i.clears THEN Nobody ELSE @] IN
     IF tab.signedIn
     THEN /\ tab' = p
          /\ jobs' = kept \cup {[j EXCEPT !.pc = "before", !.aim = "refresh", !.owned = TRUE, !.fresh = TRUE]}
     ELSE tab' = [p EXCEPT !.status = "cancelled", !.resume = FALSE] /\ jobs' = kept
  /\ Notes("swapped", ~j.owned)
  /\ UNCHANGED <<authed, snags>>

Uncancelled(j) ==
  /\ j.pc = "cancel" /\ (runs[j.gen].status # "in_progress" \/ ~authed)
  /\ jobs' = Without(j)
  /\ UNCHANGED <<ledgers, authed, tab, snags, past>>

(* Resume, when its button shows: a reconnect, a paused finalization, or an *)
(* interrupted stream, in this order.                                       *)
ResumeView ==
  /\ tab.signedIn /\ ~Busy /\ tab.resume
  /\ \/ /\ tab.back # Nobody
        /\ Starts([NoJob EXCEPT !.kind = "reconnect", !.pc = "before", !.thread = tab.back.thread,
                                !.busy = TRUE, !.clears = TRUE, !.back = tab.back])
        /\ UNCHANGED tab
     \/ /\ tab.back = Nobody /\ tab.final # Nobody /\ FinalCurrent(tab.final)
        /\ jobs' = {j \in jobs : j.kind # "stream"}
                    \cup {[NoJob EXCEPT !.kind = "stream", !.pc = "before", !.thread = tab.final.thread,
                                        !.gen = tab.final.gen, !.busy = TRUE, !.aim = "final"]}
        /\ tab' = [tab EXCEPT !.resume = FALSE]
     \/ /\ tab.back = Nobody /\ tab.final = Nobody /\ Running
        /\ Attached(tab, [NoJob EXCEPT !.thread = runs[tab.gen].thread, !.busy = TRUE],
                    tab.gen, tab.cursor, tab.output)
  /\ UNCHANGED <<ledgers, authed, snags, past>>

(* revalidateSessionOnResume finds the session gone.                        *)
FindsExpired ==
  /\ tab.signedIn /\ ~authed
  /\ SignsOut(Capture(IF tab.thread # Nobody THEN tab.thread
                      ELSE IF tab.gen # Nobody THEN runs[tab.gen].thread ELSE Nobody, tab.gen), jobs)
  /\ UNCHANGED <<ledgers, authed, snags>>

(* The same account signs in: the kept descriptor is read again, or the     *)
(* list opens a conversation.                                               *)
SignIn ==
  /\ ~tab.signedIn /\ authed' = TRUE
  /\ LET b == tab.back IN
     IF b = Nobody
     THEN /\ tab' = [Cleared(tab) EXCEPT !.signedIn = TRUE, !.gen = Nobody, !.cursor = 0, !.output = << >>]
          /\ jobs' = SignedAway(jobs) \cup {Lister(Nobody)}
     ELSE /\ tab' = [Cleared(tab) EXCEPT !.signedIn = TRUE, !.thread = b.thread,
                                         !.gen = HeldBy(b), !.known = b.known,
                                         !.cursor = b.cursor, !.output = b.output]
          /\ jobs' = SignedAway(jobs) \cup {[NoJob EXCEPT !.kind = "reconnect", !.pc = "before", !.thread = b.thread,
                                                         !.clears = TRUE, !.back = b]}
  /\ UNCHANGED <<ledgers, snags, past>>

-----------------------------------------------------------------------------
(* The server and the other pages.                                          *)
ServerRuns ==
  /\ \E g \in Turns :
       /\ runs[g].status = "in_progress"
       /\ \/ /\ runs[g].deltas < MaxDeltas
             /\ runs' = [runs EXCEPT ![g].deltas = @ + 1] /\ UNCHANGED <<log, live>>
          \/ /\ Ended(g, "completed")
             /\ log' = [log EXCEPT ![runs[g].thread] = Append(@, Answer(g))]
          \/ Ended(g, "failed") /\ UNCHANGED log
  /\ UNCHANGED <<authed, tab, jobs, snags, past>>

Elsewhere ==
  /\ \E t \in Threads, g \in Turns : Snag /\ Begun(t, g)
  /\ UNCHANGED <<authed, tab, jobs, past>>

Expire == /\ authed /\ Snag /\ authed' = FALSE
          /\ UNCHANGED <<ledgers, tab, jobs, past>>

StreamInit ==
  /\ log = [t \in Threads |-> << >>] /\ live = [t \in Threads |-> Nobody]
  /\ runs = [g \in Turns |-> Unused] /\ authed = TRUE
  /\ tab = [signedIn |-> TRUE, thread |-> Nobody, gen |-> Nobody, known |-> "none", cursor |-> 0, output |-> << >>,
            shown |-> << >>, node |-> Nobody, status |-> "idle", resume |-> FALSE, final |-> Nobody, back |-> Nobody]
  /\ jobs = {} /\ snags = 0
  /\ past = {}

StreamNext ==
  \/ \E t \in Threads : OpenThread(t) \/ SendTurn(t)
  \/ NewConversation \/ SwitchModes \/ StopRun \/ ResumeView \/ FindsExpired \/ SignIn
  \/ \E j \in jobs :
       \/ Deliver(j) \/ Terminal(j) \/ Breaks(j) \/ Probe(j) \/ Interrupted(j) \/ StreamExpired(j)
       \/ ReadBefore(j) \/ Again(j) \/ ReadAfter(j) \/ Fails(j) \/ Expired(j) \/ Status(j)
       \/ Listed(j) \/ Created(j) \/ Unsent(j) \/ Cancelled(j) \/ Uncancelled(j)
       \/ \E g \in Turns : Sent(j, g)
  \/ ServerRuns \/ Elsewhere \/ Expire

StreamSpec == StreamInit /\ [][StreamNext]_streamVars

-----------------------------------------------------------------------------
Following == {j \in Streaming : j.pc \in {"events", "probe"}}

(* The text of a followed generation is its journal up to the cursor: no    *)
(* delta twice, none missed, none of another generation, whatever breaks,   *)
(* is reopened or signs in again in between.  Three cases escape the code:  *)
(* a page that reconnects to a generation with the cursor of another        *)
(* (browser-app.js:4167), or, interrupted, resumes on the next run of its   *)
(* conversation (4194); a list that opens a conversation under a send       *)
(* (browser-app.js:5012), and a failed reconnect of an earlier session      *)
(* (browser-app.js:6313).                                                   *)
OutputIsJournal ==
  Never({"blind", "barged", "late"}) =>
    \A j \in Following : /\ tab.gen = j.gen /\ tab.cursor <= runs[j.gen].deltas
                         /\ tab.output = [i \in 1..tab.cursor |-> <<j.gen, i>>]

(* The page shows one conversation: its messages and the text it follows    *)
(* are of the thread it would send to, and a generation it says completed   *)
(* is shown with its answer.  Four cases escape the code: Stop answered     *)
(* after the user moved on (browser-app.js:6533), a list that opens a       *)
(* conversation under a send, a failed reconnect of an earlier session      *)
(* (browser-app.js:6313), and a conversation opened just when its           *)
(* generation completes (browser-app.js:4150).                              *)
OneConversation ==
  Never({"swapped", "barged", "late"}) =>
    /\ \A i \in DOMAIN tab.shown : runs[tab.shown[i].gen].thread = tab.thread
    /\ \A j \in Following : j.thread = tab.thread
    /\ (tab.status = "completed" /\ tab.gen # Nobody /\ tab.known = "completed"
        /\ runs[tab.gen].thread = tab.thread /\ Never({"raced"})) =>
         Answer(tab.gen) \in Range(tab.shown)
=============================================================================
