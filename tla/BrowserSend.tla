---------------------------- MODULE BrowserSend ----------------------------
(* The browser's durable send (browser-app.js: submitMessage, sendChat,     *)
(* continueChatSend, exactMutation, exactRunMutation, resume and the sign   *)
(* in that interrupts them) against a server that may expire the session,   *)
(* close the rollout latch, move to a newer release, lose an answer, or     *)
(* serve a request long after the browser gave up on it.                    *)
(*                                                                          *)
(* One page, one account.  A send is numbered by the order of submission;   *)
(* its number stands for the identifiers prepareThread and prepareRun draw  *)
(* (thread, message, generation, idempotency keys).  The answers the code   *)
(* tells apart are "ok", "fault" (retryable: lost, timed out, or any 5xx),  *)
(* "rollout", "release", "auth", "reject" (another definite 4xx), "absent"  *)
(* (404 to a probe) and "stale" (the page's own session changed).           *)
EXTENDS Naturals, FiniteSets

CONSTANTS Texts,      \* what the user types
          Pictured,   \* the texts that carry images
          MaxSends,   \* bound: submissions
          MaxLogins,  \* bound: sessions
          MaxMishaps, \* bound: lost answers, expiries, closings, releases
          None

VARIABLES session,    \* the session the server accepts, or None
          current,    \* the page's release is the server's
          admitting,  \* the rollout latch admits new work
          conv,       \* the server's threads: revision and running send
          accepted,   \* the turns the server persisted: send |-> text
          stray,      \* requests the browser gave up on, still on their way
          page,       \* what the page's state object holds
          work,       \* the page's one send workflow, or None
          flow,       \* the handler running now (state.busy), or Idle
          sends,      \* sends submitted so far
          mishaps,    \* mishaps so far
          seen        \* history: what the user typed, and the boundary cases

sendVars == <<session, current, admitting, conv, accepted, stray, page, work, flow, sends, mishaps, seen>>
server == <<session, current, admitting, conv, accepted>>

Sends == 1..MaxSends

(* The record of a send: what was fixed of it, and how far it came.         *)
WorkRow == [id : Sends, text : Texts, own : BOOLEAN, threadSent : BOOLEAN, thread : BOOLEAN,
            to : 0..MaxSends \cup {None}, base : Nat, sent : BOOLEAN,
            doubt : {None, "thread", "run"}, draft : {None, "recovery", "locked"}]

(* None is told from whatever may stand in its place.                       *)
ASSUME SendAssumption ==
  /\ MaxSends \in Nat
  /\ None \notin Nat \cup Texts \cup WorkRow
  /\ None \notin {"send", "resume", "sent", "admitted", "locked", "recovery"}
  /\ None \notin {"thread", "threadAgain", "run", "runAfterRollout", "runAgain", "probe", "snapshot", "stream"}

NoThread == [rev |-> 0, made |-> FALSE, live |-> None]
Idle == [by |-> None, pc |-> None, cookie |-> None, at |-> None, proven |-> FALSE]

Accepted(n) == {k \in DOMAIN accepted : accepted[k] = n}

-----------------------------------------------------------------------------
(* The server.                                                              *)

(* The gates a POST passes before its handler, in their order: release,     *)
(* session, and the rollout latch of the run routes.                        *)
Gate(op, cookie) ==
  CASE ~current -> "release"
    [] current /\ cookie # session -> "auth"
    [] current /\ cookie = session /\ op = "run" /\ ~admitting -> "rollout"
    [] OTHER -> "open"

(* What prepareThread and prepareRun fixed of a send.                       *)
Ticket(w) == [id |-> w.id, text |-> w.text, to |-> w.to, base |-> w.base]

(* Whether startTurn takes the turn: its revision fence and its one running *)
(* generation; a repetition of an accepted turn is answered by its receipt. *)
Takes(q) == /\ conv[q.to].made
            /\ conv[q.to].live = None
            /\ conv[q.to].rev = q.base

(* The handler's effect and its answer.  A thread is created once.          *)
Effect(op, q, answer) ==
  \/ /\ op = "thread" /\ answer = "ok"
     /\ conv' = [conv EXCEPT ![q.id].made = TRUE]
     /\ UNCHANGED accepted
  \/ /\ op = "run" /\ answer = "ok"
     /\ IF q.id \in DOMAIN accepted THEN UNCHANGED <<conv, accepted>>
        ELSE /\ Takes(q)
             /\ conv' = [conv EXCEPT ![q.to].rev = @ + 1, ![q.to].live = q.id]
             /\ accepted' = [k \in DOMAIN accepted \cup {q.id} |-> IF k = q.id THEN q.text ELSE accepted[k]]
  \/ /\ op = "run" /\ answer = "reject"
     /\ q.id \notin DOMAIN accepted /\ ~Takes(q)
     /\ UNCHANGED <<conv, accepted>>

-----------------------------------------------------------------------------
(* Signing out and the handler's end.                                       *)

(* The session and chat client a handler captured are still the page's.     *)
Owned == page.signedIn /\ flow.cookie = page.cookie

(* requireFreshAuthentication keeps the workflow it is given, and the       *)
(* conversation of a read it is given.                                      *)
SignedOut(p, keep, thread) ==
  IF p.signedIn
  THEN [p EXCEPT !.signedIn = FALSE, !.thread = None, !.gen = None,
                 !.pending = keep, !.kept = keep, !.back = thread]
  ELSE p

Rests(p, w) == /\ flow' = Idle /\ page' = p
               /\ work' = IF p.pending \/ p.kept THEN w ELSE None

(* What sendChat knows of a failed send: it was not sent when the server    *)
(* refused it definitely, when the latch refused it and nothing before was  *)
(* ambiguous, or when no mutation of it is open.                            *)
Definite == {"auth", "release", "reject"}
NotSent(r, w) == \/ r \in Definite
                 \/ r = "rollout" /\ w.doubt = None
                 \/ ~w.sent /\ (~w.threadSent \/ w.thread)

(* The draft the workflow keeps of a send that may have run.                *)
NotedMutantNothing(w) == w
Noted(w) == [w EXCEPT !.draft = "recovery"]

(* sendChat's and submitMessage's catch.  When the session changed under it *)
(* submitMessage returns with the draft in no one's hands but the           *)
(* workflow's.  A newer release refreshes the page unless its work forbids. *)
SendFails(r, w) ==
  LET doubtful == w.doubt # None /\ r = "auth"
      out == ~doubtful /\ NotSent(r, w)
      p == IF out THEN [page EXCEPT !.pending = FALSE] ELSE page
      restored == [p EXCEPT !.composer = w.text]
      locked == [w EXCEPT !.draft = "locked"] IN
  \/ ~Owned /\ Rests(p, w) /\ UNCHANGED current
  \/ /\ Owned /\ r = "release"
     /\ Rests(restored, w) /\ current' \in {current, TRUE}
  \/ /\ Owned /\ r # "release" /\ UNCHANGED current
     /\ \/ doubtful /\ Rests(SignedOut(restored, TRUE, None), locked)
        \/ ~doubtful /\ out /\ Rests(IF r = "auth" THEN SignedOut(restored, FALSE, None) ELSE restored, w)
        \/ ~doubtful /\ ~out /\ ~w.sent /\ Rests(restored, locked)
        \/ ~doubtful /\ ~out /\ w.sent /\ Rests(p, Noted(w))

(* resume's catch, with releaseRejectedChatWorkflow: a definite refusal     *)
(* gives back the draft the workflow holds, if it holds one.  A refresh for *)
(* a newer release is refused while the send is pending.                    *)
ResumeFails(r, w) ==
  LET released == [page EXCEPT !.pending = FALSE,
                               !.composer = IF w.draft = None THEN @ ELSE w.text]
      bare == [w EXCEPT !.draft = None] IN
  /\ UNCHANGED current
  /\ \/ r \notin {"auth", "reject"} /\ Rests(page, w)
     \/ r = "auth" /\ w.doubt # None /\ page.pending /\ Rests(SignedOut(page, TRUE, None), w)
     \/ r = "auth" /\ w.doubt = None /\ page.pending /\ Rests(SignedOut(released, FALSE, None), bare)
     \/ r = "reject" /\ page.pending /\ Rests(released, bare)
     \/ r \in {"auth", "reject"} /\ ~page.pending /\ Rests(page, w)

GivesBack == page.pending /\ ~page'.pending /\ ~page'.kept /\ page'.composer = work.text

Throw(r, w) ==
  /\ IF flow.by = "send" THEN SendFails(r, w) ELSE ResumeFails(r, w)
  /\ seen' = IF GivesBack THEN [seen EXCEPT !.denied = @ \cup {work.id}] ELSE seen

-----------------------------------------------------------------------------
(* How the workflow takes an answer.                                        *)

Asks(pc, w) == /\ flow' = [flow EXCEPT !.pc = pc, !.at = "sent"]
               /\ work' = w
               /\ UNCHANGED <<page, current, seen>>

Sure(w) == [w EXCEPT !.doubt = None]
Doubts(w, what) == [w EXCEPT !.doubt = what]

(* exactMutation around thread creation: one retry; a release refusal never *)
(* overrides an earlier ambiguity.                                          *)
ThreadAnswer(r) ==
  \/ /\ r = "ok" /\ Owned
     /\ flow' = [flow EXCEPT !.pc = "run", !.at = "sent"]
     /\ work' = [work EXCEPT !.doubt = None, !.thread = TRUE, !.sent = TRUE]
     /\ page' = [page EXCEPT !.thread = work.id]
     /\ UNCHANGED <<current, seen>>
  \/ r = "ok" /\ ~Owned /\ Throw("stale", Sure(work))
  \/ r = "fault" /\ flow.pc = "thread" /\ Asks("threadAgain", Doubts(work, "thread"))
  \/ r = "fault" /\ flow.pc = "threadAgain" /\ Throw(r, work)
  \/ r = "release" /\ work.doubt # None /\ Throw("fault", work)
  \/ r = "release" /\ work.doubt = None /\ Throw(r, work)
  \/ r = "auth" /\ Throw(r, work)

(* A turn the server has: the page forgets the send and reads its stream.   *)
Accept ==
  /\ work' = None
  /\ page' = [page EXCEPT !.pending = FALSE, !.gen = work.id,
                          !.composer = IF work.draft = "locked" THEN None ELSE @]
  /\ flow' = [flow EXCEPT !.pc = "stream", !.at = None]
  /\ UNCHANGED <<current, seen>>

(* What a refusal by a gate means depends on what was open before it.       *)
FencedMutantForgets(r) == Throw(r, Sure(work))
Fenced(r) == Throw(IF work.doubt = None THEN r ELSE "fault", work)

(* exactRunMutation.  "run" is the dispatch, "runAfterRollout" its retry    *)
(* after the latch, "runAgain" its retry after a lost answer.               *)
RunAnswer(r) ==
  \/ r = "ok" /\ Owned /\ Accept
  \/ r = "ok" /\ ~Owned /\ Throw("stale", Sure(work))
  \/ r \in {"auth", "reject"} /\ Throw(r, work)
  \/ /\ flow.pc = "run"
     /\ \/ r = "release" /\ Fenced(r)
        \/ r = "rollout" /\ Asks("runAfterRollout", work)
        \/ r = "fault" /\ Asks(IF work.text \in Pictured THEN "probe" ELSE "runAgain", Doubts(work, "run"))
  \/ /\ flow.pc = "runAfterRollout"
     /\ \/ r \in {"release", "rollout"} /\ Fenced(r)
        \/ r = "fault" /\ Throw(r, Doubts(work, "run"))
  \/ /\ flow.pc = "runAgain"
     /\ \/ r \in {"release", "rollout"} /\ ~flow.proven /\ Fenced(r)
        \/ r \in {"release", "rollout"} /\ flow.proven /\ Throw(r, Sure(work))
        \/ r = "fault" /\ Throw(r, work)

(* getRunStatus of the send's generation, for a send with images.           *)
ProbeAnswer(r) ==
  \/ r = "ok" /\ Owned /\ Accept
  \/ r = "ok" /\ ~Owned /\ Throw("stale", Sure(work))
  \/ /\ r = "absent"
     /\ flow' = [flow EXCEPT !.pc = "runAgain", !.at = "sent", !.proven = TRUE]
     /\ seen' = [seen EXCEPT !.probed = @ \cup {work.text}]
     /\ UNCHANGED <<work, page, current>>
  \/ r = "auth" /\ Throw(r, work)
  \/ r \in {"release", "fault"} /\ Throw("fault", work)

(* The snapshot a send to an existing conversation fences itself with; with *)
(* a generation running there the send throws a TypeError.                  *)
SnapshotAnswer(r) ==
  LET c == conv[page.thread] IN
  \/ /\ r = "ok" /\ Owned /\ c.live = None
     /\ Asks("run", [work EXCEPT !.to = page.thread, !.base = c.rev, !.thread = TRUE, !.sent = TRUE])
  \/ /\ r = "ok" /\ Owned /\ c.live # None
     /\ Throw("busy", [work EXCEPT !.thread = TRUE])
  \/ r = "ok" /\ ~Owned /\ Throw("stale", work)
  \/ r # "ok" /\ Throw(r, work)

Op(pc) == CASE pc \in {"thread", "threadAgain"} -> "thread"
            [] pc \in {"run", "runAfterRollout", "runAgain"} -> "run"
            [] OTHER -> "read"

Answered(r) == CASE flow.pc \in {"thread", "threadAgain"} -> ThreadAnswer(r)
                 [] flow.pc = "probe" -> ProbeAnswer(r)
                 [] flow.pc = "snapshot" -> SnapshotAnswer(r)
                 [] OTHER -> RunAnswer(r)

-----------------------------------------------------------------------------
(* Steps of a request on the wire.                                          *)

Mishap == mishaps < MaxMishaps /\ mishaps' = mishaps + 1

Waiting == flow.at # None
Mutates == Waiting /\ Op(flow.pc) # "read"

(* A request passes the gates and reaches its handler...                    *)
Arrive ==
  /\ Mutates /\ flow.at = "sent" /\ Gate(Op(flow.pc), flow.cookie) = "open"
  /\ flow' = [flow EXCEPT !.at = "admitted"]
  /\ UNCHANGED <<server, stray, page, work, sends, mishaps, seen>>

(* ... or is refused by one.                                                *)
Refused ==
  /\ Waiting /\ flow.at = "sent" /\ Gate(Op(flow.pc), flow.cookie) # "open"
  /\ Answered(Gate(Op(flow.pc), flow.cookie))
  /\ UNCHANGED <<session, admitting, conv, accepted, stray, sends, mishaps>>

Served ==
  /\ Mutates /\ flow.at = "admitted"
  /\ \E answer \in {"ok", "reject"} :
       Effect(Op(flow.pc), Ticket(work), answer) /\ Answered(answer)
  /\ UNCHANGED <<session, admitting, stray, sends, mishaps>>

(* A read is answered at once.                                              *)
Reads ==
  /\ Waiting /\ ~Mutates /\ Gate("read", flow.cookie) = "open"
  /\ Answered(IF flow.pc = "probe" /\ work.id \notin DOMAIN accepted THEN "absent" ELSE "ok")
  /\ UNCHANGED <<session, admitting, conv, accepted, stray, sends, mishaps>>

(* No usable answer: the request may still be on its way, or be answered    *)
(* with a 5xx after its effect (chat_resume_pending).                       *)
Lose ==
  /\ Waiting /\ Mishap /\ Answered("fault")
  /\ stray' = IF Mutates
              THEN stray \cup {[op |-> Op(flow.pc), at |-> flow.at, cookie |-> flow.cookie, ticket |-> Ticket(work)]}
              ELSE stray
  /\ UNCHANGED <<session, admitting, conv, accepted, sends>>

(* A request nobody waits for.  It stays in the set, which so stands for    *)
(* any number of copies.                                                    *)
StrayArrives ==
  /\ \E q \in stray : /\ q.at = "sent" /\ Gate(q.op, q.cookie) = "open"
                      /\ stray' = stray \cup {[q EXCEPT !.at = "admitted"]}
  /\ UNCHANGED <<server, page, work, flow, sends, mishaps, seen>>

StrayServed ==
  /\ \E q \in stray : q.at = "admitted" /\ Effect(q.op, q.ticket, "ok")
  /\ UNCHANGED <<session, current, admitting, stray, page, work, flow, sends, mishaps, seen>>

-----------------------------------------------------------------------------
(* The user.                                                                *)

Steady == flow = Idle /\ page.signedIn

(* submitMessage: the composer is emptied before the workflow exists, and   *)
(* sendChat throws at once when it knows of a running generation.           *)
Submit(n) ==
  /\ Steady /\ ~page.pending /\ page.back = None
  /\ sends < MaxSends
  /\ IF page.composer = None THEN n \notin seen.typed ELSE n = page.composer
  /\ sends' = sends + 1
  /\ IF page.gen # None
     THEN /\ page' = [page EXCEPT !.composer = None]
          /\ seen' = [seen EXCEPT !.typed = @ \cup {n}, !.barred = @ \cup {n}]
          /\ UNCHANGED <<work, flow>>
     ELSE /\ page' = [page EXCEPT !.composer = None, !.pending = TRUE]
          /\ seen' = [seen EXCEPT !.typed = @ \cup {n}]
          /\ work' = [id |-> sends + 1, text |-> n, own |-> page.thread = None,
                      threadSent |-> page.thread = None, thread |-> FALSE,
                      to |-> IF page.thread = None THEN sends + 1 ELSE None, base |-> 0,
                      sent |-> FALSE, doubt |-> None, draft |-> None]
          /\ flow' = [Idle EXCEPT !.by = "send", !.cookie = page.cookie, !.at = "sent",
                                  !.pc = IF page.thread = None THEN "thread" ELSE "snapshot"]
  /\ UNCHANGED <<server, stray, mishaps>>

(* resume continues a pending send where it stopped.                        *)
Resume ==
  /\ Steady /\ page.pending /\ page.back = None
  /\ LET own == work.own \/ (work.to = None /\ page.thread = None)
         w == [work EXCEPT !.own = own, !.to = IF own THEN work.id ELSE @, !.threadSent = @ \/ own]
         pc == CASE own /\ ~work.thread -> "thread"
                 [] ~own /\ ~work.sent -> "snapshot"
                 [] OTHER -> "run" IN
       /\ work' = w
       /\ flow' = [Idle EXCEPT !.by = "resume", !.cookie = page.cookie, !.at = "sent", !.pc = pc]
  /\ UNCHANGED <<server, stray, page, sends, mishaps, seen>>

(* The first Resume after a sign in that kept a conversation only reads it. *)
Reread ==
  /\ Steady /\ page.back # None
  /\ page' = [page EXCEPT !.back = None, !.thread = page.back, !.gen = conv[page.back].live]
  /\ UNCHANGED <<server, stray, work, flow, sends, mishaps, seen>>

(* Opening a conversation, and New conversation; neither with a send open.  *)
Open(t) ==
  /\ Steady /\ ~page.pending /\ page.back = None /\ page.cookie = session
  /\ t # None => conv[t].made
  /\ page' = [page EXCEPT !.thread = t, !.gen = IF t = None THEN None ELSE conv[t].live]
  /\ UNCHANGED <<server, stray, work, flow, sends, mishaps, seen>>

(* The stream of the accepted turn ends (finishChatGeneration), pauses, or  *)
(* is refused for want of a session; a watched generation ends unattended.  *)
StreamEnds ==
  /\ flow.pc = "stream" /\ flow' = Idle
  /\ \/ page' = IF Owned THEN [page EXCEPT !.gen = None] ELSE page
     \/ page' = page
     \/ Owned /\ page.cookie # session /\ page' = SignedOut(page, FALSE, page.thread)
  /\ UNCHANGED <<server, stray, work, sends, mishaps, seen>>

GenerationEnds ==
  /\ flow = Idle /\ page.gen # None /\ page' = [page EXCEPT !.gen = None]
  /\ UNCHANGED <<server, stray, work, flow, sends, mishaps, seen>>

(* revalidateSessionOnResume on a page whose session is gone: it may sign   *)
(* the page out under a handler that is still waiting.  A stream is aborted.*)
Revalidate ==
  /\ page.signedIn /\ page.cookie # session
  /\ page' = SignedOut(page, page.pending, page.thread)
  /\ flow' = IF flow.pc = "stream" THEN Idle ELSE flow
  /\ seen' = [seen EXCEPT !.revoked = @ \cup (IF page.pending /\ flow # Idle THEN {work.text} ELSE {})]
  /\ UNCHANGED <<server, stray, work, sends, mishaps>>

(* login, then authenticated() with the same account: the kept workflow is  *)
(* pending again, in its own conversation.                                  *)
Login ==
  /\ ~page.signedIn /\ current /\ page.cookie < MaxLogins
  /\ session' = page.cookie + 1
  /\ page' = [page EXCEPT !.signedIn = TRUE, !.cookie = @ + 1, !.pending = page.kept, !.kept = FALSE,
                          !.thread = IF page.kept /\ work.thread THEN work.to ELSE page.back]
  /\ UNCHANGED <<current, admitting, conv, accepted, stray, work, flow, sends, mishaps, seen>>

(* The sign-in page follows a newer release only without a send to protect. *)
RefreshSignedOut ==
  /\ ~page.signedIn /\ ~current /\ ~page.kept /\ flow = Idle
  /\ current' = TRUE
  /\ UNCHANGED <<session, admitting, conv, accepted, stray, page, work, flow, sends, mishaps, seen>>

-----------------------------------------------------------------------------
(* The rest of the world: the session expires, the latch moves, a newer     *)
(* release is deployed, generations end, another page writes.               *)
World ==
  /\ \/ session # None /\ Mishap /\ session' = None /\ UNCHANGED <<current, admitting, conv>>
     \/ current /\ Mishap /\ current' = FALSE /\ UNCHANGED <<session, admitting, conv>>
     \/ admitting /\ Mishap /\ admitting' = FALSE /\ UNCHANGED <<session, current, conv>>
     \/ ~admitting /\ admitting' = TRUE /\ UNCHANGED <<session, current, conv, mishaps>>
     \/ \E t \in DOMAIN conv :
          /\ \/ conv[t].live # None /\ conv' = [conv EXCEPT ![t].live = None, ![t].rev = @ + 1]
               /\ UNCHANGED mishaps
             \/ conv[t].made /\ conv[t].live = None /\ Mishap
               /\ conv' = [conv EXCEPT ![t].rev = @ + 1]
          /\ UNCHANGED <<session, current, admitting>>
  /\ UNCHANGED <<accepted, stray, page, work, flow, sends, seen>>

SendInit ==
  /\ session = 1 /\ current = TRUE /\ admitting = TRUE
  /\ conv = [t \in 0..MaxSends |-> IF t = 0 THEN [NoThread EXCEPT !.made = TRUE] ELSE NoThread]
  /\ accepted = << >> /\ stray = {}
  /\ page \in [signedIn : {TRUE}, cookie : {1}, composer : {None}, thread : {None, 0}, gen : {None},
               pending : {FALSE}, kept : {FALSE}, back : {None}]
  /\ work = None /\ flow = Idle /\ sends = 0 /\ mishaps = 0
  /\ seen = [typed |-> {}, barred |-> {}, denied |-> {}, revoked |-> {}, probed |-> {}]

SendNext ==
  \/ \E n \in Texts : Submit(n)
  \/ Resume \/ Reread \/ \E t \in (DOMAIN conv) \cup {None} : Open(t)
  \/ Arrive \/ Refused \/ Served \/ Reads \/ Lose
  \/ StrayArrives \/ StrayServed
  \/ StreamEnds \/ GenerationEnds \/ Revalidate \/ Login \/ RefreshSignedOut
  \/ World

SendSpec == SendInit /\ [][SendNext]_sendVars

-----------------------------------------------------------------------------
(* The texts of sends the page gave back as not sent that are turns.        *)
Ran == {accepted[k] : k \in seen.denied \cap DOMAIN accepted}

(* What the user typed is a turn once at the most, however often a send is  *)
(* retried, resumed, or given back and submitted again; and a send the page *)
(* gives back as not sent is no turn, then or ever after.  Two cases escape *)
(* the code: a send with images whose status probe was answered 404 while   *)
(* its first request was still on its way (browser-app.js:5212), and a      *)
(* session found revoked while the send was in flight.                      *)
SentOnce ==
  LET escaped == seen.probed \cup seen.revoked IN
  /\ \A n \in Texts \ escaped : Cardinality(Accepted(n)) <= 1
  /\ Ran \subseteq escaped

(* The same of a page whose session was revoked meanwhile: "The message was *)
(* rejected before it ran. Its prompt is ready to edit or retry."           *)
(* (browser-app.js:3739).                                                   *)
RejectedNeverRan == Ran \subseteq seen.probed

Held(n) == \/ page.composer = n
           \/ work # None /\ work.text = n
           \/ Accepted(n) # {}

(* What the user typed is never lost: it is in the composer, in the page's  *)
(* open send, or a turn of the server.  Two cases escape the code: a submit *)
(* in a conversation whose generation still runs (browser-app.js:5412), and *)
(* a session found revoked while the send was in flight.                    *)
WorkIsKept == \A n \in seen.typed \ (seen.barred \cup seen.revoked) : Held(n)
=============================================================================
