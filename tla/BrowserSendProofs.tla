-------------------------- MODULE BrowserSendProofs --------------------------
(***************************************************************************)
(* Proofs about BrowserSend: what the user typed is a turn once at most,   *)
(* a send given back as not sent is no turn, and nothing typed is lost.    *)
(*                                                                         *)
(* A request the page gave up on may be served at any time.  The invariant *)
(* says which of them still can be taken, and that for one text they all   *)
(* belong to one send, the one the page holds.                             *)
(***************************************************************************)
EXTENDS BrowserSend, FiniteSetTheorems, TLAPS

-----------------------------------------------------------------------------
(* Types.                                                                  *)

Trees == 0 .. MaxSends
ThreadPcs == {"thread", "threadAgain"}
RunPcs == {"run", "runAfterRollout", "runAgain"}
WorkPcs == ThreadPcs \cup RunPcs \cup {"probe", "snapshot"}

ConvRow == [rev : Nat, made : BOOLEAN, live : Sends \cup {None}]
TicketRow == [id : Sends, text : Texts, to : Trees \cup {None}, base : Nat]
StrayRow == [op : {"thread", "run"}, at : {"sent", "admitted"}, cookie : Nat \cup {None}, ticket : TicketRow]
PageRow == [signedIn : BOOLEAN, cookie : Nat, composer : Texts \cup {None}, thread : Trees \cup {None},
            gen : Sends \cup {None}, pending : BOOLEAN, kept : BOOLEAN, back : Trees \cup {None}]
FlowRow == [by : {"send", "resume", None}, pc : WorkPcs \cup {"stream", None}, cookie : Nat \cup {None},
            at : {"sent", "admitted", None}, proven : BOOLEAN]
SeenRow == [typed : SUBSET Texts, barred : SUBSET Texts, denied : SUBSET Sends,
            revoked : SUBSET Texts, probed : SUBSET Texts]

ServerTypes ==
  /\ conv \in [Trees -> ConvRow]
  /\ DOMAIN accepted \subseteq Sends /\ accepted \in [DOMAIN accepted -> Texts]
  /\ stray \subseteq StrayRow
  /\ \A t \in Trees : (conv[t].live # None => conv[t].rev > 0) /\ (~conv[t].made => conv[t].rev = 0)

PageTypes ==
  /\ page \in PageRow /\ work \in WorkRow \cup {None} /\ flow \in FlowRow /\ seen \in SeenRow
  /\ sends \in Trees

-----------------------------------------------------------------------------
(* The page: its workflow, the handler and what they say of each other.    *)

Escaped == seen.probed \cup seen.revoked
AtWork == flow.pc \in WorkPcs

FlowFine ==
  /\ flow.pc = None => flow = Idle
  /\ flow.at # None <=> AtWork
  /\ AtWork => /\ work # None /\ flow.by # None /\ flow.cookie \in 0 .. page.cookie
               /\ Owned \/ work.text \in seen.revoked
               /\ flow.by = "send" => page.composer = None
  /\ flow.pc = "stream" => work = None
  /\ AtWork /\ flow.proven => work.text \in seen.probed
  /\ flow.pc = "snapshot" /\ Owned => page.thread # None

PageFine ==
  /\ work # None <=> page.pending \/ page.kept
  /\ page.signedIn => ~page.kept
  /\ ~page.signedIn /\ page.pending => page.kept
  /\ page.composer # None => page.composer \in seen.typed

\* What is fixed of a send, and how far it came.
Core(w) ==
  /\ w.id <= sends /\ w.text \in seen.typed
  /\ w.own => w.to = w.id /\ w.base = 0 /\ w.threadSent
  /\ w.to # None => w.own \/ w.sent
  /\ w.to = None => w.base = 0
  /\ w.sent => w.thread /\ w.to # None
  /\ w.doubt = "run" => w.thread /\ w.to # None
  /\ w.doubt = "thread" => w.own /\ ~w.thread

\* Where its draft is.
Draft(w) ==
  /\ page.composer # None => page.composer = w.text /\ (w.draft = "locked" \/ w.text \in seen.revoked)
  /\ w.draft = None => w.text \in seen.revoked \/ (AtWork /\ flow.by = "send")

\* What its handler waits for.
Stage(w) ==
  /\ flow.pc \in ThreadPcs => w.own /\ ~w.thread
  /\ flow.pc = "threadAgain" => w.doubt # None
  /\ flow.pc = "snapshot" => ~w.own /\ ~w.sent
  /\ flow.pc \in RunPcs \cup {"probe"} => w.to # None /\ w.thread /\ (flow.by = "send" => w.sent)
  /\ flow.pc \in {"probe", "runAgain"} => w.doubt = "run"

WorkFine(w) == Core(w) /\ Draft(w) /\ Stage(w)

PageInv == PageTypes /\ FlowFine /\ PageFine /\ (work # None => WorkFine(work))

-----------------------------------------------------------------------------
(* The server: which tickets can still be taken.                           *)

\* Nothing is under way that would make the thread.
Barren(t) ==
  /\ t <= sends
  /\ \A q \in stray : q.op = "thread" => q.ticket.id # t
  /\ work # None /\ work.id = t => work.thread

ThreadFine(t) == ~conv[t].made => Barren(t)

TicketFine(k) ==
  /\ k.to \in Trees /\ k.base <= conv[k.to].rev
  /\ conv[k.to].rev = k.base => conv[k.to].live = None
  /\ ThreadFine(k.to)

Runs(k) == \E q \in stray : q.op = "run" /\ q.ticket = k

TicketInv ==
  /\ \A q \in stray : q.ticket.id <= sends /\ q.ticket.text \in seen.typed
  /\ \A k \in TicketRow : Runs(k) => TicketFine(k)
  /\ work # None /\ work.thread /\ work.to # None => TicketFine(Ticket(work))
  /\ work # None /\ ~work.own => \A q \in stray : q.op = "thread" => q.ticket.id # work.id
  /\ page.thread # None => ThreadFine(page.thread)
  /\ page.back # None => ThreadFine(page.back)

\* What is known of the send the page holds.
KnownInv ==
  work # None =>
    /\ work.id \in DOMAIN accepted => accepted[work.id] = work.text
    /\ \A q \in stray : q.ticket.id = work.id => q.ticket.text = work.text
    /\ work.text \notin Escaped =>
         /\ work.doubt # "run" => work.id \notin DOMAIN accepted
         /\ \A k \in TicketRow : Runs(k) /\ k.id = work.id => work.doubt = "run" /\ k = Ticket(work)

-----------------------------------------------------------------------------
(* What was typed.                                                         *)

\* The send may be, or become, a turn with this text.
May(k, n) ==
  \/ k \in DOMAIN accepted /\ accepted[k] = n
  \/ \E q \in TicketRow : Runs(q) /\ q.id = k /\ q.text = n /\ Takes(q)
  \/ work # None /\ work.id = k /\ work.text = n

ClaimInv ==
  /\ \A k \in Sends, n \in Texts : May(k, n) => k <= sends /\ n \in seen.typed
  /\ \A n \in Texts \ Escaped : \A k, l \in Sends :
       /\ May(k, n) /\ May(l, n) => k = l
       /\ May(k, n) /\ page.composer = n => work # None /\ work.id = k

DeniedInv ==
  \A k \in seen.denied :
    /\ k <= sends /\ (work # None => work.id # k)
    /\ \A n \in Texts : May(k, n) => n \in Escaped

SendInv == ServerTypes /\ PageInv /\ TicketInv /\ KnownInv /\ ClaimInv /\ DeniedInv /\ WorkIsKept

-----------------------------------------------------------------------------
(* The page.                                                               *)

LEMMA NoneIs ==
  /\ MaxSends \in Nat /\ None \notin Nat /\ None \notin Texts /\ None \notin WorkRow
  /\ None \notin {"send", "resume", "sent", "admitted", "locked", "recovery"}
  /\ None \notin {"thread", "threadAgain", "run", "runAfterRollout", "runAgain", "probe", "snapshot", "stream"}
  /\ None \notin Sends /\ None \notin Trees
BY SendAssumption DEF Sends, Trees

LEMMA IdleRow == Idle \in FlowRow /\ Idle.pc = None /\ Idle.at = None /\ Idle.by = None
BY DEF Idle, FlowRow

\* A handler that ends leaves the page in order.
LEMMA RestsFine ==
  ASSUME PageInv, AtWork, NEW p \in PageRow, NEW w \in WorkRow, Rests(p, w), sends' = sends,
         seen' \in SeenRow, seen'.typed = seen.typed, seen'.revoked = seen.revoked,
         w.text = work.text, Core(w),
         p.signedIn => ~p.kept, ~p.signedIn /\ p.pending => p.kept,
         p.composer \in {None, w.text},
         p.pending \/ p.kept => /\ p.composer # None => w.draft = "locked" \/ w.text \in seen.revoked
                                /\ w.draft = None => w.text \in seen.revoked
  PROVE  PageInv'
<1> USE NoneIs
<1>1. /\ page' = p /\ flow' = Idle /\ work' = IF p.pending \/ p.kept THEN w ELSE None
      /\ w # None
  BY DEF Rests
<1>2. PageTypes'
  BY <1>1, IdleRow DEF PageInv, PageTypes
<1>3. FlowFine'
  BY <1>1, IdleRow DEF FlowFine, AtWork, WorkPcs, ThreadPcs, RunPcs
<1>4. w.text \in seen.typed
  BY DEF Core
<1>5. PageFine'
  BY <1>1, <1>4 DEF PageFine
<1>6. ASSUME p.pending \/ p.kept
      PROVE  WorkFine(w)'
  <2>1. Core(w)'
    BY DEF Core
  <2>2. Draft(w)'
    BY <1>1, <1>6 DEF Draft
  <2>3. Stage(w)'
    BY <1>1, IdleRow DEF Stage, ThreadPcs, RunPcs
  <2> QED BY <2>1, <2>2, <2>3 DEF WorkFine
<1>7. work' # None => WorkFine(work)'
  BY <1>1, <1>6
<1> QED BY <1>2, <1>3, <1>5, <1>7 DEF PageInv

LEMMA SignedOutDrops ==
  ASSUME NEW p \in PageRow, NEW t \in Trees \cup {None}, p.signedIn,
         NEW o, o = SignedOut(p, FALSE, t)
  PROVE  /\ o \in PageRow /\ ~o.pending /\ ~o.kept /\ ~o.signedIn
         /\ o.composer = p.composer /\ o.thread = None /\ o.back = t
BY DEF SignedOut, PageRow

\* What is the case after a failed send: the workflow is kept as it was but for its
\* draft, or it is given up and what it held is in the composer.
Threw(r, w) ==
  /\ seen'.typed = seen.typed /\ seen'.revoked = seen.revoked /\ seen'.probed = seen.probed
  /\ seen'.barred = seen.barred
  /\ IF work' = None
     THEN /\ work.text \in seen.revoked \/ r \in {"reject", "release"} \/ w.doubt # "run"
          /\ page'.composer = work.text \/ work.text \in seen.revoked
          /\ seen'.denied \subseteq seen.denied \cup {work.id}
     ELSE /\ work' \in WorkRow /\ \E d : work' = [w EXCEPT !.draft = d]
          /\ seen'.denied = seen.denied
  /\ page'.composer \in {page.composer, work.text}
  /\ page'.thread \in {page.thread, None} /\ page'.back \in {page.back, None}

LEMMA PageIs ==
  ASSUME PageInv
  PROVE  /\ page \in PageRow /\ page.signedIn \in BOOLEAN /\ page.pending \in BOOLEAN /\ page.kept \in BOOLEAN
         /\ page.composer \in Texts \cup {None} /\ page.thread \in Trees \cup {None}
         /\ page.back \in Trees \cup {None} /\ page.cookie \in Nat /\ page.gen \in Sends \cup {None}
         /\ seen \in SeenRow /\ flow \in FlowRow /\ work \in WorkRow \cup {None}
BY DEF PageInv, PageTypes, PageRow

LEMMA WorkIs ==
  ASSUME PageInv, work # None
  PROVE  /\ work \in WorkRow /\ work.id \in Sends /\ work.text \in Texts /\ work.base \in Nat
         /\ work.to \in Trees \cup {None} /\ work.own \in BOOLEAN /\ work.thread \in BOOLEAN
         /\ work.sent \in BOOLEAN /\ work.threadSent \in BOOLEAN
         /\ work.doubt \in {None, "thread", "run"} /\ work.draft \in {None, "recovery", "locked"}
         /\ Core(work) /\ Draft(work) /\ Stage(work)
BY DEF PageInv, PageTypes, WorkRow, Trees, WorkFine

LEMMA SeenGrows ==
  ASSUME PageInv, AtWork, NEW r, NEW w, Throw(r, w)
  PROVE  /\ seen' \in SeenRow /\ seen'.typed = seen.typed /\ seen'.revoked = seen.revoked
         /\ seen'.probed = seen.probed /\ seen'.barred = seen.barred
         /\ seen'.denied \subseteq seen.denied \cup {work.id}
         /\ page'.pending \/ page'.kept => seen'.denied = seen.denied
<1> PICK k : k = work.id
  OBVIOUS
<1>1. k \in Sends /\ seen \in SeenRow
  BY PageIs, WorkIs DEF PageInv, FlowFine
<1>2. seen' = IF GivesBack THEN [seen EXCEPT !.denied = @ \cup {k}] ELSE seen
  BY DEF Throw
<1>3. CASE GivesBack
  <2>1. /\ [seen EXCEPT !.denied = @ \cup {k}] \in SeenRow
        /\ [seen EXCEPT !.denied = @ \cup {k}].typed = seen.typed
        /\ [seen EXCEPT !.denied = @ \cup {k}].revoked = seen.revoked
        /\ [seen EXCEPT !.denied = @ \cup {k}].probed = seen.probed
        /\ [seen EXCEPT !.denied = @ \cup {k}].barred = seen.barred
        /\ [seen EXCEPT !.denied = @ \cup {k}].denied = seen.denied \cup {k}
    BY <1>1 DEF SeenRow
  <2>2. ~page'.pending /\ ~page'.kept
    BY <1>3 DEF GivesBack
  <2> QED BY <1>2, <1>3, <2>1, <2>2
<1>4. CASE ~GivesBack
  BY <1>1, <1>2, <1>4
<1> QED BY <1>3, <1>4

\* A page whose composer and pending flag are set anew.
LEMMA PageSet ==
  ASSUME NEW p \in PageRow, NEW b \in BOOLEAN, NEW c \in Texts \cup {None}
  PROVE  /\ [p EXCEPT !.pending = b] \in PageRow /\ [p EXCEPT !.pending = b].pending = b
         /\ [p EXCEPT !.pending = b].kept = p.kept /\ [p EXCEPT !.pending = b].signedIn = p.signedIn
         /\ [p EXCEPT !.pending = b].composer = p.composer /\ [p EXCEPT !.pending = b].thread = p.thread
         /\ [p EXCEPT !.pending = b].back = p.back
         /\ [p EXCEPT !.composer = c] \in PageRow /\ [p EXCEPT !.composer = c].pending = p.pending
         /\ [p EXCEPT !.composer = c].kept = p.kept /\ [p EXCEPT !.composer = c].signedIn = p.signedIn
         /\ [p EXCEPT !.composer = c].composer = c /\ [p EXCEPT !.composer = c].thread = p.thread
         /\ [p EXCEPT !.composer = c].back = p.back
BY DEF PageRow

LEMMA DraftSet ==
  ASSUME NEW w \in WorkRow, NEW d \in {None, "recovery", "locked"}
  PROVE  LET v == [w EXCEPT !.draft = d] IN
         /\ v \in WorkRow /\ v.id = w.id /\ v.text = w.text /\ v.own = w.own /\ v.threadSent = w.threadSent
         /\ v.thread = w.thread /\ v.to = w.to /\ v.base = w.base /\ v.sent = w.sent /\ v.doubt = w.doubt
         /\ v.draft = d /\ (Core(w) => Core(v))
BY DEF WorkRow, Core

\* What the end of a handler comes to, in the shape both catches have.
LEMMA EndFine ==
  ASSUME PageInv, AtWork, NEW r, NEW w \in WorkRow, Throw(r, w), sends' = sends,
         NEW p \in PageRow, NEW d \in {None, "recovery", "locked"}, Rests(p, [w EXCEPT !.draft = d]),
         w.id = work.id, w.text = work.text, Core(w),
         p.signedIn => ~p.kept, ~p.signedIn /\ p.pending => p.kept,
         p.composer \in {None, w.text}, p.composer \in {page.composer, w.text},
         p.thread \in {page.thread, None}, p.back \in {page.back, None},
         p.pending \/ p.kept => /\ p.composer # None => d = "locked" \/ w.text \in seen.revoked
                                /\ d = None => w.text \in seen.revoked,
         ~p.pending /\ ~p.kept => \/ w.text \in seen.revoked
                                  \/ (r \in {"reject", "release"} \/ w.doubt # "run") /\ p.composer = w.text
  PROVE  PageInv' /\ Threw(r, w)
<1> DEFINE v == [w EXCEPT !.draft = d]
<1>1. /\ v \in WorkRow /\ v.text = w.text /\ v.draft = d /\ Core(v)
  BY DraftSet
<1>2. page' = p /\ work' = IF p.pending \/ p.kept THEN v ELSE None
  BY DEF Rests
<1>3. v # None
  BY <1>1, NoneIs
<1>4. \E e : v = [w EXCEPT !.draft = e]
  OBVIOUS
<1> HIDE DEF v
<1>5. Rests(p, v)
  BY DEF v
<1>6. PageInv'
  BY <1>1, <1>5, RestsFine, SeenGrows
<1>7. Threw(r, w)
  BY <1>1, <1>2, <1>3, <1>4, SeenGrows DEF Threw
<1> QED BY <1>6, <1>7

LEMMA SameDraft ==
  ASSUME NEW w \in WorkRow
  PROVE  [w EXCEPT !.draft = w.draft] = w /\ w.draft \in {None, "recovery", "locked"}
BY DEF WorkRow

\* The workflow a handler gives to its catch.
Fails(r, w) ==
  /\ AtWork /\ Throw(r, w) /\ sends' = sends
  /\ w \in WorkRow /\ w.id = work.id /\ w.text = work.text /\ w.own = work.own /\ w.draft = work.draft
  /\ Core(w)
  /\ flow.by = "send" /\ w.own /\ w.thread => w.sent

LEMMA PageNow ==
  ASSUME PageInv, AtWork
  PROVE  /\ work # None /\ work \in WorkRow /\ page \in PageRow
         /\ Owned \/ work.text \in seen.revoked
         /\ Owned => page.signedIn /\ page.pending /\ ~page.kept
         /\ page.pending \/ page.kept
         /\ page.signedIn => ~page.kept
         /\ ~page.signedIn /\ page.pending => page.kept
         /\ page.composer \in {None, work.text}
         /\ flow.by \in {"send", "resume"}
         /\ flow.by = "send" => page.composer = None
         /\ page.composer # None => work.draft = "locked" \/ work.text \in seen.revoked
         /\ work.draft = None => work.text \in seen.revoked \/ flow.by = "send"
<1> USE NoneIs
<1>1. work # None
  BY DEF PageInv, FlowFine
<1>2. flow \in FlowRow
  BY PageIs
<1>3. flow.by \in {"send", "resume"}
  BY <1>2 DEF PageInv, FlowFine, FlowRow
<1> QED BY <1>1, <1>3, PageIs, WorkIs DEF PageInv, FlowFine, PageFine, Draft, Owned

LEMMA SendFailsFine ==
  ASSUME PageInv, NEW r, NEW w, Fails(r, w), flow.by = "send"
  PROVE  PageInv' /\ Threw(r, w)
<1> USE NoneIs
<1> DEFINE doubtful == w.doubt # None /\ r = "auth"
           out == ~doubtful /\ NotSent(r, w)
           p == IF out THEN [page EXCEPT !.pending = FALSE] ELSE page
           restored == [p EXCEPT !.composer = w.text]
<1>1. /\ AtWork /\ Throw(r, w) /\ sends' = sends /\ w \in WorkRow /\ w.id = work.id /\ w.text = work.text
      /\ w.draft = work.draft /\ Core(w) /\ (w.own /\ w.thread => w.sent)
  BY DEF Fails
<1>2. /\ p \in PageRow /\ p.pending = (IF out THEN FALSE ELSE page.pending) /\ p.kept = page.kept
      /\ p.signedIn = page.signedIn /\ p.composer = page.composer /\ p.thread = page.thread
      /\ p.back = page.back
  <2>1. /\ page \in PageRow /\ [page EXCEPT !.pending = FALSE] \in PageRow
        /\ [page EXCEPT !.pending = FALSE].pending = FALSE
        /\ [page EXCEPT !.pending = FALSE].kept = page.kept
        /\ [page EXCEPT !.pending = FALSE].signedIn = page.signedIn
        /\ [page EXCEPT !.pending = FALSE].composer = page.composer
        /\ [page EXCEPT !.pending = FALSE].thread = page.thread
        /\ [page EXCEPT !.pending = FALSE].back = page.back
    BY PageIs DEF PageRow
  <2> HIDE DEF out
  <2> QED BY <2>1
<1>3. /\ restored \in PageRow /\ restored.pending = p.pending /\ restored.kept = page.kept
      /\ restored.signedIn = page.signedIn /\ restored.composer = w.text /\ restored.thread = page.thread
      /\ restored.back = page.back
  <2>1. w.text \in Texts
    BY <1>1, WorkIs, PageNow
  <2> HIDE DEF p
  <2>2. p \in PageRow
    BY <1>2
  <2>3. /\ [p EXCEPT !.composer = w.text] \in PageRow
        /\ [p EXCEPT !.composer = w.text].pending = p.pending
        /\ [p EXCEPT !.composer = w.text].kept = p.kept
        /\ [p EXCEPT !.composer = w.text].signedIn = p.signedIn
        /\ [p EXCEPT !.composer = w.text].composer = w.text
        /\ [p EXCEPT !.composer = w.text].thread = p.thread
        /\ [p EXCEPT !.composer = w.text].back = p.back
    <3> HIDE DEF p
    <3> QED BY <2>1, <2>2 DEF PageRow
  <2> HIDE DEF p
  <2> QED BY <1>2, <2>3
<1>4. SendFails(r, w)
  BY <1>1 DEF Throw
<1>5. w.doubt = "run" => w.sent
  BY <1>1 DEF Core
<1> HIDE DEF p, restored
<1>6. CASE ~Owned
  <2>1. Rests(p, w)
    BY <1>4, <1>6 DEF SendFails, p
  <2>2. Rests(p, [w EXCEPT !.draft = w.draft]) /\ w.draft \in {None, "recovery", "locked"}
    BY <1>1, <2>1, SameDraft
  <2> QED BY <1>1, <1>2, <1>6, <2>2, PageNow, EndFine
<1>7. CASE Owned /\ r = "release"
  <2>1. Rests(restored, w) /\ out
    BY <1>4, <1>7 DEF SendFails, restored, p, NotSent, Definite
  <2>2. Rests(restored, [w EXCEPT !.draft = w.draft]) /\ w.draft \in {None, "recovery", "locked"}
    BY <1>1, <2>1, SameDraft
  <2> QED BY <1>1, <1>2, <1>3, <1>7, <2>1, <2>2, PageNow, EndFine
<1>8. CASE Owned /\ doubtful
  <2>1. Rests(SignedOut(restored, TRUE, None), [w EXCEPT !.draft = "locked"])
    BY <1>4, <1>8 DEF SendFails, restored, p
  <2>a. PICK o : o = SignedOut(restored, TRUE, None)
    OBVIOUS
  <2>2. /\ o \in PageRow /\ o.kept /\ ~o.signedIn /\ o.composer = w.text /\ o.thread = None /\ o.back = None
    BY <2>a, <1>3, <1>8, <1>1, PageNow, NoneIs DEF SignedOut, PageRow
  <2>3. Rests(o, [w EXCEPT !.draft = "locked"])
    BY <2>a, <2>1
  <2> QED BY <1>1, <2>2, <2>3, EndFine
<1>9. CASE Owned /\ r # "release" /\ ~doubtful /\ out
  <2>1. Rests(IF r = "auth" THEN SignedOut(restored, FALSE, None) ELSE restored, w)
    BY <1>4, <1>9 DEF SendFails, restored, p
  <2>2. Rests(IF r = "auth" THEN SignedOut(restored, FALSE, None) ELSE restored, [w EXCEPT !.draft = w.draft])
        /\ w.draft \in {None, "recovery", "locked"}
    BY <1>1, <2>1, SameDraft
  <2>3. r = "reject" \/ w.doubt # "run"
    BY <1>5, <1>9 DEF NotSent, Definite
  <2>4. CASE r = "auth"
    <3>a. PICK o : o = SignedOut(restored, FALSE, None)
      OBVIOUS
    <3>1. /\ o \in PageRow /\ ~o.kept /\ ~o.pending /\ ~o.signedIn /\ o.composer = w.text
          /\ o.thread = None /\ o.back = None
      BY <3>a, <1>3, <1>9, <1>1, PageNow, NoneIs DEF SignedOut, PageRow
    <3>2. Rests(o, [w EXCEPT !.draft = w.draft])
      BY <3>a, <2>2, <2>4
    <3> QED BY <1>1, <2>2, <2>3, <3>1, <3>2, EndFine
  <2>5. CASE r # "auth"
    BY <1>1, <1>2, <1>3, <1>9, <2>2, <2>3, <2>5, PageNow, EndFine
  <2> QED BY <2>4, <2>5
<1>10. CASE Owned /\ r # "release" /\ ~doubtful /\ ~out /\ ~w.sent
  <2>1. Rests(restored, [w EXCEPT !.draft = "locked"])
    BY <1>4, <1>10 DEF SendFails, restored, p
  <2> QED BY <1>1, <1>2, <1>3, <1>10, <2>1, PageNow, EndFine
<1>11. CASE Owned /\ r # "release" /\ ~doubtful /\ ~out /\ w.sent
  <2>1. Rests(p, [w EXCEPT !.draft = "recovery"])
    BY <1>4, <1>11 DEF SendFails, p, Noted
  <2> QED BY <1>1, <1>2, <1>11, <2>1, PageNow, EndFine
<1> QED BY <1>6, <1>7, <1>8, <1>9, <1>10, <1>11

LEMMA ResumeFailsFine ==
  ASSUME PageInv, NEW r, NEW w, Fails(r, w), flow.by # "send"
  PROVE  PageInv' /\ Threw(r, w)
<1> USE NoneIs
<1> DEFINE p == [page EXCEPT !.pending = FALSE]
           c == IF w.draft = None THEN p.composer ELSE w.text
           released == [page EXCEPT !.pending = FALSE, !.composer = IF w.draft = None THEN @ ELSE w.text]
           bare == [w EXCEPT !.draft = None]
<1>1. /\ AtWork /\ Throw(r, w) /\ sends' = sends /\ w \in WorkRow /\ w.id = work.id /\ w.text = work.text
      /\ w.draft = work.draft /\ Core(w)
  BY DEF Fails
<1>2. w.text \in Texts /\ page.composer \in Texts \cup {None}
  BY <1>1, WorkIs, PageNow, PageIs
<1>3. /\ released \in PageRow /\ ~released.pending /\ released.kept = page.kept
      /\ released.signedIn = page.signedIn /\ released.thread = page.thread /\ released.back = page.back
      /\ released.composer = IF w.draft = None THEN page.composer ELSE w.text
  BY <1>2, PageIs DEF PageRow
<1>4. ResumeFails(r, w)
  BY <1>1 DEF Throw
<1>5. Rests(page, w) => Rests(page, [w EXCEPT !.draft = w.draft]) /\ w.draft \in {None, "recovery", "locked"}
  BY <1>1, SameDraft
<1>5a. w.draft \in {None, "recovery", "locked"} /\ [w EXCEPT !.draft = w.draft] = w
  BY <1>1, SameDraft
<1>6. w.draft = None => w.text \in seen.revoked
  BY <1>1, PageNow
<1> HIDE DEF released
<1>7. CASE r \notin {"auth", "reject"} \/ ~page.pending
  <2>1. Rests(page, w)
    BY <1>4, <1>7 DEF ResumeFails
  <2> QED BY <1>1, <1>5, <1>6, <2>1, PageNow, EndFine
<1>8. CASE r = "auth" /\ w.doubt # None /\ page.pending
  <2>1. Rests(SignedOut(page, TRUE, None), [w EXCEPT !.draft = w.draft])
    BY <1>4, <1>5a, <1>8 DEF ResumeFails
  <2>2. CASE page.signedIn
    <3>1. PICK o : o = SignedOut(page, TRUE, None)
      OBVIOUS
    <3>2. /\ o \in PageRow /\ o.kept /\ o.pending /\ ~o.signedIn
          /\ o.composer = page.composer /\ o.thread = None /\ o.back = None
      BY <3>1, <2>2, <1>1, PageNow, NoneIs DEF SignedOut, PageRow
    <3>3. Rests(o, [w EXCEPT !.draft = w.draft])
      BY <3>1, <2>1
    <3> QED BY <1>1, <1>5a, <1>6, <3>2, <3>3, PageNow, EndFine
  <2>3. CASE ~page.signedIn
    <3>1. SignedOut(page, TRUE, None) = page
      BY <2>3 DEF SignedOut
    <3> QED BY <1>1, <1>5a, <1>6, <1>8, <2>1, <2>3, <3>1, PageNow, EndFine
  <2> QED BY <2>2, <2>3
<1>9. CASE r = "auth" /\ w.doubt = None /\ page.pending
  <2>1. Rests(SignedOut(released, FALSE, None), [w EXCEPT !.draft = None])
    BY <1>4, <1>9 DEF ResumeFails, released
  <2>2. CASE page.signedIn
    <3>a. PICK o : o = SignedOut(released, FALSE, None)
      OBVIOUS
    <3>1. /\ o \in PageRow /\ ~o.kept /\ ~o.pending /\ ~o.signedIn
          /\ o.composer = released.composer /\ o.thread = None /\ o.back = None
      BY <3>a, <1>3, <2>2, <1>1, PageNow, NoneIs DEF SignedOut, PageRow
    <3>2. Rests(o, [w EXCEPT !.draft = None])
      BY <3>a, <2>1
    <3>3. w.text \in seen.revoked \/ o.composer = w.text
      BY <1>3, <1>6, <3>1
    <3> QED BY <1>1, <1>3, <1>6, <1>9, <3>1, <3>2, <3>3, PageNow, EndFine
  <2>3. CASE ~page.signedIn
    <3>1. SignedOut(released, FALSE, None) = released
      BY <1>3, <2>3 DEF SignedOut
    <3> QED BY <1>1, <1>3, <1>6, <1>9, <2>1, <2>3, <3>1, PageNow, EndFine
  <2> QED BY <2>2, <2>3
<1>10. CASE r = "reject" /\ page.pending
  <2>1. Rests(released, [w EXCEPT !.draft = None])
    BY <1>4, <1>10 DEF ResumeFails, released
  <2>2. CASE page.signedIn
    BY <1>1, <1>3, <1>6, <1>10, <2>1, <2>2, PageNow, EndFine
  <2>3. CASE ~page.signedIn
    BY <1>1, <1>3, <1>6, <1>10, <2>1, <2>3, PageNow, EndFine
  <2> QED BY <2>2, <2>3
<1> QED BY <1>7, <1>8, <1>9, <1>10

LEMMA ThrowFine ==
  ASSUME PageInv, NEW r, NEW w, Fails(r, w)
  PROVE  PageInv' /\ Threw(r, w)
BY SendFailsFine, ResumeFailsFine

-----------------------------------------------------------------------------
(* How the workflow takes an answer.                                       *)

LEMMA DoubtSet ==
  ASSUME NEW w \in WorkRow, NEW d \in {None, "thread", "run"}
  PROVE  LET v == [w EXCEPT !.doubt = d] IN
         /\ v \in WorkRow /\ v.id = w.id /\ v.text = w.text /\ v.own = w.own /\ v.threadSent = w.threadSent
         /\ v.thread = w.thread /\ v.to = w.to /\ v.base = w.base /\ v.sent = w.sent /\ v.draft = w.draft
         /\ v.doubt = d
BY DEF WorkRow

LEMMA FlowSet ==
  ASSUME NEW f \in FlowRow, NEW pc \in WorkPcs
  PROVE  /\ [f EXCEPT !.pc = pc, !.at = "sent"] \in FlowRow
         /\ [f EXCEPT !.pc = pc, !.at = "sent"].pc = pc
         /\ [f EXCEPT !.pc = pc, !.at = "sent"].at = "sent"
         /\ [f EXCEPT !.pc = pc, !.at = "sent"].by = f.by
         /\ [f EXCEPT !.pc = pc, !.at = "sent"].cookie = f.cookie
         /\ [f EXCEPT !.pc = pc, !.at = "sent"].proven = f.proven
BY DEF FlowRow, WorkPcs, ThreadPcs, RunPcs

LEMMA FlowIs ==
  ASSUME PageInv, AtWork
  PROVE  /\ flow \in FlowRow /\ flow.pc \in WorkPcs /\ flow.by # None /\ flow.at # None
         /\ flow.proven \in BOOLEAN /\ (flow.proven => work.text \in seen.probed)
         /\ flow.by \in {"send", "resume"}
         /\ flow.pc = "snapshot" /\ Owned => page.thread # None
<1>1. flow \in FlowRow
  BY PageIs
<1>2. flow.proven \in BOOLEAN /\ flow.by \in {"send", "resume", None}
  BY <1>1 DEF FlowRow
<1> QED BY <1>1, <1>2 DEF PageInv, FlowFine, AtWork

\* A handler that goes on to its next request leaves the page in order.
LEMMA GoesOnFine ==
  ASSUME PageInv, AtWork, NEW w \in WorkRow, work' = w, sends' = sends,
         page' \in PageRow, page'.signedIn = page.signedIn, page'.cookie = page.cookie,
         page'.composer = page.composer, page'.pending = page.pending, page'.kept = page.kept,
         seen' \in SeenRow, seen'.typed = seen.typed, seen'.revoked = seen.revoked,
         flow' \in FlowRow, flow'.by = flow.by, flow'.cookie = flow.cookie, flow'.at = "sent",
         flow'.pc \in WorkPcs \ {"snapshot"}, flow'.proven => w.text \in seen'.probed,
         w.text = work.text, w.draft = work.draft, Core(w), Stage(w)'
  PROVE  PageInv'
<1> USE NoneIs
<1>1. w # None /\ AtWork'
  BY DEF AtWork
<1>2. Owned' <=> Owned
  BY DEF Owned
<1>3. PageTypes'
  BY DEF PageInv, PageTypes
<1>4. FlowFine'
  <2>1. flow'.pc # None /\ flow'.pc # "stream" /\ flow'.pc # "snapshot"
    BY DEF WorkPcs, ThreadPcs, RunPcs
  <2>2. flow'.at # None /\ flow'.by # None
    BY FlowIs
  <2>3. /\ Owned \/ w.text \in seen.revoked
        /\ flow.by = "send" => page.composer = None
    BY PageNow
  <2>4. flow'.cookie \in 0 .. page'.cookie
    BY DEF PageInv, FlowFine
  <2> QED BY <1>1, <1>2, <2>1, <2>2, <2>3, <2>4 DEF FlowFine
<1>5. PageFine'
  BY <1>1, PageNow DEF PageInv, PageFine
<1>6. Core(w)'
  BY DEF Core
<1>7. Draft(w)'
  BY <1>1, PageNow, WorkIs DEF Draft
<1> QED BY <1>3, <1>4, <1>5, <1>6, <1>7 DEF PageInv, WorkFine

\* What an answer r can lead to: the send goes on, or waits to be resumed...
Keeps(r) ==
  /\ work' # None /\ work'.id = work.id /\ work'.text = work.text
  /\ (work.thread => work'.thread) /\ (work.own => work'.own)
  /\ work.to # None => work'.to = work.to /\ work'.base = work.base
  /\ work.doubt = "run" => work'.doubt = "run" \/ work.text \in Escaped
  /\ r = "fault" /\ flow.pc \in RunPcs => work'.doubt = "run"
  /\ r = "ok" /\ flow.pc \in RunPcs \cup {"probe"} => work.text \in Escaped
  /\ work'.thread /\ work'.to # None =>
       \/ work.thread /\ work.to # None
       \/ r = "ok" /\ flow.pc \in ThreadPcs /\ work'.to = work.id /\ work'.base = 0
       \/ r = "ok" /\ flow.pc = "snapshot" /\ work'.to = page.thread /\ page.thread # None
          /\ work'.base = conv[page.thread].rev /\ conv[page.thread].live = None
  /\ seen'.denied = seen.denied
  /\ page'.composer \in {page.composer, work.text}

\* ... the server has it, ...
Lands(r) ==
  /\ r = "ok" /\ flow.pc \in RunPcs \cup {"probe"} /\ Owned
  /\ work' = None /\ seen' = seen
  /\ page'.composer # None => page'.composer = work.text /\ work.text \in seen.revoked

\* ... or it is given up.
GivesUp(r) ==
  /\ work' = None /\ seen'.denied \subseteq seen.denied \cup {work.id}
  /\ \/ work.text \in Escaped
     \/ r = "reject" /\ flow.pc \in RunPcs
     \/ work.doubt # "run" /\ ~(r = "fault" /\ flow.pc \in RunPcs)
  /\ r = "ok" /\ flow.pc \in RunPcs \cup {"probe"} => work.text \in Escaped
  /\ page'.composer = work.text \/ work.text \in seen.revoked
  /\ page'.composer \in {page.composer, work.text}

Reacts(r) ==
  /\ seen'.typed = seen.typed /\ seen'.barred = seen.barred /\ seen'.revoked = seen.revoked
  /\ seen'.probed \in {seen.probed, seen.probed \cup {work.text}}
  /\ \/ page'.thread \in {page.thread, None}
     \/ r = "ok" /\ flow.pc \in ThreadPcs /\ page'.thread = work.id
  /\ page'.back \in {page.back, None}
  /\ Keeps(r) \/ Lands(r) \/ GivesUp(r)

\* The workflow w a handler throws with, against the one it had.
Carries(r, w) ==
  /\ work.thread => w.thread
  /\ w.to = work.to /\ w.base = work.base
  /\ work.doubt = "run" => w.doubt = "run" \/ work.text \in Escaped
  /\ r = "fault" /\ flow.pc \in RunPcs => w.doubt = "run"
  /\ r = "ok" /\ flow.pc \in RunPcs \cup {"probe"} => work.text \in seen.revoked
  /\ w.thread /\ w.to # None => work.thread /\ work.to # None

LEMMA ThrowReacts ==
  ASSUME PageInv, AtWork, NEW r, NEW s, NEW w, Fails(s, w), Carries(r, w),
         s = "reject" => r = "reject" /\ flow.pc \in RunPcs,
         s = "release" => w.doubt = None \/ work.text \in Escaped
  PROVE  PageInv' /\ Reacts(r)
<1> USE NoneIs
<1>1. PageInv' /\ Threw(s, w)
  BY ThrowFine
<1>2. w \in WorkRow /\ w.id = work.id /\ w.text = work.text /\ w.own = work.own
  BY DEF Fails
<1>3. CASE work' = None
  <2>1. GivesUp(r)
    BY <1>1, <1>2, <1>3 DEF Threw, GivesUp, Carries, Escaped
  <2> QED BY <1>1, <1>3, <2>1 DEF Threw, Reacts
<1>4. CASE work' # None
  <2>1. PICK d : work' = [w EXCEPT !.draft = d]
    BY <1>1, <1>4 DEF Threw
  <2>2. /\ work'.id = w.id /\ work'.text = w.text /\ work'.thread = w.thread /\ work'.to = w.to
        /\ work'.base = w.base /\ work'.doubt = w.doubt /\ work'.own = w.own
    BY <1>2, <2>1 DEF WorkRow
  <2>3. Keeps(r)
    BY <1>1, <1>2, <1>4, <2>2 DEF Threw, Keeps, Carries, Escaped
  <2> QED BY <1>1, <1>4, <2>3 DEF Threw, Reacts
<1> QED BY <1>3, <1>4

\* A handler throws with its workflow, or with that workflow's doubt set anew.
LEMMA OwnFails ==
  ASSUME PageInv, AtWork, NEW s, Throw(s, work), sends' = sends
  PROVE  Fails(s, work)
<1>1. work # None /\ work \in WorkRow
  BY PageNow
<1>2. flow.by = "send" /\ work.own /\ work.thread => work.sent
  BY <1>1, WorkIs, FlowIs DEF Stage, WorkPcs
<1> QED BY <1>1, <1>2, WorkIs DEF Fails

LEMMA DoubtFails ==
  ASSUME PageInv, AtWork, NEW s, NEW d \in {None, "thread", "run"}, NEW v, v = [work EXCEPT !.doubt = d],
         Throw(s, v), sends' = sends,
         d = "run" => work.thread /\ work.to # None, d = "thread" => work.own /\ ~work.thread
  PROVE  /\ Fails(s, v) /\ v.doubt = d /\ v.thread = work.thread /\ v.to = work.to /\ v.base = work.base
<1>1. work # None /\ work \in WorkRow /\ Core(work)
  BY PageNow, WorkIs
<1>2. flow.by = "send" /\ work.own /\ work.thread => work.sent
  BY <1>1, WorkIs, FlowIs DEF Stage, WorkPcs
<1>3. /\ v \in WorkRow /\ v.id = work.id /\ v.text = work.text /\ v.own = work.own /\ v.threadSent = work.threadSent
      /\ v.thread = work.thread /\ v.to = work.to /\ v.base = work.base /\ v.sent = work.sent
      /\ v.draft = work.draft /\ v.doubt = d
  BY <1>1, DoubtSet
<1>4. Core(v)
  BY <1>1, <1>3, NoneIs DEF Core
<1> QED BY <1>2, <1>3, <1>4 DEF Fails

LEMMA OwnCarries ==
  ASSUME NEW r, r = "fault" => flow.pc \notin RunPcs \/ work.doubt = "run",
         r = "ok" => flow.pc \notin RunPcs \cup {"probe"} \/ work.text \in seen.revoked
  PROVE  Carries(r, work)
BY DEF Carries

\* A handler that asks again.
LEMMA AsksFine ==
  ASSUME PageInv, AtWork, NEW pc \in WorkPcs \ {"snapshot"}, NEW w \in WorkRow, Asks(pc, w), sends' = sends,
         w.text = work.text, w.draft = work.draft, Core(w),
         pc \in ThreadPcs => w.own /\ ~w.thread,
         pc = "threadAgain" => w.doubt # None,
         pc \in RunPcs \cup {"probe"} => w.to # None /\ w.thread /\ (flow.by = "send" => w.sent),
         pc \in {"probe", "runAgain"} => w.doubt = "run"
  PROVE  PageInv' /\ work' = w /\ page' = page /\ seen' = seen
<1>1. work' = w /\ page' = page /\ seen' = seen /\ flow' = [flow EXCEPT !.pc = pc, !.at = "sent"]
  BY DEF Asks
<1>2. /\ flow' \in FlowRow /\ flow'.by = flow.by /\ flow'.cookie = flow.cookie /\ flow'.at = "sent"
      /\ flow'.pc = pc /\ flow'.proven = flow.proven
  BY <1>1, FlowIs, FlowSet
<1>3. Stage(w)'
  BY <1>2 DEF Stage
<1>4. page \in PageRow /\ seen \in SeenRow
  BY PageIs
<1>5. flow'.proven => w.text \in seen'.probed
  BY <1>1, <1>2, FlowIs
<1>6. PageInv'
  BY <1>1, <1>2, <1>3, <1>4, <1>5, GoesOnFine
<1> QED BY <1>1, <1>6

\* The answer to a thread creation.
LEMMA ThreadAnswers ==
  ASSUME PageInv, AtWork, flow.pc \in ThreadPcs, NEW r, ThreadAnswer(r), sends' = sends
  PROVE  PageInv' /\ Reacts(r)
<1> USE NoneIs
<1>1. /\ work # None /\ work \in WorkRow /\ Core(work) /\ Stage(work) /\ work.own /\ ~work.thread
      /\ flow.pc \notin RunPcs \cup {"probe", "snapshot"}
      /\ work.to = work.id /\ work.base = 0 /\ work.id \in Sends /\ work.text \in Texts
  BY PageNow, WorkIs DEF Stage, ThreadPcs, RunPcs, Core
<1>2. page \in PageRow /\ seen \in SeenRow /\ flow \in FlowRow
  BY PageIs
<1>3. Owned \/ work.text \in seen.revoked
  BY PageNow
<1>4. CASE /\ r = "ok" /\ Owned
           /\ flow' = [flow EXCEPT !.pc = "run", !.at = "sent"]
           /\ work' = [work EXCEPT !.doubt = None, !.thread = TRUE, !.sent = TRUE]
           /\ page' = [page EXCEPT !.thread = work.id]
           /\ UNCHANGED <<current, seen>>
  <2>1. PICK w : w = [work EXCEPT !.doubt = None, !.thread = TRUE, !.sent = TRUE]
    OBVIOUS
  <2>2. /\ w \in WorkRow /\ w.id = work.id /\ w.text = work.text /\ w.own /\ w.threadSent = work.threadSent
        /\ w.thread /\ w.sent /\ w.to = work.to /\ w.base = work.base /\ w.draft = work.draft /\ w.doubt = None
    BY <1>1, <2>1 DEF WorkRow
  <2>3. work.id \in Trees
    BY <1>1 DEF Sends, Trees
  <2>4. /\ page' \in PageRow /\ page'.signedIn = page.signedIn /\ page'.cookie = page.cookie
        /\ page'.composer = page.composer /\ page'.pending = page.pending /\ page'.kept = page.kept
        /\ page'.thread = work.id /\ page'.back = page.back
    BY <1>2, <1>4, <2>3 DEF PageRow
  <2>5. /\ flow' \in FlowRow /\ flow'.by = flow.by /\ flow'.cookie = flow.cookie /\ flow'.at = "sent"
        /\ flow'.pc = "run" /\ flow'.proven = flow.proven
    BY <1>2, <1>4 DEF FlowRow, WorkPcs, ThreadPcs, RunPcs
  <2>6. Core(w)
    BY <1>1, <2>2 DEF Core
  <2>7. Stage(w)'
    BY <1>1, <2>2, <2>5 DEF Stage, ThreadPcs, RunPcs
  <2>8. seen' = seen /\ work' = w
    BY <1>4, <2>1
  <2>9. flow'.pc \in WorkPcs \ {"snapshot"}
    BY <2>5 DEF WorkPcs, RunPcs
  <2>10. flow'.proven => w.text \in seen'.probed
    BY <2>2, <2>5, <2>8, FlowIs
  <2>11. PageInv'
    BY <1>2, <2>2, <2>4, <2>5, <2>6, <2>7, <2>8, <2>9, <2>10, GoesOnFine
  <2>12. Keeps(r)
    BY <1>1, <1>4, <2>2, <2>4, <2>8 DEF Keeps, Core, ThreadPcs
  <2> QED BY <1>4, <2>4, <2>8, <2>11, <2>12 DEF Reacts
<1>5. CASE r = "ok" /\ ~Owned /\ Throw("stale", Sure(work))
  <2>1. PICK v : v = [work EXCEPT !.doubt = None]
    OBVIOUS
  <2>2. Throw("stale", v)
    BY <1>5, <2>1 DEF Sure
  <2>3. Fails("stale", v) /\ v.doubt = None /\ v.thread = work.thread /\ v.to = work.to /\ v.base = work.base
    BY <2>1, <2>2, DoubtFails
  <2>4. Carries(r, v)
    BY <1>1, <1>3, <1>5, <2>3 DEF Carries, Escaped
  <2> QED BY <2>3, <2>4, ThrowReacts
<1>6. CASE r = "fault" /\ flow.pc = "thread" /\ Asks("threadAgain", Doubts(work, "thread"))
  <2>1. PICK w : w = [work EXCEPT !.doubt = "thread"]
    OBVIOUS
  <2>2. /\ w \in WorkRow /\ w.id = work.id /\ w.text = work.text /\ w.own = work.own /\ w.threadSent = work.threadSent
        /\ w.thread = work.thread /\ w.sent = work.sent /\ w.to = work.to /\ w.base = work.base
        /\ w.draft = work.draft /\ w.doubt = "thread"
    BY <1>1, <2>1, DoubtSet
  <2>3. Core(w) /\ Asks("threadAgain", w) /\ "threadAgain" \in WorkPcs \ {"snapshot"}
    BY <1>1, <1>6, <2>1, <2>2 DEF Core, Doubts, WorkPcs, ThreadPcs
  <2>4. PageInv' /\ work' = w /\ page' = page /\ seen' = seen
    BY <1>1, <2>2, <2>3, AsksFine DEF RunPcs
  <2>5. Keeps(r)
    BY <1>1, <1>6, <2>2, <2>4 DEF Keeps, Core
  <2> QED BY <2>4, <2>5 DEF Reacts
<1>7. ASSUME NEW s, Throw(s, work), r # "ok", s # "reject", s = "release" => work.doubt = None
      PROVE  PageInv' /\ Reacts(r)
  <2>1. Fails(s, work) /\ Carries(r, work)
    BY <1>1, <1>7, OwnFails, OwnCarries
  <2> QED BY <1>7, <2>1, ThrowReacts
<1>8. CASE r = "fault" /\ flow.pc = "threadAgain" /\ Throw(r, work)
  BY <1>7, <1>8
<1>9. CASE r = "release" /\ work.doubt # None /\ Throw("fault", work)
  BY <1>7, <1>9
<1>10. CASE r = "release" /\ work.doubt = None /\ Throw(r, work)
  BY <1>7, <1>10
<1>11. CASE r = "auth" /\ Throw(r, work)
  BY <1>7, <1>11
<1> QED BY <1>4, <1>5, <1>6, <1>8, <1>9, <1>10, <1>11 DEF ThreadAnswer

\* A turn the server has.
LEMMA AcceptFine ==
  ASSUME PageInv, AtWork, flow.pc \in RunPcs \cup {"probe"}, Owned, Accept, sends' = sends
  PROVE  PageInv' /\ Reacts("ok")
<1> USE NoneIs
<1>1. /\ work # None /\ work \in WorkRow /\ work.id \in Sends /\ work.text \in Texts
      /\ page \in PageRow /\ seen \in SeenRow /\ flow \in FlowRow /\ page.signedIn /\ ~page.kept
      /\ page.composer \in {None, work.text}
      /\ page.composer # None => work.draft = "locked" \/ work.text \in seen.revoked
  BY PageNow, WorkIs, PageIs
<1>2. PICK c : c = IF work.draft = "locked" THEN None ELSE page.composer
  OBVIOUS
<1>3. work' = None /\ seen' = seen /\ flow' = [flow EXCEPT !.pc = "stream", !.at = None]
      /\ page' = [page EXCEPT !.pending = FALSE, !.gen = work.id, !.composer = c]
  BY <1>2 DEF Accept
<1>4. /\ page' \in PageRow /\ ~page'.pending /\ ~page'.kept /\ page'.signedIn /\ page'.composer = c
      /\ page'.thread = page.thread /\ page'.back = page.back
  BY <1>1, <1>2, <1>3 DEF PageRow
<1>5. flow' \in FlowRow /\ flow'.pc = "stream" /\ flow'.at = None
  BY <1>1, <1>3 DEF FlowRow
<1>6. c # None => c = work.text /\ work.text \in seen.revoked
  BY <1>1, <1>2
<1>7. PageTypes'
  BY <1>1, <1>3, <1>4, <1>5 DEF PageInv, PageTypes
<1>8. FlowFine'
  BY <1>3, <1>5 DEF FlowFine, AtWork, WorkPcs, ThreadPcs, RunPcs
<1>9. PageFine'
  BY <1>1, <1>3, <1>4, <1>6, WorkIs DEF PageFine, Core
<1>10. Lands("ok")
  BY <1>3, <1>4, <1>6 DEF Lands
<1>11. Reacts("ok")
  BY <1>3, <1>4, <1>10 DEF Reacts
<1> QED BY <1>3, <1>7, <1>8, <1>9, <1>11 DEF PageInv

\* A handler that throws with its own workflow.
LEMMA OwnThrows ==
  ASSUME PageInv, AtWork, NEW r, NEW s, Throw(s, work), sends' = sends,
         r = "fault" => flow.pc \notin RunPcs \/ work.doubt = "run",
         r = "ok" => flow.pc \notin RunPcs \cup {"probe"} \/ work.text \in seen.revoked,
         s = "reject" => r = "reject" /\ flow.pc \in RunPcs,
         s = "release" => work.doubt = None \/ work.text \in Escaped
  PROVE  PageInv' /\ Reacts(r)
<1>1. Fails(s, work) /\ Carries(r, work)
  BY OwnFails, OwnCarries
<1> QED BY <1>1, ThrowReacts

\* One that throws without its doubt, of a text that escapes, ...
LEMMA SureThrows ==
  ASSUME PageInv, AtWork, NEW r, NEW s, Throw(s, Sure(work)), sends' = sends,
         flow.pc \in RunPcs \cup {"probe"}, r # "fault", work.text \in Escaped,
         r = "ok" => work.text \in seen.revoked, s # "reject"
  PROVE  PageInv' /\ Reacts(r)
<1> USE NoneIs
<1>1. work # None /\ work \in WorkRow /\ Core(work) /\ Stage(work)
  BY PageNow, WorkIs
<1>2. PICK v : v = [work EXCEPT !.doubt = None]
  OBVIOUS
<1>3. Throw(s, v)
  BY <1>2 DEF Sure
<1>4. Fails(s, v) /\ v.doubt = None /\ v.thread = work.thread /\ v.to = work.to /\ v.base = work.base
  BY <1>2, <1>3, DoubtFails
<1>5. Carries(r, v)
  BY <1>4 DEF Carries
<1> QED BY <1>4, <1>5, ThrowReacts

\* ... or with a run in doubt.
LEMMA DoubtThrows ==
  ASSUME PageInv, AtWork, Throw("fault", Doubts(work, "run")), sends' = sends, flow.pc \in RunPcs
  PROVE  PageInv' /\ Reacts("fault")
<1> USE NoneIs
<1>1. work # None /\ work.to # None /\ work.thread
  BY PageNow, WorkIs DEF Stage
<1>2. PICK v : v = [work EXCEPT !.doubt = "run"]
  OBVIOUS
<1>3. Throw("fault", v)
  BY <1>2 DEF Doubts
<1>4. Fails("fault", v) /\ v.doubt = "run" /\ v.thread = work.thread /\ v.to = work.to /\ v.base = work.base
  BY <1>1, <1>2, <1>3, DoubtFails
<1>5. Carries("fault", v)
  BY <1>1, <1>4 DEF Carries
<1> QED BY <1>4, <1>5, ThrowReacts

LEMMA FencedReacts ==
  ASSUME PageInv, AtWork, NEW r \in {"release", "rollout"}, Fenced(r), sends' = sends
  PROVE  PageInv' /\ Reacts(r)
<1>1. CASE work.doubt = None
  BY <1>1, OwnThrows DEF Fenced
<1>2. CASE work.doubt # None
  BY <1>2, OwnThrows DEF Fenced
<1> QED BY <1>1, <1>2

\* The answer to a run.
LEMMA RunAnswers ==
  ASSUME PageInv, AtWork, flow.pc \in RunPcs, NEW r, RunAnswer(r), sends' = sends
  PROVE  PageInv' /\ Reacts(r)
<1> USE NoneIs
<1>1. /\ work # None /\ work \in WorkRow /\ Core(work) /\ Stage(work)
      /\ work.to # None /\ work.thread /\ (flow.by = "send" => work.sent)
  BY PageNow, WorkIs DEF Stage
<1>2. Owned \/ work.text \in seen.revoked
  BY PageNow
<1>3. CASE r = "ok" /\ Owned /\ Accept
  BY <1>3, AcceptFine
<1>4. CASE r = "ok" /\ ~Owned /\ Throw("stale", Sure(work))
  BY <1>2, <1>4, SureThrows DEF Escaped
<1>5. CASE r \in {"auth", "reject"} /\ Throw(r, work)
  BY <1>5, OwnThrows
<1>6. CASE flow.pc = "run" /\ r = "release" /\ Fenced(r)
  BY <1>6, FencedReacts
<1>7. CASE flow.pc = "run" /\ r = "rollout" /\ Asks("runAfterRollout", work)
  <2>1. "runAfterRollout" \in WorkPcs \ {"snapshot"} /\ "runAfterRollout" \notin ThreadPcs
    BY DEF WorkPcs, ThreadPcs, RunPcs
  <2>2. PageInv' /\ work' = work /\ page' = page /\ seen' = seen
    BY <1>1, <1>7, <2>1, AsksFine
  <2>3. Keeps(r)
    BY <1>1, <1>7, <2>2 DEF Keeps
  <2> QED BY <2>2, <2>3 DEF Reacts
<1>8. CASE /\ flow.pc = "run" /\ r = "fault"
           /\ Asks(IF work.text \in Pictured THEN "probe" ELSE "runAgain", Doubts(work, "run"))
  <2>1. PICK pc : pc = IF work.text \in Pictured THEN "probe" ELSE "runAgain"
    OBVIOUS
  <2>2. pc \in WorkPcs \ {"snapshot"} /\ pc \notin ThreadPcs
    BY <2>1 DEF WorkPcs, ThreadPcs, RunPcs
  <2>3. PICK w : w = [work EXCEPT !.doubt = "run"]
    OBVIOUS
  <2>4. /\ w \in WorkRow /\ w.id = work.id /\ w.text = work.text /\ w.own = work.own /\ w.threadSent = work.threadSent
        /\ w.thread = work.thread /\ w.sent = work.sent /\ w.to = work.to /\ w.base = work.base
        /\ w.draft = work.draft /\ w.doubt = "run"
    BY <1>1, <2>3, DoubtSet
  <2>5. Asks(pc, w)
    BY <1>8, <2>1, <2>3 DEF Doubts
  <2>6. Core(w)
    BY <1>1, <2>4 DEF Core
  <2>7. PageInv' /\ work' = w /\ page' = page /\ seen' = seen
    BY <1>1, <2>2, <2>4, <2>5, <2>6, AsksFine
  <2>8. Keeps(r)
    BY <1>1, <1>8, <2>4, <2>7 DEF Keeps
  <2> QED BY <2>7, <2>8 DEF Reacts
<1>9. CASE flow.pc = "runAfterRollout" /\ r \in {"release", "rollout"} /\ Fenced(r)
  BY <1>9, FencedReacts
<1>10. CASE flow.pc = "runAfterRollout" /\ r = "fault" /\ Throw(r, Doubts(work, "run"))
  BY <1>10, DoubtThrows
<1>11. CASE flow.pc = "runAgain" /\ r \in {"release", "rollout"} /\ ~flow.proven /\ Fenced(r)
  BY <1>11, FencedReacts
<1>12. CASE flow.pc = "runAgain" /\ r \in {"release", "rollout"} /\ flow.proven /\ Throw(r, Sure(work))
  BY <1>12, SureThrows, FlowIs DEF Escaped
<1>13. CASE flow.pc = "runAgain" /\ r = "fault" /\ Throw(r, work)
  <2>1. work.doubt = "run"
    BY <1>1, <1>13 DEF Stage
  <2> QED BY <1>13, <2>1, OwnThrows
<1> QED BY <1>3, <1>4, <1>5, <1>6, <1>7, <1>8, <1>9, <1>10, <1>11, <1>12, <1>13 DEF RunAnswer

\* The answer to a status probe.
LEMMA ProbeAnswers ==
  ASSUME PageInv, AtWork, flow.pc = "probe", NEW r, ProbeAnswer(r), sends' = sends
  PROVE  PageInv' /\ Reacts(r)
<1> USE NoneIs
<1>1. /\ work # None /\ work \in WorkRow /\ work.text \in Texts /\ Core(work) /\ Stage(work)
      /\ work.to # None /\ work.thread /\ (flow.by = "send" => work.sent) /\ work.doubt = "run"
  BY PageNow, WorkIs DEF Stage
<1>2. (Owned \/ work.text \in seen.revoked) /\ flow.pc \notin RunPcs
  BY PageNow DEF RunPcs
<1>3. CASE r = "ok" /\ Owned /\ Accept
  BY <1>3, AcceptFine
<1>4. CASE r = "ok" /\ ~Owned /\ Throw("stale", Sure(work))
  BY <1>2, <1>4, SureThrows DEF Escaped
<1>5. CASE /\ r = "absent"
           /\ flow' = [flow EXCEPT !.pc = "runAgain", !.at = "sent", !.proven = TRUE]
           /\ seen' = [seen EXCEPT !.probed = @ \cup {work.text}]
           /\ UNCHANGED <<work, page, current>>
  <2>1. page \in PageRow /\ seen \in SeenRow /\ flow \in FlowRow
    BY PageIs
  <2>2. /\ flow' \in FlowRow /\ flow'.by = flow.by /\ flow'.cookie = flow.cookie /\ flow'.at = "sent"
        /\ flow'.pc = "runAgain"
    BY <1>5, <2>1 DEF FlowRow, WorkPcs, RunPcs
  <2>3. /\ seen' \in SeenRow /\ seen'.typed = seen.typed /\ seen'.revoked = seen.revoked
        /\ seen'.probed = seen.probed \cup {work.text} /\ seen'.barred = seen.barred /\ seen'.denied = seen.denied
    BY <1>1, <1>5, <2>1 DEF SeenRow
  <2>4. flow'.pc \in WorkPcs \ {"snapshot"} /\ Stage(work)'
    BY <1>1, <1>5, <2>2 DEF WorkPcs, RunPcs, ThreadPcs, Stage
  <2>5. work' = work /\ page' = page
    BY <1>5
  <2>6. PICK w : w = work
    OBVIOUS
  <2>7. Stage(w)'
    BY <1>1, <2>2, <2>6 DEF Stage, RunPcs, ThreadPcs
  <2>8. PageInv'
    BY <1>1, <2>1, <2>2, <2>3, <2>4, <2>5, <2>6, <2>7, GoesOnFine
  <2>9. Keeps(r)
    BY <1>1, <1>2, <1>5, <2>3, <2>5 DEF Keeps
  <2> QED BY <2>3, <2>5, <2>8, <2>9 DEF Reacts
<1>6. CASE r = "auth" /\ Throw(r, work)
  BY <1>2, <1>6, OwnThrows
<1>7. CASE r \in {"release", "fault"} /\ Throw("fault", work)
  BY <1>2, <1>7, OwnThrows
<1> QED BY <1>3, <1>4, <1>5, <1>6, <1>7 DEF ProbeAnswer

\* The answer to the snapshot of the conversation a send continues.
LEMMA SnapshotAnswers ==
  ASSUME ServerTypes, PageInv, AtWork, flow.pc = "snapshot", NEW r, r # "reject", SnapshotAnswer(r), sends' = sends
  PROVE  PageInv' /\ Reacts(r)
<1> USE NoneIs
<1>1. /\ work # None /\ work \in WorkRow /\ Core(work) /\ ~work.own /\ ~work.sent /\ work.to = None
      /\ work.doubt = None
  <2>1. work # None /\ work \in WorkRow /\ Core(work) /\ Stage(work)
    BY PageNow, WorkIs
  <2>2. ~work.own /\ ~work.sent
    BY <2>1 DEF Stage
  <2>3. work.doubt \in {None, "thread", "run"}
    BY <2>1 DEF WorkRow
  <2> QED BY <2>1, <2>2, <2>3 DEF Core
<1>2. (Owned \/ work.text \in seen.revoked) /\ flow.pc \notin RunPcs \cup {"probe"} \cup ThreadPcs
  BY PageNow DEF RunPcs, ThreadPcs
<1>3. CASE /\ r = "ok" /\ Owned /\ conv[page.thread].live = None
           /\ Asks("run", [work EXCEPT !.to = page.thread, !.base = conv[page.thread].rev, !.thread = TRUE, !.sent = TRUE])
  <2>1. PICK t, b : t = page.thread /\ b = conv[page.thread].rev
    OBVIOUS
  <2>2. t \in Trees /\ b \in Nat
    <3>1. t \in Trees
      BY <1>3, <2>1, FlowIs, PageIs
    <3> QED BY <2>1, <3>1 DEF ServerTypes, ConvRow
  <2>3. PICK w : w = [work EXCEPT !.to = t, !.base = b, !.thread = TRUE, !.sent = TRUE]
    OBVIOUS
  <2>4. /\ w \in WorkRow /\ w.id = work.id /\ w.text = work.text /\ w.own = work.own /\ w.threadSent = work.threadSent
        /\ w.thread /\ w.sent /\ w.to = t /\ w.base = b /\ w.draft = work.draft /\ w.doubt = work.doubt
    BY <1>1, <2>2, <2>3 DEF WorkRow, Trees
  <2>5. Core(w)
    BY <1>1, <2>2, <2>4 DEF Core
  <2>6. "run" \in WorkPcs \ {"snapshot"} /\ "run" \notin ThreadPcs /\ Asks("run", w)
    BY <1>3, <2>1, <2>3 DEF WorkPcs, ThreadPcs, RunPcs
  <2>7. PageInv' /\ work' = w /\ page' = page /\ seen' = seen
    BY <2>2, <2>4, <2>5, <2>6, AsksFine
  <2>8. Keeps(r)
    BY <1>1, <1>2, <1>3, <2>1, <2>2, <2>4, <2>7 DEF Keeps
  <2> QED BY <2>7, <2>8 DEF Reacts
<1>4. CASE r = "ok" /\ Owned /\ conv[page.thread].live # None /\ Throw("busy", [work EXCEPT !.thread = TRUE])
  <2>1. PICK w : w = [work EXCEPT !.thread = TRUE]
    OBVIOUS
  <2>2. /\ w \in WorkRow /\ w.id = work.id /\ w.text = work.text /\ w.own = work.own /\ w.threadSent = work.threadSent
        /\ w.thread /\ w.sent = work.sent /\ w.to = work.to /\ w.base = work.base /\ w.draft = work.draft
        /\ w.doubt = work.doubt
    BY <1>1, <2>1 DEF WorkRow
  <2>3. Core(w) /\ Throw("busy", w)
    BY <1>1, <1>4, <2>1, <2>2 DEF Core
  <2>4. Fails("busy", w)
    BY <1>1, <2>2, <2>3 DEF Fails
  <2>5. Carries(r, w)
    BY <1>1, <1>2, <2>2 DEF Carries
  <2> QED BY <2>4, <2>5, ThrowReacts
<1>5. CASE r = "ok" /\ ~Owned /\ Throw("stale", work)
  BY <1>2, <1>5, OwnThrows
<1>6. CASE r # "ok" /\ Throw(r, work)
  BY <1>1, <1>2, <1>6, OwnThrows
<1> QED BY <1>3, <1>4, <1>5, <1>6 DEF SnapshotAnswer

LEMMA PcIs ==
  ASSUME NEW pc \in WorkPcs
  PROVE  /\ pc \in ThreadPcs <=> pc \in {"thread", "threadAgain"}
         /\ pc \in ThreadPcs => Op(pc) = "thread"
         /\ pc \in RunPcs => Op(pc) = "run"
         /\ pc \in {"probe", "snapshot"} => Op(pc) = "read"
         /\ pc \in ThreadPcs \/ pc \in RunPcs \/ pc = "probe" \/ pc = "snapshot"
BY DEF WorkPcs, ThreadPcs, RunPcs, Op

LEMMA GateIs ==
  ASSUME NEW op, NEW c
  PROVE  /\ Gate(op, c) \in {"release", "auth", "rollout", "open"}
         /\ Gate(op, c) = "rollout" => op = "run"
BY DEF Gate

LEMMA Answers ==
  ASSUME ServerTypes, PageInv, AtWork, NEW r, Answered(r), sends' = sends,
         r = "reject" => flow.pc \in RunPcs
  PROVE  PageInv' /\ Reacts(r)
<1>1. flow.pc \in WorkPcs
  BY DEF AtWork
<1>2. CASE flow.pc \in ThreadPcs
  <2>1. ThreadAnswer(r)
    BY <1>2 DEF Answered, ThreadPcs
  <2> QED BY <1>2, <2>1, ThreadAnswers
<1>3. CASE flow.pc \in RunPcs
  <2>1. RunAnswer(r)
    BY <1>3 DEF Answered, RunPcs
  <2> QED BY <1>3, <2>1, RunAnswers
<1>4. CASE flow.pc = "probe"
  <2>1. ProbeAnswer(r)
    BY <1>4 DEF Answered
  <2> QED BY <1>4, <2>1, ProbeAnswers
<1>5. CASE flow.pc = "snapshot"
  <2>1. SnapshotAnswer(r) /\ r # "reject"
    BY <1>5 DEF Answered, RunPcs
  <2> QED BY <1>5, <2>1, SnapshotAnswers
<1> QED BY <1>1, <1>2, <1>3, <1>4, <1>5, PcIs

-----------------------------------------------------------------------------
(* The page's other steps.                                                 *)

LEMMA SteadyIs ==
  ASSUME PageInv, Steady
  PROVE  /\ flow = Idle /\ ~AtWork /\ page.signedIn /\ ~page.kept
         /\ work # None <=> page.pending
         /\ work # None /\ work.draft = None => work.text \in seen.revoked
<1> USE NoneIs
<1>1. flow = Idle /\ ~AtWork
  BY IdleRow DEF Steady, AtWork, WorkPcs, ThreadPcs, RunPcs
<1> QED BY <1>1, PageIs, WorkIs DEF Steady, PageInv, PageFine, Draft

LEMMA SubmitKeeps ==
  ASSUME PageInv, NEW n \in Texts, Submit(n)
  PROVE  PageInv'
<1> USE NoneIs
<1>1. /\ page \in PageRow /\ seen \in SeenRow /\ flow \in FlowRow /\ sends \in Trees
      /\ flow = Idle /\ work = None /\ page.signedIn /\ ~page.kept /\ ~page.pending /\ ~AtWork
  BY PageIs, SteadyIs DEF Submit, PageInv, PageTypes
<1>2. sends' = sends + 1 /\ sends' \in Sends /\ sends' \in Trees
  BY <1>1 DEF Submit, Sends, Trees
<1>3. CASE page.gen # None
  <2>1. /\ page' = [page EXCEPT !.composer = None] /\ work' = work /\ flow' = flow
        /\ seen' = [seen EXCEPT !.typed = @ \cup {n}, !.barred = @ \cup {n}]
    BY <1>3 DEF Submit
  <2>2. page' \in PageRow /\ page'.composer = None /\ ~page'.kept /\ page'.signedIn /\ ~page'.pending
    BY <1>1, <2>1 DEF PageRow
  <2>3. seen' \in SeenRow
    BY <1>1, <2>1 DEF SeenRow
  <2>4. PageTypes'
    BY <1>1, <1>2, <2>1, <2>2, <2>3 DEF PageInv, PageTypes
  <2>5. FlowFine' /\ PageFine'
    BY <1>1, <2>1, <2>2, IdleRow DEF FlowFine, PageFine, AtWork, WorkPcs, ThreadPcs, RunPcs
  <2> QED BY <1>1, <2>1, <2>4, <2>5 DEF PageInv
<1>4. CASE page.gen = None
  <2>a. PICK own \in BOOLEAN : own = (page.thread = None)
    OBVIOUS
  <2>b. PICK w : w = [id |-> sends + 1, text |-> n, own |-> own, threadSent |-> own, thread |-> FALSE,
                      to |-> IF own THEN sends + 1 ELSE None, base |-> 0,
                      sent |-> FALSE, doubt |-> None, draft |-> None]
    OBVIOUS
  <2>c. PICK f : f = [Idle EXCEPT !.by = "send", !.cookie = page.cookie, !.at = "sent",
                                  !.pc = IF own THEN "thread" ELSE "snapshot"]
    OBVIOUS
  <2>1. /\ page' = [page EXCEPT !.composer = None, !.pending = TRUE] /\ work' = w /\ flow' = f
        /\ seen' = [seen EXCEPT !.typed = @ \cup {n}]
    BY <1>4, <2>a, <2>b, <2>c DEF Submit
  <2>2. /\ page' \in PageRow /\ page'.composer = None /\ ~page'.kept /\ page'.signedIn /\ page'.pending
        /\ page'.cookie = page.cookie /\ page'.thread = page.thread /\ page'.cookie \in Nat
    BY <1>1, <2>1 DEF PageRow
  <2>3. seen' \in SeenRow /\ n \in seen'.typed /\ seen'.probed = seen.probed /\ seen'.revoked = seen.revoked
    BY <1>1, <2>1 DEF SeenRow
  <2>4. /\ f \in FlowRow /\ f.by = "send" /\ f.cookie = page.cookie /\ f.at = "sent" /\ ~f.proven
        /\ f.pc = IF own THEN "thread" ELSE "snapshot"
    BY <1>1, <2>c DEF Idle, FlowRow, WorkPcs, ThreadPcs, RunPcs, PageRow
  <2>5. /\ w \in WorkRow /\ w.id = sends' /\ w.text = n /\ (w.own <=> own) /\ (w.threadSent <=> own)
        /\ ~w.thread /\ w.to = (IF own THEN sends' ELSE None) /\ w.base = 0 /\ ~w.sent
        /\ w.doubt = None /\ w.draft = None
    BY <1>2, <2>b DEF WorkRow, Trees
  <2>6. PageTypes'
    BY <1>2, <2>1, <2>2, <2>3, <2>4, <2>5 DEF PageInv, PageTypes
  <2>7. AtWork' /\ f.pc \in {"thread", "snapshot"}
    BY <2>1, <2>4 DEF AtWork, WorkPcs, ThreadPcs
  <2>8. Owned'
    BY <2>1, <2>2, <2>4 DEF Owned
  <2>9. FlowFine'
    <3>1. work'.text = n /\ page'.composer = None /\ work' # None /\ flow'.by # None /\ flow'.at # None
      BY <2>1, <2>2, <2>4, <2>5
    <3>2. flow'.cookie \in 0 .. page'.cookie /\ ~flow'.proven /\ flow'.pc # None /\ flow'.pc # "stream"
      BY <2>1, <2>2, <2>4, <2>7
    <3>3. flow'.pc = "snapshot" => page'.thread # None
      BY <2>a, <2>1, <2>2, <2>4
    <3> QED BY <2>7, <2>8, <3>1, <3>2, <3>3 DEF FlowFine
  <2>9a. w.to = None <=> ~w.own
    <3>1. sends' # None
      BY <1>2
    <3> QED BY <2>5, <3>1
  <2>9b. Core(w)'
    <3>1. w.id <= sends'
      BY <1>2, <2>5 DEF Sends
    <3> QED BY <2>3, <2>5, <2>9a, <3>1 DEF Core
  <2>10. PageFine'
    BY <2>1, <2>2, <2>5 DEF PageFine
  <2>12. Draft(w)'
    BY <2>1, <2>2, <2>4, <2>7 DEF Draft
  <2>13. Stage(w)'
    BY <2>1, <2>4, <2>5, <2>7 DEF Stage, RunPcs, ThreadPcs
  <2> QED BY <2>1, <2>6, <2>9, <2>9b, <2>10, <2>12, <2>13 DEF PageInv, WorkFine
<1> QED BY <1>3, <1>4

\* The workflow a resumption continues.
Continued ==
  LET own == work.own \/ (work.to = None /\ page.thread = None) IN
  [work EXCEPT !.own = own, !.to = IF own THEN work.id ELSE @, !.threadSent = @ \/ own]

LEMMA ContinuedIs ==
  ASSUME PageInv, work # None
  PROVE  LET w == Continued IN
         /\ w \in WorkRow /\ w.id = work.id /\ w.text = work.text
         /\ w.own <=> work.own \/ (work.to = None /\ page.thread = None)
         /\ w.threadSent <=> work.threadSent \/ w.own
         /\ w.thread = work.thread /\ w.sent = work.sent /\ w.base = work.base /\ w.doubt = work.doubt
         /\ w.draft = work.draft
         /\ w.to = IF w.own THEN work.id ELSE work.to
         /\ work.to # None => w.to = work.to
         /\ Core(w)
<1> USE NoneIs
<1>0. PICK s : s = work
  OBVIOUS
<1>1. s \in WorkRow /\ Core(s)
  BY <1>0, WorkIs
<1>2. PICK own \in BOOLEAN : own <=> (s.own \/ (s.to = None /\ page.thread = None))
  OBVIOUS
<1>3. PICK to, ts : to = (IF own THEN s.id ELSE s.to) /\ ts = (s.threadSent \/ own)
  OBVIOUS
<1>3a. PICK w : w = [s EXCEPT !.own = own, !.to = to, !.threadSent = ts]
  OBVIOUS
<1>4. w = Continued
  <2>1. own = (s.own \/ (s.to = None /\ page.thread = None))
    BY <1>1, <1>2 DEF WorkRow
  <2> QED BY <1>0, <2>1, <1>3, <1>3a DEF Continued
<1>5. /\ w \in WorkRow /\ w.id = s.id /\ w.text = s.text /\ (w.own <=> own) /\ (w.threadSent <=> s.threadSent \/ own)
      /\ w.thread = s.thread /\ w.sent = s.sent /\ w.base = s.base /\ w.doubt = s.doubt /\ w.draft = s.draft
      /\ w.to = IF own THEN s.id ELSE s.to
  <2>1. to \in 0 .. MaxSends \cup {None} /\ ts \in BOOLEAN
    BY <1>1, <1>3 DEF WorkRow, Sends
  <2> QED BY <1>1, <1>3, <1>3a, <2>1 DEF WorkRow
<1>6. Core(w)
  BY <1>1, <1>2, <1>5 DEF Core
<1>7. s.to # None => w.to = s.to
  BY <1>1, <1>2, <1>5 DEF Core
<1> QED BY <1>0, <1>2, <1>4, <1>5, <1>6, <1>7

LEMMA ResumeKeeps ==
  ASSUME PageInv, Resume
  PROVE  PageInv' /\ work' = Continued /\ page' = page /\ seen' = seen /\ work # None /\ ~AtWork
<1> USE NoneIs
<1>1. /\ page \in PageRow /\ seen \in SeenRow /\ flow \in FlowRow /\ flow = Idle /\ ~AtWork
      /\ work # None /\ work \in WorkRow /\ page.signedIn /\ ~page.kept /\ page.pending
      /\ page.cookie \in Nat /\ (work.draft = None => work.text \in seen.revoked)
      /\ Core(work) /\ Draft(work)
  BY PageIs, SteadyIs, WorkIs DEF Resume
<1>2. PICK w : w = Continued
  OBVIOUS
<1>3. /\ w \in WorkRow /\ w.id = work.id /\ w.text = work.text
      /\ w.own <=> work.own \/ (work.to = None /\ page.thread = None)
      /\ w.threadSent <=> work.threadSent \/ w.own
      /\ w.thread = work.thread /\ w.sent = work.sent /\ w.base = work.base /\ w.doubt = work.doubt
      /\ w.draft = work.draft /\ Core(w)
      /\ w.to = IF w.own THEN work.id ELSE work.to
  BY <1>1, <1>2, ContinuedIs
<1>4. PICK pc : pc = CASE w.own /\ ~work.thread -> "thread"
                       [] ~w.own /\ ~work.sent -> "snapshot"
                       [] OTHER -> "run"
  OBVIOUS
<1>5. work' = w
  BY <1>2 DEF Resume, Continued
<1>6. flow' = [Idle EXCEPT !.by = "resume", !.cookie = page.cookie, !.at = "sent", !.pc = pc]
  BY <1>3, <1>4 DEF Resume
<1>7. page' = page /\ seen' = seen /\ sends' = sends
  BY DEF Resume
<1>8. /\ pc \in {"thread", "snapshot", "run"}
      /\ pc = "thread" => w.own /\ ~w.thread
      /\ pc = "snapshot" => ~w.own /\ ~w.sent
      /\ pc = "run" => w.to # None /\ w.thread
  <2>1. w.own \in BOOLEAN /\ w.thread \in BOOLEAN /\ w.sent \in BOOLEAN /\ w.to \in Trees \cup {None}
    BY <1>3 DEF WorkRow, Trees
  <2>2. CASE w.own /\ ~w.thread
    BY <1>3, <1>4, <2>2
  <2>3. CASE ~w.own /\ ~w.sent
    BY <1>3, <1>4, <2>3
  <2>4. CASE ~(w.own /\ ~w.thread) /\ ~(~w.own /\ ~w.sent)
    <3>1. pc = "run"
      BY <1>3, <1>4, <2>4
    <3>2. w.own => w.to # None
      BY <1>3 DEF WorkRow, Sends
    <3> QED BY <1>3, <2>1, <2>4, <3>1, <3>2 DEF Core
  <2> QED BY <2>2, <2>3, <2>4
<1>9. /\ flow' \in FlowRow /\ flow'.by = "resume" /\ flow'.cookie = page.cookie /\ flow'.at = "sent"
      /\ flow'.pc = pc /\ ~flow'.proven
  BY <1>1, <1>6, <1>8 DEF Idle, FlowRow, WorkPcs, ThreadPcs, RunPcs
<1>10. AtWork' /\ Owned'
  BY <1>1, <1>7, <1>8, <1>9 DEF AtWork, Owned, WorkPcs, ThreadPcs, RunPcs
<1>11. PageTypes'
  BY <1>3, <1>5, <1>7, <1>9 DEF PageInv, PageTypes
<1>12. FlowFine'
  <2>1. pc = "snapshot" => page.thread # None
    BY <1>1, <1>3, <1>8 DEF Core
  <2> QED BY <1>1, <1>3, <1>5, <1>7, <1>8, <1>9, <1>10, <2>1 DEF FlowFine
<1>13. PageFine'
  BY <1>1, <1>3, <1>5, <1>7 DEF PageInv, PageFine
<1>14. Core(w)' /\ Draft(w)'
  BY <1>1, <1>3, <1>7 DEF Core, Draft
<1>15. Stage(w)'
  BY <1>3, <1>5, <1>8, <1>9 DEF Stage, RunPcs, ThreadPcs
<1> QED BY <1>1, <1>2, <1>5, <1>7, <1>11, <1>12, <1>13, <1>14, <1>15 DEF PageInv, WorkFine

LEMMA PageSame ==
  ASSUME PageInv, UNCHANGED <<page, work, flow, sends, seen>>
  PROVE  PageInv'
BY DEF PageInv, PageTypes, FlowFine, PageFine, WorkFine, Core, Draft, Stage, AtWork, Owned

LEMMA ArriveKeeps ==
  ASSUME PageInv, Arrive
  PROVE  PageInv'
<1> USE NoneIs
<1>1. flow \in FlowRow /\ AtWork
  BY PageIs DEF Arrive, Mutates, Waiting, PageInv, FlowFine
<1>2. flow' = [flow EXCEPT !.at = "admitted"] /\ UNCHANGED <<page, work, sends, seen>>
  BY DEF Arrive
<1>3. /\ flow' \in FlowRow /\ flow'.at = "admitted" /\ flow'.pc = flow.pc /\ flow'.by = flow.by
      /\ flow'.cookie = flow.cookie /\ flow'.proven = flow.proven
  BY <1>1, <1>2 DEF FlowRow
<1>4. AtWork' /\ (Owned' <=> Owned)
  BY <1>1, <1>2, <1>3 DEF AtWork, Owned
<1>5. flow.pc # None /\ flow.pc # "stream"
  BY <1>1 DEF AtWork, WorkPcs, ThreadPcs, RunPcs
<1>6. FlowFine'
  BY <1>1, <1>2, <1>3, <1>4, <1>5 DEF PageInv, FlowFine
<1>7. PageTypes' /\ PageFine'
  BY <1>2, <1>3 DEF PageInv, PageTypes, PageFine
<1>8. work # None => WorkFine(work)'
  BY <1>1, <1>2, <1>3, <1>4 DEF PageInv, WorkFine, Core, Draft, Stage
<1> QED BY <1>2, <1>6, <1>7, <1>8 DEF PageInv

\* A step of a page that is at rest, or whose handler only reads a stream.
LEMMA RestKeeps ==
  ASSUME PageInv, ~AtWork, UNCHANGED <<work, seen, sends>>, page' \in PageRow,
         flow' = flow \/ flow' = Idle,
         page'.composer = page.composer,
         work # None <=> page'.pending \/ page'.kept,
         page'.signedIn => ~page'.kept, ~page'.signedIn /\ page'.pending => page'.kept
  PROVE  PageInv' /\ ~AtWork'
<1> USE NoneIs
<1>1. flow' \in FlowRow
  BY PageIs, IdleRow
<1>2. ~AtWork'
  BY IdleRow DEF AtWork, WorkPcs, ThreadPcs, RunPcs
<1>3. PageTypes'
  BY <1>1 DEF PageInv, PageTypes
<1>4. FlowFine'
  <2>1. flow'.pc # "snapshot"
    BY <1>2 DEF AtWork, WorkPcs
  <2>2. CASE flow' = flow
    BY <1>2, <2>1, <2>2 DEF PageInv, FlowFine
  <2>3. CASE flow' = Idle
    BY <1>2, <2>3, IdleRow DEF FlowFine
  <2> QED BY <2>2, <2>3
<1>5. PageFine'
  BY DEF PageInv, PageFine
<1>6. work # None => WorkFine(work)'
  <2>1. flow'.pc \notin ThreadPcs /\ flow'.pc \notin RunPcs /\ flow'.pc # "probe" /\ flow'.pc # "snapshot"
        /\ flow'.pc # "runAgain" /\ flow'.pc # "threadAgain"
    BY <1>2 DEF AtWork, WorkPcs, RunPcs, ThreadPcs
  <2> QED BY <1>2, <2>1 DEF PageInv, WorkFine, Core, Draft, Stage
<1> QED BY <1>2, <1>3, <1>4, <1>5, <1>6 DEF PageInv

LEMMA RereadKeeps ==
  ASSUME ServerTypes, PageInv, Reread
  PROVE  PageInv' /\ page'.composer = page.composer /\ page'.thread = page.back /\ page'.back = None
<1> USE NoneIs
<1>1. page \in PageRow /\ page.back \in Trees /\ ~AtWork
  BY PageIs, SteadyIs DEF Reread
<1>2. conv[page.back].live \in Sends \cup {None}
  BY <1>1 DEF ServerTypes, ConvRow
<1>3. page' = [page EXCEPT !.back = None, !.thread = page.back, !.gen = conv[page.back].live]
  BY DEF Reread
<1>4. /\ page' \in PageRow /\ page'.composer = page.composer /\ page'.pending = page.pending
      /\ page'.kept = page.kept /\ page'.signedIn = page.signedIn
      /\ page'.thread = page.back /\ page'.back = None
  BY <1>1, <1>2, <1>3 DEF PageRow
<1>5. UNCHANGED <<work, flow, seen, sends>>
  BY DEF Reread
<1>6. PageFine
  BY DEF PageInv
<1> QED BY <1>1, <1>4, <1>5, <1>6, RestKeeps DEF PageFine

LEMMA OpenKeeps ==
  ASSUME ServerTypes, PageInv, NEW t \in (DOMAIN conv) \cup {None}, Open(t)
  PROVE  PageInv' /\ page'.composer = page.composer /\ page'.thread = t /\ page'.back = page.back
<1> USE NoneIs
<1>1. page \in PageRow /\ t \in Trees \cup {None} /\ ~AtWork
  BY PageIs, SteadyIs DEF Open, ServerTypes
<1>2. t # None => conv[t].live \in Sends \cup {None}
  BY <1>1 DEF ServerTypes, ConvRow
<1>3. PICK g \in Sends \cup {None} : g = IF t = None THEN None ELSE conv[t].live
  BY <1>2
<1>4. page' = [page EXCEPT !.thread = t, !.gen = g]
  BY <1>3 DEF Open
<1>5. /\ page' \in PageRow /\ page'.composer = page.composer /\ page'.pending = page.pending
      /\ page'.kept = page.kept /\ page'.signedIn = page.signedIn
      /\ page'.thread = t /\ page'.back = page.back
  BY <1>1, <1>4 DEF PageRow
<1>6. UNCHANGED <<work, flow, seen, sends>>
  BY DEF Open
<1>7. PageFine
  BY DEF PageInv
<1> QED BY <1>1, <1>5, <1>6, <1>7, RestKeeps DEF PageFine

LEMMA StreamEndsKeeps ==
  ASSUME PageInv, StreamEnds
  PROVE  /\ PageInv' /\ page'.composer = page.composer
         /\ page'.thread \in {page.thread, None} /\ page'.back \in {page.back, page.thread}
<1> USE NoneIs
<1>1. /\ page \in PageRow /\ ~AtWork /\ work = None /\ page.thread \in Trees \cup {None}
      /\ flow' = Idle /\ UNCHANGED <<work, seen, sends>> /\ PageFine
  BY PageIs DEF StreamEnds, AtWork, WorkPcs, ThreadPcs, RunPcs, PageInv, FlowFine
<1>2. CASE page' = [page EXCEPT !.gen = None]
  <2>1. /\ page' \in PageRow /\ page'.composer = page.composer /\ page'.pending = page.pending
        /\ page'.kept = page.kept /\ page'.signedIn = page.signedIn
        /\ page'.thread = page.thread /\ page'.back = page.back
    BY <1>1, <1>2 DEF PageRow
  <2> QED BY <1>1, <2>1, RestKeeps DEF PageFine
<1>3. CASE page' = page
  BY <1>1, <1>3, RestKeeps DEF PageFine
<1>4. CASE Owned /\ page' = SignedOut(page, FALSE, page.thread)
  <2>1. /\ page' \in PageRow /\ ~page'.pending /\ ~page'.kept /\ ~page'.signedIn
        /\ page'.composer = page.composer /\ page'.thread = None /\ page'.back = page.thread
    BY <1>1, <1>4 DEF SignedOut, PageRow, Owned
  <2> QED BY <1>1, <2>1, RestKeeps
<1> QED BY <1>2, <1>3, <1>4 DEF StreamEnds

LEMMA GenerationEndsKeeps ==
  ASSUME PageInv, GenerationEnds
  PROVE  PageInv' /\ page'.composer = page.composer /\ page'.thread = page.thread /\ page'.back = page.back
<1> USE NoneIs
<1>1. page \in PageRow /\ ~AtWork /\ UNCHANGED <<work, flow, seen, sends>> /\ PageFine
  BY PageIs, IdleRow DEF GenerationEnds, AtWork, WorkPcs, ThreadPcs, RunPcs, PageInv
<1>2. page' = [page EXCEPT !.gen = None]
  BY DEF GenerationEnds
<1>3. /\ page' \in PageRow /\ page'.composer = page.composer /\ page'.pending = page.pending
      /\ page'.kept = page.kept /\ page'.signedIn = page.signedIn
      /\ page'.thread = page.thread /\ page'.back = page.back
  BY <1>1, <1>2 DEF PageRow
<1> QED BY <1>1, <1>3, RestKeeps DEF PageFine

LEMMA RevalidateKeeps ==
  ASSUME PageInv, Revalidate
  PROVE  /\ PageInv' /\ page'.composer = page.composer /\ page'.thread = None /\ page'.back = page.thread
         /\ seen'.typed = seen.typed /\ seen'.barred = seen.barred /\ seen'.denied = seen.denied
         /\ seen'.probed = seen.probed /\ seen.revoked \subseteq seen'.revoked
<1> USE NoneIs
<1>1. /\ page \in PageRow /\ seen \in SeenRow /\ flow \in FlowRow /\ page.thread \in Trees \cup {None}
      /\ page.pending \in BOOLEAN /\ page.cookie \in Nat /\ PageFine /\ FlowFine
      /\ UNCHANGED <<work, sends>> /\ page.signedIn /\ (work # None => work.text \in Texts)
  BY PageIs, WorkIs DEF Revalidate, PageInv
<1>2. /\ page' \in PageRow /\ (page'.pending <=> page.pending) /\ (page'.kept <=> page.pending) /\ ~page'.signedIn
      /\ page'.composer = page.composer /\ page'.thread = None /\ page'.back = page.thread
      /\ page'.cookie = page.cookie
  BY <1>1 DEF Revalidate, SignedOut, PageRow
<1>3. work # None <=> page.pending
  BY <1>1 DEF PageFine
<1>4. PICK x : x = IF page.pending /\ flow # Idle THEN {work.text} ELSE {}
  OBVIOUS
<1>5. x \subseteq Texts /\ (AtWork => work.text \in x \/ work.text \in seen.revoked)
  <2>1. AtWork => flow # Idle
    BY IdleRow DEF AtWork, WorkPcs, ThreadPcs, RunPcs
  <2>2. AtWork => work # None
    BY <1>1 DEF FlowFine
  <2> QED BY <1>1, <1>3, <1>4, <2>1, <2>2
<1>6. /\ seen' \in SeenRow /\ seen'.typed = seen.typed /\ seen'.barred = seen.barred /\ seen'.denied = seen.denied
      /\ seen'.probed = seen.probed /\ seen'.revoked = seen.revoked \cup x
  <2>1. seen' = [seen EXCEPT !.revoked = @ \cup x]
    BY <1>4 DEF Revalidate
  <2> QED BY <1>1, <1>5, <2>1 DEF SeenRow
<1>7. flow' = IF flow.pc = "stream" THEN Idle ELSE flow
  BY DEF Revalidate
<1>8. flow' \in FlowRow /\ (AtWork' => AtWork /\ flow' = flow)
  BY <1>1, <1>7, IdleRow DEF AtWork, WorkPcs, ThreadPcs, RunPcs
<1>9. PageTypes'
  BY <1>1, <1>2, <1>6, <1>8 DEF PageInv, PageTypes
<1>10. FlowFine'
  <2>1. CASE flow.pc = "stream"
    <3>1. ~AtWork' /\ flow' = Idle
      BY <1>7, <2>1, IdleRow DEF AtWork, WorkPcs, ThreadPcs, RunPcs
    <3> QED BY <3>1, IdleRow DEF FlowFine
  <2>2. CASE flow.pc # "stream"
    <3>1. flow' = flow /\ (AtWork' <=> AtWork)
      BY <1>7, <2>2 DEF AtWork
    <3>2. ~Owned'
      BY <1>2 DEF Owned
    <3> QED BY <1>1, <1>2, <1>5, <1>6, <3>1, <3>2 DEF FlowFine
  <2> QED BY <2>1, <2>2
<1>11. PageFine'
  BY <1>1, <1>2, <1>3, <1>6 DEF PageFine
<1>12. work # None => WorkFine(work)'
  <2> SUFFICES ASSUME work # None PROVE WorkFine(work)'
    OBVIOUS
  <2>1. flow.pc # "stream" /\ flow' = flow
    BY <1>1, <1>7 DEF FlowFine
  <2>2. AtWork' <=> AtWork
    BY <2>1 DEF AtWork
  <2> QED BY <1>1, <1>2, <1>6, <2>1, <2>2 DEF PageInv, WorkFine, Core, Draft, Stage
<1> QED BY <1>1, <1>2, <1>6, <1>9, <1>10, <1>11, <1>12 DEF PageInv

LEMMA LoginKeeps ==
  ASSUME PageInv, Login
  PROVE  /\ PageInv' /\ page'.composer = page.composer /\ page'.back = page.back
         /\ page'.thread = IF page.kept /\ work.thread THEN work.to ELSE page.back
         /\ page.kept => work # None
<1> USE NoneIs
<1>1. /\ page \in PageRow /\ PageFine /\ FlowFine /\ ~page.signedIn /\ page.back \in Trees \cup {None}
      /\ UNCHANGED <<work, flow, sends, seen>> /\ page.cookie \in Nat /\ page.kept \in BOOLEAN
  BY PageIs DEF Login, PageInv
<1>2. page.kept => work # None /\ work.to \in Trees \cup {None}
  BY <1>1, WorkIs DEF PageFine
<1>3. PICK t \in Trees \cup {None} : t = IF page.kept /\ work.thread THEN work.to ELSE page.back
  BY <1>1, <1>2
<1>4. PICK k \in BOOLEAN, c \in Nat : k = page.kept /\ c = page.cookie + 1
  BY <1>1
<1>5. page' = [page EXCEPT !.signedIn = TRUE, !.cookie = c, !.pending = k, !.kept = FALSE, !.thread = t]
  BY <1>3, <1>4 DEF Login
<1>6. /\ page' \in PageRow /\ page'.signedIn /\ page'.cookie = c /\ page'.pending = k /\ ~page'.kept
      /\ page'.composer = page.composer /\ page'.thread = t /\ page'.back = page.back
  BY <1>1, <1>5 DEF PageRow
<1>7. work # None <=> k
  BY <1>1, <1>4 DEF PageFine
<1>8. AtWork' <=> AtWork
  BY <1>1 DEF AtWork
<1>9. PageTypes'
  BY <1>1, <1>6 DEF PageInv, PageTypes
<1>10. FlowFine'
  <2>1. ~Owned
    BY <1>1 DEF Owned
  <2>2. flow.cookie \in 0 .. page.cookie => flow.cookie # c /\ flow.cookie \in 0 .. c
    BY <1>1, <1>4
  <2>3. AtWork => ~Owned'
    BY <1>1, <1>6, <2>2 DEF Owned, FlowFine
  <2>4. flow.pc = "snapshot" => AtWork
    BY DEF AtWork, WorkPcs
  <2> QED BY <1>1, <1>6, <1>8, <2>1, <2>2, <2>3, <2>4 DEF FlowFine
<1>11. PageFine'
  BY <1>1, <1>6, <1>7 DEF PageFine
<1>12. work # None => WorkFine(work)'
  BY <1>1, <1>6, <1>8 DEF PageInv, WorkFine, Core, Draft, Stage
<1> QED BY <1>1, <1>2, <1>3, <1>6, <1>9, <1>10, <1>11, <1>12 DEF PageInv

-----------------------------------------------------------------------------
(* The server's steps.                                                     *)

\* Threads are made once, and each turn or end of a turn is a revision.
Grows ==
  \A t \in Trees : /\ conv[t].made => conv'[t].made
                   /\ conv[t].rev <= conv'[t].rev
                   /\ conv'[t].rev = conv[t].rev => conv'[t].live = conv[t].live

ConvTypes ==
  /\ conv \in [Trees -> ConvRow]
  /\ \A t \in Trees : (conv[t].live # None => conv[t].rev > 0) /\ (~conv[t].made => conv[t].rev = 0)

AcceptedTypes == DOMAIN accepted \subseteq Sends /\ accepted \in [DOMAIN accepted -> Texts]

\* The turn of a ticket is new, and taken.
Turns(q) ==
  /\ q.id \notin DOMAIN accepted /\ Takes(q)
  /\ DOMAIN accepted' = DOMAIN accepted \cup {q.id} /\ accepted'[q.id] = q.text
  /\ \A k \in DOMAIN accepted : accepted'[k] = accepted[k]

LEMMA TurnsOnce ==
  ASSUME AcceptedTypes, NEW q \in TicketRow, q.id \notin DOMAIN accepted, Takes(q),
         accepted' = [k \in DOMAIN accepted \cup {q.id} |-> IF k = q.id THEN q.text ELSE accepted[k]]
  PROVE  Turns(q) /\ AcceptedTypes'
<1>1. q.id \in Sends /\ q.text \in Texts
  BY DEF TicketRow
<1> QED BY <1>1 DEF Turns, AcceptedTypes

\* What a handler does for a thread...
LEMMA ThreadEffect ==
  ASSUME ConvTypes, NEW q \in TicketRow, NEW a, Effect("thread", q, a)
  PROVE  /\ a = "ok" /\ accepted' = accepted /\ conv'[q.id].made /\ ConvTypes' /\ Grows
         /\ \A t \in Trees : ~conv[t].made /\ conv'[t].made => t = q.id
<1>1. a = "ok" /\ accepted' = accepted /\ conv' = [conv EXCEPT ![q.id].made = TRUE]
  BY DEF Effect
<1>2. q.id \in Trees
  BY DEF TicketRow, Sends, Trees
<1>3. PICK i, c : i = q.id /\ c = conv[i]
  OBVIOUS
<1>4. c \in ConvRow
  BY <1>2, <1>3 DEF ConvTypes
<1>5. PICK d : d = [c EXCEPT !.made = TRUE]
  OBVIOUS
<1>6. d \in ConvRow /\ d.made /\ d.rev = c.rev /\ d.live = c.live
  BY <1>4, <1>5 DEF ConvRow
<1>7. conv' = [conv EXCEPT ![i] = d]
  BY <1>1, <1>3, <1>5
<1>8. /\ conv' \in [Trees -> ConvRow] /\ conv'[i] = d
      /\ \A t \in Trees \ {i} : conv'[t] = conv[t]
  BY <1>2, <1>3, <1>6, <1>7 DEF ConvTypes
<1>9. \A t \in Trees : conv'[t].rev = conv[t].rev /\ conv'[t].live = conv[t].live /\ (conv[t].made => conv'[t].made)
                       /\ (~conv[t].made /\ conv'[t].made => t = i)
  BY <1>3, <1>6, <1>8
<1>10. \A t \in Trees : conv[t].rev \in Nat
  BY DEF ConvTypes, ConvRow
<1>11. ConvTypes'
  BY <1>8, <1>9 DEF ConvTypes
<1>12. Grows
  BY <1>9, <1>10 DEF Grows
<1> QED BY <1>1, <1>3, <1>6, <1>8, <1>9, <1>11, <1>12

\* ... and for a run.
LEMMA RunEffect ==
  ASSUME ConvTypes, AcceptedTypes, NEW q \in TicketRow, q.to \in Trees, NEW a, Effect("run", q, a)
  PROVE  /\ ConvTypes' /\ AcceptedTypes' /\ Grows
         /\ \A t \in Trees : conv'[t].made => conv[t].made
         /\ a = "ok" => Turns(q) \/ (q.id \in DOMAIN accepted /\ accepted' = accepted /\ conv' = conv)
         /\ a # "ok" => a = "reject" /\ q.id \notin DOMAIN accepted /\ ~Takes(q) /\ accepted' = accepted /\ conv' = conv
<1>0. \A t \in Trees : conv[t].rev \in Nat
  BY DEF ConvTypes, ConvRow
<1>1. CASE a # "ok" \/ q.id \in DOMAIN accepted
  <2>0. UNCHANGED <<conv, accepted>>
    BY <1>1 DEF Effect
  <2>1. ConvTypes' /\ AcceptedTypes' /\ Grows
    BY <1>0, <2>0 DEF ConvTypes, AcceptedTypes, Grows
  <2> QED BY <1>0, <1>1, <2>0, <2>1 DEF Effect
<1>2. CASE a = "ok" /\ q.id \notin DOMAIN accepted
  <2>1. /\ a = "ok" /\ q.id \notin DOMAIN accepted /\ Takes(q)
        /\ conv' = [conv EXCEPT ![q.to].rev = @ + 1, ![q.to].live = q.id]
        /\ accepted' = [k \in DOMAIN accepted \cup {q.id} |-> IF k = q.id THEN q.text ELSE accepted[k]]
    BY <1>2 DEF Effect
  <2>2. PICK i, c, id : i = q.to /\ c = conv[i] /\ id = q.id
    OBVIOUS
  <2>3. c \in ConvRow /\ c.made /\ id \in Sends
    BY <2>1, <2>2 DEF ConvTypes, Takes, TicketRow
  <2>4. PICK d : d = [c EXCEPT !.rev = @ + 1, !.live = id]
    OBVIOUS
  <2>5. d \in ConvRow /\ d.made /\ d.rev = c.rev + 1 /\ d.live = id /\ c.rev \in Nat
    <3>1. c.rev \in Nat /\ c.rev + 1 \in Nat
      BY <2>3 DEF ConvRow
    <3>2. PICK r : r = c.rev + 1
      OBVIOUS
    <3>3. d = [c EXCEPT !.rev = r, !.live = id]
      BY <2>4, <3>2
    <3> QED BY <2>3, <3>1, <3>2, <3>3 DEF ConvRow
  <2>6. /\ DOMAIN conv' = Trees
        /\ conv'[i] = d
        /\ \A t \in Trees \ {i} : conv'[t] = conv[t]
    <3>1. PICK f : f = [conv EXCEPT ![i].rev = @ + 1]
      OBVIOUS
    <3>2. /\ DOMAIN f = Trees /\ f[i] = [c EXCEPT !.rev = @ + 1]
          /\ \A t \in Trees \ {i} : f[t] = conv[t]
      BY <2>2, <3>1 DEF ConvTypes
    <3>3. conv' = [f EXCEPT ![i].live = id]
      BY <2>1, <2>2, <3>1
    <3>4. /\ DOMAIN conv' = Trees /\ conv'[i] = [f[i] EXCEPT !.live = id]
          /\ \A t \in Trees \ {i} : conv'[t] = conv[t]
      BY <2>2, <3>2, <3>3
    <3>5. conv'[i] = d
      BY <2>4, <3>2, <3>4
    <3> QED BY <3>4, <3>5
  <2>7. conv' \in [Trees -> ConvRow]
    <3>1. \A t \in Trees : conv'[t] \in ConvRow
      BY <2>5, <2>6 DEF ConvTypes
    <3>2. conv' = [t \in Trees |-> conv'[t]]
      BY <2>1, <2>6
    <3> QED BY <3>1, <3>2
  <2>8. ConvTypes'
    BY <2>2, <2>5, <2>6, <2>7 DEF ConvTypes
  <2>9. Grows
    BY <1>0, <2>2, <2>3, <2>5, <2>6, <2>7 DEF Grows
  <2>10. \A t \in Trees : conv'[t].made => conv[t].made
    BY <2>2, <2>3, <2>6, <2>7
  <2> QED BY <2>1, <2>8, <2>9, <2>10, TurnsOnce
<1> QED BY <1>1, <1>2

-----------------------------------------------------------------------------
(* How the page's send, the requests on their way and the server's threads *)
(* evolve together.                                                        *)

\* The workflow stays the one it was, ...
Follows ==
  /\ work # None /\ work'.id = work.id /\ work'.text = work.text
  /\ (work.thread => work'.thread) /\ (work.own => work'.own)
  /\ work.to # None => work'.to = work.to /\ work'.base = work.base

\* ... or is that of a new send.
Begins ==
  /\ work = None /\ sends' = sends + 1 /\ work'.id = sends' /\ ~work'.thread
  /\ stray' = stray /\ accepted' = accepted /\ page'.composer = None

\* The request is given up now.
Strays(q) ==
  /\ work # None /\ q.ticket = Ticket(work)
  /\ q.op = "thread" => work.own /\ ~work.thread
  /\ q.op = "run" => work.thread /\ work.to # None

Evolves ==
  /\ sends <= sends' /\ Grows
  /\ \A t \in Trees : ~conv[t].made /\ conv'[t].made =>
       \/ \E q \in stray : q.op = "thread" /\ q.ticket.id = t
       \/ work # None /\ work.id = t /\ ~work.thread
  /\ \A q \in stray' : Strays(q) \/ \E p \in stray : p.op = q.op /\ p.ticket = q.ticket
  /\ work' # None => Follows \/ Begins

LEMMA TicketIs ==
  ASSUME NEW w \in WorkRow
  PROVE  /\ Ticket(w) \in TicketRow /\ Ticket(w).id = w.id /\ Ticket(w).text = w.text
         /\ Ticket(w).to = w.to /\ Ticket(w).base = w.base
BY DEF Ticket, TicketRow, WorkRow, Trees

LEMMA BarrenStays ==
  ASSUME PageInv, PageInv', Evolves, NEW t \in Trees, Barren(t)
  PROVE  Barren(t)'
<1>1. t <= sends /\ t <= sends' /\ sends \in Nat /\ sends' \in Nat
  BY NoneIs DEF Barren, Evolves, PageInv, PageTypes, Trees
<1>2. ASSUME NEW q \in stray', q.op = "thread"
      PROVE  q.ticket.id # t
  <2>1. CASE Strays(q)
    BY <1>2, <2>1, WorkIs, TicketIs DEF Strays, Barren
  <2>2. CASE \E p \in stray : p.op = q.op /\ p.ticket = q.ticket
    BY <1>2, <2>2 DEF Barren
  <2> QED BY <2>1, <2>2 DEF Evolves
<1>3. work' # None /\ work'.id = t => work'.thread
  BY <1>1 DEF Evolves, Follows, Begins, Barren
<1> QED BY <1>1, <1>2, <1>3 DEF Barren

LEMMA ThreadFineStays ==
  ASSUME PageInv, PageInv', Evolves, NEW t \in Trees, ThreadFine(t)
  PROVE  ThreadFine(t)'
<1>1. ~conv'[t].made => ~conv[t].made
  BY DEF Evolves, Grows
<1> QED BY <1>1, BarrenStays DEF ThreadFine

\* A thread that nothing would make is not made.
LEMMA StaysUnmade ==
  ASSUME Evolves, NEW t \in Trees, ThreadFine(t)
  PROVE  conv'[t].made => conv[t].made
BY DEF Evolves, ThreadFine, Barren

LEMMA TicketFineStays ==
  ASSUME ServerTypes, ServerTypes', PageInv, PageInv', Evolves, NEW k \in TicketRow, TicketFine(k)
  PROVE  TicketFine(k)' /\ (Takes(k)' => Takes(k))
<1>1. k.to \in Trees /\ k.base \in Nat
  BY DEF TicketFine, TicketRow
<1>2. conv[k.to].rev \in Nat /\ conv'[k.to].rev \in Nat
  BY <1>1 DEF ServerTypes, ConvRow
<1>3. ThreadFine(k.to)'
  BY <1>1, ThreadFineStays DEF TicketFine
<1>4. /\ conv[k.to].rev <= conv'[k.to].rev
      /\ conv'[k.to].rev = conv[k.to].rev => conv'[k.to].live = conv[k.to].live
  BY <1>1 DEF Evolves, Grows
<1>5. /\ k.base <= conv[k.to].rev
      /\ conv[k.to].rev = k.base => conv[k.to].live = None
  BY DEF TicketFine
<1>6. TicketFine(k)'
  BY <1>1, <1>2, <1>3, <1>4, <1>5 DEF TicketFine
<1>7. conv'[k.to].made => conv[k.to].made
  BY <1>1, StaysUnmade DEF TicketFine
<1>8. Takes(k)' => Takes(k)
  BY <1>2, <1>4, <1>5, <1>7 DEF Takes
<1> QED BY <1>6, <1>8

LEMMA SameTicket ==
  ASSUME NEW v \in WorkRow, NEW w \in WorkRow, v.id = w.id, v.text = w.text, v.to = w.to, v.base = w.base
  PROVE  Ticket(v) = Ticket(w)
BY DEF Ticket

\* The parts of TicketInv that speak of the page.
OwnTicket == work # None /\ work.thread /\ work.to # None => TicketFine(Ticket(work))
OwnThreads == /\ page.thread # None => ThreadFine(page.thread)
              /\ page.back # None => ThreadFine(page.back)

LEMMA StrayTicket ==
  ASSUME ServerTypes, NEW q \in stray
  PROVE  q.ticket \in TicketRow /\ q.op \in {"thread", "run"} /\ q.ticket.id \in Sends /\ q.ticket.text \in Texts
<1>1. q \in StrayRow
  BY DEF ServerTypes
<1> QED BY <1>1 DEF StrayRow, TicketRow

LEMMA TicketsStay ==
  ASSUME ServerTypes, ServerTypes', PageInv, PageInv', TicketInv, Evolves, OwnThreads',
         seen.typed \subseteq seen'.typed,
         \/ work # None /\ work.thread /\ work.to # None
         \/ OwnTicket'
  PROVE  TicketInv'
<1> USE NoneIs
<1>0. sends \in Nat /\ sends' \in Nat /\ sends <= sends'
  BY DEF PageInv, PageTypes, Trees, Evolves
<1>1. ASSUME NEW q \in stray'
      PROVE  q.ticket.id <= sends' /\ q.ticket.text \in seen'.typed
  <2>1. CASE Strays(q)
    <3>1. Ticket(work).id = work.id /\ Ticket(work).text = work.text /\ Core(work) /\ work.id \in Nat
      BY <2>1, WorkIs, TicketIs DEF Strays, Sends
    <3> QED BY <1>0, <2>1, <3>1 DEF Strays, Core
  <2>2. CASE \E p \in stray : p.op = q.op /\ p.ticket = q.ticket
    <3>1. q.ticket.id \in Nat
      BY <2>2, StrayTicket DEF Sends
    <3> QED BY <1>0, <2>2, <3>1 DEF TicketInv
  <2> QED BY <2>1, <2>2 DEF Evolves
<1>2. ASSUME NEW k, work # None, work.thread, work.to # None, k = Ticket(work)
      PROVE  TicketFine(k)'
  <2>1. k \in TicketRow /\ TicketFine(k)
    BY <1>2, WorkIs, TicketIs DEF TicketInv
  <2> QED BY <2>1, TicketFineStays
<1>3. ASSUME NEW k \in TicketRow, Runs(k)'
      PROVE  TicketFine(k)'
  <2>1. PICK q \in stray' : q.op = "run" /\ q.ticket = k
    BY <1>3 DEF Runs
  <2>2. CASE Strays(q)
    BY <1>2, <2>1, <2>2 DEF Strays
  <2>3. CASE \E p \in stray : p.op = q.op /\ p.ticket = q.ticket
    <3>1. Runs(k)
      BY <2>1, <2>3 DEF Runs
    <3> QED BY <3>1, TicketFineStays DEF TicketInv
  <2> QED BY <2>2, <2>3 DEF Evolves
<1>4. OwnTicket'
  <2> SUFFICES ASSUME work # None, work.thread, work.to # None, work' # None
               PROVE  TicketFine(Ticket(work))'
    BY DEF OwnTicket
  <2>1. Follows
    BY DEF Evolves, Begins
  <2>2. PICK k : k = Ticket(work)
    OBVIOUS
  <2>3. work' \in WorkRow
    BY DEF PageInv, PageTypes
  <2>4. Ticket(work)' = k
    <3>1. PICK v : v = work'
      OBVIOUS
    <3>2. Ticket(v) = Ticket(work)
      BY <2>1, <2>3, <3>1, WorkIs, SameTicket DEF Follows
    <3>3. Ticket(v) = Ticket(work)'
      BY <3>1 DEF Ticket
    <3> QED BY <2>2, <3>2, <3>3
  <2>5. TicketFine(k)'
    BY <1>2, <2>2
  <2>6. PICK l : l = Ticket(work)'
    OBVIOUS
  <2>7. TicketFine(l)'
    BY <2>4, <2>5, <2>6
  <2> QED BY <2>6, <2>7 DEF TicketFine
<1>5. ASSUME work' # None, ~work'.own, NEW q \in stray', q.op = "thread"
      PROVE  q.ticket.id # work'.id
  <2>1. CASE Follows
    <3>1. work # None /\ ~work.own /\ work'.id = work.id
      BY <1>5, <2>1 DEF Follows
    <3>2. PICK p \in stray : p.op = q.op /\ p.ticket = q.ticket
      BY <1>5, <3>1 DEF Evolves, Strays
    <3> QED BY <1>5, <3>1, <3>2 DEF TicketInv
  <2>2. CASE Begins
    <3>1. q \in stray /\ work'.id = sends + 1
      BY <2>2 DEF Begins
    <3>2. q.ticket.id \in Nat /\ q.ticket.id <= sends
      BY <3>1, StrayTicket DEF TicketInv, Sends
    <3> QED BY <1>0, <3>1, <3>2
  <2> QED BY <1>5, <2>1, <2>2 DEF Evolves
<1> QED BY <1>1, <1>3, <1>4, <1>5 DEF TicketInv, OwnTicket, OwnThreads

LEMMA ServerParts ==
  /\ ServerTypes <=> ConvTypes /\ AcceptedTypes /\ stray \subseteq StrayRow
  /\ ServerTypes' <=> ConvTypes' /\ AcceptedTypes' /\ stray' \subseteq StrayRow
BY DEF ServerTypes, ConvTypes, AcceptedTypes

\* What the server did for a request answered with r, and what is left of it.
Serves(r) ==
  /\ AtWork /\ sends' = sends /\ ServerTypes' /\ Grows
  /\ \A q \in stray' :
       q \in stray \/ (r = "fault" /\ q.op = Op(flow.pc) /\ q.ticket = Ticket(work) /\ flow.pc \in ThreadPcs \cup RunPcs)
  /\ accepted' = accepted \/ (r = "ok" /\ flow.pc \in RunPcs /\ Turns(Ticket(work)))
  /\ \A t \in Trees : ~conv[t].made /\ conv'[t].made => flow.pc \in ThreadPcs /\ t = work.id
  /\ r = "reject" => /\ flow.pc \in RunPcs /\ conv' = conv /\ stray' = stray /\ accepted' = accepted
                     /\ work.id \notin DOMAIN accepted /\ ~Takes(Ticket(work))
  /\ r = "ok" /\ flow.pc \in ThreadPcs => conv'[work.id].made
  /\ r = "ok" /\ flow.pc = "snapshot" => conv' = conv
  /\ r = "ok" /\ flow.pc \in RunPcs \cup {"probe"} => work.id \in DOMAIN accepted'

LEMMA SameGrows ==
  ASSUME ConvTypes, UNCHANGED conv
  PROVE  Grows
<1>1. \A t \in Trees : conv[t].rev \in Nat
  BY DEF ConvTypes, ConvRow
<1> QED BY <1>1 DEF Grows

LEMMA WaitingIs ==
  ASSUME PageInv
  PROVE  /\ Waiting <=> AtWork
         /\ AtWork => (flow.pc \in ThreadPcs \cup RunPcs <=> Mutates)
<1>1. Waiting <=> AtWork
  BY DEF Waiting, PageInv, FlowFine
<1>2. "thread" # "read" /\ "run" # "read"
  OBVIOUS
<1>3. AtWork => (flow.pc \in ThreadPcs \cup RunPcs <=> Op(flow.pc) # "read")
  BY <1>2, PcIs DEF AtWork, ThreadPcs, RunPcs
<1> QED BY <1>1, <1>3 DEF Mutates

\* A request that changed nothing but what the page knows.
LEMMA IdleServes ==
  ASSUME ServerTypes, PageInv, AtWork, UNCHANGED <<conv, accepted, stray, sends>>, NEW r,
         r # "reject", r = "ok" => flow.pc \notin ThreadPcs \cup RunPcs,
         r = "ok" /\ flow.pc = "probe" => work.id \in DOMAIN accepted
  PROVE  Serves(r)
<1>1. ServerTypes'
  BY DEF ServerTypes
<1>2. Grows
  BY ServerParts, SameGrows
<1> QED BY <1>1, <1>2 DEF Serves, ThreadPcs, RunPcs

LEMMA RefusedServes ==
  ASSUME ServerTypes, PageInv, Refused
  PROVE  \E r : Answered(r) /\ Serves(r) /\ r # "reject"
<1>1. PICK r : r = Gate(Op(flow.pc), flow.cookie)
  OBVIOUS
<1>2. Answered(r) /\ r \notin {"ok", "reject"} /\ AtWork /\ UNCHANGED <<conv, accepted, stray, sends>>
  BY <1>1, GateIs, WaitingIs DEF Refused
<1> QED BY <1>2, IdleServes

LEMMA ReadsServes ==
  ASSUME ServerTypes, PageInv, Reads
  PROVE  \E r : Answered(r) /\ Serves(r) /\ r # "reject"
<1>1. PICK r : r = IF flow.pc = "probe" /\ work.id \notin DOMAIN accepted THEN "absent" ELSE "ok"
  OBVIOUS
<1>2. Answered(r) /\ r # "reject" /\ AtWork /\ UNCHANGED <<conv, accepted, stray, sends>>
      /\ flow.pc \notin ThreadPcs \cup RunPcs
  BY <1>1, WaitingIs DEF Reads
<1>3. r = "ok" /\ flow.pc = "probe" => work.id \in DOMAIN accepted
  BY <1>1
<1> QED BY <1>2, <1>3, IdleServes

LEMMA LoseServes ==
  ASSUME ServerTypes, PageInv, Lose
  PROVE  \E r : Answered(r) /\ Serves(r) /\ r # "reject"
<1> USE NoneIs
<1>1. Answered("fault") /\ AtWork /\ UNCHANGED <<conv, accepted, sends>>
  BY WaitingIs DEF Lose
<1>2. flow \in FlowRow /\ flow.at # None /\ flow.pc \in WorkPcs /\ work \in WorkRow
  BY <1>1, FlowIs, PageNow
<1>3. CASE ~Mutates
  <2>1. stray' = stray
    BY <1>3 DEF Lose
  <2>2. Serves("fault")
    BY <1>1, <2>1, IdleServes
  <2> QED BY <1>1, <2>2
<1>4. CASE Mutates
  <2>1. flow.pc \in ThreadPcs \cup RunPcs /\ Op(flow.pc) \in {"thread", "run"}
    BY <1>1, <1>2, <1>4, WaitingIs, PcIs
  <2>2. PICK op, t, q : /\ op = Op(flow.pc) /\ t = Ticket(work)
                        /\ q = [op |-> op, at |-> flow.at, cookie |-> flow.cookie, ticket |-> t]
    OBVIOUS
  <2>3. stray' = stray \cup {q}
    BY <1>4, <2>2 DEF Lose
  <2>4. q \in StrayRow /\ q.op = op /\ q.ticket = t
    <3>1. t \in TicketRow
      BY <1>2, <2>2, TicketIs
    <3>2. flow.at \in {"sent", "admitted"} /\ flow.cookie \in Nat \cup {None}
      BY <1>2 DEF FlowRow
    <3> QED BY <2>1, <2>2, <3>1, <3>2 DEF StrayRow
  <2>5. ServerTypes'
    BY <1>1, <2>3, <2>4 DEF ServerTypes
  <2>6. Grows
    BY <1>1, ServerParts, SameGrows
  <2>7. Serves("fault")
    BY <1>1, <2>1, <2>2, <2>3, <2>4, <2>5, <2>6 DEF Serves
  <2> QED BY <1>1, <2>7
<1> QED BY <1>3, <1>4

LEMMA ServedServes ==
  ASSUME ServerTypes, PageInv, Served
  PROVE  \E r : Answered(r) /\ Serves(r) /\ (r = "reject" => flow.pc \in RunPcs)
<1> USE NoneIs
<1>1. PICK r \in {"ok", "reject"} : Effect(Op(flow.pc), Ticket(work), r) /\ Answered(r)
  BY DEF Served
<1>2. /\ AtWork /\ flow.pc \in ThreadPcs \cup RunPcs /\ UNCHANGED <<stray, sends>>
      /\ work # None /\ work \in WorkRow /\ flow.pc \in WorkPcs
  BY WaitingIs, PageNow, FlowIs DEF Served, Mutates
<1>3. PICK t : t = Ticket(work)
  OBVIOUS
<1>4. t \in TicketRow /\ t.id = work.id /\ t.to = work.to
  BY <1>2, <1>3, TicketIs
<1>5. ConvTypes /\ AcceptedTypes /\ stray \subseteq StrayRow
  BY ServerParts
<1>6. CASE flow.pc \in ThreadPcs
  <2>1. Effect("thread", t, r) /\ flow.pc \notin RunPcs \cup {"probe", "snapshot"}
    BY <1>1, <1>2, <1>3, <1>6, PcIs DEF ThreadPcs, RunPcs
  <2>2. /\ r = "ok" /\ accepted' = accepted /\ conv'[t.id].made /\ ConvTypes' /\ Grows
        /\ \A u \in Trees : ~conv[u].made /\ conv'[u].made => u = t.id
    BY <1>4, <1>5, <2>1, ThreadEffect
  <2>3. ServerTypes'
    BY <1>2, <1>5, <2>2, ServerParts DEF AcceptedTypes
  <2>4. Serves(r)
    BY <1>2, <1>4, <1>6, <2>1, <2>2, <2>3 DEF Serves
  <2> QED BY <1>1, <2>2, <2>4
<1>7. CASE flow.pc \in RunPcs
  <2>1. Effect("run", t, r) /\ flow.pc \notin ThreadPcs \cup {"probe", "snapshot"}
    BY <1>1, <1>2, <1>3, <1>7, PcIs DEF ThreadPcs, RunPcs
  <2>2. t.to \in Trees
    <3>1. work.to # None
      BY <1>2, <1>7, WorkIs DEF Stage
    <3> QED BY <1>2, <1>4, <3>1, WorkIs
  <2>3. /\ ConvTypes' /\ AcceptedTypes' /\ Grows
        /\ \A u \in Trees : conv'[u].made => conv[u].made
        /\ r = "ok" => Turns(t) \/ (t.id \in DOMAIN accepted /\ accepted' = accepted /\ conv' = conv)
        /\ r # "ok" => t.id \notin DOMAIN accepted /\ ~Takes(t) /\ accepted' = accepted /\ conv' = conv
    BY <1>4, <1>5, <2>1, <2>2, RunEffect
  <2>4. ServerTypes'
    BY <1>2, <1>5, <2>3, ServerParts
  <2>5. r = "ok" => t.id \in DOMAIN accepted'
    BY <2>3 DEF Turns
  <2>6. r = "ok" \/ r = "reject"
    OBVIOUS
  <2>7. Serves(r)
    BY <1>2, <1>3, <1>4, <1>7, <2>1, <2>3, <2>4, <2>5, <2>6 DEF Serves
  <2> QED BY <1>1, <1>7, <2>7
<1> QED BY <1>2, <1>6, <1>7

-----------------------------------------------------------------------------
(* The tickets after an answered request.                                  *)

Requests(r) == AtWork /\ PageInv' /\ Reacts(r) /\ Serves(r)

LEMMA RequestEvolves ==
  ASSUME ServerTypes, PageInv, NEW r, Requests(r)
  PROVE  Evolves /\ (work' # None => Follows)
<1> USE NoneIs
<1>1. /\ AtWork /\ work # None /\ work \in WorkRow /\ flow.pc \in WorkPcs /\ Stage(work) /\ Core(work)
      /\ Reacts(r) /\ Serves(r)
  BY PageNow, FlowIs, WorkIs DEF Requests
<1>2. work' # None => Follows
  BY <1>1 DEF Reacts, Keeps, Lands, GivesUp, Follows
<1>3. \A q \in stray' : Strays(q) \/ \E p \in stray : p.op = q.op /\ p.ticket = q.ticket
  <2>1. ASSUME NEW q \in stray', q \notin stray
        PROVE  Strays(q)
    <3>1. q.op = Op(flow.pc) /\ q.ticket = Ticket(work) /\ flow.pc \in ThreadPcs \cup RunPcs
      BY <1>1, <2>1 DEF Serves
    <3>2. CASE flow.pc \in ThreadPcs
      BY <1>1, <3>1, <3>2, PcIs DEF Strays, Stage
    <3>3. CASE flow.pc \in RunPcs
      BY <1>1, <3>1, <3>3, PcIs DEF Strays, Stage
    <3> QED BY <3>1, <3>2, <3>3
  <2> QED BY <2>1
<1>4. ASSUME NEW t \in Trees, ~conv[t].made, conv'[t].made
      PROVE  work # None /\ work.id = t /\ ~work.thread
  BY <1>1, <1>4 DEF Serves, Stage
<1>5. sends <= sends' /\ Grows
  BY <1>1 DEF Serves, PageInv, PageTypes, Trees
<1> QED BY <1>2, <1>3, <1>4, <1>5 DEF Evolves

LEMMA RequestThreads ==
  ASSUME ServerTypes, PageInv, TicketInv, NEW r, Requests(r)
  PROVE  OwnThreads'
<1> USE NoneIs
<1>1. /\ Evolves /\ PageInv' /\ Reacts(r) /\ Serves(r) /\ work.id \in Sends /\ AtWork
      /\ page.thread \in Trees \cup {None} /\ page.back \in Trees \cup {None}
  BY RequestEvolves, PageNow, WorkIs, PageIs DEF Requests
<1>2. ASSUME page'.thread # None
      PROVE  ThreadFine(page.thread)'
  <2>1. PICK t : t = page'.thread
    OBVIOUS
  <2>2. CASE t = page.thread
    <3>1. ThreadFine(t)'
      BY <1>1, <1>2, <2>1, <2>2, ThreadFineStays DEF TicketInv
    <3> QED BY <2>1, <3>1 DEF ThreadFine, Barren
  <2>3. CASE t # page.thread
    <3>1. r = "ok" /\ flow.pc \in ThreadPcs /\ t = work.id
      BY <1>1, <1>2, <2>1, <2>3 DEF Reacts
    <3>2. conv'[t].made
      BY <1>1, <3>1 DEF Serves
    <3> QED BY <2>1, <3>2 DEF ThreadFine
  <2> QED BY <2>2, <2>3
<1>3. ASSUME page'.back # None
      PROVE  ThreadFine(page.back)'
  <2>1. PICK t : t = page'.back
    OBVIOUS
  <2>2. t = page.back
    BY <1>1, <1>3, <2>1 DEF Reacts
  <2>3. ThreadFine(t)'
    BY <1>1, <1>3, <2>1, <2>2, ThreadFineStays DEF TicketInv
  <2> QED BY <2>1, <2>3 DEF ThreadFine, Barren
<1> QED BY <1>2, <1>3 DEF OwnThreads

LEMMA RequestTickets ==
  ASSUME ServerTypes, PageInv, TicketInv, NEW r, Requests(r)
  PROVE  TicketInv'
<1> USE NoneIs
<1>1. /\ Evolves /\ OwnThreads' /\ PageInv' /\ Reacts(r) /\ Serves(r) /\ ServerTypes' /\ seen.typed \subseteq seen'.typed
      /\ work.id \in Sends /\ AtWork
  BY RequestEvolves, RequestThreads, PageNow, WorkIs DEF Requests, Serves, Reacts
<1>2. CASE work # None /\ work.thread /\ work.to # None
  BY <1>1, <1>2, TicketsStay
<1>3. CASE ~(work # None /\ work.thread /\ work.to # None)
  <2>1. ASSUME work' # None, work'.thread, work'.to # None
        PROVE  TicketFine(Ticket(work))'
    <3>1. Keeps(r)
      BY <1>1, <2>1 DEF Reacts, Lands, GivesUp
    <3>2. PICK v, k : v = work' /\ k = Ticket(v)
      OBVIOUS
    <3>3. v \in WorkRow /\ k.to = v.to /\ k.base = v.base
      BY <1>1, <2>1, <3>2, TicketIs DEF PageInv, PageTypes
    <3>4. TicketFine(k)'
      <4>1. CASE r = "ok" /\ flow.pc \in ThreadPcs /\ work'.to = work.id /\ work'.base = 0
        <5>1. conv'[k.to].made /\ k.base = 0 /\ k.to \in Trees
          BY <1>1, <3>2, <3>3, <4>1 DEF Serves, Sends, Trees
        <5>2. /\ conv'[k.to].rev \in Nat
              /\ conv'[k.to].live # None => conv'[k.to].rev > 0
          BY <1>1, <5>1 DEF ServerTypes, ConvRow
        <5> QED BY <5>1, <5>2 DEF TicketFine, ThreadFine
      <4>2. CASE /\ r = "ok" /\ flow.pc = "snapshot" /\ work'.to = page.thread /\ page.thread # None
                 /\ work'.base = conv[page.thread].rev /\ conv[page.thread].live = None
        <5>1. /\ conv' = conv /\ k.to = page.thread /\ k.base = conv'[k.to].rev /\ conv'[k.to].live = None
              /\ k.to \in Trees
          BY <1>1, <3>2, <3>3, <4>2, PageIs DEF Serves
        <5>2. ThreadFine(k.to)'
          BY <1>1, <4>2, <5>1, ThreadFineStays DEF TicketInv
        <5>3. conv'[k.to].rev \in Nat
          BY <1>1, <5>1 DEF ServerTypes, ConvRow
        <5> QED BY <5>1, <5>2, <5>3 DEF TicketFine
      <4>3. work # None
        BY <1>1, PageNow
      <4> QED BY <1>3, <2>1, <3>1, <4>1, <4>2, <4>3 DEF Keeps
    <3>5. Ticket(work)' = k
      BY <3>2 DEF Ticket
    <3> QED BY <3>4, <3>5 DEF TicketFine, ThreadFine, Barren
  <2>2. OwnTicket'
    BY <2>1 DEF OwnTicket
  <2> QED BY <1>1, <2>2, TicketsStay
<1> QED BY <1>2, <1>3

-----------------------------------------------------------------------------
(* What is known of the page's send, and what may be a turn.               *)

\* A turn is taken for a request of the page's send or of one given up.
TurnsOne ==
  accepted' = accepted \/ \E q \in TicketRow : Turns(q) /\ (Runs(q) \/ (work # None /\ q = Ticket(work)))

\* A send that loses its doubt, or never had one, has no request that could be taken.
Knows ==
  work' # None /\ work # None /\ work.text \notin Escaped' =>
    /\ work.doubt = "run" => work'.doubt = "run"
    /\ work'.doubt # "run" =>
         /\ \A q \in stray' : q.op = "run" => \E p \in stray : p.op = "run" /\ p.ticket = q.ticket
         /\ accepted' = accepted \/ \E q \in TicketRow : Turns(q) /\ Runs(q)

LEMMA AcceptedIds ==
  ASSUME ServerTypes, ClaimInv, NEW k \in DOMAIN accepted
  PROVE  k \in Sends /\ k <= sends /\ accepted[k] \in Texts /\ accepted[k] \in seen.typed
<1>1. k \in Sends /\ accepted[k] \in Texts
  BY DEF ServerTypes
<1> QED BY <1>1 DEF ClaimInv, May

LEMMA KnownStays ==
  ASSUME ServerTypes, PageInv, PageInv', TicketInv, KnownInv, ClaimInv, Evolves, TurnsOne, Knows, Escaped \subseteq Escaped'
  PROVE  KnownInv'
<1> USE NoneIs
<1>0. sends \in Nat
  BY DEF PageInv, PageTypes, Trees
<1> SUFFICES ASSUME work' # None
             PROVE  /\ work'.id \in DOMAIN accepted' => accepted'[work'.id] = work'.text
                    /\ \A q \in stray' : q.ticket.id = work'.id => q.ticket.text = work'.text
                    /\ work'.text \notin Escaped' =>
                         /\ work'.doubt # "run" => work'.id \notin DOMAIN accepted'
                         /\ \A k \in TicketRow : Runs(k)' /\ k.id = work'.id => work'.doubt = "run" /\ k = Ticket(work')
  <2>1. PICK v : v = work'
    OBVIOUS
  <2>2. Ticket(v) = Ticket(work)'
    BY <2>1 DEF Ticket
  <2>3. Ticket(v) = Ticket(work')
    BY <2>1
  <2> QED BY <2>2, <2>3 DEF KnownInv
<1>1. CASE Begins
  <2>1. work'.id = sends + 1 /\ stray' = stray /\ accepted' = accepted
    BY <1>1 DEF Begins
  <2>2. work'.id \notin DOMAIN accepted
    BY <1>0, <2>1, AcceptedIds
  <2>3. \A q \in stray : q.ticket.id # work'.id
    BY <1>0, <2>1, StrayTicket DEF TicketInv, Sends
  <2> QED BY <2>1, <2>2, <2>3 DEF Runs
<1>2. CASE Follows
  <2>1. /\ work # None /\ work'.id = work.id /\ work'.text = work.text /\ work \in WorkRow /\ Core(work)
        /\ Ticket(work) \in TicketRow /\ Ticket(work).id = work.id /\ Ticket(work).text = work.text
    BY <1>2, WorkIs, TicketIs DEF Follows
  <2>2. work.to # None => Ticket(work') = Ticket(work)
    BY <1>2, WorkIs, SameTicket DEF Follows, PageInv, PageTypes
  <2>3. ASSUME NEW q \in TicketRow, Turns(q), q.id = work.id, Runs(q) \/ q = Ticket(work)
        PROVE  q.text = work.text
    BY <2>1, <2>3 DEF KnownInv, Runs
  <2>4. work.id \in DOMAIN accepted' => accepted'[work.id] = work.text
    BY <2>1, <2>3 DEF TurnsOne, Turns, KnownInv
  <2>5. \A q \in stray' : q.ticket.id = work.id => q.ticket.text = work.text
    BY <2>1 DEF Evolves, Strays, KnownInv
  <2>6. ASSUME work.text \notin Escaped', work'.doubt # "run"
        PROVE  work.id \notin DOMAIN accepted'
    <3>1. work.text \notin Escaped /\ work.doubt # "run"
      BY <2>1, <2>6 DEF Knows
    <3>2. work.id \notin DOMAIN accepted /\ \A q \in TicketRow : Runs(q) => q.id # work.id
      BY <2>1, <3>1 DEF KnownInv
    <3>3. accepted' = accepted \/ \E q \in TicketRow : Turns(q) /\ Runs(q)
      BY <2>1, <2>6 DEF Knows
    <3> QED BY <3>2, <3>3 DEF Turns
  <2>7. ASSUME work.text \notin Escaped', NEW k \in TicketRow, Runs(k)', k.id = work.id
        PROVE  work'.doubt = "run" /\ k = Ticket(work')
    <3>1. PICK q \in stray' : q.op = "run" /\ q.ticket = k
      BY <2>7 DEF Runs
    <3>2. work.text \notin Escaped
      BY <2>7
    <3>3. ASSUME Runs(k)
          PROVE  work.doubt = "run" /\ k = Ticket(work)
      BY <2>1, <2>7, <3>2, <3>3 DEF KnownInv
    <3>4. ASSUME NEW p \in stray, p.op = "run", p.ticket = q.ticket
          PROVE  Runs(k)
      BY <3>1, <3>4 DEF Runs
    <3>5. work'.doubt = "run"
      <4> SUFFICES ASSUME work'.doubt # "run" PROVE FALSE
        OBVIOUS
      <4>1. Runs(k)
        BY <2>1, <2>7, <3>1, <3>4 DEF Knows
      <4> QED BY <2>1, <2>7, <3>3, <4>1 DEF Knows
    <3>6. CASE Runs(k)
      BY <2>1, <2>2, <3>3, <3>5, <3>6 DEF Core
    <3>7. CASE ~Runs(k)
      <4>1. Strays(q)
        BY <3>1, <3>4, <3>7 DEF Evolves
      <4> QED BY <2>2, <3>1, <3>5, <4>1 DEF Strays
    <3> QED BY <3>6, <3>7
  <2> QED BY <2>1, <2>4, <2>5, <2>6, <2>7
<1> QED BY <1>1, <1>2 DEF Evolves

\* Nothing that could not be a turn may become one, but for a new send.
LEMMA NoNewMay ==
  ASSUME ServerTypes, ServerTypes', PageInv, PageInv', TicketInv, Evolves, TurnsOne,
         NEW k \in Sends, NEW n \in Texts, May(k, n)'
  PROVE  May(k, n) \/ (work' # None /\ Begins /\ k = sends' /\ n = work'.text)
<1> USE NoneIs
<1>1. work # None => Ticket(work) \in TicketRow /\ Ticket(work).id = work.id /\ Ticket(work).text = work.text
  BY WorkIs, TicketIs
<1>2. ASSUME NEW q \in TicketRow, Runs(q), q.id = k, q.text = n, Takes(q)
      PROVE  May(k, n)
  BY <1>2 DEF May
<1>3. CASE k \in DOMAIN accepted' /\ accepted'[k] = n
  <2>1. CASE k \in DOMAIN accepted /\ accepted[k] = n
    BY <2>1 DEF May
  <2>2. CASE \E q \in TicketRow : Turns(q) /\ (Runs(q) \/ (work # None /\ q = Ticket(work)))
    <3>1. PICK q \in TicketRow : Turns(q) /\ (Runs(q) \/ (work # None /\ q = Ticket(work)))
      BY <2>2
    <3>2. CASE k \in DOMAIN accepted
      BY <1>3, <3>1, <3>2 DEF Turns, May
    <3>3. CASE k \notin DOMAIN accepted
      <4>1. q.id = k /\ q.text = n /\ Takes(q)
        BY <1>3, <3>1, <3>3 DEF Turns
      <4> QED BY <1>1, <1>2, <3>1, <4>1 DEF May
    <3> QED BY <3>2, <3>3
  <2> QED BY <1>3, <2>1, <2>2 DEF TurnsOne
<1>4. ASSUME NEW q \in TicketRow, Runs(q)', q.id = k, q.text = n, Takes(q)'
      PROVE  May(k, n)
  <2>1. PICK s \in stray' : s.op = "run" /\ s.ticket = q
    BY <1>4 DEF Runs
  <2>2. CASE Strays(s)
    BY <1>1, <1>4, <2>1, <2>2 DEF Strays, May
  <2>3. CASE \E p \in stray : p.op = s.op /\ p.ticket = s.ticket
    <3>1. Runs(q)
      BY <2>1, <2>3 DEF Runs
    <3>2. Takes(q)
      BY <1>4, <3>1, TicketFineStays DEF TicketInv
    <3> QED BY <1>2, <1>4, <3>1, <3>2
  <2> QED BY <2>2, <2>3 DEF Evolves
<1>5. CASE work' # None /\ work'.id = k /\ work'.text = n
  <2>1. CASE Follows
    BY <1>5, <2>1 DEF Follows, May
  <2>2. CASE Begins
    BY <1>5, <2>2 DEF Begins
  <2> QED BY <1>5, <2>1, <2>2 DEF Evolves
<1> QED BY <1>3, <1>4, <1>5 DEF May

\* A text whose composer holds it anew belongs to the page's send.
Composes ==
  \A k \in Sends, n \in Texts \ Escaped' : May(k, n)' /\ page'.composer = n => work' # None /\ work'.id = k

\* A new send is of a text that cannot be a turn already.
Fresh ==
  work' # None /\ Begins =>
    /\ work'.text \in seen'.typed
    /\ work'.text \notin Escaped' => \A k \in Sends : ~May(k, work'.text)

LEMMA ClaimsStay ==
  ASSUME ServerTypes, ServerTypes', PageInv, PageInv', TicketInv, ClaimInv, Evolves, TurnsOne,
         Escaped \subseteq Escaped', seen.typed \subseteq seen'.typed, Composes, Fresh
  PROVE  ClaimInv'
<1> USE NoneIs
<1>0. sends \in Nat /\ sends' \in Nat /\ sends <= sends' /\ Sends \subseteq Nat
  BY DEF PageInv, PageTypes, Trees, Evolves, Sends
<1>1. ASSUME NEW k \in Sends, NEW n \in Texts, May(k, n)'
      PROVE  k <= sends' /\ n \in seen'.typed
  <2>1. CASE May(k, n)
    BY <1>0, <2>1 DEF ClaimInv
  <2>2. CASE work' # None /\ Begins /\ k = sends' /\ n = work'.text
    BY <1>0, <2>2 DEF Fresh
  <2> QED BY <1>1, <2>1, <2>2, NoNewMay
<1>2. ASSUME NEW n \in Texts \ Escaped', NEW k \in Sends, NEW l \in Sends, May(k, n)', May(l, n)'
      PROVE  k = l
  <2>1. n \notin Escaped
    BY <1>2
  <2>2. CASE May(k, n) /\ May(l, n)
    BY <2>1, <2>2 DEF ClaimInv
  <2>3. CASE ~(May(k, n) /\ May(l, n))
    <3>1. work' # None /\ Begins /\ n = work'.text /\ (k = sends' \/ l = sends')
      BY <1>2, <2>3, NoNewMay
    <3>2. ~May(k, n) /\ ~May(l, n)
      BY <1>2, <3>1 DEF Fresh
    <3> QED BY <1>2, <3>2, NoNewMay
  <2> QED BY <2>2, <2>3
<1>3. \A k \in Sends, n \in Texts \ Escaped' : May(k, n)' /\ page'.composer = n => work' # None /\ work'.id = k
  BY DEF Composes
<1> QED BY <1>1, <1>2, <1>3 DEF ClaimInv

LEMMA DeniedStays ==
  ASSUME ServerTypes, ServerTypes', PageInv, PageInv', TicketInv, DeniedInv, Evolves, TurnsOne,
         Escaped \subseteq Escaped',
         \A k \in seen'.denied \ seen.denied :
           k <= sends' /\ work' = None /\ \A n \in Texts : May(k, n)' => n \in Escaped'
  PROVE  DeniedInv'
<1> USE NoneIs
<1>0. sends \in Nat /\ sends' \in Nat /\ sends <= sends' /\ Sends \subseteq Nat /\ seen.denied \subseteq Sends
  BY PageIs DEF PageInv, PageTypes, Trees, Evolves, Sends, SeenRow
<1>1. ASSUME NEW k \in seen.denied
      PROVE  /\ k <= sends' /\ (work' # None => work'.id # k)
             /\ \A n \in Texts : May(k, n)' => n \in Escaped'
  <2>1. k \in Sends /\ k <= sends /\ (work # None => work.id # k) /\ \A n \in Texts : May(k, n) => n \in Escaped
    BY <1>0 DEF DeniedInv
  <2>2. work' # None => work'.id # k
    BY <1>0, <2>1 DEF Evolves, Follows, Begins
  <2>3. ASSUME NEW n \in Texts, May(k, n)'
        PROVE  n \in Escaped'
    <3>1. CASE May(k, n)
      BY <2>1, <3>1
    <3>2. CASE Begins /\ k = sends'
      BY <1>0, <2>1, <3>2 DEF Begins
    <3> QED BY <2>1, <2>3, <3>1, <3>2, NoNewMay
  <2>4. k <= sends'
    <3>1. k \in Nat
      BY <1>0, <2>1
    <3> QED BY <1>0, <2>1, <3>1
  <2> QED BY <2>2, <2>3, <2>4
<1> QED BY <1>1 DEF DeniedInv

LEMMA OwnText ==
  ASSUME KnownInv, work # None, NEW n, May(work.id, n)
  PROVE  n = work.text
BY DEF KnownInv, May, Runs

\* A send given up is no turn, nor ever will be, unless its text escapes.
LEMMA GivenUpIsNone ==
  ASSUME ServerTypes, PageInv, TicketInv, KnownInv, NEW r, Requests(r), GivesUp(r),
         NEW n \in Texts, NEW k, k = work.id, May(k, n)'
  PROVE  n \in Escaped /\ n = work.text
<1> USE NoneIs
<1>1. /\ Evolves /\ PageInv' /\ Serves(r) /\ ServerTypes' /\ work # None /\ work' = None /\ AtWork
      /\ work \in WorkRow /\ work.id \in Sends /\ Ticket(work) \in TicketRow
      /\ Ticket(work).id = work.id /\ Ticket(work).text = work.text /\ flow.pc \in WorkPcs
  BY RequestEvolves, PageNow, WorkIs, TicketIs, FlowIs DEF Requests, Serves, GivesUp
<1>2. TurnsOne
  BY <1>1 DEF Serves, TurnsOne
<1>3. May(work.id, n) /\ n = work.text
  <2>1. May(k, n)
    BY <1>1, <1>2, NoNewMay
  <2> QED BY <1>1, <2>1, OwnText
<1> SUFFICES ASSUME work.text \notin Escaped PROVE FALSE
  BY <1>3
<1>4. /\ ~(r = "ok" /\ flow.pc \in RunPcs) /\ ~(r = "fault" /\ flow.pc \in RunPcs)
      /\ r = "reject" \/ work.doubt # "run"
  BY DEF GivesUp
<1>5. accepted' = accepted
  BY <1>1, <1>4 DEF Serves
<1>6. work.id \notin DOMAIN accepted
  BY <1>1, <1>4 DEF Serves, KnownInv
<1>7. PICK q \in TicketRow : Runs(q)' /\ q.id = work.id /\ Takes(q)'
  BY <1>1, <1>5, <1>6 DEF May
<1>8. Runs(q)
  <2>1. PICK s \in stray' : s.op = "run" /\ s.ticket = q
    BY <1>7 DEF Runs
  <2>2. s \in stray
    BY <1>1, <1>4, <2>1, PcIs DEF Serves
  <2> QED BY <2>1, <2>2 DEF Runs
<1>9. work.doubt = "run" /\ q = Ticket(work)
  BY <1>1, <1>7, <1>8 DEF KnownInv
<1>10. r = "reject"
  BY <1>4, <1>9
<1>11. ~Takes(q) /\ conv' = conv
  BY <1>1, <1>9, <1>10 DEF Serves
<1> QED BY <1>7, <1>11 DEF Takes

LEMMA EscapedGrows ==
  ASSUME seen.probed \subseteq seen'.probed, seen.revoked \subseteq seen'.revoked
  PROVE  Escaped \subseteq Escaped'
BY DEF Escaped

LEMMA RequestKnows ==
  ASSUME ServerTypes, PageInv, NEW r, Requests(r)
  PROVE  TurnsOne /\ Knows /\ Fresh /\ Escaped \subseteq Escaped' /\ seen.typed \subseteq seen'.typed
<1> USE NoneIs
<1>1. /\ Reacts(r) /\ Serves(r) /\ AtWork /\ work # None /\ work \in WorkRow /\ Ticket(work) \in TicketRow
      /\ flow.pc \in WorkPcs
  BY PageNow, TicketIs, FlowIs DEF Requests
<1>2. TurnsOne
  BY <1>1 DEF Serves, TurnsOne
<1>3. Escaped \subseteq Escaped'
  BY <1>1, EscapedGrows DEF Reacts
<1>4. ASSUME work' # None, work.text \notin Escaped'
      PROVE  /\ work.doubt = "run" => work'.doubt = "run"
             /\ work'.doubt # "run" =>
                  /\ \A q \in stray' : q.op = "run" => \E p \in stray : p.op = "run" /\ p.ticket = q.ticket
                  /\ accepted' = accepted
  <2>1. Keeps(r) /\ work.text \notin Escaped
    BY <1>1, <1>3, <1>4 DEF Reacts, Lands, GivesUp
  <2>2. ~(r = "ok" /\ flow.pc \in RunPcs)
    BY <2>1 DEF Keeps
  <2>3. ASSUME work'.doubt # "run", NEW q \in stray', q.op = "run"
        PROVE  q \in stray
    <3>1. ~(r = "fault" /\ flow.pc \in RunPcs)
      BY <2>1, <2>3 DEF Keeps
    <3> QED BY <1>1, <2>3, <3>1, PcIs DEF Serves
  <2> QED BY <1>1, <2>1, <2>2, <2>3 DEF Keeps, Serves
<1>5. Knows
  BY <1>4 DEF Knows
<1>6. Fresh
  BY <1>1 DEF Fresh, Begins
<1> QED BY <1>1, <1>2, <1>3, <1>5, <1>6 DEF Reacts

LEMMA RequestComposes ==
  ASSUME SendInv, NEW r, Requests(r)
  PROVE  Composes
<1> USE NoneIs
<1>0. ServerTypes /\ PageInv /\ TicketInv /\ KnownInv /\ ClaimInv
  BY DEF SendInv
<1>1. /\ Reacts(r) /\ Serves(r) /\ AtWork /\ work # None /\ PageInv' /\ ServerTypes' /\ Evolves /\ TurnsOne
      /\ work.id \in Sends /\ work.text \in Texts /\ page.composer \in {None, work.text}
      /\ Escaped \subseteq Escaped'
  BY <1>0, PageNow, WorkIs, RequestEvolves, RequestKnows DEF Requests, Serves
<1>2. ASSUME NEW k \in Sends, NEW n \in Texts \ Escaped', May(k, n)', page'.composer = n
      PROVE  work' # None /\ work'.id = k
  <2>1. n \notin Escaped /\ n # None
    BY <1>1, <1>2
  <2>2. May(k, n)
    BY <1>0, <1>1, <1>2, NoNewMay DEF Begins
  <2>3. CASE Keeps(r)
    <3>1. n = work.text
      BY <1>1, <1>2, <2>1, <2>3 DEF Keeps
    <3>2. May(work.id, n)
      BY <1>1, <3>1 DEF May
    <3>3. k = work.id
      BY <1>0, <1>1, <1>2, <2>1, <2>2, <3>2 DEF ClaimInv
    <3> QED BY <2>3, <3>3 DEF Keeps
  <2>4. CASE Lands(r)
    BY <1>2, <2>1, <2>4 DEF Lands, Escaped
  <2>5. CASE GivesUp(r)
    <3>1. n = work.text
      BY <1>1, <1>2, <2>1, <2>5 DEF GivesUp
    <3>2. May(work.id, n)
      BY <1>1, <3>1 DEF May
    <3>3. k = work.id
      BY <1>0, <1>1, <1>2, <2>1, <2>2, <3>2 DEF ClaimInv
    <3>4. n \in Escaped
      BY <1>0, <1>2, <2>5, <3>3, GivenUpIsNone
    <3> QED BY <2>1, <3>4
  <2> QED BY <1>1, <2>3, <2>4, <2>5 DEF Reacts
<1> QED BY <1>2 DEF Composes

-----------------------------------------------------------------------------
(* Every step keeps the invariant.                                         *)

\* What is a turn stays one.
LEMMA TurnsStay ==
  ASSUME TurnsOne, NEW n, Accepted(n) # {}
  PROVE  Accepted(n)' # {}
BY DEF TurnsOne, Turns, Accepted

\* What was typed is still held after a step that leaves the composer and the send.
LEMMA KeptStays ==
  ASSUME PageInv, WorkIsKept, TurnsOne, work' = work, page'.composer = page.composer,
         seen'.typed = seen.typed, seen.barred \subseteq seen'.barred, seen.revoked \subseteq seen'.revoked
  PROVE  WorkIsKept'
<1>1. ASSUME NEW n \in seen.typed \ (seen'.barred \cup seen'.revoked)
      PROVE  Held(n)'
  BY <1>1, TurnsStay DEF WorkIsKept, Held
<1> QED BY <1>1 DEF WorkIsKept

LEMMA RequestHolds ==
  ASSUME SendInv, NEW r, Requests(r)
  PROVE  WorkIsKept'
<1> USE NoneIs
<1>0. ServerTypes /\ PageInv /\ TicketInv /\ KnownInv /\ WorkIsKept
  BY DEF SendInv
<1>1. /\ Reacts(r) /\ Serves(r) /\ TurnsOne /\ AtWork /\ work # None /\ page.composer \in {None, work.text}
      /\ work \in WorkRow /\ Ticket(work).id = work.id /\ Ticket(work).text = work.text /\ work.text \in Texts
  BY <1>0, RequestKnows, PageNow, WorkIs, TicketIs DEF Requests
<1>2. ASSUME NEW n \in seen.typed \ (seen.barred \cup seen.revoked)
      PROVE  Held(n)'
  <2>1. Held(n)
    BY <1>0, <1>2 DEF WorkIsKept
  <2>2. n # None
    BY <1>0, <1>2, PageIs DEF SeenRow
  <2>3. CASE Accepted(n) # {}
    BY <1>1, <2>3, TurnsStay DEF Held
  <2>4. CASE n = work.text
    <3>1. CASE Keeps(r)
      BY <2>4, <3>1 DEF Keeps, Held
    <3>2. CASE Lands(r)
      <4>1. work.id \in DOMAIN accepted'
        BY <1>1, <3>2 DEF Lands, Serves
      <4>2. accepted'[work.id] = work.text
        BY <1>0, <1>1, <4>1 DEF Serves, Turns, KnownInv
      <4> QED BY <2>4, <4>1, <4>2 DEF Held, Accepted
    <3>3. CASE GivesUp(r)
      BY <1>2, <2>4, <3>3 DEF GivesUp, Held
    <3> QED BY <1>1, <3>1, <3>2, <3>3 DEF Reacts
  <2> QED BY <1>1, <2>1, <2>2, <2>3, <2>4 DEF Held
<1> QED BY <1>1, <1>2 DEF WorkIsKept, Reacts

LEMMA RequestKeeps ==
  ASSUME SendInv, NEW r, Requests(r)
  PROVE  SendInv'
<1> USE NoneIs
<1>0. ServerTypes /\ PageInv /\ TicketInv /\ KnownInv /\ ClaimInv /\ DeniedInv
  BY DEF SendInv
<1>1. /\ ServerTypes' /\ PageInv' /\ Evolves /\ TurnsOne /\ Knows /\ Fresh /\ Composes /\ TicketInv'
      /\ Escaped \subseteq Escaped' /\ seen.typed \subseteq seen'.typed
      /\ Reacts(r) /\ AtWork /\ work # None /\ work.id \in Sends
  BY <1>0, RequestEvolves, RequestTickets, RequestKnows, RequestComposes, PageNow, WorkIs DEF Requests, Serves
<1>2. KnownInv' /\ ClaimInv'
  BY <1>0, <1>1, KnownStays, ClaimsStay
<1>3. ASSUME NEW k \in seen'.denied \ seen.denied
      PROVE  k <= sends' /\ work' = None /\ \A n \in Texts : May(k, n)' => n \in Escaped'
  <2>1. GivesUp(r)
    BY <1>1, <1>3 DEF Reacts, Keeps, Lands
  <2>2. k = work.id /\ work' = None
    BY <1>3, <2>1 DEF GivesUp
  <2>3. k <= sends'
    <3>1. k <= sends /\ k \in Nat /\ sends \in Nat /\ sends' \in Nat /\ sends <= sends'
      BY <1>0, <1>1, <2>2, WorkIs DEF Core, Sends, Evolves, PageInv, PageTypes, Trees
    <3> QED BY <3>1
  <2>4. \A n \in Texts : May(k, n)' => n \in Escaped'
    BY <1>0, <1>1, <2>1, <2>2, GivenUpIsNone
  <2> QED BY <2>2, <2>3, <2>4
<1>4. DeniedInv'
  BY <1>0, <1>1, <1>3, DeniedStays
<1> QED BY <1>1, <1>2, <1>4, RequestHolds DEF SendInv

LEMMA QuietKeeps ==
  ASSUME SendInv, PageInv', ServerTypes', Evolves, TurnsOne, Knows, Fresh, Composes, OwnThreads',
         (work # None /\ work.thread /\ work.to # None) \/ OwnTicket',
         seen.typed \subseteq seen'.typed, seen'.denied = seen.denied, Escaped \subseteq Escaped', WorkIsKept'
  PROVE  SendInv'
<1>0. ServerTypes /\ PageInv /\ TicketInv /\ KnownInv /\ ClaimInv /\ DeniedInv
  BY DEF SendInv
<1>1. TicketInv' /\ KnownInv' /\ ClaimInv' /\ DeniedInv'
  BY <1>0, TicketsStay, KnownStays, ClaimsStay, DeniedStays
<1> QED BY <1>1 DEF SendInv

\* A step that leaves the composer and the page's send, or empties the composer.
LEMMA StepComposes ==
  ASSUME ServerTypes, ServerTypes', PageInv, PageInv', TicketInv, ClaimInv, Evolves, TurnsOne,
         Escaped \subseteq Escaped', page'.composer \in {None, page.composer},
         work # None => work' # None
  PROVE  Composes
<1> USE NoneIs
<1>1. ASSUME NEW k \in Sends, NEW n \in Texts \ Escaped', May(k, n)', page'.composer = n
      PROVE  work' # None /\ work'.id = k
  <2>1. n \notin Escaped /\ n # None /\ page.composer = n
    BY <1>1
  <2>2. May(k, n)
    BY <1>1, <2>1, NoNewMay DEF Begins
  <2>3. work # None /\ work.id = k
    BY <1>1, <2>1, <2>2 DEF ClaimInv
  <2> QED BY <2>3 DEF Evolves, Follows, Begins
<1> QED BY <1>1 DEF Composes

\* A step that changes nothing of the page's send and gives up no request of it.
LEMMA SendSame ==
  ASSUME ServerTypes, ServerTypes', PageInv, PageInv', SendInv, UNCHANGED <<work, sends>>, Grows,
         \A t \in Trees : ~conv[t].made /\ conv'[t].made => \E q \in stray : q.op = "thread" /\ q.ticket.id = t,
         \A q \in stray' : \E p \in stray : p.op = q.op /\ p.ticket = q.ticket,
         accepted' = accepted \/ \E q \in TicketRow : Turns(q) /\ Runs(q),
         seen'.typed = seen.typed, seen'.denied = seen.denied, seen.barred \subseteq seen'.barred,
         seen.probed \subseteq seen'.probed, seen.revoked \subseteq seen'.revoked,
         page'.composer = page.composer,
         \A t \in {page'.thread, page'.back} : t = None \/ (t \in Trees /\ ThreadFine(t))
  PROVE  SendInv'
<1> USE NoneIs
<1>0. TicketInv /\ KnownInv /\ ClaimInv /\ DeniedInv
  BY DEF SendInv
<1>1. Follows \/ work' = None
  BY DEF Follows
<1>2. Evolves
  BY <1>1 DEF Evolves, PageInv, PageTypes, Trees
<1>3. TurnsOne
  BY DEF TurnsOne
<1>4. Escaped \subseteq Escaped'
  BY EscapedGrows
<1>5. Knows
  <2>1. \A q \in stray' : q.op = "run" => \E p \in stray : p.op = "run" /\ p.ticket = q.ticket
    OBVIOUS
  <2> QED BY <2>1 DEF Knows
<1>6. Fresh
  BY DEF Fresh, Begins
<1>7. Composes
  BY <1>0, <1>2, <1>3, <1>4, StepComposes
<1>8. (work # None /\ work.thread /\ work.to # None) \/ OwnTicket'
  BY DEF OwnTicket
<1>9. OwnThreads'
  <2>1. ASSUME NEW t, t \in {page'.thread, page'.back}, t # None
        PROVE  ThreadFine(t)'
    BY <1>2, <2>1, ThreadFineStays
  <2>2. PICK t, b : t = page'.thread /\ b = page'.back
    OBVIOUS
  <2>3. (t # None => ThreadFine(t)') /\ (b # None => ThreadFine(b)')
    BY <2>1, <2>2
  <2> QED BY <2>2, <2>3 DEF OwnThreads, ThreadFine, Barren
<1>10. WorkIsKept'
  BY <1>3, KeptStays DEF SendInv
<1> QED BY <1>2, <1>3, <1>4, <1>5, <1>6, <1>7, <1>8, <1>9, <1>10, QuietKeeps

\* A step of the page alone.
LEMMA PageStep ==
  ASSUME SendInv, PageInv', UNCHANGED <<conv, accepted, stray, work, sends>>,
         seen'.typed = seen.typed, seen'.denied = seen.denied, seen.barred \subseteq seen'.barred,
         seen.probed \subseteq seen'.probed, seen.revoked \subseteq seen'.revoked,
         page'.composer = page.composer,
         \A t \in {page'.thread, page'.back} : t = None \/ (t \in Trees /\ ThreadFine(t))
  PROVE  SendInv'
<1>1. ServerTypes /\ PageInv /\ ServerTypes'
  BY DEF SendInv, ServerTypes
<1>2. Grows
  BY <1>1, ServerParts, SameGrows
<1>3. /\ \A t \in Trees : ~conv[t].made /\ conv'[t].made => \E q \in stray : q.op = "thread" /\ q.ticket.id = t
      /\ \A q \in stray' : \E p \in stray : p.op = q.op /\ p.ticket = q.ticket
  OBVIOUS
<1> QED BY <1>1, <1>2, <1>3, SendSame

LEMMA ThreadsFine ==
  ASSUME SendInv
  PROVE  \A t \in {page.thread, page.back} : t = None \/ (t \in Trees /\ ThreadFine(t))
BY PageIs DEF SendInv, TicketInv

LEMMA ArriveStep ==
  ASSUME SendInv, Arrive
  PROVE  SendInv'
<1>1. PageInv'
  BY ArriveKeeps DEF SendInv
<1>2. UNCHANGED <<conv, accepted, stray, work, sends, page, seen>>
  BY DEF Arrive, server
<1> QED BY <1>1, <1>2, ThreadsFine, PageStep

LEMMA RereadStep ==
  ASSUME SendInv, Reread
  PROVE  SendInv'
<1>1. PageInv' /\ page'.composer = page.composer /\ page'.thread = page.back /\ page'.back = None
  BY RereadKeeps DEF SendInv
<1>2. UNCHANGED <<conv, accepted, stray, work, sends, seen>>
  BY DEF Reread, server
<1> QED BY <1>1, <1>2, ThreadsFine, PageStep

LEMMA OpenStep ==
  ASSUME SendInv, NEW t \in (DOMAIN conv) \cup {None}, Open(t)
  PROVE  SendInv'
<1>1. PageInv' /\ page'.composer = page.composer /\ page'.thread = t /\ page'.back = page.back
  BY OpenKeeps DEF SendInv
<1>2. UNCHANGED <<conv, accepted, stray, work, sends, seen>>
  BY DEF Open, server
<1>3. t = None \/ (t \in Trees /\ ThreadFine(t))
  BY DEF Open, ThreadFine, SendInv, ServerTypes
<1> QED BY <1>1, <1>2, <1>3, ThreadsFine, PageStep

LEMMA StreamEndsStep ==
  ASSUME SendInv, StreamEnds
  PROVE  SendInv'
<1>1. /\ PageInv' /\ page'.composer = page.composer
      /\ page'.thread \in {page.thread, None} /\ page'.back \in {page.back, page.thread}
  BY StreamEndsKeeps DEF SendInv
<1>2. UNCHANGED <<conv, accepted, stray, work, sends, seen>>
  BY DEF StreamEnds, server
<1> QED BY <1>1, <1>2, ThreadsFine, PageStep

LEMMA GenerationEndsStep ==
  ASSUME SendInv, GenerationEnds
  PROVE  SendInv'
<1>1. PageInv' /\ page'.composer = page.composer /\ page'.thread = page.thread /\ page'.back = page.back
  BY GenerationEndsKeeps DEF SendInv
<1>2. UNCHANGED <<conv, accepted, stray, work, sends, seen>>
  BY DEF GenerationEnds, server
<1> QED BY <1>1, <1>2, ThreadsFine, PageStep

LEMMA RevalidateStep ==
  ASSUME SendInv, Revalidate
  PROVE  SendInv'
<1>1. /\ PageInv' /\ page'.composer = page.composer /\ page'.thread = None /\ page'.back = page.thread
      /\ seen'.typed = seen.typed /\ seen'.barred = seen.barred /\ seen'.denied = seen.denied
      /\ seen'.probed = seen.probed /\ seen.revoked \subseteq seen'.revoked
  BY RevalidateKeeps DEF SendInv
<1>2. UNCHANGED <<conv, accepted, stray, work, sends>>
  BY DEF Revalidate, server
<1> QED BY <1>1, <1>2, ThreadsFine, PageStep

LEMMA LoginStep ==
  ASSUME SendInv, Login
  PROVE  SendInv'
<1> USE NoneIs
<1>1. /\ PageInv' /\ page'.composer = page.composer /\ page'.back = page.back
      /\ page'.thread = IF page.kept /\ work.thread THEN work.to ELSE page.back
      /\ page.kept => work # None
  BY LoginKeeps DEF SendInv
<1>2. UNCHANGED <<conv, accepted, stray, work, sends, seen>>
  BY DEF Login, server
<1>3. ASSUME page.kept, work.thread, work.to # None
      PROVE  work.to \in Trees /\ ThreadFine(work.to)
  <2>1. work # None /\ work \in WorkRow
    BY <1>1, <1>3, WorkIs DEF SendInv
  <2>2. TicketFine(Ticket(work)) /\ Ticket(work).to = work.to
    BY <1>3, <2>1, TicketIs DEF SendInv, TicketInv
  <2> QED BY <2>2 DEF TicketFine
<1> QED BY <1>1, <1>2, <1>3, ThreadsFine, PageStep

\* A step of the world or of the server alone.
LEMMA ServerStep ==
  ASSUME SendInv, ServerTypes', UNCHANGED <<page, work, flow, sends, seen>>, Grows,
         \A t \in Trees : ~conv[t].made /\ conv'[t].made => \E q \in stray : q.op = "thread" /\ q.ticket.id = t,
         \A q \in stray' : \E p \in stray : p.op = q.op /\ p.ticket = q.ticket,
         accepted' = accepted \/ \E q \in TicketRow : Turns(q) /\ Runs(q)
  PROVE  SendInv'
<1>1. ServerTypes /\ PageInv
  BY DEF SendInv
<1>2. PageInv'
  BY <1>1, PageSame
<1> QED BY <1>1, <1>2, ThreadsFine, SendSame

LEMMA RefreshSignedOutStep ==
  ASSUME SendInv, RefreshSignedOut
  PROVE  SendInv'
<1>1. UNCHANGED <<conv, accepted, stray, work, sends, page, seen, flow>>
  BY DEF RefreshSignedOut
<1>2. PageInv'
  BY <1>1, PageSame DEF SendInv
<1> QED BY <1>1, <1>2, ThreadsFine, PageStep

LEMMA WorldStep ==
  ASSUME SendInv, World
  PROVE  SendInv'
<1> USE NoneIs
<1>1. UNCHANGED <<accepted, stray, page, work, flow, sends, seen>>
  BY DEF World
<1>2. ServerTypes /\ ConvTypes
  BY ServerParts DEF SendInv
<1>3. CASE conv' = conv
  <2>1. PageInv'
    BY <1>1, PageSame DEF SendInv
  <2> QED BY <1>1, <1>3, <2>1, ThreadsFine, PageStep
<1>4. CASE conv' # conv
  <2>1. PICK t \in DOMAIN conv :
          \/ conv[t].live # None /\ conv' = [conv EXCEPT ![t].live = None, ![t].rev = @ + 1]
          \/ conv[t].made /\ conv' = [conv EXCEPT ![t].rev = @ + 1]
    BY <1>4 DEF World
  <2>2. PICK c, r : c = conv[t] /\ r = c.rev + 1
    OBVIOUS
  <2>3. t \in Trees /\ c \in ConvRow /\ c.rev \in Nat /\ r \in Nat /\ c.made
    BY <1>2, <2>1, <2>2 DEF ConvTypes, ConvRow
  <2>4. PICK d \in ConvRow : /\ d.made /\ d.rev = r
                             /\ DOMAIN conv' = Trees /\ conv'[t] = d
                             /\ \A u \in Trees \ {t} : conv'[u] = conv[u]
    <3>1. CASE conv' = [conv EXCEPT ![t].rev = @ + 1]
      <4>1. /\ DOMAIN conv' = Trees /\ conv'[t] = [c EXCEPT !.rev = r]
            /\ \A u \in Trees \ {t} : conv'[u] = conv[u]
        BY <1>2, <2>2, <2>3, <3>1 DEF ConvTypes
      <4>2. [c EXCEPT !.rev = r] \in ConvRow /\ [c EXCEPT !.rev = r].made /\ [c EXCEPT !.rev = r].rev = r
        BY <2>3 DEF ConvRow
      <4> QED BY <4>1, <4>2
    <3>2. CASE conv' = [conv EXCEPT ![t].live = None, ![t].rev = @ + 1]
      <4>1. PICK f : f = [conv EXCEPT ![t].live = None]
        OBVIOUS
      <4>2. /\ DOMAIN f = Trees /\ f[t] = [c EXCEPT !.live = None]
            /\ \A u \in Trees \ {t} : f[u] = conv[u]
        BY <1>2, <2>2, <2>3, <4>1 DEF ConvTypes
      <4>3. conv' = [f EXCEPT ![t].rev = @ + 1]
        BY <3>2, <4>1
      <4>4. PICK e : e = [c EXCEPT !.live = None]
        OBVIOUS
      <4>5. e \in ConvRow /\ e.made /\ e.rev = c.rev
        BY <2>3, <4>4 DEF ConvRow
      <4>6. /\ DOMAIN conv' = Trees /\ conv'[t] = [e EXCEPT !.rev = r]
            /\ \A u \in Trees \ {t} : conv'[u] = conv[u]
        BY <2>2, <2>3, <4>2, <4>3, <4>4, <4>5
      <4>7. [e EXCEPT !.rev = r] \in ConvRow /\ [e EXCEPT !.rev = r].made /\ [e EXCEPT !.rev = r].rev = r
        BY <2>3, <4>5 DEF ConvRow
      <4> QED BY <4>6, <4>7
    <3> QED BY <2>1, <3>1, <3>2
  <2>5. \A u \in Trees : conv[u].rev \in Nat /\ conv'[u] \in ConvRow
    BY <1>2, <2>4 DEF ConvTypes, ConvRow
  <2>6. conv' \in [Trees -> ConvRow]
    <3>1. conv' = [u \in Trees |-> conv'[u]]
      BY <2>1, <2>4
    <3> QED BY <2>5, <3>1
  <2>7. ConvTypes'
    BY <1>2, <2>2, <2>3, <2>4, <2>6 DEF ConvTypes
  <2>8. Grows
    BY <2>2, <2>3, <2>4, <2>5 DEF Grows
  <2>9. ServerTypes'
    BY <1>1, <1>2, <2>7 DEF ServerTypes, ConvTypes
  <2>10. \A u \in Trees : ~conv[u].made /\ conv'[u].made => FALSE
    BY <2>2, <2>3, <2>4
  <2> QED BY <1>1, <2>8, <2>9, <2>10, ServerStep
<1> QED BY <1>3, <1>4

LEMMA StrayArrivesStep ==
  ASSUME SendInv, StrayArrives
  PROVE  SendInv'
<1>1. UNCHANGED <<conv, accepted, page, work, flow, sends, seen>>
  BY DEF StrayArrives, server
<1>2. PICK q \in stray : stray' = stray \cup {[q EXCEPT !.at = "admitted"]}
  BY DEF StrayArrives
<1>3. ServerTypes /\ q \in StrayRow
  BY DEF SendInv, ServerTypes
<1>4. PICK s : s = [q EXCEPT !.at = "admitted"]
  OBVIOUS
<1>5. s \in StrayRow /\ s.op = q.op /\ s.ticket = q.ticket
  BY <1>3, <1>4 DEF StrayRow
<1>6. ServerTypes' /\ Grows
  <2>1. ServerTypes'
    BY <1>1, <1>2, <1>3, <1>4, <1>5 DEF ServerTypes
  <2> QED BY <1>1, <1>3, <2>1, ServerParts, SameGrows
<1>7. \A p \in stray' : \E o \in stray : o.op = p.op /\ o.ticket = p.ticket
  BY <1>2, <1>4, <1>5
<1> QED BY <1>1, <1>6, <1>7, ServerStep

LEMMA StrayServedStep ==
  ASSUME SendInv, StrayServed
  PROVE  SendInv'
<1> USE NoneIs
<1>1. UNCHANGED <<stray, page, work, flow, sends, seen>>
  BY DEF StrayServed
<1>2. PICK q \in stray : Effect(q.op, q.ticket, "ok")
  BY DEF StrayServed
<1>3. ServerTypes /\ ConvTypes /\ AcceptedTypes /\ stray \subseteq StrayRow /\ TicketInv
  BY ServerParts DEF SendInv
<1>4. q.ticket \in TicketRow /\ q.op \in {"thread", "run"}
  BY <1>3, StrayTicket
<1>5. PICK t : t = q.ticket
  OBVIOUS
<1>6. CASE q.op = "thread"
  <2>1. /\ accepted' = accepted /\ ConvTypes' /\ Grows
        /\ \A u \in Trees : ~conv[u].made /\ conv'[u].made => u = t.id
    BY <1>2, <1>3, <1>4, <1>5, <1>6, ThreadEffect
  <2>2. ServerTypes'
    BY <1>1, <1>3, <2>1, ServerParts DEF AcceptedTypes
  <2> QED BY <1>1, <1>5, <1>6, <2>1, <2>2, ServerStep
<1>7. CASE q.op = "run"
  <2>1. Runs(t) /\ t.to \in Trees
    BY <1>3, <1>4, <1>5, <1>7 DEF Runs, TicketInv, TicketFine
  <2>2. /\ ConvTypes' /\ AcceptedTypes' /\ Grows
        /\ \A u \in Trees : conv'[u].made => conv[u].made
        /\ Turns(t) \/ accepted' = accepted
    BY <1>2, <1>3, <1>4, <1>5, <1>7, <2>1, RunEffect
  <2>3. ServerTypes'
    BY <1>1, <1>3, <2>2, ServerParts
  <2> QED BY <1>1, <1>4, <1>5, <2>1, <2>2, <2>3, ServerStep
<1> QED BY <1>4, <1>6, <1>7

LEMMA ResumeStep ==
  ASSUME SendInv, Resume
  PROVE  SendInv'
<1> USE NoneIs
<1>0. ServerTypes /\ PageInv /\ TicketInv /\ KnownInv /\ ClaimInv /\ DeniedInv /\ WorkIsKept
  BY DEF SendInv
<1>1. /\ UNCHANGED <<conv, accepted, stray, page, sends, seen>> /\ PageInv' /\ work # None
      /\ work' = Continued /\ work \in WorkRow /\ Core(work) /\ work.id \in Sends
  BY <1>0, ResumeKeeps, WorkIs DEF Resume, server
<1>2. PICK w : w = work'
  OBVIOUS
<1>3. /\ w \in WorkRow /\ w.id = work.id /\ w.text = work.text
      /\ w.own <=> work.own \/ (work.to = None /\ page.thread = None)
      /\ w.thread = work.thread /\ w.base = work.base /\ w.doubt = work.doubt
      /\ w.to = IF w.own THEN work.id ELSE work.to
      /\ work.to # None => w.to = work.to
  BY <1>0, <1>1, <1>2, ContinuedIs
<1>4. w # None /\ Follows
  BY <1>1, <1>2, <1>3 DEF Follows
<1>5. ServerTypes' /\ Grows
  BY <1>0, <1>1, ServerParts, SameGrows DEF ServerTypes
<1>6. Evolves
  BY <1>0, <1>1, <1>4, <1>5 DEF Evolves, PageInv, PageTypes, Trees
<1>7. TurnsOne /\ Escaped \subseteq Escaped'
  BY <1>1 DEF TurnsOne, Escaped
<1>8. Knows
  BY <1>1, <1>2, <1>3 DEF Knows
<1>9. Fresh
  BY <1>1 DEF Fresh, Begins
<1>10. Composes
  BY <1>0, <1>1, <1>2, <1>4, <1>5, <1>6, <1>7, StepComposes
<1>11. OwnThreads'
  <2>1. PICK t, b : t = page.thread /\ b = page.back
    OBVIOUS
  <2>2. (t # None => ThreadFine(t)') /\ (b # None => ThreadFine(b)')
    BY <1>0, <1>1, <1>6, <2>1, PageIs, ThreadFineStays DEF TicketInv
  <2> QED BY <1>1, <2>1, <2>2 DEF OwnThreads, ThreadFine, Barren
<1>12. (work # None /\ work.thread /\ work.to # None) \/ OwnTicket'
  <2> SUFFICES ASSUME ~(work.thread /\ work.to # None), w.thread, w.to # None
               PROVE  TicketFine(Ticket(work))'
    BY <1>1, <1>2 DEF OwnTicket
  <2>1. work.thread /\ work.to = None /\ w.own /\ ~work.own /\ w.to = work.id
    BY <1>1, <1>3 DEF Core, Sends
  <2>2. PICK k : k = Ticket(w)
    OBVIOUS
  <2>3. k.to = work.id /\ k.base = 0 /\ k.to \in Trees
    BY <1>1, <1>3, <2>1, <2>2, TicketIs DEF Core, Sends, Trees
  <2>4. \A q \in stray : q.op = "thread" => q.ticket.id # work.id
    BY <1>0, <1>1, <2>1 DEF TicketInv
  <2>5. ThreadFine(k.to)'
    BY <1>1, <1>2, <1>3, <2>1, <2>3, <2>4 DEF ThreadFine, Barren, Core
  <2>6. conv'[k.to].rev \in Nat /\ (conv'[k.to].live # None => conv'[k.to].rev > 0)
    BY <1>5, <2>3 DEF ServerTypes, ConvRow
  <2>7. TicketFine(k)'
    BY <2>3, <2>5, <2>6 DEF TicketFine
  <2>8. Ticket(work)' = k
    BY <1>2, <2>2 DEF Ticket
  <2> QED BY <2>7, <2>8 DEF TicketFine, ThreadFine, Barren
<1>13. WorkIsKept'
  BY <1>0, <1>1, <1>2, <1>3, <1>4 DEF WorkIsKept, Held, Accepted
<1> QED BY <1>1, <1>5, <1>6, <1>7, <1>8, <1>9, <1>10, <1>11, <1>12, <1>13, QuietKeeps

LEMMA SubmitStep ==
  ASSUME SendInv, NEW n \in Texts, Submit(n)
  PROVE  SendInv'
<1> USE NoneIs
<1>0. ServerTypes /\ PageInv /\ TicketInv /\ KnownInv /\ ClaimInv /\ DeniedInv /\ WorkIsKept
  BY DEF SendInv
<1>1. /\ UNCHANGED <<conv, accepted, stray>> /\ PageInv' /\ sends' = sends + 1 /\ sends \in Nat
      /\ work = None /\ page \in PageRow /\ seen \in SeenRow
      /\ IF page.composer = None THEN n \notin seen.typed ELSE n = page.composer
  <2>1. PageInv'
    BY <1>0, SubmitKeeps
  <2>2. /\ Steady /\ ~page.pending /\ sends' = sends + 1 /\ UNCHANGED <<conv, accepted, stray>>
        /\ IF page.composer = None THEN n \notin seen.typed ELSE n = page.composer
    BY DEF Submit, server
  <2>3. work = None
    BY <1>0, <2>2, SteadyIs
  <2>4. page \in PageRow /\ seen \in SeenRow /\ sends \in Nat
    BY <1>0, PageIs DEF PageInv, PageTypes, Trees
  <2> QED BY <2>1, <2>2, <2>3, <2>4
<1>2. /\ page'.composer = None /\ page'.thread = page.thread /\ page'.back = page.back
      /\ seen'.typed = seen.typed \cup {n} /\ seen'.denied = seen.denied /\ seen'.probed = seen.probed
      /\ seen'.revoked = seen.revoked /\ seen.barred \subseteq seen'.barred
      /\ work' # None => work'.text = n /\ work'.id = sends' /\ ~work'.thread
      /\ work' = None => n \in seen'.barred
  <2>1. CASE page.gen # None
    <3>1. /\ page' = [page EXCEPT !.composer = None] /\ work' = work
          /\ seen' = [seen EXCEPT !.typed = @ \cup {n}, !.barred = @ \cup {n}]
      BY <2>1 DEF Submit
    <3> QED BY <1>1, <3>1 DEF PageRow, SeenRow
  <2>2. CASE page.gen = None
    <3>1. /\ page' = [page EXCEPT !.composer = None, !.pending = TRUE]
          /\ seen' = [seen EXCEPT !.typed = @ \cup {n}]
          /\ work'.id = sends + 1 /\ work'.text = n /\ work'.thread = FALSE
      BY <2>2 DEF Submit
    <3>2. work' # None
      <4>1. page'.pending
        BY <1>1, <3>1 DEF PageRow
      <4> QED BY <1>1, <4>1 DEF PageInv, PageFine
    <3> QED BY <1>1, <3>1, <3>2 DEF PageRow, SeenRow
  <2> QED BY <2>1, <2>2
<1>3. ServerTypes' /\ Grows
  BY <1>0, <1>1, ServerParts, SameGrows DEF ServerTypes
<1>4. work' # None => Begins
  BY <1>1, <1>2 DEF Begins
<1>5. Evolves
  BY <1>1, <1>3, <1>4 DEF Evolves
<1>6. TurnsOne /\ Escaped \subseteq Escaped' /\ Knows
  BY <1>1, <1>2 DEF TurnsOne, Escaped, Knows
<1>7. Fresh
  <2>1. ASSUME n \notin Escaped', NEW k \in Sends, May(k, n)
        PROVE  FALSE
    <3>1. n \notin Escaped
      BY <1>6, <2>1
    <3>2. n \in seen.typed
      BY <1>0, <2>1 DEF ClaimInv
    <3>3. page.composer = n
      BY <1>1, <3>2
    <3> QED BY <1>0, <1>1, <2>1, <3>1, <3>3 DEF ClaimInv
  <2> QED BY <1>2, <2>1 DEF Fresh
<1>8. Composes
  BY <1>2 DEF Composes
<1>9. OwnThreads'
  <2>1. PICK t, b : t = page.thread /\ b = page.back
    OBVIOUS
  <2>2. (t # None => ThreadFine(t)') /\ (b # None => ThreadFine(b)')
    BY <1>0, <1>1, <1>5, <2>1, PageIs, ThreadFineStays DEF TicketInv
  <2> QED BY <1>2, <2>1, <2>2 DEF OwnThreads, ThreadFine, Barren
<1>10. OwnTicket'
  BY <1>2 DEF OwnTicket
<1>11. WorkIsKept'
  <2>1. ASSUME NEW m \in seen'.typed \ (seen'.barred \cup seen'.revoked)
        PROVE  Held(m)'
    <3>1. CASE m = n
      BY <1>2, <2>1, <3>1 DEF Held
    <3>2. CASE m # n
      <4>1. Held(m) /\ m # None
        BY <1>0, <1>1, <1>2, <2>1, <3>2 DEF WorkIsKept, SeenRow
      <4>2. page.composer # m
        BY <1>1, <3>2, <4>1
      <4> QED BY <1>1, <4>1, <4>2 DEF Held, Accepted
    <3> QED BY <3>1, <3>2
  <2> QED BY <2>1 DEF WorkIsKept
<1> QED BY <1>1, <1>2, <1>3, <1>5, <1>6, <1>7, <1>8, <1>9, <1>10, <1>11, QuietKeeps

LEMMA RequestStep ==
  ASSUME SendInv, Refused \/ Served \/ Reads \/ Lose
  PROVE  SendInv'
<1>1. ServerTypes /\ PageInv
  BY DEF SendInv
<1>2. PICK r : Answered(r) /\ Serves(r) /\ (r = "reject" => flow.pc \in RunPcs)
  BY <1>1, RefusedServes, ServedServes, ReadsServes, LoseServes
<1>3. AtWork /\ sends' = sends
  BY <1>2 DEF Serves
<1>4. PageInv' /\ Reacts(r)
  BY <1>1, <1>2, <1>3, Answers
<1> QED BY <1>2, <1>3, <1>4, RequestKeeps DEF Requests

-----------------------------------------------------------------------------
(* The theorems.                                                           *)

LEMMA InitTypes ==
  ASSUME SendInit
  PROVE  ServerTypes /\ PageTypes
<1> USE NoneIs
<1>1. ServerTypes
  <2>1. PICK a, b : a = [NoThread EXCEPT !.made = TRUE] /\ b = NoThread
    OBVIOUS
  <2>2. a \in ConvRow /\ b \in ConvRow /\ a.live = None /\ b.live = None /\ a.rev = 0 /\ b.rev = 0
    BY <2>1 DEF NoThread, ConvRow
  <2>3. conv = [t \in Trees |-> IF t = 0 THEN a ELSE b]
    BY <2>1 DEF SendInit, Trees
  <2>4. conv \in [Trees -> ConvRow]
    BY <2>2, <2>3
  <2>5. \A t \in Trees : conv[t].live = None /\ conv[t].rev = 0
    BY <2>2, <2>3
  <2>6. DOMAIN accepted = {} /\ accepted \in [DOMAIN accepted -> Texts] /\ stray = {}
    BY DEF SendInit
  <2> QED BY <2>4, <2>5, <2>6 DEF ServerTypes
<1>2. page \in PageRow
  <2>1. 0 \in Trees
    BY DEF Trees
  <2>2. PICK p, t : p = page /\ t = p.thread
    OBVIOUS
  <2>3. t \in {None, 0} /\ t \in Trees \cup {None}
    BY <2>1, <2>2 DEF SendInit
  <2>4. p = [signedIn |-> TRUE, cookie |-> 1, composer |-> None, thread |-> t,
             gen |-> None, pending |-> FALSE, kept |-> FALSE, back |-> None]
    BY <2>2 DEF SendInit
  <2> QED BY <2>2, <2>3, <2>4 DEF PageRow
<1>3. seen \in SeenRow
  BY DEF SendInit, SeenRow
<1>4. work = None /\ flow \in FlowRow /\ sends \in Trees
  BY IdleRow DEF SendInit, Trees
<1> QED BY <1>1, <1>2, <1>3, <1>4 DEF PageTypes

LEMMA InitKeeps ==
  ASSUME SendInit
  PROVE  SendInv
<1> USE NoneIs
<1>1. ServerTypes /\ PageTypes
  BY InitTypes
<1>2. /\ work = None /\ flow = Idle /\ ~AtWork /\ stray = {} /\ DOMAIN accepted = {} /\ sends = 0
      /\ seen.typed = {} /\ seen.denied = {}
  BY IdleRow DEF SendInit, AtWork, WorkPcs, ThreadPcs, RunPcs
<1>3. page.signedIn /\ ~page.pending /\ ~page.kept /\ page.composer = None /\ page.back = None
      /\ page.thread \in {None, 0}
  BY DEF SendInit
<1>4. PageInv
  BY <1>1, <1>2, <1>3, IdleRow DEF PageInv, FlowFine, PageFine, AtWork, WorkPcs, ThreadPcs, RunPcs
<1>5. TicketInv
  <2>1. page.thread # None => ThreadFine(page.thread)
    BY <1>2, <1>3 DEF ThreadFine, Barren
  <2> QED BY <1>2, <1>3, <2>1 DEF TicketInv, Runs
<1>6. KnownInv
  BY <1>2 DEF KnownInv
<1>7. ClaimInv /\ DeniedInv
  BY <1>2 DEF ClaimInv, DeniedInv, May, Runs
<1>8. WorkIsKept
  BY <1>2 DEF WorkIsKept
<1> QED BY <1>1, <1>4, <1>5, <1>6, <1>7, <1>8 DEF SendInv

LEMMA NextKeeps ==
  ASSUME SendInv, [SendNext]_sendVars
  PROVE  SendInv'
<1>1. CASE UNCHANGED sendVars
  <2>1. UNCHANGED <<conv, accepted, stray, page, work, flow, sends, seen>>
    BY <1>1 DEF sendVars
  <2>2. PageInv'
    BY <2>1, PageSame DEF SendInv
  <2> QED BY <2>1, <2>2, ThreadsFine, PageStep
<1>2. CASE \E n \in Texts : Submit(n)
  BY <1>2, SubmitStep
<1>3. CASE \E t \in (DOMAIN conv) \cup {None} : Open(t)
  BY <1>3, OpenStep
<1>4. CASE Resume \/ Reread
  BY <1>4, ResumeStep, RereadStep
<1>5. CASE Refused \/ Served \/ Reads \/ Lose
  BY <1>5, RequestStep
<1>6. CASE Arrive \/ StrayArrives \/ StrayServed
  BY <1>6, ArriveStep, StrayArrivesStep, StrayServedStep
<1>7. CASE StreamEnds \/ GenerationEnds \/ Revalidate
  BY <1>7, StreamEndsStep, GenerationEndsStep, RevalidateStep
<1>8. CASE Login \/ RefreshSignedOut \/ World
  BY <1>8, LoginStep, RefreshSignedOutStep, WorldStep
<1> QED BY <1>1, <1>2, <1>3, <1>4, <1>5, <1>6, <1>7, <1>8 DEF SendNext

\* The invariant speaks of sends that may be turns; the property, of turns.
LEMMA InvIsSentOnce ==
  ASSUME SendInv
  PROVE  SentOnce
<1>1. ServerTypes /\ ClaimInv /\ DeniedInv
  BY DEF SendInv
<1>2. DOMAIN accepted \subseteq Sends
  BY <1>1 DEF ServerTypes
<1>3. ASSUME NEW n \in Texts \ Escaped
      PROVE  Cardinality(Accepted(n)) <= 1
  <2>1. \A k, l \in Accepted(n) : k = l
    BY <1>1, <1>2, <1>3 DEF ClaimInv, May, Accepted
  <2>2. CASE Accepted(n) = {}
    BY <2>2, FS_EmptySet
  <2>3. CASE Accepted(n) # {}
    <3>1. PICK k : Accepted(n) = {k}
      BY <2>1, <2>3
    <3>2. Cardinality(Accepted(n)) = 1
      BY <3>1, FS_Singleton
    <3> QED BY <3>2
  <2> QED BY <2>2, <2>3
<1>4. Ran \subseteq Escaped
  <2>1. ASSUME NEW k \in seen.denied \cap DOMAIN accepted
        PROVE  accepted[k] \in Escaped
    <3>1. accepted[k] \in Texts /\ May(k, accepted[k])
      BY <1>1, <2>1 DEF ServerTypes, May
    <3> QED BY <1>1, <2>1, <3>1 DEF DeniedInv
  <2> QED BY <2>1 DEF Ran
<1> QED BY <1>3, <1>4 DEF SentOnce, Escaped

(* The tickets of continueChatSend: whichever requests are still on their  *)
(* way, those that could still be taken for one text belong to one send,   *)
(* the one the page holds, and a send given back has none.                 *)
THEOREM TicketsStaySound == SendSpec => []SendInv
<1>1. SendInit => SendInv
  BY InitKeeps
<1>2. SendInv /\ [SendNext]_sendVars => SendInv'
  BY NextKeeps
<1> QED BY <1>1, <1>2, PTL DEF SendSpec

(* What the user typed is a turn once at the most, however often its send  *)
(* is retried by exactMutation and exactRunMutation, resumed by            *)
(* continueChatSend, or given back by submitMessage and typed again, and   *)
(* whichever requests the browser gave up on are served later; and a send  *)
(* given back as not sent is no turn.                                      *)
THEOREM SentOnceAlways == SendSpec => []SentOnce
<1>1. SendInv => SentOnce
  BY InvIsSentOnce
<1> QED BY <1>1, TicketsStaySound, PTL

(* What the user typed is in the composer, in the workflow the page holds, *)
(* or a turn of the server: submitMessage empties the composer before the  *)
(* workflow exists, and every catch gives the draft to someone again.      *)
THEOREM WorkAlwaysKept == SendSpec => []WorkIsKept
<1>1. SendInv => WorkIsKept
  BY DEF SendInv
<1> QED BY <1>1, TicketsStaySound, PTL
=============================================================================
