------------------------ MODULE BrowserStreamProofs -------------------------
(***************************************************************************)
(* Proofs about BrowserStream, for every number of conversations, turns,   *)
(* deltas and snags.                                                       *)
(*                                                                         *)
(* One handler at the most has the view, but for a send beside a stream    *)
(* that reads again (Alone).  What it remembers of the page is what the    *)
(* page holds (Beside).  The text is a journal up to the cursor, of the    *)
(* generation the page says it follows or of an earlier one that is over   *)
(* (Texts).  Each action is shown to keep the server, the handlers and the *)
(* page fitting together, and then these three.                            *)
(*                                                                         *)
(* What the page shows is proved on top of that (View): the page shows its *)
(* own thread (Shows), whoever has the view waits for that thread (Fits),  *)
(* and nothing that opens a conversation runs beside a Stop that still has *)
(* the view (Apart).                                                       *)
(***************************************************************************)
EXTENDS BrowserStream, TLAPS

-----------------------------------------------------------------------------
(* The view of conversations: types.                                        *)

TurnRef == Turns \cup {Nobody}
ThreadRef == Threads \cup {Nobody}
Ledger == Seq(Message)

RunRow == [thread : ThreadRef, status : Statuses, deltas : Nat]
JobRow ==
  [kind : {"list", "open", "send", "stream", "reconnect", "stop"},
   pc : {"list", "before", "after", "status", "create", "start", "events", "probe", "cancel"},
   thread : ThreadRef, gen : TurnRef, owned : BOOLEAN, fresh : BOOLEAN, busy : BOOLEAN,
   clears : BOOLEAN, aim : {"view", "final", "refresh"}, before : Snapshot \cup {Nobody},
   back : Descriptor \cup {Nobody}]
TabRow ==
  [signedIn : BOOLEAN, thread : ThreadRef, gen : TurnRef, known : Statuses, cursor : Nat,
   output : Seq(Turns \X Nat), shown : Ledger, node : TurnRef,
   status : Statuses \cup {"idle", "running", "finalizing"},
   resume : BOOLEAN, final : [thread : Threads, gen : Turns] \cup {Nobody},
   back : Descriptor \cup {Nobody}]

-----------------------------------------------------------------------------
(* The server.  Its generations keep their thread and what they came to,    *)
(* its journals and ledgers only grow.                                      *)

Used(g, rs) == rs[g].thread # Nobody
Of(g, t, rs) == g \in Turns /\ rs[g].thread = t

Serving(rs, lg, lv) ==
  /\ rs \in [Turns -> RunRow] /\ lg \in [Threads -> Ledger] /\ lv \in [Threads -> TurnRef]
  /\ \A g \in Turns :
       /\ ~Used(g, rs) => rs[g].status = "none"
       /\ Used(g, rs) => rs[g].status # "none"
       /\ rs[g].status = "completed" => Answer(g) \in Range(lg[rs[g].thread])
  /\ \A t \in Threads :
       /\ \A i \in DOMAIN lg[t] : rs[lg[t][i].gen].thread = t
       /\ lv[t] # Nobody => Of(lv[t], t, rs)

Grows(rs, ss) ==
  \A g \in Turns : Used(g, rs) =>
    /\ ss[g].thread = rs[g].thread /\ ss[g].deltas >= rs[g].deltas
    /\ rs[g].status # "in_progress" => ss[g].status = rs[g].status

Lengthens(lg, mg) == \A t \in Threads : Range(lg[t]) \subseteq Range(mg[t])

LEMMA NobodyIs ==
  /\ Nobody \notin Threads /\ Nobody \notin Turns /\ Nobody \notin [thread : Threads, gen : Turns]
  /\ Nobody \notin Snapshot /\ Nobody \notin Descriptor
  /\ MaxTurns \in Nat /\ MaxDeltas \in Nat /\ Turns \subseteq Nat
BY StreamAssumption DEF Turns

LEMMA RangeIs ==
  ASSUME NEW S, NEW s \in Seq(S)
  PROVE  /\ Range(s) = {s[i] : i \in DOMAIN s} /\ DOMAIN s = 1 .. Len(s) /\ Range(s) \subseteq S
         /\ \A m \in S : /\ Append(s, m) \in Seq(S) /\ Range(Append(s, m)) = Range(s) \cup {m}
                         /\ DOMAIN Append(s, m) = 1 .. Len(s) + 1 /\ Append(s, m)[Len(s) + 1] = m
                         /\ \A i \in DOMAIN s : Append(s, m)[i] = s[i]
<1>1. Range(s) = {s[i] : i \in DOMAIN s} /\ DOMAIN s = 1 .. Len(s) /\ Len(s) \in Nat
  BY DEF Range
<1>2. Range(s) \subseteq S
  BY <1>1
<1>3. ASSUME NEW m \in S
      PROVE  /\ Append(s, m) \in Seq(S) /\ Range(Append(s, m)) = Range(s) \cup {m}
             /\ DOMAIN Append(s, m) = 1 .. Len(s) + 1 /\ Append(s, m)[Len(s) + 1] = m
             /\ \A i \in DOMAIN s : Append(s, m)[i] = s[i]
  <2>1. /\ Append(s, m) \in Seq(S) /\ DOMAIN Append(s, m) = 1 .. Len(s) + 1
        /\ Append(s, m)[Len(s) + 1] = m
        /\ \A i \in 1 .. Len(s) : Append(s, m)[i] = s[i]
    BY <1>1
  <2>2. Range(Append(s, m)) = {Append(s, m)[i] : i \in 1 .. Len(s) + 1}
    BY <2>1 DEF Range
  <2>3. Range(Append(s, m)) = Range(s) \cup {m}
    BY <1>1, <2>1, <2>2
  <2> QED BY <1>1, <2>1, <2>3
<1> QED BY <1>1, <1>2, <1>3

LEMMA MessagesAre == \A g \in Turns : Answer(g) \in Message /\ Prompt(g) \in Message
                                      /\ Answer(g).gen = g /\ Prompt(g).gen = g
BY DEF Answer, Prompt, Message

LEMMA MessageGen == \A m \in Message : m.gen \in Turns
BY DEF Message

LEMMA UnusedIs == Unused \in RunRow /\ Unused.thread = Nobody
BY DEF Unused, RunRow, ThreadRef, Statuses

(* A turn begins.                                                           *)
LEMMA BegunServes ==
  ASSUME Serving(runs, log, live), NEW t \in Threads, NEW g \in Turns, Begun(t, g)
  PROVE  /\ Serving(runs', log', live') /\ Grows(runs, runs') /\ Lengthens(log, log')
         /\ ~Used(g, runs) /\ Of(g, t, runs') /\ runs'[g].status = "in_progress"
<1>1. /\ runs[g] = Unused /\ live[t] = Nobody
      /\ log' = [log EXCEPT ![t] = Append(@, Prompt(g))]
      /\ live' = [live EXCEPT ![t] = g]
      /\ runs' = [runs EXCEPT ![g] = [thread |-> t, status |-> "in_progress", deltas |-> 0]]
  BY DEF Begun, NextTurn
<1>2. /\ runs \in [Turns -> RunRow] /\ log \in [Threads -> Ledger] /\ live \in [Threads -> TurnRef]
  BY DEF Serving
<1>3. [thread |-> t, status |-> "in_progress", deltas |-> 0] \in RunRow
  BY DEF RunRow, ThreadRef, Statuses
<1>4. /\ runs' \in [Turns -> RunRow] /\ live' \in [Threads -> TurnRef]
      /\ runs'[g] = [thread |-> t, status |-> "in_progress", deltas |-> 0]
      /\ \A h \in Turns : h # g => runs'[h] = runs[h]
      /\ live'[t] = g /\ \A u \in Threads : u # t => live'[u] = live[u]
  BY <1>1, <1>2, <1>3 DEF TurnRef
<1>5. Append(log[t], Prompt(g)) \in Ledger /\ log[t] \in Ledger
  BY <1>2, MessagesAre, RangeIs DEF Ledger
<1>6. /\ log' \in [Threads -> Ledger] /\ log'[t] = Append(log[t], Prompt(g))
      /\ \A u \in Threads : u # t => log'[u] = log[u]
  BY <1>1, <1>2, <1>5
<1>7. /\ Range(log'[t]) = Range(log[t]) \cup {Prompt(g)}
      /\ DOMAIN log'[t] = 1 .. Len(log[t]) + 1 /\ DOMAIN log[t] = 1 .. Len(log[t])
      /\ log'[t][Len(log[t]) + 1] = Prompt(g)
      /\ \A i \in DOMAIN log[t] : log'[t][i] = log[t][i]
  BY <1>5, <1>6, MessagesAre, RangeIs DEF Ledger
<1>8. Lengthens(log, log')
  BY <1>6, <1>7 DEF Lengthens
<1>9. ~Used(g, runs) /\ runs[g].thread = Nobody /\ t # Nobody
  BY <1>1, UnusedIs, NobodyIs DEF Used
<1>10. Grows(runs, runs')
  <2> SUFFICES ASSUME NEW h \in Turns, Used(h, runs)
               PROVE  /\ runs'[h].thread = runs[h].thread /\ runs'[h].deltas >= runs[h].deltas
                      /\ runs[h].status # "in_progress" => runs'[h].status = runs[h].status
    BY DEF Grows
  <2>1. runs'[h] = runs[h]
    BY <1>4, <1>9
  <2>2. runs[h].deltas \in Nat
    BY <1>2 DEF RunRow
  <2> QED BY <2>1, <2>2
<1>11. \A h \in Turns :
         /\ ~Used(h, runs') => runs'[h].status = "none"
         /\ Used(h, runs') => runs'[h].status # "none"
         /\ runs'[h].status = "completed" => Answer(h) \in Range(log'[runs'[h].thread])
  <2> SUFFICES ASSUME NEW h \in Turns
               PROVE  /\ ~Used(h, runs') => runs'[h].status = "none"
                      /\ Used(h, runs') => runs'[h].status # "none"
                      /\ runs'[h].status = "completed" => Answer(h) \in Range(log'[runs'[h].thread])
    OBVIOUS
  <2>1. CASE h = g
    BY <1>4, <1>9, <2>1 DEF Used
  <2>2. CASE h # g
    <3>1. runs'[h] = runs[h]
      BY <1>4, <2>2
    <3>2. /\ ~Used(h, runs) => runs[h].status = "none"
          /\ Used(h, runs) => runs[h].status # "none"
          /\ runs[h].status = "completed" => Answer(h) \in Range(log[runs[h].thread])
      BY DEF Serving
    <3>3. runs[h].status = "completed" => runs[h].thread \in Threads
      BY <1>2, <3>2 DEF RunRow, ThreadRef, Used
    <3> QED BY <1>8, <3>1, <3>2, <3>3 DEF Lengthens, Used
  <2> QED BY <2>1, <2>2
<1>12. ASSUME NEW u \in Threads, NEW i \in DOMAIN log'[u]
       PROVE  runs'[log'[u][i].gen].thread = u
  <2>1. \A k \in DOMAIN log[u] : runs[log[u][k].gen].thread = u /\ log[u][k] \in Message
    BY <1>2, RangeIs DEF Serving, Ledger
  <2>2. \A k \in DOMAIN log[u] : runs'[log[u][k].gen].thread = u
    BY <1>4, <1>9, <2>1, MessageGen, NobodyIs
  <2>3. CASE u # t
    BY <1>6, <1>12, <2>2, <2>3
  <2>4. CASE u = t
    <3>1. CASE i \in DOMAIN log[t]
      BY <1>7, <2>2, <2>4, <3>1
    <3>2. CASE i = Len(log[t]) + 1
      BY <1>4, <1>7, <2>4, <3>2, MessagesAre
    <3>3. Len(log[t]) \in Nat
      BY <1>5 DEF Ledger
    <3> QED BY <1>7, <1>12, <2>4, <3>1, <3>2, <3>3
  <2> QED BY <2>3, <2>4
<1>13. \A u \in Threads : live'[u] # Nobody => Of(live'[u], u, runs')
  <2> SUFFICES ASSUME NEW u \in Threads, live'[u] # Nobody
               PROVE  Of(live'[u], u, runs')
    OBVIOUS
  <2>1. CASE u = t
    BY <1>4, <2>1 DEF Of
  <2>2. CASE u # t
    <3>1. Of(live[u], u, runs)
      BY <1>4, <2>2 DEF Serving
    <3> QED BY <1>4, <1>9, <2>2, <3>1, NobodyIs DEF Of
  <2> QED BY <2>1, <2>2
<1> QED BY <1>4, <1>6, <1>8, <1>9, <1>10, <1>11, <1>12, <1>13 DEF Serving, Of

(* A generation ends, and if it was completed its answer is written.        *)
LEMMA EndedServes ==
  ASSUME Serving(runs, log, live), NEW g \in Turns, runs[g].status = "in_progress",
         NEW status \in {"completed", "failed", "cancelled"}, Ended(g, status),
         IF status = "completed" THEN log' = [log EXCEPT ![runs[g].thread] = Append(@, Answer(g))]
         ELSE log' = log
  PROVE  /\ Serving(runs', log', live') /\ Grows(runs, runs') /\ Lengthens(log, log')
         /\ runs'[g].thread = runs[g].thread /\ runs'[g].status = status
<1> DEFINE t == runs[g].thread
<1>1. /\ runs \in [Turns -> RunRow] /\ log \in [Threads -> Ledger] /\ live \in [Threads -> TurnRef]
      /\ runs' = [runs EXCEPT ![g].status = status] /\ live' = [live EXCEPT ![t] = Nobody]
  BY DEF Serving, Ended
<1>2. t \in Threads
  BY <1>1 DEF Serving, Used, RunRow, ThreadRef
<1>3. status \in Statuses
  BY DEF Statuses
<1>4. /\ runs' \in [Turns -> RunRow] /\ runs'[g].thread = t /\ runs'[g].status = status
      /\ runs'[g].deltas = runs[g].deltas
      /\ \A h \in Turns : h # g => runs'[h] = runs[h]
      /\ \A h \in Turns : runs'[h].thread = runs[h].thread /\ runs'[h].deltas = runs[h].deltas
  BY <1>1, <1>3 DEF RunRow
<1>5. /\ live' \in [Threads -> TurnRef] /\ live'[t] = Nobody
      /\ \A u \in Threads : u # t => live'[u] = live[u]
  BY <1>1, <1>2 DEF TurnRef
<1>6. /\ log' \in [Threads -> Ledger] /\ Lengthens(log, log')
      /\ status = "completed" => Answer(g) \in Range(log'[t])
      /\ \A u \in Threads : \A i \in DOMAIN log'[u] : runs[log'[u][i].gen].thread = u
  <2>1. \A u \in Threads : \A i \in DOMAIN log[u] : runs[log[u][i].gen].thread = u
    BY DEF Serving
  <2>2. CASE status # "completed"
    <3>1. log' = log
      BY <2>2
    <3> QED BY <1>1, <2>1, <2>2, <3>1 DEF Lengthens
  <2>3. CASE status = "completed"
    <3>1. log' = [log EXCEPT ![t] = Append(@, Answer(g))]
      BY <2>3
    <3>2. log[t] \in Seq(Message) /\ Answer(g) \in Message /\ Answer(g).gen = g
      BY <1>1, <1>2, MessagesAre DEF Ledger
    <3>3. /\ Append(log[t], Answer(g)) \in Ledger
          /\ Range(Append(log[t], Answer(g))) = Range(log[t]) \cup {Answer(g)}
          /\ DOMAIN Append(log[t], Answer(g)) = 1 .. Len(log[t]) + 1
          /\ DOMAIN log[t] = 1 .. Len(log[t]) /\ Len(log[t]) \in Nat
          /\ Append(log[t], Answer(g))[Len(log[t]) + 1] = Answer(g)
          /\ \A i \in DOMAIN log[t] : Append(log[t], Answer(g))[i] = log[t][i]
      BY <3>2, RangeIs DEF Ledger
    <3>4. /\ log' \in [Threads -> Ledger] /\ log'[t] = Append(log[t], Answer(g))
          /\ \A u \in Threads : u # t => log'[u] = log[u]
      BY <1>1, <1>2, <3>1, <3>3
    <3>5. Lengthens(log, log') /\ Answer(g) \in Range(log'[t])
      BY <3>3, <3>4 DEF Lengthens
    <3>6. ASSUME NEW u \in Threads, NEW i \in DOMAIN log'[u]
          PROVE  runs[log'[u][i].gen].thread = u
      <4>1. CASE u # t
        BY <2>1, <3>4, <3>6, <4>1
      <4>2. CASE u = t
        <5>1. CASE i \in DOMAIN log[t]
          BY <2>1, <1>2, <3>3, <3>4, <4>2, <5>1
        <5>2. CASE i = Len(log[t]) + 1
          BY <3>2, <3>3, <3>4, <4>2, <5>2
        <5> QED BY <3>3, <3>4, <3>6, <4>2, <5>1, <5>2
      <4> QED BY <4>1, <4>2
    <3> QED BY <3>4, <3>5, <3>6
  <2> QED BY <2>2, <2>3
<1>7. Grows(runs, runs')
  <2>1. \A h \in Turns : runs[h].deltas \in Nat
    BY <1>1 DEF RunRow
  <2> QED BY <1>4, <2>1 DEF Grows
<1>8. \A h \in Turns :
        /\ ~Used(h, runs') => runs'[h].status = "none"
        /\ Used(h, runs') => runs'[h].status # "none"
        /\ runs'[h].status = "completed" => Answer(h) \in Range(log'[runs'[h].thread])
  <2> SUFFICES ASSUME NEW h \in Turns
               PROVE  /\ ~Used(h, runs') => runs'[h].status = "none"
                      /\ Used(h, runs') => runs'[h].status # "none"
                      /\ runs'[h].status = "completed" => Answer(h) \in Range(log'[runs'[h].thread])
    OBVIOUS
  <2>1. CASE h = g
    BY <1>2, <1>4, <1>6, <2>1, NobodyIs DEF Used
  <2>2. CASE h # g
    <3>1. runs'[h] = runs[h]
      BY <1>4, <2>2
    <3>2. /\ ~Used(h, runs) => runs[h].status = "none"
          /\ Used(h, runs) => runs[h].status # "none"
          /\ runs[h].status = "completed" => Answer(h) \in Range(log[runs[h].thread])
      BY DEF Serving
    <3>3. runs[h].status = "completed" => runs[h].thread \in Threads
      BY <1>1, <3>2 DEF RunRow, ThreadRef, Used
    <3> QED BY <1>6, <3>1, <3>2, <3>3 DEF Lengthens, Used
  <2> QED BY <2>1, <2>2
<1>9. \A u \in Threads : \A i \in DOMAIN log'[u] : runs'[log'[u][i].gen].thread = u
  <2>1. \A u \in Threads : \A i \in DOMAIN log'[u] : log'[u][i].gen \in Turns
    BY <1>6, RangeIs, MessageGen DEF Ledger
  <2> QED BY <1>4, <1>6, <2>1
<1>10. \A u \in Threads : live'[u] # Nobody => Of(live'[u], u, runs')
  <2>1. \A u \in Threads : live[u] # Nobody => Of(live[u], u, runs)
    BY DEF Serving
  <2> QED BY <1>4, <1>5, <2>1 DEF Of
<1> QED BY <1>4, <1>5, <1>6, <1>7, <1>8, <1>9, <1>10 DEF Serving

-----------------------------------------------------------------------------
(* A handler, the page, and how they fit.                                   *)

Known(b, rs) == b # Nobody /\ b.gen # Nobody => Used(b.gen, rs)

Shaped(j, rs, lg) ==
  /\ j.kind = "list" => j.pc = "list" /\ ~j.busy /\ ~j.clears /\ j.aim = "view" /\ j.before = Nobody
  /\ j.kind # "list" => j.thread \in Threads
  /\ j.kind = "open" => /\ j.pc \in {"before", "after", "status"} /\ j.aim = "view" /\ ~j.clears
                        /\ j.pc = "status" => Of(j.gen, j.thread, rs)
  /\ j.kind = "send" => /\ j.pc \in {"create", "start"} /\ j.busy /\ ~j.clears /\ j.aim = "view"
                        /\ j.fresh => j.owned
  /\ j.kind = "stream" => /\ j.owned /\ Of(j.gen, j.thread, rs)
                          /\ \/ j.pc \in {"events", "probe"} /\ j.aim = "view"
                             \/ j.pc \in {"before", "after"} /\ j.aim \in {"final", "refresh"}
                          /\ j.clears => j.back.gen \in {Nobody, j.gen}
  /\ j.kind = "reconnect" => /\ j.clears
                             /\ \/ j.pc \in {"before", "after", "status"} /\ j.aim = "view"
                                \/ j.pc \in {"before", "after"} /\ j.aim = "final"
                             /\ j.pc = "status" => /\ j.gen \in Turns /\ j.before # Nobody
                                                   /\ j.back.gen # Nobody => j.gen = j.back.gen
  /\ j.kind = "stop" => /\ ~j.busy /\ ~j.clears /\ Of(j.gen, j.thread, rs)
                        /\ \/ j.pc = "cancel" /\ j.aim = "view"
                           \/ j.pc \in {"before", "after"} /\ j.aim = "refresh"
  /\ j.clears => j.back # Nobody /\ j.back.thread = j.thread
  /\ j.pc = "after" => j.before # Nobody
  /\ j.before # Nobody => Range(j.before.msgs) \subseteq Range(lg[j.thread])
  /\ j.aim = "final" => Of(j.gen, j.thread, rs) /\ rs[j.gen].status = "completed"
  /\ j.aim = "refresh" => Of(j.gen, j.thread, rs) /\ rs[j.gen].status \in {"failed", "cancelled"}
  /\ j.gen # Nobody => Used(j.gen, rs)
  /\ Known(j.back, rs)

JobFine(p, j, rs, lg) ==
  /\ j \in JobRow /\ Shaped(j, rs, lg)
  /\ j.fresh => p.signedIn
  /\ j.owned => j.fresh
JobsFine(p, js, rs, lg) == \A j \in js : JobFine(p, j, rs, lg)

PageFine(p, rs) ==
  /\ p \in TabRow
  /\ p.gen # Nobody => Used(p.gen, rs)
  /\ Known(p.back, rs)
  /\ p.final # Nobody => Of(p.final.gen, p.final.thread, rs) /\ rs[p.final.gen].status = "completed"

(* Whose the view is.                                                       *)
On(p) == p.gen # Nobody /\ p.known = "in_progress"
Views(j) == j.owned /\ j.kind # "stop"
Tracks(j) == j.kind = "stream" /\ j.pc \in {"events", "probe"}
Rereads(j) == j.kind = "stream" /\ j.pc \in {"before", "after"}
Pair(i, j) == i.kind = "send" /\ Rereads(j)

Keeps(j) == j.fresh /\ j.kind # "stop" => j.owned
Beside(p, j) == Views(j) =>
  /\ j.clears <=> p.back # Nobody
  /\ j.clears => j.back = p.back
  /\ p.resume => /\ j.busy
                 /\ \/ j.kind \in {"open", "send"}
                    \/ j.kind = "reconnect" /\ j.pc \in {"before", "after"} /\ j.aim = "view"
  /\ Tracks(j) => p.gen = j.gen /\ p.known = "in_progress"
  /\ j.kind = "send" => ~On(p)
  /\ j.kind = "reconnect" /\ ~j.busy /\ j.aim = "view" => p.known \in {j.back.known, "cancelled"}

Alone(p, js) ==
  /\ \A j \in js : Keeps(j) /\ Beside(p, j)
  /\ \A i, j \in js : Views(i) /\ Views(j) => i = j \/ Pair(i, j) \/ Pair(j, i)

(* What the page holds of a generation it says completed.                   *)
Told(b, rs) == b # Nobody /\ b.gen # Nobody /\ b.known = "completed" => rs[b.gen].status = "completed"
Tells(p, js, rs) ==
  /\ p.signedIn /\ p.gen # Nobody /\ p.known = "completed" => rs[p.gen].status = "completed"
  /\ Told(p.back, rs)
  /\ \A j \in js : Told(j.back, rs)

(* The text and the cursor.                                                 *)
Journal(out, cur, g, rs) == cur <= rs[g].deltas /\ out = [i \in 1 .. cur |-> <<g, i>>]
Traced(out, cur, rs) ==
  (cur = 0 /\ out = << >>) \/ \E g \in Turns : Used(g, rs) /\ Journal(out, cur, g, rs)
Going(g, known, rs) == g # Nobody /\ (known = "in_progress" \/ rs[g].status = "in_progress")
Good(b, rs) == b # Nobody =>
  /\ Traced(b.output, b.cursor, rs)
  /\ Going(b.gen, b.known, rs) => Journal(b.output, b.cursor, b.gen, rs)
Texts(p, js, rs) ==
  /\ Traced(p.output, p.cursor, rs)
  /\ p.signedIn /\ Going(p.gen, p.known, rs) => Journal(p.output, p.cursor, p.gen, rs)
  /\ Good(p.back, rs)
  /\ \A j \in js : Good(j.back, rs)
  /\ p.signedIn /\ p.back # Nobody /\ Going(p.back.gen, p.back.known, rs) =>
       Journal(p.output, p.cursor, p.back.gen, rs) /\ p.back.cursor <= p.cursor

Calm(h) == h \cap {"barged", "late"} = {}
StreamFine(p, js, rs, lg, h) ==
  /\ JobsFine(p, js, rs, lg) /\ PageFine(p, rs)
  /\ Calm(h) => Alone(p, js) /\ Tells(p, js, rs)
  /\ Calm(h) /\ "blind" \notin h => Texts(p, js, rs)
StreamInv == Serving(runs, log, live) /\ StreamFine(tab, jobs, runs, log, past)

-----------------------------------------------------------------------------
(* What the server does leaves a page as fine as it was.                    *)

LEMMA SameServer ==
  ASSUME NEW rs \in [Turns -> RunRow], NEW lg
  PROVE  Grows(rs, rs) /\ Lengthens(lg, lg)
<1>1. \A g \in Turns : rs[g].deltas \in Nat
  BY DEF RunRow
<1> QED BY <1>1 DEF Grows, Lengthens

LEMMA OfStays ==
  ASSUME NEW rs, NEW ss, Grows(rs, ss), NEW g, NEW t \in Threads, Of(g, t, rs)
  PROVE  Of(g, t, ss) /\ (rs[g].status # "in_progress" => ss[g].status = rs[g].status)
BY NobodyIs DEF Grows, Of, Used

LEMMA KnownStays ==
  ASSUME NEW rs, NEW ss, Grows(rs, ss), NEW b \in Descriptor \cup {Nobody}, Known(b, rs)
  PROVE  Known(b, ss)
<1>1. b # Nobody => b.gen \in Turns \cup {Nobody}
  BY DEF Descriptor
<1> QED BY <1>1 DEF Known, Used, Grows

LEMMA JobStays ==
  ASSUME NEW p, NEW rs, NEW ss, Grows(rs, ss), NEW lg, NEW mg, Lengthens(lg, mg),
         NEW j, JobFine(p, j, rs, lg)
  PROVE  JobFine(p, j, ss, mg)
<1>1. j \in JobRow /\ Shaped(j, rs, lg)
  BY DEF JobFine
<1>2. Known(j.back, ss)
  BY <1>1, KnownStays DEF Shaped, JobRow
<1>3. j.kind # "list" /\ Of(j.gen, j.thread, rs) =>
        Of(j.gen, j.thread, ss) /\ (rs[j.gen].status # "in_progress" => ss[j.gen].status = rs[j.gen].status)
  BY <1>1, OfStays DEF Shaped
<1>4. j.before # Nobody => Range(j.before.msgs) \subseteq Range(mg[j.thread])
  <2>1. j.before # Nobody => j.thread \in Threads /\ Range(j.before.msgs) \subseteq Range(lg[j.thread])
    BY <1>1 DEF Shaped
  <2> QED BY <2>1 DEF Lengthens
<1>5. j.gen # Nobody => Used(j.gen, ss)
  BY <1>1 DEF Shaped, JobRow, TurnRef, Used, Grows
<1>6. Shaped(j, ss, mg)
  BY <1>1, <1>2, <1>3, <1>4, <1>5 DEF Shaped
<1> QED BY <1>6 DEF JobFine

LEMMA PageStays ==
  ASSUME NEW p, NEW rs, NEW ss, Grows(rs, ss), PageFine(p, rs)
  PROVE  PageFine(p, ss)
<1>1. p \in TabRow
  BY DEF PageFine
<1>2. p.gen \in TurnRef /\ p.back \in Descriptor \cup {Nobody}
      /\ p.final \in [thread : Threads, gen : Turns] \cup {Nobody}
  BY <1>1 DEF TabRow
<1>3. Known(p.back, ss)
  BY <1>2, KnownStays DEF PageFine
<1>4. p.gen # Nobody => Used(p.gen, ss)
  BY <1>2 DEF PageFine, TurnRef, Used, Grows
<1>5. p.final # Nobody => Of(p.final.gen, p.final.thread, ss) /\ ss[p.final.gen].status = "completed"
  <2> SUFFICES ASSUME p.final # Nobody
               PROVE  Of(p.final.gen, p.final.thread, ss) /\ ss[p.final.gen].status = "completed"
    OBVIOUS
  <2>1. p.final.thread \in Threads
    BY <1>2
  <2>2. Of(p.final.gen, p.final.thread, rs) /\ rs[p.final.gen].status = "completed"
    BY DEF PageFine
  <2> QED BY <2>1, <2>2, OfStays
<1> QED BY <1>1, <1>3, <1>4, <1>5 DEF PageFine

LEMMA ToldStays ==
  ASSUME NEW rs, NEW ss, Grows(rs, ss), NEW b \in Descriptor \cup {Nobody}, Known(b, rs), Told(b, rs)
  PROVE  Told(b, ss)
<1>1. b # Nobody => b.gen \in Turns \cup {Nobody}
  BY DEF Descriptor
<1> QED BY <1>1 DEF Known, Told, Grows

LEMMA GoingStays ==
  ASSUME NEW rs, NEW ss, Grows(rs, ss), NEW g \in Turns, Used(g, rs), NEW known, Going(g, known, ss)
  PROVE  Going(g, known, rs)
BY DEF Going, Grows

LEMMA JournalStays ==
  ASSUME NEW rs \in [Turns -> RunRow], NEW ss \in [Turns -> RunRow], Grows(rs, ss),
         NEW g \in Turns, Used(g, rs), NEW out, NEW cur \in Nat, Journal(out, cur, g, rs)
  PROVE  Journal(out, cur, g, ss)
<1>1. rs[g].deltas \in Nat /\ ss[g].deltas \in Nat
  BY DEF RunRow
<1>2. ss[g].deltas >= rs[g].deltas
  BY DEF Grows
<1>3. cur <= rs[g].deltas /\ out = [i \in 1 .. cur |-> <<g, i>>]
  BY DEF Journal
<1>4. cur <= ss[g].deltas
  <2> HIDE DEF Journal
  <2> DEFINE a == rs[g].deltas
             b == ss[g].deltas
  <2>1. a \in Nat /\ b \in Nat /\ b >= a /\ cur <= a
    BY <1>1, <1>2, <1>3
  <2> HIDE DEF a, b
  <2>2. cur <= b
    BY <2>1
  <2> QED BY <2>2 DEF b
<1> QED BY <1>3, <1>4 DEF Journal

LEMMA TracedStays ==
  ASSUME NEW rs \in [Turns -> RunRow], NEW ss \in [Turns -> RunRow], Grows(rs, ss),
         NEW out, NEW cur \in Nat, Traced(out, cur, rs)
  PROVE  Traced(out, cur, ss)
<1>1. CASE cur = 0 /\ out = << >>
  BY <1>1 DEF Traced
<1>2. ASSUME NEW g \in Turns, Used(g, rs), Journal(out, cur, g, rs)
      PROVE  Traced(out, cur, ss)
  <2>1. Used(g, ss)
    BY <1>2 DEF Grows, Used
  <2>2. Journal(out, cur, g, ss)
    BY <1>2, JournalStays
  <2> QED BY <2>1, <2>2 DEF Traced
<1> QED BY <1>1, <1>2 DEF Traced

LEMMA GoodStays ==
  ASSUME NEW rs \in [Turns -> RunRow], NEW ss \in [Turns -> RunRow], Grows(rs, ss),
         NEW b \in Descriptor \cup {Nobody}, Known(b, rs), Good(b, rs)
  PROVE  Good(b, ss)
<1> SUFFICES ASSUME b # Nobody
             PROVE  /\ Traced(b.output, b.cursor, ss)
                    /\ Going(b.gen, b.known, ss) => Journal(b.output, b.cursor, b.gen, ss)
  BY DEF Good
<1>1. b.cursor \in Nat /\ b.gen \in Turns \cup {Nobody}
  BY DEF Descriptor
<1>2. Traced(b.output, b.cursor, ss)
  BY <1>1, TracedStays DEF Good
<1>3. ASSUME Going(b.gen, b.known, ss)
      PROVE  Journal(b.output, b.cursor, b.gen, ss)
  <2>1. b.gen \in Turns /\ Used(b.gen, rs)
    BY <1>1, <1>3 DEF Going, Known
  <2>2. Going(b.gen, b.known, rs)
    BY <1>3, <2>1, GoingStays
  <2>3. Journal(b.output, b.cursor, b.gen, rs)
    BY <2>2 DEF Good
  <2> QED BY <1>1, <2>1, <2>3, JournalStays
<1> QED BY <1>2, <1>3

LEMMA TextsStay ==
  ASSUME NEW rs \in [Turns -> RunRow], NEW ss \in [Turns -> RunRow], Grows(rs, ss),
         NEW lg, NEW p, NEW js, PageFine(p, rs), JobsFine(p, js, rs, lg), Texts(p, js, rs)
  PROVE  Texts(p, js, ss)
<1>1. p \in TabRow
  BY DEF PageFine
<1>2. /\ p.cursor \in Nat /\ p.gen \in Turns \cup {Nobody}
      /\ p.back \in Descriptor \cup {Nobody} /\ Known(p.back, rs)
  BY <1>1 DEF PageFine, TabRow, TurnRef
<1>3. Traced(p.output, p.cursor, ss)
  BY <1>2, TracedStays DEF Texts
<1>4. Good(p.back, ss)
  BY <1>2, GoodStays DEF Texts
<1>5. ASSUME NEW j \in js
      PROVE  Good(j.back, ss)
  <2>1. j.back \in Descriptor \cup {Nobody} /\ Known(j.back, rs)
    BY DEF JobsFine, JobFine, Shaped, JobRow
  <2> QED BY <2>1, GoodStays DEF Texts
<1>6. ASSUME p.signedIn, Going(p.gen, p.known, ss)
      PROVE  Journal(p.output, p.cursor, p.gen, ss)
  <2>1. p.gen \in Turns /\ Used(p.gen, rs)
    BY <1>2, <1>6 DEF Going, PageFine
  <2>2. Journal(p.output, p.cursor, p.gen, rs)
    BY <1>6, <2>1, GoingStays DEF Texts
  <2> QED BY <1>2, <2>1, <2>2, JournalStays
<1>7. ASSUME p.signedIn, p.back # Nobody, Going(p.back.gen, p.back.known, ss)
      PROVE  Journal(p.output, p.cursor, p.back.gen, ss) /\ p.back.cursor <= p.cursor
  <2>1. p.back.gen \in Turns /\ Used(p.back.gen, rs)
    <3>1. p.back.gen \in Turns \cup {Nobody}
      BY <1>2, <1>7 DEF Descriptor
    <3> QED BY <1>2, <1>7, <3>1 DEF Going, Known
  <2>2. Journal(p.output, p.cursor, p.back.gen, rs) /\ p.back.cursor <= p.cursor
    BY <1>7, <2>1, GoingStays DEF Texts
  <2> QED BY <1>2, <2>1, <2>2, JournalStays
<1> QED BY <1>3, <1>4, <1>5, <1>6, <1>7 DEF Texts

LEMMA TellsStay ==
  ASSUME NEW rs, NEW ss, Grows(rs, ss), NEW lg, NEW p, NEW js,
         PageFine(p, rs), JobsFine(p, js, rs, lg), Tells(p, js, rs)
  PROVE  Tells(p, js, ss)
<1>1. p \in TabRow
  BY DEF PageFine
<1>2. Told(p.back, ss)
  <2>1. p.back \in Descriptor \cup {Nobody} /\ Known(p.back, rs) /\ Told(p.back, rs)
    BY <1>1 DEF PageFine, TabRow, Tells
  <2> QED BY <2>1, ToldStays
<1>3. ASSUME NEW j \in js
      PROVE  Told(j.back, ss)
  <2>1. j.back \in Descriptor \cup {Nobody} /\ Known(j.back, rs) /\ Told(j.back, rs)
    BY DEF JobsFine, JobFine, Shaped, JobRow, Tells
  <2> QED BY <2>1, ToldStays
<1>4. p.signedIn /\ p.gen # Nobody /\ p.known = "completed" => ss[p.gen].status = "completed"
  <2>1. p.gen # Nobody => p.gen \in Turns /\ Used(p.gen, rs)
    BY <1>1 DEF PageFine, TabRow, TurnRef
  <2> QED BY <2>1 DEF Tells, Grows
<1> QED BY <1>2, <1>3, <1>4 DEF Tells

LEMMA PagesStay ==
  ASSUME NEW rs \in [Turns -> RunRow], NEW ss \in [Turns -> RunRow], Grows(rs, ss),
         NEW lg, NEW mg, Lengthens(lg, mg), NEW p, NEW js, NEW h, StreamFine(p, js, rs, lg, h)
  PROVE  StreamFine(p, js, ss, mg, h)
<1>1. JobsFine(p, js, rs, lg) /\ PageFine(p, rs)
  BY DEF StreamFine
<1>2. JobsFine(p, js, ss, mg)
  BY <1>1, JobStays DEF JobsFine
<1>3. PageFine(p, ss)
  BY <1>1, PageStays
<1>4. Calm(h) => Tells(p, js, ss)
  BY <1>1, TellsStay DEF StreamFine
<1>5. Calm(h) /\ "blind" \notin h => Texts(p, js, ss)
  BY <1>1, TextsStay DEF StreamFine
<1> QED BY <1>2, <1>3, <1>4, <1>5 DEF StreamFine
-----------------------------------------------------------------------------
(* What a step may do to the handlers.                                      *)

Backs(p, js, ks) == \A k \in ks : k.back = Nobody \/ k.back = p.back \/ \E i \in js : k.back = i.back

(* The same handler a request further.                                      *)
Alike(j, i) ==
  /\ i.kind = j.kind /\ i.owned = j.owned /\ i.fresh = j.fresh /\ i.busy = j.busy
  /\ i.clears = j.clears /\ i.back = j.back /\ i.gen = j.gen /\ i.aim = j.aim
  /\ Tracks(i) <=> Tracks(j)
  /\ i.pc \in {"before", "after"} <=> j.pc \in {"before", "after"}

LEMMA ServerIs ==
  ASSUME Serving(runs, log, live)
  PROVE  /\ runs \in [Turns -> RunRow] /\ log \in [Threads -> Ledger] /\ live \in [Threads -> TurnRef]
         /\ \A g \in Turns : runs[g] \in RunRow
         /\ \A t \in Threads : log[t] \in Ledger /\ live[t] \in TurnRef
         /\ \A g \in Turns, t \in Threads : Of(g, t, runs) => Used(g, runs) /\ runs[g].status # "none"
BY NobodyIs DEF Serving, Of, Used

LEMMA StepFine ==
  ASSUME Serving(runs, log, live), UNCHANGED ledgers, StreamFine(tab', jobs', runs, log, past')
  PROVE  StreamInv'
<1>1. runs' = runs /\ log' = log /\ live' = live
  BY DEF ledgers
<1>2. Serving(runs', log', live') /\ StreamFine(tab', jobs', runs', log', past')
  BY <1>1
<1> QED BY <1>2 DEF StreamInv

LEMMA DisownedIs ==
  ASSUME NEW js, NEW p, NEW rs, NEW lg, JobsFine(p, js, rs, lg), \A j \in js : ~j.busy
  PROVE  /\ JobsFine(p, Disowned(js), rs, lg) /\ Backs(p, js, Disowned(js))
         /\ \A k \in Disowned(js) : ~k.owned /\ k.kind # "stream"
                                    /\ \E i \in js : Outlives(i) /\ k.kind = i.kind /\ k.fresh = i.fresh
<1>1. ASSUME NEW k \in Disowned(js)
      PROVE  /\ JobFine(p, k, rs, lg) /\ ~k.owned /\ k.kind # "stream"
             /\ \E i \in js : k.back = i.back /\ Outlives(i) /\ k.kind = i.kind /\ k.fresh = i.fresh
  <2>1. PICK i \in js : Outlives(i) /\ k = [i EXCEPT !.owned = FALSE]
    BY <1>1 DEF Disowned
  <2>2. i \in JobRow /\ Shaped(i, rs, lg) /\ (i.fresh => p.signedIn) /\ i.kind # "stream"
    BY <2>1 DEF JobsFine, JobFine, Outlives
  <2>3. /\ k \in JobRow /\ k.kind = i.kind /\ k.pc = i.pc /\ k.thread = i.thread /\ k.gen = i.gen
        /\ ~k.owned /\ k.fresh = i.fresh /\ k.busy = i.busy /\ k.clears = i.clears /\ k.aim = i.aim
        /\ k.before = i.before /\ k.back = i.back
    BY <2>1, <2>2 DEF JobRow
  <2>4. Shaped(k, rs, lg)
    BY <2>2, <2>3 DEF Shaped
  <2> QED BY <2>1, <2>2, <2>3, <2>4 DEF JobFine
<1> QED BY <1>1 DEF JobsFine, Backs

LEMMA SignedAwayIs ==
  ASSUME NEW js, NEW p, NEW q, NEW rs, NEW lg, JobsFine(p, js, rs, lg)
  PROVE  /\ JobsFine(q, SignedAway(js), rs, lg) /\ Backs(p, js, SignedAway(js))
         /\ \A k \in SignedAway(js) : ~k.owned /\ ~k.fresh
<1>1. ASSUME NEW k \in SignedAway(js)
      PROVE  /\ JobFine(q, k, rs, lg) /\ ~k.owned /\ ~k.fresh
             /\ \E i \in js : k.back = i.back
  <2>1. PICK i \in js : Outlives(i) /\ k = [i EXCEPT !.owned = FALSE, !.fresh = FALSE]
    BY <1>1 DEF SignedAway
  <2>2. i \in JobRow /\ Shaped(i, rs, lg) /\ i.kind # "stream"
    BY <2>1 DEF JobsFine, JobFine, Outlives
  <2>3. /\ k \in JobRow /\ k.kind = i.kind /\ k.pc = i.pc /\ k.thread = i.thread /\ k.gen = i.gen
        /\ ~k.owned /\ ~k.fresh /\ k.busy = i.busy /\ k.clears = i.clears /\ k.aim = i.aim
        /\ k.before = i.before /\ k.back = i.back
    BY <2>1, <2>2 DEF JobRow
  <2>4. Shaped(k, rs, lg)
    BY <2>2, <2>3 DEF Shaped
  <2> QED BY <2>3, <2>4 DEF JobFine
<1> QED BY <1>1 DEF JobsFine, Backs

LEMMA JobsFrom ==
  ASSUME NEW p, NEW q, q.signedIn = p.signedIn, NEW js, NEW ks, NEW rs, NEW lg, JobsFine(p, js, rs, lg),
         \A k \in ks : k \in js \/ JobFine(q, k, rs, lg)
  PROVE  JobsFine(q, ks, rs, lg)
BY DEF JobsFine, JobFine

(* Who shares the view.                                                     *)
LEMMA AloneNone ==
  ASSUME NEW q, NEW ks, \A k \in ks : ~Views(k) /\ Keeps(k)
  PROVE  Alone(q, ks)
BY DEF Alone, Beside

LEMMA AloneOne ==
  ASSUME NEW q, NEW ks, NEW i, \A k \in ks : k = i \/ (~Views(k) /\ Keeps(k)),
         Keeps(i), Beside(q, i)
  PROVE  Alone(q, ks)
BY DEF Alone, Beside

LEMMA AloneStill ==
  ASSUME NEW p, NEW q, NEW js, NEW ks, Alone(p, js), ks \subseteq js,
         q.signedIn = p.signedIn, q.back = p.back, q.gen = p.gen, q.known = p.known, q.resume => p.resume
  PROVE  Alone(q, ks)
BY DEF Alone, Beside, On

LEMMA AloneSwap ==
  ASSUME NEW p, NEW q, NEW js, NEW ks, Alone(p, js), NEW j \in js, NEW i, Alike(j, i),
         \A k \in ks : k \in js \ {j} \/ k = i,
         q.signedIn = p.signedIn, q.back = p.back, q.gen = p.gen, q.known = p.known, q.resume => p.resume
  PROVE  Alone(q, ks)
<1>1. Keeps(i) /\ Beside(q, i)
  BY DEF Alone, Beside, On, Alike, Keeps, Views
<1>2. \A k \in ks : Keeps(k) /\ Beside(q, k)
  BY <1>1 DEF Alone, Beside, On
<1>3. (Views(i) <=> Views(j)) /\ (Rereads(i) <=> Rereads(j)) /\ i.kind = j.kind
  BY DEF Alike, Views, Rereads
<1>4. \A k, l \in ks : Views(k) /\ Views(l) => k = l \/ Pair(k, l) \/ Pair(l, k)
  BY <1>3 DEF Alone, Pair
<1> QED BY <1>2, <1>4 DEF Alone

(* A handler of the view that is neither a send nor a stream read again has it alone. *)
LEMMA OthersWait ==
  ASSUME NEW p, NEW js, Alone(p, js), NEW j \in js, Views(j), j.kind # "send", ~Rereads(j)
  PROVE  \A k \in js \ {j} : ~Views(k) /\ Keeps(k)
BY DEF Alone, Pair

LEMMA SharesView ==
  ASSUME NEW p, NEW js, Alone(p, js), NEW j \in js
  PROVE  Beside(p, j) /\ Keeps(j)
BY DEF Alone

(* The text that stays, and the text that starts anew.                      *)
LEMMA Anew ==
  ASSUME NEW rs \in [Turns -> RunRow], NEW g \in Turns
  PROVE  Journal(<< >>, 0, g, rs)
<1>1. rs[g].deltas \in Nat
  BY DEF RunRow
<1>2. << >> = [i \in 1 .. 0 |-> <<g, i>>]
  OBVIOUS
<1> QED BY <1>1, <1>2 DEF Journal

LEMMA TextsKept ==
  ASSUME NEW p, NEW q, NEW js, NEW ks, NEW rs, Texts(p, js, rs), Backs(p, js, ks),
         q.output = p.output, q.cursor = p.cursor, q.back = p.back \/ q.back = Nobody,
         q.signedIn => p.signedIn,
         q.signedIn /\ Going(q.gen, q.known, rs) => Journal(p.output, p.cursor, q.gen, rs)
  PROVE  Texts(q, ks, rs)
<1>1. \A k \in ks : Good(k.back, rs)
  BY DEF Texts, Backs, Good
<1> QED BY <1>1 DEF Texts, Good

LEMMA TextsAnew ==
  ASSUME NEW p, NEW q, NEW js, NEW ks, NEW rs \in [Turns -> RunRow], Texts(p, js, rs), Backs(p, js, ks),
         q.output = << >>, q.cursor = 0, q.gen \in TurnRef, q.back = Nobody
  PROVE  Texts(q, ks, rs)
<1>1. \A k \in ks : Good(k.back, rs)
  BY DEF Texts, Backs, Good
<1>2. Going(q.gen, q.known, rs) => Journal(q.output, q.cursor, q.gen, rs)
  BY Anew DEF Going, TurnRef
<1> QED BY <1>1, <1>2 DEF Texts, Good, Traced

LEMMA TellsKept ==
  ASSUME NEW p, NEW q, NEW js, NEW ks, NEW rs, Tells(p, js, rs), Backs(p, js, ks),
         q.back = p.back \/ q.back = Nobody,
         q.signedIn /\ q.gen # Nobody /\ q.known = "completed" => rs[q.gen].status = "completed"
  PROVE  Tells(q, ks, rs)
<1>1. \A k \in ks : Told(k.back, rs)
  BY DEF Tells, Backs, Told
<1> QED BY <1>1 DEF Tells, Told

-----------------------------------------------------------------------------
(* One request further.                                                     *)
LEMMA FurtherFine ==
  ASSUME StreamInv, UNCHANGED ledgers, UNCHANGED past, NEW j \in jobs, NEW i,
         \A k \in jobs' : k \in jobs \ {j} \/ k = i,
         JobFine(tab, i, runs, log), Alike(j, i),
         PageFine(tab', runs),
         tab'.signedIn = tab.signedIn, tab'.back = tab.back, tab'.gen = tab.gen, tab'.known = tab.known,
         tab'.cursor = tab.cursor, tab'.output = tab.output, tab'.resume => tab.resume
  PROVE  StreamInv'
<1>1. StreamFine(tab, jobs, runs, log, past) /\ past' = past
  BY DEF StreamInv
<1>2. JobFine(tab', i, runs, log)
  BY DEF JobFine
<1>3. JobsFine(tab', jobs', runs, log)
  BY <1>1, <1>2, JobsFrom DEF StreamFine
<1>4. Calm(past') => Alone(tab', jobs')
  BY <1>1, AloneSwap DEF StreamFine
<1>5. Backs(tab, jobs, jobs')
  BY DEF Backs, Alike
<1>6. Calm(past') => Tells(tab', jobs', runs)
  <2> SUFFICES ASSUME Calm(past') PROVE Tells(tab', jobs', runs)
    OBVIOUS
  <2>1. Tells(tab, jobs, runs)
    BY <1>1 DEF StreamFine
  <2>2. tab'.signedIn /\ tab'.gen # Nobody /\ tab'.known = "completed" => runs[tab'.gen].status = "completed"
    BY <2>1 DEF Tells
  <2> QED BY <1>5, <2>1, <2>2, TellsKept
<1>7. Calm(past') /\ "blind" \notin past' => Texts(tab', jobs', runs)
  <2> SUFFICES ASSUME Calm(past'), "blind" \notin past' PROVE Texts(tab', jobs', runs)
    OBVIOUS
  <2>1. Texts(tab, jobs, runs)
    BY <1>1 DEF StreamFine
  <2>2. tab'.signedIn /\ Going(tab'.gen, tab'.known, runs) => Journal(tab.output, tab.cursor, tab'.gen, runs)
    BY <2>1 DEF Texts
  <2> QED BY <1>5, <2>1, <2>2, TextsKept
<1>8. StreamFine(tab', jobs', runs, log, past')
  BY <1>3, <1>4, <1>6, <1>7 DEF StreamFine
<1> QED BY <1>8, StepFine DEF StreamInv
LEMMA JobIs ==
  ASSUME StreamInv, NEW j \in jobs
  PROVE  /\ JobFine(tab, j, runs, log) /\ j \in JobRow /\ Shaped(j, runs, log) /\ Known(j.back, runs)
         /\ j.fresh => tab.signedIn
         /\ j.owned => j.fresh
         /\ tab \in TabRow
BY DEF StreamInv, StreamFine, JobsFine, JobFine, PageFine, Shaped

LEMMA BreaksFine ==
  ASSUME StreamInv, NEW j \in jobs, Breaks(j)
  PROVE  StreamInv'
<1> DEFINE i == [j EXCEPT !.pc = "probe"]
<1>1. /\ j.pc = "events" /\ jobs' = (jobs \ {j}) \cup {i} /\ UNCHANGED ledgers
      /\ tab' = tab /\ past' = past
  BY DEF Breaks, Becomes, Without
<1>2. JobFine(tab, j, runs, log) /\ j \in JobRow /\ Shaped(j, runs, log)
  BY JobIs
<1>3. j.kind = "stream"
  BY <1>1, <1>2 DEF Shaped, JobRow
<1>4. /\ i \in JobRow /\ i.kind = "stream" /\ i.pc = "probe" /\ i.thread = j.thread /\ i.gen = j.gen
      /\ i.owned = j.owned /\ i.fresh = j.fresh /\ i.busy = j.busy /\ i.clears = j.clears /\ i.aim = j.aim
      /\ i.before = j.before /\ i.back = j.back
  BY <1>2, <1>3 DEF JobRow
<1>5. Alike(j, i)
  BY <1>1, <1>3, <1>4 DEF Alike, Tracks
<1>6. JobFine(tab, i, runs, log)
  BY <1>1, <1>2, <1>3, <1>4 DEF JobFine, Shaped
<1>7. PageFine(tab', runs)
  BY <1>1 DEF StreamInv, StreamFine
<1> HIDE DEF i
<1> QED BY <1>1, <1>5, <1>6, <1>7, FurtherFine

LEMMA SnapIs ==
  ASSUME Serving(runs, log, live), NEW t \in Threads
  PROVE  Snap(t) \in Snapshot /\ Snap(t) # Nobody /\ Snap(t).msgs = log[t] /\ Snap(t).live = live[t]
<1>1. log[t] \in Seq(Message) /\ live[t] \in Turns \cup {Nobody}
  BY ServerIs DEF Ledger, TurnRef
<1>2. Snap(t) \in Snapshot
  BY <1>1 DEF Snap, Snapshot
<1> QED BY <1>2, NobodyIs DEF Snap

LEMMA ReadBeforeFine ==
  ASSUME StreamInv, NEW j \in jobs, ReadBefore(j)
  PROVE  StreamInv'
<1> DEFINE s == Snap(j.thread)
           i == [j EXCEPT !.pc = "after", !.before = s]
<1>1. /\ j.pc = "before" /\ jobs' = (jobs \ {j}) \cup {i} /\ UNCHANGED ledgers
      /\ tab' = tab /\ past' = past
  BY DEF ReadBefore, Becomes, Without
<1>2. JobFine(tab, j, runs, log) /\ j \in JobRow /\ Shaped(j, runs, log)
  BY JobIs
<1>3. j.kind \in {"open", "stream", "reconnect", "stop"} /\ j.thread \in Threads
  BY <1>1, <1>2 DEF Shaped, JobRow
<1>4. s \in Snapshot /\ s # Nobody /\ s.msgs = log[j.thread]
  BY <1>3, SnapIs DEF StreamInv
<1> HIDE DEF s
<1>5. /\ i \in JobRow /\ i.kind = j.kind /\ i.pc = "after" /\ i.thread = j.thread /\ i.gen = j.gen
      /\ i.owned = j.owned /\ i.fresh = j.fresh /\ i.busy = j.busy /\ i.clears = j.clears /\ i.aim = j.aim
      /\ i.before = s /\ i.back = j.back
  BY <1>2, <1>4 DEF JobRow
<1>6. Alike(j, i)
  BY <1>1, <1>5 DEF Alike, Tracks
<1>7. JobFine(tab, i, runs, log)
  BY <1>1, <1>2, <1>3, <1>4, <1>5 DEF JobFine, Shaped
<1>8. PageFine(tab', runs)
  BY <1>1 DEF StreamInv, StreamFine
<1> HIDE DEF i
<1> QED BY <1>1, <1>6, <1>7, <1>8, FurtherFine

LEMMA AgainFine ==
  ASSUME StreamInv, NEW j \in jobs, Again(j)
  PROVE  StreamInv'
<1> DEFINE i == [j EXCEPT !.pc = "before", !.before = Nobody]
<1>1. /\ j.pc = "after" /\ jobs' = (jobs \ {j}) \cup {i} /\ UNCHANGED ledgers
      /\ tab' = tab /\ past' = past
  BY DEF Again, Becomes, Without
<1>2. JobFine(tab, j, runs, log) /\ j \in JobRow /\ Shaped(j, runs, log)
  BY JobIs
<1>3. j.kind \in {"open", "stream", "reconnect", "stop"} /\ j.thread \in Threads
  BY <1>1, <1>2 DEF Shaped, JobRow
<1>4. /\ i \in JobRow /\ i.kind = j.kind /\ i.pc = "before" /\ i.thread = j.thread /\ i.gen = j.gen
      /\ i.owned = j.owned /\ i.fresh = j.fresh /\ i.busy = j.busy /\ i.clears = j.clears /\ i.aim = j.aim
      /\ i.before = Nobody /\ i.back = j.back
  BY <1>2 DEF JobRow
<1>5. Alike(j, i)
  BY <1>1, <1>4 DEF Alike, Tracks
<1>6. JobFine(tab, i, runs, log)
  BY <1>1, <1>2, <1>3, <1>4 DEF JobFine, Shaped
<1>7. PageFine(tab', runs)
  BY <1>1 DEF StreamInv, StreamFine
<1> HIDE DEF i
<1> QED BY <1>1, <1>5, <1>6, <1>7, FurtherFine

LEMMA CreatedFine ==
  ASSUME StreamInv, NEW j \in jobs, Created(j)
  PROVE  StreamInv'
<1> DEFINE i == [j EXCEPT !.pc = "start"]
<1>1. /\ j.pc = "create" /\ jobs' = (jobs \ {j}) \cup {i} /\ UNCHANGED ledgers
      /\ tab' = [tab EXCEPT !.thread = j.thread] /\ past' = past
  BY DEF Created, Becomes, Without
<1>2. JobFine(tab, j, runs, log) /\ j \in JobRow /\ Shaped(j, runs, log) /\ tab \in TabRow
  BY JobIs
<1>3. j.kind = "send" /\ j.thread \in Threads
  BY <1>1, <1>2 DEF Shaped, JobRow
<1>4. /\ i \in JobRow /\ i.kind = "send" /\ i.pc = "start" /\ i.thread = j.thread /\ i.gen = j.gen
      /\ i.owned = j.owned /\ i.fresh = j.fresh /\ i.busy = j.busy /\ i.clears = j.clears /\ i.aim = j.aim
      /\ i.before = j.before /\ i.back = j.back
  BY <1>2, <1>3 DEF JobRow
<1>5. Alike(j, i)
  BY <1>1, <1>3, <1>4 DEF Alike, Tracks
<1>6. JobFine(tab, i, runs, log)
  BY <1>1, <1>2, <1>3, <1>4 DEF JobFine, Shaped
<1>7. /\ tab' \in TabRow /\ tab'.signedIn = tab.signedIn /\ tab'.back = tab.back /\ tab'.gen = tab.gen
      /\ tab'.known = tab.known /\ tab'.cursor = tab.cursor /\ tab'.output = tab.output
      /\ tab'.resume = tab.resume /\ tab'.final = tab.final
  BY <1>1, <1>2, <1>3 DEF TabRow, ThreadRef
<1>8. PageFine(tab', runs)
  BY <1>7 DEF StreamInv, StreamFine, PageFine
<1> HIDE DEF i
<1> QED BY <1>1, <1>5, <1>6, <1>7, <1>8, FurtherFine

-----------------------------------------------------------------------------
(* A handler that leaves, the page as it was but for what it shows.         *)
LEMMA LeavesFine ==
  ASSUME StreamInv, UNCHANGED ledgers, past \subseteq past', jobs' \subseteq jobs, PageFine(tab', runs),
         tab'.signedIn = tab.signedIn, tab'.back = tab.back, tab'.gen = tab.gen, tab'.known = tab.known,
         tab'.cursor = tab.cursor, tab'.output = tab.output,
         Calm(past') => Alone(tab', jobs')
  PROVE  StreamInv'
<1>1. StreamFine(tab, jobs, runs, log, past) /\ (Calm(past') => Calm(past))
  BY DEF StreamInv, Calm
<1>2. JobsFine(tab', jobs', runs, log)
  BY <1>1, JobsFrom DEF StreamFine
<1>3. Backs(tab, jobs, jobs')
  BY DEF Backs
<1>4. Calm(past') => Tells(tab', jobs', runs)
  <2> SUFFICES ASSUME Calm(past') PROVE Tells(tab', jobs', runs)
    OBVIOUS
  <2>1. Tells(tab, jobs, runs)
    BY <1>1 DEF StreamFine
  <2>2. tab'.signedIn /\ tab'.gen # Nobody /\ tab'.known = "completed" => runs[tab'.gen].status = "completed"
    BY <2>1 DEF Tells
  <2> QED BY <1>3, <2>1, <2>2, TellsKept
<1>5. Calm(past') /\ "blind" \notin past' => Texts(tab', jobs', runs)
  <2> SUFFICES ASSUME Calm(past'), "blind" \notin past' PROVE Texts(tab', jobs', runs)
    OBVIOUS
  <2>1. Texts(tab, jobs, runs)
    BY <1>1 DEF StreamFine
  <2>2. tab'.signedIn /\ Going(tab'.gen, tab'.known, runs) => Journal(tab.output, tab.cursor, tab'.gen, runs)
    BY <2>1 DEF Texts
  <2> QED BY <1>3, <2>1, <2>2, TextsKept
<1>6. StreamFine(tab', jobs', runs, log, past')
  BY <1>2, <1>4, <1>5 DEF StreamFine
<1> QED BY <1>6, StepFine DEF StreamInv

LEMMA UncancelledFine ==
  ASSUME StreamInv, NEW j \in jobs, Uncancelled(j)
  PROVE  StreamInv'
<1>1. jobs' \subseteq jobs /\ UNCHANGED ledgers /\ tab' = tab /\ past' = past
  BY DEF Uncancelled, Without
<1>2. PageFine(tab', runs)
  BY <1>1 DEF StreamInv, StreamFine
<1>3. Calm(past') => Alone(tab', jobs')
  BY <1>1, AloneStill DEF StreamInv, StreamFine
<1> QED BY <1>1, <1>2, <1>3, LeavesFine

LEMMA StopRunFine ==
  ASSUME StreamInv, StopRun
  PROVE  StreamInv'
<1> DEFINE i == [NoJob EXCEPT !.kind = "stop", !.pc = "cancel", !.thread = runs[tab.gen].thread, !.gen = tab.gen]
<1>1. /\ jobs' = jobs \cup {i} /\ UNCHANGED ledgers /\ tab' = tab /\ past' = past
      /\ tab.signedIn /\ tab.gen # Nobody
  BY DEF StopRun, Starts, Running
<1>2. PageFine(tab, runs) /\ tab \in TabRow
  BY DEF StreamInv, StreamFine, PageFine
<1>3. tab.gen \in Turns /\ runs[tab.gen].thread \in Threads
  <2>1. tab.gen \in Turns
    BY <1>1, <1>2 DEF TabRow, TurnRef
  <2>2. runs[tab.gen] \in RunRow
    BY <2>1, ServerIs DEF StreamInv
  <2> QED BY <1>1, <1>2, <2>1, <2>2 DEF PageFine, Used, RunRow, ThreadRef
<1>4. /\ i \in JobRow /\ i.kind = "stop" /\ i.pc = "cancel" /\ i.thread = runs[tab.gen].thread /\ i.gen = tab.gen
      /\ i.owned /\ i.fresh /\ ~i.busy /\ ~i.clears /\ i.aim = "view" /\ i.before = Nobody /\ i.back = Nobody
  BY <1>3 DEF JobRow, NoJob, ThreadRef, TurnRef
<1> HIDE DEF i
<1>5. JobFine(tab, i, runs, log)
  BY <1>1, <1>2, <1>3, <1>4, NobodyIs DEF JobFine, Shaped, Known, Of, PageFine
<1>6. StreamFine(tab, jobs, runs, log, past)
  BY DEF StreamInv
<1>7. JobsFine(tab', jobs', runs, log)
  BY <1>1, <1>5, <1>6 DEF StreamFine, JobsFine
<1>8. Calm(past') => Alone(tab', jobs')
  BY <1>1, <1>4, <1>6 DEF StreamFine, Alone, Keeps, Beside, Views
<1>9. Calm(past') => Tells(tab', jobs', runs)
  BY <1>1, <1>4, <1>6 DEF StreamFine, Tells, Told
<1>10. Calm(past') /\ "blind" \notin past' => Texts(tab', jobs', runs)
  BY <1>1, <1>4, <1>6 DEF StreamFine, Texts, Good
<1>11. StreamFine(tab', jobs', runs, log, past')
  BY <1>1, <1>2, <1>7, <1>8, <1>9, <1>10 DEF StreamFine
<1> QED BY <1>1, <1>11, StepFine DEF StreamInv

(* The server alone.                                                        *)
LEMMA ServerFine ==
  ASSUME StreamInv, Serving(runs', log', live'), Grows(runs, runs'), Lengthens(log, log'),
         UNCHANGED <<tab, jobs, past>>
  PROVE  StreamInv'
<1>1. runs \in [Turns -> RunRow] /\ runs' \in [Turns -> RunRow]
  BY DEF StreamInv, Serving
<1>2. StreamFine(tab, jobs, runs', log', past)
  BY <1>1, PagesStay DEF StreamInv
<1> QED BY <1>2 DEF StreamInv

LEMMA ServerRunsFine ==
  ASSUME StreamInv, ServerRuns
  PROVE  StreamInv'
<1>1. UNCHANGED <<tab, jobs, past>> /\ Serving(runs, log, live)
  BY DEF ServerRuns, StreamInv
<1>2. PICK g \in Turns :
        /\ runs[g].status = "in_progress"
        /\ \/ /\ runs[g].deltas < MaxDeltas
              /\ runs' = [runs EXCEPT ![g].deltas = @ + 1] /\ UNCHANGED <<log, live>>
           \/ /\ Ended(g, "completed")
              /\ log' = [log EXCEPT ![runs[g].thread] = Append(@, Answer(g))]
           \/ Ended(g, "failed") /\ UNCHANGED log
  BY DEF ServerRuns
<1>3. CASE runs' = [runs EXCEPT ![g].deltas = @ + 1] /\ UNCHANGED <<log, live>>
  <2>1. runs \in [Turns -> RunRow] /\ runs[g] \in RunRow /\ runs[g].deltas \in Nat
    BY <1>1, ServerIs DEF RunRow
  <2> DEFINE r == [runs[g] EXCEPT !.deltas = runs[g].deltas + 1]
  <2>2. r \in RunRow /\ r.thread = runs[g].thread /\ r.status = runs[g].status /\ r.deltas = runs[g].deltas + 1
    BY <2>1 DEF RunRow
  <2>3. runs' = [runs EXCEPT ![g] = r]
    BY <1>3
  <2> HIDE DEF r
  <2>4. /\ runs' \in [Turns -> RunRow] /\ runs'[g] = r
        /\ \A h \in Turns : h # g => runs'[h] = runs[h]
    BY <2>1, <2>2, <2>3
  <2>5. \A h \in Turns : runs'[h].thread = runs[h].thread /\ runs'[h].status = runs[h].status
    BY <2>2, <2>4
  <2>6. \A h \in Turns : runs'[h].deltas >= runs[h].deltas
    <3>1. \A h \in Turns : runs[h].deltas \in Nat
      BY <2>1 DEF RunRow
    <3> QED BY <2>1, <2>2, <2>4, <3>1
  <2>7. Grows(runs, runs') /\ Lengthens(log, log')
    BY <1>3, <2>5, <2>6 DEF Grows, Lengthens
  <2>8. \A t \in Threads : \A i \in DOMAIN log[t] : log[t][i].gen \in Turns
    BY <1>1, ServerIs, RangeIs, MessageGen DEF Ledger
  <2>9. Serving(runs', log, live)
    BY <1>1, <2>4, <2>5, <2>8 DEF Serving, Used, Of
  <2> QED BY <1>1, <1>3, <2>7, <2>9, ServerFine
<1>4. CASE Ended(g, "completed") /\ log' = [log EXCEPT ![runs[g].thread] = Append(@, Answer(g))]
  BY <1>1, <1>2, <1>4, EndedServes, ServerFine
<1>5. CASE Ended(g, "failed") /\ UNCHANGED log
  BY <1>1, <1>2, <1>5, EndedServes, ServerFine
<1> QED BY <1>2, <1>3, <1>4, <1>5

LEMMA ElsewhereFine ==
  ASSUME StreamInv, Elsewhere
  PROVE  StreamInv'
<1>1. PICK t \in Threads, g \in Turns : Begun(t, g)
  BY DEF Elsewhere
<1>2. UNCHANGED <<tab, jobs, past>> /\ Serving(runs, log, live)
  BY DEF Elsewhere, StreamInv
<1> QED BY <1>1, <1>2, BegunServes, ServerFine
-----------------------------------------------------------------------------
(* The session that ends under a page.                                      *)

LEMMA ClearedIs ==
  ASSUME NEW p \in TabRow
  PROVE  /\ Cleared(p) \in TabRow /\ Cleared(p).signedIn = p.signedIn /\ Cleared(p).thread = p.thread
         /\ Cleared(p).gen = p.gen /\ Cleared(p).known = p.known /\ Cleared(p).cursor = p.cursor
         /\ Cleared(p).output = p.output /\ Cleared(p).shown = << >> /\ Cleared(p).status = "idle"
         /\ ~Cleared(p).resume /\ Cleared(p).final = p.final /\ Cleared(p).back = p.back
<1>1. << >> \in Ledger /\ Nobody \in TurnRef
  BY DEF Ledger, TurnRef
<1> QED BY <1>1 DEF Cleared, TabRow

LEMMA SignsOutFine ==
  ASSUME StreamInv, UNCHANGED ledgers, NEW back \in Descriptor \cup {Nobody}, NEW js, js \subseteq jobs,
         SignsOut(back, js), Known(back, runs),
         Calm(past') => Told(back, runs),
         Calm(past') /\ "blind" \notin past' => Good(back, runs)
  PROVE  StreamInv'
<1>1. /\ tab' = [Cleared(tab) EXCEPT !.signedIn = FALSE, !.thread = Nobody, !.gen = Nobody,
                                    !.final = Nobody, !.back = back]
      /\ jobs' = SignedAway(js) /\ past \subseteq past'
  BY DEF SignsOut, Notes
<1>2. /\ StreamFine(tab, jobs, runs, log, past) /\ (Calm(past') => Calm(past))
      /\ tab \in TabRow
  BY <1>1 DEF StreamInv, Calm, StreamFine, PageFine
<1>3. /\ tab' \in TabRow /\ ~tab'.signedIn /\ tab'.gen = Nobody /\ tab'.back = back /\ tab'.final = Nobody
      /\ tab'.cursor = tab.cursor /\ tab'.output = tab.output
  <2> DEFINE q == Cleared(tab)
  <2>1. q \in TabRow /\ q.cursor = tab.cursor /\ q.output = tab.output
    BY <1>2, ClearedIs
  <2>2. tab' = [q EXCEPT !.signedIn = FALSE, !.thread = Nobody, !.gen = Nobody, !.final = Nobody, !.back = back]
    BY <1>1
  <2> HIDE DEF q
  <2> QED BY <2>1, <2>2 DEF TabRow, ThreadRef, TurnRef
<1>4. PageFine(tab', runs)
  BY <1>3 DEF PageFine
<1>5. JobsFine(tab, js, runs, log)
  BY <1>2 DEF StreamFine, JobsFine
<1>6. /\ JobsFine(tab', jobs', runs, log) /\ Backs(tab, js, jobs')
      /\ \A k \in jobs' : ~k.owned /\ ~k.fresh
  BY <1>1, <1>5, SignedAwayIs
<1>7. Alone(tab', jobs')
  BY <1>3, <1>6, AloneNone DEF Views, Keeps
<1>8. Backs(tab, jobs, jobs')
  BY <1>6 DEF Backs
<1>9. Calm(past') => Tells(tab', jobs', runs)
  BY <1>2, <1>3, <1>8 DEF StreamFine, Tells, Told, Backs
<1>10. Calm(past') /\ "blind" \notin past' => Texts(tab', jobs', runs)
  <2> SUFFICES ASSUME Calm(past'), "blind" \notin past' PROVE Texts(tab', jobs', runs)
    OBVIOUS
  <2>1. Texts(tab, jobs, runs) /\ Good(back, runs)
    BY <1>1, <1>2 DEF StreamFine
  <2>2. \A k \in jobs' : Good(k.back, runs)
    BY <1>8, <2>1 DEF Texts, Backs, Good
  <2> QED BY <1>3, <2>1, <2>2 DEF Texts
<1>11. StreamFine(tab', jobs', runs, log, past')
  BY <1>4, <1>6, <1>7, <1>9, <1>10 DEF StreamFine
<1> QED BY <1>11, StepFine DEF StreamInv

LEMMA RecoversFine ==
  ASSUME StreamInv, UNCHANGED ledgers, NEW back \in Descriptor \cup {Nobody}, NEW js, js \subseteq jobs,
         Recovers(back, js), Known(back, runs),
         tab.signedIn /\ Calm(past') => Told(back, runs),
         tab.signedIn /\ Calm(past') /\ "blind" \notin past' => Good(back, runs)
  PROVE  StreamInv'
<1>1. CASE tab.signedIn
  <2>1. SignsOut(back, js)
    BY <1>1 DEF Recovers
  <2> QED BY <1>1, <2>1, SignsOutFine
<1>2. CASE ~tab.signedIn
  <2>1. jobs' \subseteq jobs /\ tab' = tab /\ past' = past
    BY <1>2 DEF Recovers
  <2>2. PageFine(tab', runs)
    BY <2>1 DEF StreamInv, StreamFine
  <2>3. Calm(past') => Alone(tab', jobs')
    BY <2>1, AloneStill DEF StreamInv, StreamFine
  <2> QED BY <2>1, <2>2, <2>3, LeavesFine
<1> QED BY <1>1, <1>2

(* What the page keeps of the generation it asked for.                      *)
LEMMA CaptureIs ==
  ASSUME StreamInv, NEW t \in ThreadRef, NEW g \in TurnRef, g # Nobody => Used(g, runs)
  PROVE  /\ Capture(t, g) \in Descriptor \cup {Nobody} /\ Known(Capture(t, g), runs)
         /\ tab.signedIn /\ Calm(past) => Told(Capture(t, g), runs)
         /\ tab.signedIn /\ Calm(past) /\ "blind" \notin past
            /\ ~(Capture(t, g) # Nobody /\ Capture(t, g).cursor > 0
                 /\ Capture(t, g).gen \notin {tab.gen} \ {Nobody})
            => Good(Capture(t, g), runs)
<1>1. CASE t = Nobody
  BY <1>1 DEF Capture, Known, Told, Good
<1>2. CASE t # Nobody
  <2> DEFINE b == [thread |-> t, gen |-> g, known |-> IF tab.gen = g THEN tab.known ELSE "none",
                   cursor |-> tab.cursor, output |-> tab.output]
  <2>1. Capture(t, g) = b
    BY <1>2 DEF Capture
  <2>2. tab \in TabRow
    BY DEF StreamInv, StreamFine, PageFine
  <2>3. tab.known \in Statuses /\ tab.cursor \in Nat /\ tab.output \in Seq(Turns \X Nat)
    BY <2>2 DEF TabRow
  <2>4. t \in Threads /\ g \in Turns \cup {Nobody} /\ "none" \in Statuses
    BY <1>2 DEF ThreadRef, TurnRef, Statuses
  <2>5. b \in Descriptor
    BY <2>3, <2>4 DEF Descriptor
  <2>6. /\ b.gen = g /\ b.known = IF tab.gen = g THEN tab.known ELSE "none"
        /\ b.cursor = tab.cursor /\ b.output = tab.output
    OBVIOUS
  <2> HIDE DEF b
  <2>7. Known(b, runs)
    BY <2>6 DEF Known
  <2>8. ASSUME tab.signedIn, Calm(past)
        PROVE  Told(b, runs)
    <3>1. Tells(tab, jobs, runs)
      BY <2>8 DEF StreamInv, StreamFine
    <3> QED BY <2>6, <2>8, <3>1 DEF Told, Tells
  <2>9. ASSUME tab.signedIn, Calm(past), "blind" \notin past, ~(b.cursor > 0 /\ b.gen \notin {tab.gen} \ {Nobody})
        PROVE  Good(b, runs)
    <3>1. Texts(tab, jobs, runs)
      BY <2>9 DEF StreamInv, StreamFine
    <3>2. Traced(tab.output, tab.cursor, runs)
      BY <3>1 DEF Texts
    <3>3. ASSUME Going(g, b.known, runs)
          PROVE  Journal(tab.output, tab.cursor, g, runs)
      <4>1. g \in Turns
        BY <2>4, <3>3 DEF Going
      <4>2. CASE g = tab.gen
        BY <2>6, <2>9, <3>1, <3>3, <4>2 DEF Texts
      <4>3. CASE g # tab.gen
        <5>1. tab.cursor = 0
          BY <2>3, <2>6, <2>9, <4>3
        <5>2. tab.output = << >>
          <6>1. CASE tab.output = << >>
            BY <6>1
          <6>2. ASSUME NEW h \in Turns, Journal(tab.output, tab.cursor, h, runs)
                PROVE  tab.output = << >>
            BY <5>1, <6>2 DEF Journal
          <6> QED BY <3>2, <6>1, <6>2 DEF Traced
        <5> QED BY <4>1, <5>1, <5>2, Anew, ServerIs DEF StreamInv
      <4> QED BY <4>2, <4>3
    <3> QED BY <2>6, <3>2, <3>3 DEF Good
  <2>10. b # Nobody
    BY <2>5, NobodyIs
  <2> QED BY <2>1, <2>5, <2>7, <2>8, <2>9, <2>10
<1> QED BY <1>1, <1>2

LEMMA CapturedFine ==
  ASSUME StreamInv, UNCHANGED ledgers, NEW js, js \subseteq jobs, NEW t \in ThreadRef, NEW g \in TurnRef,
         g # Nobody => Used(g, runs),
         Recovers(Capture(t, g), js) \/ (tab.signedIn /\ SignsOut(Capture(t, g), js))
  PROVE  StreamInv'
<1> DEFINE b == Capture(t, g)
<1>1. /\ b \in Descriptor \cup {Nobody} /\ Known(b, runs)
      /\ tab.signedIn /\ Calm(past) => Told(b, runs)
      /\ tab.signedIn /\ Calm(past) /\ "blind" \notin past
         /\ ~(b # Nobody /\ b.cursor > 0 /\ b.gen \notin {tab.gen} \ {Nobody}) => Good(b, runs)
  BY CaptureIs
<1>2. Recovers(b, js)
  BY DEF Recovers
<1> HIDE DEF b
<1>3. past \subseteq past'
  BY <1>2 DEF Recovers, SignsOut, Notes
<1>4. tab.signedIn /\ "blind" \notin past' => ~(b # Nobody /\ b.cursor > 0 /\ b.gen \notin {tab.gen} \ {Nobody})
  BY <1>2 DEF Recovers, SignsOut, Notes
<1>5. Calm(past') => Calm(past)
  BY <1>3 DEF Calm
<1>6. /\ tab.signedIn /\ Calm(past') => Told(b, runs)
      /\ tab.signedIn /\ Calm(past') /\ "blind" \notin past' => Good(b, runs)
  BY <1>1, <1>3, <1>4, <1>5
<1> QED BY <1>1, <1>2, <1>6, RecoversFine

LEMMA StreamExpiredFine ==
  ASSUME StreamInv, NEW j \in jobs, StreamExpired(j)
  PROVE  StreamInv'
<1>1. UNCHANGED ledgers /\ Recovers(Capture(j.thread, j.gen), jobs \ {j})
  BY DEF StreamExpired, Without
<1>2. j.thread \in ThreadRef /\ j.gen \in TurnRef /\ (j.gen # Nobody => Used(j.gen, runs))
  BY JobIs DEF JobRow, Shaped
<1> QED BY <1>1, <1>2, CapturedFine

LEMMA FindsExpiredFine ==
  ASSUME StreamInv, FindsExpired
  PROVE  StreamInv'
<1> DEFINE t == IF tab.thread # Nobody THEN tab.thread
                ELSE IF tab.gen # Nobody THEN runs[tab.gen].thread ELSE Nobody
<1>1. UNCHANGED ledgers /\ tab.signedIn /\ SignsOut(Capture(t, tab.gen), jobs)
  BY DEF FindsExpired
<1>2. tab \in TabRow /\ PageFine(tab, runs)
  BY DEF StreamInv, StreamFine, PageFine
<1>3. tab.thread \in ThreadRef /\ tab.gen \in TurnRef /\ Nobody \in ThreadRef
  BY <1>2 DEF TabRow, ThreadRef
<1>4. tab.gen # Nobody => runs[tab.gen].thread \in ThreadRef /\ Used(tab.gen, runs)
  <2>1. tab.gen # Nobody => runs[tab.gen] \in RunRow
    BY <1>3, ServerIs DEF StreamInv, TurnRef
  <2> QED BY <1>2, <2>1 DEF PageFine, RunRow
<1>5. t \in ThreadRef
  BY <1>3, <1>4
<1> HIDE DEF t
<1> QED BY <1>1, <1>3, <1>4, <1>5, CapturedFine

LEMMA SettledNot ==
  ASSUME NEW p, NEW j, ~(j.clears /\ j.fresh /\ p.signedIn)
  PROVE  Settled(p, j) = p
BY DEF Settled

LEMMA FailedIs ==
  ASSUME NEW j
  PROVE  /\ j.aim = "final" => Failed(j) = Settled(IF Owns(j) THEN Paused(FinalOf(j)) ELSE tab, j)
         /\ j.aim = "refresh" =>
              Failed(j) = Settled([tab EXCEPT !.status = runs[j.gen].status, !.resume = FALSE], j)
         /\ j.aim = "view" =>
              Failed(j) = IF j.kind = "reconnect" /\ (Owns(j) \/ j.pc # "status") THEN Reinstated(tab, j) ELSE tab
<1> DEFINE a == Settled(IF Owns(j) THEN Paused(FinalOf(j)) ELSE tab, j)
           b == Settled([tab EXCEPT !.status = runs[j.gen].status, !.resume = FALSE], j)
           c == Reinstated(tab, j)
           d == j.aim = "view" /\ j.kind = "reconnect" /\ (Owns(j) \/ j.pc # "status")
<1>1. Failed(j) = CASE j.aim = "final" -> a
                    [] j.aim = "refresh" -> b
                    [] d -> c
                    [] OTHER -> tab
  BY DEF Failed
<1>2. d \in BOOLEAN /\ (d => j.aim = "view")
  OBVIOUS
<1> HIDE DEF a, b, c, d
<1>3. j.aim = "final" => Failed(j) = a
  BY <1>1, <1>2
<1>4. j.aim = "refresh" => Failed(j) = b
  BY <1>1, <1>2
<1>5. j.aim = "view" /\ d => Failed(j) = c
  BY <1>1, <1>2
<1>6. j.aim = "view" /\ ~d => Failed(j) = tab
  BY <1>1, <1>2
<1> QED BY <1>2, <1>3, <1>4, <1>5, <1>6 DEF a, b, c, d

LEMMA ExpiredFine ==
  ASSUME StreamInv, NEW j \in jobs, Expired(j)
  PROVE  StreamInv'
<1>1. UNCHANGED ledgers /\ Reading(j) /\ jobs \ {j} \subseteq jobs
  BY DEF Expired
<1>2. /\ JobFine(tab, j, runs, log) /\ j \in JobRow /\ Shaped(j, runs, log) /\ Known(j.back, runs) /\ tab \in TabRow
      /\ j.fresh => tab.signedIn
      /\ j.owned => j.fresh
  BY JobIs
<1>3. j.thread \in ThreadRef /\ j.gen \in TurnRef /\ (j.gen # Nobody => Used(j.gen, runs))
      /\ j.back \in Descriptor \cup {Nobody}
  BY <1>2 DEF JobRow, Shaped
<1>4. CASE j.kind = "stop" \/ (j.kind = "open" /\ ~Owns(j))
  <2>1. tab' = Failed(j) /\ jobs' = jobs \ {j} /\ past' = past
    BY <1>4 DEF Expired, Without
  <2>2. ~j.clears
    BY <1>2, <1>4 DEF Shaped
  <2>3. CASE j.kind = "open"
    <3>1. tab' = tab
      <4>1. j.aim = "view"
        BY <1>2, <2>3 DEF Shaped
      <4> QED BY <2>1, <2>3, <4>1 DEF Failed
    <3>2. PageFine(tab', runs)
      BY <3>1 DEF StreamInv, StreamFine
    <3>3. Calm(past') => Alone(tab', jobs')
      BY <2>1, <3>1, AloneStill DEF StreamInv, StreamFine
    <3> QED BY <1>1, <2>1, <3>1, <3>2, <3>3, LeavesFine
  <2>4. CASE j.kind = "stop"
    <3>1. j.aim = "refresh" /\ j.gen \in Turns /\ j.thread \in Threads
      BY <1>1, <1>2, <2>4 DEF Shaped, Reading, Of
    <3>2. tab' = [tab EXCEPT !.status = runs[j.gen].status, !.resume = FALSE]
      <4> DEFINE q == [tab EXCEPT !.status = runs[j.gen].status, !.resume = FALSE]
      <4>1. Failed(j) = Settled(q, j)
        BY <3>1, FailedIs
      <4> HIDE DEF q
      <4>2. Failed(j) = q
        BY <2>2, <4>1, SettledNot
      <4> QED BY <2>1, <4>2 DEF q
    <3>3. runs[j.gen].status \in Statuses
      BY <3>1, ServerIs DEF StreamInv, RunRow
    <3>4. /\ tab' \in TabRow /\ tab'.signedIn = tab.signedIn /\ tab'.back = tab.back /\ tab'.gen = tab.gen
          /\ tab'.known = tab.known /\ tab'.cursor = tab.cursor /\ tab'.output = tab.output
          /\ ~tab'.resume /\ tab'.final = tab.final
      BY <1>2, <3>2, <3>3 DEF TabRow
    <3>5. PageFine(tab', runs)
      BY <3>4 DEF StreamInv, StreamFine, PageFine
    <3>6. Calm(past') => Alone(tab', jobs')
      BY <2>1, <3>4, AloneStill DEF StreamInv, StreamFine
    <3> QED BY <1>1, <2>1, <3>4, <3>5, <3>6, LeavesFine
  <2> QED BY <1>4, <2>3, <2>4
<1>5. CASE ~(j.kind = "stop" \/ (j.kind = "open" /\ ~Owns(j)))
  <2>1. Recovers(IF j.kind = "reconnect" /\ j.aim = "view" THEN j.back ELSE Capture(j.thread, j.gen), jobs \ {j})
    BY <1>5 DEF Expired, Without
  <2>2. CASE j.kind = "reconnect" /\ j.aim = "view"
    <3>1. Recovers(j.back, jobs \ {j})
      BY <2>1, <2>2
    <3>2. past \subseteq past'
      BY <3>1 DEF Recovers, SignsOut, Notes
    <3>3. /\ Calm(past') => Told(j.back, runs)
          /\ Calm(past') /\ "blind" \notin past' => Good(j.back, runs)
      BY <3>2 DEF StreamInv, StreamFine, Calm, Tells, Texts
    <3> QED BY <1>1, <1>2, <1>3, <3>1, <3>3, RecoversFine
  <2>3. CASE ~(j.kind = "reconnect" /\ j.aim = "view")
    <3>1. Recovers(Capture(j.thread, j.gen), jobs \ {j})
      BY <2>1, <2>3
    <3> QED BY <1>1, <1>3, <3>1, CapturedFine
  <2> QED BY <2>2, <2>3
<1> QED BY <1>4, <1>5

LEMMA UnsentFine ==
  ASSUME StreamInv, NEW j \in jobs, Unsent(j)
  PROVE  StreamInv'
<1>1. UNCHANGED ledgers /\ jobs \ {j} \subseteq jobs
  BY DEF Unsent
<1>2. CASE Recovers(Nobody, jobs \ {j})
  BY <1>1, <1>2, RecoversFine DEF Known, Told, Good
<1>3. CASE jobs' = jobs \ {j} /\ UNCHANGED <<tab, past>>
  <2>1. PageFine(tab', runs)
    BY <1>3 DEF StreamInv, StreamFine
  <2>2. Calm(past') => Alone(tab', jobs')
    BY <1>3, AloneStill DEF StreamInv, StreamFine
  <2> QED BY <1>1, <1>3, <2>1, <2>2, LeavesFine
<1> QED BY <1>2, <1>3 DEF Unsent, Without
-----------------------------------------------------------------------------
(* Signing in again.                                                        *)

LEMMA SignInFine ==
  ASSUME StreamInv, SignIn
  PROVE  StreamInv'
<1> DEFINE b == tab.back
           c == Cleared(tab)
<1>1. UNCHANGED ledgers /\ past' = past /\ ~tab.signedIn
  BY DEF SignIn
<1>2. /\ StreamFine(tab, jobs, runs, log, past) /\ tab \in TabRow /\ PageFine(tab, runs)
      /\ JobsFine(tab, jobs, runs, log)
  BY DEF StreamInv, StreamFine, PageFine
<1>3. /\ c \in TabRow /\ c.gen = tab.gen /\ c.known = tab.known /\ ~c.resume /\ c.final = tab.final /\ c.back = b
      /\ c.cursor = tab.cursor /\ c.output = tab.output
  BY <1>2, ClearedIs
<1>4. b \in Descriptor \cup {Nobody} /\ Known(b, runs)
  BY <1>2 DEF TabRow, PageFine
<1>5. CASE b = Nobody
  <2> DEFINE i == Lister(Nobody)
  <2>1. /\ tab' = [c EXCEPT !.signedIn = TRUE, !.gen = Nobody, !.cursor = 0, !.output = << >>]
        /\ jobs' = SignedAway(jobs) \cup {i}
    BY <1>5 DEF SignIn
  <2>2. /\ i \in JobRow /\ i.kind = "list" /\ i.pc = "list" /\ i.owned /\ i.fresh /\ ~i.busy /\ ~i.clears
        /\ i.aim = "view" /\ i.before = Nobody /\ i.back = Nobody /\ i.gen = Nobody
    BY DEF Lister, NoJob, JobRow, ThreadRef, TurnRef
  <2> HIDE DEF b, c, i
  <2>3. /\ tab' \in TabRow /\ tab'.signedIn /\ tab'.gen = Nobody /\ ~tab'.resume
        /\ tab'.final = tab.final /\ tab'.back = Nobody /\ tab'.cursor = 0 /\ tab'.output = << >>
    <3>1. << >> \in Seq(Turns \X Nat) /\ Nobody \in TurnRef
      BY DEF TurnRef
    <3> QED BY <1>3, <1>5, <2>1, <3>1 DEF TabRow
  <2>4. JobFine(tab', i, runs, log)
    BY <2>2, <2>3 DEF JobFine, Shaped, Known
  <2>5. /\ JobsFine(tab', SignedAway(jobs), runs, log) /\ Backs(tab, jobs, SignedAway(jobs))
        /\ \A k \in SignedAway(jobs) : ~k.owned /\ ~k.fresh
    BY <1>2, SignedAwayIs
  <2>6. JobsFine(tab', jobs', runs, log) /\ Backs(tab, jobs, jobs')
    BY <2>1, <2>2, <2>4, <2>5 DEF JobsFine, Backs
  <2>7. PageFine(tab', runs)
    BY <1>2, <2>3 DEF PageFine, Known
  <2>8. Alone(tab', jobs')
    <3>1. \A k \in jobs' : k = i \/ (~Views(k) /\ Keeps(k))
      BY <2>1, <2>5 DEF Views, Keeps
    <3>2. Keeps(i) /\ Beside(tab', i)
      BY <2>2, <2>3 DEF Keeps, Beside, Tracks
    <3> QED BY <2>3, <3>1, <3>2, AloneOne
  <2>9. Calm(past') => Tells(tab', jobs', runs)
    <3> SUFFICES ASSUME Calm(past') PROVE Tells(tab', jobs', runs)
      OBVIOUS
    <3>1. Tells(tab, jobs, runs)
      BY <1>1, <1>2 DEF StreamFine
    <3> QED BY <2>3, <2>6, <3>1, TellsKept
  <2>10. Calm(past') /\ "blind" \notin past' => Texts(tab', jobs', runs)
    <3> SUFFICES ASSUME Calm(past'), "blind" \notin past' PROVE Texts(tab', jobs', runs)
      OBVIOUS
    <3>1. Texts(tab, jobs, runs)
      BY <1>1, <1>2 DEF StreamFine
    <3>2. tab'.gen \in TurnRef
      BY <2>3 DEF TabRow
    <3> QED BY <2>3, <2>6, <3>1, <3>2, TextsAnew, ServerIs DEF StreamInv
  <2>11. StreamFine(tab', jobs', runs, log, past')
    BY <2>6, <2>7, <2>8, <2>9, <2>10 DEF StreamFine
  <2> QED BY <1>1, <2>11, StepFine DEF StreamInv
<1>6. CASE b # Nobody
  <2> DEFINE i == [NoJob EXCEPT !.kind = "reconnect", !.pc = "before", !.thread = b.thread,
                                !.clears = TRUE, !.back = b]
  <2>1. /\ tab' = [c EXCEPT !.signedIn = TRUE, !.thread = b.thread, !.gen = HeldBy(b), !.known = b.known,
                            !.cursor = b.cursor, !.output = b.output]
        /\ jobs' = SignedAway(jobs) \cup {i}
    BY <1>6 DEF SignIn
  <2>2. /\ b \in Descriptor /\ b.thread \in Threads /\ b.gen \in TurnRef /\ b.known \in Statuses
        /\ b.cursor \in Nat /\ b.output \in Seq(Turns \X Nat)
    BY <1>4, <1>6 DEF Descriptor, TurnRef
  <2>3. HeldBy(b) \in {b.gen, Nobody} /\ HeldBy(b) \in TurnRef
    BY <2>2 DEF HeldBy, TurnRef
  <2> HIDE DEF b, c
  <2>4. /\ i \in JobRow /\ i.kind = "reconnect" /\ i.pc = "before" /\ i.thread = b.thread /\ i.owned /\ i.fresh
        /\ ~i.busy /\ i.clears /\ i.aim = "view" /\ i.before = Nobody /\ i.back = b /\ i.gen = Nobody
    BY <2>2 DEF NoJob, JobRow, ThreadRef, TurnRef
  <2> HIDE DEF i
  <2> DEFINE hb == HeldBy(b)
  <2> HIDE DEF hb
  <2>5. /\ tab' \in TabRow /\ tab'.signedIn /\ tab'.gen = hb /\ tab'.known = b.known /\ ~tab'.resume
        /\ tab'.final = tab.final /\ tab'.back = b /\ tab'.cursor = b.cursor /\ tab'.output = b.output
    <3>1. /\ hb \in TurnRef
          /\ tab' = [c EXCEPT !.signedIn = TRUE, !.thread = b.thread, !.gen = hb, !.known = b.known,
                              !.cursor = b.cursor, !.output = b.output]
      BY <2>1, <2>3 DEF hb
    <3> QED BY <1>3, <2>2, <3>1 DEF TabRow, ThreadRef
  <2>6. JobFine(tab', i, runs, log)
    BY <1>4, <1>6, <2>2, <2>4, <2>5, NobodyIs DEF JobFine, Shaped
  <2>7. /\ JobsFine(tab', SignedAway(jobs), runs, log) /\ Backs(tab, jobs, SignedAway(jobs))
        /\ \A k \in SignedAway(jobs) : ~k.owned /\ ~k.fresh
    BY <1>2, SignedAwayIs
  <2>8. JobsFine(tab', jobs', runs, log) /\ Backs(tab, jobs, jobs')
    BY <2>1, <2>4, <2>6, <2>7 DEF JobsFine, Backs, b
  <2>9. PageFine(tab', runs)
    BY <1>2, <1>4, <1>6, <2>3, <2>5 DEF PageFine, Known, hb
  <2>10. Alone(tab', jobs')
    <3>1. \A k \in jobs' : k = i \/ (~Views(k) /\ Keeps(k))
      BY <2>1, <2>7 DEF Views, Keeps
    <3>2. Keeps(i) /\ Beside(tab', i)
      BY <1>6, <2>4, <2>5 DEF Keeps, Beside, Tracks
    <3> QED BY <2>5, <3>1, <3>2, AloneOne
  <2>11. Calm(past') => Tells(tab', jobs', runs)
    <3> SUFFICES ASSUME Calm(past') PROVE Tells(tab', jobs', runs)
      OBVIOUS
    <3>1. Tells(tab, jobs, runs) /\ Told(b, runs)
      BY <1>1, <1>2 DEF StreamFine, Tells, b
    <3>2. tab'.gen # Nobody /\ tab'.known = "completed" => runs[tab'.gen].status = "completed"
      BY <1>6, <2>3, <2>5, <3>1 DEF Told, hb
    <3> QED BY <2>5, <2>8, <3>1, <3>2, TellsKept DEF b
  <2>12. Calm(past') /\ "blind" \notin past' => Texts(tab', jobs', runs)
    <3> SUFFICES ASSUME Calm(past'), "blind" \notin past' PROVE Texts(tab', jobs', runs)
      OBVIOUS
    <3>1. Texts(tab, jobs, runs)
      BY <1>1, <1>2 DEF StreamFine
    <3>2. Good(b, runs)
      BY <3>1 DEF Texts, b
    <3>3. \A k \in jobs' : Good(k.back, runs)
      BY <2>8, <3>1 DEF Texts, Backs, Good
    <3>4. Traced(b.output, b.cursor, runs)
          /\ (Going(b.gen, b.known, runs) => Journal(b.output, b.cursor, b.gen, runs))
      BY <1>6, <3>2 DEF Good
    <3>5. Going(tab'.gen, tab'.known, runs) => Journal(b.output, b.cursor, tab'.gen, runs)
      BY <2>3, <2>5, <3>4 DEF Going, hb
    <3> QED BY <2>2, <2>5, <3>2, <3>3, <3>4, <3>5 DEF Texts
  <2>13. StreamFine(tab', jobs', runs, log, past')
    BY <2>8, <2>9, <2>10, <2>11, <2>12 DEF StreamFine
  <2> QED BY <1>1, <2>13, StepFine DEF StreamInv
<1> QED BY <1>5, <1>6

-----------------------------------------------------------------------------
(* A stream that is left to Resume.                                         *)

LEMMA ReinstatedIs ==
  ASSUME NEW p \in TabRow, NEW j \in JobRow, j.clears => j.back # Nobody, NEW q, q = Reinstated(p, j)
  PROVE  /\ q \in TabRow /\ q.signedIn = p.signedIn /\ q.known = p.known /\ q.cursor = p.cursor
         /\ q.output = p.output /\ q.final = p.final /\ q.shown = p.shown /\ q.status = p.status
         /\ ~AtSignIn(j) => q = p
         /\ AtSignIn(j) => q.thread = j.back.thread /\ q.gen = HeldBy(j.back) /\ q.back = j.back /\ q.resume
<1>1. CASE ~AtSignIn(j)
  BY <1>1 DEF Reinstated
<1>2. CASE AtSignIn(j)
  <2> DEFINE b == j.back
             hb == HeldBy(b)
  <2>1. b \in Descriptor
    BY <1>2 DEF AtSignIn, JobRow
  <2>2. b.thread \in Threads /\ hb \in TurnRef
    BY <2>1 DEF Descriptor, HeldBy, TurnRef
  <2>3. q = [p EXCEPT !.thread = b.thread, !.gen = hb, !.back = b, !.resume = TRUE]
    BY <1>2 DEF Reinstated
  <2> HIDE DEF b, hb
  <2>4. /\ q \in TabRow /\ q.signedIn = p.signedIn /\ q.known = p.known /\ q.cursor = p.cursor
        /\ q.output = p.output /\ q.final = p.final /\ q.shown = p.shown /\ q.status = p.status
        /\ q.thread = b.thread /\ q.gen = hb /\ q.back = b /\ q.resume
    BY <2>1, <2>2, <2>3 DEF TabRow, ThreadRef
  <2> QED BY <1>2, <2>4 DEF b, hb
<1> QED BY <1>1, <1>2

LEMMA JournalTraced ==
  ASSUME NEW rs, NEW g \in Turns, Used(g, rs), NEW out, NEW cur, Journal(out, cur, g, rs)
  PROVE  Traced(out, cur, rs)
BY DEF Traced

LEMMA TracksIs ==
  ASSUME StreamInv, NEW j \in jobs, j.pc \in {"events", "probe"}
  PROVE  /\ j.kind = "stream" /\ j.owned /\ j.fresh /\ tab.signedIn /\ Tracks(j) /\ Views(j)
         /\ j.gen \in Turns /\ j.thread \in Threads /\ Used(j.gen, runs) /\ runs[j.gen].thread = j.thread
         /\ j.aim = "view" /\ Owns(j)
         /\ j.clears => j.back # Nobody /\ j.back.gen \in {Nobody, j.gen} /\ j.back.thread = j.thread
         /\ Calm(past) => /\ \A k \in jobs \ {j} : ~Views(k) /\ Keeps(k)
                          /\ tab.gen = j.gen /\ tab.known = "in_progress" /\ ~tab.resume
                          /\ j.clears <=> tab.back # Nobody
                          /\ j.clears => j.back = tab.back
                          /\ ("blind" \notin past => Journal(tab.output, tab.cursor, j.gen, runs))
<1>1. /\ JobFine(tab, j, runs, log) /\ j \in JobRow /\ Shaped(j, runs, log)
      /\ j.fresh => tab.signedIn
      /\ j.owned => j.fresh
  BY JobIs
<1>2. /\ j.kind = "stream" /\ j.owned /\ j.fresh /\ tab.signedIn /\ Tracks(j) /\ Views(j)
      /\ j.gen \in Turns /\ j.thread \in Threads /\ runs[j.gen].thread = j.thread /\ j.aim = "view"
      /\ j.clears => j.back # Nobody /\ j.back.gen \in {Nobody, j.gen} /\ j.back.thread = j.thread
  BY <1>1 DEF Shaped, JobRow, Tracks, Views, Of
<1>3. Used(j.gen, runs)
  BY <1>2, NobodyIs DEF Used
<1>4. ASSUME Calm(past)
      PROVE  /\ \A k \in jobs \ {j} : ~Views(k) /\ Keeps(k)
             /\ tab.gen = j.gen /\ tab.known = "in_progress" /\ ~tab.resume
             /\ j.clears <=> tab.back # Nobody
             /\ j.clears => j.back = tab.back
             /\ ("blind" \notin past => Journal(tab.output, tab.cursor, j.gen, runs))
  <2>1. Alone(tab, jobs)
    BY <1>4 DEF StreamInv, StreamFine
  <2>2. \A k \in jobs \ {j} : ~Views(k) /\ Keeps(k)
    BY <1>2, <2>1, OthersWait DEF Rereads, Tracks
  <2>3. Beside(tab, j)
    BY <2>1, SharesView
  <2>4. /\ tab.gen = j.gen /\ tab.known = "in_progress" /\ ~tab.resume
        /\ j.clears <=> tab.back # Nobody
        /\ j.clears => j.back = tab.back
    BY <1>2, <2>3 DEF Beside
  <2>5. "blind" \notin past => Journal(tab.output, tab.cursor, j.gen, runs)
    BY <1>2, <1>4, <2>4, NobodyIs DEF StreamInv, StreamFine, Texts, Going
  <2> QED BY <2>2, <2>4, <2>5
<1>5. Owns(j)
  BY <1>2 DEF Owns
<1> QED BY <1>2, <1>3, <1>4, <1>5

LEMMA InterruptsFine ==
  ASSUME StreamInv, UNCHANGED ledgers, UNCHANGED past, NEW j \in jobs, j.pc = "events",
         NEW p \in TabRow, p.signedIn = tab.signedIn, p.gen = tab.gen, p.known = tab.known, p.back = tab.back,
         p.final = tab.final, p.cursor >= tab.cursor,
         Calm(past) /\ "blind" \notin past => Journal(p.output, p.cursor, j.gen, runs),
         Interrupts(p, j)
  PROVE  StreamInv'
<1> DEFINE r == [p EXCEPT !.resume = TRUE]
<1>1. tab' = Reinstated(r, j) /\ jobs' = jobs \ {j} /\ past' = past
  BY DEF Interrupts, Without
<1>2. /\ r \in TabRow /\ r.signedIn = tab.signedIn /\ r.gen = tab.gen /\ r.known = tab.known /\ r.back = tab.back
      /\ r.final = tab.final /\ r.cursor = p.cursor /\ r.output = p.output /\ r.resume
  BY DEF TabRow
<1> HIDE DEF r
<1>3. /\ StreamFine(tab, jobs, runs, log, past) /\ PageFine(tab, runs) /\ JobsFine(tab, jobs, runs, log)
      /\ tab \in TabRow
  BY DEF StreamInv, StreamFine, PageFine
<1>4. /\ j.kind = "stream" /\ j.owned /\ j.fresh /\ tab.signedIn
      /\ j.gen \in Turns /\ Used(j.gen, runs)
      /\ j.clears => j.back # Nobody /\ j.back.gen \in {Nobody, j.gen}
      /\ Calm(past) => /\ \A k \in jobs \ {j} : ~Views(k) /\ Keeps(k)
                       /\ tab.gen = j.gen /\ tab.known = "in_progress"
                       /\ j.clears <=> tab.back # Nobody
                       /\ j.clears => j.back = tab.back
  BY TracksIs
<1>5. j \in JobRow /\ Known(j.back, runs) /\ j.back \in Descriptor \cup {Nobody}
  BY JobIs DEF JobRow
<1>6. /\ tab' \in TabRow /\ tab'.signedIn = r.signedIn /\ tab'.known = r.known /\ tab'.cursor = r.cursor
      /\ tab'.output = r.output /\ tab'.final = r.final
      /\ ~AtSignIn(j) => tab' = r
      /\ AtSignIn(j) => tab'.gen = HeldBy(j.back) /\ tab'.back = j.back
  <2>1. r \in TabRow /\ j \in JobRow /\ (j.clears => j.back # Nobody) /\ tab' = Reinstated(r, j)
    BY <1>1, <1>2, <1>4, <1>5
  <2> QED BY <2>1, ReinstatedIs
<1>7. AtSignIn(j) => j.clears /\ j.back # Nobody /\ HeldBy(j.back) \in {Nobody, j.back.gen}
  BY <1>4 DEF AtSignIn, HeldBy
<1>8. PageFine(tab', runs)
  BY <1>2, <1>3, <1>5, <1>6, <1>7 DEF PageFine, Known
<1>9. JobsFine(tab', jobs', runs, log) /\ Backs(tab, jobs, jobs')
  <2>1. tab'.signedIn = tab.signedIn
    BY <1>2, <1>6
  <2> QED BY <1>1, <1>3, <2>1, JobsFrom DEF Backs
<1>10. Calm(past') => Alone(tab', jobs')
  BY <1>1, <1>2, <1>4, <1>6, AloneNone
<1>11. Calm(past') => (tab'.back = tab.back \/ tab'.back = Nobody)
  BY <1>1, <1>2, <1>4, <1>6, <1>7
<1>12. Calm(past') => Tells(tab', jobs', runs)
  <2> SUFFICES ASSUME Calm(past') PROVE Tells(tab', jobs', runs)
    OBVIOUS
  <2>1. Tells(tab, jobs, runs) /\ tab'.known = "in_progress"
    BY <1>1, <1>2, <1>3, <1>4, <1>6 DEF StreamFine
  <2> QED BY <1>9, <1>11, <2>1, TellsKept
<1>13. Calm(past') /\ "blind" \notin past' => Texts(tab', jobs', runs)
  <2> SUFFICES ASSUME Calm(past'), "blind" \notin past' PROVE Texts(tab', jobs', runs)
    OBVIOUS
  <2>1. Texts(tab, jobs, runs) /\ Calm(past) /\ "blind" \notin past
    BY <1>1, <1>3 DEF StreamFine
  <2>2. Journal(tab'.output, tab'.cursor, j.gen, runs)
    BY <1>2, <1>6, <2>1
  <2>3. Traced(tab'.output, tab'.cursor, runs)
    BY <1>4, <2>2, JournalTraced
  <2>4. tab'.gen \in {Nobody, j.gen}
    BY <1>2, <1>4, <1>6, <1>7, <2>1
  <2>5. Going(tab'.gen, tab'.known, runs) => Journal(tab'.output, tab'.cursor, tab'.gen, runs)
    BY <2>2, <2>4 DEF Going
  <2>6. Good(tab'.back, runs) /\ \A k \in jobs' : Good(k.back, runs)
    BY <1>9, <1>11, <2>1 DEF Texts, Backs, Good, Calm
  <2>7. ASSUME tab'.back # Nobody, Going(tab'.back.gen, tab'.back.known, runs)
        PROVE  Journal(tab'.output, tab'.cursor, tab'.back.gen, runs) /\ tab'.back.cursor <= tab'.cursor
    <3>1. tab'.back = tab.back /\ tab.back = j.back /\ j.clears
      BY <1>4, <1>11, <1>1, <2>1, <2>7
    <3>2. tab'.back.gen = j.gen
      BY <1>4, <2>7, <3>1 DEF Going
    <3>3. tab.back.cursor <= tab.cursor
      BY <1>4, <2>1, <2>7, <3>1 DEF Texts
    <3>4. tab.back.cursor \in Nat /\ tab.cursor \in Nat /\ p.cursor \in Nat
      <4>1. tab.back \in Descriptor
        BY <1>3, <2>7, <3>1 DEF TabRow
      <4> QED BY <1>3, <4>1 DEF TabRow, Descriptor
    <3>5. tab.back.cursor <= p.cursor
      <4> DEFINE u == tab.back.cursor
                 v == tab.cursor
                 w == p.cursor
      <4>1. u \in Nat /\ v \in Nat /\ w \in Nat /\ u <= v /\ w >= v
        BY <3>3, <3>4
      <4> HIDE DEF u, v, w
      <4>2. u <= w
        BY <4>1
      <4> QED BY <4>2 DEF u, w
    <3> QED BY <1>2, <1>6, <2>2, <3>1, <3>2, <3>5
  <2> QED BY <2>3, <2>5, <2>6, <2>7 DEF Texts
<1>14. StreamFine(tab', jobs', runs, log, past')
  BY <1>8, <1>9, <1>10, <1>12, <1>13 DEF StreamFine
<1> QED BY <1>14, StepFine DEF StreamInv

LEMMA InterruptedFine ==
  ASSUME StreamInv, NEW j \in jobs, Interrupted(j)
  PROVE  StreamInv'
<1>1. UNCHANGED ledgers /\ UNCHANGED past /\ j.pc = "events" /\ Interrupts(tab, j)
  BY DEF Interrupted
<1>2. tab \in TabRow
  BY DEF StreamInv, StreamFine, PageFine
<1>3. tab.cursor >= tab.cursor
  BY <1>2 DEF TabRow
<1>4. Calm(past) /\ "blind" \notin past => Journal(tab.output, tab.cursor, j.gen, runs)
  BY <1>1, TracksIs
<1> QED BY <1>1, <1>2, <1>3, <1>4, InterruptsFine
-----------------------------------------------------------------------------
(* The stream.                                                              *)

LEMMA JournalGrows ==
  ASSUME NEW rs \in [Turns -> RunRow], NEW g \in Turns, NEW out, NEW cur \in Nat, cur < rs[g].deltas,
         Journal(out, cur, g, rs)
  PROVE  Journal(Append(out, <<g, cur + 1>>), cur + 1, g, rs)
<1>1. rs[g].deltas \in Nat
  BY DEF RunRow
<1>2. out = [i \in 1 .. cur |-> <<g, i>>]
  BY DEF Journal
<1>3. Append(out, <<g, cur + 1>>) = [i \in 1 .. cur + 1 |-> <<g, i>>]
  BY <1>2
<1>4. cur + 1 <= rs[g].deltas
  <2> DEFINE d == rs[g].deltas
  <2>1. d \in Nat /\ cur < d
    BY <1>1
  <2> HIDE DEF d
  <2>2. cur + 1 <= d
    BY <2>1
  <2> QED BY <2>2 DEF d
<1> QED BY <1>3, <1>4 DEF Journal

LEMMA DeliverFine ==
  ASSUME StreamInv, NEW j \in jobs, Deliver(j)
  PROVE  StreamInv'
<1> DEFINE m == <<j.gen, tab.cursor + 1>>
           p == [tab EXCEPT !.cursor = @ + 1, !.output = Append(@, m)]
<1>1. /\ UNCHANGED ledgers /\ past' = past /\ j.pc = "events" /\ tab.cursor < runs[j.gen].deltas
      /\ IF tab.node = Nobody THEN Interrupts(p, j) ELSE tab' = p /\ UNCHANGED jobs
  BY DEF Deliver
<1>2. /\ j.kind = "stream" /\ j.owned /\ j.fresh /\ tab.signedIn
      /\ j.gen \in Turns /\ Used(j.gen, runs)
      /\ j.clears => j.back # Nobody /\ j.back.gen \in {Nobody, j.gen}
      /\ Calm(past) => /\ tab.gen = j.gen /\ tab.known = "in_progress" /\ ~tab.resume
                       /\ j.clears <=> tab.back # Nobody
                       /\ j.clears => j.back = tab.back
                       /\ ("blind" \notin past => Journal(tab.output, tab.cursor, j.gen, runs))
  BY <1>1, TracksIs
<1>3. /\ StreamFine(tab, jobs, runs, log, past) /\ PageFine(tab, runs) /\ JobsFine(tab, jobs, runs, log)
      /\ tab \in TabRow /\ runs \in [Turns -> RunRow]
  BY ServerIs DEF StreamInv, StreamFine, PageFine
<1>4. tab.cursor \in Nat /\ tab.cursor + 1 \in Nat /\ tab.output \in Seq(Turns \X Nat) /\ m \in Turns \X Nat
  BY <1>2, <1>3 DEF TabRow
<1> HIDE DEF m
<1>5. Append(tab.output, m) \in Seq(Turns \X Nat)
  BY <1>4
<1>6. /\ p \in TabRow /\ p.signedIn = tab.signedIn /\ p.gen = tab.gen /\ p.known = tab.known /\ p.back = tab.back
      /\ p.final = tab.final /\ p.resume = tab.resume
      /\ p.cursor = tab.cursor + 1 /\ p.output = Append(tab.output, m)
  BY <1>3, <1>4, <1>5 DEF TabRow
<1> HIDE DEF p
<1>7. p.cursor >= tab.cursor
  BY <1>4, <1>6
<1>8. Calm(past) /\ "blind" \notin past => Journal(p.output, p.cursor, j.gen, runs)
  <2> SUFFICES ASSUME Calm(past), "blind" \notin past PROVE Journal(p.output, p.cursor, j.gen, runs)
    OBVIOUS
  <2>1. Journal(Append(tab.output, <<j.gen, tab.cursor + 1>>), tab.cursor + 1, j.gen, runs)
    BY <1>1, <1>2, <1>3, <1>4, JournalGrows
  <2> QED BY <1>6, <2>1 DEF m
<1>9. CASE tab.node = Nobody
  BY <1>1, <1>6, <1>7, <1>8, <1>9, InterruptsFine
<1>10. CASE tab.node # Nobody
  <2>1. tab' = p /\ jobs' = jobs
    BY <1>1, <1>10
  <2>2. PageFine(tab', runs)
    BY <1>3, <1>6, <2>1 DEF PageFine
  <2>3. JobsFine(tab', jobs', runs, log) /\ Backs(tab, jobs, jobs')
    BY <1>3, <1>6, <2>1 DEF JobsFine, JobFine, Backs
  <2>4. Calm(past') => Alone(tab', jobs')
    BY <1>1, <1>3, <1>6, <2>1, AloneStill DEF StreamFine
  <2>5. Calm(past') => Tells(tab', jobs', runs)
    BY <1>1, <1>3, <1>6, <2>1 DEF StreamFine, Tells
  <2>6. Calm(past') /\ "blind" \notin past' => Texts(tab', jobs', runs)
    <3> SUFFICES ASSUME Calm(past'), "blind" \notin past' PROVE Texts(tab', jobs', runs)
      OBVIOUS
    <3>1. Texts(tab, jobs, runs) /\ Calm(past) /\ "blind" \notin past
      BY <1>1, <1>3 DEF StreamFine
    <3>2. Journal(tab'.output, tab'.cursor, j.gen, runs)
      BY <1>8, <2>1, <3>1
    <3>3. Traced(tab'.output, tab'.cursor, runs)
      BY <1>2, <3>2, JournalTraced
    <3>4. tab'.gen = j.gen
      BY <1>2, <1>6, <2>1, <3>1
    <3>5. Good(tab'.back, runs) /\ \A k \in jobs' : Good(k.back, runs)
      BY <1>6, <2>1, <3>1 DEF Texts
    <3>6. ASSUME tab'.back # Nobody, Going(tab'.back.gen, tab'.back.known, runs)
          PROVE  Journal(tab'.output, tab'.cursor, tab'.back.gen, runs) /\ tab'.back.cursor <= tab'.cursor
      <4>1. tab'.back = tab.back /\ tab.back = j.back /\ j.clears
        BY <1>2, <1>6, <2>1, <3>1, <3>6
      <4>2. tab'.back.gen = j.gen
        BY <1>2, <3>6, <4>1 DEF Going
      <4>3. tab.back.cursor <= tab.cursor
        BY <1>2, <3>1, <3>6, <4>1 DEF Texts
      <4>4. tab.back.cursor \in Nat
        <5>1. tab.back \in Descriptor
          BY <1>3, <3>6, <4>1 DEF TabRow
        <5> QED BY <5>1 DEF Descriptor
      <4>5. tab.back.cursor <= tab.cursor + 1
        BY <1>4, <4>3, <4>4
      <4> QED BY <1>6, <2>1, <3>2, <4>1, <4>2, <4>5
    <3> QED BY <3>2, <3>3, <3>4, <3>5, <3>6 DEF Texts
  <2>7. StreamFine(tab', jobs', runs, log, past')
    BY <2>2, <2>3, <2>4, <2>5, <2>6 DEF StreamFine
  <2> QED BY <1>1, <2>7, StepFine DEF StreamInv
<1> QED BY <1>9, <1>10

LEMMA SettledIs ==
  ASSUME NEW p \in TabRow, NEW j
  PROVE  \E back \in {p.back, Nobody} :
           /\ Settled(p, j) = [p EXCEPT !.back = back] /\ Settled(p, j) \in TabRow
           /\ j.clears /\ j.fresh /\ p.signedIn => back = Nobody
           /\ ~(j.clears /\ j.fresh /\ p.signedIn) => back = p.back
<1>1. CASE j.clears /\ j.fresh /\ p.signedIn
  <2>1. Settled(p, j) = [p EXCEPT !.back = Nobody]
    BY <1>1 DEF Settled
  <2> QED BY <1>1, <2>1 DEF TabRow
<1>2. CASE ~(j.clears /\ j.fresh /\ p.signedIn)
  <2>1. Settled(p, j) = p /\ p = [p EXCEPT !.back = p.back]
    BY <1>2 DEF Settled, TabRow
  <2> QED BY <1>2, <2>1
<1> QED BY <1>1, <1>2

(* The view's handler ends, or it goes on, once its generation is known to have ended. *)
LEMMA HandsOn ==
  ASSUME StreamInv, UNCHANGED ledgers, past \subseteq past', NEW j \in jobs, j.owned, j.fresh,
         Calm(past) => \A k \in jobs \ {j} : ~Views(k) /\ Keeps(k),
         jobs' = jobs \ {j} \/ \E i : /\ jobs' = (jobs \ {j}) \cup {i} /\ JobFine(tab, i, runs, log)
                                      /\ i.back \in {j.back, Nobody}
                                      /\ Calm(past) => Keeps(i) /\ Beside(tab', i),
         PageFine(tab', runs), tab'.signedIn = tab.signedIn, tab'.back \in {tab.back, Nobody},
         tab'.gen # Nobody /\ tab'.known = "completed" =>
           (tab'.gen = tab.gen /\ tab'.known = tab.known) \/ runs[tab'.gen].status = "completed",
         \/ /\ tab'.cursor = tab.cursor /\ tab'.output = tab.output
            /\ Calm(past) /\ "blind" \notin past' /\ Going(tab'.gen, tab'.known, runs) =>
                 Journal(tab.output, tab.cursor, tab'.gen, runs)
         \/ tab'.cursor = 0 /\ tab'.output = << >> /\ (Calm(past) => tab'.back = Nobody)
  PROVE  StreamInv'
<1>1. /\ StreamFine(tab, jobs, runs, log, past) /\ PageFine(tab, runs) /\ JobsFine(tab, jobs, runs, log)
      /\ tab \in TabRow /\ tab' \in TabRow /\ runs \in [Turns -> RunRow]
      /\ (Calm(past') => Calm(past))
      /\ tab.signedIn
  BY ServerIs, JobIs DEF StreamInv, StreamFine, PageFine, Calm
<1>2. JobsFine(tab', jobs', runs, log) /\ Backs(tab, jobs, jobs')
  <2>1. CASE jobs' = jobs \ {j}
    BY <1>1, <2>1 DEF JobsFine, JobFine, Backs
  <2>2. ASSUME NEW i, jobs' = (jobs \ {j}) \cup {i}, JobFine(tab, i, runs, log), i.back \in {j.back, Nobody}
        PROVE  JobsFine(tab', jobs', runs, log) /\ Backs(tab, jobs, jobs')
    BY <1>1, <2>2 DEF JobsFine, JobFine, Backs
  <2> QED BY <2>1, <2>2
<1>3. Calm(past') => Alone(tab', jobs')
  <2> SUFFICES ASSUME Calm(past') PROVE Alone(tab', jobs')
    OBVIOUS
  <2>1. CASE jobs' = jobs \ {j}
    BY <1>1, <2>1, AloneNone
  <2>2. ASSUME NEW i, jobs' = (jobs \ {j}) \cup {i}, Calm(past) => Keeps(i) /\ Beside(tab', i)
        PROVE  Alone(tab', jobs')
    <3>1. \A k \in jobs' : k = i \/ (~Views(k) /\ Keeps(k))
      BY <1>1, <2>2
    <3>2. Keeps(i) /\ Beside(tab', i) /\ tab'.signedIn
      BY <1>1, <2>2
    <3> QED BY <3>1, <3>2, AloneOne
  <2> QED BY <2>1, <2>2
<1>4. Calm(past') => Tells(tab', jobs', runs)
  <2> SUFFICES ASSUME Calm(past') PROVE Tells(tab', jobs', runs)
    OBVIOUS
  <2>1. Tells(tab, jobs, runs)
    BY <1>1 DEF StreamFine
  <2>2. tab'.signedIn /\ tab'.gen # Nobody /\ tab'.known = "completed" => runs[tab'.gen].status = "completed"
    BY <1>1, <2>1 DEF Tells
  <2> QED BY <1>2, <2>1, <2>2, TellsKept
<1>5. Calm(past') /\ "blind" \notin past' => Texts(tab', jobs', runs)
  <2> SUFFICES ASSUME Calm(past'), "blind" \notin past' PROVE Texts(tab', jobs', runs)
    OBVIOUS
  <2>1. Texts(tab, jobs, runs) /\ Calm(past)
    BY <1>1 DEF StreamFine
  <2>2. CASE tab'.cursor = 0 /\ tab'.output = << >> /\ (Calm(past) => tab'.back = Nobody)
    <3>1. tab'.gen \in TurnRef
      BY <1>1 DEF TabRow
    <3> QED BY <1>1, <1>2, <2>1, <2>2, <3>1, TextsAnew
  <2>3. CASE /\ tab'.cursor = tab.cursor /\ tab'.output = tab.output
             /\ Calm(past) /\ "blind" \notin past' /\ Going(tab'.gen, tab'.known, runs) =>
                  Journal(tab.output, tab.cursor, tab'.gen, runs)
    BY <1>2, <2>1, <2>3, TextsKept
  <2> QED BY <2>2, <2>3
<1>6. StreamFine(tab', jobs', runs, log, past')
  BY <1>2, <1>3, <1>4, <1>5 DEF StreamFine
<1> QED BY <1>6, StepFine DEF StreamInv
LEMMA FinishFine ==
  ASSUME StreamInv, UNCHANGED ledgers, past \subseteq past', NEW j \in jobs, Owns(j), j.aim = "view",
         j.kind \in {"stream", "reconnect"},
         NEW g \in Turns, Of(g, j.thread, runs), j.kind = "stream" => g = j.gen,
         NEW status, status = runs[g].status, status \in {"completed", "failed", "cancelled"},
         j.kind = "reconnect" => status = "completed",
         Calm(past) => /\ \A k \in jobs \ {j} : ~Views(k) /\ Keeps(k)
                       /\ ~tab.resume
                       /\ j.clears <=> tab.back # Nobody
                       /\ j.clears => j.back = tab.back,
         NEW p \in TabRow, p.signedIn = tab.signedIn, p.thread = tab.thread, p.back = tab.back,
         p.final = tab.final, p.cursor = tab.cursor, p.output = tab.output, p.resume = tab.resume,
         Finish(p, j, g, status)
  PROVE  StreamInv'
<1> DEFINE q == [p EXCEPT !.gen = g, !.known = status]
           f == [thread |-> j.thread, gen |-> g]
           aim == IF status = "completed" THEN "final" ELSE "refresh"
           i == [j EXCEPT !.pc = "before", !.before = Nobody, !.gen = g, !.aim = aim]
<1>1. /\ PageFine(tab, runs) /\ tab \in TabRow /\ j \in JobRow /\ Shaped(j, runs, log)
      /\ j.owned /\ j.fresh /\ tab.signedIn /\ j.thread \in Threads /\ Used(g, runs)
  BY JobIs, NobodyIs DEF StreamInv, StreamFine, Owns, Shaped, Of, Used
<1>2. status \in Statuses /\ g \in TurnRef
  BY DEF Statuses, TurnRef
<1>3. /\ q \in TabRow /\ q.signedIn = tab.signedIn /\ q.thread = tab.thread /\ q.back = tab.back
      /\ q.final = tab.final /\ q.cursor = tab.cursor /\ q.output = tab.output /\ q.resume = tab.resume
      /\ q.gen = g /\ q.known = status
  BY <1>2 DEF TabRow
<1> HIDE DEF q
<1>4. CASE p.thread = j.thread
  <2>1. /\ tab' = IF status = "completed" THEN [q EXCEPT !.final = f, !.status = "finalizing"] ELSE q
        /\ jobs' = (jobs \ {j}) \cup {i}
    BY <1>4 DEF Finish, Becomes, Without, q
  <2>2. f \in [thread : Threads, gen : Turns] /\ f.thread = j.thread /\ f.gen = g
    BY <1>1
  <2>3. f # Nobody
    BY <2>2, NobodyIs
  <2> HIDE DEF f
  <2>4. /\ tab' \in TabRow /\ tab'.signedIn = tab.signedIn /\ tab'.back = tab.back
        /\ tab'.cursor = tab.cursor /\ tab'.output = tab.output /\ tab'.resume = tab.resume
        /\ tab'.gen = g /\ tab'.known = status
        /\ status = "completed" => tab'.final = f
        /\ status # "completed" => tab'.final = tab.final
    <3>1. CASE status = "completed"
      BY <1>3, <2>1, <2>2, <3>1 DEF TabRow
    <3>2. CASE status # "completed"
      BY <1>3, <2>1, <3>2
    <3> QED BY <3>1, <3>2
  <2>5. PageFine(tab', runs)
    BY <1>1, <2>2, <2>4 DEF PageFine
  <2>6. /\ i \in JobRow /\ i.kind = j.kind /\ i.pc = "before" /\ i.thread = j.thread /\ i.gen = g
        /\ i.owned /\ i.fresh /\ i.busy = j.busy /\ i.clears = j.clears /\ i.aim = aim
        /\ i.before = Nobody /\ i.back = j.back
    BY <1>1, <1>2 DEF JobRow
  <2> HIDE DEF i
  <2>7. JobFine(tab, i, runs, log)
    BY <1>1, <2>6 DEF JobFine, Shaped
  <2>8. Calm(past) => Keeps(i) /\ Beside(tab', i)
    BY <2>4, <2>6 DEF Keeps, Beside, Tracks
  <2>9. tab'.gen # Nobody /\ tab'.known = "completed" => runs[tab'.gen].status = "completed"
    BY <2>4
  <2>10. Going(tab'.gen, tab'.known, runs) => FALSE
    BY <2>4 DEF Going
  <2>11. jobs' = (jobs \ {j}) \cup {i}
    BY <2>1 DEF i
  <2> QED BY <1>1, <2>4, <2>5, <2>6, <2>7, <2>8, <2>9, <2>10, <2>11, HandsOn
<1>5. CASE p.thread # j.thread
  <2> DEFINE r == [q EXCEPT !.status = status]
  <2>1. tab' = Settled(r, j) /\ jobs' = jobs \ {j}
    BY <1>5 DEF Finish, Without, q
  <2>2. /\ r \in TabRow /\ r.signedIn = tab.signedIn /\ r.back = tab.back
        /\ r.final = tab.final /\ r.cursor = tab.cursor /\ r.output = tab.output
        /\ r.gen = g /\ r.known = status
    BY <1>2, <1>3 DEF TabRow
  <2> HIDE DEF r
  <2>3. /\ tab' \in TabRow /\ tab'.signedIn = tab.signedIn /\ tab'.back \in {tab.back, Nobody}
        /\ tab'.final = tab.final /\ tab'.cursor = tab.cursor /\ tab'.output = tab.output
        /\ tab'.gen = g /\ tab'.known = status
    <3>1. PICK back \in {r.back, Nobody} : tab' = [r EXCEPT !.back = back] /\ tab' \in TabRow
      BY <2>1, <2>2, SettledIs
    <3> QED BY <2>2, <3>1 DEF TabRow
  <2>4. PageFine(tab', runs)
    BY <1>1, <2>3 DEF PageFine, Known
  <2>5. tab'.gen # Nobody /\ tab'.known = "completed" => runs[tab'.gen].status = "completed"
    BY <2>3
  <2>6. Going(tab'.gen, tab'.known, runs) => FALSE
    BY <2>3 DEF Going
  <2> QED BY <1>1, <2>1, <2>3, <2>4, <2>5, <2>6, HandsOn
<1> QED BY <1>4, <1>5

LEMMA TerminalFine ==
  ASSUME StreamInv, NEW j \in jobs, j.pc \in {"events", "probe"}, UNCHANGED ledgers, UNCHANGED past,
         runs[j.gen].status # "in_progress", Finish(tab, j, j.gen, runs[j.gen].status)
  PROVE  StreamInv'
<1> DEFINE status == runs[j.gen].status
<1>1. /\ j.kind = "stream" /\ Owns(j) /\ j.aim = "view" /\ j.gen \in Turns /\ j.thread \in Threads
      /\ Used(j.gen, runs) /\ runs[j.gen].thread = j.thread
      /\ Calm(past) => /\ \A k \in jobs \ {j} : ~Views(k) /\ Keeps(k)
                       /\ ~tab.resume
                       /\ j.clears <=> tab.back # Nobody
                       /\ j.clears => j.back = tab.back
  BY TracksIs
<1>2. status \in {"completed", "failed", "cancelled"}
  BY <1>1, ServerIs DEF StreamInv, RunRow, Statuses, Of
<1>3. tab \in TabRow
  BY DEF StreamInv, StreamFine, PageFine
<1>4. Of(j.gen, j.thread, runs) /\ Finish(tab, j, j.gen, status)
  BY <1>1 DEF Of
<1> HIDE DEF status
<1>5. status = runs[j.gen].status
  BY DEF status
<1> QED BY <1>1, <1>2, <1>3, <1>4, <1>5, FinishFine

LEMMA ProbeFine ==
  ASSUME StreamInv, NEW j \in jobs, Probe(j)
  PROVE  StreamInv'
<1>1. UNCHANGED ledgers /\ UNCHANGED past /\ j.pc = "probe"
  BY DEF Probe
<1>2. CASE runs[j.gen].status # "in_progress"
  BY <1>1, <1>2, TerminalFine DEF Probe
<1>3. CASE runs[j.gen].status = "in_progress"
  <2> DEFINE i == [j EXCEPT !.pc = "events"]
  <2>1. jobs' = (jobs \ {j}) \cup {i} /\ tab' = tab
    BY <1>3 DEF Probe, Becomes, Without
  <2>2. j \in JobRow /\ Shaped(j, runs, log) /\ JobFine(tab, j, runs, log) /\ j.kind = "stream"
    BY <1>1, JobIs, TracksIs
  <2>3. /\ i \in JobRow /\ i.kind = "stream" /\ i.pc = "events" /\ i.thread = j.thread /\ i.gen = j.gen
        /\ i.owned = j.owned /\ i.fresh = j.fresh /\ i.busy = j.busy /\ i.clears = j.clears /\ i.aim = j.aim
        /\ i.before = j.before /\ i.back = j.back
    BY <2>2 DEF JobRow
  <2>4. Alike(j, i)
    BY <1>1, <2>2, <2>3 DEF Alike, Tracks
  <2>5. JobFine(tab, i, runs, log)
    BY <1>1, <2>2, <2>3 DEF JobFine, Shaped
  <2>6. PageFine(tab', runs)
    BY <2>1 DEF StreamInv, StreamFine
  <2> HIDE DEF i
  <2> QED BY <1>1, <2>1, <2>4, <2>5, <2>6, FurtherFine
<1> QED BY <1>2, <1>3
-----------------------------------------------------------------------------
(* A generation is followed.                                                *)

LEMMA AttachIs ==
  ASSUME NEW p \in TabRow, NEW g \in Turns, p.gen = g, NEW cursor \in Nat, NEW output
  PROVE  /\ Attach(p, g, cursor, output) \in TabRow
         /\ Attach(p, g, cursor, output).signedIn = p.signedIn
         /\ Attach(p, g, cursor, output).thread = p.thread
         /\ Attach(p, g, cursor, output).gen = g /\ Attach(p, g, cursor, output).known = "in_progress"
         /\ Attach(p, g, cursor, output).final = p.final /\ Attach(p, g, cursor, output).back = p.back
         /\ Attach(p, g, cursor, output).shown = p.shown /\ Attach(p, g, cursor, output).status = "running"
         /\ ~Attach(p, g, cursor, output).resume
         /\ Attach(p, g, cursor, output).output = p.output
         /\ Attach(p, g, cursor, output).cursor = IF p.cursor > cursor THEN p.cursor ELSE cursor
<1> DEFINE c == IF p.cursor > cursor THEN p.cursor ELSE cursor
           n == IF p.node # Nobody THEN p.node ELSE g
<1>1. c \in Nat /\ n \in TurnRef /\ g \in TurnRef /\ "in_progress" \in Statuses
  BY DEF TabRow, TurnRef, Statuses
<1>2. Attach(p, g, cursor, output) =
        [p EXCEPT !.gen = g, !.known = "in_progress", !.cursor = c, !.output = p.output, !.node = n,
                  !.resume = FALSE, !.status = "running"]
  BY DEF Attach
<1>3. c = IF p.cursor > cursor THEN p.cursor ELSE cursor
  OBVIOUS
<1> DEFINE a == Attach(p, g, cursor, output)
<1> HIDE DEF a, c, n
<1>4. a = [p EXCEPT !.gen = g, !.known = "in_progress", !.cursor = c, !.output = p.output, !.node = n,
                    !.resume = FALSE, !.status = "running"]
  BY <1>2 DEF a
<1>5. /\ a \in TabRow /\ a.signedIn = p.signedIn /\ a.thread = p.thread /\ a.gen = g
      /\ a.known = "in_progress" /\ a.final = p.final /\ a.back = p.back /\ a.shown = p.shown
      /\ a.status = "running" /\ ~a.resume /\ a.output = p.output /\ a.cursor = c
  BY <1>1, <1>4 DEF TabRow
<1> QED BY <1>3, <1>5 DEF a

LEMMA StreamStarts ==
  ASSUME NEW rs \in [Turns -> RunRow], NEW lg, StreamFine(tab, jobs, rs, lg, past), past \subseteq past',
         NEW g \in Turns, Used(g, rs), NEW i, JobFine(tab, i, rs, lg),
         i.kind = "stream", i.pc = "events", i.gen = g, i.owned, i.fresh,
         i.back = Nobody \/ \E k \in jobs : k.back = i.back,
         NEW js, js \subseteq jobs, jobs' = js \cup {i},
         Calm(past) => /\ \A k \in js : ~Views(k) /\ Keeps(k)
                       /\ i.clears <=> tab.back # Nobody
                       /\ i.clears => i.back = tab.back,
         PageFine(tab', rs), tab'.signedIn = tab.signedIn, tab'.gen = g, tab'.known = "in_progress",
         ~tab'.resume, tab'.back = tab.back,
         Calm(past) /\ "blind" \notin past' =>
           /\ Journal(tab'.output, tab'.cursor, g, rs)
           /\ i.clears /\ Going(i.back.gen, i.back.known, rs) => i.back.cursor <= tab'.cursor
  PROVE  StreamFine(tab', jobs', rs, lg, past')
<1>1. /\ JobsFine(tab, jobs, rs, lg) /\ tab.signedIn
      /\ (Calm(past') => Calm(past))
      /\ Shaped(i, rs, lg)
  BY DEF StreamFine, Calm, JobFine
<1>2. JobsFine(tab', jobs', rs, lg) /\ Backs(tab, jobs, jobs')
  BY <1>1 DEF JobsFine, JobFine, Backs
<1>3. Calm(past') => Alone(tab', jobs')
  <2> SUFFICES ASSUME Calm(past') PROVE Alone(tab', jobs')
    OBVIOUS
  <2>1. \A k \in jobs' : k = i \/ (~Views(k) /\ Keeps(k))
    BY <1>1
  <2>2. Keeps(i) /\ Beside(tab', i)
    BY <1>1 DEF Keeps, Beside
  <2> QED BY <1>1, <2>1, <2>2, AloneOne
<1>4. Calm(past') => Tells(tab', jobs', rs)
  <2> SUFFICES ASSUME Calm(past') PROVE Tells(tab', jobs', rs)
    OBVIOUS
  <2>1. Tells(tab, jobs, rs)
    BY <1>1 DEF StreamFine
  <2> QED BY <1>2, <2>1, TellsKept
<1>5. Calm(past') /\ "blind" \notin past' => Texts(tab', jobs', rs)
  <2> SUFFICES ASSUME Calm(past'), "blind" \notin past' PROVE Texts(tab', jobs', rs)
    OBVIOUS
  <2>1. Texts(tab, jobs, rs) /\ Calm(past) /\ "blind" \notin past
    BY <1>1 DEF StreamFine
  <2>2. Journal(tab'.output, tab'.cursor, g, rs)
    BY <2>1
  <2>3. Traced(tab'.output, tab'.cursor, rs)
    BY <2>2, JournalTraced
  <2>4. Good(tab'.back, rs) /\ \A k \in jobs' : Good(k.back, rs)
    BY <1>2, <2>1 DEF Texts, Backs, Good
  <2>5. ASSUME tab'.back # Nobody, Going(tab'.back.gen, tab'.back.known, rs)
        PROVE  Journal(tab'.output, tab'.cursor, tab'.back.gen, rs) /\ tab'.back.cursor <= tab'.cursor
    <3>1. i.clears /\ i.back = tab'.back
      BY <2>1, <2>5
    <3>2. i.back.gen \in {Nobody, g}
      BY <1>1, <3>1 DEF Shaped
    <3> QED BY <2>1, <2>2, <2>5, <3>1, <3>2 DEF Going
  <2> QED BY <2>2, <2>3, <2>4, <2>5 DEF Texts
<1> QED BY <1>2, <1>3, <1>4, <1>5 DEF StreamFine

-----------------------------------------------------------------------------
(* The status after the snapshot.                                           *)
LEMMA StatusFine ==
  ASSUME StreamInv, NEW j \in jobs, Status(j)
  PROVE  StreamInv'
<1> DEFINE g == j.gen
           status == runs[g].status
           p == [tab EXCEPT !.gen = g, !.known = status]
           fresh == [p EXCEPT !.cursor = 0, !.output = << >>]
<1>1. /\ UNCHANGED ledgers /\ j.pc = "status" /\ Owns(j) /\ runs[g].thread = j.thread
      /\ \/ /\ j.kind = "open"
            /\ IF status = "in_progress" THEN Follows(fresh, j, g)
               ELSE tab' = [fresh EXCEPT !.status = status] /\ jobs' = Without(j)
            /\ Notes("raced", status = "completed")
         \/ /\ j.kind = "reconnect"
            /\ Notes("blind", status = "in_progress" /\ j.back.gen = Nobody /\ Foreign(g))
            /\ CASE status = "in_progress" ->
                      Attached(p, j, g, IF j.back.gen = g THEN j.back.cursor ELSE 0,
                               IF j.back.gen = g THEN j.back.output ELSE << >>)
                 [] status = "completed" /\ ~Ends(j.before.msgs, Answer(g)) ->
                      Finish(p, j, g, status)
                 [] OTHER -> tab' = Settled([p EXCEPT !.status = status], j) /\ jobs' = Without(j)
  BY DEF Status, Misdirected
<1>2. /\ StreamFine(tab, jobs, runs, log, past) /\ PageFine(tab, runs) /\ tab \in TabRow
      /\ j \in JobRow /\ Shaped(j, runs, log) /\ JobFine(tab, j, runs, log) /\ Known(j.back, runs)
      /\ j.owned /\ j.fresh /\ tab.signedIn /\ runs \in [Turns -> RunRow]
  BY <1>1, JobIs, ServerIs DEF StreamInv, StreamFine, PageFine, Owns
<1>3. /\ j.kind \in {"open", "reconnect"} /\ g \in Turns /\ j.thread \in Threads /\ Used(g, runs)
      /\ Of(g, j.thread, runs) /\ j.aim = "view" /\ Views(j)
  BY <1>1, <1>2, NobodyIs DEF Shaped, Of, Used, Views
<1>4. Calm(past) => /\ \A k \in jobs \ {j} : ~Views(k) /\ Keeps(k)
                    /\ j.clears <=> tab.back # Nobody
                    /\ j.clears => j.back = tab.back
                    /\ j.kind = "reconnect" => ~tab.resume
  <2> SUFFICES ASSUME Calm(past)
               PROVE  /\ \A k \in jobs \ {j} : ~Views(k) /\ Keeps(k)
                      /\ j.clears <=> tab.back # Nobody
                      /\ j.clears => j.back = tab.back
                      /\ j.kind = "reconnect" => ~tab.resume
    OBVIOUS
  <2>1. Alone(tab, jobs)
    BY <1>2 DEF StreamFine
  <2>2. \A k \in jobs \ {j} : ~Views(k) /\ Keeps(k)
    BY <1>3, <2>1, OthersWait DEF Rereads
  <2>3. Beside(tab, j)
    BY <2>1, SharesView
  <2> QED BY <1>1, <1>3, <2>2, <2>3 DEF Beside
<1>5. status \in Statuses /\ status # "none" /\ g \in TurnRef /\ past \subseteq past'
  <2>1. status \in Statuses
    BY <1>2, <1>3 DEF RunRow
  <2>2. status # "none"
    BY <1>3 DEF StreamInv, Serving
  <2>3. past \subseteq past'
    BY <1>1 DEF Notes
  <2> QED BY <1>3, <2>1, <2>2, <2>3 DEF TurnRef
<1> DEFINE st == status
<1> HIDE DEF st
<1>6. st = runs[g].status /\ st = status
  BY DEF st
<1>7. /\ p \in TabRow /\ p.signedIn = tab.signedIn /\ p.thread = tab.thread /\ p.back = tab.back
      /\ p.final = tab.final /\ p.cursor = tab.cursor /\ p.output = tab.output /\ p.resume = tab.resume
      /\ p.gen = g /\ p.known = st
  <2>1. p = [tab EXCEPT !.gen = g, !.known = st]
    BY <1>6
  <2> HIDE DEF p, status
  <2> QED BY <1>2, <1>5, <1>6, <2>1 DEF TabRow
<1> HIDE DEF p
<1>8. /\ fresh \in TabRow /\ fresh.signedIn = tab.signedIn /\ fresh.thread = tab.thread /\ fresh.back = tab.back
      /\ fresh.final = tab.final /\ fresh.cursor = 0 /\ fresh.output = << >>
      /\ fresh.gen = g /\ fresh.known = st
  <2>1. << >> \in Seq(Turns \X Nat)
    OBVIOUS
  <2> QED BY <1>7, <2>1 DEF TabRow
<1> HIDE DEF fresh
<1>9. CASE j.kind = "open"
  <2>1. ~j.clears
    BY <1>2, <1>9 DEF Shaped
  <2>2. CASE status = "in_progress"
    <3> DEFINE i == [j EXCEPT !.kind = "stream", !.pc = "events", !.before = Nobody, !.busy = FALSE]
               js == {k \in jobs \ {j} : k.kind # "stream"}
    <3>1. tab' = Attach(fresh, g, 0, << >>) /\ jobs' = js \cup {i}
      BY <1>1, <1>9, <2>2 DEF Follows, Without
    <3>2. /\ i \in JobRow /\ i.kind = "stream" /\ i.pc = "events" /\ i.thread = j.thread /\ i.gen = g
          /\ i.owned /\ i.fresh /\ ~i.busy /\ ~i.clears /\ i.aim = "view"
          /\ i.before = Nobody /\ i.back = j.back
      BY <1>2, <1>3, <2>1 DEF JobRow
    <3> HIDE DEF i
    <3>3. JobFine(tab, i, runs, log)
      BY <1>2, <1>3, <3>2 DEF JobFine, Shaped
    <3>4. /\ tab' \in TabRow /\ tab'.signedIn = tab.signedIn /\ tab'.gen = g /\ tab'.known = "in_progress"
          /\ tab'.final = tab.final /\ tab'.back = tab.back /\ ~tab'.resume
          /\ tab'.output = << >> /\ tab'.cursor = 0
      <4> DEFINE a == Attach(fresh, g, 0, << >>)
      <4>1. /\ a \in TabRow /\ a.signedIn = fresh.signedIn /\ a.gen = g /\ a.known = "in_progress"
            /\ a.final = fresh.final /\ a.back = fresh.back /\ ~a.resume
            /\ a.output = fresh.output /\ a.cursor = IF fresh.cursor > 0 THEN fresh.cursor ELSE 0
        <5>1. fresh \in TabRow /\ fresh.gen = g /\ g \in Turns /\ 0 \in Nat
          BY <1>3, <1>8
        <5> HIDE DEF g
        <5> QED BY <5>1, AttachIs
      <4> HIDE DEF a
      <4>2. tab' = a
        BY <3>1 DEF a
      <4> QED BY <1>8, <4>1, <4>2
    <3>5. PageFine(tab', runs)
      BY <1>2, <1>3, <3>4 DEF PageFine
    <3>6. Journal(tab'.output, tab'.cursor, g, runs)
      BY <1>2, <1>3, <3>4, Anew
    <3>7. js \subseteq jobs /\ (Calm(past) => \A k \in js : ~Views(k) /\ Keeps(k))
      BY <1>4
    <3> HIDE DEF js
    <3>8. StreamFine(tab', jobs', runs, log, past')
      BY <1>2, <1>3, <1>4, <1>5, <2>1, <3>1, <3>2, <3>3, <3>4, <3>5, <3>6, <3>7, StreamStarts
    <3> QED BY <1>1, <3>8, StepFine DEF StreamInv
  <2>3. CASE status # "in_progress"
    <3>1. tab' = [fresh EXCEPT !.status = st] /\ jobs' = jobs \ {j}
      BY <1>1, <1>6, <1>9, <2>3 DEF Without
    <3>2. /\ tab' \in TabRow /\ tab'.signedIn = tab.signedIn /\ tab'.gen = g /\ tab'.known = st
          /\ tab'.final = tab.final /\ tab'.back = tab.back
          /\ tab'.output = << >> /\ tab'.cursor = 0
      BY <1>5, <1>6, <1>8, <3>1 DEF TabRow
    <3>3. PageFine(tab', runs)
      BY <1>2, <1>3, <3>2 DEF PageFine
    <3>4. tab'.gen # Nobody /\ tab'.known = "completed" => runs[tab'.gen].status = "completed"
      BY <1>6, <3>2
    <3>5. Calm(past) => tab'.back = Nobody
      BY <1>4, <2>1, <3>2
    <3> QED BY <1>1, <1>2, <1>4, <1>5, <3>1, <3>2, <3>3, <3>4, <3>5, HandsOn
  <2> QED BY <2>2, <2>3
<1>10. CASE j.kind = "reconnect"
  <2>1. /\ j.clears /\ j.back # Nobody /\ j.back \in Descriptor
        /\ j.back.gen # Nobody => g = j.back.gen
    BY <1>1, <1>2, <1>10 DEF Shaped, JobRow
  <2>2. CASE status = "in_progress"
    <3> DEFINE i == [j EXCEPT !.kind = "stream", !.pc = "events", !.gen = g, !.before = Nobody]
               js == {k \in jobs \ {j} : k.kind # "stream"}
               c == IF j.back.gen = g THEN j.back.cursor ELSE 0
               o == IF j.back.gen = g THEN j.back.output ELSE << >>
    <3>1. tab' = Attach(p, g, c, o) /\ jobs' = js \cup {i}
          /\ ("blind" \notin past' => ~(j.back.gen = Nobody /\ Foreign(g)))
      BY <1>1, <1>10, <2>2 DEF Attached, Without, Notes
    <3>2. /\ i \in JobRow /\ i.kind = "stream" /\ i.pc = "events" /\ i.thread = j.thread /\ i.gen = g
          /\ i.owned /\ i.fresh /\ i.clears /\ i.aim = "view"
          /\ i.before = Nobody /\ i.back = j.back
      BY <1>2, <1>3, <2>1 DEF JobRow
    <3> HIDE DEF i
    <3>3. JobFine(tab, i, runs, log)
      BY <1>2, <1>3, <2>1, <3>2 DEF JobFine, Shaped
    <3>4. c \in Nat /\ j.back.cursor \in Nat
      BY <2>1 DEF Descriptor
    <3>5. (j.back.gen = g => c = j.back.cursor) /\ (j.back.gen # g => c = 0)
      OBVIOUS
    <3> HIDE DEF c, o
    <3>6. /\ tab' \in TabRow /\ tab'.signedIn = tab.signedIn /\ tab'.gen = g /\ tab'.known = "in_progress"
          /\ tab'.final = tab.final /\ tab'.back = tab.back /\ ~tab'.resume
          /\ tab'.output = tab.output /\ tab'.cursor = IF tab.cursor > c THEN tab.cursor ELSE c
      BY <1>3, <1>7, <3>1, <3>4, AttachIs
    <3>7. PageFine(tab', runs)
      BY <1>2, <1>3, <3>6 DEF PageFine
    <3>8. ASSUME Calm(past), "blind" \notin past'
          PROVE  /\ Journal(tab'.output, tab'.cursor, g, runs)
                 /\ Going(i.back.gen, i.back.known, runs) => i.back.cursor <= tab'.cursor
      <4>1. Texts(tab, jobs, runs)
        BY <1>2, <1>5, <3>8 DEF StreamFine
      <4>2. tab.back = j.back
        BY <1>4, <2>1, <3>8
      <4>3. tab.cursor \in Nat
        BY <1>2 DEF TabRow
      <4>4. CASE j.back.gen = g
        <5>1. Going(tab.back.gen, tab.back.known, runs)
          BY <1>3, <1>6, <2>2, <4>2, <4>4, NobodyIs DEF Going
        <5>2. Journal(tab.output, tab.cursor, g, runs) /\ tab.back.cursor <= tab.cursor
          BY <1>2, <2>1, <4>1, <4>2, <4>4, <5>1 DEF Texts
        <5>3. tab'.cursor = tab.cursor
          BY <3>4, <3>5, <3>6, <4>2, <4>3, <4>4, <5>2
        <5> QED BY <3>2, <3>6, <4>2, <5>2, <5>3
      <4>5. CASE j.back.gen # g
        <5>1. j.back.gen = Nobody /\ ~Foreign(g)
          BY <2>1, <3>1, <3>8, <4>5
        <5>2. tab'.cursor = tab.cursor /\ c = 0
          BY <3>4, <3>5, <3>6, <4>3, <4>5
        <5>3. Journal(tab.output, tab.cursor, g, runs)
          <6>1. CASE tab.cursor = 0 /\ tab.output = << >>
            BY <1>2, <1>3, <6>1, Anew
          <6>2. ASSUME NEW h \in Turns, Journal(tab.output, tab.cursor, h, runs)
                PROVE  Journal(tab.output, tab.cursor, g, runs)
            <7>1. tab.output = [k \in 1 .. tab.cursor |-> <<h, k>>]
              BY <6>2 DEF Journal
            <7>2. CASE tab.cursor = 0
              <8>1. tab.output = << >>
                BY <7>1, <7>2
              <8> QED BY <1>2, <1>3, <7>2, <8>1, Anew
            <7>3. CASE tab.cursor # 0
              <8>1. 1 \in 1 .. tab.cursor
                BY <4>3, <7>3
              <8>2. tab.output[1] = <<h, 1>> /\ tab.output # << >>
                BY <4>3, <7>1, <8>1
              <8>3. Head(tab.output) = tab.output[1]
                BY <1>2, <8>2 DEF TabRow
              <8>4. h = g
                BY <5>1, <8>2, <8>3 DEF Foreign
              <8> QED BY <6>2, <8>4
            <7> QED BY <7>2, <7>3
          <6>3. Traced(tab.output, tab.cursor, runs)
            BY <4>1 DEF Texts
          <6> QED BY <6>1, <6>2, <6>3 DEF Traced
        <5>4. ~Going(i.back.gen, i.back.known, runs)
          BY <3>2, <5>1 DEF Going
        <5> QED BY <3>6, <5>2, <5>3, <5>4
      <4> QED BY <4>4, <4>5
    <3>9. js \subseteq jobs /\ (Calm(past) => \A k \in js : ~Views(k) /\ Keeps(k))
      BY <1>4
    <3>10. jobs' = js \cup {i}
      BY <3>1
    <3> HIDE DEF js
    <3>11. Calm(past) => /\ \A k \in js : ~Views(k) /\ Keeps(k)
                         /\ i.clears <=> tab.back # Nobody
                         /\ i.clears => i.back = tab.back
      BY <1>4, <2>1, <3>2, <3>9
    <3>12. i.back = Nobody \/ \E k \in jobs : k.back = i.back
      BY <3>2
    <3>13. StreamFine(tab', jobs', runs, log, past')
      BY <1>2, <1>3, <1>5, <3>2, <3>3, <3>6, <3>7, <3>8, <3>9, <3>10, <3>11, <3>12, StreamStarts
    <3> QED BY <1>1, <3>13, StepFine DEF StreamInv
  <2>3. CASE status = "completed" /\ ~Ends(j.before.msgs, Answer(g))
    <3>1. Finish(p, j, g, st)
      BY <1>1, <1>6, <1>10, <2>3
    <3>2. st \in {"completed", "failed", "cancelled"} /\ st = "completed"
      BY <1>6, <2>3
    <3> QED BY <1>1, <1>2, <1>3, <1>4, <1>5, <1>6, <1>7, <1>10, <3>1, <3>2, FinishFine
  <2>4. CASE status # "in_progress" /\ ~(status = "completed" /\ ~Ends(j.before.msgs, Answer(g)))
    <3> DEFINE r == [p EXCEPT !.status = st]
    <3>1. tab' = Settled(r, j) /\ jobs' = jobs \ {j}
      BY <1>1, <1>6, <1>10, <2>4 DEF Without
    <3>2. /\ r \in TabRow /\ r.signedIn = tab.signedIn /\ r.back = tab.back
          /\ r.final = tab.final /\ r.cursor = tab.cursor /\ r.output = tab.output
          /\ r.gen = g /\ r.known = st
      BY <1>5, <1>6, <1>7 DEF TabRow
    <3> HIDE DEF r
    <3>3. /\ tab' \in TabRow /\ tab'.signedIn = tab.signedIn /\ tab'.back \in {tab.back, Nobody}
          /\ tab'.final = tab.final /\ tab'.cursor = tab.cursor /\ tab'.output = tab.output
          /\ tab'.gen = g /\ tab'.known = st
      <4>1. PICK back \in {r.back, Nobody} : tab' = [r EXCEPT !.back = back] /\ tab' \in TabRow
        BY <3>1, <3>2, SettledIs
      <4> QED BY <3>2, <4>1 DEF TabRow
    <3>4. PageFine(tab', runs)
      BY <1>2, <1>3, <3>3 DEF PageFine, Known
    <3>5. tab'.gen # Nobody /\ tab'.known = "completed" => runs[tab'.gen].status = "completed"
      BY <1>6, <3>3
    <3>6. ~Going(tab'.gen, tab'.known, runs)
      BY <1>6, <2>4, <3>3 DEF Going
    <3> QED BY <1>1, <1>2, <1>4, <1>5, <3>1, <3>3, <3>4, <3>5, <3>6, HandsOn
  <2> QED BY <2>2, <2>3, <2>4
<1> QED BY <1>3, <1>9, <1>10
-----------------------------------------------------------------------------
(* What becomes of a snapshot.                                              *)

LEMMA RenderedIs ==
  ASSUME NEW p \in TabRow, NEW t \in Threads, NEW s, s.msgs \in Ledger
  PROVE  /\ Rendered(p, t, s) \in TabRow
         /\ Rendered(p, t, s).signedIn = p.signedIn /\ Rendered(p, t, s).thread = t
         /\ Rendered(p, t, s).gen = p.gen /\ Rendered(p, t, s).known = p.known
         /\ Rendered(p, t, s).cursor = p.cursor /\ Rendered(p, t, s).output = p.output
         /\ Rendered(p, t, s).back = p.back /\ Rendered(p, t, s).shown = s.msgs
         /\ ~Rendered(p, t, s).resume /\ Rendered(p, t, s).final \in {p.final, Nobody}
         /\ Rendered(p, t, s).status \in {"completed", "idle"}
         /\ Rendered(p, t, s).status = "completed" => s.msgs # << >> /\ Last(s.msgs).role = "assistant"
<1> DEFINE c == Cleared(p)
           m == s.msgs
           done == s.msgs # << >> /\ Last(s.msgs).role = "assistant"
           st == IF done THEN "completed" ELSE "idle"
           fi == IF done THEN Nobody ELSE c.final
           r == Rendered(p, t, s)
<1>1. r = [c EXCEPT !.thread = t, !.shown = m, !.status = st, !.final = fi]
  BY DEF Rendered
<1>2. c \in TabRow /\ c.signedIn = p.signedIn /\ c.gen = p.gen /\ c.known = p.known /\ c.cursor = p.cursor
      /\ c.output = p.output /\ c.back = p.back /\ ~c.resume /\ c.final = p.final
  BY ClearedIs
<1>3. st \in {"completed", "idle"} /\ (st = "completed" => done)
  OBVIOUS
<1>4. fi \in {p.final, Nobody} /\ m \in Ledger
  BY <1>2
<1>5. (st = "completed" => m # << >> /\ Last(m).role = "assistant")
  BY <1>3
<1> HIDE DEF c, m, done, st, fi, r
<1>6. p.final \in [thread : Threads, gen : Turns] \cup {Nobody}
  BY DEF TabRow
<1>7. /\ r \in TabRow /\ r.signedIn = p.signedIn /\ r.thread = t /\ r.gen = p.gen /\ r.known = p.known
      /\ r.cursor = p.cursor /\ r.output = p.output /\ r.back = p.back /\ r.shown = m /\ ~r.resume
      /\ r.final = fi /\ r.status = st
  BY <1>1, <1>2, <1>3, <1>4, <1>6 DEF TabRow, ThreadRef, Statuses
<1>8. /\ r \in TabRow /\ r.signedIn = p.signedIn /\ r.thread = t /\ r.gen = p.gen /\ r.known = p.known
      /\ r.cursor = p.cursor /\ r.output = p.output /\ r.back = p.back /\ r.shown = m /\ ~r.resume
      /\ r.final \in {p.final, Nobody} /\ r.status \in {"completed", "idle"}
      /\ (r.status = "completed" => m # << >> /\ Last(m).role = "assistant")
  BY <1>3, <1>4, <1>5, <1>7
<1> QED BY <1>8 DEF r, m

LEMMA EndsFine ==
  ASSUME StreamInv, UNCHANGED ledgers, past \subseteq past', jobs' \subseteq jobs, PageFine(tab', runs),
         tab'.signedIn = tab.signedIn, tab'.back \in {tab.back, Nobody}, tab'.gen = tab.gen,
         tab'.known = tab.known, tab'.cursor = tab.cursor, tab'.output = tab.output,
         Calm(past') => Alone(tab', jobs')
  PROVE  StreamInv'
<1>1. StreamFine(tab, jobs, runs, log, past) /\ (Calm(past') => Calm(past))
  BY DEF StreamInv, Calm
<1>2. JobsFine(tab', jobs', runs, log)
  BY <1>1, JobsFrom DEF StreamFine
<1>3. Backs(tab, jobs, jobs')
  BY DEF Backs
<1>4. Calm(past') => Tells(tab', jobs', runs)
  <2> SUFFICES ASSUME Calm(past') PROVE Tells(tab', jobs', runs)
    OBVIOUS
  <2>1. Tells(tab, jobs, runs)
    BY <1>1 DEF StreamFine
  <2>2. tab'.signedIn /\ tab'.gen # Nobody /\ tab'.known = "completed" => runs[tab'.gen].status = "completed"
    BY <2>1 DEF Tells
  <2> QED BY <1>3, <2>1, <2>2, TellsKept
<1>5. Calm(past') /\ "blind" \notin past' => Texts(tab', jobs', runs)
  <2> SUFFICES ASSUME Calm(past'), "blind" \notin past' PROVE Texts(tab', jobs', runs)
    OBVIOUS
  <2>1. Texts(tab, jobs, runs)
    BY <1>1 DEF StreamFine
  <2>2. tab'.signedIn /\ Going(tab'.gen, tab'.known, runs) => Journal(tab.output, tab.cursor, tab'.gen, runs)
    BY <2>1 DEF Texts
  <2> QED BY <1>3, <2>1, <2>2, TextsKept
<1>6. StreamFine(tab', jobs', runs, log, past')
  BY <1>2, <1>4, <1>5 DEF StreamFine
<1> QED BY <1>6, StepFine DEF StreamInv

(* Only a send may stay when a stream or a reconnect leaves.                *)
LEMMA LeavesToSend ==
  ASSUME NEW p, NEW q, NEW js, NEW rs, NEW lg, JobsFine(p, js, rs, lg), Alone(p, js),
         NEW j \in js, Views(j), j.kind \in {"stream", "reconnect"},
         q.signedIn, p.signedIn, q.back \in {p.back, Nobody}, q.gen = p.gen, q.known = p.known
  PROVE  Alone(q, js \ {j})
<1>1. ASSUME NEW k \in js \ {j}
      PROVE  Keeps(k) /\ Beside(q, k)
  <2>1. Keeps(k) /\ Beside(p, k)
    BY SharesView
  <2>2. CASE ~Views(k)
    BY <2>1, <2>2 DEF Beside
  <2>3. CASE Views(k)
    <3>1. k.kind = "send"
      BY <2>3 DEF Alone, Pair
    <3>2. k.busy /\ ~k.clears
      BY <3>1 DEF JobsFine, JobFine, Shaped
    <3> QED BY <2>1, <2>3, <3>1, <3>2 DEF Beside, On, Tracks
  <2> QED BY <2>2, <2>3
<1>2. \A k, l \in js \ {j} : Views(k) /\ Views(l) => k = l \/ Pair(k, l) \/ Pair(l, k)
  BY DEF Alone
<1> QED BY <1>1, <1>2 DEF Alone

LEMMA TakeOpen ==
  ASSUME StreamInv, UNCHANGED ledgers, UNCHANGED past, NEW j \in jobs, j.pc = "after", Owns(j), j.kind = "open",
         NEW s \in Snapshot, s.msgs = j.before.msgs, s.live = live[j.thread], Take(j, s)
  PROVE  StreamInv'
<1>1. /\ StreamFine(tab, jobs, runs, log, past) /\ PageFine(tab, runs) /\ tab \in TabRow
      /\ j \in JobRow /\ Shaped(j, runs, log) /\ JobFine(tab, j, runs, log)
      /\ j.owned /\ j.fresh /\ tab.signedIn /\ runs \in [Turns -> RunRow]
  BY JobIs, ServerIs DEF StreamInv, StreamFine, PageFine, Owns
<1>2. /\ j.aim = "view" /\ ~j.clears /\ j.thread \in Threads /\ Views(j) /\ j.before # Nobody
      /\ Range(s.msgs) \subseteq Range(log[j.thread])
  BY <1>1 DEF Shaped, Views
<1>3. Calm(past) => /\ \A k \in jobs \ {j} : ~Views(k) /\ Keeps(k)
                    /\ tab.back = Nobody
  <2> SUFFICES ASSUME Calm(past) PROVE (\A k \in jobs \ {j} : ~Views(k) /\ Keeps(k)) /\ tab.back = Nobody
    OBVIOUS
  <2>1. Alone(tab, jobs)
    BY <1>1 DEF StreamFine
  <2>2. \A k \in jobs \ {j} : ~Views(k) /\ Keeps(k)
    BY <1>2, <2>1, OthersWait DEF Rereads
  <2>3. Beside(tab, j)
    BY <2>1, SharesView
  <2> QED BY <1>2, <2>2, <2>3 DEF Beside
<1> DEFINE r == Rendered(tab, j.thread, s)
<1>4. s.msgs \in Ledger /\ s.live \in TurnRef /\ s # Nobody
  BY NobodyIs DEF Snapshot, Ledger, TurnRef
<1>5. /\ r \in TabRow /\ r.signedIn = tab.signedIn /\ r.gen = tab.gen /\ r.known = tab.known
      /\ r.cursor = tab.cursor /\ r.output = tab.output /\ r.back = tab.back /\ ~r.resume
      /\ r.final \in {tab.final, Nobody}
  <2>1. tab \in TabRow /\ j.thread \in Threads /\ s.msgs \in Ledger
    BY <1>1, <1>2, <1>4
  <2> QED BY <2>1, RenderedIs
<1> HIDE DEF r
<1>6. IF s.live = Nobody
      THEN /\ tab' = [r EXCEPT !.gen = Nobody, !.cursor = 0, !.output = << >>]
           /\ jobs' = jobs \ {j}
      ELSE /\ tab' = r
           /\ jobs' = (jobs \ {j}) \cup {[j EXCEPT !.pc = "status", !.gen = s.live, !.before = s]}
  BY <1>2 DEF Take, r, Becomes, Without
<1>7. CASE s.live = Nobody
  <2>1. /\ tab' \in TabRow /\ tab'.signedIn = tab.signedIn /\ tab'.gen = Nobody /\ tab'.back = tab.back
        /\ tab'.cursor = 0 /\ tab'.output = << >> /\ tab'.final \in {tab.final, Nobody}
    <3>1. << >> \in Seq(Turns \X Nat) /\ Nobody \in TurnRef
      BY DEF TurnRef
    <3>2. tab' = [r EXCEPT !.gen = Nobody, !.cursor = 0, !.output = << >>]
      BY <1>6, <1>7
    <3>3. /\ tab' \in TabRow /\ tab'.signedIn = r.signedIn /\ tab'.gen = Nobody /\ tab'.back = r.back
          /\ tab'.cursor = 0 /\ tab'.output = << >> /\ tab'.final = r.final
      BY <1>5, <3>1, <3>2 DEF TabRow
    <3> QED BY <1>5, <3>3
  <2>2. PageFine(tab', runs)
    BY <1>1, <2>1 DEF PageFine
  <2>3. jobs' = jobs \ {j} /\ past \subseteq past'
    BY <1>6, <1>7
  <2> QED BY <1>1, <1>3, <2>1, <2>2, <2>3, HandsOn
<1>8. CASE s.live # Nobody
  <2> DEFINE i == [j EXCEPT !.pc = "status", !.gen = s.live, !.before = s]
  <2>1. tab' = r /\ jobs' = (jobs \ {j}) \cup {i} /\ past \subseteq past'
    BY <1>6, <1>8
  <2>2. Of(s.live, j.thread, runs) /\ Used(s.live, runs)
    BY <1>2, <1>8, NobodyIs DEF StreamInv, Serving, Of, Used
  <2>3. /\ i \in JobRow /\ i.kind = "open" /\ i.pc = "status" /\ i.thread = j.thread /\ i.gen = s.live
        /\ i.owned /\ i.fresh /\ i.busy = j.busy /\ ~i.clears /\ i.aim = "view"
        /\ i.before = s /\ i.back = j.back
    BY <1>1, <1>2, <1>4 DEF JobRow
  <2> HIDE DEF i
  <2>4. JobFine(tab, i, runs, log)
    BY <1>1, <1>2, <1>4, <2>2, <2>3 DEF JobFine, Shaped
  <2>5. Calm(past) => Keeps(i) /\ Beside(tab', i)
    BY <1>3, <1>5, <2>1, <2>3 DEF Keeps, Beside, Tracks
  <2>6. PageFine(tab', runs)
    BY <1>1, <1>5, <2>1 DEF PageFine
  <2>7. Calm(past) /\ "blind" \notin past' /\ Going(tab'.gen, tab'.known, runs) =>
          Journal(tab.output, tab.cursor, tab'.gen, runs)
    BY <1>1, <1>5, <2>1 DEF StreamFine, Texts
  <2>8. tab'.back = tab.back /\ tab'.gen = tab.gen /\ tab'.known = tab.known /\ tab'.signedIn = tab.signedIn
        /\ tab'.cursor = tab.cursor /\ tab'.output = tab.output
    BY <1>5, <2>1
  <2> QED BY <1>1, <1>3, <2>1, <2>3, <2>4, <2>5, <2>6, <2>7, <2>8, HandsOn
<1> QED BY <1>7, <1>8

LEMMA TakeReconnect ==
  ASSUME StreamInv, UNCHANGED ledgers, UNCHANGED past, NEW j \in jobs, j.pc = "after", Owns(j),
         j.kind = "reconnect", j.aim = "view",
         NEW s \in Snapshot, s.msgs = j.before.msgs, s.live = live[j.thread], Take(j, s)
  PROVE  StreamInv'
<1>1. /\ StreamFine(tab, jobs, runs, log, past) /\ PageFine(tab, runs) /\ tab \in TabRow
      /\ j \in JobRow /\ Shaped(j, runs, log) /\ JobFine(tab, j, runs, log) /\ Known(j.back, runs)
      /\ j.owned /\ j.fresh /\ tab.signedIn /\ runs \in [Turns -> RunRow]
  BY JobIs, ServerIs DEF StreamInv, StreamFine, PageFine, Owns
<1>2. /\ j.clears /\ j.back # Nobody /\ j.back \in Descriptor /\ j.thread \in Threads /\ Views(j)
      /\ j.before # Nobody /\ Range(s.msgs) \subseteq Range(log[j.thread])
  BY <1>1 DEF Shaped, Views, JobRow
<1>3. Calm(past) => /\ \A k \in jobs \ {j} : ~Views(k) /\ Keeps(k)
                    /\ Beside(tab, j)
  <2> SUFFICES ASSUME Calm(past) PROVE (\A k \in jobs \ {j} : ~Views(k) /\ Keeps(k)) /\ Beside(tab, j)
    OBVIOUS
  <2>1. Alone(tab, jobs)
    BY <1>1 DEF StreamFine
  <2>2. \A k \in jobs \ {j} : ~Views(k) /\ Keeps(k)
    BY <1>2, <2>1, OthersWait DEF Rereads
  <2> QED BY <2>1, <2>2, SharesView
<1> DEFINE r == Rendered(tab, j.thread, s)
           g == IF j.back.gen # Nobody THEN j.back.gen ELSE s.live
<1>4. s.msgs \in Ledger /\ s.live \in TurnRef /\ s # Nobody /\ j.back.gen \in TurnRef
  BY <1>2, NobodyIs DEF Snapshot, Ledger, TurnRef, Descriptor
<1>5. /\ r \in TabRow /\ r.signedIn = tab.signedIn /\ r.gen = tab.gen /\ r.known = tab.known
      /\ r.cursor = tab.cursor /\ r.output = tab.output /\ r.back = tab.back /\ ~r.resume
      /\ r.final \in {tab.final, Nobody}
  <2>1. tab \in TabRow /\ j.thread \in Threads /\ s.msgs \in Ledger
    BY <1>1, <1>2, <1>4
  <2> QED BY <2>1, RenderedIs
<1> HIDE DEF r
<1>6. IF g = Nobody
      THEN /\ tab' = Settled([r EXCEPT !.gen = Nobody], j)
           /\ jobs' = jobs \ {j}
      ELSE /\ tab' = r
           /\ jobs' = (jobs \ {j}) \cup {[j EXCEPT !.pc = "status", !.gen = g, !.before = s]}
  BY DEF Take, r, Becomes, Without
<1>7. g \in TurnRef /\ (j.back.gen # Nobody => g = j.back.gen) /\ (g # Nobody => Used(g, runs))
  <2>1. s.live # Nobody => Used(s.live, runs)
    BY <1>2, NobodyIs DEF StreamInv, Serving, Of, Used
  <2> QED BY <1>1, <1>2, <1>4, <2>1 DEF Known
<1> HIDE DEF g
<1>8. CASE g = Nobody
  <2> DEFINE q == [r EXCEPT !.gen = Nobody]
  <2>1. /\ q \in TabRow /\ q.signedIn = tab.signedIn /\ q.gen = Nobody /\ q.back = tab.back
        /\ q.cursor = tab.cursor /\ q.output = tab.output /\ q.final \in {tab.final, Nobody}
    BY <1>5 DEF TabRow, TurnRef
  <2>2. tab' = Settled(q, j) /\ jobs' = jobs \ {j} /\ past \subseteq past'
    BY <1>6, <1>8
  <2> HIDE DEF q
  <2>3. /\ tab' \in TabRow /\ tab'.signedIn = tab.signedIn /\ tab'.gen = Nobody /\ tab'.back \in {tab.back, Nobody}
        /\ tab'.cursor = tab.cursor /\ tab'.output = tab.output /\ tab'.final \in {tab.final, Nobody}
    <3>1. PICK back \in {q.back, Nobody} : tab' = [q EXCEPT !.back = back] /\ tab' \in TabRow
      BY <2>1, <2>2, SettledIs
    <3> QED BY <2>1, <3>1 DEF TabRow
  <2>4. PageFine(tab', runs)
    BY <1>1, <2>3 DEF PageFine, Known
  <2>5. ~Going(tab'.gen, tab'.known, runs)
    BY <2>3 DEF Going
  <2> QED BY <1>1, <1>3, <2>2, <2>3, <2>4, <2>5, HandsOn
<1>9. CASE g # Nobody
  <2> DEFINE i == [j EXCEPT !.pc = "status", !.gen = g, !.before = s]
  <2>1. tab' = r /\ jobs' = (jobs \ {j}) \cup {i} /\ past \subseteq past'
    BY <1>6, <1>9
  <2>2. g \in Turns
    BY <1>7, <1>9 DEF TurnRef
  <2>3. /\ i \in JobRow /\ i.kind = "reconnect" /\ i.pc = "status" /\ i.thread = j.thread /\ i.gen = g
        /\ i.owned /\ i.fresh /\ i.busy = j.busy /\ i.clears /\ i.aim = "view"
        /\ i.before = s /\ i.back = j.back
    BY <1>1, <1>2, <1>4, <1>7 DEF JobRow
  <2> HIDE DEF i
  <2>4. JobFine(tab, i, runs, log)
    BY <1>1, <1>2, <1>4, <1>7, <2>2, <2>3 DEF JobFine, Shaped
  <2>5. Calm(past) => Keeps(i) /\ Beside(tab', i)
    BY <1>2, <1>3, <1>5, <2>1, <2>3 DEF Keeps, Beside, Tracks
  <2>6. PageFine(tab', runs)
    BY <1>1, <1>5, <2>1 DEF PageFine
  <2>7. Calm(past) /\ "blind" \notin past' /\ Going(tab'.gen, tab'.known, runs) =>
          Journal(tab.output, tab.cursor, tab'.gen, runs)
    BY <1>1, <1>5, <2>1 DEF StreamFine, Texts
  <2>8. tab'.back = tab.back /\ tab'.gen = tab.gen /\ tab'.known = tab.known /\ tab'.signedIn = tab.signedIn
        /\ tab'.cursor = tab.cursor /\ tab'.output = tab.output
    BY <1>5, <2>1
  <2> QED BY <1>1, <1>3, <2>1, <2>3, <2>4, <2>5, <2>6, <2>7, <2>8, HandsOn
<1> QED BY <1>8, <1>9
LEMMA TakeFinal ==
  ASSUME StreamInv, UNCHANGED ledgers, UNCHANGED past, NEW j \in jobs, j.pc = "after", Owns(j), j.aim = "final",
         NEW s \in Snapshot, Take(j, s)
  PROVE  StreamInv'
<1>1. /\ StreamFine(tab, jobs, runs, log, past) /\ PageFine(tab, runs) /\ tab \in TabRow
      /\ j \in JobRow /\ Shaped(j, runs, log) /\ JobFine(tab, j, runs, log) /\ JobsFine(tab, jobs, runs, log)
      /\ j.owned /\ j.fresh /\ tab.signedIn /\ runs \in [Turns -> RunRow]
  BY JobIs, ServerIs DEF StreamInv, StreamFine, PageFine, Owns
<1>2. j.kind \in {"stream", "reconnect"} /\ j.thread \in Threads /\ Views(j)
  BY <1>1 DEF Shaped, Views, JobRow
<1> DEFINE c == Cleared(tab)
           m == s.msgs
           shown == [c EXCEPT !.thread = j.thread, !.shown = m]
           held == [shown EXCEPT !.status = "finalizing"]
           won == [held EXCEPT !.final = Nobody, !.status = "completed"]
           lost == [held EXCEPT !.resume = TRUE]
<1>3. /\ \/ tab' = Settled(shown, j)
         \/ tab' = Settled(won, j)
         \/ tab' = Settled(lost, j)
      /\ jobs' = jobs \ {j} /\ past' = past
  BY <1>2 DEF Take, Without
<1>4. /\ c \in TabRow /\ c.signedIn = tab.signedIn /\ c.gen = tab.gen /\ c.known = tab.known
      /\ c.cursor = tab.cursor /\ c.output = tab.output /\ c.back = tab.back /\ c.final = tab.final
  BY <1>1, ClearedIs
<1>5. m \in Ledger /\ j.thread \in ThreadRef
  BY <1>2 DEF Snapshot, Ledger, ThreadRef
<1> HIDE DEF c, m
<1>6. \A q \in {shown, won, lost} :
        /\ q \in TabRow /\ q.signedIn = tab.signedIn /\ q.gen = tab.gen /\ q.known = tab.known
        /\ q.cursor = tab.cursor /\ q.output = tab.output /\ q.back = tab.back /\ q.final \in {tab.final, Nobody}
  <2>1. /\ shown \in TabRow /\ shown.signedIn = tab.signedIn /\ shown.gen = tab.gen /\ shown.known = tab.known
        /\ shown.cursor = tab.cursor /\ shown.output = tab.output /\ shown.back = tab.back
        /\ shown.final = tab.final
    BY <1>4, <1>5 DEF TabRow
  <2> HIDE DEF shown
  <2>2. /\ held \in TabRow /\ held.signedIn = tab.signedIn /\ held.gen = tab.gen /\ held.known = tab.known
        /\ held.cursor = tab.cursor /\ held.output = tab.output /\ held.back = tab.back
        /\ held.final = tab.final
    BY <2>1 DEF TabRow
  <2> HIDE DEF held
  <2>3. "completed" \in Statuses
    BY DEF Statuses
  <2>4. /\ won \in TabRow /\ won.signedIn = tab.signedIn /\ won.gen = tab.gen /\ won.known = tab.known
        /\ won.cursor = tab.cursor /\ won.output = tab.output /\ won.back = tab.back
        /\ won.final = Nobody
    BY <2>2, <2>3 DEF TabRow
  <2>5. /\ lost \in TabRow /\ lost.signedIn = tab.signedIn /\ lost.gen = tab.gen /\ lost.known = tab.known
        /\ lost.cursor = tab.cursor /\ lost.output = tab.output /\ lost.back = tab.back
        /\ lost.final = tab.final
    BY <2>2 DEF TabRow
  <2> QED BY <2>1, <2>4, <2>5
<1> HIDE DEF shown, held, won, lost
<1>7. PICK q \in {shown, won, lost} : tab' = Settled(q, j)
  BY <1>3
<1>8. q \in TabRow
  BY <1>6
<1>9. /\ tab' \in TabRow /\ tab'.signedIn = q.signedIn /\ tab'.gen = q.gen /\ tab'.known = q.known
      /\ tab'.cursor = q.cursor /\ tab'.output = q.output /\ tab'.back \in {q.back, Nobody}
      /\ tab'.final = q.final
  <2>1. PICK back \in {q.back, Nobody} : tab' = [q EXCEPT !.back = back] /\ tab' \in TabRow
    BY <1>7, <1>8, SettledIs
  <2> QED BY <1>8, <2>1 DEF TabRow
<1>10. /\ tab'.signedIn = tab.signedIn /\ tab'.gen = tab.gen /\ tab'.known = tab.known
       /\ tab'.cursor = tab.cursor /\ tab'.output = tab.output /\ tab'.back \in {tab.back, Nobody}
       /\ tab'.final \in {tab.final, Nobody}
  BY <1>6, <1>9
<1>11. PageFine(tab', runs)
  BY <1>1, <1>9, <1>10 DEF PageFine, Known
<1>12. Calm(past') => Alone(tab', jobs')
  <2> SUFFICES ASSUME Calm(past') PROVE Alone(tab', jobs')
    OBVIOUS
  <2>1. Alone(tab, jobs)
    BY <1>1, <1>3 DEF StreamFine
  <2>2. Alone(tab', jobs \ {j})
    BY <1>1, <1>2, <1>10, <2>1, LeavesToSend
  <2> QED BY <1>3, <2>2
<1> QED BY <1>3, <1>10, <1>11, <1>12, EndsFine

(* A stopped generation is shown as it ended, by a stop or by a stream.     *)
LEMMA RefreshEnds ==
  ASSUME StreamInv, UNCHANGED ledgers, past \subseteq past', NEW j \in jobs, Owns(j) \/ j.kind = "stop",
         j.aim = "refresh",
         NEW q \in TabRow, q.signedIn = tab.signedIn, q.gen = tab.gen, q.known = tab.known,
         q.cursor = tab.cursor, q.output = tab.output, q.back = tab.back, q.final \in {tab.final, Nobody},
         ~q.resume, tab' = Settled(q, j), jobs' = jobs \ {j}
  PROVE  StreamInv'
<1>1. /\ StreamFine(tab, jobs, runs, log, past) /\ PageFine(tab, runs) /\ tab \in TabRow
      /\ j \in JobRow /\ Shaped(j, runs, log) /\ JobsFine(tab, jobs, runs, log)
      /\ (Calm(past') => Calm(past))
  BY JobIs DEF StreamInv, StreamFine, PageFine, Calm
<1>2. j.kind \in {"stream", "stop"}
  BY <1>1 DEF Shaped, JobRow
<1>3. PICK back \in {q.back, Nobody} :
        /\ tab' = [q EXCEPT !.back = back] /\ tab' \in TabRow
        /\ ~(j.clears /\ j.fresh /\ q.signedIn) => back = q.back
  BY SettledIs
<1>4. /\ tab'.signedIn = tab.signedIn /\ tab'.gen = tab.gen /\ tab'.known = tab.known
      /\ tab'.cursor = tab.cursor /\ tab'.output = tab.output /\ tab'.back = back
      /\ tab'.final \in {tab.final, Nobody} /\ ~tab'.resume
  BY <1>3 DEF TabRow
<1>5. PageFine(tab', runs)
  BY <1>1, <1>3, <1>4 DEF PageFine, Known
<1>6. Calm(past') => Alone(tab', jobs')
  <2> SUFFICES ASSUME Calm(past') PROVE Alone(tab', jobs')
    OBVIOUS
  <2>1. Alone(tab, jobs)
    BY <1>1 DEF StreamFine
  <2>2. CASE j.kind = "stream"
    <3>1. Owns(j)
      BY <2>2
    <3>2. Views(j) /\ tab.signedIn
      BY <2>2, <3>1 DEF Views, Owns
    <3>3. tab'.back \in {tab.back, Nobody} /\ tab'.signedIn
      BY <1>3, <1>4, <3>2
    <3>4. Alone(tab', jobs \ {j})
      BY <1>1, <1>4, <2>1, <2>2, <3>2, <3>3, LeavesToSend
    <3> QED BY <3>4
  <2>3. CASE j.kind = "stop"
    <3>1. ~j.clears
      BY <1>1, <2>3 DEF Shaped
    <3>2. tab'.back = tab.back /\ jobs' \subseteq jobs
      BY <1>3, <1>4, <3>1
    <3> QED BY <1>4, <2>1, <3>2, AloneStill
  <2> QED BY <1>2, <2>2, <2>3
<1>7. tab'.back \in {tab.back, Nobody} /\ jobs' \subseteq jobs
  BY <1>3, <1>4
<1> QED BY <1>4, <1>5, <1>6, <1>7, EndsFine

LEMMA TakeRefresh ==
  ASSUME StreamInv, UNCHANGED ledgers, UNCHANGED past, NEW j \in jobs, j.pc = "after", Owns(j), j.aim = "refresh",
         NEW s \in Snapshot, Take(j, s)
  PROVE  StreamInv'
<1>1. tab \in TabRow /\ j \in JobRow /\ Shaped(j, runs, log)
  BY JobIs
<1>2. j.kind \in {"stream", "stop"} /\ j.thread \in Threads /\ j.gen \in Turns
  BY <1>1 DEF Shaped, JobRow, Of
<1>3. s.msgs \in Ledger
  BY DEF Snapshot, Ledger
<1> DEFINE r == Rendered(tab, j.thread, s)
           st == runs[j.gen].status
           q == [r EXCEPT !.status = st]
<1>4. tab' = Settled(q, j) /\ jobs' = jobs \ {j}
  BY <1>2 DEF Take, Without
<1>5. /\ r \in TabRow /\ r.signedIn = tab.signedIn /\ r.gen = tab.gen /\ r.known = tab.known
      /\ r.cursor = tab.cursor /\ r.output = tab.output /\ r.back = tab.back /\ ~r.resume
      /\ r.final \in {tab.final, Nobody}
  <2>1. tab \in TabRow /\ j.thread \in Threads /\ s.msgs \in Ledger
    BY <1>1, <1>2, <1>3
  <2> QED BY <2>1, RenderedIs
<1>6. st \in Statuses
  BY <1>2, ServerIs DEF StreamInv, RunRow
<1> HIDE DEF r, st
<1>7. /\ q \in TabRow /\ q.signedIn = r.signedIn /\ q.gen = r.gen /\ q.known = r.known
      /\ q.cursor = r.cursor /\ q.output = r.output /\ q.back = r.back /\ ~q.resume
      /\ q.final = r.final
  BY <1>5, <1>6 DEF TabRow
<1> HIDE DEF q
<1>8. past \subseteq past'
  OBVIOUS
<1> QED BY <1>4, <1>5, <1>7, <1>8, RefreshEnds

LEMMA ReadAfterFine ==
  ASSUME StreamInv, NEW j \in jobs, ReadAfter(j)
  PROVE  StreamInv'
<1> DEFINE s == [msgs |-> j.before.msgs, live |-> live[j.thread]]
<1>1. UNCHANGED ledgers /\ UNCHANGED past /\ j.pc = "after" /\ Owns(j) /\ Take(j, s)
  BY DEF ReadAfter
<1>2. j \in JobRow /\ Shaped(j, runs, log)
  BY JobIs
<1>3. j.before \in Snapshot /\ j.thread \in Threads /\ j.kind \in {"open", "stream", "reconnect", "stop"}
  BY <1>1, <1>2 DEF Shaped, JobRow
<1>4. s \in Snapshot /\ s.msgs = j.before.msgs /\ s.live = live[j.thread]
  <2>1. live[j.thread] \in TurnRef
    BY <1>3, ServerIs DEF StreamInv
  <2> QED BY <1>3, <2>1 DEF Snapshot, TurnRef
<1> HIDE DEF s
<1>5. CASE j.kind = "open"
  BY <1>1, <1>4, <1>5, TakeOpen
<1>6. CASE j.kind = "reconnect" /\ j.aim = "view"
  BY <1>1, <1>4, <1>6, TakeReconnect
<1>7. CASE j.aim = "final"
  BY <1>1, <1>4, <1>7, TakeFinal
<1>8. CASE j.aim = "refresh"
  BY <1>1, <1>4, <1>8, TakeRefresh
<1> QED BY <1>2, <1>3, <1>1, <1>5, <1>6, <1>7, <1>8 DEF Shaped

-----------------------------------------------------------------------------
(* A read that fails.                                                       *)

LEMMA PausedIs ==
  ASSUME NEW f, tab \in TabRow
  PROVE  /\ Paused(f) \in TabRow /\ Paused(f).signedIn = tab.signedIn /\ Paused(f).thread = tab.thread
         /\ Paused(f).gen = tab.gen /\ Paused(f).known = tab.known /\ Paused(f).cursor = tab.cursor
         /\ Paused(f).output = tab.output /\ Paused(f).back = tab.back /\ Paused(f).final = tab.final
         /\ Paused(f).shown = tab.shown /\ Paused(f).status \in {tab.status, "finalizing"}
<1>1. CASE FinalCurrent(f)
  BY <1>1 DEF Paused, TabRow
<1>2. CASE ~FinalCurrent(f)
  BY <1>2 DEF Paused
<1> QED BY <1>1, <1>2

LEMMA ReconnectFails ==
  ASSUME StreamInv, UNCHANGED ledgers, past \subseteq past', NEW j \in jobs, j.kind = "reconnect", j.aim = "view",
         AtSignIn(j), Calm(past') => ~(tab.signedIn /\ ~j.fresh),
         tab' = Reinstated(tab, j), jobs' = jobs \ {j}
  PROVE  StreamInv'
<1>1. /\ StreamFine(tab, jobs, runs, log, past) /\ PageFine(tab, runs) /\ tab \in TabRow
      /\ j \in JobRow /\ Shaped(j, runs, log) /\ JobsFine(tab, jobs, runs, log) /\ Known(j.back, runs)
      /\ (Calm(past') => Calm(past))
  BY JobIs DEF StreamInv, StreamFine, PageFine, Calm
<1>2. j.clears /\ ~j.busy /\ j.back # Nobody /\ j.back \in Descriptor /\ j.back.gen \in TurnRef
  BY <1>1 DEF AtSignIn, Shaped, JobRow, Descriptor, TurnRef
<1>3. /\ tab' \in TabRow /\ tab'.signedIn = tab.signedIn /\ tab'.known = tab.known /\ tab'.cursor = tab.cursor
      /\ tab'.output = tab.output /\ tab'.final = tab.final
      /\ tab'.gen = HeldBy(j.back) /\ tab'.back = j.back
  <2>1. tab \in TabRow /\ j \in JobRow /\ (j.clears => j.back # Nobody) /\ tab' = Reinstated(tab, j)
    BY <1>1, <1>2
  <2> QED BY <2>1, ReinstatedIs
<1>4. HeldBy(j.back) \in {Nobody, j.back.gen}
  BY DEF HeldBy
<1>5. PageFine(tab', runs)
  BY <1>1, <1>2, <1>3, <1>4 DEF PageFine, Known
<1>6. JobsFine(tab', jobs', runs, log) /\ Backs(tab, jobs, jobs')
  BY <1>1, <1>3, JobsFrom DEF Backs
<1>7. ASSUME Calm(past'), tab.signedIn
      PROVE  /\ \A k \in jobs \ {j} : ~Views(k) /\ Keeps(k)
             /\ tab.back = j.back /\ tab.known \in {j.back.known, "cancelled"}
  <2>1. Alone(tab, jobs)
    BY <1>1, <1>7 DEF StreamFine
  <2>2. j.fresh
    BY <1>7
  <2>3. Views(j) /\ Beside(tab, j)
    BY <2>1, <2>2 DEF Alone, Keeps, Views
  <2>4. \A k \in jobs \ {j} : ~Views(k) /\ Keeps(k)
    BY <2>1, <2>3, OthersWait DEF Rereads
  <2> QED BY <1>2, <2>3, <2>4 DEF Beside
<1>8. ASSUME ~tab.signedIn, NEW k \in jobs
      PROVE  ~Views(k) /\ Keeps(k)
  <2>1. ~k.fresh /\ ~k.owned
    BY <1>1, <1>8 DEF JobsFine, JobFine
  <2> QED BY <2>1 DEF Views, Keeps
<1>9. Calm(past') => Alone(tab', jobs')
  <2> SUFFICES ASSUME Calm(past') PROVE Alone(tab', jobs')
    OBVIOUS
  <2>1. \A k \in jobs' : ~Views(k) /\ Keeps(k)
    BY <1>7, <1>8
  <2> QED BY <1>2, <1>3, <2>1, AloneNone
<1>10. Calm(past') => Tells(tab', jobs', runs)
  <2> SUFFICES ASSUME Calm(past') PROVE Tells(tab', jobs', runs)
    OBVIOUS
  <2>1. Tells(tab, jobs, runs) /\ Told(j.back, runs)
    BY <1>1 DEF StreamFine, Tells
  <2>2. tab'.signedIn /\ tab'.gen # Nobody /\ tab'.known = "completed" => runs[tab'.gen].status = "completed"
    BY <1>2, <1>3, <1>4, <1>7, <2>1 DEF Told
  <2>3. \A k \in jobs' : Told(k.back, runs)
    BY <1>6, <2>1 DEF Tells, Backs, Told
  <2> QED BY <1>3, <2>1, <2>2, <2>3 DEF Tells
<1>11. Calm(past') /\ "blind" \notin past' => Texts(tab', jobs', runs)
  <2> SUFFICES ASSUME Calm(past'), "blind" \notin past' PROVE Texts(tab', jobs', runs)
    OBVIOUS
  <2>1. Texts(tab, jobs, runs) /\ Good(j.back, runs)
    BY <1>1 DEF StreamFine, Texts
  <2>2. \A k \in jobs' : Good(k.back, runs)
    BY <1>6, <2>1 DEF Texts, Backs, Good
  <2>3. Traced(tab'.output, tab'.cursor, runs)
    BY <1>3, <2>1 DEF Texts
  <2>4. ASSUME tab.signedIn
        PROVE  /\ Going(tab'.gen, tab'.known, runs) => Journal(tab'.output, tab'.cursor, tab'.gen, runs)
               /\ Going(tab'.back.gen, tab'.back.known, runs) =>
                    Journal(tab'.output, tab'.cursor, tab'.back.gen, runs) /\ tab'.back.cursor <= tab'.cursor
    <3>1. tab.back = j.back /\ tab.known \in {j.back.known, "cancelled"}
      BY <1>7, <2>4
    <3>2. Going(j.back.gen, j.back.known, runs) =>
            Journal(tab.output, tab.cursor, j.back.gen, runs) /\ j.back.cursor <= tab.cursor
      BY <1>2, <2>1, <2>4, <3>1 DEF Texts
    <3>3. Going(tab'.gen, tab'.known, runs) => tab'.gen = j.back.gen /\ Going(j.back.gen, j.back.known, runs)
      BY <1>3, <1>4, <3>1 DEF Going
    <3> QED BY <1>3, <3>2, <3>3
  <2> QED BY <1>3, <2>1, <2>2, <2>3, <2>4 DEF Texts
<1>12. StreamFine(tab', jobs', runs, log, past')
  BY <1>5, <1>6, <1>9, <1>10, <1>11 DEF StreamFine
<1> QED BY <1>12, StepFine DEF StreamInv

LEMMA FailsFine ==
  ASSUME StreamInv, NEW j \in jobs, Fails(j)
  PROVE  StreamInv'
<1>1. /\ UNCHANGED ledgers /\ Reading(j) /\ tab' = Failed(j) /\ jobs' = jobs \ {j}
      /\ Notes("late", tab.signedIn /\ ~j.fresh /\ AtSignIn(j))
  BY DEF Fails, Without
<1>2. /\ StreamFine(tab, jobs, runs, log, past) /\ PageFine(tab, runs) /\ tab \in TabRow
      /\ j \in JobRow /\ Shaped(j, runs, log) /\ JobsFine(tab, jobs, runs, log) /\ Known(j.back, runs)
      /\ j.fresh => tab.signedIn
      /\ j.owned => j.fresh
  BY JobIs DEF StreamInv, StreamFine, PageFine
<1>3. past \subseteq past' /\ (Calm(past') => Calm(past))
  BY <1>1 DEF Notes, Calm
<1>4. Calm(past') => ~(tab.signedIn /\ ~j.fresh /\ AtSignIn(j))
  BY <1>1 DEF Notes, Calm
<1>5. CASE tab' = tab
  <2>1. PageFine(tab', runs)
    BY <1>2, <1>5
  <2>2. Calm(past') => Alone(tab', jobs')
    BY <1>1, <1>2, <1>3, <1>5, AloneStill DEF StreamFine
  <2> QED BY <1>1, <1>3, <1>5, <2>1, <2>2, LeavesFine
<1>6. CASE j.aim = "view"
  <2>1. CASE ~(j.kind = "reconnect" /\ (Owns(j) \/ j.pc # "status"))
    BY <1>1, <1>5, <1>6, <2>1, FailedIs
  <2>2. CASE j.kind = "reconnect" /\ (Owns(j) \/ j.pc # "status")
    <3>1. tab' = Reinstated(tab, j)
      BY <1>1, <1>6, <2>2, FailedIs
    <3>2. CASE ~AtSignIn(j)
      BY <1>5, <3>1, <3>2 DEF Reinstated
    <3>3. CASE AtSignIn(j)
      BY <1>1, <1>3, <1>4, <1>6, <2>2, <3>1, <3>3, ReconnectFails
    <3> QED BY <3>2, <3>3
  <2> QED BY <2>1, <2>2
<1>7. CASE j.aim = "final"
  <2>1. j.kind \in {"stream", "reconnect"}
    BY <1>2, <1>7 DEF Shaped, JobRow
  <2> DEFINE q == Paused(FinalOf(j))
  <2>2. CASE Owns(j)
    <3>1. tab' = Settled(q, j)
      <4>1. Failed(j) = Settled(IF Owns(j) THEN q ELSE tab, j)
        BY <1>7, FailedIs
      <4> HIDE DEF q
      <4> QED BY <1>1, <2>2, <4>1
    <3>2. /\ q \in TabRow /\ q.signedIn = tab.signedIn /\ q.gen = tab.gen /\ q.known = tab.known
          /\ q.cursor = tab.cursor /\ q.output = tab.output /\ q.back = tab.back /\ q.final = tab.final
      BY <1>2, PausedIs
    <3> HIDE DEF q
    <3>3. PICK back \in {q.back, Nobody} : tab' = [q EXCEPT !.back = back] /\ tab' \in TabRow
      BY <3>1, <3>2, SettledIs
    <3>4. /\ tab'.signedIn = tab.signedIn /\ tab'.gen = tab.gen /\ tab'.known = tab.known
          /\ tab'.cursor = tab.cursor /\ tab'.output = tab.output /\ tab'.back \in {tab.back, Nobody}
          /\ tab'.final = tab.final
      BY <3>2, <3>3 DEF TabRow
    <3>5. PageFine(tab', runs)
      BY <1>2, <3>3, <3>4 DEF PageFine, Known
    <3>6. Calm(past') => Alone(tab', jobs')
      <4> SUFFICES ASSUME Calm(past') PROVE Alone(tab', jobs')
        OBVIOUS
      <4>1. Alone(tab, jobs)
        BY <1>2, <1>3 DEF StreamFine
      <4>2. Views(j) /\ tab.signedIn
        BY <2>1, <2>2 DEF Views, Owns
      <4>3. Alone(tab', jobs \ {j})
        BY <1>2, <2>1, <3>4, <4>1, <4>2, LeavesToSend
      <4> QED BY <1>1, <4>3
    <3>7. jobs' \subseteq jobs
      BY <1>1
    <3> QED BY <1>1, <1>3, <3>4, <3>5, <3>6, <3>7, EndsFine
  <2>3. CASE ~Owns(j)
    <3>1. tab' = Settled(tab, j)
      <4>1. Failed(j) = Settled(IF Owns(j) THEN q ELSE tab, j)
        BY <1>7, FailedIs
      <4> HIDE DEF q
      <4> QED BY <1>1, <2>3, <4>1
    <3>2. ~j.owned
      BY <1>2, <2>3 DEF Owns
    <3>3. PICK back \in {tab.back, Nobody} :
            /\ tab' = [tab EXCEPT !.back = back] /\ tab' \in TabRow
            /\ ~(j.clears /\ j.fresh /\ tab.signedIn) => back = tab.back
      BY <1>2, <3>1, SettledIs
    <3>4. /\ tab'.signedIn = tab.signedIn /\ tab'.gen = tab.gen /\ tab'.known = tab.known
          /\ tab'.cursor = tab.cursor /\ tab'.output = tab.output /\ tab'.back = back
          /\ tab'.final = tab.final /\ tab'.resume = tab.resume
      BY <1>2, <3>3 DEF TabRow
    <3>5. PageFine(tab', runs)
      BY <1>2, <3>3, <3>4 DEF PageFine, Known
    <3>6. Calm(past') => Alone(tab', jobs')
      <4> SUFFICES ASSUME Calm(past') PROVE Alone(tab', jobs')
        OBVIOUS
      <4>1. Alone(tab, jobs)
        BY <1>2, <1>3 DEF StreamFine
      <4>2. ~j.fresh
        BY <2>1, <3>2, <4>1 DEF Alone, Keeps
      <4>3. tab'.back = tab.back /\ jobs' \subseteq jobs
        BY <1>1, <3>3, <3>4, <4>2
      <4> QED BY <3>4, <4>1, <4>3, AloneStill
    <3>7. jobs' \subseteq jobs /\ tab'.back \in {tab.back, Nobody}
      BY <1>1, <3>3, <3>4
    <3> QED BY <1>1, <1>3, <3>4, <3>5, <3>6, <3>7, EndsFine
  <2> QED BY <2>2, <2>3
<1>8. CASE j.aim = "refresh"
  <2>1. j.kind \in {"stream", "stop"} /\ j.gen \in Turns /\ (j.kind = "stream" => j.owned)
    BY <1>2, <1>8 DEF Shaped, JobRow, Of
  <2>2. Owns(j) \/ j.kind = "stop"
    BY <1>2, <2>1 DEF Owns
  <2> DEFINE st == runs[j.gen].status
             q == [tab EXCEPT !.status = st, !.resume = FALSE]
  <2>3. tab' = Settled(q, j)
    BY <1>1, <1>8, FailedIs
  <2>4. st \in Statuses
    BY <2>1, ServerIs DEF StreamInv, RunRow
  <2> HIDE DEF st
  <2>5. /\ q \in TabRow /\ q.signedIn = tab.signedIn /\ q.gen = tab.gen /\ q.known = tab.known
        /\ q.cursor = tab.cursor /\ q.output = tab.output /\ q.back = tab.back /\ ~q.resume
        /\ q.final = tab.final
    BY <1>2, <2>4 DEF TabRow
  <2> HIDE DEF q
  <2> QED BY <1>1, <1>3, <1>8, <2>2, <2>3, <2>5, RefreshEnds
<1>9. j.aim \in {"view", "final", "refresh"}
  BY <1>2 DEF JobRow
<1> QED BY <1>6, <1>7, <1>8, <1>9

LEMMA ListedFine ==
  ASSUME StreamInv, NEW j \in jobs, Listed(j)
  PROVE  StreamInv'
<1>1. UNCHANGED ledgers /\ tab' = tab /\ past' = past /\ j.pc = "list"
  BY DEF Listed
<1>2. /\ StreamFine(tab, jobs, runs, log, past) /\ PageFine(tab, runs) /\ tab \in TabRow
      /\ j \in JobRow /\ Shaped(j, runs, log) /\ JobsFine(tab, jobs, runs, log)
  BY JobIs DEF StreamInv, StreamFine, PageFine
<1>3. j.kind = "list" /\ ~j.clears
  BY <1>1, <1>2 DEF Shaped, JobRow
<1>4. CASE jobs' = jobs \ {j}
  <2>1. PageFine(tab', runs) /\ jobs' \subseteq jobs
    BY <1>1, <1>2, <1>4
  <2>2. Calm(past') => Alone(tab', jobs')
    BY <1>1, <1>2, <2>1, AloneStill DEF StreamFine
  <2> QED BY <1>1, <2>1, <2>2, LeavesFine
<1>5. ASSUME NEW t \in Threads, Owns(j), Becomes(j, Opener(t, FALSE))
      PROVE  StreamInv'
  <2> DEFINE i == Opener(t, FALSE)
  <2>1. jobs' = (jobs \ {j}) \cup {i}
    BY <1>5 DEF Becomes, Without
  <2>2. /\ i \in JobRow /\ i.kind = "open" /\ i.pc = "before" /\ i.thread = t /\ i.gen = Nobody
        /\ i.owned /\ i.fresh /\ ~i.busy /\ ~i.clears /\ i.aim = "view"
        /\ i.before = Nobody /\ i.back = Nobody
    BY DEF Opener, NoJob, JobRow, ThreadRef, TurnRef
  <2> HIDE DEF i
  <2>3. j.owned /\ j.fresh /\ tab.signedIn
    BY <1>5 DEF Owns
  <2>4. JobFine(tab, i, runs, log)
    BY <2>2, <2>3 DEF JobFine, Shaped, Known
  <2>5. Calm(past) => /\ \A k \in jobs \ {j} : ~Views(k) /\ Keeps(k)
                      /\ Keeps(i) /\ Beside(tab', i)
    <3> SUFFICES ASSUME Calm(past)
                 PROVE (\A k \in jobs \ {j} : ~Views(k) /\ Keeps(k)) /\ Keeps(i) /\ Beside(tab', i)
      OBVIOUS
    <3>1. Alone(tab, jobs) /\ Views(j)
      BY <1>2, <1>3, <2>3 DEF StreamFine, Views
    <3>2. \A k \in jobs \ {j} : ~Views(k) /\ Keeps(k)
      BY <1>3, <3>1, OthersWait DEF Rereads
    <3>3. Beside(tab, j)
      BY <3>1, SharesView
    <3>4. tab.back = Nobody /\ ~tab.resume
      BY <1>3, <3>1, <3>3 DEF Beside
    <3> QED BY <1>1, <2>2, <3>2, <3>4 DEF Keeps, Beside, Tracks
  <2>6. Calm(past) /\ "blind" \notin past' /\ Going(tab'.gen, tab'.known, runs) =>
          Journal(tab.output, tab.cursor, tab'.gen, runs)
    BY <1>1, <1>2, <2>3 DEF StreamFine, Texts
  <2>7. PageFine(tab', runs) /\ past \subseteq past'
    BY <1>1, <1>2
  <2> QED BY <1>1, <2>1, <2>2, <2>3, <2>4, <2>5, <2>6, <2>7, HandsOn
<1>6. \A t \in IF j.thread \in Kept THEN {j.thread} ELSE Kept : t \in Threads
  BY DEF Kept
<1> QED BY <1>4, <1>5, <1>6 DEF Listed, Without

-----------------------------------------------------------------------------
(* A turn that is accepted, and one that is stopped.                        *)

LEMMA SentFine ==
  ASSUME StreamInv, NEW j \in jobs, NEW g \in Turns, Sent(j, g)
  PROVE  StreamInv'
<1>1. /\ j.pc = "start" /\ j.fresh /\ Begun(j.thread, g) /\ past' = past
  BY DEF Sent
<1>2. PICK pictures \in BOOLEAN :
        LET p == IF pictures THEN Rendered(tab, j.thread, Snap(j.thread)) ELSE tab IN
        Attached([p EXCEPT !.gen = g, !.known = "in_progress", !.cursor = 0, !.output = << >>,
                           !.shown = IF p.thread = j.thread THEN Append(@, Prompt(g)) ELSE @],
                 j, g, 0, << >>)
  BY DEF Sent
<1>3. /\ StreamFine(tab, jobs, runs, log, past) /\ Serving(runs, log, live) /\ tab \in TabRow
      /\ j \in JobRow /\ Shaped(j, runs, log)
      /\ JobsFine(tab, jobs, runs, log) /\ runs \in [Turns -> RunRow] /\ log \in [Threads -> Ledger]
  BY JobIs, ServerIs DEF StreamInv, StreamFine
<1>4. /\ j.kind = "send" /\ j.thread \in Threads /\ j.owned /\ tab.signedIn /\ ~j.clears /\ j.aim = "view"
      /\ Views(j)
  BY <1>1, <1>3, JobIs DEF Shaped, JobRow, Views
<1>5. /\ Serving(runs', log', live') /\ Grows(runs, runs') /\ Lengthens(log, log')
      /\ Of(g, j.thread, runs') /\ runs'[g].status = "in_progress"
  BY <1>1, <1>3, <1>4, BegunServes
<1>6. Used(g, runs') /\ runs' \in [Turns -> RunRow]
  BY <1>4, <1>5, NobodyIs DEF Of, Used, Serving
<1>7. StreamFine(tab, jobs, runs', log', past)
  BY <1>3, <1>5, <1>6, PagesStay
<1> DEFINE r == IF pictures THEN Rendered(tab, j.thread, Snap(j.thread)) ELSE tab
           sh == IF r.thread = j.thread THEN Append(r.shown, Prompt(g)) ELSE r.shown
           p == [r EXCEPT !.gen = g, !.known = "in_progress", !.cursor = 0, !.output = << >>, !.shown = sh]
           i == [j EXCEPT !.kind = "stream", !.pc = "events", !.gen = g, !.before = Nobody]
           js == {k \in jobs \ {j} : k.kind # "stream"}
<1>8. tab' = Attach(p, g, 0, << >>) /\ jobs' = js \cup {i}
  BY <1>2 DEF Attached, Without
<1>9. /\ r \in TabRow /\ r.signedIn = tab.signedIn /\ r.back = tab.back /\ r.final \in {tab.final, Nobody}
  <2>1. Snap(j.thread).msgs \in Ledger
    BY <1>3, <1>4, SnapIs
  <2>2. CASE pictures
    <3> DEFINE q == Rendered(tab, j.thread, Snap(j.thread))
    <3>1. /\ q \in TabRow /\ q.signedIn = tab.signedIn /\ q.back = tab.back /\ q.final \in {tab.final, Nobody}
      <4>1. tab \in TabRow /\ j.thread \in Threads /\ Snap(j.thread).msgs \in Ledger
        BY <1>3, <1>4, <2>1
      <4> QED BY <4>1, RenderedIs
    <3> HIDE DEF q
    <3>2. r = q
      BY <2>2 DEF q
    <3> QED BY <3>1, <3>2
  <2>3. CASE ~pictures
    BY <1>3, <2>3
  <2> QED BY <2>2, <2>3
<1> HIDE DEF r
<1>10. sh \in Ledger /\ << >> \in Seq(Turns \X Nat) /\ "in_progress" \in Statuses /\ g \in TurnRef
  <2>1. r.shown \in Seq(Message)
    BY <1>9 DEF TabRow, Ledger
  <2>2. Prompt(g) \in Message
    BY MessagesAre
  <2>3. Append(r.shown, Prompt(g)) \in Seq(Message)
    BY <2>1, <2>2, RangeIs
  <2> QED BY <2>1, <2>3 DEF Ledger, Statuses, TurnRef
<1> HIDE DEF sh
<1>11. /\ p \in TabRow /\ p.signedIn = r.signedIn /\ p.gen = g /\ p.cursor = 0 /\ p.output = << >>
       /\ p.back = r.back /\ p.final = r.final
  BY <1>9, <1>10 DEF TabRow
<1> HIDE DEF p
<1>12. /\ tab' \in TabRow /\ tab'.signedIn = tab.signedIn /\ tab'.gen = g /\ tab'.known = "in_progress"
       /\ tab'.final \in {tab.final, Nobody} /\ tab'.back = tab.back /\ ~tab'.resume
       /\ tab'.output = << >> /\ tab'.cursor = 0
  <2> DEFINE a == Attach(p, g, 0, << >>)
  <2>1. /\ a \in TabRow /\ a.signedIn = p.signedIn /\ a.gen = g /\ a.known = "in_progress"
        /\ a.final = p.final /\ a.back = p.back /\ ~a.resume
        /\ a.output = p.output /\ a.cursor = IF p.cursor > 0 THEN p.cursor ELSE 0
    <3>1. p \in TabRow /\ p.gen = g /\ 0 \in Nat
      BY <1>11
    <3> QED BY <3>1, AttachIs
  <2> HIDE DEF a
  <2>2. tab' = a
    BY <1>8 DEF a
  <2> QED BY <1>9, <1>11, <2>1, <2>2
<1>13. PageFine(tab', runs')
  <2>1. PageFine(tab, runs')
    BY <1>7 DEF StreamFine
  <2> QED BY <1>6, <1>12, <2>1 DEF PageFine
<1>14. /\ i \in JobRow /\ i.kind = "stream" /\ i.pc = "events" /\ i.thread = j.thread /\ i.gen = g
       /\ i.owned /\ i.fresh /\ ~i.clears /\ i.aim = "view"
       /\ i.before = Nobody /\ i.back = j.back
  BY <1>1, <1>3, <1>4, <1>10 DEF JobRow
<1> HIDE DEF i
<1>15. JobFine(tab, i, runs', log')
  <2>1. Known(i.back, runs')
    <3>1. JobFine(tab, j, runs', log')
      BY <1>7 DEF StreamFine, JobsFine
    <3> QED BY <1>14, <3>1 DEF JobFine, Shaped
  <2> QED BY <1>4, <1>5, <1>6, <1>14, <2>1 DEF JobFine, Shaped
<1>16. Calm(past) => /\ \A k \in js : ~Views(k) /\ Keeps(k)
                     /\ i.clears <=> tab.back # Nobody
                     /\ i.clears => i.back = tab.back
  <2> SUFFICES ASSUME Calm(past)
               PROVE  /\ \A k \in js : ~Views(k) /\ Keeps(k)
                      /\ i.clears <=> tab.back # Nobody
    BY <1>14
  <2>1. Alone(tab, jobs)
    BY <1>3 DEF StreamFine
  <2>2. Beside(tab, j)
    BY <2>1, SharesView
  <2>3. ASSUME NEW k \in js PROVE ~Views(k) /\ Keeps(k)
    BY <1>4, <2>1, <2>3 DEF Alone, Pair, Rereads
  <2> QED BY <1>4, <1>14, <2>2, <2>3 DEF Beside
<1>17. Journal(tab'.output, tab'.cursor, g, runs')
  BY <1>6, <1>12, Anew
<1>18. js \subseteq jobs /\ past \subseteq past'
  BY <1>1
<1> HIDE DEF js
<1>19. StreamFine(tab', jobs', runs', log', past')
  BY <1>6, <1>7, <1>8, <1>12, <1>13, <1>14, <1>15, <1>16, <1>17, <1>18, StreamStarts
<1> QED BY <1>5, <1>19 DEF StreamInv

LEMMA CancelledFine ==
  ASSUME StreamInv, NEW j \in jobs, Cancelled(j)
  PROVE  StreamInv'
<1> DEFINE g == j.gen
           kept == {k \in jobs \ {j} : k.kind # "stream"}
           b == IF \E k \in Streaming : k.clears THEN Nobody ELSE tab.back
           i == [j EXCEPT !.pc = "before", !.aim = "refresh", !.owned = TRUE, !.fresh = TRUE]
<1>1. /\ j.pc = "cancel" /\ runs[g].status = "in_progress" /\ Ended(g, "cancelled") /\ log' = log
      /\ IF tab.signedIn
         THEN /\ tab' = [tab EXCEPT !.gen = g, !.known = "cancelled", !.back = b]
              /\ jobs' = kept \cup {i}
         ELSE /\ tab' = [[tab EXCEPT !.gen = g, !.known = "cancelled", !.back = b]
                            EXCEPT !.status = "cancelled", !.resume = FALSE]
              /\ jobs' = kept
      /\ past \subseteq past'
  BY DEF Cancelled, Without, Notes
<1>2. /\ StreamFine(tab, jobs, runs, log, past) /\ Serving(runs, log, live) /\ tab \in TabRow
      /\ j \in JobRow /\ Shaped(j, runs, log) /\ runs \in [Turns -> RunRow]
      /\ (Calm(past') => Calm(past))
  BY <1>1, JobIs, ServerIs DEF StreamInv, StreamFine, Calm
<1>3. j.kind = "stop" /\ j.thread \in Threads /\ Of(g, j.thread, runs) /\ g \in Turns /\ ~j.busy /\ ~j.clears
  BY <1>1, <1>2 DEF Shaped, JobRow, Of
<1>4. /\ Serving(runs', log', live') /\ Grows(runs, runs') /\ Lengthens(log, log')
      /\ runs'[g].thread = runs[g].thread /\ runs'[g].status = "cancelled"
  <2>1. "cancelled" \in {"completed", "failed", "cancelled"} /\ "cancelled" # "completed"
    OBVIOUS
  <2>2. Serving(runs, log, live) /\ g \in Turns /\ runs[g].status = "in_progress" /\ Ended(g, "cancelled")
        /\ log' = log
    BY <1>1, <1>2, <1>3
  <2> HIDE DEF g
  <2> QED BY <2>1, <2>2, EndedServes
<1>5. runs' \in [Turns -> RunRow] /\ Of(g, j.thread, runs') /\ Used(g, runs')
  BY <1>3, <1>4, NobodyIs DEF Serving, Of, Used
<1>6. StreamFine(tab, jobs, runs', log', past)
  BY <1>2, <1>4, <1>5, PagesStay
<1>7. JobsFine(tab, jobs, runs', log') /\ PageFine(tab, runs')
      /\ (Calm(past') => Alone(tab, jobs) /\ Tells(tab, jobs, runs'))
      /\ (Calm(past') /\ "blind" \notin past' => Texts(tab, jobs, runs'))
  BY <1>1, <1>2, <1>6 DEF StreamFine
<1>8. kept \subseteq jobs /\ \A k \in kept : k.kind # "stream"
  OBVIOUS
<1>9. CASE ~tab.signedIn
  <2>1. /\ tab' = [[tab EXCEPT !.gen = g, !.known = "cancelled", !.back = b]
                      EXCEPT !.status = "cancelled", !.resume = FALSE]
        /\ jobs' = kept
    BY <1>1, <1>9
  <2>2. b = tab.back \/ b = Nobody
    OBVIOUS
  <2> HIDE DEF b, kept
  <2>3. /\ tab' \in TabRow /\ ~tab'.signedIn /\ tab'.gen = g /\ tab'.back = b
        /\ tab'.cursor = tab.cursor /\ tab'.output = tab.output /\ tab'.final = tab.final
    <3>1. /\ b \in Descriptor \cup {Nobody} /\ g \in TurnRef
          /\ "cancelled" \in Statuses
      BY <1>2, <1>3, <2>2 DEF TabRow, TurnRef, Statuses
    <3> HIDE DEF g
    <3> QED BY <1>2, <1>9, <2>1, <3>1 DEF TabRow
  <2>4. PageFine(tab', runs')
    BY <1>5, <1>7, <2>2, <2>3 DEF PageFine, Known
  <2>5. JobsFine(tab', jobs', runs', log') /\ Backs(tab, jobs, jobs')
    BY <1>7, <1>8, <1>9, <2>1, <2>3 DEF JobsFine, JobFine, Backs
  <2>6. Alone(tab', jobs')
    <3>1. \A k \in jobs' : ~Views(k) /\ Keeps(k)
      BY <2>3, <2>5 DEF JobsFine, JobFine, Views, Keeps
    <3> QED BY <3>1, AloneNone
  <2>7. Calm(past') => Tells(tab', jobs', runs')
    BY <1>7, <2>2, <2>3, <2>5, TellsKept
  <2>8. Calm(past') /\ "blind" \notin past' => Texts(tab', jobs', runs')
    BY <1>7, <2>2, <2>3, <2>5 DEF Texts, Good, Backs
  <2>9. StreamFine(tab', jobs', runs', log', past')
    BY <2>4, <2>5, <2>6, <2>7, <2>8 DEF StreamFine
  <2> QED BY <1>4, <2>9 DEF StreamInv
<1>10. CASE tab.signedIn
  <2>1. tab' = [tab EXCEPT !.gen = g, !.known = "cancelled", !.back = b] /\ jobs' = kept \cup {i}
    BY <1>1, <1>10
  <2>2. /\ i \in JobRow /\ i.kind = "stop" /\ i.pc = "before" /\ i.thread = j.thread /\ i.gen = g
        /\ i.owned /\ i.fresh /\ ~i.busy /\ ~i.clears /\ i.aim = "refresh"
        /\ i.before = j.before /\ i.back = j.back
    BY <1>2, <1>3 DEF JobRow
  <2> HIDE DEF i
  <2>3. (b = tab.back \/ b = Nobody) /\ (b # tab.back => \E k \in jobs : k.kind = "stream" /\ k.clears)
    BY DEF Streaming
  <2> HIDE DEF b
  <2>4. /\ tab' \in TabRow /\ tab'.signedIn /\ tab'.gen = g /\ tab'.known = "cancelled" /\ tab'.back = b
        /\ tab'.cursor = tab.cursor /\ tab'.output = tab.output /\ tab'.resume = tab.resume
        /\ tab'.final = tab.final
    <3>1. b \in Descriptor \cup {Nobody} /\ g \in TurnRef /\ "cancelled" \in Statuses
      BY <1>2, <1>3, <2>3 DEF TabRow, TurnRef, Statuses
    <3> HIDE DEF g
    <3> QED BY <1>2, <1>10, <2>1, <3>1 DEF TabRow
  <2>5. PageFine(tab', runs')
    BY <1>5, <1>7, <2>3, <2>4 DEF PageFine, Known
  <2>6. JobFine(tab', i, runs', log')
    <3>1. JobFine(tab, j, runs', log')
      BY <1>7 DEF JobsFine
    <3>2. Known(i.back, runs') /\ (i.before # Nobody => Range(i.before.msgs) \subseteq Range(log'[i.thread]))
      BY <2>2, <3>1 DEF JobFine, Shaped
    <3>3. i.thread \in Threads /\ Of(i.gen, i.thread, runs') /\ Used(i.gen, runs')
          /\ runs'[i.gen].status = "cancelled"
      BY <1>3, <1>4, <1>5, <2>2
    <3>4. Shaped(i, runs', log')
      BY <2>2, <3>2, <3>3 DEF Shaped
    <3> QED BY <2>2, <2>4, <3>4 DEF JobFine
  <2>7. JobsFine(tab', jobs', runs', log')
    BY <1>7, <1>8, <2>1, <2>4, <2>6 DEF JobsFine, JobFine
  <2>8. Backs(tab, jobs, jobs')
    BY <1>8, <2>1, <2>2 DEF Backs
  <2>9. Calm(past') => Alone(tab', jobs')
    <3> SUFFICES ASSUME Calm(past') PROVE Alone(tab', jobs')
      OBVIOUS
    <3>1. Alone(tab, jobs)
      BY <1>7
    <3>2. ~Views(i) /\ Keeps(i) /\ Beside(tab', i)
      BY <2>2 DEF Views, Keeps, Beside
    <3>3. ASSUME NEW k \in kept, Views(k)
          PROVE  Beside(tab', k)
      <4>1. k \in jobs /\ Beside(tab, k) /\ k.kind # "stream"
        BY <1>8, <3>1, <3>3 DEF Alone
      <4>2. b = tab.back
        <5> SUFFICES ASSUME b # tab.back PROVE FALSE
          OBVIOUS
        <5>1. PICK l \in jobs : l.kind = "stream" /\ l.clears
          BY <2>3
        <5>2. JobFine(tab, l, runs', log') /\ JobFine(tab, k, runs', log')
          BY <1>7, <4>1 DEF JobsFine
        <5>3. Views(l)
          BY <5>1, <5>2 DEF JobFine, Shaped, Views
        <5>4. Beside(tab, l) /\ (k = l \/ Pair(k, l) \/ Pair(l, k))
          BY <3>1, <3>3, <4>1, <5>3 DEF Alone
        <5>5. k.kind = "send"
          BY <4>1, <5>1, <5>4 DEF Pair
        <5>6. ~k.clears
          BY <5>2, <5>5 DEF JobFine, Shaped
        <5>7. tab.back = Nobody
          BY <3>3, <4>1, <5>6 DEF Beside
        <5> QED BY <5>1, <5>3, <5>4, <5>7 DEF Beside
      <4> QED BY <2>4, <3>3, <4>1, <4>2 DEF Beside, On, Tracks
    <3>4. \A k \in jobs' : Keeps(k) /\ Beside(tab', k)
      <4>1. \A k \in kept : ~Views(k) => Beside(tab', k)
        BY DEF Beside
      <4>2. \A k \in kept : Keeps(k)
        BY <1>8, <3>1 DEF Alone
      <4> QED BY <2>1, <3>2, <3>3, <4>1, <4>2
    <3>5. \A k, l \in jobs' : Views(k) /\ Views(l) => k = l \/ Pair(k, l) \/ Pair(l, k)
      BY <1>8, <2>1, <3>1, <3>2 DEF Alone
    <3> QED BY <2>4, <3>4, <3>5 DEF Alone
  <2>10. Calm(past') => Tells(tab', jobs', runs')
    <3>1. tab'.known # "completed"
      BY <2>4
    <3> QED BY <1>7, <2>3, <2>4, <2>8, <3>1, TellsKept
  <2>11. Calm(past') /\ "blind" \notin past' => Texts(tab', jobs', runs')
    <3>1. ~Going(tab'.gen, tab'.known, runs')
      BY <1>4, <2>4 DEF Going
    <3> QED BY <1>7, <1>10, <2>3, <2>4, <2>8, <3>1, TextsKept
  <2>12. StreamFine(tab', jobs', runs', log', past')
    BY <2>5, <2>7, <2>9, <2>10, <2>11 DEF StreamFine
  <2> QED BY <1>4, <2>12 DEF StreamInv
<1> QED BY <1>9, <1>10

-----------------------------------------------------------------------------
(* The user moves on.                                                       *)

LEMMA NotLocked ==
  ASSUME StreamInv, ~Locked
  PROVE  /\ \A k \in jobs : ~k.busy /\ ~(k.kind = "open" /\ k.owned)
         /\ tab.final = Nobody /\ tab.back = Nobody
         /\ Calm(past) => \A k \in jobs : Keeps(k) /\ Beside(tab, k) /\ (Views(k) => k.kind \in {"list", "stream"})
<1>1. /\ \A k \in jobs : ~k.busy /\ ~(k.kind = "open" /\ k.owned)
      /\ tab.final = Nobody /\ tab.back = Nobody
  BY DEF Locked, Busy, Restoring
<1>2. ASSUME Calm(past), NEW k \in jobs
      PROVE  Keeps(k) /\ Beside(tab, k) /\ (Views(k) => k.kind \in {"list", "stream"})
  <2>1. Keeps(k) /\ Beside(tab, k)
    BY <1>2 DEF StreamInv, StreamFine, Alone
  <2>2. k \in JobRow /\ Shaped(k, runs, log)
    BY JobIs
  <2>3. k.kind \in {"list", "open", "send", "stream", "reconnect", "stop"}
    BY <2>2 DEF JobRow
  <2>4. ASSUME Views(k) PROVE k.kind \in {"list", "stream"}
    BY <1>1, <2>1, <2>2, <2>3, <2>4 DEF Shaped, Beside, Views
  <2> QED BY <2>1, <2>4
<1> QED BY <1>1, <1>2

LEMMA Moves ==
  ASSUME StreamInv, UNCHANGED ledgers, UNCHANGED past, ~Locked, tab.signedIn,
         NEW ks, \A i, k \in ks : i = k,
         \A i \in ks : /\ JobFine(tab, i, runs, log) /\ i.back = Nobody
                       /\ Keeps(i) /\ Beside(tab', i),
         jobs' = Disowned(jobs) \cup ks,
         tab' \in TabRow, tab'.signedIn, tab'.back = tab.back, tab'.final = tab.final,
         \/ tab'.gen = tab.gen /\ tab'.known = tab.known /\ tab'.cursor = tab.cursor /\ tab'.output = tab.output
         \/ tab'.gen = Nobody /\ tab'.cursor = 0 /\ tab'.output = << >>
  PROVE  StreamInv'
<1>1. /\ StreamFine(tab, jobs, runs, log, past) /\ PageFine(tab, runs) /\ JobsFine(tab, jobs, runs, log)
      /\ runs \in [Turns -> RunRow]
  BY ServerIs DEF StreamInv, StreamFine
<1>2. /\ \A k \in jobs : ~k.busy /\ ~(k.kind = "open" /\ k.owned)
      /\ tab.final = Nobody /\ tab.back = Nobody
      /\ (Calm(past) =>
            \A k \in jobs : Keeps(k) /\ Beside(tab, k) /\ (Views(k) => k.kind \in {"list", "stream"}))
  BY NotLocked
<1>3. /\ JobsFine(tab, Disowned(jobs), runs, log) /\ Backs(tab, jobs, Disowned(jobs))
      /\ \A k \in Disowned(jobs) : /\ ~k.owned
                                   /\ \E i \in jobs : Outlives(i) /\ k.kind = i.kind /\ k.fresh = i.fresh
  <2>1. JobsFine(tab, jobs, runs, log) /\ \A k \in jobs : ~k.busy
    BY <1>1, <1>2
  <2> QED BY <2>1, DisownedIs
<1>4. JobsFine(tab', jobs', runs, log) /\ Backs(tab, jobs, jobs') /\ PageFine(tab', runs)
  <2>1. JobsFine(tab', jobs', runs, log)
    BY <1>3 DEF JobsFine, JobFine
  <2>2. Backs(tab, jobs, jobs')
    BY <1>3 DEF Backs
  <2>3. PageFine(tab', runs)
    BY <1>1 DEF PageFine
  <2> QED BY <2>1, <2>2, <2>3
<1>5. Calm(past) => Alone(tab', jobs')
  <2> SUFFICES ASSUME Calm(past) PROVE Alone(tab', jobs')
    OBVIOUS
  <2>1. ASSUME NEW k \in Disowned(jobs)
        PROVE  ~Views(k) /\ Keeps(k)
    <3>1. PICK i \in jobs : Outlives(i) /\ k.kind = i.kind /\ k.fresh = i.fresh
      BY <1>3
    <3>2. ~k.owned
      BY <1>3
    <3>3. i.kind \notin {"list", "stream"}
      BY <1>2, <3>1 DEF Outlives
    <3>4. ~Views(i) /\ Keeps(i)
      BY <1>2, <3>3
    <3> QED BY <3>1, <3>2, <3>4 DEF Views, Keeps
  <2>2. CASE ks = {}
    <3>1. \A k \in jobs' : ~Views(k) /\ Keeps(k)
      BY <2>1, <2>2
    <3> QED BY <3>1, AloneNone
  <2>3. ASSUME NEW i \in ks
        PROVE  Alone(tab', jobs')
    <3>1. \A k \in jobs' : k = i \/ (~Views(k) /\ Keeps(k))
      BY <2>1, <2>3
    <3>2. Keeps(i) /\ Beside(tab', i)
      BY <2>3
    <3> QED BY <3>1, <3>2, AloneOne
  <2> QED BY <2>2, <2>3
<1>6. Calm(past) => Tells(tab', jobs', runs)
  <2> SUFFICES ASSUME Calm(past) PROVE Tells(tab', jobs', runs)
    OBVIOUS
  <2>1. Tells(tab, jobs, runs)
    BY <1>1 DEF StreamFine
  <2>2. tab'.signedIn /\ tab'.gen # Nobody /\ tab'.known = "completed" => runs[tab'.gen].status = "completed"
    BY <2>1 DEF Tells
  <2> QED BY <1>4, <2>1, <2>2, TellsKept
<1>7. Calm(past) /\ "blind" \notin past => Texts(tab', jobs', runs)
  <2> SUFFICES ASSUME Calm(past), "blind" \notin past PROVE Texts(tab', jobs', runs)
    OBVIOUS
  <2>1. Texts(tab, jobs, runs)
    BY <1>1 DEF StreamFine
  <2>2. CASE tab'.gen = tab.gen /\ tab'.known = tab.known /\ tab'.cursor = tab.cursor /\ tab'.output = tab.output
    <3>1. Going(tab'.gen, tab'.known, runs) => Journal(tab.output, tab.cursor, tab'.gen, runs)
      BY <2>1, <2>2 DEF Texts
    <3> QED BY <1>4, <2>1, <2>2, <3>1, TextsKept
  <2>3. CASE tab'.gen = Nobody /\ tab'.cursor = 0 /\ tab'.output = << >>
    <3>1. tab'.gen \in TurnRef /\ tab'.back = Nobody
      BY <1>2, <2>3 DEF TurnRef
    <3> QED BY <1>1, <1>4, <2>1, <2>3, <3>1, TextsAnew
  <2> QED BY <2>2, <2>3
<1>8. StreamFine(tab', jobs', runs, log, past')
  BY <1>4, <1>5, <1>6, <1>7 DEF StreamFine
<1> QED BY <1>8, StepFine DEF StreamInv

LEMMA OpenThreadFine ==
  ASSUME StreamInv, NEW t \in Threads, OpenThread(t)
  PROVE  StreamInv'
<1> DEFINE i == Opener(t, TRUE)
<1>1. /\ UNCHANGED ledgers /\ UNCHANGED past /\ ~Locked /\ tab.signedIn /\ tab' = tab
      /\ jobs' = Disowned(jobs) \cup {i}
  BY DEF OpenThread
<1>2. /\ i \in JobRow /\ i.kind = "open" /\ i.pc = "before" /\ i.thread = t /\ i.gen = Nobody
      /\ i.owned /\ i.fresh /\ i.busy /\ ~i.clears /\ i.aim = "view"
      /\ i.before = Nobody /\ i.back = Nobody
  BY DEF Opener, NoJob, JobRow, ThreadRef, TurnRef
<1> HIDE DEF i
<1>3. JobFine(tab, i, runs, log)
  BY <1>1, <1>2 DEF JobFine, Shaped, Known
<1>4. tab \in TabRow
  BY DEF StreamInv, StreamFine, PageFine
<1>5. Keeps(i) /\ Beside(tab', i)
  <2>1. tab.back = Nobody
    BY <1>1, NotLocked
  <2> QED BY <1>1, <1>2, <2>1 DEF Keeps, Beside, Tracks
<1> DEFINE ks == {i}
<1>6. /\ \A k, l \in ks : k = l
      /\ \A k \in ks : JobFine(tab, k, runs, log) /\ k.back = Nobody /\ Keeps(k) /\ Beside(tab', k)
      /\ jobs' = Disowned(jobs) \cup ks
  BY <1>1, <1>2, <1>3, <1>5
<1>7. /\ tab' \in TabRow /\ tab'.signedIn /\ tab'.back = tab.back /\ tab'.final = tab.final
      /\ tab'.gen = tab.gen /\ tab'.known = tab.known /\ tab'.cursor = tab.cursor /\ tab'.output = tab.output
  BY <1>1, <1>4
<1> HIDE DEF ks
<1> QED BY <1>1, <1>6, <1>7, Moves

LEMMA NewConversationFine ==
  ASSUME StreamInv, NewConversation
  PROVE  StreamInv'
<1>1. /\ UNCHANGED ledgers /\ UNCHANGED past /\ ~Locked /\ tab.signedIn
      /\ tab' = [Cleared(tab) EXCEPT !.thread = Nobody, !.gen = Nobody, !.cursor = 0, !.output = << >>]
      /\ jobs' = Disowned(jobs) \cup {}
  BY DEF NewConversation
<1> DEFINE c == Cleared(tab)
<1>2. c \in TabRow /\ c.signedIn /\ c.back = tab.back /\ c.final = tab.final
  <2>1. c \in TabRow /\ c.signedIn = tab.signedIn /\ c.back = tab.back /\ c.final = tab.final
    BY ClearedIs DEF StreamInv, StreamFine, PageFine
  <2> HIDE DEF c
  <2> QED BY <1>1, <2>1
<1>3. tab' = [c EXCEPT !.thread = Nobody, !.gen = Nobody, !.cursor = 0, !.output = << >>]
  BY <1>1
<1> HIDE DEF c
<1>4. /\ tab' \in TabRow /\ tab'.signedIn /\ tab'.back = tab.back /\ tab'.final = tab.final
      /\ tab'.gen = Nobody /\ tab'.cursor = 0 /\ tab'.output = << >>
  <2>1. << >> \in Seq(Turns \X Nat) /\ Nobody \in ThreadRef /\ Nobody \in TurnRef
    BY DEF ThreadRef, TurnRef
  <2> QED BY <1>2, <1>3, <2>1 DEF TabRow
<1> DEFINE ks == {}
<1>5. /\ \A k, l \in ks : k = l
      /\ \A k \in ks : JobFine(tab, k, runs, log) /\ k.back = Nobody /\ Keeps(k) /\ Beside(tab', k)
      /\ jobs' = Disowned(jobs) \cup ks
  BY <1>1
<1>6. UNCHANGED ledgers /\ UNCHANGED past /\ ~Locked /\ tab.signedIn
  BY <1>1
<1> HIDE DEF ks
<1> QED BY <1>4, <1>5, <1>6, Moves

LEMMA SwitchModesFine ==
  ASSUME StreamInv, SwitchModes
  PROVE  StreamInv'
<1> DEFINE i == Lister(tab.thread)
<1>1. /\ UNCHANGED ledgers /\ UNCHANGED past /\ ~Locked /\ tab.signedIn /\ tab' = Cleared(tab)
      /\ jobs' = Disowned(jobs) \cup {i}
  BY DEF SwitchModes
<1>2. tab \in TabRow
  BY DEF StreamInv, StreamFine, PageFine
<1>3. /\ tab' \in TabRow /\ tab'.signedIn /\ tab'.back = tab.back /\ tab'.final = tab.final
      /\ tab'.gen = tab.gen /\ tab'.known = tab.known /\ tab'.cursor = tab.cursor /\ tab'.output = tab.output
      /\ ~tab'.resume
  <2> DEFINE c == Cleared(tab)
  <2>1. /\ c \in TabRow /\ c.signedIn = tab.signedIn /\ c.back = tab.back /\ c.final = tab.final
        /\ c.gen = tab.gen /\ c.known = tab.known /\ c.cursor = tab.cursor /\ c.output = tab.output
        /\ ~c.resume
    BY <1>2, ClearedIs
  <2>2. tab' = c
    BY <1>1
  <2> HIDE DEF c
  <2> QED BY <1>1, <2>1, <2>2
<1>4. /\ i \in JobRow /\ i.kind = "list" /\ i.pc = "list" /\ i.gen = Nobody
      /\ i.owned /\ i.fresh /\ ~i.busy /\ ~i.clears /\ i.aim = "view"
      /\ i.before = Nobody /\ i.back = Nobody
  BY <1>2 DEF Lister, NoJob, JobRow, TabRow, TurnRef
<1> HIDE DEF i
<1>5. JobFine(tab, i, runs, log)
  BY <1>1, <1>4 DEF JobFine, Shaped, Known
<1>6. Keeps(i) /\ Beside(tab', i)
  <2>1. tab.back = Nobody
    BY <1>1, NotLocked
  <2> QED BY <1>3, <1>4, <2>1 DEF Keeps, Beside, Tracks
<1> DEFINE ks == {i}
<1>7. /\ \A k, l \in ks : k = l
      /\ \A k \in ks : JobFine(tab, k, runs, log) /\ k.back = Nobody /\ Keeps(k) /\ Beside(tab', k)
      /\ jobs' = Disowned(jobs) \cup ks
  BY <1>1, <1>4, <1>5, <1>6
<1>8. UNCHANGED ledgers /\ UNCHANGED past /\ ~Locked /\ tab.signedIn
  BY <1>1
<1> HIDE DEF ks
<1> QED BY <1>3, <1>7, <1>8, Moves

LEMMA SendTurnFine ==
  ASSUME StreamInv, NEW t \in Threads, SendTurn(t)
  PROVE  StreamInv'
<1> DEFINE pc == IF tab.thread = Nobody THEN "create" ELSE "start"
           s == [NoJob EXCEPT !.kind = "send", !.pc = pc, !.thread = t, !.busy = TRUE]
<1>1. /\ UNCHANGED ledgers /\ tab' = tab /\ ~Locked /\ ~Running /\ tab.signedIn
      /\ jobs' = jobs \cup {s}
      /\ Notes("barged", \E j \in jobs : j.kind = "list" /\ j.owned)
  BY DEF SendTurn, Starts
<1>2. past \subseteq past' /\ (Calm(past') => Calm(past) /\ \A j \in jobs : ~(j.kind = "list" /\ j.owned))
  BY <1>1 DEF Notes, Calm
<1>3. /\ StreamFine(tab, jobs, runs, log, past) /\ PageFine(tab, runs) /\ JobsFine(tab, jobs, runs, log)
      /\ tab \in TabRow
  BY DEF StreamInv, StreamFine, PageFine
<1>4. pc \in {"create", "start"}
  OBVIOUS
<1> HIDE DEF pc
<1>5. /\ s \in JobRow /\ s.kind = "send" /\ s.pc = pc /\ s.thread = t /\ s.gen = Nobody
      /\ s.owned /\ s.fresh /\ s.busy /\ ~s.clears /\ s.aim = "view"
      /\ s.before = Nobody /\ s.back = Nobody
  BY <1>4 DEF NoJob, JobRow, ThreadRef, TurnRef
<1> HIDE DEF s
<1>6. JobFine(tab, s, runs, log)
  BY <1>1, <1>4, <1>5 DEF JobFine, Shaped, Known
<1>7. JobsFine(tab', jobs', runs, log) /\ PageFine(tab', runs) /\ Backs(tab, jobs, jobs')
  BY <1>1, <1>3, <1>5, <1>6 DEF JobsFine, Backs
<1>8. Calm(past') => Alone(tab', jobs')
  <2> SUFFICES ASSUME Calm(past') PROVE Alone(tab', jobs')
    OBVIOUS
  <2>1. Alone(tab, jobs) /\ Calm(past)
    BY <1>2, <1>3 DEF StreamFine
  <2>2. tab.back = Nobody /\ \A k \in jobs : Views(k) => k.kind \in {"list", "stream"}
    BY <1>1, <2>1, NotLocked
  <2>3. ASSUME NEW k \in jobs, Views(k)
        PROVE  Rereads(k)
    <3>1. k.kind = "stream"
      BY <1>2, <2>2, <2>3 DEF Views
    <3>2. Beside(tab, k) /\ Shaped(k, runs, log) /\ k \in JobRow
      BY <2>1, JobIs, SharesView
    <3>3. ~Tracks(k)
      <4>1. k.gen # Nobody
        BY <3>1, <3>2, NobodyIs DEF Shaped, Of
      <4> QED BY <1>1, <2>3, <3>2, <4>1 DEF Beside, Running
    <3> QED BY <3>1, <3>2, <3>3 DEF Shaped, Tracks, Rereads
  <2>4. Keeps(s) /\ Beside(tab', s)
    BY <1>1, <1>5, <2>2 DEF Keeps, Beside, Tracks, On, Running
  <2>5. \A k \in jobs' : Keeps(k) /\ Beside(tab', k)
    BY <1>1, <2>1, <2>4 DEF Alone
  <2>6. \A k, l \in jobs' : Views(k) /\ Views(l) => k = l \/ Pair(k, l) \/ Pair(l, k)
    BY <1>1, <1>5, <2>1, <2>3 DEF Alone, Pair
  <2> QED BY <1>1, <2>5, <2>6 DEF Alone
<1>9. Calm(past') => Tells(tab', jobs', runs)
  <2> SUFFICES ASSUME Calm(past') PROVE Tells(tab', jobs', runs)
    OBVIOUS
  <2>1. Tells(tab, jobs, runs)
    BY <1>2, <1>3 DEF StreamFine
  <2> QED BY <1>1, <1>5, <2>1 DEF Tells, Told
<1>10. Calm(past') /\ "blind" \notin past' => Texts(tab', jobs', runs)
  <2> SUFFICES ASSUME Calm(past'), "blind" \notin past' PROVE Texts(tab', jobs', runs)
    OBVIOUS
  <2>1. Texts(tab, jobs, runs)
    BY <1>2, <1>3 DEF StreamFine
  <2> QED BY <1>1, <1>5, <2>1 DEF Texts, Good
<1>11. StreamFine(tab', jobs', runs, log, past')
  BY <1>7, <1>8, <1>9, <1>10 DEF StreamFine
<1> QED BY <1>1, <1>11, StepFine DEF StreamInv

-----------------------------------------------------------------------------
(* Resume.                                                                  *)

LEMMA NobodyViews ==
  ASSUME StreamInv, ~Busy, tab.resume, Calm(past)
  PROVE  \A k \in jobs : ~Views(k) /\ Keeps(k)
<1>1. ASSUME NEW k \in jobs PROVE ~Views(k) /\ Keeps(k)
  <2>1. Keeps(k) /\ Beside(tab, k)
    BY DEF StreamInv, StreamFine, Alone
  <2> QED BY <2>1 DEF Beside, Busy
<1> QED BY <1>1

(* A handler starts on a view that has none, the page as it was.            *)
LEMMA StartsAlone ==
  ASSUME StreamInv, UNCHANGED ledgers, UNCHANGED past, ~Busy, tab.resume,
         NEW i, JobFine(tab, i, runs, log), i.back \in {Nobody, tab.back}, Keeps(i), Beside(tab', i),
         NEW js, js \subseteq jobs, jobs' = js \cup {i},
         tab' \in TabRow, tab.signedIn, tab'.signedIn, tab'.back = tab.back, tab'.final = tab.final,
         tab'.gen = tab.gen, tab'.known = tab.known, tab'.cursor = tab.cursor, tab'.output = tab.output
  PROVE  StreamInv'
<1>1. /\ StreamFine(tab, jobs, runs, log, past) /\ PageFine(tab, runs) /\ JobsFine(tab, jobs, runs, log)
  BY DEF StreamInv, StreamFine
<1>2. JobsFine(tab', jobs', runs, log) /\ PageFine(tab', runs) /\ Backs(tab, jobs, jobs')
  BY <1>1 DEF JobsFine, JobFine, PageFine, Backs
<1>3. Calm(past) => Alone(tab', jobs')
  <2> SUFFICES ASSUME Calm(past) PROVE Alone(tab', jobs')
    OBVIOUS
  <2>1. \A k \in jobs' : k = i \/ (~Views(k) /\ Keeps(k))
    BY NobodyViews
  <2> QED BY <2>1, AloneOne
<1>4. Calm(past) => Tells(tab', jobs', runs)
  <2> SUFFICES ASSUME Calm(past) PROVE Tells(tab', jobs', runs)
    OBVIOUS
  <2>1. Tells(tab, jobs, runs)
    BY <1>1 DEF StreamFine
  <2>2. tab'.signedIn /\ tab'.gen # Nobody /\ tab'.known = "completed" => runs[tab'.gen].status = "completed"
    BY <2>1 DEF Tells
  <2> QED BY <1>2, <2>1, <2>2, TellsKept
<1>5. Calm(past) /\ "blind" \notin past => Texts(tab', jobs', runs)
  <2> SUFFICES ASSUME Calm(past), "blind" \notin past PROVE Texts(tab', jobs', runs)
    OBVIOUS
  <2>1. Texts(tab, jobs, runs)
    BY <1>1 DEF StreamFine
  <2>2. Going(tab'.gen, tab'.known, runs) => Journal(tab.output, tab.cursor, tab'.gen, runs)
    BY <2>1 DEF Texts
  <2> QED BY <1>2, <2>1, <2>2, TextsKept
<1>6. StreamFine(tab', jobs', runs, log, past')
  BY <1>2, <1>3, <1>4, <1>5 DEF StreamFine
<1> QED BY <1>6, StepFine DEF StreamInv

LEMMA ResumeViewFine ==
  ASSUME StreamInv, ResumeView
  PROVE  StreamInv'
<1>1. UNCHANGED ledgers /\ UNCHANGED past /\ ~Busy /\ tab.resume /\ tab.signedIn
  BY DEF ResumeView
<1>2. /\ StreamFine(tab, jobs, runs, log, past) /\ PageFine(tab, runs) /\ tab \in TabRow
      /\ runs \in [Turns -> RunRow]
  BY ServerIs DEF StreamInv, StreamFine, PageFine
<1>3. CASE /\ tab.back # Nobody /\ tab' = tab
           /\ Starts([NoJob EXCEPT !.kind = "reconnect", !.pc = "before", !.thread = tab.back.thread,
                                   !.busy = TRUE, !.clears = TRUE, !.back = tab.back])
  <2> DEFINE i == [NoJob EXCEPT !.kind = "reconnect", !.pc = "before", !.thread = tab.back.thread,
                                !.busy = TRUE, !.clears = TRUE, !.back = tab.back]
  <2>1. jobs' = jobs \cup {i}
    BY <1>3 DEF Starts
  <2>2. tab.back \in Descriptor /\ tab.back.thread \in Threads
    BY <1>2, <1>3 DEF TabRow, Descriptor
  <2>3. /\ i \in JobRow /\ i.kind = "reconnect" /\ i.pc = "before" /\ i.thread = tab.back.thread
        /\ i.gen = Nobody /\ i.owned /\ i.fresh /\ i.busy /\ i.clears /\ i.aim = "view"
        /\ i.before = Nobody /\ i.back = tab.back
    BY <2>2 DEF NoJob, JobRow, ThreadRef, TurnRef
  <2> HIDE DEF i
  <2>4. JobFine(tab, i, runs, log)
    BY <1>1, <1>2, <1>3, <2>2, <2>3 DEF JobFine, Shaped, PageFine
  <2>5. Keeps(i) /\ Beside(tab', i)
    BY <1>3, <2>3 DEF Keeps, Beside, Tracks
  <2>6. /\ tab'.signedIn /\ tab'.back = tab.back /\ tab'.final = tab.final /\ tab'.gen = tab.gen
        /\ tab'.known = tab.known /\ tab'.cursor = tab.cursor /\ tab'.output = tab.output
        /\ tab' \in TabRow /\ jobs \subseteq jobs /\ i.back \in {Nobody, tab.back}
    BY <1>1, <1>2, <1>3, <2>3
  <2> QED BY <1>1, <2>1, <2>4, <2>5, <2>6, StartsAlone
<1>4. CASE /\ tab.back = Nobody /\ tab.final # Nobody /\ tab' = [tab EXCEPT !.resume = FALSE]
           /\ jobs' = {j \in jobs : j.kind # "stream"}
                       \cup {[NoJob EXCEPT !.kind = "stream", !.pc = "before", !.thread = tab.final.thread,
                                           !.gen = tab.final.gen, !.busy = TRUE, !.aim = "final"]}
  <2> DEFINE i == [NoJob EXCEPT !.kind = "stream", !.pc = "before", !.thread = tab.final.thread,
                                !.gen = tab.final.gen, !.busy = TRUE, !.aim = "final"]
             js == {j \in jobs : j.kind # "stream"}
  <2>1. jobs' = js \cup {i} /\ js \subseteq jobs
    BY <1>4
  <2> HIDE DEF js
  <2>2. /\ tab.final.thread \in Threads /\ tab.final.gen \in Turns
        /\ Of(tab.final.gen, tab.final.thread, runs) /\ runs[tab.final.gen].status = "completed"
    BY <1>2, <1>4 DEF TabRow, PageFine
  <2>3. /\ i \in JobRow /\ i.kind = "stream" /\ i.pc = "before" /\ i.thread = tab.final.thread
        /\ i.gen = tab.final.gen /\ i.owned /\ i.fresh /\ i.busy /\ ~i.clears /\ i.aim = "final"
        /\ i.before = Nobody /\ i.back = Nobody
    BY <2>2 DEF NoJob, JobRow, ThreadRef, TurnRef
  <2> HIDE DEF i
  <2>4. JobFine(tab, i, runs, log)
    <3>1. Used(i.gen, runs)
      BY <2>2, <2>3, NobodyIs DEF Of, Used
    <3> QED BY <1>1, <2>2, <2>3, <3>1 DEF JobFine, Shaped, Known
  <2>5. /\ tab'.signedIn /\ tab'.back = tab.back /\ tab'.final = tab.final /\ tab'.gen = tab.gen
        /\ tab'.known = tab.known /\ tab'.cursor = tab.cursor /\ tab'.output = tab.output
        /\ tab' \in TabRow /\ ~tab'.resume
    BY <1>1, <1>2, <1>4 DEF TabRow
  <2>6. Keeps(i) /\ Beside(tab', i) /\ i.back \in {Nobody, tab.back}
    BY <1>4, <2>3, <2>5 DEF Keeps, Beside, Tracks
  <2> QED BY <1>1, <2>1, <2>4, <2>5, <2>6, StartsAlone
<1>5. CASE /\ tab.back = Nobody /\ Running
           /\ Attached(tab, [NoJob EXCEPT !.thread = runs[tab.gen].thread, !.busy = TRUE],
                       tab.gen, tab.cursor, tab.output)
  <2> DEFINE g == tab.gen
             n == [NoJob EXCEPT !.thread = runs[g].thread, !.busy = TRUE]
             i == [n EXCEPT !.kind = "stream", !.pc = "events", !.gen = g, !.before = Nobody]
             js == {k \in Without(n) : k.kind # "stream"}
  <2>1. tab' = Attach(tab, g, tab.cursor, tab.output) /\ jobs' = js \cup {i} /\ js \subseteq jobs
    BY <1>5 DEF Attached, Without
  <2> HIDE DEF js
  <2>2. g \in Turns /\ Used(g, runs) /\ tab.known = "in_progress" /\ tab.cursor \in Nat
    BY <1>2, <1>5 DEF Running, PageFine, TabRow, TurnRef
  <2>3. runs[g].thread \in Threads /\ Of(g, runs[g].thread, runs)
    BY <1>2, <2>2 DEF RunRow, Used, ThreadRef, Of
  <2>4. /\ i \in JobRow /\ i.kind = "stream" /\ i.pc = "events" /\ i.thread = runs[g].thread /\ i.gen = g
        /\ i.owned /\ i.fresh /\ i.busy /\ ~i.clears /\ i.aim = "view"
        /\ i.before = Nobody /\ i.back = Nobody
    <3> DEFINE t == runs[g].thread
    <3>1. t \in ThreadRef /\ g \in TurnRef
      BY <2>2, <2>3 DEF ThreadRef, TurnRef
    <3> HIDE DEF t, g
    <3>2. i = [NoJob EXCEPT !.thread = t, !.busy = TRUE, !.kind = "stream", !.pc = "events", !.gen = g,
                            !.before = Nobody]
      BY DEF NoJob, t
    <3> HIDE DEF i, n
    <3>3. /\ i \in JobRow /\ i.kind = "stream" /\ i.pc = "events" /\ i.thread = t /\ i.gen = g
          /\ i.owned /\ i.fresh /\ i.busy /\ ~i.clears /\ i.aim = "view"
          /\ i.before = Nobody /\ i.back = Nobody
      BY <3>1, <3>2 DEF NoJob, JobRow
    <3> QED BY <3>3 DEF t
  <2> HIDE DEF i, n
  <2>5. JobFine(tab, i, runs, log)
    BY <1>1, <2>2, <2>3, <2>4 DEF JobFine, Shaped, Known
  <2>6. /\ tab' \in TabRow /\ tab'.signedIn = tab.signedIn /\ tab'.gen = g /\ tab'.known = "in_progress"
        /\ tab'.final = tab.final /\ tab'.back = tab.back /\ ~tab'.resume
        /\ tab'.output = tab.output /\ tab'.cursor = tab.cursor
    <3> DEFINE a == Attach(tab, g, tab.cursor, tab.output)
    <3>1. /\ a \in TabRow /\ a.signedIn = tab.signedIn /\ a.gen = g /\ a.known = "in_progress"
          /\ a.final = tab.final /\ a.back = tab.back /\ ~a.resume
          /\ a.output = tab.output /\ a.cursor = IF tab.cursor > tab.cursor THEN tab.cursor ELSE tab.cursor
      <4>1. tab \in TabRow /\ g \in Turns /\ tab.gen = g /\ tab.cursor \in Nat
        BY <1>2, <2>2
      <4> HIDE DEF g
      <4> QED BY <4>1, AttachIs
    <3>2. tab' = a
      BY <2>1
    <3> HIDE DEF a, g
    <3> QED BY <3>1, <3>2
  <2>7. PageFine(tab', runs)
    BY <1>2, <2>2, <2>6 DEF PageFine
  <2>8. Calm(past) => /\ \A k \in js : ~Views(k) /\ Keeps(k)
                      /\ i.clears <=> tab.back # Nobody
                      /\ i.clears => i.back = tab.back
    BY <1>1, <1>5, <2>1, <2>4, NobodyViews
  <2>9. Calm(past) /\ "blind" \notin past' => Journal(tab'.output, tab'.cursor, g, runs)
    <3> SUFFICES ASSUME Calm(past), "blind" \notin past' PROVE Journal(tab'.output, tab'.cursor, g, runs)
      OBVIOUS
    <3>1. Texts(tab, jobs, runs)
      BY <1>1, <1>2 DEF StreamFine
    <3>2. Going(tab.gen, tab.known, runs)
      BY <2>2, NobodyIs DEF Going
    <3> QED BY <1>1, <2>6, <3>1, <3>2 DEF Texts
  <2>10. past \subseteq past'
    BY <1>1
  <2>11. StreamFine(tab', jobs', runs, log, past')
    <3> HIDE DEF g
    <3> QED BY <1>2, <2>1, <2>2, <2>4, <2>5, <2>6, <2>7, <2>8, <2>9, <2>10, <1>1, <1>5, StreamStarts DEF g
  <2> QED BY <1>1, <2>11, StepFine DEF StreamInv
<1> QED BY <1>3, <1>4, <1>5 DEF ResumeView

LEMMA ExpireFine ==
  ASSUME StreamInv, Expire \/ UNCHANGED streamVars
  PROVE  StreamInv'
<1>1. UNCHANGED ledgers /\ UNCHANGED <<tab, jobs, past>>
  BY DEF Expire, streamVars, ledgers
<1>2. StreamFine(tab', jobs', runs, log, past')
  BY <1>1 DEF StreamInv
<1> QED BY <1>1, <1>2, StepFine DEF StreamInv

-----------------------------------------------------------------------------
LEMMA StreamStartsFine ==
  ASSUME StreamInit
  PROVE  StreamInv
<1>1. Serving(runs, log, live)
  <2>1. runs = [g \in Turns |-> Unused] /\ log = [t \in Threads |-> << >>] /\ live = [t \in Threads |-> Nobody]
    BY DEF StreamInit
  <2>2. << >> \in Ledger /\ DOMAIN << >> = {}
    BY DEF Ledger
  <2>3. runs \in [Turns -> RunRow] /\ log \in [Threads -> Ledger] /\ live \in [Threads -> TurnRef]
    BY <2>1, <2>2, UnusedIs DEF TurnRef
  <2>4. \A g \in Turns : runs[g].status = "none" /\ ~Used(g, runs)
    BY <2>1 DEF Unused, Used
  <2>5. \A t \in Threads : live[t] = Nobody /\ \A i \in DOMAIN log[t] : FALSE
    BY <2>1, <2>2
  <2> QED BY <2>3, <2>4, <2>5 DEF Serving
<1>2. /\ tab \in TabRow /\ tab.gen = Nobody /\ tab.back = Nobody /\ tab.final = Nobody /\ tab.signedIn
      /\ tab.output = << >> /\ tab.cursor = 0 /\ jobs = {}
  <2>1. << >> \in Ledger /\ << >> \in Seq(Turns \X Nat)
    BY DEF Ledger
  <2> QED BY <2>1 DEF StreamInit, TabRow, ThreadRef, TurnRef, Statuses
<1>3. JobsFine(tab, jobs, runs, log) /\ PageFine(tab, runs) /\ Alone(tab, jobs) /\ Tells(tab, jobs, runs)
  BY <1>2 DEF JobsFine, PageFine, Known, Alone, Tells, Told
<1>4. Texts(tab, jobs, runs)
  BY <1>2 DEF Texts, Traced, Going, Good
<1> QED BY <1>1, <1>3, <1>4 DEF StreamInv, StreamFine

LEMMA StreamSteps ==
  ASSUME StreamInv, [StreamNext]_streamVars
  PROVE  StreamInv'
<1>1. CASE \E t \in Threads : OpenThread(t) \/ SendTurn(t)
  BY <1>1, OpenThreadFine, SendTurnFine
<1>2. CASE NewConversation \/ SwitchModes \/ StopRun \/ ResumeView \/ FindsExpired \/ SignIn
  BY <1>2, NewConversationFine, SwitchModesFine, StopRunFine, ResumeViewFine, FindsExpiredFine, SignInFine
<1>3. ASSUME NEW j \in jobs,
             \/ Deliver(j) \/ Terminal(j) \/ Breaks(j) \/ Probe(j) \/ Interrupted(j) \/ StreamExpired(j)
             \/ ReadBefore(j) \/ Again(j) \/ ReadAfter(j) \/ Fails(j) \/ Expired(j) \/ Status(j)
             \/ Listed(j) \/ Created(j) \/ Unsent(j) \/ Cancelled(j) \/ Uncancelled(j)
             \/ \E g \in Turns : Sent(j, g)
      PROVE  StreamInv'
  <2>1. CASE Deliver(j) \/ Breaks(j) \/ Probe(j) \/ Interrupted(j) \/ StreamExpired(j)
    BY <2>1, DeliverFine, BreaksFine, ProbeFine, InterruptedFine, StreamExpiredFine
  <2>2. CASE Terminal(j)
    <3>1. /\ j.pc \in {"events", "probe"} /\ UNCHANGED ledgers /\ UNCHANGED past
          /\ runs[j.gen].status # "in_progress" /\ Finish(tab, j, j.gen, runs[j.gen].status)
      BY <2>2 DEF Terminal
    <3> QED BY <3>1, TerminalFine
  <2>3. CASE ReadBefore(j) \/ Again(j) \/ ReadAfter(j) \/ Fails(j) \/ Expired(j) \/ Status(j)
    BY <2>3, ReadBeforeFine, AgainFine, ReadAfterFine, FailsFine, ExpiredFine, StatusFine
  <2>4. CASE Listed(j) \/ Created(j) \/ Unsent(j) \/ Cancelled(j) \/ Uncancelled(j)
    BY <2>4, ListedFine, CreatedFine, UnsentFine, CancelledFine, UncancelledFine
  <2>5. CASE \E g \in Turns : Sent(j, g)
    BY <2>5, SentFine
  <2> QED BY <1>3, <2>1, <2>2, <2>3, <2>4, <2>5
<1>4. CASE ServerRuns \/ Elsewhere
  BY <1>4, ServerRunsFine, ElsewhereFine
<1>5. CASE Expire \/ UNCHANGED streamVars
  BY <1>5, ExpireFine
<1> QED BY <1>1, <1>2, <1>3, <1>4, <1>5 DEF StreamNext

(* The server's ledgers, every handler and the page fit together, and while *)
(* no send was barged into and no failure came late, one handler has the    *)
(* view, what it holds of a completed generation is true, and the text on   *)
(* the page is a journal up to the cursor.                                  *)
THEOREM StreamInductive == StreamSpec => []StreamInv
<1>1. StreamInit => StreamInv
  BY StreamStartsFine
<1>2. StreamInv /\ [StreamNext]_streamVars => StreamInv'
  BY StreamSteps
<1> QED BY <1>1, <1>2, PTL DEF StreamSpec

(* The text of a followed generation is its journal up to the cursor.       *)
THEOREM TextIsJournal == StreamSpec => []OutputIsJournal
<1>1. StreamInv => OutputIsJournal
  <2> SUFFICES ASSUME StreamInv, Never({"blind", "barged", "late"}), NEW j \in Following
               PROVE  /\ tab.gen = j.gen /\ tab.cursor <= runs[j.gen].deltas
                      /\ tab.output = [i \in 1 .. tab.cursor |-> <<j.gen, i>>]
    BY DEF OutputIsJournal
  <2>1. j \in jobs /\ j.pc \in {"events", "probe"}
    BY DEF Following, Streaming
  <2>2. Calm(past) /\ "blind" \notin past
    BY DEF Never, Calm
  <2>3. tab.gen = j.gen /\ Journal(tab.output, tab.cursor, j.gen, runs)
    BY <2>1, <2>2, TracksIs
  <2> QED BY <2>3 DEF Journal
<1> QED BY <1>1, StreamInductive, PTL

-----------------------------------------------------------------------------
(* What the page shows: one conversation.  A page without a thread, or      *)
(* signed out, shows nothing; its messages are its thread's; the generation *)
(* it would resume is its thread's; a generation it says completed is shown *)
(* with its answer, unless an opening came just as it completed.            *)

Blank(p) == p.shown = << >> /\ p.status # "completed"
Tale(p) == p.status = "completed" /\ p.gen # Nobody /\ p.known = "completed"
Shows(p, rs, h) ==
  /\ ~p.signedIn \/ p.thread = Nobody => Blank(p)
  /\ \A i \in DOMAIN p.shown : rs[p.shown[i].gen].thread = p.thread
  /\ p.signedIn /\ p.back # Nobody => p.thread = p.back.thread
  /\ p.signedIn /\ p.resume /\ p.back = Nobody /\ p.final = Nobody /\ On(p) => rs[p.gen].thread = p.thread
  /\ Tale(p) /\ rs[p.gen].thread = p.thread /\ "raced" \notin h => Answer(p.gen) \in Range(p.shown)

(* A handler that has the view waits for the thread on the page; a          *)
(* reconnect that may yet reinstall its descriptor left nothing completed   *)
(* there without its answer.                                                *)
Placed(p, j) ==
  /\ j.kind = "open" /\ j.pc = "status" => p.thread = j.thread
  /\ j.kind = "send" => p.thread = IF j.pc = "create" THEN Nobody ELSE j.thread
  /\ j.kind \in {"stream", "reconnect", "stop"} => p.thread = j.thread
Reread(p, j, rs) == j.kind = "reconnect" /\ j.aim = "view" =>
  /\ j.pc = "status" =>
       /\ Range(j.before.msgs) \subseteq Range(p.shown)
       /\ ~j.busy /\ j.back.gen # Nobody /\ j.back.known = "completed" /\ rs[j.back.gen].thread = j.thread
          => Answer(j.back.gen) \in Range(j.before.msgs)
  /\ j.pc # "status" /\ ~j.busy => p.status # "completed"
Fits(p, j, rs) == j.owned => Placed(p, j) /\ Reread(p, j, rs)

(* Nothing that opens a conversation runs beside a stop that still has the  *)
(* view.                                                                    *)
Apart(js) == \A i, j \in js : i.owned /\ j.owned /\ i.kind = "stop" => j.kind \notin {"open", "list"}

View(p, js, rs, h) == Shows(p, rs, h) /\ (\A j \in js : Fits(p, j, rs)) /\ Apart(js)
ViewInv == Calm(past) /\ "swapped" \notin past => View(tab, jobs, runs, past)

(* A step of a page that was whole, and stays calm.                         *)
Whole == StreamInv /\ Calm(past) /\ Calm(past') /\ past \subseteq past' /\ View(tab, jobs, runs, past)

LEMMA WholeIs ==
  ASSUME Whole
  PROVE  /\ Serving(runs, log, live) /\ PageFine(tab, runs) /\ tab \in TabRow /\ JobsFine(tab, jobs, runs, log)
         /\ Alone(tab, jobs) /\ Tells(tab, jobs, runs)
         /\ Shows(tab, runs, past) /\ Apart(jobs) /\ \A k \in jobs : Fits(tab, k, runs)
BY DEF Whole, StreamInv, StreamFine, View, PageFine

LEMMA FitsStill ==
  ASSUME NEW p, NEW q, NEW rs, NEW j, Fits(p, j, rs), q.thread = p.thread, q.shown = p.shown,
         q.status = "completed" => p.status = "completed"
  PROVE  Fits(q, j, rs)
BY DEF Fits, Placed, Reread

LEMMA ShowsStill ==
  ASSUME NEW p, NEW q, NEW rs, NEW h, NEW hh, Shows(p, rs, h), h \subseteq hh,
         q.signedIn = p.signedIn, q.thread = p.thread, q.shown = p.shown,
         q.status = "completed" => p.status = "completed",
         q.back \in {p.back, Nobody},
         q.resume /\ q.back = Nobody /\ q.final = Nobody /\ On(q) =>
           \/ rs[q.gen].thread = q.thread
           \/ p.resume /\ p.back = Nobody /\ p.final = Nobody /\ q.gen = p.gen /\ q.known = p.known,
         Tale(q) => q.gen = p.gen /\ q.known = p.known
  PROVE  Shows(q, rs, hh)
BY DEF Shows, Blank, Tale, On

(* A new handler that opens a conversation, or stops one, comes after one   *)
(* of its sort.                                                             *)
Alongside(i, js) == i.owned /\ i.kind \in {"stop", "open", "list"} =>
  \E j \in js : j.owned /\ (j.kind = i.kind \/ (i.kind = "open" /\ j.kind = "list"))

LEMMA ApartWith ==
  ASSUME NEW js, NEW ks, NEW i, Apart(js), \A k \in ks : k \in js \/ k = i, Alongside(i, js)
  PROVE  Apart(ks)
BY DEF Apart, Alongside

LEMMA ApartFew ==
  ASSUME NEW js, NEW ks, Apart(js), \A k \in ks : k \in js \/ ~k.owned
  PROVE  Apart(ks)
BY DEF Apart

LEMMA ApartOne ==
  ASSUME NEW ks, NEW i, \A k \in ks : ~k.owned \/ k = i
  PROVE  Apart(ks)
BY DEF Apart

(* The page says no more than before, and handlers leave.                   *)
LEMMA ViewLess ==
  ASSUME NEW p, NEW q, NEW js, NEW ks, NEW rs, NEW h, NEW hh, View(p, js, rs, h),
         Shows(q, rs, hh), \A k \in ks : k \in js \/ ~k.owned,
         q.thread = p.thread, q.shown = p.shown, q.status = "completed" => p.status = "completed"
  PROVE  View(q, ks, rs, hh)
<1>1. \A k \in ks : Fits(q, k, rs)
  BY FitsStill DEF View, Fits
<1> QED BY <1>1, ApartFew DEF View

(* The page says no more than before, and one handler takes another's place.*)
LEMMA ViewSwap ==
  ASSUME NEW p, NEW q, NEW js, NEW ks, NEW rs, NEW h, NEW hh, NEW i, View(p, js, rs, h),
         Shows(q, rs, hh), \A k \in ks : k \in js \/ k = i, Fits(q, i, rs), Alongside(i, js),
         q.thread = p.thread, q.shown = p.shown, q.status = "completed" => p.status = "completed"
  PROVE  View(q, ks, rs, hh)
<1>1. \A k \in ks : Fits(q, k, rs)
  BY FitsStill DEF View
<1> QED BY <1>1, ApartWith DEF View

(* All but one handler have lost the view.                                  *)
LEMMA ViewAnew ==
  ASSUME NEW q, NEW ks, NEW rs, NEW hh, NEW i, Shows(q, rs, hh), \A k \in ks : ~k.owned \/ k = i, Fits(q, i, rs)
  PROVE  View(q, ks, rs, hh)
<1>1. \A k \in ks : Fits(q, k, rs)
  BY DEF Fits
<1> QED BY <1>1, ApartOne DEF View

LEMMA ViewNone ==
  ASSUME NEW q, NEW ks, NEW rs, NEW hh, Shows(q, rs, hh), \A k \in ks : ~k.owned
  PROVE  View(q, ks, rs, hh)
BY DEF View, Fits, Apart

(* Of the handlers that stay only stops may have the view.                  *)
LEMMA ViewLeft ==
  ASSUME NEW p, NEW q, NEW js, NEW ks, NEW rs, NEW h, NEW hh, NEW i, View(p, js, rs, h),
         Shows(q, rs, hh), \A k \in ks : (k \in js /\ ~Views(k)) \/ k = i, Fits(q, i, rs), Alongside(i, js),
         q.thread = p.thread
  PROVE  View(q, ks, rs, hh)
<1>1. \A k \in ks : Fits(q, k, rs)
  BY DEF View, Fits, Placed, Reread, Views
<1> QED BY <1>1, ApartWith DEF View

LEMMA ViewEnds ==
  ASSUME NEW p, NEW q, NEW js, NEW ks, NEW rs, NEW h, NEW hh, View(p, js, rs, h),
         Shows(q, rs, hh), \A k \in ks : k \in js /\ ~Views(k), q.thread = p.thread
  PROVE  View(q, ks, rs, hh)
<1>1. \A k \in ks : Fits(q, k, rs)
  BY DEF View, Fits, Placed, Reread, Views
<1> QED BY <1>1, ApartFew DEF View

(* What the server does changes nothing of it.                              *)
LEMMA ShowsGrow ==
  ASSUME NEW rs, NEW ss, Grows(rs, ss), NEW p, NEW h, PageFine(p, rs), Shows(p, rs, h)
  PROVE  Shows(p, ss, h)
<1>1. p.shown \in Seq(Message) /\ p.gen \in TurnRef /\ p.thread \in ThreadRef
  BY DEF PageFine, TabRow, Ledger
<1>2. ASSUME NEW i \in DOMAIN p.shown PROVE ss[p.shown[i].gen].thread = p.thread
  <2>1. p.shown[i] \in Message /\ p.thread # Nobody
    <3>1. DOMAIN << >> = {}
      OBVIOUS
    <3> QED BY <1>1, <1>2, <3>1 DEF Shows, Blank
  <2>2. p.shown[i].gen \in Turns /\ Used(p.shown[i].gen, rs)
    BY <2>1, MessageGen DEF Shows, Used
  <2> QED BY <2>2 DEF Grows, Shows
<1>3. p.gen # Nobody => ss[p.gen].thread = rs[p.gen].thread
  BY <1>1 DEF PageFine, Grows, TurnRef
<1> QED BY <1>2, <1>3 DEF Shows, Tale, On

LEMMA FitsGrow ==
  ASSUME NEW rs, NEW ss, Grows(rs, ss), NEW j, j \in JobRow, Known(j.back, rs), NEW p,
         j.clears => j.back # Nobody, j.kind = "reconnect" => j.clears, Fits(p, j, rs)
  PROVE  Fits(p, j, ss)
<1>1. j.kind = "reconnect" /\ j.back.gen # Nobody => ss[j.back.gen].thread = rs[j.back.gen].thread
  <2>1. j.kind = "reconnect" => j.back \in Descriptor
    BY DEF JobRow
  <2> QED BY <2>1 DEF Descriptor, Known, Grows
<1> QED BY <1>1 DEF Fits, Placed, Reread

LEMMA ViewGrows ==
  ASSUME NEW rs, NEW ss, Grows(rs, ss), NEW lg, NEW p, NEW js, NEW h,
         PageFine(p, rs), JobsFine(p, js, rs, lg), View(p, js, rs, h)
  PROVE  View(p, js, ss, h)
<1>1. \A k \in js : Fits(p, k, ss)
  BY FitsGrow DEF View, JobsFine, JobFine, Shaped
<1> QED BY <1>1, ShowsGrow DEF View

LEMMA ServerView ==
  ASSUME Whole, Grows(runs, runs'), UNCHANGED <<tab, jobs, past>>
  PROVE  View(tab', jobs', runs', past')
<1>1. View(tab, jobs, runs', past)
  BY WholeIs, ViewGrows DEF Whole
<1> QED BY <1>1

LEMMA RunsGrow ==
  ASSUME StreamInv, ServerRuns
  PROVE  Grows(runs, runs')
<1>1. Serving(runs, log, live)
  BY DEF StreamInv
<1>2. PICK g \in Turns :
        /\ runs[g].status = "in_progress"
        /\ \/ runs' = [runs EXCEPT ![g].deltas = @ + 1] /\ UNCHANGED <<log, live>>
           \/ /\ Ended(g, "completed")
              /\ log' = [log EXCEPT ![runs[g].thread] = Append(@, Answer(g))]
           \/ Ended(g, "failed") /\ UNCHANGED log
  BY DEF ServerRuns
<1>3. CASE runs' = [runs EXCEPT ![g].deltas = @ + 1]
  <2>1. runs \in [Turns -> RunRow] /\ \A h \in Turns : runs[h] \in RunRow /\ runs[h].deltas \in Nat
    BY <1>1, ServerIs DEF RunRow
  <2> DEFINE r == [runs[g] EXCEPT !.deltas = runs[g].deltas + 1]
  <2>2. r.thread = runs[g].thread /\ r.status = runs[g].status /\ r.deltas = runs[g].deltas + 1
    BY <2>1 DEF RunRow
  <2>3. runs' = [runs EXCEPT ![g] = r]
    BY <1>3
  <2> HIDE DEF r
  <2>4. runs'[g] = r /\ \A h \in Turns : h # g => runs'[h] = runs[h]
    BY <2>1, <2>3
  <2> QED BY <2>1, <2>2, <2>4 DEF Grows
<1>4. CASE Ended(g, "completed") /\ log' = [log EXCEPT ![runs[g].thread] = Append(@, Answer(g))]
  BY <1>1, <1>2, <1>4, EndedServes
<1>5. CASE Ended(g, "failed") /\ UNCHANGED log
  BY <1>1, <1>2, <1>5, EndedServes
<1> QED BY <1>2, <1>3, <1>4, <1>5

LEMMA OutsideView ==
  ASSUME Whole, ServerRuns \/ Elsewhere \/ Expire \/ UNCHANGED streamVars
  PROVE  View(tab', jobs', runs', past')
<1>1. Serving(runs, log, live)
  BY DEF Whole, StreamInv
<1>2. CASE ServerRuns
  BY <1>2, RunsGrow, ServerView DEF ServerRuns, Whole
<1>3. CASE Elsewhere
  <2>1. PICK t \in Threads, g \in Turns : Begun(t, g)
    BY <1>3 DEF Elsewhere
  <2>2. UNCHANGED <<tab, jobs, past>>
    BY <1>3 DEF Elsewhere
  <2> QED BY <1>1, <2>1, <2>2, BegunServes, ServerView
<1>4. CASE Expire \/ UNCHANGED streamVars
  <2>1. runs' = runs /\ UNCHANGED <<tab, jobs, past>>
    BY <1>4 DEF Expire, streamVars, ledgers
  <2> QED BY <2>1 DEF Whole
<1> QED BY <1>2, <1>3, <1>4

(* A signed out page shows nothing, and nobody has its view.                *)
LEMMA SignsOutView ==
  ASSUME Whole, runs' = runs, NEW back, NEW js, js \subseteq jobs, SignsOut(back, js)
  PROVE  View(tab', jobs', runs', past')
<1>1. tab \in TabRow /\ JobsFine(tab, js, runs, log)
  BY WholeIs DEF JobsFine
<1> DEFINE c == Cleared(tab)
           q == [c EXCEPT !.signedIn = FALSE, !.thread = Nobody, !.gen = Nobody, !.final = Nobody, !.back = back]
<1>2. c \in TabRow /\ c.shown = << >> /\ c.status = "idle"
  BY <1>1, ClearedIs
<1> HIDE DEF c
<1>3. ~q.signedIn /\ q.shown = << >> /\ q.status = "idle"
  BY <1>2 DEF TabRow
<1>4. tab' = q /\ jobs' = SignedAway(js)
  BY DEF SignsOut, c
<1> HIDE DEF q
<1>5. \A k \in jobs' : ~k.owned
  BY <1>1, <1>4, SignedAwayIs
<1>6. Shows(tab', runs', past')
  <2>1. DOMAIN << >> = {}
    OBVIOUS
  <2> QED BY <1>3, <1>4, <2>1 DEF Shows, Blank, Tale
<1> QED BY <1>5, <1>6, ViewNone

LEMMA RecoversView ==
  ASSUME Whole, runs' = runs, NEW back, NEW js, js \subseteq jobs, Recovers(back, js)
  PROVE  View(tab', jobs', runs', past')
<1>1. CASE tab.signedIn
  BY <1>1, SignsOutView DEF Recovers
<1>2. CASE ~tab.signedIn
  <2>1. jobs' = js /\ tab' = tab /\ past' = past
    BY <1>2 DEF Recovers
  <2> QED BY <2>1, ApartFew DEF Whole, View
<1> QED BY <1>1, <1>2

LEMMA SignedOutView ==
  ASSUME Whole, FindsExpired \/ \E j \in jobs : StreamExpired(j) \/ Unsent(j)
  PROVE  View(tab', jobs', runs', past')
<1>1. runs' = runs
  BY DEF FindsExpired, StreamExpired, Unsent, ledgers
<1>2. CASE FindsExpired
  BY <1>1, <1>2, SignsOutView DEF FindsExpired
<1>3. ASSUME NEW j \in jobs, StreamExpired(j)
      PROVE  View(tab', jobs', runs', past')
  BY <1>1, <1>3, RecoversView DEF StreamExpired, Without
<1>4. ASSUME NEW j \in jobs, Unsent(j)
      PROVE  View(tab', jobs', runs', past')
  <2>1. CASE Recovers(Nobody, Without(j))
    BY <1>1, <2>1, RecoversView DEF Without
  <2>2. CASE jobs' = Without(j) /\ UNCHANGED <<tab, past>>
    BY <1>1, <2>2, ApartFew DEF Without, Whole, View
  <2> QED BY <1>4, <2>1, <2>2 DEF Unsent
<1> QED BY <1>2, <1>3, <1>4

-----------------------------------------------------------------------------
(* Handlers that ask and leave the page alone.                              *)
LEMMA SteadyView ==
  ASSUME Whole, runs' = runs, tab' = tab, NEW i, \A k \in jobs' : k \in jobs \/ k = i,
         Fits(tab, i, runs), Alongside(i, jobs)
  PROVE  View(tab', jobs', runs', past')
<1>1. Shows(tab', runs', past')
  BY WholeIs DEF Whole, Shows
<1>2. \A k \in jobs' : Fits(tab', k, runs')
  BY WholeIs
<1>3. Apart(jobs')
  BY WholeIs, ApartWith
<1> QED BY <1>1, <1>2, <1>3 DEF View

LEMMA ReadingView ==
  ASSUME Whole, NEW j \in jobs, Breaks(j) \/ ReadBefore(j) \/ Again(j)
  PROVE  View(tab', jobs', runs', past')
<1>1. runs' = runs /\ tab' = tab
  BY DEF Breaks, ReadBefore, Again, ledgers
<1>2. j \in JobRow /\ Fits(tab, j, runs) /\ Shaped(j, runs, log)
  BY WholeIs DEF JobsFine, JobFine
<1>3. \E pc \in {"probe", "before", "after"}, before \in Snapshot \cup {Nobody} :
        /\ jobs' = (jobs \ {j}) \cup {[j EXCEPT !.pc = pc, !.before = before]}
        /\ (j.kind = "stream" \/ (j.pc \in {"before", "after"} /\ pc \in {"before", "after"}))
  <2>1. CASE Breaks(j)
    <3>1. j.kind = "stream"
      BY <1>2, <2>1 DEF Breaks, Shaped, JobRow
    <3>2. j.before \in Snapshot \cup {Nobody} /\ [j EXCEPT !.pc = "probe"] = [j EXCEPT !.pc = "probe", !.before = j.before]
      BY <1>2 DEF JobRow
    <3> QED BY <2>1, <3>1, <3>2 DEF Breaks, Becomes, Without
  <2>2. CASE ReadBefore(j)
    <3>1. j.thread \in Threads
      BY <1>2, <2>2 DEF ReadBefore, Shaped
    <3>2. Snap(j.thread) \in Snapshot
      BY <3>1, WholeIs, SnapIs
    <3> QED BY <2>2, <3>2 DEF ReadBefore, Becomes, Without
  <2>3. CASE Again(j)
    BY <2>3 DEF Again, Becomes, Without
  <2> QED BY <2>1, <2>2, <2>3
<1>4. PICK pc \in {"probe", "before", "after"}, before \in Snapshot \cup {Nobody} :
        /\ jobs' = (jobs \ {j}) \cup {[j EXCEPT !.pc = pc, !.before = before]}
        /\ (j.kind = "stream" \/ (j.pc \in {"before", "after"} /\ pc \in {"before", "after"}))
  BY <1>3
<1> DEFINE i == [j EXCEPT !.pc = pc, !.before = before]
<1>5. /\ i.kind = j.kind /\ i.pc = pc /\ i.thread = j.thread /\ i.owned = j.owned /\ i.aim = j.aim /\ i.busy = j.busy
      /\ i.back = j.back
  BY <1>2 DEF JobRow
<1>6. \A k \in jobs' : k \in jobs \/ k = i
  BY <1>4
<1> HIDE DEF i
<1>7. Fits(tab, i, runs)
  <2>1. j.kind = "send" => FALSE
    BY <1>2, <1>4 DEF Shaped
  <2>2. j.owned => Placed(tab, i)
    BY <1>2, <1>4, <1>5, <2>1 DEF Fits, Placed
  <2>3. j.owned => Reread(tab, i, runs)
    BY <1>2, <1>4, <1>5 DEF Fits, Reread
  <2> QED BY <1>5, <2>2, <2>3 DEF Fits
<1>8. Alongside(i, jobs)
  BY <1>5 DEF Alongside
<1> QED BY <1>1, <1>6, <1>7, <1>8, SteadyView

LEMMA ListedView ==
  ASSUME Whole, NEW j \in jobs, Listed(j)
  PROVE  View(tab', jobs', runs', past')
<1>1. runs' = runs /\ tab' = tab /\ past' = past
  BY DEF Listed, ledgers
<1>2. j \in JobRow /\ Shaped(j, runs, log)
  BY WholeIs DEF JobsFine, JobFine
<1>3. CASE jobs' = Without(j)
  BY <1>1, <1>3, ApartFew DEF Without, Whole, View
<1>4. ASSUME NEW t \in Kept, Owns(j), Becomes(j, Opener(t, FALSE))
      PROVE  View(tab', jobs', runs', past')
  <2> DEFINE i == Opener(t, FALSE)
  <2>1. i.kind = "open" /\ i.pc = "before" /\ i.owned
    BY DEF Opener, NoJob
  <2>2. \A k \in jobs' : k \in jobs \/ k = i
    BY <1>4 DEF Becomes, Without
  <2> HIDE DEF i
  <2>3. j.kind = "list"
    <3>1. j.pc = "list"
      BY DEF Listed
    <3> QED BY <1>2, <3>1 DEF Shaped, JobRow
  <2>4. Alongside(i, jobs)
    BY <1>4, <2>1, <2>3 DEF Alongside, Owns
  <2>5. Fits(tab, i, runs)
    BY <2>1 DEF Fits, Placed, Reread
  <2> QED BY <1>1, <2>2, <2>4, <2>5, SteadyView
<1>5. jobs' = Without(j) \/ \E t \in Kept : Owns(j) /\ Becomes(j, Opener(t, FALSE))
  BY DEF Listed
<1> QED BY <1>3, <1>4, <1>5

LEMMA SendTurnView ==
  ASSUME Whole, NEW t \in Threads, SendTurn(t)
  PROVE  View(tab', jobs', runs', past')
<1> DEFINE i == [NoJob EXCEPT !.kind = "send", !.pc = IF tab.thread = Nobody THEN "create" ELSE "start",
                              !.thread = t, !.busy = TRUE]
<1>1. /\ runs' = runs /\ tab' = tab /\ jobs' = jobs \cup {i}
      /\ t \in IF tab.thread = Nobody THEN Threads \ Kept ELSE {tab.thread}
  BY DEF SendTurn, Starts, ledgers
<1>2. i.kind = "send" /\ i.thread = t /\ i.pc = IF tab.thread = Nobody THEN "create" ELSE "start"
  BY DEF NoJob
<1> HIDE DEF i
<1>3. Alongside(i, jobs)
  BY <1>2 DEF Alongside
<1>4. Fits(tab, i, runs)
  BY <1>1, <1>2 DEF Fits, Placed, Reread
<1> QED BY <1>1, <1>3, <1>4, SteadyView

LEMMA UncancelledView ==
  ASSUME Whole, NEW j \in jobs, Uncancelled(j)
  PROVE  View(tab', jobs', runs', past')
<1>1. runs' = runs /\ tab' = tab /\ past' = past /\ jobs' = jobs \ {j}
  BY DEF Uncancelled, ledgers, Without
<1> QED BY <1>1, ApartFew DEF Whole, View

(* Stop is pressed beside the stream of the conversation on the page.       *)
LEMMA StopRunView ==
  ASSUME Whole, StopRun
  PROVE  View(tab', jobs', runs', past')
<1> DEFINE i == [NoJob EXCEPT !.kind = "stop", !.pc = "cancel", !.thread = runs[tab.gen].thread, !.gen = tab.gen]
<1>1. runs' = runs /\ tab' = tab /\ past' = past /\ jobs' = jobs \cup {i}
  BY DEF StopRun, Starts, ledgers
<1>2. PICK j \in jobs : j.pc \in {"events", "probe"}
  BY DEF StopRun, Streaming
<1>3. /\ j.kind = "stream" /\ j.owned /\ Views(j) /\ tab.gen = j.gen /\ runs[j.gen].thread = j.thread
      /\ \A k \in jobs \ {j} : ~Views(k)
  BY <1>2, TracksIs DEF Whole
<1>4. i.kind = "stop" /\ i.thread = runs[tab.gen].thread
  BY DEF NoJob
<1> HIDE DEF i
<1>5. tab.thread = i.thread
  BY <1>2, <1>3, <1>4, WholeIs DEF Fits, Placed
<1>6. Fits(tab, i, runs)
  BY <1>4, <1>5 DEF Fits, Placed, Reread
<1>7. Apart(jobs')
  <2>1. \A k \in jobs : k.owned => k.kind \notin {"open", "list"}
    BY <1>3 DEF Views
  <2> QED BY <1>1, <1>4, <2>1, WholeIs DEF Apart
<1>8. Shows(tab', runs', past') /\ \A k \in jobs' : Fits(tab', k, runs')
  BY <1>1, <1>6, WholeIs
<1> QED BY <1>7, <1>8 DEF View

(* A new conversation is made where none was shown.                         *)
LEMMA CreatedView ==
  ASSUME Whole, NEW j \in jobs, Created(j)
  PROVE  View(tab', jobs', runs', past')
<1> DEFINE i == [j EXCEPT !.pc = "start"]
<1>1. runs' = runs /\ past' = past /\ jobs' = (jobs \ {j}) \cup {i} /\ j.pc = "create" /\ j.fresh
      /\ tab' = [tab EXCEPT !.thread = j.thread]
  BY DEF Created, ledgers, Becomes, Without
<1>2. j \in JobRow /\ Shaped(j, runs, log) /\ Fits(tab, j, runs) /\ tab \in TabRow
  BY WholeIs DEF JobsFine, JobFine
<1>3. j.kind = "send" /\ j.owned /\ j.thread \in Threads
  BY <1>1, <1>2 DEF Shaped, JobRow
<1>4. tab.thread = Nobody /\ Blank(tab)
  BY <1>1, <1>2, <1>3, WholeIs DEF Fits, Placed, Shows
<1>5. Beside(tab, j) /\ Views(j) /\ ~j.clears
  BY <1>2, <1>3, WholeIs, SharesView DEF Views, Shaped
<1>6. tab.back = Nobody /\ ~On(tab)
  BY <1>3, <1>5 DEF Beside
<1>7. /\ tab'.thread = j.thread /\ tab'.shown = tab.shown /\ tab'.status = tab.status /\ tab'.back = tab.back
      /\ tab'.gen = tab.gen /\ tab'.known = tab.known /\ tab'.signedIn = tab.signedIn
  BY <1>1, <1>2 DEF TabRow
<1>8. tab.signedIn
  BY <1>1, WholeIs DEF JobsFine, JobFine
<1>9. Shows(tab', runs', past')
  <2>1. DOMAIN << >> = {}
    OBVIOUS
  <2>2. j.thread # Nobody
    BY <1>3, NobodyIs
  <2> QED BY <1>4, <1>6, <1>7, <1>8, <2>1, <2>2 DEF Shows, Blank, Tale, On
<1>10. i.kind = "send" /\ i.pc = "start" /\ i.thread = j.thread
  BY <1>2, <1>3 DEF JobRow
<1> HIDE DEF i
<1>11. Fits(tab', i, runs')
  BY <1>7, <1>10 DEF Fits, Placed, Reread
<1>12. ASSUME NEW k \in jobs \ {j}, k.owned PROVE FALSE
  <2>1. Shaped(k, runs, log) /\ k \in JobRow /\ Fits(tab, k, runs)
    BY WholeIs DEF JobsFine, JobFine
  <2>2. k.kind \notin {"stop", "stream", "reconnect"}
    BY <1>4, <1>12, <2>1, NobodyIs DEF Fits, Placed, Shaped
  <2>3. Views(k) /\ ~Rereads(k)
    BY <1>12, <2>2 DEF Views, Rereads
  <2>4. Pair(k, j) \/ Pair(j, k)
    BY <1>5, <1>12, <2>3, WholeIs DEF Alone
  <2> QED BY <1>3, <2>3, <2>4 DEF Pair, Rereads
<1> QED BY <1>1, <1>9, <1>11, <1>12, ViewAnew

-----------------------------------------------------------------------------
(* The user moves on: nothing that was under way has the view any more.     *)
LEMMA MovesView ==
  ASSUME Whole, runs' = runs, (\E t \in Threads : OpenThread(t)) \/ NewConversation \/ SwitchModes
  PROVE  View(tab', jobs', runs', past')
<1>1. ~Locked /\ tab.signedIn
  BY DEF OpenThread, NewConversation, SwitchModes
<1>2. tab.back = Nobody /\ \A k \in jobs : ~k.busy
  BY <1>1, NotLocked DEF Whole
<1>3. \A k \in Disowned(jobs) : ~k.owned
  BY <1>2, WholeIs, DisownedIs
<1>4. tab \in TabRow /\ Shows(tab, runs, past)
  BY WholeIs
<1> DEFINE c == Cleared(tab)
<1>5. /\ c \in TabRow /\ c.signedIn = tab.signedIn /\ c.thread = tab.thread /\ c.shown = << >> /\ c.status = "idle"
      /\ ~c.resume /\ c.back = tab.back
  BY <1>4, ClearedIs
<1> HIDE DEF c
<1>6. DOMAIN << >> = {}
  OBVIOUS
<1>7. ASSUME NEW t \in Threads, OpenThread(t)
      PROVE  View(tab', jobs', runs', past')
  <2> DEFINE i == Opener(t, TRUE)
  <2>1. jobs' = Disowned(jobs) \cup {i} /\ tab' = tab
    BY <1>7 DEF OpenThread
  <2>2. i.kind = "open" /\ i.pc = "before"
    BY DEF Opener, NoJob
  <2> HIDE DEF i
  <2>3. Fits(tab', i, runs')
    BY <2>2 DEF Fits, Placed, Reread
  <2>4. Shows(tab', runs', past')
    BY <1>4, <2>1 DEF Whole, Shows
  <2>5. \A k \in jobs' : ~k.owned \/ k = i
    BY <1>3, <2>1
  <2> QED BY <2>3, <2>4, <2>5, ViewAnew
<1>8. CASE NewConversation
  <2> DEFINE q == [c EXCEPT !.thread = Nobody, !.gen = Nobody, !.cursor = 0, !.output = << >>]
  <2>1. tab' = q /\ jobs' = Disowned(jobs)
    BY <1>8 DEF NewConversation, c
  <2>2. q.shown = << >> /\ q.status = "idle" /\ ~q.resume /\ q.back = Nobody
    BY <1>2, <1>5 DEF TabRow
  <2> HIDE DEF q
  <2>3. Shows(tab', runs', past')
    BY <1>6, <2>1, <2>2 DEF Shows, Blank, Tale
  <2>4. \A k \in jobs' : ~k.owned
    BY <1>3, <2>1
  <2> QED BY <2>3, <2>4, ViewNone
<1>9. CASE SwitchModes
  <2> DEFINE i == Lister(tab.thread)
  <2>1. jobs' = Disowned(jobs) \cup {i} /\ tab' = c
    BY <1>9 DEF SwitchModes, c
  <2>2. i.kind = "list"
    BY DEF Lister, NoJob
  <2> HIDE DEF i
  <2>3. Fits(tab', i, runs')
    BY <2>2 DEF Fits, Placed, Reread
  <2>4. Shows(tab', runs', past')
    BY <1>2, <1>5, <1>6, <2>1 DEF Shows, Blank, Tale
  <2>5. \A k \in jobs' : ~k.owned \/ k = i
    BY <1>3, <2>1
  <2> QED BY <2>3, <2>4, <2>5, ViewAnew
<1> QED BY <1>7, <1>8, <1>9

LEMMA SignInView ==
  ASSUME Whole, SignIn
  PROVE  View(tab', jobs', runs', past')
<1>1. runs' = runs
  BY DEF SignIn, ledgers
<1> DEFINE c == Cleared(tab)
           b == tab.back
<1>2. tab \in TabRow /\ c \in TabRow /\ c.shown = << >> /\ c.status = "idle" /\ ~c.resume /\ c.back = b
  BY WholeIs, ClearedIs
<1> HIDE DEF c
<1>3. \A k \in SignedAway(jobs) : ~k.owned
  BY WholeIs, SignedAwayIs
<1>4. DOMAIN << >> = {}
  OBVIOUS
<1>5. CASE b = Nobody
  <2> DEFINE q == [c EXCEPT !.signedIn = TRUE, !.gen = Nobody, !.cursor = 0, !.output = << >>]
             i == Lister(Nobody)
  <2>1. tab' = q /\ jobs' = SignedAway(jobs) \cup {i}
    BY <1>5 DEF SignIn, c
  <2>2. q.shown = << >> /\ q.status = "idle" /\ ~q.resume /\ q.back = Nobody
    BY <1>2, <1>5 DEF TabRow
  <2>3. i.kind = "list"
    BY DEF Lister, NoJob
  <2> HIDE DEF q, i, b
  <2>4. Fits(tab', i, runs')
    BY <2>3 DEF Fits, Placed, Reread
  <2>5. Shows(tab', runs', past')
    BY <1>4, <2>1, <2>2 DEF Shows, Blank, Tale
  <2>6. \A k \in jobs' : ~k.owned \/ k = i
    BY <1>3, <2>1
  <2> QED BY <2>4, <2>5, <2>6, ViewAnew
<1>6. CASE b # Nobody
  <2> DEFINE q == [c EXCEPT !.signedIn = TRUE, !.thread = b.thread, !.gen = HeldBy(b), !.known = b.known,
                            !.cursor = b.cursor, !.output = b.output]
             i == [NoJob EXCEPT !.kind = "reconnect", !.pc = "before", !.thread = b.thread, !.clears = TRUE, !.back = b]
  <2>1. tab' = q /\ jobs' = SignedAway(jobs) \cup {i}
    BY <1>6 DEF SignIn, c
  <2>2. q.shown = << >> /\ q.status = "idle" /\ ~q.resume /\ q.back = b /\ q.thread = b.thread
    BY <1>2 DEF TabRow
  <2>3. i.kind = "reconnect" /\ i.pc = "before" /\ i.thread = b.thread
    BY DEF NoJob
  <2> HIDE DEF q, i, b
  <2>4. Fits(tab', i, runs')
    BY <2>1, <2>2, <2>3 DEF Fits, Placed, Reread
  <2>5. Shows(tab', runs', past')
    BY <1>4, <2>1, <2>2 DEF Shows, Blank, Tale
  <2>6. \A k \in jobs' : ~k.owned \/ k = i
    BY <1>3, <2>1
  <2> QED BY <2>4, <2>5, <2>6, ViewAnew
<1> QED BY <1>5, <1>6

-----------------------------------------------------------------------------
(* The stream.                                                              *)
LEMMA StreamView ==
  ASSUME Whole, NEW j \in jobs, j.pc \in {"events", "probe"}
  PROVE  /\ j.kind = "stream" /\ j.owned /\ Owns(j) /\ tab.signedIn /\ tab.thread = j.thread /\ j.aim = "view"
         /\ j.gen \in Turns /\ runs[j.gen].thread = j.thread /\ Of(j.gen, j.thread, runs)
         /\ tab.gen = j.gen /\ tab.known = "in_progress"
         /\ j.clears => tab.back = j.back /\ j.back # Nobody /\ j.back.thread = j.thread
         /\ j \in JobRow /\ tab \in TabRow
<1>1. /\ j.kind = "stream" /\ j.owned /\ Owns(j) /\ tab.signedIn /\ j.aim = "view"
      /\ j.gen \in Turns /\ runs[j.gen].thread = j.thread
      /\ tab.gen = j.gen /\ tab.known = "in_progress"
      /\ j.clears => tab.back = j.back /\ j.back # Nobody /\ j.back.thread = j.thread
  BY TracksIs DEF Whole
<1>2. tab.thread = j.thread
  BY <1>1, WholeIs DEF Fits, Placed
<1>3. j \in JobRow /\ tab \in TabRow
  BY JobIs DEF Whole
<1> QED BY <1>1, <1>2, <1>3 DEF Of

LEMMA InterruptsView ==
  ASSUME Whole, runs' = runs, NEW j \in jobs, j.pc = "events",
         NEW p \in TabRow, p.signedIn = tab.signedIn, p.thread = tab.thread, p.gen = tab.gen, p.known = tab.known,
         p.back = tab.back, p.final = tab.final, p.shown = tab.shown, p.status = tab.status,
         Interrupts(p, j)
  PROVE  View(tab', jobs', runs', past')
<1> DEFINE r == [p EXCEPT !.resume = TRUE]
<1>1. tab' = Reinstated(r, j) /\ jobs' \subseteq jobs
  BY DEF Interrupts, Without
<1>2. /\ r \in TabRow /\ r.signedIn = tab.signedIn /\ r.thread = tab.thread /\ r.gen = tab.gen
      /\ r.known = tab.known /\ r.back = tab.back /\ r.shown = tab.shown /\ r.status = tab.status
  BY DEF TabRow
<1> HIDE DEF r
<1>3. /\ tab.thread = j.thread /\ tab.gen = j.gen /\ tab.known = "in_progress" /\ runs[j.gen].thread = j.thread
      /\ j.clears => tab.back = j.back /\ j.back # Nobody /\ j.back.thread = j.thread
      /\ j \in JobRow
  BY StreamView
<1>4. /\ tab'.signedIn = r.signedIn /\ tab'.known = r.known /\ tab'.shown = r.shown /\ tab'.status = r.status
      /\ ~AtSignIn(j) => tab' = r
      /\ AtSignIn(j) => tab'.thread = j.back.thread /\ tab'.back = j.back
  BY <1>1, <1>2, <1>3, ReinstatedIs
<1>5. AtSignIn(j) => j.clears
  BY DEF AtSignIn
<1>6. tab'.thread = tab.thread /\ tab'.back = tab.back /\ tab'.shown = tab.shown /\ tab'.status = tab.status
      /\ tab'.signedIn = tab.signedIn
      /\ tab'.known = "in_progress" /\ (tab'.back = Nobody => tab'.gen = j.gen)
  BY <1>2, <1>3, <1>4, <1>5
<1>7. Shows(tab', runs', past')
  BY <1>3, <1>6, WholeIs, ShowsStill DEF Whole, Tale
<1> QED BY <1>1, <1>6, <1>7, ViewLess DEF Whole

LEMMA DeliverView ==
  ASSUME Whole, NEW j \in jobs, Deliver(j) \/ Interrupted(j)
  PROVE  View(tab', jobs', runs', past')
<1>1. runs' = runs /\ j.pc = "events"
  BY DEF Deliver, Interrupted, ledgers
<1>2. /\ tab \in TabRow /\ j.gen \in Turns
  BY <1>1, StreamView
<1>3. CASE Interrupted(j)
  BY <1>1, <1>2, <1>3, InterruptsView DEF Interrupted
<1>4. CASE Deliver(j)
  <2> DEFINE m == <<j.gen, tab.cursor + 1>>
             p == [tab EXCEPT !.cursor = @ + 1, !.output = Append(@, m)]
  <2>1. IF tab.node = Nobody THEN Interrupts(p, j) ELSE tab' = p /\ UNCHANGED jobs
    BY <1>4 DEF Deliver
  <2>2. tab.cursor + 1 \in Nat /\ tab.output \in Seq(Turns \X Nat) /\ m \in Turns \X Nat
    BY <1>2 DEF TabRow
  <2> HIDE DEF m
  <2>3. Append(tab.output, m) \in Seq(Turns \X Nat)
    BY <2>2
  <2>4. /\ p \in TabRow /\ p.signedIn = tab.signedIn /\ p.thread = tab.thread /\ p.gen = tab.gen
        /\ p.known = tab.known /\ p.back = tab.back /\ p.final = tab.final /\ p.shown = tab.shown
        /\ p.status = tab.status /\ p.resume = tab.resume
    BY <1>2, <2>2, <2>3 DEF TabRow
  <2> HIDE DEF p
  <2>5. CASE tab.node = Nobody
    BY <1>1, <2>1, <2>4, <2>5, InterruptsView
  <2>6. CASE tab.node # Nobody
    <3>1. tab' = p /\ jobs' = jobs
      BY <2>1, <2>6
    <3>2. Shows(tab', runs', past')
      <4>1. Shows(tab, runs', past) /\ past \subseteq past'
        BY <1>1, WholeIs DEF Whole
      <4> QED BY <2>4, <3>1, <4>1, ShowsStill DEF On, Tale
    <3> QED BY <1>1, <2>4, <3>1, <3>2, ViewLess DEF Whole
  <2> QED BY <2>5, <2>6
<1> QED BY <1>3, <1>4

(* A generation is over: the page reads its conversation again.             *)
LEMMA FinishView ==
  ASSUME Whole, runs' = runs, NEW j \in jobs, Owns(j), j.kind \in {"stream", "reconnect"}, NEW g \in Turns,
         NEW status \in {"completed", "failed", "cancelled"},
         NEW p \in TabRow, p.signedIn = tab.signedIn, p.thread = tab.thread, p.back = tab.back,
         p.shown = tab.shown, p.status = tab.status,
         Finish(p, j, g, status)
  PROVE  View(tab', jobs', runs', past')
<1> DEFINE q == [p EXCEPT !.gen = g, !.known = status]
           f == [thread |-> j.thread, gen |-> g]
           aim == IF status = "completed" THEN "final" ELSE "refresh"
           i == [j EXCEPT !.pc = "before", !.before = Nobody, !.gen = g, !.aim = aim]
<1>1. j \in JobRow /\ Fits(tab, j, runs) /\ j.owned /\ Shows(tab, runs, past)
  BY WholeIs DEF JobsFine, JobFine, Owns
<1>2. p.thread = j.thread
  BY <1>1 DEF Fits, Placed
<1>3. status \in Statuses /\ g \in TurnRef
  BY DEF Statuses, TurnRef
<1>4. /\ q \in TabRow /\ q.signedIn = tab.signedIn /\ q.thread = tab.thread /\ q.back = tab.back
      /\ q.shown = tab.shown /\ q.status = tab.status /\ q.known = status
  BY <1>3 DEF TabRow
<1>5. /\ tab' = IF status = "completed" THEN [q EXCEPT !.final = f, !.status = "finalizing"] ELSE q
      /\ jobs' = (jobs \ {j}) \cup {i}
  BY <1>2 DEF Finish, Becomes, Without
<1> HIDE DEF q, f
<1>6. /\ tab'.signedIn = tab.signedIn /\ tab'.thread = tab.thread /\ tab'.back = tab.back
      /\ tab'.shown = tab.shown /\ tab'.known = status
      /\ tab'.status = IF status = "completed" THEN "finalizing" ELSE tab.status
  <2>1. CASE status = "completed"
    BY <1>4, <1>5, <2>1 DEF TabRow
  <2>2. CASE status # "completed"
    BY <1>4, <1>5, <2>2
  <2> QED BY <2>1, <2>2
<1>7. i.kind = j.kind /\ i.thread = j.thread /\ i.aim = aim /\ i.owned
  BY <1>1 DEF JobRow
<1>8. aim # "view" /\ \A k \in jobs' : k \in jobs \/ k = i
  BY <1>5
<1> HIDE DEF i, aim
<1>9. Fits(tab', i, runs')
  BY <1>2, <1>6, <1>7, <1>8 DEF Fits, Placed, Reread
<1>10. Alongside(i, jobs)
  BY <1>7 DEF Alongside
<1>11. Shows(tab', runs', past')
  <2>1. ~On(tab') /\ ~Tale(tab')
    BY <1>6 DEF On, Tale
  <2>2. tab'.status = "completed" => tab.status = "completed"
    BY <1>6
  <2> QED BY <1>1, <1>6, <2>1, <2>2, ShowsStill DEF Whole
<1>12. tab'.status = "completed" => tab.status = "completed"
  BY <1>6
<1> QED BY <1>6, <1>8, <1>9, <1>10, <1>11, <1>12, ViewSwap DEF Whole

LEMMA TerminalView ==
  ASSUME Whole, NEW j \in jobs, Terminal(j) \/ Probe(j)
  PROVE  View(tab', jobs', runs', past')
<1>1. runs' = runs /\ j.pc \in {"events", "probe"}
  BY DEF Terminal, Probe, ledgers
<1>2. /\ j.kind = "stream" /\ Owns(j) /\ j.gen \in Turns /\ Of(j.gen, j.thread, runs) /\ tab \in TabRow
      /\ tab.thread = j.thread /\ j \in JobRow
  BY <1>1, StreamView
<1>3. CASE runs[j.gen].status # "in_progress" /\ Finish(tab, j, j.gen, runs[j.gen].status)
  <2> DEFINE status == runs[j.gen].status
  <2>1. status \in {"completed", "failed", "cancelled"}
    <3>1. Of(j.gen, j.thread, runs) /\ j.thread \in Threads
      BY <1>1, <1>2, TracksIs DEF Whole
    <3>2. Serving(runs, log, live)
      BY WholeIs
    <3> QED BY <1>2, <1>3, <3>1, <3>2, ServerIs DEF RunRow, Statuses
  <2>2. Finish(tab, j, j.gen, status)
    BY <1>3
  <2> HIDE DEF status
  <2> QED BY <1>1, <1>2, <2>1, <2>2, FinishView
<1>4. CASE Becomes(j, [j EXCEPT !.pc = "events"]) /\ tab' = tab
  <2> DEFINE i == [j EXCEPT !.pc = "events"]
  <2>1. \A k \in jobs' : k \in jobs \/ k = i
    BY <1>4 DEF Becomes, Without
  <2>2. i.kind = "stream" /\ i.thread = j.thread
    BY <1>2 DEF JobRow
  <2> HIDE DEF i
  <2>3. Fits(tab, i, runs) /\ Alongside(i, jobs)
    BY <1>2, <2>2 DEF Fits, Placed, Reread, Alongside
  <2> QED BY <1>1, <1>4, <2>1, <2>3, SteadyView
<1>5. \/ runs[j.gen].status # "in_progress" /\ Finish(tab, j, j.gen, runs[j.gen].status)
      \/ Becomes(j, [j EXCEPT !.pc = "events"]) /\ tab' = tab
  BY DEF Terminal, Probe
<1> QED BY <1>3, <1>4, <1>5

-----------------------------------------------------------------------------
(* A turn begins, ends by Stop, or is resumed.                              *)
LEMMA SentView ==
  ASSUME Whole, NEW j \in jobs, NEW g \in Turns, Sent(j, g)
  PROVE  View(tab', jobs', runs', past')
<1>1. /\ j.pc = "start" /\ j.fresh /\ Begun(j.thread, g) /\ past' = past
  BY DEF Sent
<1>2. PICK pictures \in BOOLEAN :
        LET p == IF pictures THEN Rendered(tab, j.thread, Snap(j.thread)) ELSE tab IN
        Attached([p EXCEPT !.gen = g, !.known = "in_progress", !.cursor = 0, !.output = << >>,
                           !.shown = IF p.thread = j.thread THEN Append(@, Prompt(g)) ELSE @],
                 j, g, 0, << >>)
  BY DEF Sent
<1>3. /\ Serving(runs, log, live) /\ tab \in TabRow /\ j \in JobRow /\ Shaped(j, runs, log)
      /\ runs \in [Turns -> RunRow] /\ log \in [Threads -> Ledger]
      /\ PageFine(tab, runs) /\ JobsFine(tab, jobs, runs, log) /\ Shows(tab, runs, past)
      /\ Fits(tab, j, runs) /\ Alone(tab, jobs)
  BY WholeIs, ServerIs DEF JobsFine, JobFine
<1>4. j.kind = "send" /\ j.thread \in Threads /\ j.owned /\ tab.signedIn /\ ~j.clears /\ Views(j)
  BY <1>1, <1>3, JobIs DEF Shaped, JobRow, Views, Whole
<1>5. tab.thread = j.thread
  BY <1>1, <1>3, <1>4 DEF Fits, Placed
<1>6. tab.back = Nobody
  BY <1>3, <1>4, SharesView DEF Beside
<1>7. /\ Grows(runs, runs') /\ runs'[g].thread = j.thread
  BY <1>1, <1>3, <1>4, BegunServes DEF Of
<1>8. View(tab, jobs, runs', past)
  BY <1>3, <1>7, ViewGrows DEF Whole
<1> DEFINE r == IF pictures THEN Rendered(tab, j.thread, Snap(j.thread)) ELSE tab
           sh == IF r.thread = j.thread THEN Append(r.shown, Prompt(g)) ELSE r.shown
           p == [r EXCEPT !.gen = g, !.known = "in_progress", !.cursor = 0, !.output = << >>, !.shown = sh]
           i == [j EXCEPT !.kind = "stream", !.pc = "events", !.gen = g, !.before = Nobody]
           js == {k \in jobs \ {j} : k.kind # "stream"}
<1>9. tab' = Attach(p, g, 0, << >>) /\ jobs' = js \cup {i}
  BY <1>2 DEF Attached, Without
<1>10. /\ r \in TabRow /\ r.signedIn = tab.signedIn /\ r.back = tab.back /\ r.thread = j.thread
       /\ r.shown \in {log[j.thread], tab.shown}
  <2>1. Snap(j.thread).msgs = log[j.thread] /\ log[j.thread] \in Ledger
    BY <1>3, <1>4, SnapIs
  <2>2. CASE pictures
    <3> DEFINE q == Rendered(tab, j.thread, Snap(j.thread))
    <3>1. /\ q \in TabRow /\ q.signedIn = tab.signedIn /\ q.back = tab.back /\ q.thread = j.thread
          /\ q.shown = Snap(j.thread).msgs
      <4>1. tab \in TabRow /\ j.thread \in Threads /\ Snap(j.thread).msgs \in Ledger
        BY <1>3, <1>4, <2>1
      <4> QED BY <4>1, RenderedIs
    <3> HIDE DEF q
    <3>2. r = q
      BY <2>2 DEF q
    <3> QED BY <2>1, <3>1, <3>2
  <2>3. CASE ~pictures
    BY <1>3, <1>5, <2>3
  <2> QED BY <2>2, <2>3
<1> HIDE DEF r
<1>11. r.shown \in Seq(Message) /\ Prompt(g) \in Message /\ Prompt(g).gen = g
  BY <1>10, MessagesAre DEF TabRow, Ledger
<1>12. \A n \in DOMAIN r.shown : runs'[r.shown[n].gen].thread = j.thread
  <2>1. CASE r.shown = tab.shown
    BY <1>5, <1>8, <2>1 DEF View, Shows
  <2>2. CASE r.shown = log[j.thread]
    <3> SUFFICES ASSUME NEW n \in DOMAIN r.shown
                 PROVE  runs'[r.shown[n].gen].thread = j.thread
      OBVIOUS
    <3>1. runs[r.shown[n].gen].thread = j.thread
      BY <1>3, <1>4, <2>2 DEF Serving
    <3>2. r.shown[n] \in Message
      BY <1>11
    <3> QED BY <1>4, <1>7, <3>1, <3>2, MessageGen, NobodyIs DEF Grows, Used
  <2> QED BY <1>10, <2>1, <2>2
<1>13. sh = Append(r.shown, Prompt(g)) /\ sh \in Seq(Message)
  <2>1. Append(r.shown, Prompt(g)) \in Seq(Message)
    BY <1>11
  <2> QED BY <1>10, <2>1
<1> HIDE DEF sh
<1>14. \A n \in DOMAIN sh : runs'[sh[n].gen].thread = j.thread
  <2>1. /\ DOMAIN r.shown = 1 .. Len(r.shown) /\ DOMAIN sh = 1 .. Len(r.shown) + 1 /\ Len(r.shown) \in Nat
        /\ sh[Len(r.shown) + 1] = Prompt(g) /\ \A n \in DOMAIN r.shown : sh[n] = r.shown[n]
    BY <1>11, <1>13, RangeIs
  <2>2. \A n \in DOMAIN sh : n \in DOMAIN r.shown \/ n = Len(r.shown) + 1
    BY <2>1
  <2> QED BY <1>7, <1>11, <1>12, <2>1, <2>2
<1>15. << >> \in Seq(Turns \X Nat) /\ "in_progress" \in Statuses /\ g \in TurnRef
  BY DEF Statuses, TurnRef
<1>16. /\ p \in TabRow /\ p.signedIn = tab.signedIn /\ p.gen = g /\ p.back = tab.back /\ p.thread = j.thread
       /\ p.shown = sh
  BY <1>10, <1>13, <1>15 DEF TabRow, Ledger
<1> HIDE DEF p
<1>17. /\ tab'.signedIn = tab.signedIn /\ tab'.thread = j.thread /\ tab'.shown = sh /\ tab'.known = "in_progress"
       /\ tab'.back = Nobody /\ ~tab'.resume /\ tab'.status = "running"
  <2> DEFINE a == Attach(p, g, 0, << >>)
  <2>1. /\ a.signedIn = p.signedIn /\ a.thread = p.thread /\ a.shown = p.shown /\ a.known = "in_progress"
        /\ a.back = p.back /\ ~a.resume /\ a.status = "running"
    <3>1. p \in TabRow /\ p.gen = g /\ 0 \in Nat
      BY <1>16
    <3> QED BY <3>1, AttachIs
  <2> HIDE DEF a
  <2>2. tab' = a
    BY <1>9 DEF a
  <2> QED BY <1>6, <1>16, <2>1, <2>2
<1>18. Shows(tab', runs', past')
  <2>1. tab'.signedIn /\ tab'.thread # Nobody
    BY <1>4, <1>17, NobodyIs
  <2> QED BY <1>14, <1>17, <2>1 DEF Shows, Tale
<1>19. i.kind = "stream" /\ i.thread = j.thread
  BY <1>3 DEF JobRow
<1> HIDE DEF i
<1>20. Fits(tab', i, runs') /\ Alongside(i, jobs)
  BY <1>17, <1>19 DEF Fits, Placed, Reread, Alongside
<1>21. \A k \in jobs' : (k \in jobs /\ ~Views(k)) \/ k = i
  BY <1>3, <1>4, <1>9 DEF Alone, Pair, Rereads
<1> QED BY <1>5, <1>8, <1>17, <1>18, <1>20, <1>21, ViewLeft

LEMMA CancelledView ==
  ASSUME Whole, "swapped" \notin past', NEW j \in jobs, Cancelled(j)
  PROVE  View(tab', jobs', runs', past')
<1> DEFINE g == j.gen
           kept == {k \in jobs \ {j} : k.kind # "stream"}
           b == IF \E k \in Streaming : k.clears THEN Nobody ELSE tab.back
           i == [j EXCEPT !.pc = "before", !.aim = "refresh", !.owned = TRUE, !.fresh = TRUE]
<1>1. /\ j.pc = "cancel" /\ runs[g].status = "in_progress" /\ Ended(g, "cancelled") /\ log' = log
      /\ IF tab.signedIn
         THEN /\ tab' = [tab EXCEPT !.gen = g, !.known = "cancelled", !.back = b]
              /\ jobs' = kept \cup {i}
         ELSE jobs' = kept
      /\ j.owned
  BY DEF Cancelled, Without, Notes
<1>2. /\ Serving(runs, log, live) /\ tab \in TabRow /\ j \in JobRow /\ Shaped(j, runs, log)
      /\ PageFine(tab, runs) /\ JobsFine(tab, jobs, runs, log) /\ past \subseteq past'
  BY WholeIs DEF JobsFine, JobFine, Whole
<1>3. j.kind = "stop" /\ Of(g, j.thread, runs) /\ g \in Turns
  BY <1>1, <1>2 DEF Shaped, JobRow, Of
<1>4. Grows(runs, runs')
  <2>1. "cancelled" \in {"completed", "failed", "cancelled"} /\ "cancelled" # "completed"
    OBVIOUS
  <2>2. Serving(runs, log, live) /\ g \in Turns /\ runs[g].status = "in_progress" /\ Ended(g, "cancelled")
        /\ log' = log
    BY <1>1, <1>2, <1>3
  <2> HIDE DEF g
  <2> QED BY <2>1, <2>2, EndedServes
<1>5. View(tab, jobs, runs', past)
  BY <1>2, <1>4, ViewGrows DEF Whole
<1>6. kept \subseteq jobs
  OBVIOUS
<1>7. tab.signedIn
  BY <1>1, <1>2 DEF JobsFine, JobFine
<1>8. View(tab', jobs', runs', past')
  <2>1. tab' = [tab EXCEPT !.gen = g, !.known = "cancelled", !.back = b] /\ jobs' = kept \cup {i}
    BY <1>1, <1>7
  <2>2. i.kind = "stop" /\ i.thread = j.thread
    BY <1>2, <1>3 DEF JobRow
  <2> HIDE DEF i
  <2>3. b \in {tab.back, Nobody}
    OBVIOUS
  <2> HIDE DEF b, g
  <2>4. /\ tab'.signedIn = tab.signedIn /\ tab'.thread = tab.thread /\ tab'.shown = tab.shown
        /\ tab'.status = tab.status /\ tab'.back = b /\ tab'.known = "cancelled"
    BY <1>2, <2>1 DEF TabRow
  <2>5. Shows(tab', runs', past')
    <3>1. Shows(tab, runs', past)
      BY <1>5 DEF View
    <3> QED BY <1>2, <2>3, <2>4, <3>1, ShowsStill DEF On, Tale
  <2>6. Fits(tab', i, runs') /\ Alongside(i, jobs)
    <3>1. tab.thread = j.thread
      BY <1>1, <1>3, WholeIs DEF Fits, Placed
    <3> QED BY <1>1, <1>3, <2>2, <2>4, <3>1 DEF Fits, Placed, Reread, Alongside
  <2>7. \A k \in jobs' : k \in jobs \/ k = i
    BY <1>6, <2>1
  <2> QED BY <1>5, <2>4, <2>5, <2>6, <2>7, ViewSwap
<1> QED BY <1>8

LEMMA ResumeViewView ==
  ASSUME Whole, ResumeView
  PROVE  View(tab', jobs', runs', past')
<1>1. runs' = runs /\ past' = past /\ tab.signedIn /\ tab.resume
  BY DEF ResumeView, ledgers
<1>2. tab \in TabRow /\ Shows(tab, runs, past) /\ PageFine(tab, runs)
  BY WholeIs
<1>3. CASE /\ tab.back # Nobody /\ tab' = tab
           /\ Starts([NoJob EXCEPT !.kind = "reconnect", !.pc = "before", !.thread = tab.back.thread,
                                   !.busy = TRUE, !.clears = TRUE, !.back = tab.back])
  <2> DEFINE i == [NoJob EXCEPT !.kind = "reconnect", !.pc = "before", !.thread = tab.back.thread,
                                !.busy = TRUE, !.clears = TRUE, !.back = tab.back]
  <2>1. i.kind = "reconnect" /\ i.pc = "before" /\ i.thread = tab.back.thread /\ i.busy
    BY DEF NoJob
  <2>2. jobs' = jobs \cup {i}
    BY <1>3 DEF Starts
  <2> HIDE DEF i
  <2>3. Fits(tab, i, runs) /\ Alongside(i, jobs)
    BY <1>1, <1>2, <1>3, <2>1 DEF Fits, Placed, Reread, Alongside, Shows
  <2> QED BY <1>1, <1>3, <2>2, <2>3, SteadyView
<1>4. CASE /\ tab.back = Nobody /\ FinalCurrent(tab.final) /\ tab' = [tab EXCEPT !.resume = FALSE]
           /\ jobs' = {j \in jobs : j.kind # "stream"}
                       \cup {[NoJob EXCEPT !.kind = "stream", !.pc = "before", !.thread = tab.final.thread,
                                           !.gen = tab.final.gen, !.busy = TRUE, !.aim = "final"]}
  <2> DEFINE i == [NoJob EXCEPT !.kind = "stream", !.pc = "before", !.thread = tab.final.thread,
                                !.gen = tab.final.gen, !.busy = TRUE, !.aim = "final"]
  <2>1. i.kind = "stream" /\ i.thread = tab.final.thread
    BY DEF NoJob
  <2>2. \A k \in jobs' : k \in jobs \/ k = i
    BY <1>4
  <2> HIDE DEF i
  <2>3. /\ tab'.signedIn = tab.signedIn /\ tab'.thread = tab.thread /\ tab'.shown = tab.shown
        /\ tab'.status = tab.status /\ tab'.back = tab.back /\ tab'.gen = tab.gen /\ tab'.known = tab.known
        /\ ~tab'.resume
    BY <1>2, <1>4 DEF TabRow
  <2>4. Fits(tab', i, runs') /\ Alongside(i, jobs)
    BY <1>4, <2>1, <2>3 DEF Fits, Placed, Reread, Alongside, FinalCurrent
  <2>5. Shows(tab', runs', past')
    BY <1>1, <1>2, <2>3 DEF Shows, Blank, Tale
  <2> QED BY <1>1, <2>2, <2>3, <2>4, <2>5, ViewSwap DEF Whole
<1>5. CASE /\ tab.back = Nobody /\ tab.final = Nobody /\ Running
           /\ Attached(tab, [NoJob EXCEPT !.thread = runs[tab.gen].thread, !.busy = TRUE],
                       tab.gen, tab.cursor, tab.output)
  <2> DEFINE g == tab.gen
             n == [NoJob EXCEPT !.thread = runs[g].thread, !.busy = TRUE]
             i == [n EXCEPT !.kind = "stream", !.pc = "events", !.gen = g, !.before = Nobody]
  <2>1. tab' = Attach(tab, g, tab.cursor, tab.output) /\ \A k \in jobs' : k \in jobs \/ k = i
    BY <1>5 DEF Attached, Without
  <2>2. i.kind = "stream" /\ i.thread = runs[g].thread
    BY DEF NoJob
  <2> HIDE DEF i, n
  <2>3. g \in Turns /\ tab.cursor \in Nat /\ runs[g].thread = tab.thread
    BY <1>1, <1>2, <1>5 DEF Running, TabRow, TurnRef, Shows, On
  <2>4. /\ tab'.signedIn = tab.signedIn /\ tab'.thread = tab.thread /\ tab'.shown = tab.shown
        /\ tab'.status = "running" /\ tab'.back = tab.back /\ ~tab'.resume
    <3> DEFINE a == Attach(tab, g, tab.cursor, tab.output)
    <3>1. /\ a.signedIn = tab.signedIn /\ a.thread = tab.thread /\ a.shown = tab.shown
          /\ a.status = "running" /\ a.back = tab.back /\ ~a.resume
      <4>1. tab \in TabRow /\ g \in Turns /\ tab.gen = g /\ tab.cursor \in Nat
        BY <1>2, <2>3
      <4> HIDE DEF g
      <4> QED BY <4>1, AttachIs
    <3>2. tab' = a
      BY <2>1
    <3> HIDE DEF a, g
    <3> QED BY <3>1, <3>2
  <2> HIDE DEF g
  <2>5. Fits(tab', i, runs') /\ Alongside(i, jobs)
    BY <1>1, <2>2, <2>3, <2>4 DEF Fits, Placed, Reread, Alongside
  <2>6. Shows(tab', runs', past')
    BY <1>1, <1>2, <2>4, ShowsStill DEF Tale
  <2> QED BY <1>1, <2>1, <2>4, <2>5, <2>6, ViewSwap DEF Whole
<1> QED BY <1>3, <1>4, <1>5 DEF ResumeView

-----------------------------------------------------------------------------
(* What a status says of the generation just read.                          *)
LEMMA EndsIn ==
  ASSUME NEW s \in Ledger, NEW m, Ends(s, m)
  PROVE  m \in Range(s)
<1>1. s \in Seq(Message) /\ Len(s) \in Nat /\ Range(s) = {s[i] : i \in DOMAIN s} /\ DOMAIN s = 1 .. Len(s)
  BY RangeIs DEF Ledger
<1>2. s # << >> /\ s[Len(s)] = m
  BY DEF Ends, Last
<1>3. Len(s) \in DOMAIN s
  BY <1>1, <1>2
<1> QED BY <1>1, <1>2, <1>3

LEMMA SettledFields ==
  ASSUME NEW p \in TabRow, NEW j, NEW q, q = Settled(p, j)
  PROVE  /\ q.signedIn = p.signedIn /\ q.thread = p.thread /\ q.gen = p.gen /\ q.known = p.known
         /\ q.back \in {p.back, Nobody} /\ q.final = p.final /\ q.shown = p.shown
         /\ q.status = p.status /\ q.resume = p.resume
<1>1. PICK back \in {p.back, Nobody} : q = [p EXCEPT !.back = back]
  BY SettledIs
<1> QED BY <1>1 DEF TabRow

(* A page that goes on showing its thread.                                  *)
LEMMA ShowsThread ==
  ASSUME NEW p, NEW q, NEW rs, NEW h, NEW hh, Shows(p, rs, h),
         q.signedIn, p.signedIn, q.thread # Nobody, q.thread = p.thread, q.shown = p.shown,
         q.back \in {p.back, Nobody},
         q.resume /\ q.back = Nobody /\ q.final = Nobody /\ On(q) => rs[q.gen].thread = q.thread,
         Tale(q) => "raced" \in hh \/ Answer(q.gen) \in Range(q.shown)
  PROVE  Shows(q, rs, hh)
BY DEF Shows

LEMMA StatusView ==
  ASSUME Whole, NEW j \in jobs, Status(j)
  PROVE  View(tab', jobs', runs', past')
<1> DEFINE g == j.gen
           status == runs[g].status
           p == [tab EXCEPT !.gen = g, !.known = status]
           fresh == [p EXCEPT !.cursor = 0, !.output = << >>]
<1>1. /\ runs' = runs /\ j.pc = "status" /\ Owns(j) /\ runs[g].thread = j.thread
      /\ \/ /\ j.kind = "open"
            /\ IF status = "in_progress" THEN Follows(fresh, j, g)
               ELSE tab' = [fresh EXCEPT !.status = status] /\ jobs' = Without(j)
            /\ Notes("raced", status = "completed")
         \/ /\ j.kind = "reconnect"
            /\ CASE status = "in_progress" ->
                      Attached(p, j, g, IF j.back.gen = g THEN j.back.cursor ELSE 0,
                               IF j.back.gen = g THEN j.back.output ELSE << >>)
                 [] status = "completed" /\ ~Ends(j.before.msgs, Answer(g)) ->
                      Finish(p, j, g, status)
                 [] OTHER -> tab' = Settled([p EXCEPT !.status = status], j) /\ jobs' = Without(j)
  BY DEF Status, Misdirected, ledgers
<1>2. /\ tab \in TabRow /\ j \in JobRow /\ Shaped(j, runs, log) /\ Fits(tab, j, runs) /\ Alone(tab, jobs)
      /\ Serving(runs, log, live) /\ Shows(tab, runs, past) /\ past \subseteq past'
      /\ j.owned /\ j.fresh /\ tab.signedIn /\ runs \in [Turns -> RunRow]
  BY <1>1, WholeIs, ServerIs DEF JobsFine, JobFine, Owns, Whole
<1>3. /\ j.kind \in {"open", "reconnect"} /\ g \in Turns /\ j.thread \in Threads
      /\ Of(g, j.thread, runs) /\ j.aim = "view" /\ Views(j)
  BY <1>1, <1>2 DEF Shaped, Of, Views
<1>4. /\ \A k \in jobs \ {j} : ~Views(k)
      /\ tab.thread = j.thread /\ tab.thread # Nobody
  BY <1>1, <1>2, <1>3, OthersWait, NobodyIs DEF Rereads, Fits, Placed
<1>5. status \in Statuses /\ status # "none" /\ g \in TurnRef
  BY <1>2, <1>3, ServerIs DEF RunRow, TurnRef
<1> DEFINE st == status
<1> HIDE DEF st
<1>6. st = runs[g].status /\ st = status
  BY DEF st
<1>7. /\ p \in TabRow /\ p.signedIn = tab.signedIn /\ p.thread = tab.thread /\ p.back = tab.back
      /\ p.shown = tab.shown /\ p.status = tab.status /\ p.resume = tab.resume
      /\ p.gen = g /\ p.known = st
  <2>1. p = [tab EXCEPT !.gen = g, !.known = st]
    BY <1>6
  <2> HIDE DEF p, status
  <2> QED BY <1>2, <1>5, <1>6, <2>1 DEF TabRow
<1> HIDE DEF p
<1>8. /\ fresh \in TabRow /\ fresh.signedIn = tab.signedIn /\ fresh.thread = tab.thread /\ fresh.back = tab.back
      /\ fresh.shown = tab.shown /\ fresh.gen = g /\ fresh.known = st
  <2>1. << >> \in Seq(Turns \X Nat)
    OBVIOUS
  <2> QED BY <1>7, <2>1 DEF TabRow
<1> HIDE DEF fresh
<1>9. ASSUME NEW r, r \in {p, fresh}, NEW cursor \in Nat, NEW output, NEW i, i.kind = "stream", i.thread = j.thread,
             tab' = Attach(r, g, cursor, output), \A k \in jobs' : (k \in jobs /\ ~Views(k)) \/ k = i
      PROVE  View(tab', jobs', runs', past')
  <2>1. r \in TabRow /\ r.signedIn = tab.signedIn /\ r.thread = tab.thread /\ r.back = tab.back
        /\ r.shown = tab.shown /\ r.gen = g
    BY <1>7, <1>8, <1>9
  <2> DEFINE a == Attach(r, g, cursor, output)
  <2>2. /\ a.signedIn = r.signedIn /\ a.thread = r.thread /\ a.back = r.back /\ a.shown = r.shown
        /\ a.known = "in_progress" /\ ~a.resume /\ a.status = "running"
    <3>1. r \in TabRow /\ r.gen = g /\ g \in Turns /\ cursor \in Nat
      BY <1>3, <2>1
    <3> HIDE DEF g
    <3> QED BY <3>1, AttachIs
  <2>3. tab' = a
    BY <1>9
  <2> HIDE DEF a
  <2>4. /\ tab'.signedIn = tab.signedIn /\ tab'.thread = tab.thread /\ tab'.back = tab.back
        /\ tab'.shown = tab.shown /\ tab'.known = "in_progress" /\ ~tab'.resume /\ tab'.status = "running"
    BY <2>1, <2>2, <2>3
  <2>5. Shows(tab', runs', past')
    BY <1>1, <1>2, <2>4, ShowsStill DEF Tale
  <2>6. Fits(tab', i, runs') /\ Alongside(i, jobs)
    BY <1>4, <1>9, <2>4 DEF Fits, Placed, Reread, Alongside
  <2> QED BY <1>1, <1>9, <2>4, <2>5, <2>6, ViewLeft DEF Whole
<1>10. CASE j.kind = "open"
  <2>1. CASE status = "in_progress"
    <3> DEFINE i == [j EXCEPT !.kind = "stream", !.pc = "events", !.before = Nobody, !.busy = FALSE]
    <3>1. tab' = Attach(fresh, g, 0, << >>) /\ \A k \in jobs' : (k \in jobs /\ ~Views(k)) \/ k = i
      BY <1>1, <1>4, <1>10, <2>1 DEF Follows, Without
    <3>2. i.kind = "stream" /\ i.thread = j.thread /\ 0 \in Nat
      BY <1>2 DEF JobRow
    <3> HIDE DEF i
    <3> QED BY <1>9, <3>1, <3>2
  <2>2. CASE status # "in_progress"
    <3>1. tab' = [fresh EXCEPT !.status = st] /\ jobs' = jobs \ {j} /\ (st = "completed" => "raced" \in past')
      BY <1>1, <1>6, <1>10, <2>2 DEF Without, Notes
    <3>2. /\ tab'.signedIn = tab.signedIn /\ tab'.thread = tab.thread /\ tab'.back = tab.back
          /\ tab'.shown = tab.shown /\ tab'.known = st /\ st # "in_progress"
      BY <1>6, <1>8, <2>2, <3>1 DEF TabRow
    <3>3. Shows(tab', runs', past')
      BY <1>1, <1>2, <1>4, <3>1, <3>2, ShowsThread DEF On, Tale
    <3>4. \A k \in jobs' : k \in jobs /\ ~Views(k)
      BY <1>4, <3>1
    <3> QED BY <1>1, <3>2, <3>3, <3>4, ViewEnds DEF Whole
  <2> QED BY <2>1, <2>2
<1>11. CASE j.kind = "reconnect"
  <2>1. j.back \in Descriptor /\ j.before \in Snapshot
    BY <1>1, <1>2, <1>11 DEF Shaped, JobRow
  <2>2. CASE status = "in_progress"
    <3> DEFINE i == [j EXCEPT !.kind = "stream", !.pc = "events", !.gen = g, !.before = Nobody]
               c == IF j.back.gen = g THEN j.back.cursor ELSE 0
               o == IF j.back.gen = g THEN j.back.output ELSE << >>
    <3>1. tab' = Attach(p, g, c, o) /\ \A k \in jobs' : (k \in jobs /\ ~Views(k)) \/ k = i
      BY <1>1, <1>4, <1>11, <2>2 DEF Attached, Without
    <3>2. i.kind = "stream" /\ i.thread = j.thread /\ c \in Nat
      BY <1>2, <2>1 DEF JobRow, Descriptor
    <3> HIDE DEF i, c, o
    <3> QED BY <1>9, <3>1, <3>2
  <2>3. CASE status = "completed" /\ ~Ends(j.before.msgs, Answer(g))
    <3>1. Finish(p, j, g, st)
      BY <1>1, <1>6, <1>11, <2>3
    <3>2. st \in {"completed", "failed", "cancelled"}
      BY <1>6, <2>3
    <3> QED BY <1>1, <1>3, <1>7, <1>11, <3>1, <3>2, FinishView
  <2>4. CASE status # "in_progress" /\ ~(status = "completed" /\ ~Ends(j.before.msgs, Answer(g)))
    <3> DEFINE r == [p EXCEPT !.status = st]
    <3>1. tab' = Settled(r, j) /\ jobs' = jobs \ {j}
      BY <1>1, <1>6, <1>11, <2>4 DEF Without
    <3>2. /\ r \in TabRow /\ r.signedIn = tab.signedIn /\ r.thread = tab.thread /\ r.back = tab.back
          /\ r.shown = tab.shown /\ r.gen = g /\ r.known = st
      BY <1>5, <1>6, <1>7 DEF TabRow
    <3> HIDE DEF r
    <3>3. /\ tab'.signedIn = tab.signedIn /\ tab'.thread = tab.thread /\ tab'.back \in {tab.back, Nobody}
          /\ tab'.shown = tab.shown /\ tab'.gen = g /\ tab'.known = st
      BY <3>1, <3>2, SettledFields
    <3>4. st # "in_progress" /\ (st = "completed" => Answer(g) \in Range(tab.shown))
      <4>1. st = "completed" => Ends(j.before.msgs, Answer(g))
        BY <1>6, <2>4
      <4>2. j.before.msgs \in Ledger
        BY <2>1 DEF Snapshot, Ledger
      <4>3. Range(j.before.msgs) \subseteq Range(tab.shown)
        BY <1>1, <1>2, <1>3, <1>11 DEF Fits, Reread
      <4> QED BY <1>6, <2>4, <4>1, <4>2, <4>3, EndsIn
    <3>5. Shows(tab', runs', past')
      BY <1>1, <1>2, <1>4, <3>3, <3>4, ShowsThread DEF On, Tale
    <3>6. \A k \in jobs' : k \in jobs /\ ~Views(k)
      BY <1>4, <3>1
    <3> QED BY <1>1, <3>3, <3>5, <3>6, ViewEnds DEF Whole
  <2> QED BY <2>2, <2>3, <2>4
<1> QED BY <1>3, <1>10, <1>11

-----------------------------------------------------------------------------
(* A snapshot on the page: the conversation as the server has it.           *)
LEMMA SnapshotShows ==
  ASSUME Whole, tab.signedIn, NEW t \in Threads, NEW q, q.signedIn, q.thread = t, q.shown = log[t],
         q.back # Nobody => q.back.thread = t,
         q.resume => q.final # Nobody,
         q.gen \in {tab.gen, Nobody}, q.known = tab.known
  PROVE  Shows(q, runs, past')
<1>1. Serving(runs, log, live) /\ Tells(tab, jobs, runs) /\ tab \in TabRow
  BY WholeIs
<1>2. \A i \in DOMAIN log[t] : runs[log[t][i].gen].thread = t
  BY <1>1 DEF Serving
<1>3. Tale(q) /\ runs[q.gen].thread = t => Answer(q.gen) \in Range(log[t])
  <2> SUFFICES ASSUME Tale(q), runs[q.gen].thread = t PROVE Answer(q.gen) \in Range(log[t])
    OBVIOUS
  <2>1. q.gen \in Turns /\ runs[q.gen].status = "completed"
    BY <1>1 DEF Tale, Tells, TabRow, TurnRef
  <2> QED BY <1>1, <2>1 DEF Serving
<1>4. t # Nobody
  BY NobodyIs
<1> QED BY <1>2, <1>3, <1>4 DEF Shows

(* Handlers leave a page that keeps its thread.                             *)
LEMMA ViewThread ==
  ASSUME NEW p, NEW q, NEW js, NEW ks, NEW rs, NEW h, NEW hh, View(p, js, rs, h), Shows(q, rs, hh),
         \A k \in ks : k \in js /\ (k.owned => Reread(q, k, rs)), q.thread = p.thread
  PROVE  View(q, ks, rs, hh)
<1>1. \A k \in ks : Fits(q, k, rs)
  BY DEF View, Fits, Placed
<1> QED BY <1>1, ApartFew DEF View

LEMMA TakeOpenView ==
  ASSUME Whole, runs' = runs, NEW j \in jobs, j.pc = "after", Owns(j), j.kind = "open",
         NEW s \in Snapshot, s.msgs = log[j.thread], Take(j, s)
  PROVE  View(tab', jobs', runs', past')
<1>1. /\ tab \in TabRow /\ j \in JobRow /\ Shaped(j, runs, log) /\ Alone(tab, jobs) /\ Apart(jobs)
      /\ j.owned /\ j.fresh /\ tab.signedIn
  BY WholeIs DEF JobsFine, JobFine, Owns
<1>2. j.aim = "view" /\ ~j.clears /\ j.thread \in Threads /\ Views(j)
  BY <1>1 DEF Shaped, Views
<1>3. (\A k \in jobs \ {j} : ~k.owned) /\ tab.back = Nobody
  <2>1. \A k \in jobs \ {j} : ~Views(k)
    BY <1>1, <1>2, OthersWait DEF Rereads
  <2>2. Beside(tab, j)
    BY <1>1, SharesView
  <2> QED BY <1>1, <1>2, <2>1, <2>2 DEF Beside, Views, Apart
<1> DEFINE r == Rendered(tab, j.thread, s)
           i == [j EXCEPT !.pc = "status", !.gen = s.live, !.before = s]
<1>4. \/ /\ tab' = [r EXCEPT !.gen = Nobody, !.cursor = 0, !.output = << >>]
         /\ jobs' = jobs \ {j}
      \/ tab' = r /\ jobs' = (jobs \ {j}) \cup {i}
  BY <1>2 DEF Take, Becomes, Without
<1>5. /\ r \in TabRow /\ r.signedIn = tab.signedIn /\ r.thread = j.thread /\ r.gen = tab.gen /\ r.known = tab.known
      /\ r.back = tab.back /\ ~r.resume /\ r.shown = s.msgs
  <2>1. tab \in TabRow /\ j.thread \in Threads /\ s.msgs \in Ledger
    BY <1>1, <1>2 DEF Snapshot, Ledger
  <2> QED BY <2>1, RenderedIs
<1> HIDE DEF r
<1>6. i.kind = "open" /\ i.thread = j.thread
  BY <1>1 DEF JobRow
<1>7. \A k \in jobs' : ~k.owned \/ k = i
  BY <1>3, <1>4
<1> HIDE DEF i
<1>8. /\ tab'.signedIn /\ tab'.thread = j.thread /\ tab'.shown = log[j.thread] /\ tab'.back = Nobody /\ ~tab'.resume
      /\ tab'.gen \in {tab.gen, Nobody} /\ tab'.known = tab.known
  BY <1>1, <1>3, <1>4, <1>5 DEF TabRow
<1>9. Shows(tab', runs', past')
  BY <1>1, <1>2, <1>8, SnapshotShows
<1>10. Fits(tab', i, runs')
  BY <1>6, <1>8 DEF Fits, Placed, Reread
<1> QED BY <1>7, <1>9, <1>10, ViewAnew

LEMMA TakeReconnectView ==
  ASSUME Whole, runs' = runs, NEW j \in jobs, j.pc = "after", Owns(j), j.kind = "reconnect", j.aim = "view",
         NEW s \in Snapshot, s.msgs = log[j.thread], Take(j, s)
  PROVE  View(tab', jobs', runs', past')
<1>1. /\ tab \in TabRow /\ j \in JobRow /\ Shaped(j, runs, log) /\ Alone(tab, jobs) /\ Fits(tab, j, runs)
      /\ Serving(runs, log, live) /\ Tells(tab, jobs, runs) /\ Known(j.back, runs)
      /\ j.owned /\ j.fresh /\ tab.signedIn
  BY WholeIs DEF JobsFine, JobFine, Owns, Shaped
<1>2. /\ j.clears /\ j.back # Nobody /\ j.back \in Descriptor /\ j.back.thread = j.thread
      /\ j.thread \in Threads /\ Views(j)
  BY <1>1 DEF Shaped, Views, JobRow
<1>3. (\A k \in jobs \ {j} : ~Views(k)) /\ tab.back = j.back /\ tab.thread = j.thread
  <2>1. \A k \in jobs \ {j} : ~Views(k)
    BY <1>1, <1>2, OthersWait DEF Rereads
  <2>2. Beside(tab, j)
    BY <1>1, SharesView
  <2> QED BY <1>1, <1>2, <2>1, <2>2 DEF Beside, Fits, Placed
<1> DEFINE r == Rendered(tab, j.thread, s)
           g == IF j.back.gen # Nobody THEN j.back.gen ELSE s.live
           i == [j EXCEPT !.pc = "status", !.gen = g, !.before = s]
           q == [r EXCEPT !.gen = Nobody]
<1>4. \/ tab' = Settled(q, j) /\ jobs' = jobs \ {j}
      \/ tab' = r /\ jobs' = (jobs \ {j}) \cup {i}
  BY DEF Take, Becomes, Without
<1>5. /\ r \in TabRow /\ r.signedIn = tab.signedIn /\ r.thread = j.thread /\ r.gen = tab.gen /\ r.known = tab.known
      /\ r.back = tab.back /\ ~r.resume /\ r.shown = s.msgs
  <2>1. tab \in TabRow /\ j.thread \in Threads /\ s.msgs \in Ledger
    BY <1>1, <1>2 DEF Snapshot, Ledger
  <2> QED BY <2>1, RenderedIs
<1> HIDE DEF r
<1>6. /\ q \in TabRow /\ q.signedIn = tab.signedIn /\ q.thread = j.thread /\ q.gen = Nobody /\ q.known = tab.known
      /\ q.back = tab.back /\ ~q.resume /\ q.shown = s.msgs
  BY <1>5 DEF TabRow, TurnRef
<1> HIDE DEF q
<1>7. i.kind = "reconnect" /\ i.pc = "status" /\ i.thread = j.thread /\ i.before = s /\ i.back = j.back
      /\ i.busy = j.busy
  BY <1>1 DEF JobRow
<1> HIDE DEF i
<1>8. /\ tab'.signedIn /\ tab'.thread = j.thread /\ tab'.shown = log[j.thread] /\ ~tab'.resume
      /\ tab'.back # Nobody => tab'.back.thread = j.thread
      /\ tab'.gen \in {tab.gen, Nobody} /\ tab'.known = tab.known
  <2>1. CASE tab' = r
    BY <1>1, <1>2, <1>3, <1>5, <2>1
  <2>2. CASE tab' = Settled(q, j)
    <3>1. /\ tab'.signedIn = q.signedIn /\ tab'.thread = q.thread /\ tab'.shown = q.shown /\ tab'.gen = q.gen
          /\ tab'.known = q.known /\ tab'.back \in {q.back, Nobody} /\ tab'.resume = q.resume
      BY <1>6, <2>2, SettledFields
    <3> QED BY <1>1, <1>2, <1>3, <1>6, <3>1
  <2> QED BY <1>4, <2>1, <2>2
<1>9. Shows(tab', runs', past')
  BY <1>1, <1>2, <1>8, SnapshotShows
<1>10. Fits(tab', i, runs')
  <2>1. ~j.busy /\ j.back.gen # Nobody /\ j.back.known = "completed" /\ runs[j.back.gen].thread = j.thread
          => Answer(j.back.gen) \in Range(s.msgs)
    BY <1>1, <1>2 DEF Tells, Told, Serving, Descriptor
  <2> QED BY <1>7, <1>8, <2>1 DEF Fits, Placed, Reread
<1>11. Alongside(i, jobs) /\ tab'.thread = tab.thread
  BY <1>3, <1>7, <1>8 DEF Alongside
<1>12. \A k \in jobs' : (k \in jobs /\ ~Views(k)) \/ k = i
  BY <1>3, <1>4
<1> QED BY <1>9, <1>10, <1>11, <1>12, ViewLeft DEF Whole

LEMMA TakeFinalView ==
  ASSUME Whole, runs' = runs, NEW j \in jobs, j.pc = "after", Owns(j), j.aim = "final",
         NEW s \in Snapshot, s.msgs = log[j.thread], Take(j, s)
  PROVE  View(tab', jobs', runs', past')
<1>1. /\ tab \in TabRow /\ j \in JobRow /\ Shaped(j, runs, log) /\ Alone(tab, jobs) /\ Fits(tab, j, runs)
      /\ Shows(tab, runs, past) /\ j.owned /\ j.fresh /\ tab.signedIn
  BY WholeIs DEF JobsFine, JobFine, Owns
<1>2. j.kind \in {"stream", "reconnect"} /\ j.thread \in Threads /\ Views(j)
  BY <1>1 DEF Shaped, Views, JobRow
<1>3. /\ tab.thread = j.thread
      /\ tab.back # Nobody => tab.back.thread = j.thread
  BY <1>1, <1>2 DEF Fits, Placed, Shows
<1> DEFINE c == Cleared(tab)
           m == s.msgs
           shown == [c EXCEPT !.thread = j.thread, !.shown = m]
           held == [shown EXCEPT !.status = "finalizing"]
           won == [held EXCEPT !.final = Nobody, !.status = "completed"]
           lost == [held EXCEPT !.resume = TRUE]
<1>4. /\ \/ tab' = Settled(shown, j)
         \/ tab' = Settled(won, j)
         \/ tab' = Settled(lost, j) /\ FinalCurrent(FinalOf(j))
      /\ jobs' = jobs \ {j}
  BY <1>2 DEF Take, Without
<1>5. /\ c \in TabRow /\ c.signedIn = tab.signedIn /\ c.gen = tab.gen /\ c.known = tab.known
      /\ c.back = tab.back /\ c.final = tab.final /\ ~c.resume
  BY <1>1, ClearedIs
<1>6. m \in Ledger /\ j.thread \in ThreadRef /\ m = log[j.thread]
  BY <1>2 DEF Snapshot, Ledger, ThreadRef
<1> HIDE DEF c, m
<1>7. \A q \in {shown, won, lost} :
        /\ q \in TabRow /\ q.signedIn = tab.signedIn /\ q.gen = tab.gen /\ q.known = tab.known
        /\ q.back = tab.back /\ q.thread = j.thread /\ q.shown = m
        /\ q.resume => q = lost /\ q.final = tab.final
  <2>1. /\ shown \in TabRow /\ shown.signedIn = tab.signedIn /\ shown.gen = tab.gen /\ shown.known = tab.known
        /\ shown.back = tab.back /\ shown.final = tab.final /\ shown.thread = j.thread /\ shown.shown = m
        /\ ~shown.resume
    BY <1>5, <1>6 DEF TabRow
  <2> HIDE DEF shown
  <2>2. /\ held \in TabRow /\ held.signedIn = tab.signedIn /\ held.gen = tab.gen /\ held.known = tab.known
        /\ held.back = tab.back /\ held.final = tab.final /\ held.thread = j.thread /\ held.shown = m
        /\ ~held.resume
    BY <2>1 DEF TabRow
  <2> HIDE DEF held
  <2>3. "completed" \in Statuses
    BY DEF Statuses
  <2>4. /\ won \in TabRow /\ won.signedIn = tab.signedIn /\ won.gen = tab.gen /\ won.known = tab.known
        /\ won.back = tab.back /\ won.thread = j.thread /\ won.shown = m /\ ~won.resume
    BY <2>2, <2>3 DEF TabRow
  <2>5. /\ lost \in TabRow /\ lost.signedIn = tab.signedIn /\ lost.gen = tab.gen /\ lost.known = tab.known
        /\ lost.back = tab.back /\ lost.final = tab.final /\ lost.thread = j.thread /\ lost.shown = m
    BY <2>2 DEF TabRow
  <2> HIDE DEF won, lost
  <2> QED BY <2>1, <2>4, <2>5
<1>8. FinalCurrent(FinalOf(j)) => tab.final # Nobody
  <2>1. j.gen \in Turns
    BY <1>1 DEF Shaped, Of
  <2>2. FinalOf(j) \in [thread : Threads, gen : Turns]
    BY <1>2, <2>1 DEF FinalOf
  <2> QED BY <2>2, NobodyIs DEF FinalCurrent
<1> HIDE DEF shown, held, won
<1>9. PICK q \in {shown, won, lost} :
        tab' = Settled(q, j) /\ (q.resume => tab.final # Nobody)
  <2>1. CASE tab' = Settled(shown, j)
    <3>1. ~shown.resume
      BY <1>5, <1>6 DEF shown, TabRow
    <3> QED BY <2>1, <3>1
  <2>2. CASE tab' = Settled(won, j)
    <3>1. ~won.resume
      <4>1. ~c.resume
        BY <1>5
      <4> QED BY <1>5, <1>6, <4>1 DEF won, held, shown, TabRow
    <3> QED BY <2>2, <3>1
  <2>3. CASE tab' = Settled(lost, j) /\ FinalCurrent(FinalOf(j))
    BY <1>8, <2>3
  <2> QED BY <1>4, <2>1, <2>2, <2>3
<1> HIDE DEF lost
<1>10. /\ q \in TabRow /\ q.signedIn = tab.signedIn /\ q.gen = tab.gen /\ q.known = tab.known
       /\ q.back = tab.back /\ q.thread = j.thread /\ q.shown = m /\ (q.resume => q.final # Nobody)
  BY <1>7, <1>9
<1>11. /\ tab'.signedIn = q.signedIn /\ tab'.gen = q.gen /\ tab'.known = q.known
       /\ tab'.back \in {q.back, Nobody} /\ tab'.final = q.final /\ tab'.resume = q.resume
       /\ tab'.thread = q.thread /\ tab'.shown = q.shown
  BY <1>9, <1>10, SettledFields
<1>12. /\ tab'.signedIn /\ tab'.thread = j.thread /\ tab'.shown = log[j.thread]
       /\ tab'.back # Nobody => tab'.back.thread = j.thread
       /\ tab'.resume => tab'.final # Nobody
       /\ tab'.gen \in {tab.gen, Nobody} /\ tab'.known = tab.known
  BY <1>1, <1>3, <1>6, <1>10, <1>11
<1>13. Shows(tab', runs', past')
  BY <1>1, <1>2, <1>12, SnapshotShows
<1>14. ASSUME NEW k \in jobs \ {j}, k.owned
       PROVE  k.kind # "reconnect"
  BY <1>1, <1>2, <1>14 DEF Alone, Views, Pair
<1>15. \A k \in jobs' : k \in jobs /\ (k.owned => Reread(tab', k, runs))
  BY <1>4, <1>14 DEF Reread
<1> QED BY <1>3, <1>12, <1>13, <1>15, ViewThread DEF Whole

LEMMA TakeRefreshView ==
  ASSUME Whole, runs' = runs, NEW j \in jobs, j.pc = "after", Owns(j), j.aim = "refresh",
         NEW s \in Snapshot, s.msgs = log[j.thread], Take(j, s)
  PROVE  View(tab', jobs', runs', past')
<1>1. /\ tab \in TabRow /\ j \in JobRow /\ Shaped(j, runs, log) /\ Fits(tab, j, runs)
      /\ Shows(tab, runs, past) /\ Serving(runs, log, live) /\ j.owned /\ tab.signedIn
  BY WholeIs DEF JobsFine, JobFine, Owns
<1>2. /\ j.kind \in {"stream", "stop"} /\ j.thread \in Threads /\ j.gen \in Turns
      /\ runs[j.gen].status \in {"failed", "cancelled"}
  BY <1>1 DEF Shaped, JobRow, Of
<1>3. /\ tab.thread = j.thread
      /\ tab.back # Nobody => tab.back.thread = j.thread
  BY <1>1, <1>2 DEF Fits, Placed, Shows
<1> DEFINE r == Rendered(tab, j.thread, s)
           st == runs[j.gen].status
           q == [r EXCEPT !.status = st]
<1>4. tab' = Settled(q, j) /\ jobs' = jobs \ {j}
  BY <1>2 DEF Take, Without
<1>5. /\ r \in TabRow /\ r.signedIn = tab.signedIn /\ r.thread = j.thread /\ r.gen = tab.gen /\ r.known = tab.known
      /\ r.back = tab.back /\ ~r.resume /\ r.shown = s.msgs
  <2>1. tab \in TabRow /\ j.thread \in Threads /\ s.msgs \in Ledger
    BY <1>1, <1>2 DEF Snapshot, Ledger
  <2> QED BY <2>1, RenderedIs
<1>6. st \in {"failed", "cancelled"} /\ st \in Statuses
  BY <1>2 DEF Statuses
<1> HIDE DEF r, st
<1>7. /\ q \in TabRow /\ q.signedIn = r.signedIn /\ q.thread = r.thread /\ q.gen = r.gen /\ q.known = r.known
      /\ q.back = r.back /\ ~q.resume /\ q.shown = r.shown /\ q.status = st
  BY <1>5, <1>6 DEF TabRow
<1> HIDE DEF q
<1>8. /\ tab'.signedIn = q.signedIn /\ tab'.thread = q.thread /\ tab'.gen = q.gen /\ tab'.known = q.known
      /\ tab'.back \in {q.back, Nobody} /\ ~tab'.resume /\ tab'.shown = q.shown /\ tab'.status = q.status
  <2>1. /\ tab'.signedIn = q.signedIn /\ tab'.thread = q.thread /\ tab'.gen = q.gen /\ tab'.known = q.known
        /\ tab'.back \in {q.back, Nobody} /\ tab'.resume = q.resume /\ tab'.shown = q.shown /\ tab'.status = q.status
    BY <1>4, <1>7, SettledFields
  <2> QED BY <1>7, <2>1
<1>9. /\ tab'.signedIn /\ tab'.thread = j.thread /\ tab'.shown = log[j.thread] /\ ~tab'.resume
      /\ tab'.back # Nobody => tab'.back.thread = j.thread
      /\ tab'.gen \in {tab.gen, Nobody} /\ tab'.known = tab.known /\ tab'.status # "completed"
  BY <1>1, <1>3, <1>5, <1>6, <1>7, <1>8
<1>10. Shows(tab', runs', past')
  BY <1>1, <1>2, <1>9, SnapshotShows
<1>11. ASSUME NEW k \in jobs, k.owned
       PROVE  Reread(tab', k, runs)
  <2>1. k \in JobRow /\ Shaped(k, runs, log) /\ Fits(tab, k, runs)
    BY WholeIs DEF JobsFine, JobFine
  <2>2. CASE k.kind = "reconnect" /\ k.aim = "view" /\ k.pc = "status"
    <3>1. k.thread = j.thread /\ Range(k.before.msgs) \subseteq Range(log[k.thread])
      BY <1>3, <1>11, <2>1, <2>2 DEF Fits, Placed, Shaped
    <3> QED BY <1>9, <1>11, <2>1, <2>2, <3>1 DEF Fits, Reread
  <2>3. CASE ~(k.kind = "reconnect" /\ k.aim = "view" /\ k.pc = "status")
    BY <1>9, <2>3 DEF Reread
  <2> QED BY <2>2, <2>3
<1>12. \A k \in jobs' : k \in jobs /\ (k.owned => Reread(tab', k, runs))
  BY <1>4, <1>11
<1> QED BY <1>3, <1>9, <1>10, <1>12, ViewThread DEF Whole

LEMMA ReadAfterView ==
  ASSUME Whole, NEW j \in jobs, ReadAfter(j)
  PROVE  View(tab', jobs', runs', past')
<1> DEFINE s == [msgs |-> j.before.msgs, live |-> live[j.thread]]
<1>1. runs' = runs /\ j.pc = "after" /\ Owns(j) /\ Take(j, s) /\ j.before = Snap(j.thread)
  BY DEF ReadAfter, Stable, ledgers
<1>2. j \in JobRow /\ Shaped(j, runs, log) /\ Serving(runs, log, live)
  BY WholeIs DEF JobsFine, JobFine
<1>3. j.before \in Snapshot /\ j.thread \in Threads /\ j.kind \in {"open", "stream", "reconnect", "stop"}
  BY <1>1, <1>2 DEF Shaped, JobRow
<1>4. s \in Snapshot /\ s.msgs = log[j.thread]
  <2>1. live[j.thread] \in TurnRef
    BY <1>2, <1>3, ServerIs
  <2> QED BY <1>1, <1>3, <2>1 DEF Snapshot, TurnRef, Snap
<1> HIDE DEF s
<1>5. CASE j.kind = "open"
  BY <1>1, <1>4, <1>5, TakeOpenView
<1>6. CASE j.kind = "reconnect" /\ j.aim = "view"
  BY <1>1, <1>4, <1>6, TakeReconnectView
<1>7. CASE j.aim = "final"
  BY <1>1, <1>4, <1>7, TakeFinalView
<1>8. CASE j.aim = "refresh"
  BY <1>1, <1>4, <1>8, TakeRefreshView
<1> QED BY <1>2, <1>3, <1>1, <1>5, <1>6, <1>7, <1>8 DEF Shaped

-----------------------------------------------------------------------------
(* A read that fails.                                                       *)
LEMMA LeavesView ==
  ASSUME Whole, runs' = runs, tab' = tab, jobs' \subseteq jobs
  PROVE  View(tab', jobs', runs', past')
<1>1. Shows(tab', runs', past')
  BY WholeIs DEF Whole, Shows
<1>2. \A k \in jobs' : Fits(tab', k, runs')
  BY WholeIs
<1>3. Apart(jobs')
  BY WholeIs, ApartFew
<1> QED BY <1>1, <1>2, <1>3 DEF View

LEMMA ReconnectFailsView ==
  ASSUME Whole, runs' = runs, NEW j \in jobs, j.kind = "reconnect", j.aim = "view",
         AtSignIn(j), ~(tab.signedIn /\ ~j.fresh),
         tab' = Reinstated(tab, j), jobs' = jobs \ {j}
  PROVE  View(tab', jobs', runs', past')
<1>1. /\ tab \in TabRow /\ j \in JobRow /\ Shaped(j, runs, log) /\ Alone(tab, jobs) /\ Fits(tab, j, runs)
      /\ Shows(tab, runs, past) /\ past \subseteq past' /\ (\A k \in jobs : k.owned => tab.signedIn)
  BY WholeIs DEF JobsFine, JobFine, Whole
<1>2. /\ ~j.busy /\ j.clears /\ j.back # Nobody /\ j.back \in Descriptor /\ j.back.thread = j.thread
      /\ j.pc \in {"before", "after", "status"} /\ j.back.gen \in TurnRef
  BY <1>1 DEF AtSignIn, Shaped, JobRow, Descriptor, TurnRef
<1>3. /\ tab'.signedIn = tab.signedIn /\ tab'.known = tab.known /\ tab'.shown = tab.shown /\ tab'.status = tab.status
      /\ tab'.thread = j.thread /\ tab'.gen = HeldBy(j.back) /\ tab'.back = j.back
  <2>1. tab \in TabRow /\ j \in JobRow /\ (j.clears => j.back # Nobody) /\ tab' = Reinstated(tab, j)
    BY <1>1, <1>2
  <2>2. /\ tab'.signedIn = tab.signedIn /\ tab'.known = tab.known /\ tab'.shown = tab.shown
        /\ tab'.status = tab.status
        /\ AtSignIn(j) => tab'.thread = j.back.thread /\ tab'.gen = HeldBy(j.back) /\ tab'.back = j.back
    BY <2>1, ReinstatedIs
  <2> QED BY <1>2, <2>2
<1>4. CASE tab.signedIn
  <2>1. j.owned /\ Views(j)
    BY <1>1, <1>4 DEF Alone, Keeps, Views
  <2>2. \A k \in jobs \ {j} : ~Views(k)
    BY <1>1, <2>1, OthersWait DEF Rereads
  <2>3. tab.back = j.back /\ tab.known \in {j.back.known, "cancelled"}
    BY <1>1, <1>2, <2>1, SharesView DEF Beside
  <2>4. tab.thread = j.thread /\ tab.thread # Nobody
    BY <1>1, <2>1, NobodyIs DEF Fits, Placed, Shaped
  <2>5. Tale(tab') /\ runs[tab'.gen].thread = tab'.thread => Answer(tab'.gen) \in Range(tab'.shown)
    <3> SUFFICES ASSUME Tale(tab'), runs[tab'.gen].thread = tab'.thread
                 PROVE  Answer(tab'.gen) \in Range(tab'.shown)
      OBVIOUS
    <3>1. j.back.known = "completed" /\ tab.status = "completed"
      BY <1>3, <2>3 DEF Tale
    <3>2. tab'.gen = j.back.gen /\ j.back.gen # Nobody
      BY <1>3 DEF Tale, HeldBy
    <3>3. Reread(tab, j, runs)
      BY <1>1, <2>1 DEF Fits
    <3>4. j.pc = "status"
      BY <1>2, <3>1, <3>3 DEF Reread
    <3> QED BY <1>2, <1>3, <3>1, <3>2, <3>3, <3>4 DEF Reread
  <2>6. Shows(tab', runs', past')
    BY <1>1, <1>2, <1>3, <1>4, <2>4, <2>5 DEF Shows
  <2>7. \A k \in jobs' : k \in jobs /\ ~Views(k)
    BY <2>2
  <2> QED BY <1>3, <2>4, <2>6, <2>7, ViewEnds DEF Whole
<1>5. CASE ~tab.signedIn
  <2>1. tab'.shown = << >> /\ tab'.status # "completed" /\ ~tab'.signedIn
    BY <1>1, <1>3, <1>5 DEF Shows, Blank
  <2>2. DOMAIN << >> = {}
    OBVIOUS
  <2>3. Shows(tab', runs', past')
    BY <2>1, <2>2 DEF Shows, Blank, Tale
  <2>4. \A k \in jobs' : ~k.owned
    BY <1>1, <1>5
  <2> QED BY <2>3, <2>4, ViewNone
<1> QED BY <1>4, <1>5

LEMMA FinalFailsView ==
  ASSUME Whole, runs' = runs, NEW j \in jobs, j.aim = "final",
         tab' = Settled(IF Owns(j) THEN Paused(FinalOf(j)) ELSE tab, j), jobs' = jobs \ {j}
  PROVE  View(tab', jobs', runs', past')
<1>1. /\ tab \in TabRow /\ j \in JobRow /\ Shaped(j, runs, log) /\ Alone(tab, jobs)
      /\ Shows(tab, runs, past) /\ past \subseteq past'
      /\ j.fresh => tab.signedIn
      /\ j.owned => j.fresh
  BY WholeIs DEF JobsFine, JobFine, Whole
<1>2. j.kind \in {"stream", "reconnect"} /\ j.thread \in Threads /\ j.gen \in Turns
  BY <1>1 DEF Shaped, JobRow, Of
<1>3. CASE ~Owns(j)
  <2>1. ~j.fresh
    BY <1>1, <1>2, <1>3 DEF Owns, Alone, Keeps
  <2>2. tab' = Settled(tab, j)
    BY <1>3
  <2>3. tab' = tab
    BY <2>1, <2>2, SettledNot
  <2> QED BY <2>3, LeavesView
<1>4. CASE Owns(j)
  <2> DEFINE q == Paused(FinalOf(j))
  <2>1. ~tab.resume
    <3>1. Views(j) /\ Beside(tab, j)
      BY <1>1, <1>2, <1>4, SharesView DEF Views, Owns
    <3> QED BY <1>2, <3>1 DEF Beside
  <2>2. FinalCurrent(FinalOf(j)) => tab.final # Nobody
    <3>1. FinalOf(j) \in [thread : Threads, gen : Turns]
      BY <1>2 DEF FinalOf
    <3> QED BY <3>1, NobodyIs DEF FinalCurrent
  <2>3. /\ q \in TabRow /\ q.signedIn = tab.signedIn /\ q.thread = tab.thread /\ q.gen = tab.gen
        /\ q.known = tab.known /\ q.back = tab.back /\ q.final = tab.final /\ q.shown = tab.shown
        /\ q.status \in {tab.status, "finalizing"} /\ (q.resume => tab.final # Nobody)
    <3>1. CASE FinalCurrent(FinalOf(j))
      BY <1>1, <2>2, <3>1 DEF Paused, TabRow
    <3>2. CASE ~FinalCurrent(FinalOf(j))
      BY <1>1, <2>1, <3>2 DEF Paused
    <3> QED BY <3>1, <3>2
  <2>4. tab' = Settled(q, j)
    BY <1>4
  <2> HIDE DEF q
  <2>5. /\ tab'.signedIn = tab.signedIn /\ tab'.thread = tab.thread /\ tab'.gen = tab.gen /\ tab'.known = tab.known
        /\ tab'.back \in {tab.back, Nobody} /\ tab'.final = tab.final /\ tab'.shown = tab.shown
        /\ tab'.status \in {tab.status, "finalizing"} /\ (tab'.resume => tab'.final # Nobody)
    <3>1. /\ tab'.signedIn = q.signedIn /\ tab'.thread = q.thread /\ tab'.gen = q.gen /\ tab'.known = q.known
          /\ tab'.back \in {q.back, Nobody} /\ tab'.final = q.final /\ tab'.shown = q.shown
          /\ tab'.status = q.status /\ tab'.resume = q.resume
      BY <2>3, <2>4, SettledFields
    <3> QED BY <2>3, <3>1
  <2>6. tab'.status = "completed" => tab.status = "completed"
    BY <2>5
  <2>7. Shows(tab', runs', past')
    BY <1>1, <2>5, <2>6, ShowsStill DEF Tale
  <2> QED BY <2>5, <2>6, <2>7, ViewLess DEF Whole
<1> QED BY <1>3, <1>4

LEMMA RefreshFailsView ==
  ASSUME Whole, runs' = runs, NEW j \in jobs, j.aim = "refresh",
         tab' = Settled([tab EXCEPT !.status = runs[j.gen].status, !.resume = FALSE], j), jobs' = jobs \ {j}
  PROVE  View(tab', jobs', runs', past')
<1>1. /\ tab \in TabRow /\ Shaped(j, runs, log) /\ Shows(tab, runs, past) /\ past \subseteq past'
  BY WholeIs DEF JobsFine, JobFine, Whole
<1> DEFINE st == runs[j.gen].status
           q == [tab EXCEPT !.status = st, !.resume = FALSE]
<1>2. st \in {"failed", "cancelled"} /\ st \in Statuses /\ tab' = Settled(q, j)
  BY <1>1 DEF Shaped, Statuses
<1> HIDE DEF st
<1>3. /\ q \in TabRow /\ q.signedIn = tab.signedIn /\ q.thread = tab.thread /\ q.back = tab.back
      /\ q.shown = tab.shown /\ q.status = st /\ ~q.resume
  BY <1>1, <1>2 DEF TabRow
<1> HIDE DEF q
<1>4. /\ tab'.signedIn = tab.signedIn /\ tab'.thread = tab.thread /\ tab'.back \in {tab.back, Nobody}
      /\ tab'.shown = tab.shown /\ tab'.status # "completed" /\ ~tab'.resume
  <2>1. /\ tab'.signedIn = q.signedIn /\ tab'.thread = q.thread /\ tab'.back \in {q.back, Nobody}
        /\ tab'.shown = q.shown /\ tab'.status = q.status /\ tab'.resume = q.resume
    BY <1>2, <1>3, SettledFields
  <2> QED BY <1>2, <1>3, <2>1
<1>5. Shows(tab', runs', past')
  BY <1>1, <1>4, ShowsStill DEF Tale
<1> QED BY <1>4, <1>5, ViewLess DEF Whole

LEMMA FailsView ==
  ASSUME Whole, NEW j \in jobs, Fails(j)
  PROVE  View(tab', jobs', runs', past')
<1>1. /\ runs' = runs /\ tab' = Failed(j) /\ jobs' = jobs \ {j}
      /\ ~(tab.signedIn /\ ~j.fresh /\ AtSignIn(j))
  BY DEF Fails, Without, ledgers, Notes, Whole, Calm
<1>2. j \in JobRow
  BY WholeIs DEF JobsFine, JobFine
<1>3. CASE tab' = tab
  BY <1>1, <1>3, LeavesView
<1>4. CASE j.aim = "view"
  <2>1. CASE ~(j.kind = "reconnect" /\ (Owns(j) \/ j.pc # "status"))
    BY <1>1, <1>3, <1>4, <2>1, FailedIs
  <2>2. CASE j.kind = "reconnect" /\ (Owns(j) \/ j.pc # "status")
    <3>1. tab' = Reinstated(tab, j)
      BY <1>1, <1>4, <2>2, FailedIs
    <3>2. CASE ~AtSignIn(j)
      BY <1>3, <3>1, <3>2 DEF Reinstated
    <3>3. CASE AtSignIn(j)
      BY <1>1, <1>4, <2>2, <3>1, <3>3, ReconnectFailsView
    <3> QED BY <3>2, <3>3
  <2> QED BY <2>1, <2>2
<1>5. CASE j.aim = "final"
  BY <1>1, <1>5, FailedIs, FinalFailsView
<1>6. CASE j.aim = "refresh"
  BY <1>1, <1>6, FailedIs, RefreshFailsView
<1> QED BY <1>2, <1>4, <1>5, <1>6 DEF JobRow

LEMMA ExpiredView ==
  ASSUME Whole, NEW j \in jobs, Expired(j)
  PROVE  View(tab', jobs', runs', past')
<1>1. runs' = runs /\ Reading(j)
  BY DEF Expired, ledgers
<1>2. j \in JobRow /\ Shaped(j, runs, log)
  BY WholeIs DEF JobsFine, JobFine
<1>3. CASE j.kind = "stop" \/ (j.kind = "open" /\ ~Owns(j))
  <2>1. tab' = Failed(j) /\ jobs' = jobs \ {j}
    BY <1>3 DEF Expired, Without
  <2>2. CASE j.kind = "open"
    <3>1. j.aim = "view"
      BY <1>2, <2>2 DEF Shaped
    <3>2. tab' = tab
      BY <2>1, <2>2, <3>1, FailedIs
    <3> QED BY <1>1, <2>1, <3>2, LeavesView
  <2>3. CASE j.kind = "stop"
    <3>1. j.aim = "refresh"
      BY <1>1, <1>2, <2>3 DEF Shaped, Reading
    <3> QED BY <1>1, <2>1, <3>1, FailedIs, RefreshFailsView
  <2> QED BY <1>3, <2>2, <2>3
<1>4. CASE ~(j.kind = "stop" \/ (j.kind = "open" /\ ~Owns(j)))
  <2>1. \E back : Recovers(back, jobs \ {j})
    BY <1>4 DEF Expired, Without
  <2>2. jobs \ {j} \subseteq jobs
    OBVIOUS
  <2> QED BY <1>1, <2>1, <2>2, RecoversView
<1> QED BY <1>3, <1>4

-----------------------------------------------------------------------------
LEMMA PastGrows ==
  ASSUME [StreamNext]_streamVars
  PROVE  past \subseteq past'
<1>1. \A what : \A case \in BOOLEAN : Notes(what, case) => past \subseteq past'
  BY DEF Notes
<1>2. \A back, js : Recovers(back, js) \/ SignsOut(back, js) => past \subseteq past'
  BY DEF Recovers, SignsOut, Notes
<1>3. CASE \E t \in Threads : OpenThread(t) \/ SendTurn(t)
  BY <1>3 DEF OpenThread, SendTurn, Notes
<1>4. CASE NewConversation \/ SwitchModes \/ StopRun \/ ResumeView \/ SignIn
  BY <1>4 DEF NewConversation, SwitchModes, StopRun, ResumeView, SignIn
<1>5. CASE FindsExpired
  BY <1>2, <1>5 DEF FindsExpired
<1>6. ASSUME NEW j \in jobs,
             \/ Deliver(j) \/ Terminal(j) \/ Breaks(j) \/ Probe(j) \/ Interrupted(j)
             \/ ReadBefore(j) \/ Again(j) \/ ReadAfter(j)
             \/ Listed(j) \/ Created(j) \/ Uncancelled(j)
             \/ \E g \in Turns : Sent(j, g)
      PROVE  past \subseteq past'
  BY <1>6 DEF Deliver, Terminal, Breaks, Probe, Interrupted, ReadBefore, Again, ReadAfter, Listed, Created,
              Uncancelled, Sent
<1>7. ASSUME NEW j \in jobs, StreamExpired(j) \/ Expired(j) \/ Unsent(j)
      PROVE  past \subseteq past'
  <2>1. past' = past \/ \E back, js : Recovers(back, js)
    BY <1>7 DEF StreamExpired, Expired, Unsent
  <2> QED BY <1>2, <2>1
<1>8. ASSUME NEW j \in jobs, Fails(j) \/ Status(j) \/ Cancelled(j)
      PROVE  past \subseteq past'
  BY <1>8 DEF Fails, Status, Cancelled, Notes
<1>9. CASE ServerRuns \/ Elsewhere \/ Expire \/ UNCHANGED streamVars
  BY <1>9 DEF ServerRuns, Elsewhere, Expire, streamVars
<1> QED BY <1>3, <1>4, <1>5, <1>6, <1>7, <1>8, <1>9 DEF StreamNext

LEMMA ViewStarts ==
  ASSUME StreamInit
  PROVE  ViewInv
<1>1. tab.shown = << >> /\ tab.status = "idle" /\ ~tab.resume /\ tab.back = Nobody /\ jobs = {}
  BY DEF StreamInit
<1>2. DOMAIN << >> = {}
  OBVIOUS
<1>3. Shows(tab, runs, past)
  BY <1>1, <1>2 DEF Shows, Blank, Tale
<1> QED BY <1>1, <1>3, ViewNone DEF ViewInv

LEMMA ViewSteps ==
  ASSUME StreamInv, ViewInv, [StreamNext]_streamVars
  PROVE  ViewInv'
<1> SUFFICES ASSUME Calm(past'), "swapped" \notin past'
             PROVE  View(tab', jobs', runs', past')
  BY DEF ViewInv
<1>1. Whole
  <2>1. past \subseteq past'
    BY PastGrows
  <2> QED BY <2>1 DEF Whole, ViewInv, Calm
<1>2. CASE \E t \in Threads : OpenThread(t) \/ SendTurn(t)
  <2>1. ASSUME NEW t \in Threads, OpenThread(t)
        PROVE  View(tab', jobs', runs', past')
    <3>1. runs' = runs
      BY <2>1 DEF OpenThread, ledgers
    <3> QED BY <1>1, <2>1, <3>1, MovesView
  <2> QED BY <1>1, <1>2, <2>1, SendTurnView
<1>3. CASE NewConversation \/ SwitchModes
  <2>1. runs' = runs
    BY <1>3 DEF NewConversation, SwitchModes, ledgers
  <2> QED BY <1>1, <1>3, <2>1, MovesView
<1>4. CASE StopRun \/ ResumeView \/ FindsExpired \/ SignIn
  BY <1>1, <1>4, StopRunView, ResumeViewView, SignedOutView, SignInView
<1>5. ASSUME NEW j \in jobs,
             \/ Deliver(j) \/ Terminal(j) \/ Breaks(j) \/ Probe(j) \/ Interrupted(j) \/ StreamExpired(j)
             \/ ReadBefore(j) \/ Again(j) \/ ReadAfter(j) \/ Fails(j) \/ Expired(j) \/ Status(j)
             \/ Listed(j) \/ Created(j) \/ Unsent(j) \/ Cancelled(j) \/ Uncancelled(j)
             \/ \E g \in Turns : Sent(j, g)
      PROVE  View(tab', jobs', runs', past')
  <2>1. CASE Deliver(j) \/ Terminal(j) \/ Breaks(j) \/ Probe(j) \/ Interrupted(j)
    BY <1>1, <2>1, DeliverView, TerminalView, ReadingView
  <2>2. CASE StreamExpired(j) \/ Unsent(j)
    BY <1>1, <2>2, SignedOutView
  <2>3. CASE ReadBefore(j) \/ Again(j) \/ ReadAfter(j) \/ Fails(j) \/ Expired(j) \/ Status(j)
    BY <1>1, <2>3, ReadingView, ReadAfterView, FailsView, ExpiredView, StatusView
  <2>4. CASE Listed(j) \/ Created(j) \/ Uncancelled(j)
    BY <1>1, <2>4, ListedView, CreatedView, UncancelledView
  <2>5. CASE Cancelled(j)
    BY <1>1, <2>5, CancelledView
  <2>6. CASE \E g \in Turns : Sent(j, g)
    BY <1>1, <2>6, SentView
  <2> QED BY <1>5, <2>1, <2>2, <2>3, <2>4, <2>5, <2>6
<1>6. CASE ServerRuns \/ Elsewhere \/ Expire \/ UNCHANGED streamVars
  BY <1>1, <1>6, OutsideView
<1> QED BY <1>2, <1>3, <1>4, <1>5, <1>6 DEF StreamNext

(* While no send was barged into, no failure came late and no Stop was      *)
(* answered after the user moved on, the page shows one conversation, and   *)
(* whoever has its view waits for that conversation's thread.               *)
THEOREM ViewInductive == StreamSpec => [](StreamInv /\ ViewInv)
<1>1. StreamInit => StreamInv /\ ViewInv
  BY StreamStartsFine, ViewStarts
<1>2. StreamInv /\ ViewInv /\ [StreamNext]_streamVars => (StreamInv /\ ViewInv)'
  BY StreamSteps, ViewSteps
<1> QED BY <1>1, <1>2, PTL DEF StreamSpec

(* The page shows one conversation: its messages and the text it follows    *)
(* are of the thread it would send to, and a generation it says completed   *)
(* is shown with its answer.                                                *)
THEOREM ConversationIsOne == StreamSpec => []OneConversation
<1>1. StreamInv /\ ViewInv => OneConversation
  <2> SUFFICES ASSUME StreamInv, ViewInv, Never({"swapped", "barged", "late"})
               PROVE  /\ \A i \in DOMAIN tab.shown : runs[tab.shown[i].gen].thread = tab.thread
                      /\ \A j \in Following : j.thread = tab.thread
                      /\ (/\ tab.status = "completed" /\ tab.gen # Nobody /\ tab.known = "completed"
                          /\ runs[tab.gen].thread = tab.thread /\ Never({"raced"})) =>
                           Answer(tab.gen) \in Range(tab.shown)
    BY DEF OneConversation
  <2>1. View(tab, jobs, runs, past)
    BY DEF ViewInv, Never, Calm
  <2>2. ASSUME NEW j \in Following PROVE j.thread = tab.thread
    <3>1. j \in jobs /\ j.kind = "stream"
      BY DEF Following, Streaming
    <3>2. j.owned
      BY <3>1 DEF StreamInv, StreamFine, JobsFine, JobFine, Shaped
    <3> QED BY <2>1, <3>1, <3>2 DEF View, Fits, Placed
  <2>3. Never({"raced"}) => "raced" \notin past
    BY DEF Never
  <2> QED BY <2>1, <2>2, <2>3 DEF View, Shows, Tale
<1> QED BY <1>1, ViewInductive, PTL
=============================================================================
