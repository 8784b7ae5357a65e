--------------------------- MODULE ChatLedgerProofs ---------------------------
(***************************************************************************)
(* Proofs about the ledger of DirectChatStore (ChatLedger): the types and  *)
(* limits of its tables, the audit that every transaction runs, the        *)
(* receipts of retried calls, and the conversation it implements.          *)
(*                                                                         *)
(* A step touches the rows of one thread.  Move(t) says what it may do to  *)
(* them, without keys and receipts; every action is shown to be a move,    *)
(* and what is proved afterwards is proved about moves.                    *)
(***************************************************************************)
EXTENDS ChatLedger, TLAPS, FiniteSetTheorems, FunctionTheorems, SequenceTheorems,
        WellFoundedInduction

-----------------------------------------------------------------------------
(* Lists.                                                                  *)

\* A bounded set of numbers that is not empty has a largest one.
LEMMA LargestNumber ==
  ASSUME NEW S \in SUBSET Nat, S # {}, NEW b \in Nat, \A x \in S : x <= b
  PROVE  \E x \in S : \A y \in S : y <= x
<1> DEFINE Below == {n \in Nat : b - n \in S}
<1>1. Below # {} /\ Below \subseteq Nat
  <2>1. PICK x \in S : TRUE
    OBVIOUS
  <2>2. b - x \in Below
    BY <2>1
  <2> QED BY <2>2
<1>2. PICK n \in Below : \A m \in Below : ~(<<m, n>> \in OpToRel(<, Nat))
  BY <1>1, WFMin, NatLessThanWellFounded, Zenon
<1>3. \A m \in Below : ~(m < n)
  BY <1>1, <1>2 DEF OpToRel
<1>4. ASSUME NEW y \in S
      PROVE  y <= b - n
  <2>1. n \in Nat /\ y \in Nat /\ y <= b
    BY <1>1
  <2>2. b - y \in Nat /\ b - (b - y) = y
    BY <2>1
  <2>3. b - y \in Below
    BY <2>2
  <2>4. ~(b - y < n)
    BY <2>3, <1>3
  <2> QED BY <2>1, <2>2, <2>4
<1> QED BY <1>4

\* Of a thinned list: its type, its length, and where its entries come from.
LEMMA ThinnedList ==
  ASSUME NEW S, NEW list \in Seq(S), NEW keep \in SUBSET DOMAIN list,
         NEW new \in Thinned(list, keep)
  PROVE  /\ new \in Seq(S)
         /\ Len(new) <= Len(list)
         /\ \E at \in [DOMAIN new -> keep] :
              /\ \A n \in DOMAIN new : new[n] = list[at[n]]
              /\ \A m, n \in DOMAIN new : at[m] = at[n] => m = n
              /\ \A i \in keep : \E n \in DOMAIN new : at[n] = i
<1> DEFINE size == Cardinality(keep)
<1>1. size \in Nat /\ size <= Len(list)
  <2>1. Len(list) \in Nat /\ DOMAIN list = 1 .. Len(list)
    OBVIOUS
  <2>2. IsFiniteSet(1 .. Len(list)) /\ Cardinality(1 .. Len(list)) <= Len(list)
    BY <2>1, FS_Interval
  <2>3. IsFiniteSet(keep) /\ size <= Cardinality(1 .. Len(list))
    BY <2>1, <2>2, FS_Subset
  <2>4. size \in Nat /\ Cardinality(1 .. Len(list)) \in Nat
    BY <2>2, <2>3, FS_CardinalityType
  <2> QED BY <2>1, <2>2, <2>3, <2>4
<1>2. PICK at \in Bijection(1 .. size, keep) : new = [n \in 1 .. size |-> list[at[n]]]
  BY DEF Thinned
<1>3. /\ \A n \in 1 .. size : at[n] \in keep
      /\ \A m, n \in 1 .. size : at[m] = at[n] => m = n
      /\ \A i \in keep : \E n \in 1 .. size : at[n] = i
      /\ at \in [1 .. size -> keep]
  BY <1>2 DEF Bijection, Injection, Surjection, IsInjective
<1>4. \A n \in 1 .. size : list[at[n]] \in S
  BY <1>3
<1>5. new \in Seq(S) /\ Len(new) = size /\ DOMAIN new = 1 .. size
  <2>1. new \in [1 .. size -> S]
    BY <1>2, <1>4
  <2> QED BY <1>1, <2>1
<1> HIDE DEF size
<1> QED BY <1>1, <1>2, <1>3, <1>5

LEMMA NewestList ==
  ASSUME NEW S, NEW list \in Seq(S), NEW limit \in Nat
  PROVE  /\ Newest(list, limit) \in Seq(S)
         /\ Len(Newest(list, limit)) <= limit
         /\ \E k \in Nat : \A n \in DOMAIN Newest(list, limit) :
              n + k \in DOMAIN list /\ Newest(list, limit)[n] = list[n + k]
<1>1. CASE Len(list) > limit
  <2> DEFINE first == Len(list) - limit + 1
             cut == SubSeq(list, first, Len(list))
  <2>1. first \in Int /\ first >= 1 /\ Len(list) \in Nat /\ Len(list) - first + 1 = limit
    BY <1>1
  <2>2. \A i \in first .. Len(list) : list[i] \in S
    BY <2>1
  <2>3. /\ cut \in Seq(S)
        /\ Len(cut) = limit
        /\ \A i \in 1 .. limit : cut[i] = list[first + i - 1]
    <3> HIDE DEF first
    <3>1. /\ cut \in Seq(S)
          /\ Len(cut) = IF first <= Len(list) THEN Len(list) - first + 1 ELSE 0
          /\ \A i \in 1 .. Len(list) - first + 1 : cut[i] = list[first + i - 1]
      BY <2>1, <2>2, SubSeqProperties
    <3> QED BY <2>1, <3>1
  <2>4. Newest(list, limit) = cut
    BY <1>1 DEF Newest
  <2>5. first - 1 \in Nat
    BY <2>1
  <2>6. ASSUME NEW n \in 1 .. limit
        PROVE  n + (first - 1) \in DOMAIN list /\ cut[n] = list[n + (first - 1)]
    <3>1. n + (first - 1) \in DOMAIN list /\ n + (first - 1) = first + n - 1
      BY <2>1
    <3> HIDE DEF first, cut
    <3> QED BY <2>3, <3>1
  <2>7. DOMAIN cut = 1 .. limit
    <3> HIDE DEF cut
    <3> QED BY <2>3
  <2> HIDE DEF first, cut
  <2> QED BY <2>3, <2>4, <2>5, <2>6, <2>7
<1>2. CASE ~(Len(list) > limit)
  <2>1. Newest(list, limit) = list
    BY <1>2 DEF Newest
  <2>2. \A n \in DOMAIN list : n + 0 \in DOMAIN list /\ list[n] = list[n + 0]
    OBVIOUS
  <2>3. \E k \in Nat : \A n \in DOMAIN list : n + k \in DOMAIN list /\ list[n] = list[n + k]
    <3> WITNESS 0 \in Nat
    <3> QED BY <2>2
  <2>4. Len(list) <= limit
    BY <1>2
  <2> QED BY <2>1, <2>3, <2>4
<1> QED BY <1>1, <1>2

LEMMA KeptList ==
  ASSUME NEW S, receipts \in Seq(S), NEW limit, NEW gone \in Expired(limit)
  PROVE  /\ Kept(gone) \in Seq(S)
         /\ Len(Kept(gone)) <= Len(receipts)
         /\ \A n \in DOMAIN Kept(gone) : \E i \in DOMAIN receipts : Kept(gone)[n] = receipts[i]
<1>1. gone \in Nat /\ gone <= Len(receipts) /\ Len(receipts) \in Nat
  BY DEF Expired
<1>2. \A i \in gone + 1 .. Len(receipts) : receipts[i] \in S
  BY <1>1
<1>3. /\ Kept(gone) \in Seq(S)
      /\ Len(Kept(gone)) = IF gone + 1 <= Len(receipts) THEN Len(receipts) - (gone + 1) + 1 ELSE 0
      /\ \A i \in 1 .. Len(receipts) - (gone + 1) + 1 : Kept(gone)[i] = receipts[gone + 1 + i - 1]
  <2>1. gone + 1 \in Int /\ Len(receipts) \in Int
    BY <1>1
  <2> QED BY <1>2, <2>1, SubSeqProperties DEF Kept
<1>4. ASSUME NEW n \in DOMAIN Kept(gone)
      PROVE  gone + n \in DOMAIN receipts /\ Kept(gone)[n] = receipts[gone + n]
  <2>1. n \in 1 .. Len(Kept(gone)) /\ Len(Kept(gone)) \in Nat
    BY <1>3
  <2> DEFINE length == Len(Kept(gone))
  <2>2. length = IF gone + 1 <= Len(receipts) THEN Len(receipts) - (gone + 1) + 1 ELSE 0
    BY <1>3
  <2>3. n \in 1 .. length /\ length \in Nat
    BY <2>1
  <2> HIDE DEF length
  <2>4. n \in Nat /\ 1 <= n /\ n <= Len(receipts) - gone /\ gone + 1 + n - 1 = gone + n
    BY <1>1, <2>2, <2>3
  <2>5. n \in 1 .. Len(receipts) - (gone + 1) + 1
    BY <1>1, <2>4
  <2> QED BY <1>1, <1>3, <2>4, <2>5
<1> QED BY <1>1, <1>3, <1>4

\* What a call that records itself leaves in the table of receipts.
LEMMA RecordedList ==
  ASSUME receipts \in Seq(Request), NEW q \in Request, Record(q)
  PROVE  /\ receipts' \in Seq(Request) /\ Len(receipts') <= MaxReceipts
         /\ \A n \in DOMAIN receipts' :
              receipts'[n] = q \/ \E i \in DOMAIN receipts : receipts'[n] = receipts[i]
<1>1. PICK gone \in Expired(CleanupRows) : receipts' = Newest(Append(Kept(gone), q), MaxReceipts)
  BY DEF Record
<1> DEFINE all == Append(Kept(gone), q)
<1>2. MaxReceipts \in Nat /\ CleanupRows \in Nat
  BY BoundAssumption
<1>3. /\ Kept(gone) \in Seq(Request)
      /\ \A n \in DOMAIN Kept(gone) : \E i \in DOMAIN receipts : Kept(gone)[n] = receipts[i]
  BY <1>2, KeptList
<1>4. /\ all \in Seq(Request)
      /\ \A n \in DOMAIN all : all[n] = q \/ \E i \in DOMAIN receipts : all[n] = receipts[i]
  BY <1>3, AppendProperties
<1> HIDE DEF all
<1>5. receipts' = Newest(all, MaxReceipts)
  BY <1>1 DEF all
<1> QED BY <1>2, <1>4, <1>5, NewestList

-----------------------------------------------------------------------------
(* The rows of a generation and the calls, field by field.                 *)

RowIs(row, status, source, reply, vision, deltas, pruned, code) ==
  /\ row \in Generation
  /\ row.status = status /\ row.source = source /\ row.reply = reply
  /\ row.vision = vision /\ row.deltas = deltas /\ row.pruned = pruned /\ row.code = code

LEMMA RowTypes ==
  ASSUME NEW row \in Generation
  PROVE  /\ row.status \in {"absent", "in_progress"} \cup Ended
         /\ row.source \in Nat /\ row.reply \in Ids \cup {None}
         /\ row.vision \in BOOLEAN /\ row.deltas \in BOOLEAN /\ row.pruned \in BOOLEAN
         /\ row.code \in Codes \cup {None}
BY DEF Generation

LEMMA AbsentRow == RowIs(NoRow, "absent", 0, None, FALSE, FALSE, FALSE, None)
BY DEF RowIs, NoRow, Generation

LEMMA StartedRow ==
  ASSUME NEW r \in Nat, NEW a \in Ids, NEW v \in BOOLEAN
  PROVE  RowIs(Started(r, a, v), "in_progress", r, a, v, FALSE, FALSE, None)
BY DEF RowIs, Started, NoRow, Generation

LEMMA DeltaRow ==
  ASSUME NEW row \in Generation
  PROVE  RowIs([row EXCEPT !.deltas = TRUE],
               row.status, row.source, row.reply, row.vision, TRUE, row.pruned, row.code)
BY DEF RowIs, Generation

LEMMA PrunedRow ==
  ASSUME NEW row \in Generation
  PROVE  RowIs(Pruned(row),
               row.status, row.source, row.reply, row.vision, row.deltas, TRUE, row.code)
BY DEF RowIs, Pruned, Generation

LEMMA CompletedRow ==
  ASSUME NEW row \in Generation
  PROVE  RowIs([row EXCEPT !.status = "completed"],
               "completed", row.source, row.reply, row.vision, row.deltas, row.pruned, row.code)
BY DEF RowIs, Generation, Ended

LEMMA EndedRow ==
  ASSUME NEW row \in Generation, NEW end \in {"cancelled", "failed"}, NEW c \in Codes \cup {None}
  PROVE  RowIs([row EXCEPT !.status = end, !.code = c],
               end, row.source, row.reply, row.vision, row.deltas, row.pruned, c)
BY DEF RowIs, Generation, Ended

CallIs(q, kind, k, t, rev, id, gen, reply, pic, code, text) ==
  /\ q \in Request
  /\ q.kind = kind /\ q.key = k /\ q.thread = t /\ q.rev = rev /\ q.id = id
  /\ q.gen = gen /\ q.reply = reply /\ q.pic = pic /\ q.code = code /\ q.text = text

Kinds == {"create", "send", "turn", "begin", "finalize", "cancel", "fail", "compact"}

LEMMA BlankCall ==
  ASSUME NEW kind \in Kinds, NEW k \in Keys, NEW t \in Threads
  PROVE  CallIs(Blank(kind, k, t), kind, k, t, 0, None, None, None, FALSE, None, 0)
BY DEF CallIs, Blank, Request, Kinds

LEMMA SendCall ==
  ASSUME NEW k \in Keys, NEW t \in Threads, NEW m \in Ids, NEW r \in Nat
  PROVE  CallIs([Blank("send", k, t) EXCEPT !.id = m, !.rev = r],
                "send", k, t, r, m, None, None, FALSE, None, 0)
BY DEF CallIs, Blank, Request

LEMMA BeginCall ==
  ASSUME NEW k \in Keys, NEW t \in Threads, NEW r \in Nat, NEW g \in Gens, NEW a \in Ids \cup {None}
  PROVE  CallIs([Blank("begin", k, t) EXCEPT !.rev = r, !.gen = g, !.reply = a],
                "begin", k, t, r, None, g, a, FALSE, None, 0)
BY DEF CallIs, Blank, Request

LEMMA EndCall ==
  ASSUME NEW kind \in {"finalize", "cancel", "fail"}, NEW k \in Keys, NEW t \in Threads,
         NEW g \in Gens, NEW c \in Codes \cup {None}
  PROVE  /\ CallIs([Blank(kind, k, t) EXCEPT !.gen = g], kind, k, t, 0, None, g, None, FALSE, None, 0)
         /\ CallIs([Blank(kind, k, t) EXCEPT !.gen = g, !.code = c],
                   kind, k, t, 0, None, g, None, FALSE, c, 0)
BY DEF CallIs, Blank, Request

LEMMA CompactCall ==
  ASSUME NEW k \in Keys, NEW t \in Threads, NEW s \in Snaps, NEW r \in Nat, NEW x \in Nat
  PROVE  CallIs([Blank("compact", k, t) EXCEPT !.id = s, !.rev = r, !.text = x],
                "compact", k, t, r, s, None, None, FALSE, None, x)
BY DEF CallIs, Blank, Request

-----------------------------------------------------------------------------
(* The invariant, one thread at a time.                                    *)

\* An identifier that was promised to an answer is free until the answer takes it.
RowFine(t, g) ==
  /\ gens[t][g].reply \in Ids
  /\ gens[t][g].status = "in_progress" => ~Used(t, gens[t][g].reply)

Fine(t) ==
  /\ deletions[t] # None <=> thread[t] = "deleted"
  /\ thread[t] # "live" => ledger[t] = <<>> /\ Rows(t) = {} /\ snaps[t] = <<>>
  /\ ThreadAudit(t)
  /\ \A g \in Rows(t) : RowFine(t, g)
  /\ \A i, j \in DOMAIN snaps[t] : snaps[t][i].id = snaps[t][j].id => i = j

IInv == TypeOK /\ \A t \in Threads : Fine(t)

-----------------------------------------------------------------------------
(* The moves of a thread.                                                  *)

Same(t) ==
  /\ thread'[t] = thread[t] /\ ledger'[t] = ledger[t] /\ gens'[t] = gens[t]
  /\ current'[t] = current[t] /\ snaps'[t] = snaps[t] /\ deletions'[t] = deletions[t]

Elsewhere(t) == \A u \in Threads \ {t} : Same(u)

\* The move leaves alone what is not named.
Idles(t) == thread[t] = "live" /\ thread'[t] = "live" /\ deletions'[t] = deletions[t]
SameRows(t, apart) == \A h \in Gens \ apart : gens'[t][h] = gens[t][h]
SameTalk(t) == ledger'[t] = ledger[t]
SameSums(t) == snaps'[t] = snaps[t]

Opens(t) ==
  /\ thread[t] = "unborn" /\ thread'[t] = "live" /\ deletions'[t] = deletions[t]
  /\ SameTalk(t) /\ SameRows(t, {}) /\ current'[t] = current[t] /\ SameSums(t)

Free(t, m) == m \in Ids /\ ~Used(t, m) /\ ~Reserved(t, m)

Says(t, m, pic) ==
  /\ Idles(t) /\ current[t] = None /\ Free(t, m) /\ pic \in BOOLEAN
  /\ ledger'[t] = Append(ledger[t], UserMessage(m, pic))
  /\ SameSums(t)

Starts(t, g, r, a, v) ==
  /\ g \in Gens /\ gens[t][g].status = "absent" /\ current[t] = None /\ Free(t, a)
  /\ RowIs(gens'[t][g], "in_progress", r, a, v, FALSE, FALSE, None)
  /\ SameRows(t, {g}) /\ current'[t] = g

Sends(t, m) == Says(t, m, FALSE) /\ SameRows(t, {}) /\ current'[t] = None

Asks(t, m, pic, g, a) ==
  /\ Says(t, m, pic) /\ m # a
  /\ Starts(t, g, Revision(t) + 1, a, pic \/ Seen(t, Revision(t)))

Begins(t, g, a) ==
  /\ Idles(t) /\ FromUser(t, Revision(t))
  /\ Starts(t, g, Revision(t), a, Seen(t, Revision(t)))
  /\ SameTalk(t) /\ SameSums(t)

\* One row of the thread changes, none of what it was started with.
Becomes(t, g, status, deltas, pruned, code) ==
  /\ g \in Gens
  /\ LET row == gens[t][g]
     IN RowIs(gens'[t][g], status, row.source, row.reply, row.vision, deltas, pruned, code)

Runs(t, g) == g \in Gens /\ gens[t][g].status = "in_progress" /\ current[t] = g

Writes(t, g) ==
  /\ Idles(t) /\ Runs(t, g)
  /\ Becomes(t, g, gens[t][g].status, TRUE, gens[t][g].pruned, gens[t][g].code)
  /\ SameTalk(t) /\ SameSums(t) /\ SameRows(t, {g}) /\ current'[t] = g

AnswerOf(t, g) == [id |-> gens[t][g].reply, role |-> "assistant", gen |-> g, pic |-> FALSE]

Answers(t, g) ==
  /\ Idles(t) /\ Runs(t, g) /\ gens[t][g].deltas /\ gens[t][g].source = Revision(t)
  /\ ledger'[t] = Append(ledger[t], AnswerOf(t, g))
  /\ Becomes(t, g, "completed", gens[t][g].deltas, gens[t][g].pruned, gens[t][g].code)
  /\ SameSums(t) /\ SameRows(t, {g}) /\ current'[t] = None

Stops(t, g, end, c) ==
  /\ Idles(t) /\ Runs(t, g) /\ end \in {"cancelled", "failed"}
  /\ Becomes(t, g, end, gens[t][g].deltas, gens[t][g].pruned, c)
  /\ SameTalk(t) /\ SameSums(t) /\ SameRows(t, {g}) /\ current'[t] = None

Sum == [id : Snaps, last : Nat, text : Nat]

Sums(t, s) ==
  /\ Idles(t) /\ s \in Sum /\ s.last \in 1 .. Revision(t)
  /\ \A i \in DOMAIN snaps[t] : snaps[t][i].id # s.id
  /\ snaps'[t] = Append(snaps[t], s)
  /\ SameTalk(t) /\ SameRows(t, {}) /\ current'[t] = current[t]

Forgets(t) ==
  /\ thread[t] = "live" /\ current[t] = None /\ ~Unresolved(t)
  /\ thread'[t] = "deleted" /\ deletions'[t] # None
  /\ ledger'[t] = <<>> /\ snaps'[t] = <<>> /\ current'[t] = None
  /\ \A h \in Gens : gens'[t][h] = NoRow

\* Every snapshot that goes leaves one behind that ends where it does, or later.
Prunes(t) ==
  /\ thread'[t] = thread[t] /\ deletions'[t] = deletions[t]
  /\ SameTalk(t) /\ current'[t] = current[t]
  /\ \A h \in Gens :
       \/ gens'[t][h] = gens[t][h]
       \/ gens[t][h].status = "completed"
          /\ Becomes(t, h, "completed", gens[t][h].deltas, TRUE, gens[t][h].code)
  /\ \E at \in [DOMAIN snaps'[t] -> DOMAIN snaps[t]] :
       /\ \A j \in DOMAIN snaps'[t] : snaps'[t][j] = snaps[t][at[j]]
       /\ \A i, j \in DOMAIN snaps'[t] : at[i] = at[j] => i = j
  /\ \A i \in DOMAIN snaps[t] : \E j \in DOMAIN snaps'[t] : snaps'[t][j].last >= snaps[t][i].last

Move(t) ==
  \/ Same(t)
  \/ Opens(t) \/ Forgets(t) \/ Prunes(t)
  \/ \E m \in Ids : Sends(t, m)
  \/ \E m, a \in Ids, g \in Gens, pic \in BOOLEAN : Asks(t, m, pic, g, a)
  \/ \E g \in Gens, a \in Ids : Begins(t, g, a)
  \/ \E g \in Gens : Writes(t, g) \/ Answers(t, g)
  \/ \E g \in Gens, c \in Codes \cup {None}, end \in {"cancelled", "failed"} : Stops(t, g, end, c)
  \/ \E s \in Sum : Sums(t, s)

\* A call that is about a generation names one.
Formed(q) == q.kind \in {"turn", "begin", "finalize", "cancel", "fail"} => q.gen \in Gens

\* What is in the table of receipts after a step was there before, and its thread
\* is still there, or it is the receipt of a call whose rows are there now.
Has(q) == \E i \in DOMAIN receipts : receipts[i] = q
Stays(t) == thread[t] = "live" => thread'[t] = "live"
Filed ==
  \A q \in Request : Has(q)' => \/ Has(q) /\ Stays(q.thread)
                                \/ Formed(q) /\ Effect(q)'

Stepped(t) == TypeOK' /\ Move(t) /\ Elsewhere(t) /\ Filed

-----------------------------------------------------------------------------
(* Every action is a move.                                                 *)

LEMMA ThreadTypes ==
  ASSUME TypeOK, NEW t \in Threads
  PROVE  /\ thread[t] \in {"unborn", "live", "deleted"}
         /\ ledger[t] \in Seq(Message) /\ Revision(t) \in Nat /\ Revision(t) <= MaxMessages
         /\ DOMAIN ledger[t] = 1 .. Revision(t)
         /\ gens[t] \in [Gens -> Generation] /\ \A g \in Gens : gens[t][g] \in Generation
         /\ current[t] \in Gens \cup {None}
         /\ snaps[t] \in Seq(Sum) /\ Len(snaps[t]) <= MaxSnaps
         /\ deletions[t] \in [key : Keys, rev : Nat] \cup {None}
<1>1. ledger[t] \in Seq(Message) /\ Len(ledger[t]) <= MaxMessages
      /\ snaps[t] \in Seq(Sum) /\ Len(snaps[t]) <= MaxSnaps
  BY DEF TypeOK, Sum
<1>2. Revision(t) \in Nat /\ Revision(t) <= MaxMessages /\ DOMAIN ledger[t] = 1 .. Revision(t)
  BY <1>1 DEF Revision
<1>3. gens[t] \in [Gens -> Generation] /\ \A g \in Gens : gens[t][g] \in Generation
  BY DEF TypeOK
<1> QED BY <1>1, <1>2, <1>3 DEF TypeOK

\* The generation a thread points at is the one that runs, and the thread is live.
LEMMA Running ==
  ASSUME IInv, NEW t \in Threads, NEW g \in Gens,
         current[t] = g \/ gens[t][g].status = "in_progress"
  PROVE  thread[t] = "live" /\ Runs(t, g)
<1>1. g \in Rows(t)
  BY NullAssumption DEF IInv, Fine, ThreadAudit, Rows
<1>2. gens[t][g].status = "in_progress" <=> current[t] = g
  BY <1>1 DEF IInv, Fine, ThreadAudit, GenerationAudit
<1> QED BY <1>1, <1>2 DEF IInv, Fine, Runs

LEMMA NothingFiled ==
  ASSUME \A u \in Threads : Stays(u), receipts' \in Seq(Request),
         \A n \in DOMAIN receipts' : \E i \in DOMAIN receipts : receipts'[n] = receipts[i]
  PROVE  Filed
<1>1. ASSUME NEW q \in Request, Has(q)'
      PROVE  Has(q) /\ Stays(q.thread)
  <2>1. Has(q)
    BY <1>1 DEF Has
  <2>2. q.thread \in Threads
    BY DEF Request
  <2> QED BY <2>1, <2>2
<1> QED BY <1>1 DEF Filed

LEMMA CallFiled ==
  ASSUME TypeOK, NEW q \in Request, Formed(q), Record(q), Effect(q)', \A u \in Threads : Stays(u)
  PROVE  Filed /\ receipts' \in Seq(Request) /\ Len(receipts') <= MaxReceipts
<1>1. /\ receipts' \in Seq(Request) /\ Len(receipts') <= MaxReceipts
      /\ \A n \in DOMAIN receipts' :
           receipts'[n] = q \/ \E i \in DOMAIN receipts : receipts'[n] = receipts[i]
  BY RecordedList DEF TypeOK
<1>2. ASSUME NEW p \in Request, Has(p)'
      PROVE  p = q \/ (Has(p) /\ Stays(p.thread))
  <2>1. PICK n \in DOMAIN receipts' : receipts'[n] = p
    BY <1>2 DEF Has
  <2>2. p = q \/ Has(p)
    BY <1>1, <2>1 DEF Has
  <2>3. p.thread \in Threads
    BY DEF Request
  <2> QED BY <2>2, <2>3
<1> QED BY <1>1, <1>2 DEF Filed

LEMMA KeptFiled ==
  ASSUME TypeOK, NEW limit, NEW gone \in Expired(limit), receipts' = Kept(gone),
         \A u \in Threads : Stays(u)
  PROVE  Filed /\ receipts' \in Seq(Request) /\ Len(receipts') <= MaxReceipts
<1>1. /\ receipts' \in Seq(Request) /\ Len(receipts') <= Len(receipts)
      /\ \A n \in DOMAIN receipts' : \E i \in DOMAIN receipts : receipts'[n] = receipts[i]
  BY KeptList DEF TypeOK
<1>2. Len(receipts) <= MaxReceipts /\ Len(receipts) \in Nat /\ Len(receipts') \in Nat
      /\ MaxReceipts \in Nat
  BY <1>1, BoundAssumption DEF TypeOK
<1> QED BY <1>1, <1>2, NothingFiled

\* What an action leaves as it was in every thread but one.
LEMMA LeftAlone ==
  ASSUME TypeOK, NEW t \in Threads,
         \/ thread' = thread
         \/ \E x : thread' = [thread EXCEPT ![t] = x],
         \/ ledger' = ledger
         \/ \E x : ledger' = [ledger EXCEPT ![t] = x],
         \/ gens' = gens
         \/ \E x : gens' = [gens EXCEPT ![t] = x],
         \/ current' = current
         \/ \E x : current' = [current EXCEPT ![t] = x],
         \/ snaps' = snaps
         \/ \E x : snaps' = [snaps EXCEPT ![t] = x],
         \/ deletions' = deletions
         \/ \E x : deletions' = [deletions EXCEPT ![t] = x]
  PROVE  Elsewhere(t)
BY DEF Elsewhere, Same, TypeOK

LEMMA StaysAll ==
  ASSUME TypeOK, NEW t \in Threads, Elsewhere(t), Stays(t)
  PROVE  \A u \in Threads : Stays(u)
BY DEF Elsewhere, Same, Stays

LEMMA CreateMoves ==
  ASSUME IInv, NEW k \in Keys, NEW t \in Threads, CreateThread(k, t)
  PROVE  Stepped(t)
<1> DEFINE q == Blank("create", k, t)
<1>1. /\ CallIs(q, "create", k, t, 0, None, None, None, FALSE, None, 0)
      /\ thread[t] = "unborn" /\ Record(q)
      /\ thread' = [thread EXCEPT ![t] = "live"]
      /\ ledger' = ledger /\ gens' = gens /\ current' = current /\ snaps' = snaps
      /\ deletions' = deletions
  BY BlankCall DEF CreateThread, Fresh, Kinds
<1> HIDE DEF q
<1>2. TypeOK /\ q \in Request /\ Formed(q)
  BY <1>1 DEF IInv, CallIs, Formed
<1>3. thread'[t] = "live" /\ thread' \in [Threads -> {"unborn", "live", "deleted"}]
  BY <1>1, <1>2 DEF TypeOK
<1>4. Elsewhere(t)
  BY <1>1, <1>2, LeftAlone
<1>5. Effect(q)'
  BY <1>1, <1>3 DEF Effect, CallIs
<1>6. Filed /\ receipts' \in Seq(Request) /\ Len(receipts') <= MaxReceipts
  BY <1>1, <1>2, <1>3, <1>4, <1>5, StaysAll, CallFiled DEF Stays
<1>7. TypeOK'
  BY <1>1, <1>2, <1>3, <1>6 DEF TypeOK
<1>8. Opens(t)
  BY <1>1, <1>3 DEF Opens, SameTalk, SameRows, SameSums
<1> QED BY <1>4, <1>6, <1>7, <1>8 DEF Stepped, Move

LEMMA NewMessage ==
  ASSUME TypeOK, NEW t \in Threads, NEW msg \in Message,
         ledger' = [ledger EXCEPT ![t] = Append(@, msg)], Revision(t) < MaxMessages
  PROVE  /\ ledger' \in [Threads -> Seq(Message)]
         /\ ledger'[t] = Append(ledger[t], msg)
         /\ \A u \in Threads : Len(ledger'[u]) <= MaxMessages
<1>1. Append(ledger[t], msg) \in Seq(Message) /\ Len(Append(ledger[t], msg)) = Revision(t) + 1
  BY ThreadTypes, AppendProperties DEF Revision
<1>2. Revision(t) + 1 <= MaxMessages
  BY ThreadTypes, BoundAssumption
<1> QED BY <1>1, <1>2 DEF TypeOK

LEMMA NewRow ==
  ASSUME TypeOK, NEW t \in Threads, NEW g \in Gens, NEW row \in Generation,
         gens' = [gens EXCEPT ![t][g] = row]
  PROVE  /\ gens' \in [Threads -> [Gens -> Generation]]
         /\ gens'[t][g] = row /\ SameRows(t, {g})
BY DEF TypeOK, SameRows

LEMMA NewCurrent ==
  ASSUME TypeOK, NEW t \in Threads, NEW c \in Gens \cup {None}, current' = [current EXCEPT ![t] = c]
  PROVE  current' \in [Threads -> Gens \cup {None}] /\ current'[t] = c
BY DEF TypeOK

\* What a longer ledger says of the messages it had, and of the one it got.
LEMMA Longer ==
  ASSUME TypeOK, NEW t \in Threads, NEW msg \in Message, ledger'[t] = Append(ledger[t], msg)
  PROVE  /\ Revision(t)' = Revision(t) + 1 /\ DOMAIN ledger'[t] = 1 .. Revision(t) + 1
         /\ \A i \in 1 .. Revision(t) : ledger'[t][i] = ledger[t][i]
         /\ ledger'[t][Revision(t) + 1] = msg
         /\ \A r \in 0 .. Revision(t) : Seen(t, r)' <=> Seen(t, r)
         /\ \A r \in 0 .. Revision(t) : FromUser(t, r)' <=> FromUser(t, r)
         /\ \A r \in Nat : r = Revision(t) + 1 => (Seen(t, r)' <=> msg.pic \/ Seen(t, Revision(t)))
         /\ \A r \in Nat : r = Revision(t) + 1 => (FromUser(t, r)' <=> msg.role = "user")
         /\ \A m \in Ids : Used(t, m)' <=> Used(t, m) \/ msg.id = m
<1>1. ledger[t] \in Seq(Message) /\ Revision(t) \in Nat /\ DOMAIN ledger[t] = 1 .. Revision(t)
  BY ThreadTypes
<1>2. /\ ledger'[t] \in Seq(Message) /\ Revision(t)' = Revision(t) + 1
      /\ DOMAIN ledger'[t] = 1 .. Revision(t) + 1
      /\ \A i \in 1 .. Revision(t) : ledger'[t][i] = ledger[t][i]
      /\ ledger'[t][Revision(t) + 1] = msg
  BY <1>1, AppendProperties DEF Revision
<1>3. \A r \in 0 .. Revision(t) : Seen(t, r)' <=> Seen(t, r)
  BY <1>1, <1>2 DEF Seen
<1>4. \A r \in 0 .. Revision(t) : FromUser(t, r)' <=> FromUser(t, r)
  BY <1>1, <1>2 DEF FromUser
<1>5. \A r \in Nat : r = Revision(t) + 1 => (Seen(t, r)' <=> msg.pic \/ Seen(t, Revision(t)))
  BY <1>1, <1>2 DEF Seen
<1>6. \A r \in Nat : r = Revision(t) + 1 => (FromUser(t, r)' <=> msg.role = "user")
  BY <1>1, <1>2 DEF FromUser
<1>7. \A m \in Ids : Used(t, m)' <=> Used(t, m) \/ msg.id = m
  BY <1>1, <1>2 DEF Used
<1> QED BY <1>2, <1>3, <1>4, <1>5, <1>6, <1>7

LEMMA UserMessageIs ==
  ASSUME NEW m \in Ids, NEW pic \in BOOLEAN
  PROVE  /\ UserMessage(m, pic) \in Message /\ UserMessage(m, pic).id = m
         /\ UserMessage(m, pic).role = "user" /\ UserMessage(m, pic).pic = pic
BY DEF UserMessage, Message

LEMMA AppendableIs ==
  ASSUME TypeOK, NEW t \in Threads, NEW m \in Ids, NEW r \in Revisions(t), Appendable(t, m, r)
  PROVE  /\ thread[t] = "live" /\ current[t] = None /\ r = Revision(t) /\ r \in Nat
         /\ Revision(t) < MaxMessages /\ Free(t, m)
BY DEF Appendable, Free, Revisions

LEMMA SendMoves ==
  ASSUME IInv, NEW k \in Keys, NEW t \in Threads, NEW m \in Ids, NEW r \in Revisions(t),
         SendUserMessage(k, t, m, r)
  PROVE  Stepped(t)
<1> DEFINE q == [Blank("send", k, t) EXCEPT !.id = m, !.rev = r]
           msg == UserMessage(m, FALSE)
<1>1. /\ TypeOK /\ Appendable(t, m, r) /\ Record(q)
      /\ ledger' = [ledger EXCEPT ![t] = Append(@, msg)]
      /\ thread' = thread /\ gens' = gens /\ current' = current /\ snaps' = snaps
      /\ deletions' = deletions
  BY DEF SendUserMessage, Fresh, IInv
<1>2. /\ thread[t] = "live" /\ current[t] = None /\ r = Revision(t) /\ r \in Nat
      /\ Revision(t) < MaxMessages /\ Free(t, m)
  BY <1>1, AppendableIs
<1>3. CallIs(q, "send", k, t, r, m, None, None, FALSE, None, 0)
  BY <1>2, SendCall
<1>4. msg \in Message /\ msg.id = m /\ msg.role = "user" /\ msg.pic = FALSE
  BY UserMessageIs
<1> HIDE DEF q, msg
<1>5. q \in Request /\ Formed(q) /\ q.rev + 1 = Revision(t) + 1 /\ q.rev + 1 \in Nat
  BY <1>2, <1>3 DEF CallIs, Formed
<1>6. /\ ledger' \in [Threads -> Seq(Message)] /\ ledger'[t] = Append(ledger[t], msg)
      /\ \A u \in Threads : Len(ledger'[u]) <= MaxMessages
  BY <1>1, <1>2, <1>4, NewMessage
<1>7. Elsewhere(t)
  BY <1>1, LeftAlone
<1>8. Effect(q)'
  <2>1. FromUser(t, q.rev + 1)' /\ ledger'[t][q.rev + 1].id = q.id
    BY <1>1, <1>3, <1>4, <1>5, <1>6, Longer DEF CallIs
  <2> QED BY <1>1, <1>2, <1>3, <2>1 DEF Effect, CallIs, Said
<1>9. Filed /\ receipts' \in Seq(Request) /\ Len(receipts') <= MaxReceipts
  BY <1>1, <1>5, <1>7, <1>8, StaysAll, CallFiled DEF Stays
<1>10. TypeOK'
  BY <1>1, <1>6, <1>9 DEF TypeOK
<1>11. Sends(t, m)
  BY <1>1, <1>2, <1>6 DEF msg, Sends, Says, Idles, SameRows, SameSums
<1> QED BY <1>7, <1>9, <1>10, <1>11 DEF Stepped, Move

LEMMA StartableIs ==
  ASSUME NEW t \in Threads, NEW g \in Gens, NEW a \in Ids, Startable(t, g, a)
  PROVE  current[t] = None /\ gens[t][g].status = "absent" /\ Free(t, a)
BY DEF Startable, Free

LEMMA TurnMoves ==
  ASSUME IInv, NEW k \in Keys, NEW t \in Threads, NEW m \in Ids, NEW g \in Gens, NEW a \in Ids,
         NEW r \in Revisions(t), NEW pic \in BOOLEAN, StartTurn(k, t, m, g, a, r, pic)
  PROVE  Stepped(t)
<1> DEFINE q == [Blank("turn", k, t) EXCEPT !.id = m, !.rev = r, !.gen = g, !.reply = a, !.pic = pic]
           msg == UserMessage(m, pic)
           vision == pic \/ Seen(t, r)
           row == Started(r + 1, a, vision)
<1>1. /\ TypeOK /\ m # a /\ Appendable(t, m, r) /\ Startable(t, g, a) /\ Record(q)
      /\ ledger' = [ledger EXCEPT ![t] = Append(@, msg)]
      /\ gens' = [gens EXCEPT ![t][g] = row]
      /\ current' = [current EXCEPT ![t] = g]
      /\ thread' = thread /\ snaps' = snaps /\ deletions' = deletions
  BY DEF StartTurn, Fresh, IInv
<1>2. /\ thread[t] = "live" /\ current[t] = None /\ r = Revision(t) /\ r \in Nat
      /\ Revision(t) < MaxMessages /\ Free(t, m)
  BY <1>1, AppendableIs
<1>3. gens[t][g].status = "absent" /\ Free(t, a)
  BY <1>1, StartableIs
<1>4. CallIs(q, "turn", k, t, r, m, g, a, pic, None, 0)
  <2>1. r \in Nat /\ a \in Ids \cup {None}
    BY <1>2
  <2> QED BY <2>1 DEF CallIs, Blank, Request
<1>5. msg \in Message /\ msg.id = m /\ msg.role = "user" /\ msg.pic = pic
  BY UserMessageIs
<1>6. vision \in BOOLEAN /\ (vision <=> pic \/ Seen(t, Revision(t)))
  BY <1>2 DEF Seen
<1> HIDE DEF vision
<1>7. RowIs(row, "in_progress", r + 1, a, vision, FALSE, FALSE, None) /\ r + 1 \in Nat
  <2>1. r + 1 \in Nat
    BY <1>2
  <2> QED BY <1>6, <2>1, StartedRow, Zenon
<1> HIDE DEF q, msg, row
<1>8. /\ ledger' \in [Threads -> Seq(Message)] /\ ledger'[t] = Append(ledger[t], msg)
      /\ \A u \in Threads : Len(ledger'[u]) <= MaxMessages
  BY <1>1, <1>2, <1>5, NewMessage
<1>9. gens' \in [Threads -> [Gens -> Generation]] /\ gens'[t][g] = row /\ SameRows(t, {g})
  BY <1>1, <1>7, NewRow DEF RowIs
<1>10. current' \in [Threads -> Gens \cup {None}] /\ current'[t] = g
  BY <1>1, NewCurrent
<1>11. Elsewhere(t)
  <2>1. gens' = [gens EXCEPT ![t] = [gens[t] EXCEPT ![g] = row]]
    BY <1>1
  <2> QED BY <1>1, <2>1, LeftAlone
<1>12. q \in Request /\ Formed(q) /\ q.rev + 1 = Revision(t) + 1 /\ q.rev + 1 \in Nat
  BY <1>2, <1>4 DEF CallIs, Formed
<1>13. Effect(q)'
  <2>1. /\ FromUser(t, q.rev + 1)' /\ ledger'[t][q.rev + 1].id = q.id
        /\ ledger'[t][q.rev + 1].pic = q.pic /\ (Seen(t, q.rev + 1)' <=> pic \/ Seen(t, Revision(t)))
    BY <1>1, <1>4, <1>5, <1>8, <1>12, Longer DEF CallIs
  <2>2. row.vision = Seen(t, q.rev + 1)'
    BY <1>6, <1>7, <2>1 DEF RowIs, Seen
  <2>3. gens'[t][q.gen] = row /\ row.status # "absent" /\ row.reply = q.reply /\ row.source = q.rev + 1
    BY <1>4, <1>7, <1>9 DEF CallIs, RowIs
  <2> QED BY <1>1, <1>2, <1>4, <2>1, <2>2, <2>3 DEF Effect, CallIs, Said
<1>14. Filed /\ receipts' \in Seq(Request) /\ Len(receipts') <= MaxReceipts
  BY <1>1, <1>11, <1>12, <1>13, StaysAll, CallFiled DEF Stays
<1>15. TypeOK'
  BY <1>1, <1>8, <1>9, <1>10, <1>14 DEF TypeOK
<1>16. Asks(t, m, pic, g, a)
  <2>1. Says(t, m, pic)
    BY <1>1, <1>2, <1>8 DEF msg, Says, Idles, SameSums
  <2>2. vision = (pic \/ Seen(t, Revision(t)))
    BY <1>6 DEF Seen
  <2>3. Starts(t, g, Revision(t) + 1, a, pic \/ Seen(t, Revision(t)))
    BY <1>2, <1>3, <1>7, <1>9, <1>10, <2>2 DEF Starts
  <2> QED BY <1>1, <2>1, <2>3 DEF Asks
<1> QED BY <1>11, <1>14, <1>15, <1>16 DEF Stepped, Move

LEMMA BeginMoves ==
  ASSUME IInv, NEW k \in Keys, NEW t \in Threads, NEW g \in Gens, NEW a \in Ids,
         NEW r \in Revisions(t), StartGeneration(k, t, g, a, r)
  PROVE  Stepped(t)
<1> DEFINE q == [Blank("begin", k, t) EXCEPT !.rev = r, !.gen = g, !.reply = a]
           vision == Seen(t, r)
           row == Started(r, a, vision)
<1>1. /\ TypeOK /\ thread[t] = "live" /\ Startable(t, g, a) /\ r = Revision(t) /\ FromUser(t, r)
      /\ Record(q)
      /\ gens' = [gens EXCEPT ![t][g] = row]
      /\ current' = [current EXCEPT ![t] = g]
      /\ thread' = thread /\ ledger' = ledger /\ snaps' = snaps /\ deletions' = deletions
  BY DEF StartGeneration, Fresh, IInv
<1>2. r \in Nat
  BY <1>1, ThreadTypes
<1>3. current[t] = None /\ gens[t][g].status = "absent" /\ Free(t, a)
  BY <1>1, StartableIs
<1>4. CallIs(q, "begin", k, t, r, None, g, a, FALSE, None, 0)
  BY <1>2, BeginCall
<1>5. vision \in BOOLEAN /\ vision = Seen(t, Revision(t))
  BY <1>1 DEF Seen
<1>6. vision = Seen(t, r)'
  BY <1>1 DEF Seen
<1> HIDE DEF vision
<1>7. RowIs(row, "in_progress", r, a, vision, FALSE, FALSE, None)
  BY <1>2, <1>5, StartedRow
<1> HIDE DEF q, row
<1>8. gens' \in [Threads -> [Gens -> Generation]] /\ gens'[t][g] = row /\ SameRows(t, {g})
  BY <1>1, <1>7, NewRow DEF RowIs
<1>9. current' \in [Threads -> Gens \cup {None}] /\ current'[t] = g
  BY <1>1, NewCurrent
<1>10. Elsewhere(t)
  <2>1. gens' = [gens EXCEPT ![t] = [gens[t] EXCEPT ![g] = row]]
    BY <1>1
  <2> QED BY <1>1, <2>1, LeftAlone
<1>11. Effect(q)'
  <2>1. /\ gens'[t][q.gen] = row /\ row.status # "absent" /\ row.reply = q.reply
        /\ row.source = q.rev /\ row.vision = Seen(t, q.rev)'
    BY <1>4, <1>6, <1>7, <1>8 DEF CallIs, RowIs
  <2> QED BY <1>1, <1>4, <2>1 DEF Effect, CallIs
<1>12. Filed /\ receipts' \in Seq(Request) /\ Len(receipts') <= MaxReceipts
  BY <1>1, <1>4, <1>10, <1>11, StaysAll, CallFiled DEF Stays, CallIs, Formed
<1>13. TypeOK'
  BY <1>1, <1>8, <1>9, <1>12 DEF TypeOK
<1>14. Begins(t, g, a)
  <2>1. Starts(t, g, Revision(t), a, Seen(t, Revision(t)))
    BY <1>1, <1>3, <1>5, <1>7, <1>8, <1>9 DEF Starts
  <2> QED BY <1>1, <2>1 DEF Begins, Idles, SameTalk, SameSums
<1> QED BY <1>10, <1>12, <1>13, <1>14 DEF Stepped, Move

LEMMA DeltaMoves ==
  ASSUME IInv, NEW t \in Threads, NEW g \in Gens, AppendDelta(t, g)
  PROVE  Stepped(t)
<1> DEFINE row == [gens[t][g] EXCEPT !.deltas = TRUE]
<1>1. /\ TypeOK /\ current[t] = g
      /\ gens' = [gens EXCEPT ![t][g].deltas = TRUE]
      /\ thread' = thread /\ ledger' = ledger /\ current' = current /\ snaps' = snaps
      /\ deletions' = deletions /\ receipts' = receipts
  BY DEF AppendDelta, IInv
<1>2. thread[t] = "live" /\ Runs(t, g)
  BY <1>1, Running
<1>3. Becomes(t, g, gens[t][g].status, TRUE, gens[t][g].pruned, gens[t][g].code)
        <=> RowIs(gens'[t][g], gens[t][g].status, gens[t][g].source, gens[t][g].reply,
                  gens[t][g].vision, TRUE, gens[t][g].pruned, gens[t][g].code)
  BY DEF Becomes
<1>4. RowIs(row, gens[t][g].status, gens[t][g].source, gens[t][g].reply, gens[t][g].vision,
            TRUE, gens[t][g].pruned, gens[t][g].code)
  BY <1>1, DeltaRow, ThreadTypes
<1>5. gens' = [gens EXCEPT ![t][g] = row]
  BY <1>1
<1>6. row \in Generation /\ TypeOK
  BY <1>4 DEF RowIs, IInv
<1> HIDE DEF row
<1>7. gens' \in [Threads -> [Gens -> Generation]] /\ gens'[t][g] = row /\ SameRows(t, {g})
  BY <1>5, <1>6, NewRow
<1>8. Elsewhere(t)
  <2>1. gens' = [gens EXCEPT ![t] = [gens[t] EXCEPT ![g] = row]]
    BY <1>5
  <2> QED BY <1>1, <2>1, LeftAlone
<1>9. Filed
  BY <1>1, <1>8, StaysAll, NothingFiled DEF Stays, TypeOK
<1>10. TypeOK'
  BY <1>1, <1>7 DEF TypeOK
<1>11. Writes(t, g)
  BY <1>1, <1>2, <1>3, <1>4, <1>7 DEF Writes, Idles, SameTalk, SameSums
<1> QED BY <1>8, <1>9, <1>10, <1>11 DEF Stepped, Move

\* Finalizing, cancelling and failing write one row of the thread they are for.
LEMMA RunningRow ==
  ASSUME IInv, NEW t \in Threads, NEW g \in Gens, current[t] = g, gens[t][g].status = "in_progress"
  PROVE  /\ TypeOK /\ thread[t] = "live" /\ Runs(t, g)
         /\ gens[t][g] \in Generation /\ g \in Rows(t) /\ gens[t][g].reply \in Ids
<1>1. g \in Rows(t) /\ TypeOK /\ thread[t] = "live" /\ Runs(t, g)
  BY Running DEF IInv, Rows
<1> QED BY <1>1, ThreadTypes DEF IInv, Fine, RowFine

LEMMA FinalizeMoves ==
  ASSUME IInv, NEW k \in Keys, NEW t \in Threads, NEW g \in Gens, FinalizeGeneration(k, t, g)
  PROVE  Stepped(t)
<1> DEFINE q == [Blank("finalize", k, t) EXCEPT !.gen = g]
           msg == AnswerOf(t, g)
           row == [gens[t][g] EXCEPT !.status = "completed"]
<1>1. /\ gens[t][g].status = "in_progress" /\ current[t] = g /\ gens[t][g].deltas
      /\ gens[t][g].source = Revision(t) /\ Revision(t) < MaxMessages /\ Record(q)
      /\ thread' = thread /\ snaps' = snaps /\ deletions' = deletions
  BY DEF FinalizeGeneration, Fresh
<1>2. ledger' = [ledger EXCEPT ![t] = Append(@, msg)]
  BY DEF FinalizeGeneration, AnswerOf
<1>3. gens' = [gens EXCEPT ![t][g] = row]
  BY DEF FinalizeGeneration
<1>4. current' = [current EXCEPT ![t] = None]
  BY DEF FinalizeGeneration
<1>5. /\ TypeOK /\ thread[t] = "live" /\ Runs(t, g)
      /\ gens[t][g] \in Generation /\ gens[t][g].reply \in Ids
  BY <1>1, RunningRow
<1>6. CallIs(q, "finalize", k, t, 0, None, g, None, FALSE, None, 0)
  BY EndCall
<1>7. msg \in Message
  BY <1>5 DEF AnswerOf, Message
<1>8. RowIs(row, "completed", gens[t][g].source, gens[t][g].reply, gens[t][g].vision,
            gens[t][g].deltas, gens[t][g].pruned, gens[t][g].code)
  BY <1>5, CompletedRow
<1>9. row \in Generation
  BY <1>8 DEF RowIs
<1> HIDE DEF q, msg, row
<1>10. /\ ledger' \in [Threads -> Seq(Message)] /\ ledger'[t] = Append(ledger[t], msg)
       /\ \A u \in Threads : Len(ledger'[u]) <= MaxMessages
  BY <1>1, <1>2, <1>5, <1>7, NewMessage
<1>11. gens' \in [Threads -> [Gens -> Generation]] /\ gens'[t][g] = row /\ SameRows(t, {g})
  BY <1>3, <1>5, <1>9, NewRow
<1>12. current' \in [Threads -> Gens \cup {None}] /\ current'[t] = None
  BY <1>4, <1>5, NewCurrent
<1>13. Elsewhere(t)
  <2>1. gens' = [gens EXCEPT ![t] = [gens[t] EXCEPT ![g] = row]]
    BY <1>3
  <2> QED BY <1>1, <1>2, <1>4, <1>5, <2>1, LeftAlone
<1>14. Effect(q)'
  <2>1. gens'[t][q.gen].status = "completed"
    BY <1>6, <1>8, <1>11 DEF CallIs, RowIs
  <2> QED BY <1>1, <1>5, <1>6, <2>1 DEF Effect, CallIs
<1>15. Filed /\ receipts' \in Seq(Request) /\ Len(receipts') <= MaxReceipts
  BY <1>1, <1>5, <1>6, <1>13, <1>14, StaysAll, CallFiled DEF Stays, CallIs, Formed
<1>16. TypeOK'
  BY <1>1, <1>5, <1>10, <1>11, <1>12, <1>15 DEF TypeOK
<1>17. Answers(t, g)
  <2>1. Becomes(t, g, "completed", gens[t][g].deltas, gens[t][g].pruned, gens[t][g].code)
    BY <1>8, <1>11 DEF Becomes
  <2> QED BY <1>1, <1>5, <1>10, <1>11, <1>12, <2>1 DEF msg, Answers, Idles, SameSums
<1> QED BY <1>13, <1>15, <1>16, <1>17 DEF Stepped, Move

LEMMA TerminateMoves ==
  ASSUME IInv, NEW k \in Keys, NEW t \in Threads, NEW g \in Gens, NEW c \in Codes \cup {None},
         NEW end \in {"cancelled", "failed"}, NEW kind, NEW q,
         kind = (IF end = "failed" THEN "fail" ELSE "cancel"),
         CallIs(q, kind, k, t, 0, None, g, None, FALSE, c, 0), Terminate(q, end)
  PROVE  Stepped(t)
<1> DEFINE row == [gens[t][g] EXCEPT !.status = end, !.code = c]
<1>1. /\ q \in Request /\ Formed(q)
      /\ q.kind = kind /\ q.thread = t /\ q.gen = g /\ q.code = c
  BY DEF CallIs, Formed
<1>2. /\ gens[t][g].status = "in_progress" /\ current[t] = g /\ Record(q)
      /\ thread' = thread /\ ledger' = ledger /\ snaps' = snaps /\ deletions' = deletions
      /\ current' = [current EXCEPT ![t] = None]
  BY <1>1 DEF Terminate, Fresh
<1>3. gens' = [gens EXCEPT ![t][g] = row]
  <2>1. gens' = [gens EXCEPT ![t][g].status = end, ![t][g].code = c]
    BY <1>1 DEF Terminate
  <2>2. gens \in [Threads -> [Gens -> Generation]]
    BY DEF IInv, TypeOK
  <2> QED BY <2>1, <2>2
<1>4. /\ TypeOK /\ thread[t] = "live" /\ Runs(t, g) /\ gens[t][g] \in Generation
  BY <1>2, RunningRow
<1>5. RowIs(row, end, gens[t][g].source, gens[t][g].reply, gens[t][g].vision,
            gens[t][g].deltas, gens[t][g].pruned, c)
  BY <1>4, EndedRow
<1>6. row \in Generation
  BY <1>5 DEF RowIs
<1> HIDE DEF row
<1>7. gens' \in [Threads -> [Gens -> Generation]] /\ gens'[t][g] = row /\ SameRows(t, {g})
  BY <1>3, <1>4, <1>6, NewRow
<1>8. current' \in [Threads -> Gens \cup {None}] /\ current'[t] = None
  BY <1>2, <1>4, NewCurrent
<1>9. Elsewhere(t)
  <2>1. gens' = [gens EXCEPT ![t] = [gens[t] EXCEPT ![g] = row]]
    BY <1>3
  <2> QED BY <1>2, <1>4, <2>1, LeftAlone
<1>10. Effect(q)'
  <2>1. gens'[t][q.gen].status = end /\ gens'[t][q.gen].code = q.code
    BY <1>1, <1>5, <1>7 DEF RowIs
  <2> QED BY <1>1, <1>2, <1>4, <2>1 DEF Effect
<1>11. Filed /\ receipts' \in Seq(Request) /\ Len(receipts') <= MaxReceipts
  BY <1>1, <1>2, <1>4, <1>9, <1>10, StaysAll, CallFiled DEF Stays
<1>12. TypeOK'
  BY <1>2, <1>4, <1>7, <1>8, <1>11 DEF TypeOK
<1>13. Stops(t, g, end, c)
  <2>1. Becomes(t, g, end, gens[t][g].deltas, gens[t][g].pruned, c)
    BY <1>5, <1>7 DEF Becomes
  <2> QED BY <1>2, <1>4, <1>7, <1>8, <2>1 DEF Stops, Idles, SameTalk, SameSums
<1> QED BY <1>9, <1>11, <1>12, <1>13 DEF Stepped, Move

LEMMA CancelMoves ==
  ASSUME IInv, NEW k \in Keys, NEW t \in Threads, NEW g \in Gens, CancelGeneration(k, t, g)
  PROVE  Stepped(t)
<1> DEFINE q == [Blank("cancel", k, t) EXCEPT !.gen = g]
<1>1. CallIs(q, "cancel", k, t, 0, None, g, None, FALSE, None, 0)
  BY EndCall
<1>2. Terminate(q, "cancelled")
  BY DEF CancelGeneration
<1> HIDE DEF q
<1> QED BY <1>1, <1>2, TerminateMoves

LEMMA FailMoves ==
  ASSUME IInv, NEW k \in Keys, NEW t \in Threads, NEW g \in Gens, NEW c \in Codes,
         FailGeneration(k, t, g, c)
  PROVE  Stepped(t)
<1> DEFINE q == [Blank("fail", k, t) EXCEPT !.gen = g, !.code = c]
<1>1. CallIs(q, "fail", k, t, 0, None, g, None, FALSE, c, 0)
  BY EndCall
<1>2. Terminate(q, "failed")
  BY DEF FailGeneration
<1> HIDE DEF q
<1> QED BY <1>1, <1>2, TerminateMoves

LEMMA CompactMoves ==
  ASSUME IInv, NEW k \in Keys, NEW t \in Threads, NEW s \in Snaps, NEW r \in Revisions(t),
         NEW text \in Texts, CreateCompactionSnapshot(k, t, s, r, text)
  PROVE  Stepped(t)
<1> DEFINE q == [Blank("compact", k, t) EXCEPT !.id = s, !.rev = r, !.text = text]
           sum == Snapshot(q)
<1>1. /\ TypeOK /\ thread[t] = "live" /\ r \in 1 .. Revision(t)
      /\ \A i \in DOMAIN snaps[t] : snaps[t][i].id # s
      /\ Len(snaps[t]) < MaxSnaps /\ Record(q)
      /\ thread' = thread /\ ledger' = ledger /\ gens' = gens /\ current' = current
      /\ deletions' = deletions
  BY DEF CreateCompactionSnapshot, Fresh, IInv
<1>2. snaps' = [snaps EXCEPT ![t] = Append(@, sum)]
  BY DEF CreateCompactionSnapshot
<1>3. r \in Nat /\ text \in Nat
  BY <1>1, TextAssumption, ThreadTypes
<1>4. CallIs(q, "compact", k, t, r, s, None, None, FALSE, None, text)
  BY <1>3, CompactCall
<1> HIDE DEF q
<1>5. sum \in Sum /\ sum.id = s /\ sum.last = r
  BY <1>3, <1>4 DEF Snapshot, Sum, CallIs
<1> HIDE DEF sum
<1>6. /\ Append(snaps[t], sum) \in Seq(Sum) /\ Len(Append(snaps[t], sum)) = Len(snaps[t]) + 1
      /\ Append(snaps[t], sum)[Len(snaps[t]) + 1] = sum
  BY <1>1, <1>5, ThreadTypes, AppendProperties
<1>7. /\ snaps' \in [Threads -> Seq(Sum)] /\ snaps'[t] = Append(snaps[t], sum)
      /\ \A u \in Threads : Len(snaps'[u]) <= MaxSnaps
  <2>1. Len(snaps[t]) \in Nat /\ Len(snaps[t]) + 1 <= MaxSnaps
    BY <1>1, ThreadTypes, BoundAssumption
  <2> QED BY <1>1, <1>2, <1>6, <2>1 DEF TypeOK, Sum
<1>8. Elsewhere(t)
  BY <1>1, <1>2, LeftAlone
<1>9. Effect(q)'
  <2>1. \E i \in DOMAIN snaps'[t] : snaps'[t][i] = sum
    <3>1. Len(snaps[t]) + 1 \in DOMAIN snaps'[t]
      BY <1>1, <1>6, <1>7, ThreadTypes
    <3> QED BY <1>6, <1>7, <3>1
  <2>2. \E i \in DOMAIN snaps'[t] : snaps'[t][i] = Snapshot(q)
    BY <2>1 DEF sum
  <2> QED BY <1>1, <1>4, <2>2 DEF Effect, CallIs
<1>10. Filed /\ receipts' \in Seq(Request) /\ Len(receipts') <= MaxReceipts
  BY <1>1, <1>4, <1>8, <1>9, StaysAll, CallFiled DEF Stays, CallIs, Formed
<1>11. TypeOK'
  BY <1>1, <1>7, <1>10 DEF TypeOK, Sum
<1>12. Sums(t, sum)
  BY <1>1, <1>5, <1>7 DEF Sums, Idles, SameTalk, SameRows
<1> QED BY <1>5, <1>8, <1>10, <1>11, <1>12 DEF Stepped, Move

LEMMA DeleteMoves ==
  ASSUME IInv, NEW k \in Keys, NEW t \in Threads, NEW r \in Revisions(t), DeleteThread(k, t, r)
  PROVE  Stepped(t)
<1> DEFINE keep == {i \in DOMAIN receipts : receipts[i].thread # t}
<1>1. /\ TypeOK /\ thread[t] = "live" /\ r = Revision(t) /\ current[t] = None /\ ~Unresolved(t)
      /\ thread' = [thread EXCEPT ![t] = "deleted"]
      /\ deletions' = [deletions EXCEPT ![t] = [key |-> k, rev |-> r]]
      /\ ledger' = [ledger EXCEPT ![t] = <<>>]
      /\ gens' = [gens EXCEPT ![t] = [g \in Gens |-> NoRow]]
      /\ snaps' = [snaps EXCEPT ![t] = <<>>]
      /\ receipts' \in Thinned(receipts, keep)
      /\ current' = current
  BY DEF DeleteThread, IInv
<1>2. /\ receipts' \in Seq(Request) /\ Len(receipts') <= Len(receipts)
      /\ \A n \in DOMAIN receipts' : \E i \in keep : receipts'[n] = receipts[i]
  <2>1. receipts \in Seq(Request) /\ keep \in SUBSET DOMAIN receipts
    BY <1>1 DEF TypeOK
  <2> HIDE DEF keep
  <2> QED BY <1>1, <2>1, ThinnedList
<1>3. Len(receipts') <= MaxReceipts
  <2>1. Len(receipts) \in Nat /\ Len(receipts') \in Nat /\ MaxReceipts \in Nat
    BY <1>1, <1>2, BoundAssumption DEF TypeOK
  <2> QED BY <1>1, <1>2, <2>1 DEF TypeOK
<1>4. /\ thread'[t] = "deleted" /\ ledger'[t] = <<>> /\ snaps'[t] = <<>>
      /\ thread' \in [Threads -> {"unborn", "live", "deleted"}]
      /\ ledger' \in [Threads -> Seq(Message)] /\ snaps' \in [Threads -> Seq(Sum)]
      /\ \A u \in Threads : Len(ledger'[u]) <= MaxMessages /\ Len(snaps'[u]) <= MaxSnaps
  <2>1. <<>> \in Seq(Message) /\ <<>> \in Seq(Sum) /\ Len(<<>>) = 0
        /\ 0 <= MaxMessages /\ 0 <= MaxSnaps
    BY BoundAssumption
  <2> QED BY <1>1, <2>1 DEF TypeOK, Sum
<1>5. /\ gens' \in [Threads -> [Gens -> Generation]]
      /\ \A h \in Gens : gens'[t][h] = NoRow
  BY <1>1, AbsentRow DEF TypeOK, RowIs
<1>6. /\ deletions' \in [Threads -> [key : Keys, rev : Nat] \cup {None}]
      /\ deletions'[t] # None
  <2>1. [key |-> k, rev |-> r] \in [key : Keys, rev : Nat]
    BY <1>1, ThreadTypes
  <2>2. [key |-> k, rev |-> r] # None
    BY <2>1, NullAssumption
  <2> QED BY <1>1, <2>1, <2>2 DEF TypeOK
<1>7. Elsewhere(t)
  BY <1>1, LeftAlone
<1>8. Filed
  <2>1. ASSUME NEW q \in Request, Has(q)'
        PROVE  Has(q) /\ Stays(q.thread)
    <3>1. PICK i \in keep : receipts[i] = q
      BY <1>2, <2>1 DEF Has
    <3>2. q.thread \in Threads /\ q.thread # t
      BY <3>1 DEF Request
    <3> QED BY <1>7, <3>1, <3>2 DEF Has, Elsewhere, Same, Stays
  <2> QED BY <2>1 DEF Filed
<1>9. TypeOK'
  BY <1>1, <1>2, <1>3, <1>4, <1>5, <1>6 DEF TypeOK, Sum
<1>10. Forgets(t)
  BY <1>1, <1>4, <1>5, <1>6 DEF Forgets
<1> QED BY <1>7, <1>8, <1>9, <1>10 DEF Stepped, Move

\* The newest snapshot of a thread is behind none: of those that end last, the youngest.
LEMMA NewestSum ==
  ASSUME IInv, NEW t \in Threads, snaps[t] # <<>>
  PROVE  \E j \in DOMAIN snaps[t] :
           \A i \in DOMAIN snaps[t] : ~Newer(t, i, j) /\ snaps[t][j].last >= snaps[t][i].last
<1> DEFINE places == DOMAIN snaps[t]
           Bounded(b) == \A i \in places : snaps[t][i].last <= b
<1>1. /\ places = 1 .. Len(snaps[t]) /\ Len(snaps[t]) \in Nat
      /\ places # {} /\ Revision(t) \in Nat
      /\ \A i \in places : snaps[t][i].last \in Nat /\ snaps[t][i].last <= Revision(t)
  <2>1. TypeOK /\ \A i \in places : snaps[t][i].last \in 1 .. Revision(t)
    BY DEF IInv, Fine, ThreadAudit
  <2>2. snaps[t] \in Seq(Sum) /\ Revision(t) \in Nat
    BY <2>1, ThreadTypes
  <2> QED BY <2>1, <2>2
<1>2. PICK i \in places : Bounded(snaps[t][i].last)
  <2> DEFINE ends == {snaps[t][i].last : i \in places}
  <2>1. ends \in SUBSET Nat /\ ends # {} /\ \A x \in ends : x <= Revision(t)
    BY <1>1
  <2>2. \E x \in ends : \A y \in ends : y <= x
    <3> HIDE DEF ends
    <3> QED BY <1>1, <2>1, LargestNumber
  <2> QED BY <2>2
<1> DEFINE b == snaps[t][i].last
           last == {n \in places : snaps[t][n].last = b}
<1>3. last \in SUBSET Nat /\ last # {} /\ \A n \in last : n <= Len(snaps[t])
  BY <1>1, <1>2
<1>4. PICK j \in last : \A n \in last : n <= j
  <2> HIDE DEF last
  <2> QED BY <1>1, <1>3, LargestNumber
<1>5. ASSUME NEW n \in places
      PROVE  ~Newer(t, n, j) /\ snaps[t][j].last >= snaps[t][n].last
  <2>1. snaps[t][n].last \in Nat /\ snaps[t][n].last <= b /\ b \in Nat /\ snaps[t][j].last = b
    BY <1>1, <1>2, <1>4
  <2>2. snaps[t][n].last = b => n <= j
    BY <1>4
  <2>3. n \in Nat /\ j \in Nat
    BY <1>1
  <2> HIDE DEF b, last
  <2> QED BY <2>1, <2>2, <2>3 DEF Newer
<1> QED BY <1>4, <1>5

\* Whatever superseded snapshots go, the newest stays.
LEMMA NewestStays ==
  ASSUME IInv, NEW t \in Threads, NEW gone \in SUBSET Superseded(t), snaps[t] # <<>>
  PROVE  \E j \in DOMAIN snaps[t] :
           /\ snaps[t][j] \notin gone
           /\ \A i \in DOMAIN snaps[t] : snaps[t][j].last >= snaps[t][i].last
<1>1. PICK j \in DOMAIN snaps[t] :
        \A i \in DOMAIN snaps[t] : ~Newer(t, i, j) /\ snaps[t][j].last >= snaps[t][i].last
  BY NewestSum
<1>2. ASSUME snaps[t][j] \in Superseded(t)
      PROVE  FALSE
  <2>1. PICK n \in DOMAIN snaps[t] :
          snaps[t][n] = snaps[t][j] /\ \E i \in DOMAIN snaps[t] : Newer(t, i, n)
    BY <1>2 DEF Superseded
  <2>2. n = j
    BY <2>1 DEF IInv, Fine
  <2> QED BY <1>1, <2>1, <2>2
<1> QED BY <1>1, <1>2

LEMMA PrunedSums ==
  ASSUME IInv, NEW t \in Threads, NEW gone \in SUBSET Superseded(t),
         NEW left \in Thinned(snaps[t], {i \in DOMAIN snaps[t] : snaps[t][i] \notin gone})
  PROVE  /\ left \in Seq(Sum) /\ Len(left) <= MaxSnaps
         /\ \E at \in [DOMAIN left -> DOMAIN snaps[t]] :
              /\ \A j \in DOMAIN left : left[j] = snaps[t][at[j]]
              /\ \A i, j \in DOMAIN left : at[i] = at[j] => i = j
         /\ \A i \in DOMAIN snaps[t] : \E j \in DOMAIN left : left[j].last >= snaps[t][i].last
<1> DEFINE keep == {i \in DOMAIN snaps[t] : snaps[t][i] \notin gone}
<1>1. /\ snaps[t] \in Seq(Sum) /\ keep \in SUBSET DOMAIN snaps[t]
      /\ Len(snaps[t]) \in Nat /\ Len(snaps[t]) <= MaxSnaps /\ MaxSnaps \in Nat
  BY ThreadTypes, BoundAssumption DEF IInv
<1>2. ASSUME NEW i \in DOMAIN snaps[t]
      PROVE  \E j \in keep : snaps[t][j].last >= snaps[t][i].last
  <2>1. snaps[t] # <<>>
    OBVIOUS
  <2> QED BY <2>1, NewestStays
<1>3. left \in Thinned(snaps[t], keep)
  OBVIOUS
<1> HIDE DEF keep
<1>4. /\ left \in Seq(Sum) /\ Len(left) <= Len(snaps[t])
      /\ \E at \in [DOMAIN left -> keep] :
           /\ \A n \in DOMAIN left : left[n] = snaps[t][at[n]]
           /\ \A m, n \in DOMAIN left : at[m] = at[n] => m = n
           /\ \A i \in keep : \E n \in DOMAIN left : at[n] = i
  BY <1>1, <1>3, ThinnedList
<1>5. PICK at \in [DOMAIN left -> keep] :
           /\ \A n \in DOMAIN left : left[n] = snaps[t][at[n]]
           /\ \A m, n \in DOMAIN left : at[m] = at[n] => m = n
           /\ \A i \in keep : \E n \in DOMAIN left : at[n] = i
  BY <1>4
<1>6. at \in [DOMAIN left -> DOMAIN snaps[t]]
  BY <1>1
<1>7. \A i \in DOMAIN snaps[t] : \E j \in DOMAIN left : left[j].last >= snaps[t][i].last
  <2> TAKE i \in DOMAIN snaps[t]
  <2>1. PICK j \in keep : snaps[t][j].last >= snaps[t][i].last
    BY <1>2
  <2>2. PICK n \in DOMAIN left : at[n] = j
    BY <1>5
  <2>3. left[n] = snaps[t][j]
    BY <1>5, <2>2
  <2> QED BY <2>1, <2>3
<1>8. Len(left) <= MaxSnaps
  <2>1. Len(left) \in Nat
    BY <1>4
  <2> QED BY <1>1, <1>4, <2>1
<1> QED BY <1>4, <1>5, <1>6, <1>7, <1>8

LEMMA MaintainMoves ==
  ASSUME IInv, NEW t \in Threads, Maintain(t)
  PROVE  Stepped(t)
<1>1. PICK old \in SUBSET Prunable(t), gone \in SUBSET Superseded(t) : RunMaintenance(t, old, gone)
  BY DEF Maintain
<1> DEFINE Row(g) == IF g \in old THEN Pruned(gens[t][g]) ELSE gens[t][g]
<1>2. TypeOK
  BY DEF IInv
<1>3. PICK left \in Thinned(snaps[t], {i \in DOMAIN snaps[t] : snaps[t][i] \notin gone}) :
        snaps' = [snaps EXCEPT ![t] = left]
  BY <1>1 DEF RunMaintenance
<1>4. PICK n \in Expired(CleanupRows - Cardinality(old) - Cardinality(gone)) : receipts' = Kept(n)
  BY <1>1 DEF RunMaintenance
<1>5. /\ gens' = [gens EXCEPT ![t] = [g \in Gens |-> Row(g)]]
      /\ thread' = thread /\ ledger' = ledger /\ current' = current /\ deletions' = deletions
  BY <1>1 DEF RunMaintenance
<1>6. /\ left \in Seq(Sum) /\ Len(left) <= MaxSnaps
      /\ \E at \in [DOMAIN left -> DOMAIN snaps[t]] :
           /\ \A j \in DOMAIN left : left[j] = snaps[t][at[j]]
           /\ \A i, j \in DOMAIN left : at[i] = at[j] => i = j
      /\ \A i \in DOMAIN snaps[t] : \E j \in DOMAIN left : left[j].last >= snaps[t][i].last
  BY PrunedSums
<1>7. /\ snaps' \in [Threads -> Seq(Sum)] /\ snaps'[t] = left
      /\ \A u \in Threads : Len(snaps'[u]) <= MaxSnaps
  BY <1>2, <1>3, <1>6 DEF TypeOK, Sum
<1>8. ASSUME NEW h \in Gens
      PROVE  /\ Row(h) \in Generation
             /\ \/ Row(h) = gens[t][h]
                \/ /\ gens[t][h].status = "completed"
                   /\ RowIs(Row(h), "completed", gens[t][h].source, gens[t][h].reply,
                            gens[t][h].vision, gens[t][h].deltas, TRUE, gens[t][h].code)
  <2>1. gens[t][h] \in Generation
    BY <1>2, ThreadTypes
  <2>2. CASE h \in old
    <3>1. gens[t][h].status = "completed"
      BY <1>1, <2>2 DEF Prunable
    <3>2. RowIs(Pruned(gens[t][h]), "completed", gens[t][h].source, gens[t][h].reply,
                gens[t][h].vision, gens[t][h].deltas, TRUE, gens[t][h].code)
      BY <2>1, <3>1, PrunedRow
    <3> QED BY <2>2, <3>1, <3>2 DEF RowIs
  <2> QED BY <2>1, <2>2
<1> HIDE DEF Row
<1>9. /\ gens' \in [Threads -> [Gens -> Generation]]
      /\ \A h \in Gens : gens'[t][h] = Row(h)
  BY <1>2, <1>5, <1>8 DEF TypeOK
<1>10. Elsewhere(t)
  BY <1>2, <1>3, <1>5, LeftAlone
<1>11. \A u \in Threads : Stays(u)
  BY <1>5 DEF Stays
<1>12. Filed /\ receipts' \in Seq(Request) /\ Len(receipts') <= MaxReceipts
  BY <1>2, <1>4, <1>11, KeptFiled
<1>13. TypeOK'
  BY <1>2, <1>5, <1>7, <1>9, <1>12 DEF TypeOK, Sum
<1>14. Prunes(t)
  <2>1. ASSUME NEW h \in Gens
        PROVE  \/ gens'[t][h] = gens[t][h]
               \/ gens[t][h].status = "completed"
                  /\ Becomes(t, h, "completed", gens[t][h].deltas, TRUE, gens[t][h].code)
    BY <1>8, <1>9 DEF Becomes
  <2>2. \E at \in [DOMAIN snaps'[t] -> DOMAIN snaps[t]] :
          /\ \A j \in DOMAIN snaps'[t] : snaps'[t][j] = snaps[t][at[j]]
          /\ \A i, j \in DOMAIN snaps'[t] : at[i] = at[j] => i = j
    BY <1>6, <1>7, Zenon
  <2>3. \A i \in DOMAIN snaps[t] : \E j \in DOMAIN snaps'[t] : snaps'[t][j].last >= snaps[t][i].last
    BY <1>6, <1>7, Zenon
  <2> QED BY <1>5, <2>1, <2>2, <2>3 DEF Prunes, SameTalk
<1> QED BY <1>10, <1>12, <1>13, <1>14 DEF Stepped, Move

\* A call whose rows are there already has the types of a call.
LEMMA CallTyped ==
  ASSUME IInv, NEW k \in Keys, NEW t \in Threads, NEW q \in Calls(k, t), Effect(q)
  PROVE  q \in Request /\ Formed(q)
<1>1. /\ ledger[t] \in Seq(Message) /\ DOMAIN ledger[t] = 1 .. Revision(t) /\ Revision(t) \in Nat
      /\ \A i \in DOMAIN ledger[t] : ledger[t][i].id \in Ids /\ ledger[t][i].pic \in BOOLEAN
      /\ \A i \in DOMAIN snaps[t] : snaps[t][i] \in Sum
  <2>1. ledger[t] \in Seq(Message) /\ snaps[t] \in Seq(Sum) /\ Revision(t) \in Nat
        /\ DOMAIN ledger[t] = 1 .. Revision(t)
    BY ThreadTypes DEF IInv
  <2>2. \A i \in DOMAIN ledger[t] : ledger[t][i] \in Message
    BY <2>1
  <2>3. \A m \in Message : m.id \in Ids /\ m.pic \in BOOLEAN
    BY DEF Message
  <2> QED BY <2>1, <2>2, <2>3
<1>2. ASSUME NEW g \in Rows(t)
      PROVE  /\ g \in Gens /\ gens[t][g].source \in Nat \ {0} /\ gens[t][g].source \in DOMAIN ledger[t]
             /\ gens[t][g].reply \in Ids /\ gens[t][g].code \in Codes \cup {None}
  <2>1. g \in Gens /\ gens[t][g] \in Generation
    BY ThreadTypes DEF Rows, IInv
  <2>2. FromUser(t, gens[t][g].source) /\ gens[t][g].reply \in Ids
    BY DEF IInv, Fine, RowFine, ThreadAudit, GenerationAudit
  <2> QED BY <1>1, <2>1, <2>2, RowTypes DEF FromUser
<1> DEFINE
     Creates == {Blank("create", k, t)}
     Sent == {[Blank("send", k, t) EXCEPT !.id = ledger[t][i].id, !.rev = i - 1] : i \in DOMAIN ledger[t]}
     Turns == {[Blank("turn", k, t) EXCEPT !.id = ledger[t][gens[t][g].source].id,
                  !.rev = gens[t][g].source - 1, !.gen = g, !.reply = gens[t][g].reply,
                  !.pic = ledger[t][gens[t][g].source].pic] : g \in Rows(t)}
     Begun == {[Blank("begin", k, t) EXCEPT !.rev = gens[t][g].source, !.gen = g,
                  !.reply = gens[t][g].reply] : g \in Rows(t)}
     Done == {[Blank(Ending[gens[t][g].status], k, t) EXCEPT !.gen = g, !.code = gens[t][g].code] :
                 g \in {h \in Gens : gens[t][h].status \in Ended}}
     Compacted == {[Blank("compact", k, t) EXCEPT !.id = snaps[t][i].id, !.rev = snaps[t][i].last,
                      !.text = snaps[t][i].text] : i \in DOMAIN snaps[t]}
<1>3. CASE q \in Creates
  <2>1. q = Blank("create", k, t)
    BY <1>3
  <2> QED BY <2>1 DEF Blank, Request, Formed
<1>4. CASE q \in Sent
  <2>1. PICK i \in DOMAIN ledger[t] :
             q = [Blank("send", k, t) EXCEPT !.id = ledger[t][i].id, !.rev = i - 1]
    BY <1>4
  <2>2. PICK m, r : m = ledger[t][i].id /\ r = i - 1
    OBVIOUS
  <2>3. m \in Ids /\ r \in Nat /\ q = [Blank("send", k, t) EXCEPT !.id = m, !.rev = r]
    BY <1>1, <2>1, <2>2
  <2> QED BY <2>3 DEF Blank, Request, Formed
<1>5. CASE q \in Turns
  <2>1. PICK g \in Rows(t) :
             q = [Blank("turn", k, t) EXCEPT !.id = ledger[t][gens[t][g].source].id,
                    !.rev = gens[t][g].source - 1, !.gen = g, !.reply = gens[t][g].reply,
                    !.pic = ledger[t][gens[t][g].source].pic]
    BY <1>5
  <2>2. PICK m, r, a, p : /\ m = ledger[t][gens[t][g].source].id /\ r = gens[t][g].source - 1
                          /\ a = gens[t][g].reply /\ p = ledger[t][gens[t][g].source].pic
    OBVIOUS
  <2>3. m \in Ids /\ r \in Nat /\ a \in Ids /\ g \in Gens /\ p \in BOOLEAN
    BY <1>1, <1>2, <2>2
  <2>4. q = [Blank("turn", k, t) EXCEPT !.id = m, !.rev = r, !.gen = g, !.reply = a, !.pic = p]
    BY <2>1, <2>2
  <2> QED BY <2>3, <2>4 DEF Blank, Request, Formed
<1>6. CASE q \in Begun
  <2>1. PICK g \in Rows(t) :
             q = [Blank("begin", k, t) EXCEPT !.rev = gens[t][g].source, !.gen = g,
                                              !.reply = gens[t][g].reply]
    BY <1>6
  <2>2. PICK r, a : r = gens[t][g].source /\ a = gens[t][g].reply
    OBVIOUS
  <2>3. /\ r \in Nat /\ a \in Ids /\ g \in Gens
        /\ q = [Blank("begin", k, t) EXCEPT !.rev = r, !.gen = g, !.reply = a]
    BY <1>2, <2>1, <2>2
  <2> QED BY <2>3 DEF Blank, Request, Formed
<1>7. CASE q \in Done
  <2>1. PICK g \in {h \in Gens : gens[t][h].status \in Ended} :
             q = [Blank(Ending[gens[t][g].status], k, t) EXCEPT !.gen = g, !.code = gens[t][g].code]
    BY <1>7
  <2>2. PICK kind, c : kind = Ending[gens[t][g].status] /\ c = gens[t][g].code
    OBVIOUS
  <2>3. /\ c \in Codes \cup {None} /\ g \in Gens /\ kind \in {"finalize", "cancel", "fail"}
        /\ q = [Blank(kind, k, t) EXCEPT !.gen = g, !.code = c]
    BY <1>2, <2>1, <2>2 DEF Ended, Ending, Rows
  <2> QED BY <2>3 DEF Blank, Request, Formed
<1>8. CASE q \in Compacted
  <2>1. PICK i \in DOMAIN snaps[t] :
             q = [Blank("compact", k, t) EXCEPT !.id = snaps[t][i].id, !.rev = snaps[t][i].last,
                                                !.text = snaps[t][i].text]
    BY <1>8
  <2>2. PICK s, r, x : s = snaps[t][i].id /\ r = snaps[t][i].last /\ x = snaps[t][i].text
    OBVIOUS
  <2>3. s \in Snaps /\ r \in Nat /\ x \in Nat
    BY <1>1, <2>2 DEF Sum
  <2>4. q = [Blank("compact", k, t) EXCEPT !.id = s, !.rev = r, !.text = x]
    BY <2>1, <2>2
  <2> QED BY <2>3, <2>4 DEF Blank, Request, Formed
<1>9. q \in Creates \cup Sent \cup Turns \cup Begun \cup Done \cup Compacted
  BY DEF Calls
<1> HIDE DEF Creates, Sent, Turns, Begun, Done, Compacted
<1> QED BY <1>3, <1>4, <1>5, <1>6, <1>7, <1>8, <1>9

LEMMA AgainMoves ==
  ASSUME IInv, NEW k \in Keys, NEW t \in Threads, Again(k, t)
  PROVE  Stepped(t)
<1>1. ASSUME UNCHANGED rows, Filed, receipts' \in Seq(Request), Len(receipts') <= MaxReceipts
      PROVE  Stepped(t)
  <2>1. /\ thread' = thread /\ ledger' = ledger /\ gens' = gens /\ current' = current
        /\ snaps' = snaps /\ deletions' = deletions
    BY <1>1 DEF rows
  <2> QED BY <1>1, <2>1 DEF Stepped, IInv, TypeOK, Elsewhere, Same, Move
<1>2. ASSUME UNCHANGED rows
      PROVE  \A u \in Threads : Stays(u)
  BY <1>2 DEF rows, Stays
<1>3. CASE \E i \in DOMAIN receipts : Replay(receipts[i])
  <2>1. PICK gone \in Expired(CleanupRows) : receipts' = Kept(gone)
    BY <1>3 DEF Replay
  <2>2. UNCHANGED rows
    BY <1>3 DEF Replay
  <2> QED BY <1>1, <1>2, <2>1, <2>2, KeptFiled DEF IInv
<1>4. CASE \E q \in Calls(k, t) : Recognise(q)
  <2>1. PICK q \in Calls(k, t) : Effect(q) /\ Record(q) /\ UNCHANGED rows
    BY <1>4 DEF Recognise
  <2>2. q \in Request /\ Formed(q)
    BY <2>1, CallTyped
  <2>3. Effect(q)'
    BY <2>1 DEF rows, Effect, Said, FromUser, Seen, Snapshot
  <2> QED BY <1>1, <1>2, <2>1, <2>2, <2>3, CallFiled DEF IInv
<1> QED BY <1>3, <1>4 DEF Again

LEMMA NextMoves ==
  ASSUME IInv, Next
  PROVE  \E t \in Threads : Stepped(t)
<1>1. CASE \E k \in Keys, t \in Threads : Mutate(k, t)
  BY <1>1, CreateMoves, SendMoves, TurnMoves, BeginMoves, FinalizeMoves, CancelMoves, FailMoves,
     CompactMoves, DeleteMoves DEF Mutate
<1> QED BY <1>1, AgainMoves, DeltaMoves, MaintainMoves DEF Next

-----------------------------------------------------------------------------
(* A move keeps a thread fine.                                             *)

\* The messages a thread had are there, and say of revisions what they said.
Grows(t) ==
  \A r \in DOMAIN ledger[t] :
    /\ r \in DOMAIN ledger'[t] /\ ledger'[t][r] = ledger[t][r]
    /\ Seen(t, r)' <=> Seen(t, r)
    /\ FromUser(t, r)' <=> FromUser(t, r)

LEMMA StillGrows ==
  ASSUME NEW t \in Threads, SameTalk(t)
  PROVE  Grows(t) /\ Revision(t)' = Revision(t)
BY DEF SameTalk, Grows, Seen, FromUser, Revision

LEMMA LongerGrows ==
  ASSUME TypeOK, NEW t \in Threads, NEW msg \in Message, ledger'[t] = Append(ledger[t], msg)
  PROVE  Grows(t)
<1>1. DOMAIN ledger[t] = 1 .. Revision(t) /\ Revision(t) \in Nat
  BY ThreadTypes
<1>2. /\ DOMAIN ledger'[t] = 1 .. Revision(t) + 1
      /\ \A i \in 1 .. Revision(t) : ledger'[t][i] = ledger[t][i]
      /\ \A r \in 0 .. Revision(t) : Seen(t, r)' <=> Seen(t, r)
      /\ \A r \in 0 .. Revision(t) : FromUser(t, r)' <=> FromUser(t, r)
  BY Longer
<1> QED BY <1>1, <1>2 DEF Grows

\* The audit of a row that is what it was, or that changed in what Becomes allows.
Origin(t, g) ==
  /\ gens'[t][g].source = gens[t][g].source /\ gens'[t][g].vision = gens[t][g].vision
  /\ gens'[t][g].reply = gens[t][g].reply

LEMMA OriginKept ==
  ASSUME IInv, NEW t \in Threads, NEW g \in Rows(t), Grows(t), Origin(t, g)
  PROVE  /\ FromUser(t, gens[t][g].source)'
         /\ gens'[t][g].vision = Seen(t, gens[t][g].source)'
<1> PICK s : s = gens[t][g].source
  OBVIOUS
<1>1. FromUser(t, s) /\ gens[t][g].vision = Seen(t, s)
  BY DEF IInv, Fine, ThreadAudit, GenerationAudit
<1>2. s \in DOMAIN ledger[t]
  BY <1>1 DEF FromUser
<1>3. FromUser(t, s)' /\ (Seen(t, s)' <=> Seen(t, s))
  BY <1>1, <1>2 DEF Grows
<1>4. s = gens'[t][g].source
  BY DEF Origin
<1>5. FromUser(t, gens[t][g].source)'
  BY <1>3, <1>4 DEF FromUser
<1>6. gens'[t][g].vision = Seen(t, gens[t][g].source)'
  BY <1>1, <1>3, <1>4 DEF Origin, Seen
<1> QED BY <1>5, <1>6

LEMMA RowAudited ==
  ASSUME IInv, NEW t \in Threads, NEW g \in Rows(t), Grows(t), Origin(t, g),
         gens'[t][g].status = "completed" =>
           gens[t][g].status = "completed" /\ gens'[t][g].deltas = gens[t][g].deltas,
         gens'[t][g].pruned => gens'[t][g].status = "completed",
         gens'[t][g].status = "in_progress" <=> current'[t] = g
  PROVE  GenerationAudit(t, g)'
<1>1. FromUser(t, gens[t][g].source)' /\ gens'[t][g].vision = Seen(t, gens[t][g].source)'
  BY OriginKept
<1>2. ASSUME gens'[t][g].status = "completed"
      PROVE  /\ gens'[t][g].deltas
             /\ gens'[t][g].source + 1 \in DOMAIN ledger'[t]
             /\ ledger'[t][gens'[t][g].source + 1] =
                  [id |-> gens'[t][g].reply, role |-> "assistant", gen |-> g, pic |-> FALSE]
  <2>1. /\ gens[t][g].deltas /\ gens[t][g].source + 1 \in DOMAIN ledger[t]
        /\ ledger[t][gens[t][g].source + 1] =
             [id |-> gens[t][g].reply, role |-> "assistant", gen |-> g, pic |-> FALSE]
    BY <1>2 DEF IInv, Fine, ThreadAudit, GenerationAudit
  <2> QED BY <1>2, <2>1 DEF Grows, Origin
<1> QED BY <1>1, <1>2 DEF GenerationAudit

LEMMA RowUntouched ==
  ASSUME IInv, NEW t \in Threads, NEW g \in Rows(t), Grows(t), gens'[t][g] = gens[t][g],
         current'[t] = g <=> current[t] = g
  PROVE  GenerationAudit(t, g)'
<1>1. /\ gens[t][g].pruned => gens[t][g].status = "completed"
      /\ gens[t][g].status = "in_progress" <=> current[t] = g
  <2>1. GenerationAudit(t, g)
    BY DEF IInv, Fine, ThreadAudit
  <2> QED BY <2>1 DEF GenerationAudit
<1> QED BY <1>1, RowAudited DEF Origin

LEMMA OldMessages ==
  ASSUME IInv, NEW t \in Threads, SameTalk(t),
         \A g \in Gens : gens[t][g].status = "completed" => gens'[t][g].status = "completed"
  PROVE  \A i \in DOMAIN ledger'[t] : MessageAudit(t, i)'
BY DEF IInv, Fine, ThreadAudit, SameTalk, MessageAudit

LEMMA NewMessages ==
  ASSUME IInv, NEW t \in Threads, NEW msg \in Message, ledger'[t] = Append(ledger[t], msg),
         \A g \in Gens : gens[t][g].status = "completed" => gens'[t][g].status = "completed",
         msg.pic => msg.role = "user", ~Used(t, msg.id),
         msg.role = "assistant" => msg.gen \in Gens /\ gens'[t][msg.gen].status = "completed"
  PROVE  \A i \in DOMAIN ledger'[t] : MessageAudit(t, i)'
<1>1. /\ DOMAIN ledger[t] = 1 .. Revision(t) /\ Revision(t) \in Nat
      /\ DOMAIN ledger'[t] = 1 .. Revision(t) + 1
      /\ \A i \in 1 .. Revision(t) : ledger'[t][i] = ledger[t][i]
      /\ ledger'[t][Revision(t) + 1] = msg
  BY ThreadTypes, Longer DEF IInv
<1>2. \A i \in 1 .. Revision(t) : ledger[t][i].id # msg.id /\ MessageAudit(t, i)
  BY <1>1 DEF IInv, Fine, ThreadAudit, Used
<1>3. ASSUME NEW i \in 1 .. Revision(t)
      PROVE  MessageAudit(t, i)'
  <2>1. ledger'[t][i] = ledger[t][i] /\ ledger[t][i].id # msg.id
    BY <1>1, <1>2
  <2>2. /\ ledger[t][i].pic => ledger[t][i].role = "user"
        /\ ledger[t][i].role = "assistant" =>
             ledger[t][i].gen \in Gens /\ gens[t][ledger[t][i].gen].status = "completed"
        /\ \A j \in 1 .. Revision(t) : ledger[t][j].id = ledger[t][i].id => j = i
    BY <1>1, <1>2 DEF MessageAudit
  <2>3. \A j \in DOMAIN ledger'[t] : ledger'[t][j].id = ledger[t][i].id => j = i
    BY <1>1, <2>1, <2>2
  <2> QED BY <2>1, <2>2, <2>3 DEF MessageAudit
<1>4. ASSUME NEW i, i = Revision(t) + 1
      PROVE  MessageAudit(t, i)'
  BY <1>1, <1>2, <1>4 DEF MessageAudit
<1> QED BY <1>1, <1>3, <1>4

\* What the summary of a move has to say for the thread to stay fine while it lives.
LEMMA StaysFine ==
  ASSUME IInv, NEW t \in Threads, thread'[t] = "live", deletions'[t] = None,
         \A i \in DOMAIN ledger'[t] : MessageAudit(t, i)',
         \A g \in Gens : gens'[t][g].status # "absent" =>
           GenerationAudit(t, g)' /\ RowFine(t, g)',
         \A g \in Gens : current'[t] = g => gens'[t][g].status # "absent",
         current'[t] \in Gens \cup {None},
         \A i \in DOMAIN snaps'[t] : snaps'[t][i].last \in 1 .. Revision(t)',
         \A i, j \in DOMAIN snaps'[t] : snaps'[t][i].id = snaps'[t][j].id => i = j
  PROVE  Fine(t)'
<1>1. \A g \in Rows(t)' : GenerationAudit(t, g)' /\ RowFine(t, g)'
  BY DEF Rows
<1>2. current'[t] # None => current'[t] \in Rows(t)'
  BY DEF Rows
<1>3. ThreadAudit(t)'
  BY <1>1, <1>2 DEF ThreadAudit
<1> QED BY <1>1, <1>3 DEF Fine

\* What the invariant says of a live thread, for the cases below.
LEMMA WasFine ==
  ASSUME IInv, NEW t \in Threads, thread[t] = "live"
  PROVE  /\ TypeOK /\ deletions[t] = None
         /\ \A g \in Rows(t) : GenerationAudit(t, g) /\ RowFine(t, g)
         /\ \A g \in Gens : gens[t][g].status = "in_progress" <=> current[t] = g
         /\ \A i \in DOMAIN snaps[t] : snaps[t][i].last \in 1 .. Revision(t)
         /\ \A i, j \in DOMAIN snaps[t] : snaps[t][i].id = snaps[t][j].id => i = j
<1>1. \A g \in Gens : gens[t][g].status = "in_progress" <=> current[t] = g
  BY Running DEF Runs
<1> QED BY <1>1 DEF IInv, Fine, ThreadAudit

\* A row the move leaves alone keeps what it was started with, and stays as it is.
LEMMA RowAlone ==
  ASSUME IInv, NEW t \in Threads, NEW h \in Rows(t), gens'[t][h] = gens[t][h]
  PROVE  /\ gens'[t][h].reply \in Ids
         /\ gens[t][h].status # "in_progress" => RowFine(t, h)'
         /\ ~Used(t, gens[t][h].reply)' => RowFine(t, h)'
BY DEF IInv, Fine, RowFine

LEMMA OpensFine ==
  ASSUME IInv, TypeOK', NEW t \in Threads, Opens(t)
  PROVE  Fine(t)'
<1>1. /\ thread'[t] = "live" /\ deletions'[t] = deletions[t] /\ thread[t] = "unborn"
      /\ ledger'[t] = ledger[t] /\ snaps'[t] = snaps[t] /\ current'[t] = current[t]
      /\ \A h \in Gens : gens'[t][h] = gens[t][h]
  BY DEF Opens, SameTalk, SameRows, SameSums
<1>2. /\ deletions[t] = None /\ ledger[t] = <<>> /\ snaps[t] = <<>>
      /\ \A h \in Gens : gens[t][h].status = "absent"
      /\ current[t] \in Gens \cup {None}
      /\ \A h \in Gens : current[t] # h
  <2>1. Fine(t) /\ TypeOK
    BY DEF IInv
  <2>2. /\ deletions[t] = None /\ ledger[t] = <<>> /\ snaps[t] = <<>> /\ Rows(t) = {}
        /\ current[t] # None => current[t] \in Rows(t)
    BY <1>1, <2>1 DEF Fine, ThreadAudit
  <2>3. \A h \in Gens : gens[t][h].status = "absent"
    BY <2>2 DEF Rows
  <2>4. \A h \in Gens : h # None
    BY NullAssumption
  <2> QED BY <2>1, <2>2, <2>3, <2>4, ThreadTypes
<1> QED BY <1>1, <1>2, StaysFine

LEMMA SaysFine ==
  ASSUME IInv, NEW t \in Threads, NEW m \in Ids, NEW pic, Says(t, m, pic),
         \A g \in Gens : gens[t][g].status = "completed" => gens'[t][g].status = "completed"
  PROVE  /\ \A i \in DOMAIN ledger'[t] : MessageAudit(t, i)'
         /\ Grows(t)
         /\ \A a \in Ids : Used(t, a)' => Used(t, a) \/ a = m
         /\ snaps'[t] = snaps[t]
         /\ \A i \in DOMAIN snaps'[t] : snaps'[t][i].last \in 1 .. Revision(t)'
<1> DEFINE msg == UserMessage(m, pic)
<1>1. /\ TypeOK /\ thread[t] = "live" /\ ~Used(t, m) /\ pic \in BOOLEAN
      /\ ledger'[t] = Append(ledger[t], msg) /\ snaps'[t] = snaps[t]
  BY DEF Says, Idles, Free, SameSums, IInv
<1>2. msg \in Message /\ msg.id = m /\ msg.role = "user"
  BY <1>1, UserMessageIs
<1> HIDE DEF msg
<1>3. \A i \in DOMAIN ledger'[t] : MessageAudit(t, i)'
  BY <1>1, <1>2, NewMessages
<1>4. Grows(t)
  BY <1>1, <1>2, LongerGrows
<1>5. \A a \in Ids : Used(t, a)' => Used(t, a) \/ a = m
  BY <1>1, <1>2, Longer
<1>6. \A i \in DOMAIN snaps'[t] : snaps'[t][i].last \in 1 .. Revision(t)'
  <2>1. Revision(t)' = Revision(t) + 1 /\ Revision(t) \in Nat
    BY <1>1, <1>2, Longer, ThreadTypes
  <2>2. \A i \in DOMAIN snaps[t] : snaps[t][i].last \in 1 .. Revision(t)
    BY <1>1, WasFine
  <2> QED BY <1>1, <2>1, <2>2
<1> QED BY <1>1, <1>3, <1>4, <1>5, <1>6

LEMMA SendsFine ==
  ASSUME IInv, NEW t \in Threads, NEW m \in Ids, Sends(t, m)
  PROVE  Fine(t)'
<1>1. /\ thread[t] = "live" /\ thread'[t] = "live" /\ deletions'[t] = deletions[t]
      /\ current[t] = None /\ current'[t] = None /\ Says(t, m, FALSE)
      /\ \A h \in Gens : gens'[t][h] = gens[t][h]
  BY DEF Sends, Says, Idles, SameRows
<1>2. /\ deletions[t] = None
      /\ \A g \in Gens : gens[t][g].status = "in_progress" <=> current[t] = g
      /\ \A i, j \in DOMAIN snaps[t] : snaps[t][i].id = snaps[t][j].id => i = j
      /\ \A g \in Gens : g # None
  BY <1>1, WasFine, NullAssumption
<1>3. /\ \A i \in DOMAIN ledger'[t] : MessageAudit(t, i)'
      /\ Grows(t)
      /\ snaps'[t] = snaps[t]
      /\ \A i \in DOMAIN snaps'[t] : snaps'[t][i].last \in 1 .. Revision(t)'
  BY <1>1, SaysFine
<1>4. ASSUME NEW h \in Gens, gens'[t][h].status # "absent"
      PROVE  GenerationAudit(t, h)' /\ RowFine(t, h)'
  <2>1. h \in Rows(t) /\ gens[t][h].status # "in_progress"
    BY <1>1, <1>2, <1>4 DEF Rows
  <2> QED BY <1>1, <1>2, <1>3, <2>1, RowUntouched, RowAlone
<1> QED BY <1>1, <1>2, <1>3, <1>4, StaysFine

\* A row that starts in a thread that ran none.
LEMMA StartsFine ==
  ASSUME IInv, NEW t \in Threads, NEW g, NEW r, NEW a, NEW v, Starts(t, g, r, a, v),
         thread[t] = "live", Grows(t), FromUser(t, r)', v = Seen(t, r)', ~Used(t, a)'
  PROVE  /\ \A h \in Gens : gens'[t][h].status # "absent" => GenerationAudit(t, h)' /\ RowFine(t, h)'
         /\ \A h \in Gens : current'[t] = h => gens'[t][h].status # "absent"
         /\ current'[t] \in Gens \cup {None}
         /\ \A h \in Gens : gens[t][h].status = "completed" => gens'[t][h].status = "completed"
<1>1. /\ g \in Gens /\ a \in Ids /\ gens[t][g].status = "absent" /\ current[t] = None
      /\ gens'[t][g].status = "in_progress" /\ gens'[t][g].source = r /\ gens'[t][g].reply = a
      /\ gens'[t][g].vision = v /\ gens'[t][g].pruned = FALSE
      /\ current'[t] = g /\ \A h \in Gens \ {g} : gens'[t][h] = gens[t][h]
  BY DEF Starts, RowIs, SameRows, Free
<1>2. \A h \in Gens : h # None /\ gens[t][h].status # "in_progress"
  BY <1>1, WasFine, NullAssumption
<1>3. GenerationAudit(t, g)'
  BY <1>1 DEF GenerationAudit, FromUser, Seen
<1>4. RowFine(t, g)'
  BY <1>1 DEF RowFine, Used
<1>5. ASSUME NEW h \in Gens \ {g}, gens'[t][h].status # "absent"
      PROVE  GenerationAudit(t, h)' /\ RowFine(t, h)'
  <2>1. h \in Rows(t) /\ gens'[t][h] = gens[t][h] /\ gens[t][h].status # "in_progress"
    BY <1>1, <1>2, <1>5 DEF Rows
  <2> QED BY <1>1, <1>2, <2>1, RowUntouched, RowAlone
<1> QED BY <1>1, <1>3, <1>4, <1>5

LEMMA AsksFine ==
  ASSUME IInv, NEW t \in Threads, NEW m \in Ids, NEW pic \in BOOLEAN, NEW g \in Gens, NEW a \in Ids,
         Asks(t, m, pic, g, a)
  PROVE  Fine(t)'
<1> DEFINE msg == UserMessage(m, pic)
<1> PICK r, v : r = Revision(t) + 1 /\ v = (pic \/ Seen(t, Revision(t)))
  OBVIOUS
<1>1. /\ thread[t] = "live" /\ thread'[t] = "live" /\ deletions'[t] = deletions[t]
      /\ Says(t, m, pic) /\ Starts(t, g, r, a, v) /\ m # a /\ ~Used(t, a) /\ TypeOK
      /\ ledger'[t] = Append(ledger[t], msg)
  BY DEF Asks, Says, Idles, Starts, Free, IInv
<1>2. gens[t][g].status = "absent" /\ SameRows(t, {g})
  BY <1>1 DEF Starts
<1>3. \A h \in Gens : gens[t][h].status = "completed" => gens'[t][h].status = "completed"
  BY <1>2 DEF SameRows
<1>4. /\ \A i \in DOMAIN ledger'[t] : MessageAudit(t, i)'
      /\ Grows(t)
      /\ \A b \in Ids : Used(t, b)' => Used(t, b) \/ b = m
      /\ snaps'[t] = snaps[t]
      /\ \A i \in DOMAIN snaps'[t] : snaps'[t][i].last \in 1 .. Revision(t)'
  BY <1>1, <1>3, SaysFine
<1>5. FromUser(t, r)' /\ v = Seen(t, r)'
  <2>1. msg \in Message /\ msg.role = "user" /\ msg.pic = pic
    BY UserMessageIs
  <2> HIDE DEF msg
  <2>2. r \in Nat
    BY <1>1, ThreadTypes
  <2>3. FromUser(t, r)' /\ (Seen(t, r)' <=> pic \/ Seen(t, Revision(t)))
    BY <1>1, <2>1, <2>2, Longer
  <2> QED BY <2>3 DEF Seen
<1>6. ~Used(t, a)'
  BY <1>1, <1>4
<1>7. /\ \A h \in Gens : gens'[t][h].status # "absent" => GenerationAudit(t, h)' /\ RowFine(t, h)'
      /\ \A h \in Gens : current'[t] = h => gens'[t][h].status # "absent"
      /\ current'[t] \in Gens \cup {None}
  BY <1>1, <1>4, <1>5, <1>6, StartsFine
<1>8. deletions[t] = None /\ \A i, j \in DOMAIN snaps[t] : snaps[t][i].id = snaps[t][j].id => i = j
  BY <1>1, WasFine
<1> QED BY <1>1, <1>4, <1>7, <1>8, StaysFine

\* A move that says nothing and changes the sums of no thread.
LEMMA QuietFine ==
  ASSUME IInv, NEW t \in Threads, thread[t] = "live", SameTalk(t), SameSums(t),
         deletions'[t] = deletions[t],
         \A g \in Gens : gens[t][g].status = "completed" => gens'[t][g].status = "completed"
  PROVE  /\ \A i \in DOMAIN ledger'[t] : MessageAudit(t, i)'
         /\ Grows(t) /\ deletions'[t] = None
         /\ \A a \in Ids : Used(t, a)' <=> Used(t, a)
         /\ \A i \in DOMAIN snaps'[t] : snaps'[t][i].last \in 1 .. Revision(t)'
         /\ \A i, j \in DOMAIN snaps'[t] : snaps'[t][i].id = snaps'[t][j].id => i = j
<1>1. Grows(t) /\ Revision(t)' = Revision(t)
  BY StillGrows
<1>2. /\ deletions[t] = None /\ snaps'[t] = snaps[t]
      /\ \A i \in DOMAIN snaps[t] : snaps[t][i].last \in 1 .. Revision(t)
      /\ \A i, j \in DOMAIN snaps[t] : snaps[t][i].id = snaps[t][j].id => i = j
  BY WasFine DEF SameSums
<1>3. \A a \in Ids : Used(t, a)' <=> Used(t, a)
  BY DEF SameTalk, Used
<1> QED BY <1>1, <1>2, <1>3, OldMessages

LEMMA BeginsFine ==
  ASSUME IInv, NEW t \in Threads, NEW g \in Gens, NEW a \in Ids, Begins(t, g, a)
  PROVE  Fine(t)'
<1> PICK r, v : r = Revision(t) /\ v = Seen(t, Revision(t))
  OBVIOUS
<1>1. /\ thread[t] = "live" /\ thread'[t] = "live" /\ deletions'[t] = deletions[t]
      /\ FromUser(t, r) /\ Starts(t, g, r, a, v) /\ ~Used(t, a) /\ SameTalk(t) /\ SameSums(t)
  BY DEF Begins, Idles, Starts, Free, FromUser
<1>2. gens[t][g].status = "absent" /\ SameRows(t, {g})
  BY <1>1 DEF Starts
<1>3. \A h \in Gens : gens[t][h].status = "completed" => gens'[t][h].status = "completed"
  BY <1>2 DEF SameRows
<1>4. /\ \A i \in DOMAIN ledger'[t] : MessageAudit(t, i)'
      /\ Grows(t) /\ deletions'[t] = None
      /\ \A b \in Ids : Used(t, b)' <=> Used(t, b)
      /\ \A i \in DOMAIN snaps'[t] : snaps'[t][i].last \in 1 .. Revision(t)'
      /\ \A i, j \in DOMAIN snaps'[t] : snaps'[t][i].id = snaps'[t][j].id => i = j
  BY <1>1, <1>3, QuietFine
<1>5. FromUser(t, r)' /\ v = Seen(t, r)'
  <2>1. FromUser(t, r)' /\ (Seen(t, r)' <=> Seen(t, r))
    BY <1>1, <1>4 DEF Grows, FromUser
  <2>2. v = Seen(t, r)
    BY DEF Seen
  <2> QED BY <2>1, <2>2 DEF Seen
<1>6. /\ \A h \in Gens : gens'[t][h].status # "absent" => GenerationAudit(t, h)' /\ RowFine(t, h)'
      /\ \A h \in Gens : current'[t] = h => gens'[t][h].status # "absent"
      /\ current'[t] \in Gens \cup {None}
  BY <1>1, <1>4, <1>5, StartsFine
<1> QED BY <1>1, <1>4, <1>6, StaysFine

\* A row that changes while its thread points at it, or is let go by it.
LEMMA BecomesFine ==
  ASSUME IInv, NEW t \in Threads, NEW g \in Gens, Runs(t, g), thread[t] = "live", Grows(t),
         NEW status, NEW deltas, NEW code, NEW next,
         Becomes(t, g, status, deltas, gens[t][g].pruned, code), SameRows(t, {g}),
         current'[t] = next, status \in {"in_progress", "cancelled", "failed"},
         next = (IF status = "in_progress" THEN g ELSE None),
         \A a \in Ids : Used(t, a)' <=> Used(t, a)
  PROVE  /\ \A h \in Gens : gens'[t][h].status # "absent" => GenerationAudit(t, h)' /\ RowFine(t, h)'
         /\ \A h \in Gens : current'[t] = h => gens'[t][h].status # "absent"
         /\ current'[t] \in Gens \cup {None}
<1>1. /\ gens'[t][g].status = status /\ Origin(t, g) /\ gens'[t][g].pruned = gens[t][g].pruned
      /\ \A h \in Gens \ {g} : gens'[t][h] = gens[t][h]
      /\ gens[t][g].status = "in_progress" /\ current[t] = g
  BY DEF Becomes, RowIs, Origin, SameRows, Runs
<1>2. /\ \A h \in Gens : h # None
      /\ \A h \in Gens \ {g} : gens[t][h].status # "in_progress"
      /\ g \in Rows(t) /\ GenerationAudit(t, g) /\ RowFine(t, g)
  BY <1>1, WasFine, NullAssumption DEF Rows
<1>3. ~gens[t][g].pruned
  BY <1>1, <1>2 DEF GenerationAudit
<1>4. GenerationAudit(t, g)'
  BY <1>1, <1>2, <1>3, RowAudited
<1>5. RowFine(t, g)'
  <2>1. gens[t][g].reply \in Ids /\ ~Used(t, gens[t][g].reply)
    BY <1>1, <1>2 DEF RowFine
  <2> PICK a : a = gens[t][g].reply
    OBVIOUS
  <2>2. a = gens'[t][g].reply /\ a \in Ids /\ ~Used(t, a)'
    BY <1>1, <2>1 DEF Origin, Used
  <2> QED BY <2>2 DEF RowFine, Used
<1>6. ASSUME NEW h \in Gens \ {g}, gens'[t][h].status # "absent"
      PROVE  GenerationAudit(t, h)' /\ RowFine(t, h)'
  <2>1. h \in Rows(t) /\ gens'[t][h] = gens[t][h] /\ gens[t][h].status # "in_progress"
    BY <1>1, <1>2, <1>6 DEF Rows
  <2> QED BY <1>1, <1>2, <2>1, RowUntouched, RowAlone
<1> QED BY <1>1, <1>2, <1>4, <1>5, <1>6

LEMMA WritesFine ==
  ASSUME IInv, NEW t \in Threads, NEW g \in Gens, Writes(t, g)
  PROVE  Fine(t)'
<1>1. /\ thread[t] = "live" /\ thread'[t] = "live" /\ deletions'[t] = deletions[t]
      /\ Runs(t, g) /\ gens[t][g].status = "in_progress" /\ current'[t] = g
      /\ Becomes(t, g, gens[t][g].status, TRUE, gens[t][g].pruned, gens[t][g].code)
      /\ SameTalk(t) /\ SameSums(t) /\ SameRows(t, {g})
  BY DEF Writes, Idles, Runs
<1> PICK status, code : status = gens[t][g].status /\ code = gens[t][g].code
  OBVIOUS
<1>2. status = "in_progress" /\ Becomes(t, g, status, TRUE, gens[t][g].pruned, code)
  BY <1>1
<1>3. \A h \in Gens : gens[t][h].status = "completed" => gens'[t][h].status = "completed"
  BY <1>1 DEF SameRows
<1>4. /\ \A i \in DOMAIN ledger'[t] : MessageAudit(t, i)'
      /\ Grows(t) /\ deletions'[t] = None
      /\ \A a \in Ids : Used(t, a)' <=> Used(t, a)
      /\ \A i \in DOMAIN snaps'[t] : snaps'[t][i].last \in 1 .. Revision(t)'
      /\ \A i, j \in DOMAIN snaps'[t] : snaps'[t][i].id = snaps'[t][j].id => i = j
  BY <1>1, <1>3, QuietFine
<1>5. /\ \A h \in Gens : gens'[t][h].status # "absent" => GenerationAudit(t, h)' /\ RowFine(t, h)'
      /\ \A h \in Gens : current'[t] = h => gens'[t][h].status # "absent"
      /\ current'[t] \in Gens \cup {None}
  BY <1>1, <1>2, <1>4, BecomesFine
<1> QED BY <1>1, <1>4, <1>5, StaysFine

LEMMA StopsFine ==
  ASSUME IInv, NEW t \in Threads, NEW g \in Gens, NEW end, NEW c, Stops(t, g, end, c)
  PROVE  Fine(t)'
<1>1. /\ thread[t] = "live" /\ thread'[t] = "live" /\ deletions'[t] = deletions[t]
      /\ Runs(t, g) /\ gens[t][g].status = "in_progress" /\ current'[t] = None
      /\ end \in {"cancelled", "failed"}
      /\ Becomes(t, g, end, gens[t][g].deltas, gens[t][g].pruned, c)
      /\ SameTalk(t) /\ SameSums(t) /\ SameRows(t, {g})
  BY DEF Stops, Idles, Runs
<1> PICK deltas : deltas = gens[t][g].deltas
  OBVIOUS
<1>2. Becomes(t, g, end, deltas, gens[t][g].pruned, c)
  BY <1>1
<1>3. \A h \in Gens : gens[t][h].status = "completed" => gens'[t][h].status = "completed"
  BY <1>1 DEF SameRows
<1>4. /\ \A i \in DOMAIN ledger'[t] : MessageAudit(t, i)'
      /\ Grows(t) /\ deletions'[t] = None
      /\ \A a \in Ids : Used(t, a)' <=> Used(t, a)
      /\ \A i \in DOMAIN snaps'[t] : snaps'[t][i].last \in 1 .. Revision(t)'
      /\ \A i, j \in DOMAIN snaps'[t] : snaps'[t][i].id = snaps'[t][j].id => i = j
  BY <1>1, <1>3, QuietFine
<1>5. /\ \A h \in Gens : gens'[t][h].status # "absent" => GenerationAudit(t, h)' /\ RowFine(t, h)'
      /\ \A h \in Gens : current'[t] = h => gens'[t][h].status # "absent"
      /\ current'[t] \in Gens \cup {None}
  BY <1>1, <1>2, <1>4, BecomesFine
<1> QED BY <1>1, <1>4, <1>5, StaysFine

\* The answer is the message behind its question, under the identifier kept for it.
LEMMA AnswersFine ==
  ASSUME IInv, NEW t \in Threads, NEW g \in Gens, Answers(t, g)
  PROVE  Fine(t)'
<1> PICK a, msg : a = gens[t][g].reply /\ msg = AnswerOf(t, g)
  OBVIOUS
<1>1. /\ TypeOK /\ thread[t] = "live" /\ thread'[t] = "live" /\ deletions'[t] = deletions[t]
      /\ Runs(t, g) /\ gens[t][g].status = "in_progress" /\ current[t] = g /\ current'[t] = None
      /\ gens[t][g].deltas /\ gens[t][g].source = Revision(t)
      /\ ledger'[t] = Append(ledger[t], msg) /\ snaps'[t] = snaps[t]
      /\ \A h \in Gens \ {g} : gens'[t][h] = gens[t][h]
  BY DEF Answers, Idles, Runs, SameSums, SameRows, IInv
<1>2. /\ gens'[t][g].status = "completed" /\ gens'[t][g].deltas = gens[t][g].deltas
      /\ Origin(t, g) /\ gens'[t][g].pruned = gens[t][g].pruned
  BY DEF Answers, Becomes, RowIs, Origin
<1>3. /\ \A h \in Gens : h # None
      /\ \A h \in Gens \ {g} : gens[t][h].status # "in_progress"
      /\ g \in Rows(t) /\ GenerationAudit(t, g) /\ RowFine(t, g)
      /\ \A i \in DOMAIN snaps[t] : snaps[t][i].last \in 1 .. Revision(t)
      /\ \A i, j \in DOMAIN snaps[t] : snaps[t][i].id = snaps[t][j].id => i = j
      /\ deletions[t] = None
  BY <1>1, WasFine, NullAssumption DEF Rows
<1>4. a \in Ids /\ ~Used(t, a)
  <2>1. gens[t][g].reply \in Ids /\ ~Used(t, gens[t][g].reply)
    BY <1>1, <1>3 DEF RowFine
  <2> QED BY <2>1 DEF Used
<1>5. msg \in Message /\ msg.id = a /\ msg.role = "assistant" /\ msg.gen = g /\ msg.pic = FALSE
  BY <1>4 DEF AnswerOf, Message
<1>6. \A h \in Gens : gens[t][h].status = "completed" => gens'[t][h].status = "completed"
  BY <1>1, <1>2
<1>7. /\ \A i \in DOMAIN ledger'[t] : MessageAudit(t, i)'
      /\ Grows(t)
  BY <1>1, <1>2, <1>4, <1>5, <1>6, NewMessages, LongerGrows
<1>8. /\ Revision(t) \in Nat /\ Revision(t)' = Revision(t) + 1
      /\ DOMAIN ledger'[t] = 1 .. Revision(t) + 1 /\ ledger'[t][Revision(t) + 1] = msg
  BY <1>1, <1>5, Longer, ThreadTypes
<1>9. \A i \in DOMAIN snaps'[t] : snaps'[t][i].last \in 1 .. Revision(t)'
  BY <1>1, <1>3, <1>8
<1>10. GenerationAudit(t, g)'
  <2>1. FromUser(t, gens[t][g].source)' /\ gens'[t][g].vision = Seen(t, gens[t][g].source)'
    BY <1>2, <1>3, <1>7, OriginKept
  <2>2. /\ gens'[t][g].source + 1 \in DOMAIN ledger'[t]
        /\ ledger'[t][gens'[t][g].source + 1] =
             [id |-> gens'[t][g].reply, role |-> "assistant", gen |-> g, pic |-> FALSE]
    BY <1>1, <1>2, <1>8 DEF Origin, AnswerOf
  <2> QED BY <1>1, <1>2, <1>3, <2>1, <2>2 DEF GenerationAudit
<1>11. RowFine(t, g)'
  BY <1>2, <1>3 DEF RowFine, Origin
<1>12. ASSUME NEW h \in Gens \ {g}, gens'[t][h].status # "absent"
       PROVE  GenerationAudit(t, h)' /\ RowFine(t, h)'
  <2>1. h \in Rows(t) /\ gens'[t][h] = gens[t][h] /\ gens[t][h].status # "in_progress"
    BY <1>1, <1>3, <1>12 DEF Rows
  <2> QED BY <1>1, <1>3, <1>7, <2>1, RowUntouched, RowAlone
<1> QED BY <1>1, <1>2, <1>3, <1>7, <1>9, <1>10, <1>11, <1>12, StaysFine

LEMMA SumsFine ==
  ASSUME IInv, NEW t \in Threads, NEW s \in Sum, Sums(t, s)
  PROVE  Fine(t)'
<1>1. /\ TypeOK /\ thread[t] = "live" /\ thread'[t] = "live" /\ deletions'[t] = deletions[t]
      /\ s.last \in 1 .. Revision(t) /\ \A i \in DOMAIN snaps[t] : snaps[t][i].id # s.id
      /\ snaps'[t] = Append(snaps[t], s) /\ SameTalk(t) /\ current'[t] = current[t]
      /\ \A h \in Gens : gens'[t][h] = gens[t][h]
  BY DEF Sums, Idles, SameRows, IInv
<1>2. /\ \A h \in Gens : h # None
      /\ \A h \in Rows(t) : GenerationAudit(t, h) /\ RowFine(t, h)
      /\ \A h \in Gens : gens[t][h].status = "in_progress" <=> current[t] = h
      /\ \A i \in DOMAIN snaps[t] : snaps[t][i].last \in 1 .. Revision(t)
      /\ \A i, j \in DOMAIN snaps[t] : snaps[t][i].id = snaps[t][j].id => i = j
      /\ deletions[t] = None
  BY <1>1, WasFine, NullAssumption
<1>3. Grows(t) /\ Revision(t)' = Revision(t) /\ \A i \in DOMAIN ledger'[t] : MessageAudit(t, i)'
  BY <1>1, StillGrows, OldMessages
<1>4. /\ DOMAIN snaps'[t] = 1 .. Len(snaps[t]) + 1 /\ Len(snaps[t]) \in Nat
      /\ DOMAIN snaps[t] = 1 .. Len(snaps[t])
      /\ \A i \in 1 .. Len(snaps[t]) : snaps'[t][i] = snaps[t][i]
      /\ snaps'[t][Len(snaps[t]) + 1] = s
  <2>1. snaps[t] \in Seq(Sum)
    BY <1>1, ThreadTypes
  <2> QED BY <1>1, <2>1, AppendProperties
<1>5. \A i \in DOMAIN snaps'[t] : snaps'[t][i].last \in 1 .. Revision(t)'
  BY <1>1, <1>2, <1>3, <1>4
<1>6. \A i, j \in DOMAIN snaps'[t] : snaps'[t][i].id = snaps'[t][j].id => i = j
  BY <1>1, <1>2, <1>4
<1>7. ASSUME NEW h \in Gens, gens'[t][h].status # "absent"
      PROVE  GenerationAudit(t, h)' /\ RowFine(t, h)'
  <2>1. h \in Rows(t) /\ gens'[t][h] = gens[t][h]
    BY <1>1, <1>7 DEF Rows
  <2>2. GenerationAudit(t, h)'
    BY <1>1, <1>3, <2>1, RowUntouched
  <2>3. RowFine(t, h)'
    BY <1>1, <1>2, <2>1 DEF RowFine, Used, SameTalk
  <2> QED BY <2>2, <2>3
<1>8. current'[t] \in Gens \cup {None} /\ \A h \in Gens : current'[t] = h => gens'[t][h].status # "absent"
  BY <1>1, <1>2, ThreadTypes
<1> QED BY <1>1, <1>2, <1>3, <1>5, <1>6, <1>7, <1>8, StaysFine

LEMMA ForgetsFine ==
  ASSUME IInv, NEW t \in Threads, Forgets(t)
  PROVE  Fine(t)'
<1>1. /\ thread'[t] = "deleted" /\ deletions'[t] # None
      /\ ledger'[t] = <<>> /\ snaps'[t] = <<>> /\ current'[t] = None
  BY DEF Forgets
<1>2. \A h \in Gens : gens'[t][h].status = "absent"
  <2>1. \A h \in Gens : gens'[t][h] = NoRow
    BY DEF Forgets
  <2>2. NoRow.status = "absent"
    BY DEF NoRow
  <2> QED BY <2>1, <2>2
<1>3. Rows(t)' = {}
  BY <1>2 DEF Rows
<1>4. DOMAIN ledger'[t] = {} /\ DOMAIN snaps'[t] = {}
  BY <1>1
<1>5. ThreadAudit(t)'
  BY <1>1, <1>3, <1>4 DEF ThreadAudit
<1> QED BY <1>1, <1>3, <1>4, <1>5 DEF Fine

\* The journals and the snapshots that go are of no row the audit reads.
LEMMA PrunesFine ==
  ASSUME IInv, TypeOK', NEW t \in Threads, Prunes(t)
  PROVE  Fine(t)'
<1>1. /\ thread'[t] = thread[t] /\ deletions'[t] = deletions[t] /\ SameTalk(t)
      /\ current'[t] = current[t] /\ ledger'[t] = ledger[t] /\ Fine(t) /\ TypeOK
  BY DEF Prunes, SameTalk, IInv
<1>2. \A h \in Gens :
        \/ gens'[t][h] = gens[t][h]
        \/ /\ gens[t][h].status = "completed" /\ gens'[t][h].status = "completed"
           /\ Origin(t, h) /\ gens'[t][h].deltas = gens[t][h].deltas
  BY DEF Prunes, Becomes, RowIs, Origin
<1>3. PICK at \in [DOMAIN snaps'[t] -> DOMAIN snaps[t]] :
        /\ \A j \in DOMAIN snaps'[t] : snaps'[t][j] = snaps[t][at[j]]
        /\ \A i, j \in DOMAIN snaps'[t] : at[i] = at[j] => i = j
  BY DEF Prunes
<1>4. Grows(t) /\ Revision(t)' = Revision(t)
  BY <1>1, StillGrows
<1>5. \A h \in Gens : gens[t][h].status = "completed" => gens'[t][h].status = "completed"
  BY <1>2
<1>6. \A i \in DOMAIN ledger'[t] : MessageAudit(t, i)'
  BY <1>1, <1>5, OldMessages
<1>7. Rows(t)' = Rows(t)
  BY <1>2 DEF Rows
<1>8. ASSUME NEW h \in Rows(t)
      PROVE  GenerationAudit(t, h)' /\ RowFine(t, h)'
  <2>1. GenerationAudit(t, h) /\ RowFine(t, h) /\ h \in Gens
    BY <1>1 DEF Fine, ThreadAudit, Rows
  <2>2. CASE gens'[t][h] = gens[t][h]
    <3>1. GenerationAudit(t, h)'
      BY <1>1, <1>4, <2>2, RowUntouched
    <3>2. RowFine(t, h)'
      BY <1>1, <2>1, <2>2 DEF RowFine, Used
    <3> QED BY <3>1, <3>2
  <2>3. CASE /\ gens[t][h].status = "completed" /\ gens'[t][h].status = "completed"
             /\ Origin(t, h) /\ gens'[t][h].deltas = gens[t][h].deltas
    <3>1. gens[t][h].status = "in_progress" <=> current[t] = h
      BY <2>1 DEF GenerationAudit
    <3>2. gens'[t][h].status = "in_progress" <=> current'[t] = h
      BY <1>1, <2>3, <3>1
    <3>3. GenerationAudit(t, h)'
      BY <1>4, <2>3, <3>2, RowAudited
    <3>4. RowFine(t, h)'
      BY <2>1, <2>3 DEF RowFine, Origin
    <3> QED BY <3>3, <3>4
  <2> QED BY <1>2, <2>1, <2>2, <2>3
<1>9. /\ \A i \in DOMAIN snaps[t] : snaps[t][i].last \in 1 .. Revision(t)
      /\ \A i, j \in DOMAIN snaps[t] : snaps[t][i].id = snaps[t][j].id => i = j
      /\ current[t] # None => current[t] \in Rows(t)
  BY <1>1 DEF Fine, ThreadAudit
<1>10. \A i \in DOMAIN snaps'[t] : snaps'[t][i].last \in 1 .. Revision(t)'
  BY <1>3, <1>4, <1>9
<1>11. \A i, j \in DOMAIN snaps'[t] : snaps'[t][i].id = snaps'[t][j].id => i = j
  BY <1>3, <1>9
<1>12. ThreadAudit(t)'
  BY <1>1, <1>6, <1>7, <1>8, <1>9, <1>10 DEF ThreadAudit
<1>13. thread[t] # "live" => ledger'[t] = <<>> /\ Rows(t)' = {} /\ snaps'[t] = <<>>
  <2>1. ASSUME thread[t] # "live"
        PROVE  snaps'[t] = <<>>
    <3>1. DOMAIN snaps[t] = {}
      BY <1>1, <2>1 DEF Fine
    <3>2. DOMAIN snaps'[t] = {}
      BY <1>3, <3>1
    <3>3. snaps'[t] \in Seq(Sum)
      BY DEF TypeOK, Sum
    <3> PICK new : new = snaps'[t]
      OBVIOUS
    <3>4. new \in Seq(Sum) /\ DOMAIN new = {}
      BY <3>2, <3>3
    <3>5. new = <<>>
      <4>1. DOMAIN new = 1 .. Len(new) /\ Len(new) \in Nat
        BY <3>4, LenProperties
      <4>2. ~(1 \in 1 .. Len(new))
        BY <3>4, <4>1
      <4>3. Len(new) = 0
        BY <4>1, <4>2
      <4> QED BY <3>4, <4>3, EmptySeq
    <3> QED BY <3>5
  <2> QED BY <1>1, <1>7, <2>1 DEF Fine
<1>14. /\ deletions'[t] # None <=> thread'[t] = "deleted"
       /\ \A h \in Rows(t)' : RowFine(t, h)'
  BY <1>1, <1>7, <1>8 DEF Fine
<1> QED BY <1>1, <1>11, <1>12, <1>13, <1>14 DEF Fine

LEMMA SameFine ==
  ASSUME IInv, NEW t \in Threads, Same(t)
  PROVE  Fine(t)'
<1>1. /\ thread'[t] = thread[t] /\ ledger'[t] = ledger[t] /\ gens'[t] = gens[t]
      /\ current'[t] = current[t] /\ snaps'[t] = snaps[t] /\ deletions'[t] = deletions[t]
      /\ Fine(t)
  BY DEF Same, IInv
<1>2. \A g \in Gens : GenerationAudit(t, g)' <=> GenerationAudit(t, g)
  BY <1>1 DEF GenerationAudit, FromUser, Seen
<1>3. \A g \in Gens : RowFine(t, g)' <=> RowFine(t, g)
  BY <1>1 DEF RowFine, Used
<1>4. Rows(t)' = Rows(t) /\ Rows(t) \subseteq Gens /\ Revision(t)' = Revision(t)
  BY <1>1 DEF Rows, Revision
<1>5. \A i \in DOMAIN ledger[t] : MessageAudit(t, i)' <=> MessageAudit(t, i)
  BY <1>1 DEF MessageAudit
<1>6. ThreadAudit(t)'
  BY <1>1, <1>2, <1>4, <1>5 DEF Fine, ThreadAudit
<1> QED BY <1>1, <1>3, <1>4, <1>6 DEF Fine

LEMMA MoveFine ==
  ASSUME IInv, TypeOK', NEW t \in Threads, Move(t)
  PROVE  Fine(t)'
<1>1. \/ Same(t) \/ Opens(t) \/ Forgets(t) \/ Prunes(t)
      \/ \E m \in Ids : Sends(t, m)
      \/ \E m, a \in Ids, g \in Gens, pic \in BOOLEAN : Asks(t, m, pic, g, a)
      \/ \E g \in Gens, a \in Ids : Begins(t, g, a)
      \/ \E g \in Gens : Writes(t, g) \/ Answers(t, g)
      \/ \E g \in Gens, c \in Codes \cup {None}, end \in {"cancelled", "failed"} : Stops(t, g, end, c)
      \/ \E s \in Sum : Sums(t, s)
  BY DEF Move
<1>2. CASE Same(t) \/ Opens(t) \/ Forgets(t) \/ Prunes(t)
  BY <1>2, SameFine, OpensFine, ForgetsFine, PrunesFine
<1>3. CASE \E m \in Ids : Sends(t, m)
  BY <1>3, SendsFine
<1>4. CASE \E m, a \in Ids, g \in Gens, pic \in BOOLEAN : Asks(t, m, pic, g, a)
  BY <1>4, AsksFine
<1>5. CASE \E g \in Gens, a \in Ids : Begins(t, g, a)
  BY <1>5, BeginsFine
<1>6. CASE \E g \in Gens : Writes(t, g) \/ Answers(t, g)
  BY <1>6, WritesFine, AnswersFine
<1>7. CASE \E g \in Gens, c \in Codes \cup {None}, end \in {"cancelled", "failed"} : Stops(t, g, end, c)
  BY <1>7, StopsFine
<1>8. CASE \E s \in Sum : Sums(t, s)
  BY <1>8, SumsFine
<1> QED BY <1>1, <1>2, <1>3, <1>4, <1>5, <1>6, <1>7, <1>8

-----------------------------------------------------------------------------
(* The invariant, and what it says of the store.                           *)

LEMMA InitFine == Init => IInv
<1> SUFFICES ASSUME Init
             PROVE  IInv
  OBVIOUS
<1>1. \A t \in Threads :
        /\ thread[t] = "unborn" /\ ledger[t] = <<>> /\ snaps[t] = <<>>
        /\ current[t] = None /\ deletions[t] = None
        /\ \A g \in Gens : gens[t][g] = NoRow
  BY DEF Init
<1>2. NoRow \in Generation /\ NoRow.status = "absent"
  BY AbsentRow DEF RowIs
<1>3. TypeOK
  <2>1. receipts \in Seq(Request) /\ Len(receipts) <= MaxReceipts
    BY BoundAssumption DEF Init
  <2>2. \A t \in Threads : Len(ledger[t]) <= MaxMessages /\ Len(snaps[t]) <= MaxSnaps
    BY <1>1, BoundAssumption
  <2>3. gens \in [Threads -> [Gens -> Generation]]
    BY <1>2 DEF Init
  <2>4. ledger \in [Threads -> Seq(Message)] /\ snaps \in [Threads -> Seq([id : Snaps, last : Nat, text : Nat])]
    BY DEF Init
  <2> QED BY <2>1, <2>2, <2>3, <2>4 DEF Init, TypeOK
<1>4. ASSUME NEW t \in Threads
      PROVE  Fine(t)
  <2>1. Rows(t) = {}
    BY <1>1, <1>2 DEF Rows
  <2> QED BY <1>1, <2>1 DEF Fine, ThreadAudit
<1> QED BY <1>3, <1>4 DEF IInv

LEMMA NextFine == IInv /\ [Next]_vars => IInv'
<1> SUFFICES ASSUME IInv, [Next]_vars
             PROVE  IInv'
  OBVIOUS
<1>1. CASE Next
  <2>1. PICK t \in Threads : Stepped(t)
    BY <1>1, NextMoves
  <2>2. TypeOK' /\ Move(t) /\ Elsewhere(t)
    BY <2>1 DEF Stepped
  <2>3. Fine(t)'
    BY <2>2, MoveFine
  <2>4. \A u \in Threads \ {t} : Fine(u)'
    BY <2>2, SameFine DEF Elsewhere
  <2> QED BY <2>2, <2>3, <2>4 DEF IInv
<1>2. CASE UNCHANGED vars
  <2>1. \A t \in Threads : Same(t)
    BY <1>2 DEF vars, Same
  <2>2. TypeOK'
    BY <1>2 DEF IInv, TypeOK, vars
  <2> QED BY <2>1, <2>2, SameFine DEF IInv
<1> QED BY <1>1, <1>2

\* The inductive invariant of the ledger holds in every state: the types, what one row says
\* of the others of its thread, and that snapshots and reserved answers are told apart.
THEOREM Inductive == Spec => []IInv
<1>1. Init => IInv
  BY InitFine
<1>2. IInv /\ [Next]_vars => IInv'
  BY NextFine
<1> QED BY <1>1, <1>2, PTL DEF Spec

\* Every table of the ledger keeps its rows well-formed and within its limit.
THEOREM TypeCorrect == Spec => []TypeOK
<1>1. IInv => TypeOK
  BY DEF IInv
<1> QED BY <1>1, Inductive, PTL

\* The audit that every transaction of the store runs never rejects what the
\* store wrote itself.
THEOREM AuditAlwaysClean == Spec => []AuditClean
<1>1. IInv => AuditClean
  BY DEF IInv, Fine, AuditClean, DatabaseAudit
<1> QED BY <1>1, Inductive, PTL

-----------------------------------------------------------------------------
(* The receipts.                                                           *)

\* What a caller that retries q can be told.
Served(q) ==
  \/ Effect(q)
  \/ q.kind = "compact" /\ \E j \in DOMAIN snaps[q.thread] : snaps[q.thread][j].last >= q.rev

ReceiptsServed == \A q \in Request : Has(q) => Formed(q) /\ Served(q)

RInv == IInv /\ ReceiptsServed

\* What a move leaves of a thread that lives on: its messages, what its rows were
\* started with, how those that ended did, and a snapshot at least as far as each.
RowsKept(t) ==
  \A g \in Rows(t) :
    /\ Origin(t, g) /\ gens'[t][g].status # "absent"
    /\ gens[t][g].status \in Ended =>
         gens'[t][g].status = gens[t][g].status /\ gens'[t][g].code = gens[t][g].code

SumsKept(t) ==
  \A i \in DOMAIN snaps[t] :
    \E j \in DOMAIN snaps'[t] :
      /\ snaps'[t][j].last >= snaps[t][i].last

LEMMA UntouchedKept ==
  ASSUME NEW t \in Threads, \A g \in Rows(t) : gens'[t][g] = gens[t][g]
  PROVE  RowsKept(t)
BY DEF RowsKept, Origin, Rows

LEMMA SumsStay ==
  ASSUME TypeOK, NEW t \in Threads, SameSums(t)
  PROVE  SumsKept(t)
<1>1. \A i \in DOMAIN snaps[t] : snaps[t][i].last \in Nat
  <2>1. snaps[t] \in Seq(Sum)
    BY ThreadTypes
  <2>2. \A x \in Sum : x.last \in Nat
    BY DEF Sum
  <2> QED BY <2>1, <2>2
<1> QED BY <1>1 DEF SumsKept, SameSums

LEMMA SaysKeeps ==
  ASSUME TypeOK, NEW t \in Threads, NEW m \in Ids, NEW pic, Says(t, m, pic)
  PROVE  Grows(t) /\ SumsKept(t)
<1> PICK msg : msg = UserMessage(m, pic)
  OBVIOUS
<1>1. ledger'[t] = Append(ledger[t], msg) /\ SameSums(t) /\ pic \in BOOLEAN
  BY DEF Says
<1>2. msg \in Message
  BY <1>1, UserMessageIs
<1> QED BY <1>1, <1>2, LongerGrows, SumsStay

LEMMA StartsKeeps ==
  ASSUME NEW t \in Threads, NEW g, NEW r, NEW a, NEW v, Starts(t, g, r, a, v)
  PROVE  RowsKept(t)
<1>1. \A h \in Rows(t) : h \in Gens \ {g}
  BY DEF Starts, Rows
<1>2. \A h \in Rows(t) : gens'[t][h] = gens[t][h]
  BY <1>1 DEF Starts, SameRows
<1> QED BY <1>2, UntouchedKept

LEMMA BecomesKeeps ==
  ASSUME NEW t \in Threads, NEW g \in Gens, NEW status, NEW deltas, NEW pruned, NEW code,
         Runs(t, g), Becomes(t, g, status, deltas, pruned, code), status # "absent",
         SameRows(t, {g})
  PROVE  RowsKept(t)
<1>1. /\ Origin(t, g) /\ gens'[t][g].status = status /\ gens[t][g].status \notin Ended
      /\ \A h \in Gens \ {g} : gens'[t][h] = gens[t][h]
  BY DEF Becomes, RowIs, Origin, Runs, Ended, SameRows
<1> QED BY <1>1 DEF RowsKept, Rows, Origin

LEMMA MoveKeeps ==
  ASSUME IInv, TypeOK', NEW t \in Threads, Move(t), thread[t] = "live", thread'[t] = "live"
  PROVE  Grows(t) /\ RowsKept(t) /\ SumsKept(t)
<1>1. TypeOK
  BY DEF IInv
<1>2. ASSUME SameTalk(t), SameRows(t, {}), SameSums(t)
      PROVE  Grows(t) /\ RowsKept(t) /\ SumsKept(t)
  BY <1>1, <1>2, StillGrows, UntouchedKept, SumsStay DEF SameRows, Rows
<1>3. CASE Same(t)
  BY <1>2, <1>3 DEF Same, SameTalk, SameRows, SameSums
<1>4. ~Opens(t) /\ ~Forgets(t)
  BY DEF Opens, Forgets
<1>5. CASE Prunes(t)
  <2>1. \A h \in Gens :
          \/ gens'[t][h] = gens[t][h]
          \/ /\ gens[t][h].status = "completed" /\ gens'[t][h].status = "completed"
             /\ Origin(t, h) /\ gens'[t][h].code = gens[t][h].code
    BY <1>5 DEF Prunes, Becomes, RowIs, Origin
  <2>2. RowsKept(t)
    BY <2>1 DEF RowsKept, Rows, Origin
  <2>3. Grows(t) /\ SumsKept(t)
    BY <1>5, StillGrows DEF Prunes, SumsKept
  <2> QED BY <2>2, <2>3
<1>6. ASSUME NEW m \in Ids, Sends(t, m)
      PROVE  Grows(t) /\ RowsKept(t) /\ SumsKept(t)
  BY <1>1, <1>6, SaysKeeps, UntouchedKept DEF Sends, SameRows, Rows
<1>7. ASSUME NEW m \in Ids, NEW a \in Ids, NEW g \in Gens, NEW pic \in BOOLEAN, Asks(t, m, pic, g, a)
      PROVE  Grows(t) /\ RowsKept(t) /\ SumsKept(t)
  <2>1. Says(t, m, pic) /\ Starts(t, g, Revision(t) + 1, a, pic \/ Seen(t, Revision(t)))
    BY <1>7 DEF Asks
  <2> QED BY <1>1, <2>1, SaysKeeps, StartsKeeps
<1>8. ASSUME NEW g \in Gens, NEW a \in Ids, Begins(t, g, a)
      PROVE  Grows(t) /\ RowsKept(t) /\ SumsKept(t)
  <2>1. SameTalk(t) /\ SameSums(t) /\ Starts(t, g, Revision(t), a, Seen(t, Revision(t)))
    BY <1>8 DEF Begins
  <2> QED BY <1>1, <2>1, StillGrows, SumsStay, StartsKeeps
<1>9. ASSUME NEW g \in Gens, Writes(t, g)
      PROVE  Grows(t) /\ RowsKept(t) /\ SumsKept(t)
  <2>1. /\ Runs(t, g) /\ SameTalk(t) /\ SameSums(t) /\ SameRows(t, {g})
        /\ Becomes(t, g, gens[t][g].status, TRUE, gens[t][g].pruned, gens[t][g].code)
    BY <1>9 DEF Writes
  <2>2. gens[t][g].status # "absent"
    BY <2>1 DEF Runs
  <2> QED BY <1>1, <2>1, <2>2, StillGrows, SumsStay, BecomesKeeps
<1>10. ASSUME NEW g \in Gens, Answers(t, g)
       PROVE  Grows(t) /\ RowsKept(t) /\ SumsKept(t)
  <2> PICK msg : msg = AnswerOf(t, g)
    OBVIOUS
  <2>1. /\ Runs(t, g) /\ ledger'[t] = Append(ledger[t], msg) /\ SameSums(t) /\ SameRows(t, {g})
        /\ Becomes(t, g, "completed", gens[t][g].deltas, gens[t][g].pruned, gens[t][g].code)
    BY <1>10 DEF Answers
  <2>2. gens[t][g].reply \in Ids
    BY <2>1 DEF IInv, Fine, RowFine, Runs, Rows
  <2>3. msg \in Message
    BY <2>2 DEF AnswerOf, Message
  <2> QED BY <1>1, <2>1, <2>3, LongerGrows, SumsStay, BecomesKeeps
<1>11. ASSUME NEW g \in Gens, NEW c, NEW end \in {"cancelled", "failed"}, Stops(t, g, end, c)
       PROVE  Grows(t) /\ RowsKept(t) /\ SumsKept(t)
  <2>1. /\ Runs(t, g) /\ SameTalk(t) /\ SameSums(t) /\ SameRows(t, {g})
        /\ Becomes(t, g, end, gens[t][g].deltas, gens[t][g].pruned, c)
    BY <1>11 DEF Stops
  <2> QED BY <1>1, <2>1, StillGrows, SumsStay, BecomesKeeps
<1>12. ASSUME NEW s \in Sum, Sums(t, s)
       PROVE  Grows(t) /\ RowsKept(t) /\ SumsKept(t)
  <2>1. /\ SameTalk(t) /\ SameRows(t, {}) /\ snaps'[t] = Append(snaps[t], s)
        /\ snaps[t] \in Seq(Sum)
    BY <1>1, <1>12, ThreadTypes DEF Sums
  <2>2. \A i \in DOMAIN snaps[t] :
          i \in DOMAIN snaps'[t] /\ snaps'[t][i] = snaps[t][i] /\ snaps[t][i].last \in Nat
    <3>1. \A x \in Sum : x.last \in Nat
      BY DEF Sum
    <3>2. \A i \in DOMAIN snaps[t] : i \in DOMAIN snaps'[t] /\ snaps'[t][i] = snaps[t][i]
      BY <2>1, AppendProperties
    <3>3. \A i \in DOMAIN snaps[t] : snaps[t][i] \in Sum
      BY <2>1
    <3> QED BY <3>1, <3>2, <3>3
  <2>3. SumsKept(t)
    BY <2>2 DEF SumsKept
  <2> QED BY <2>1, <2>3, StillGrows, UntouchedKept DEF SameRows, Rows
<1> QED BY <1>3, <1>4, <1>5, <1>6, <1>7, <1>8, <1>9, <1>10, <1>11, <1>12 DEF Move

LEMMA ServedIsLive ==
  ASSUME IInv, NEW q \in Request, Served(q)
  PROVE  q.thread \in Threads /\ thread[q.thread] = "live"
<1>1. q.thread \in Threads
  BY DEF Request
<1>2. CASE Effect(q)
  BY <1>1, <1>2 DEF Effect
<1>3. CASE \E j \in DOMAIN snaps[q.thread] : snaps[q.thread][j].last >= q.rev
  <2>1. DOMAIN snaps[q.thread] # {}
    BY <1>3
  <2> QED BY <1>1, <2>1 DEF IInv, Fine
<1> QED BY <1>1, <1>2, <1>3 DEF Served

LEMMA ServedStays ==
  ASSUME IInv, NEW t \in Threads, NEW q \in Request, q.thread = t, Formed(q), Served(q),
         TypeOK', thread'[t] = "live", Grows(t), RowsKept(t), SumsKept(t)
  PROVE  Served(q)'
<1> PICK r, g : r = q.rev + 1 /\ g = q.gen
  OBVIOUS
<1>1. ASSUME Said(t, q)
      PROVE  Said(t, q)' /\ ledger'[t][r] = ledger[t][r] /\ (Seen(t, r)' <=> Seen(t, r))
  <2>1. FromUser(t, r) /\ ledger[t][r].id = q.id /\ r \in DOMAIN ledger[t]
    BY <1>1 DEF Said, FromUser
  <2>2. FromUser(t, r)' /\ ledger'[t][r] = ledger[t][r] /\ (Seen(t, r)' <=> Seen(t, r))
    BY <2>1 DEF Grows
  <2> QED BY <2>1, <2>2 DEF Said
<1>2. ASSUME g \in Gens, gens[t][g].status # "absent"
      PROVE  /\ gens'[t][g].status # "absent" /\ Origin(t, g)
             /\ gens[t][g].status \in Ended =>
                  gens'[t][g].status = gens[t][g].status /\ gens'[t][g].code = gens[t][g].code
             /\ FromUser(t, gens[t][g].source)
  <2>1. g \in Rows(t)
    BY <1>2 DEF Rows
  <2> QED BY <2>1 DEF RowsKept, IInv, Fine, ThreadAudit, GenerationAudit
<1>3. CASE Effect(q) /\ q.kind = "create"
  BY <1>3 DEF Served, Effect
<1>4. CASE Effect(q) /\ q.kind = "send"
  BY <1>1, <1>4 DEF Served, Effect
<1>5. CASE Effect(q) /\ q.kind = "turn"
  <2>1. /\ Said(t, q) /\ ledger[t][r].pic = q.pic /\ g \in Gens
        /\ gens[t][g].status # "absent" /\ gens[t][g].reply = q.reply
        /\ gens[t][g].source = r /\ gens[t][g].vision = Seen(t, r)
    BY <1>5 DEF Effect, Formed
  <2>2. /\ gens'[t][g].status # "absent" /\ gens'[t][g].reply = q.reply
        /\ gens'[t][g].source = r /\ gens'[t][g].vision = Seen(t, r)
    BY <1>2, <2>1 DEF Origin
  <2>3. Said(t, q)' /\ ledger'[t][r].pic = q.pic /\ (Seen(t, r)' <=> Seen(t, r))
    BY <1>1, <2>1
  <2>4. gens'[t][g].vision = Seen(t, r)'
    BY <2>2, <2>3 DEF Seen
  <2>5. Effect(q)'
    <3>1. gens'[t][g].vision = Seen(t, q.rev + 1)'
      BY <2>4
    <3> QED BY <1>5, <2>2, <2>3, <3>1 DEF Effect
  <2> QED BY <2>5 DEF Served
<1>6. CASE Effect(q) /\ q.kind = "begin"
  <2>1. /\ g \in Gens /\ gens[t][g].status # "absent" /\ gens[t][g].reply = q.reply
        /\ gens[t][g].source = q.rev /\ gens[t][g].vision = Seen(t, q.rev)
    BY <1>6 DEF Effect, Formed
  <2>2. FromUser(t, q.rev)
    BY <1>2, <2>1
  <2>3. Seen(t, q.rev)' <=> Seen(t, q.rev)
    BY <2>2 DEF FromUser, Grows
  <2>4. /\ gens'[t][g].status # "absent" /\ gens'[t][g].reply = q.reply
        /\ gens'[t][g].source = q.rev /\ gens'[t][g].vision = Seen(t, q.rev)
    BY <1>2, <2>1 DEF Origin
  <2>5. gens'[t][g].vision = Seen(t, q.rev)'
    BY <2>3, <2>4 DEF Seen
  <2>6. Effect(q)'
    BY <1>6, <2>4, <2>5 DEF Effect
  <2> QED BY <2>6 DEF Served
<1>7. CASE Effect(q) /\ q.kind \in {"finalize", "cancel", "fail"}
  <2>1. /\ g \in Gens /\ gens[t][g].status \in Ended
        /\ q.kind = "finalize" => gens[t][g].status = "completed"
        /\ q.kind = "cancel" => gens[t][g].status = "cancelled"
        /\ q.kind = "fail" => gens[t][g].status = "failed" /\ gens[t][g].code = q.code
    BY <1>7 DEF Effect, Formed, Ended
  <2>2. gens'[t][g].status = gens[t][g].status /\ gens'[t][g].code = gens[t][g].code
    BY <1>2, <2>1 DEF Ended
  <2>3. Effect(q)'
    BY <1>7, <2>1, <2>2 DEF Effect
  <2> QED BY <2>3 DEF Served
<1>8. CASE q.kind = "compact"
  <2>1. PICK i \in DOMAIN snaps[t] : snaps[t][i].last >= q.rev
    <3>1. CASE Effect(q)
      <4>1. PICK i \in DOMAIN snaps[t] : snaps[t][i] = Snapshot(q)
        BY <1>8, <3>1 DEF Effect
      <4>2. snaps[t][i].last = q.rev /\ q.rev \in Nat
        BY <4>1 DEF Snapshot, Request
      <4> QED BY <4>2
    <3> QED BY <3>1 DEF Served
  <2>2. PICK j \in DOMAIN snaps'[t] : snaps'[t][j].last >= snaps[t][i].last
    BY DEF SumsKept
  <2>3. snaps'[t][j].last \in Nat /\ snaps[t][i].last \in Nat /\ q.rev \in Nat
    <3>1. snaps[t] \in Seq(Sum) /\ snaps'[t] \in Seq(Sum)
      BY DEF IInv, TypeOK, Sum
    <3>2. snaps[t][i] \in Sum /\ snaps'[t][j] \in Sum
      BY <3>1
    <3> QED BY <3>2 DEF Sum, Request
  <2>4. snaps'[t][j].last >= q.rev
    BY <2>1, <2>2, <2>3
  <2> QED BY <1>8, <2>4 DEF Served
<1>9. q.kind \in Kinds
  BY DEF Request, Kinds
<1> QED BY <1>3, <1>4, <1>5, <1>6, <1>7, <1>8, <1>9 DEF Served, Kinds

LEMMA InitServed == Init => ReceiptsServed
BY DEF Init, ReceiptsServed, Has

LEMMA NextServed == RInv /\ [Next]_vars => RInv'
<1> SUFFICES ASSUME RInv, [Next]_vars
             PROVE  RInv'
  OBVIOUS
<1>1. IInv /\ ReceiptsServed /\ IInv' /\ TypeOK'
  BY NextFine DEF RInv, IInv
<1>2. CASE Next
  <2>1. PICK t \in Threads : Move(t) /\ Elsewhere(t) /\ Filed
    BY <1>1, <1>2, NextMoves DEF Stepped
  <2>2. ASSUME NEW q \in Request, Has(q)'
        PROVE  Formed(q) /\ Served(q)'
    <3>1. CASE Formed(q) /\ Effect(q)'
      BY <3>1 DEF Served
    <3>2. CASE Has(q) /\ Stays(q.thread)
      <4> PICK u : u = q.thread
        OBVIOUS
      <4>1. Formed(q) /\ Served(q)
        BY <1>1, <3>2 DEF ReceiptsServed
      <4>2. u \in Threads /\ thread[u] = "live" /\ thread'[u] = "live"
        BY <1>1, <3>2, <4>1, ServedIsLive DEF Stays
      <4>3. Move(u)
        BY <2>1, <4>2 DEF Elsewhere, Move
      <4>4. Grows(u) /\ RowsKept(u) /\ SumsKept(u)
        BY <1>1, <4>2, <4>3, MoveKeeps
      <4> QED BY <1>1, <4>1, <4>2, <4>4, ServedStays
    <3> QED BY <2>1, <2>2, <3>1, <3>2 DEF Filed
  <2> QED BY <1>1, <2>2 DEF RInv, ReceiptsServed
<1>3. CASE UNCHANGED vars
  BY <1>1, <1>3 DEF RInv, ReceiptsServed, Has, Served, Effect, Said, FromUser, Seen, Snapshot, vars
<1> QED BY <1>2, <1>3

\* A caller that retries while its receipt is kept is told what happened, and is never
\* refused because its data changed under it.
THEOREM ReceiptsAlwaysReplay == Spec => []ReceiptsReplay
<1>1. Init => RInv
  BY InitFine, InitServed DEF RInv
<1>2. RInv /\ [Next]_vars => RInv'
  BY NextServed
<1>3. RInv => ReceiptsReplay
  <2> SUFFICES ASSUME RInv, NEW i \in DOMAIN receipts
               PROVE  Served(receipts[i])
    BY DEF ReceiptsReplay, Served
  <2>1. receipts[i] \in Request
    BY DEF RInv, IInv, TypeOK
  <2>2. Has(receipts[i])
    BY DEF Has
  <2> QED BY <2>1, <2>2 DEF RInv, ReceiptsServed
<1> QED BY <1>1, <1>2, <1>3, PTL DEF Spec

-----------------------------------------------------------------------------
(* The ledger implements the conversation.                                 *)

Spoken == [id : Ids, role : {"user", "assistant"}]

LEMMA ListOf ==
  ASSUME NEW S, NEW n \in Nat, NEW list \in [1 .. n -> S]
  PROVE  list \in Seq(S) /\ Len(list) = n /\ DOMAIN list = 1 .. n
OBVIOUS

LEMMA TalkIs ==
  ASSUME TypeOK, NEW t \in Threads
  PROVE  /\ Talk[t] \in Seq(Spoken) /\ Len(Talk[t]) = Revision(t)
         /\ DOMAIN Talk[t] = 1 .. Revision(t)
         /\ \A i \in 1 .. Revision(t) :
              /\ Talk[t][i] = [id |-> ledger[t][i].id, role |-> ledger[t][i].role]
              /\ Talk[t][i].id = ledger[t][i].id /\ Talk[t][i].role = ledger[t][i].role
<1>1. /\ ledger[t] \in Seq(Message) /\ Revision(t) \in Nat /\ DOMAIN ledger[t] = 1 .. Revision(t)
      /\ Revision(t) = Len(ledger[t])
  BY ThreadTypes DEF Revision
<1>2. \A i \in 1 .. Revision(t) :
        [id |-> ledger[t][i].id, role |-> ledger[t][i].role] \in Spoken
  <2>1. \A m \in Message : m.id \in Ids /\ m.role \in {"user", "assistant"}
    BY DEF Message
  <2>2. \A i \in 1 .. Revision(t) : ledger[t][i] \in Message
    BY <1>1
  <2> QED BY <2>1, <2>2 DEF Spoken
<1>3. Talk[t] = [i \in 1 .. Revision(t) |-> [id |-> ledger[t][i].id, role |-> ledger[t][i].role]]
  BY DEF Talk, Revision
<1>4. Talk[t] \in [1 .. Revision(t) -> Spoken]
  BY <1>2, <1>3
<1>5. /\ Talk[t] \in Seq(Spoken) /\ Len(Talk[t]) = Revision(t)
      /\ DOMAIN Talk[t] = 1 .. Revision(t)
  BY <1>1, <1>4, ListOf
<1>6. ASSUME NEW i \in 1 .. Revision(t)
      PROVE  /\ Talk[t][i] = [id |-> ledger[t][i].id, role |-> ledger[t][i].role]
             /\ Talk[t][i].id = ledger[t][i].id /\ Talk[t][i].role = ledger[t][i].role
  <2>1. Talk[t][i] = [id |-> ledger[t][i].id, role |-> ledger[t][i].role]
    BY <1>3
  <2> QED BY <2>1
<1> QED BY <1>5, <1>6

LEMMA TurnIs ==
  ASSUME TypeOK, NEW t \in Threads, NEW g \in Gens
  PROVE  /\ Turn[t][g] = TurnOf(gens[t][g])
         /\ Turn[t][g].at = gens[t][g].source
         /\ Turn[t][g].state = "absent" <=> gens[t][g].status = "absent"
         /\ Turn[t][g].state = "running" <=> gens[t][g].status = "in_progress"
<1>1. gens[t][g].status \in {"absent", "in_progress"} \cup Ended
  BY ThreadTypes, RowTypes
<1>2. Turn[t][g] = TurnOf(gens[t][g])
  BY DEF Turn
<1> QED BY <1>1, <1>2 DEF TurnOf, Ended

\* What the guards of the conversation ask, read in the rows.
LEMMA GuardsAre ==
  ASSUME IInv, NEW t \in Threads, thread[t] = "live"
  PROVE  /\ current[t] = None => ~Conv!Running(t)
         /\ \A m \in Ids : Conv!Said(t, m) <=> Used(t, m)
         /\ Conv!EndsWithUser(t) <=> FromUser(t, Revision(t))
         /\ FromUser(t, Revision(t)) /\ ~Unresolved(t) => Conv!Heard(t)
<1>1. /\ TypeOK /\ \A g \in Gens : g # None
      /\ \A g \in Gens : gens[t][g].status = "in_progress" <=> current[t] = g
  BY WasFine, NullAssumption
<1>2. /\ Talk[t] \in Seq(Spoken) /\ Len(Talk[t]) = Revision(t)
      /\ DOMAIN Talk[t] = 1 .. Revision(t)
      /\ \A i \in 1 .. Revision(t) :
           Talk[t][i].id = ledger[t][i].id /\ Talk[t][i].role = ledger[t][i].role
      /\ Revision(t) \in Nat /\ DOMAIN ledger[t] = 1 .. Revision(t)
  BY <1>1, TalkIs, ThreadTypes
<1>3. current[t] = None => ~Conv!Running(t)
  BY <1>1, TurnIs DEF Conv!Running
<1>4. \A m \in Ids : Conv!Said(t, m) <=> Used(t, m)
  BY <1>2 DEF Conv!Said, Used
<1>5. Conv!EndsWithUser(t) <=> FromUser(t, Revision(t))
  <2>1. Talk[t] = <<>> <=> Revision(t) = 0
    <3>1. Talk[t] = <<>> <=> Len(Talk[t]) = 0
      BY <1>2, EmptySeq, Zenon
    <3> QED BY <1>2, <3>1
  <2>2. FromUser(t, Revision(t)) <=> Revision(t) # 0 /\ ledger[t][Revision(t)].role = "user"
    BY <1>2 DEF FromUser
  <2>3. Revision(t) # 0 => Talk[t][Len(Talk[t])].role = ledger[t][Revision(t)].role
    BY <1>2
  <2> QED BY <2>1, <2>2, <2>3 DEF Conv!EndsWithUser
<1>6. ASSUME FromUser(t, Revision(t)), ~Unresolved(t)
      PROVE  Conv!Heard(t)
  <2>1. PICK g \in Rows(t) : gens[t][g].source = Revision(t)
    BY <1>6 DEF Unresolved
  <2>2. g \in Gens /\ Turn[t][g].state # "absent" /\ Turn[t][g].at = Len(Talk[t])
    BY <1>1, <1>2, <2>1, TurnIs DEF Rows
  <2> QED BY <2>2 DEF Conv!Heard
<1> QED BY <1>3, <1>4, <1>5, <1>6

\* How a move of one thread changes the tables of the conversation.
LEMMA ThreadBecomes ==
  ASSUME TypeOK, TypeOK', NEW t \in Threads, Elsewhere(t)
  PROVE  \A x : thread'[t] = x => thread' = [thread EXCEPT ![t] = x]
BY DEF Elsewhere, Same, TypeOK

LEMMA TalkBecomes ==
  ASSUME NEW t \in Threads, Elsewhere(t)
  PROVE  /\ \A x : Talk'[t] = x => Talk' = [Talk EXCEPT ![t] = x]
         /\ SameTalk(t) => Talk' = Talk
<1>1. \A u \in Threads \ {t} : ledger'[u] = ledger[u]
  BY DEF Elsewhere, Same
<1>2. \A u \in Threads \ {t} : Talk'[u] = Talk[u]
  BY <1>1 DEF Talk
<1>3. DOMAIN Talk = Threads /\ DOMAIN Talk' = Threads
      /\ Talk = [u \in Threads |-> Talk[u]] /\ Talk' = [u \in Threads |-> Talk'[u]]
  BY DEF Talk
<1>4. SameTalk(t) => Talk'[t] = Talk[t]
  BY DEF SameTalk, Talk
<1> QED BY <1>2, <1>3, <1>4

LEMMA TurnBecomes ==
  ASSUME NEW t \in Threads, Elsewhere(t), NEW g \in Gens, SameRows(t, {g})
  PROVE  \A x : Turn'[t][g] = x => Turn' = [Turn EXCEPT ![t][g] = x]
<1>1. \A u \in Threads \ {t} : gens'[u] = gens[u]
  BY DEF Elsewhere, Same
<1>2. \A u \in Threads \ {t} : Turn'[u] = Turn[u]
  BY <1>1 DEF Turn
<1>3. \A h \in Gens \ {g} : Turn'[t][h] = Turn[t][h]
  BY DEF SameRows, Turn
<1>4. /\ Turn = [u \in Threads |-> Turn[u]] /\ Turn' = [u \in Threads |-> Turn'[u]]
      /\ Turn[t] = [h \in Gens |-> Turn[t][h]] /\ Turn'[t] = [h \in Gens |-> Turn'[t][h]]
  BY DEF Turn
<1> QED BY <1>2, <1>3, <1>4

LEMMA TurnStays ==
  ASSUME NEW t \in Threads, Elsewhere(t),
         \A h \in Gens : TurnOf(gens'[t][h]) = TurnOf(gens[t][h])
  PROVE  Turn' = Turn
<1>1. \A u \in Threads \ {t} : \A h \in Gens : TurnOf(gens'[u][h]) = TurnOf(gens[u][h])
  BY DEF Elsewhere, Same
<1> QED BY <1>1 DEF Turn

LEMMA TalkAppends ==
  ASSUME TypeOK, NEW t \in Threads, Elsewhere(t), NEW msg \in Message,
         ledger'[t] = Append(ledger[t], msg)
  PROVE  Talk' = [Talk EXCEPT ![t] = Append(@, [id |-> msg.id, role |-> msg.role])]
<1> DEFINE say == [id |-> msg.id, role |-> msg.role]
<1>1. /\ Talk[t] \in Seq(Spoken) /\ Len(Talk[t]) = Revision(t) /\ Revision(t) \in Nat
      /\ \A i \in 1 .. Revision(t) :
           Talk[t][i] = [id |-> ledger[t][i].id, role |-> ledger[t][i].role]
  BY TalkIs, ThreadTypes
<1>2. /\ Len(ledger'[t]) = Revision(t) + 1
      /\ \A i \in 1 .. Revision(t) : ledger'[t][i] = ledger[t][i]
      /\ ledger'[t][Revision(t) + 1] = msg
  BY Longer DEF Revision
<1>3. say \in Spoken
  BY DEF Spoken, Message
<1>4. Talk'[t] = [i \in 1 .. Revision(t) + 1 |-> [id |-> ledger'[t][i].id, role |-> ledger'[t][i].role]]
  BY <1>2 DEF Talk
<1> HIDE DEF say
<1> DEFINE new == Append(Talk[t], say)
<1>5. /\ new \in Seq(Spoken) /\ Len(new) = Revision(t) + 1
      /\ \A i \in 1 .. Revision(t) : new[i] = Talk[t][i]
      /\ new[Revision(t) + 1] = say
  BY <1>1, <1>3, AppendProperties
<1>6. new = [i \in 1 .. Revision(t) + 1 |-> new[i]]
  BY <1>5
<1>7. \A i \in 1 .. Revision(t) + 1 : new[i] = Talk'[t][i]
  BY <1>1, <1>2, <1>4, <1>5 DEF say
<1>8. Talk'[t] = new
  BY <1>4, <1>6, <1>7
<1> QED BY <1>8, TalkBecomes DEF say

LEMMA ThreadStays ==
  ASSUME TypeOK, TypeOK', NEW t \in Threads, Elsewhere(t), thread'[t] = thread[t]
  PROVE  thread' = thread
BY DEF Elsewhere, Same, TypeOK

\* A retry, a fragment of an answer, a snapshot and clean-up are not heard.
LEMMA QuietRepeats ==
  ASSUME TypeOK, TypeOK', NEW t \in Threads, Elsewhere(t), thread'[t] = thread[t], SameTalk(t),
         \A h \in Gens : TurnOf(gens'[t][h]) = TurnOf(gens[t][h])
  PROVE  Conv!Next
<1>1. thread' = thread /\ Talk' = Talk /\ Turn' = Turn
  BY ThreadStays, TalkBecomes, TurnStays
<1> QED BY <1>1 DEF Conv!Next, Conv!Repeat, Conv!vars

LEMMA SayingSpeaks ==
  ASSUME IInv, TypeOK', NEW t \in Threads, Elsewhere(t), NEW m \in Ids, NEW pic, Says(t, m, pic)
  PROVE  Conv!Speak(t, m) /\ thread' = thread
<1>1. /\ TypeOK /\ thread[t] = "live" /\ thread'[t] = "live" /\ current[t] = None
      /\ ~Used(t, m) /\ pic \in BOOLEAN
      /\ ledger'[t] = Append(ledger[t], UserMessage(m, pic))
  BY DEF Says, Idles, Free, IInv
<1>2. ~Conv!Running(t) /\ ~Conv!Said(t, m)
  BY <1>1, GuardsAre
<1> PICK msg : msg = UserMessage(m, pic)
  OBVIOUS
<1>3. msg \in Message /\ msg.id = m /\ msg.role = "user"
  BY <1>1, UserMessageIs
<1>4. Talk' = [Talk EXCEPT ![t] = Append(@, [id |-> m, role |-> "user"])]
  BY <1>1, <1>3, TalkAppends
<1>5. thread' = thread
  BY <1>1, ThreadStays
<1> QED BY <1>1, <1>2, <1>4, <1>5 DEF Conv!Speak

LEMMA StartingRuns ==
  ASSUME IInv, NEW t \in Threads, Elsewhere(t), NEW g \in Gens, NEW r, NEW a, NEW v,
         Starts(t, g, r, a, v)
  PROVE  /\ Turn[t][g].state = "absent"
         /\ Turn' = [Turn EXCEPT ![t][g] = [state |-> "running", at |-> r]]
<1>1. /\ TypeOK /\ gens[t][g].status = "absent" /\ SameRows(t, {g})
      /\ gens'[t][g].status = "in_progress" /\ gens'[t][g].source = r
  BY DEF Starts, RowIs, IInv
<1>2. Turn'[t][g] = [state |-> "running", at |-> r]
  BY <1>1 DEF Turn, TurnOf
<1> QED BY <1>1, <1>2, TurnIs, TurnBecomes

LEMMA OpensConverses ==
  ASSUME IInv, TypeOK', NEW t \in Threads, Elsewhere(t), Opens(t)
  PROVE  Conv!Open(t)
<1>1. thread[t] = "unborn" /\ thread'[t] = "live" /\ SameTalk(t) /\ TypeOK
      /\ \A h \in Gens : gens'[t][h] = gens[t][h]
  BY DEF Opens, SameRows, IInv
<1>2. thread' = [thread EXCEPT ![t] = "live"]
  BY <1>1, ThreadBecomes
<1>3. Talk' = Talk /\ Turn' = Turn
  BY <1>1, TalkBecomes, TurnStays
<1> QED BY <1>1, <1>2, <1>3 DEF Conv!Open

LEMMA SendsConverses ==
  ASSUME IInv, TypeOK', NEW t \in Threads, Elsewhere(t), NEW m \in Ids, Sends(t, m)
  PROVE  Conv!Say(t, m)
<1>1. Says(t, m, FALSE) /\ \A h \in Gens : gens'[t][h] = gens[t][h]
  BY DEF Sends, SameRows
<1>2. Turn' = Turn
  BY <1>1, TurnStays
<1> QED BY <1>1, <1>2, SayingSpeaks DEF Conv!Say

LEMMA AsksConverses ==
  ASSUME IInv, TypeOK', NEW t \in Threads, Elsewhere(t), NEW m \in Ids, NEW a \in Ids,
         NEW g \in Gens, NEW pic \in BOOLEAN, Asks(t, m, pic, g, a)
  PROVE  Conv!Ask(t, m, g)
<1> PICK r, v : r = Revision(t) + 1 /\ v = (pic \/ Seen(t, Revision(t)))
  OBVIOUS
<1>1. Says(t, m, pic) /\ Starts(t, g, r, a, v)
  BY DEF Asks
<1>2. r = Len(Talk[t]) + 1
  BY TalkIs DEF IInv
<1>3. Turn[t][g].state = "absent" /\ Turn' = [Turn EXCEPT ![t][g] = [state |-> "running", at |-> r]]
  BY <1>1, StartingRuns
<1>4. Conv!Speak(t, m) /\ thread' = thread
  BY <1>1, SayingSpeaks
<1> QED BY <1>2, <1>3, <1>4 DEF Conv!Ask

LEMMA BeginsConverses ==
  ASSUME IInv, TypeOK', NEW t \in Threads, Elsewhere(t), NEW a \in Ids, NEW g \in Gens, Begins(t, g, a)
  PROVE  Conv!Begin(t, g)
<1> PICK r, v : r = Revision(t) /\ v = Seen(t, Revision(t))
  OBVIOUS
<1>1. /\ TypeOK /\ thread[t] = "live" /\ thread'[t] = "live" /\ current[t] = None
      /\ FromUser(t, Revision(t)) /\ Starts(t, g, r, a, v) /\ SameTalk(t)
  BY DEF Begins, Idles, Starts, IInv
<1>2. r = Len(Talk[t])
  BY <1>1, TalkIs
<1>3. Turn[t][g].state = "absent" /\ Turn' = [Turn EXCEPT ![t][g] = [state |-> "running", at |-> r]]
  BY <1>1, StartingRuns
<1>4. ~Conv!Running(t) /\ Conv!EndsWithUser(t)
  BY <1>1, GuardsAre
<1>5. thread' = thread /\ Talk' = Talk
  BY <1>1, ThreadStays, TalkBecomes
<1> QED BY <1>1, <1>2, <1>3, <1>4, <1>5 DEF Conv!Begin

\* The answer is said under the identifier that was kept for it.
LEMMA AnswersConverses ==
  ASSUME IInv, TypeOK', NEW t \in Threads, Elsewhere(t), NEW g \in Gens, Answers(t, g)
  PROVE  \E a \in Ids : Conv!Answer(t, g, a)
<1> PICK a, msg : a = gens[t][g].reply /\ msg = AnswerOf(t, g)
  OBVIOUS
<1>1. /\ TypeOK /\ thread[t] = "live" /\ thread'[t] = "live"
      /\ gens[t][g].status = "in_progress" /\ gens[t][g].source = Revision(t)
      /\ ledger'[t] = Append(ledger[t], msg) /\ SameRows(t, {g})
      /\ gens'[t][g].status = "completed" /\ gens'[t][g].source = Revision(t)
  BY DEF Answers, Idles, Runs, Becomes, RowIs, IInv
<1>2. g \in Rows(t)
  BY <1>1 DEF Rows
<1>3. a \in Ids /\ ~Used(t, a) /\ FromUser(t, Revision(t))
  <2>1. gens[t][g].reply \in Ids /\ ~Used(t, gens[t][g].reply)
    BY <1>1, <1>2 DEF IInv, Fine, RowFine
  <2>2. FromUser(t, gens[t][g].source)
    BY <1>2 DEF IInv, Fine, ThreadAudit, GenerationAudit
  <2> QED BY <1>1, <2>1, <2>2
<1>4. msg \in Message /\ msg.id = a /\ msg.role = "assistant"
  BY <1>3 DEF AnswerOf, Message
<1>5. Conv!EndsWithUser(t) /\ ~Conv!Said(t, a)
  BY <1>1, <1>3, GuardsAre
<1>6. Talk' = [Talk EXCEPT ![t] = Append(@, [id |-> a, role |-> "assistant"])]
  BY <1>1, <1>4, TalkAppends
<1> PICK r : r = Revision(t)
  OBVIOUS
<1>7. r = Len(Talk[t]) /\ Turn[t][g] = [state |-> "running", at |-> r]
      /\ Turn'[t][g] = [state |-> "answered", at |-> r]
  <2>1. Turn[t][g] = [state |-> "running", at |-> r]
    BY <1>1 DEF Turn, TurnOf
  <2>2. Turn'[t][g] = [state |-> "answered", at |-> r]
    BY <1>1 DEF Turn, TurnOf
  <2> QED BY <1>1, <2>1, <2>2, TalkIs
<1>8. Turn' = [Turn EXCEPT ![t][g] = [state |-> "answered", at |-> r]]
  BY <1>1, <1>7, TurnBecomes
<1>9. [Turn[t][g] EXCEPT !.state = "answered"] = [state |-> "answered", at |-> r]
  BY <1>7
<1>10. Turn' = [Turn EXCEPT ![t][g].state = "answered"]
  BY <1>8, <1>9
<1>11. thread' = thread
  BY <1>1, ThreadStays
<1>12. Conv!Answer(t, g, a)
  BY <1>5, <1>6, <1>7, <1>10, <1>11 DEF Conv!Answer
<1> QED BY <1>3, <1>12

LEMMA StopsConverses ==
  ASSUME IInv, TypeOK', NEW t \in Threads, Elsewhere(t), NEW g \in Gens,
         NEW end, NEW c, Stops(t, g, end, c)
  PROVE  Conv!Stop(t, g)
<1>1. /\ TypeOK /\ thread[t] = "live" /\ thread'[t] = "live"
      /\ gens[t][g].status = "in_progress" /\ SameTalk(t) /\ SameRows(t, {g})
      /\ end \in {"cancelled", "failed"}
      /\ gens'[t][g].status = end /\ gens'[t][g].source = gens[t][g].source
  BY DEF Stops, Idles, Runs, Becomes, RowIs, IInv
<1> PICK r : r = gens[t][g].source
  OBVIOUS
<1>2. Turn[t][g] = [state |-> "running", at |-> r] /\ Turn'[t][g] = [state |-> "stopped", at |-> r]
  BY <1>1 DEF Turn, TurnOf
<1>3. Turn' = [Turn EXCEPT ![t][g] = [state |-> "stopped", at |-> r]]
  BY <1>1, <1>2, TurnBecomes
<1>4. [Turn[t][g] EXCEPT !.state = "stopped"] = [state |-> "stopped", at |-> r]
  BY <1>2
<1>5. Turn' = [Turn EXCEPT ![t][g].state = "stopped"]
  BY <1>3, <1>4
<1>6. thread' = thread /\ Talk' = Talk
  BY <1>1, ThreadStays, TalkBecomes
<1>7. Turn[t][g].state = "running"
  BY <1>2
<1> QED BY <1>5, <1>6, <1>7 DEF Conv!Stop

LEMMA ForgetsConverses ==
  ASSUME IInv, TypeOK', NEW t \in Threads, Elsewhere(t), Forgets(t)
  PROVE  Conv!Forget(t)
<1>1. /\ TypeOK /\ thread[t] = "live" /\ current[t] = None /\ ~Unresolved(t)
      /\ thread'[t] = "deleted" /\ ledger'[t] = <<>>
      /\ \A h \in Gens : gens'[t][h] = NoRow
  BY DEF Forgets, IInv
<1>2. ~Conv!Running(t) /\ (Conv!EndsWithUser(t) => Conv!Heard(t))
  BY <1>1, GuardsAre
<1>3. thread' = [thread EXCEPT ![t] = "deleted"]
  BY <1>1, ThreadBecomes
<1>4. Talk' = [Talk EXCEPT ![t] = <<>>]
  <2>1. Len(ledger'[t]) = 0
    BY <1>1
  <2>2. Talk'[t] = [i \in 1 .. 0 |-> [id |-> ledger'[t][i].id, role |-> ledger'[t][i].role]]
    BY <2>1 DEF Talk
  <2>3. Talk'[t] = <<>>
    BY <2>2
  <2> QED BY <2>3, TalkBecomes
<1>5. Turn' = [Turn EXCEPT ![t] = [h \in Gens |-> Conv!Idle]]
  <2>1. TurnOf(NoRow) = Conv!Idle
    BY DEF TurnOf, NoRow, Conv!Idle
  <2>2. Turn'[t] = [h \in Gens |-> Conv!Idle]
    BY <1>1, <2>1 DEF Turn
  <2>3. \A u \in Threads \ {t} : Turn'[u] = Turn[u]
    BY DEF Elsewhere, Same, Turn
  <2>4. Turn = [u \in Threads |-> Turn[u]] /\ Turn' = [u \in Threads |-> Turn'[u]]
    BY DEF Turn
  <2> QED BY <2>2, <2>3, <2>4
<1> QED BY <1>1, <1>2, <1>3, <1>4, <1>5 DEF Conv!Forget

LEMMA MoveConverses ==
  ASSUME IInv, TypeOK', NEW t \in Threads, Move(t), Elsewhere(t)
  PROVE  Conv!Next
<1>1. TypeOK
  BY DEF IInv
<1>2. CASE Same(t)
  BY <1>1, <1>2, QuietRepeats DEF Same, SameTalk
<1>3. CASE Opens(t)
  BY <1>3, OpensConverses DEF Conv!Next
<1>4. CASE Forgets(t)
  BY <1>4, ForgetsConverses DEF Conv!Next
<1>5. CASE Prunes(t)
  <2>1. ASSUME NEW h \in Gens
        PROVE  TurnOf(gens'[t][h]) = TurnOf(gens[t][h])
    <3>1. \/ gens'[t][h] = gens[t][h]
          \/ /\ gens[t][h].status = "completed" /\ gens'[t][h].status = "completed"
             /\ gens'[t][h].source = gens[t][h].source
      BY <1>5 DEF Prunes, Becomes, RowIs
    <3> QED BY <3>1 DEF TurnOf
  <2>2. thread'[t] = thread[t] /\ SameTalk(t)
    BY <1>5 DEF Prunes
  <2> QED BY <1>1, <2>1, <2>2, QuietRepeats
<1>6. ASSUME NEW m \in Ids, Sends(t, m)
      PROVE  Conv!Next
  BY <1>6, SendsConverses DEF Conv!Next
<1>7. ASSUME NEW m \in Ids, NEW a \in Ids, NEW g \in Gens, NEW pic \in BOOLEAN, Asks(t, m, pic, g, a)
      PROVE  Conv!Next
  BY <1>7, AsksConverses DEF Conv!Next
<1>8. ASSUME NEW g \in Gens, NEW a \in Ids, Begins(t, g, a)
      PROVE  Conv!Next
  BY <1>8, BeginsConverses DEF Conv!Next
<1>9. ASSUME NEW g \in Gens, Writes(t, g)
      PROVE  Conv!Next
  <2>1. /\ thread'[t] = thread[t] /\ SameTalk(t) /\ SameRows(t, {g})
        /\ gens'[t][g].status = gens[t][g].status /\ gens'[t][g].source = gens[t][g].source
    BY <1>9 DEF Writes, Idles, Becomes, RowIs
  <2>2. \A h \in Gens : TurnOf(gens'[t][h]) = TurnOf(gens[t][h])
    BY <2>1 DEF SameRows, TurnOf
  <2> QED BY <1>1, <2>1, <2>2, QuietRepeats
<1>10. ASSUME NEW g \in Gens, Answers(t, g)
       PROVE  Conv!Next
  BY <1>10, AnswersConverses DEF Conv!Next
<1>11. ASSUME NEW g \in Gens, NEW c, NEW end \in {"cancelled", "failed"}, Stops(t, g, end, c)
       PROVE  Conv!Next
  BY <1>11, StopsConverses DEF Conv!Next
<1>12. ASSUME NEW s \in Sum, Sums(t, s)
       PROVE  Conv!Next
  BY <1>1, <1>12, QuietRepeats DEF Sums, Idles, SameRows
<1> QED BY <1>2, <1>3, <1>4, <1>5, <1>6, <1>7, <1>8, <1>9, <1>10, <1>11, <1>12 DEF Move

\* Whatever is retried, evicted, expired, pruned or deleted, a caller sees one
\* append-only conversation: every step of the ledger is a step of Conversation, or none.
THEOREM LedgerImplementsConversation == Spec => ImplementsConversation
<1>1. Init => Conv!Init
  <2> SUFFICES ASSUME Init
               PROVE  Conv!Init
    OBVIOUS
  <2>1. Talk = [t \in Threads |-> <<>>]
    <3>1. ASSUME NEW t \in Threads
          PROVE  [i \in 1 .. Len(ledger[t]) |->
                    [id |-> ledger[t][i].id, role |-> ledger[t][i].role]] = <<>>
      <4>1. Len(ledger[t]) = 0
        BY DEF Init
      <4> QED BY <4>1
    <3> QED BY <3>1 DEF Talk
  <2>2. TurnOf(NoRow) = Conv!Idle
    BY DEF TurnOf, NoRow, Conv!Idle
  <2>3. Turn = [t \in Threads |-> [g \in Gens |-> Conv!Idle]]
    BY <2>2 DEF Turn, Init
  <2> QED BY <2>1, <2>3 DEF Init, Conv!Init
<1>2. IInv /\ [Next]_vars => [Conv!Next]_Conv!vars
  <2> SUFFICES ASSUME IInv, [Next]_vars
               PROVE  [Conv!Next]_Conv!vars
    OBVIOUS
  <2>1. CASE Next
    <3>1. PICK t \in Threads : TypeOK' /\ Move(t) /\ Elsewhere(t)
      BY <2>1, NextMoves DEF Stepped
    <3> QED BY <3>1, MoveConverses
  <2>2. CASE UNCHANGED vars
    BY <2>2 DEF vars, Conv!vars, Talk, Turn
  <2> QED BY <2>1, <2>2
<1> QED BY <1>1, <1>2, Inductive, PTL DEF Spec, ImplementsConversation, Conv!Spec
=============================================================================
