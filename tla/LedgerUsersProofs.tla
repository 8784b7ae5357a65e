-------------------------- MODULE LedgerUsersProofs --------------------------
(***************************************************************************)
(* Proofs about what stands on the ledger of ChatLedger and calls it: a    *)
(* connection of DirectChatStore with its cache (ChatStore), and the       *)
(* context coordinator (ChatContext).  Neither does anything to the ledger *)
(* that the ledger does not do, so what ChatLedgerProofs proves is true of *)
(* both.  The cache never holds a thread that would not pass its audit; a  *)
(* newest snapshot is never followed by a shorter one; and the turn of a   *)
(* request that was measured can be put together when it runs.             *)
(***************************************************************************)
EXTENDS ChatStore, ChatContext, ChatLedgerProofs

-----------------------------------------------------------------------------
(* A connection does nothing to the ledger that the ledger does not do.    *)

\* Every read is a stutter of the ledger and every write one of its actions, so the
\* audit, the receipts and the conversation are the ones proved in ChatLedgerProofs.
THEOREM StoreImplementsLedger == StoreSpec => Spec
<1>1. StoreInit => Init
  BY DEF StoreInit
<1>2. [StoreNext]_storeVars => [Next]_vars
  <2> SUFFICES ASSUME [StoreNext]_storeVars
               PROVE  [Next]_vars
    OBVIOUS
  <2>1. CASE StoreNext
    <3>1. CASE Write
      BY <3>1 DEF Write, Next
    <3> QED BY <2>1, <3>1 DEF StoreNext, Read, ListThreads, ReadFails, Outside
  <2>2. CASE UNCHANGED storeVars
    BY <2>2 DEF storeVars
  <2> QED BY <2>1, <2>2
<1> QED BY <1>1, <1>2, PTL DEF StoreSpec, Spec

-----------------------------------------------------------------------------
(* The cache.                                                              *)

\* It holds threads, each of them once, and no more than the limit.
Distinct(list) == \A i, j \in DOMAIN list : list[i] = list[j] => i = j

CacheFits == Len(audited) <= MaxCached /\ Distinct(audited)

CInv ==
  /\ audited \in Seq(Threads) /\ moved \in BOOLEAN
  /\ CacheFits /\ NeverServesDamaged

LEMMA CachedIs ==
  ASSUME CInv
  PROVE  Cached \in Seq(Threads) /\ Distinct(Cached) /\ \A t \in damaged : ~Contains(Cached, t)
BY DEF CInv, CacheFits, NeverServesDamaged, Cached, Distinct

\* What a read leaves in the cache was in it and trusted, or is what it has just read.
LEMMA TouchedList ==
  ASSUME CInv, NEW order \in Seq(Threads), Distinct(order), NEW new \in Touched(order)
  PROVE  /\ new \in Seq(Threads) /\ Len(new) <= MaxCached /\ Distinct(new)
         /\ \A n \in DOMAIN new :
              \/ \E i \in DOMAIN Cached : new[n] = Cached[i]
              \/ \E i \in DOMAIN order : new[n] = order[i]
<1> PICK list : list = Cached
  OBVIOUS
<1> DEFINE keep == {i \in DOMAIN list : list[i] \notin Range(order)}
<1>1. PICK others \in Thinned(list, keep) : new = Newest(others \o order, MaxCached)
  BY DEF Touched
<1>2. list \in Seq(Threads) /\ Distinct(list) /\ keep \in SUBSET DOMAIN list
  BY CachedIs
<1>3. /\ others \in Seq(Threads)
      /\ \E at \in [DOMAIN others -> keep] :
           /\ \A n \in DOMAIN others : others[n] = list[at[n]]
           /\ \A m, n \in DOMAIN others : at[m] = at[n] => m = n
  <2> HIDE DEF keep
  <2> QED BY <1>1, <1>2, ThinnedList
<1>4. PICK at \in [DOMAIN others -> keep] :
        /\ \A n \in DOMAIN others : others[n] = list[at[n]]
        /\ \A m, n \in DOMAIN others : at[m] = at[n] => m = n
  BY <1>3
<1>5. /\ \A n \in DOMAIN others : at[n] \in DOMAIN list /\ others[n] \notin Range(order)
      /\ Distinct(others)
  <2>1. \A n \in DOMAIN others : at[n] \in keep
    BY <1>4
  <2> QED BY <1>2, <1>4, <2>1 DEF Distinct
<1>6. \A i \in DOMAIN order : order[i] \in Range(order)
  BY DEF Range
<1> DEFINE all == others \o order
<1>7. /\ all \in Seq(Threads) /\ DOMAIN all = 1 .. Len(others) + Len(order)
      /\ Len(others) \in Nat /\ DOMAIN others = 1 .. Len(others)
      /\ Len(order) \in Nat /\ DOMAIN order = 1 .. Len(order)
      /\ \A i \in 1 .. Len(others) + Len(order) :
           all[i] = IF i <= Len(others) THEN others[i] ELSE order[i - Len(others)]
  <2>1. /\ all \in Seq(Threads) /\ Len(all) = Len(others) + Len(order)
        /\ \A i \in 1 .. Len(others) + Len(order) :
             all[i] = IF i <= Len(others) THEN others[i] ELSE order[i - Len(others)]
    BY <1>3, ConcatProperties
  <2> HIDE DEF all
  <2> QED BY <1>3, <2>1, LenProperties
<1> HIDE DEF all, keep
<1>8. ASSUME NEW n \in DOMAIN all
      PROVE  \/ n \in DOMAIN others /\ all[n] = others[n]
             \/ /\ n - Len(others) \in DOMAIN order /\ n > Len(others)
                /\ all[n] = order[n - Len(others)]
  BY <1>7
<1>9. Distinct(all)
  <2> SUFFICES ASSUME NEW m \in DOMAIN all, NEW n \in DOMAIN all, all[m] = all[n]
               PROVE  m = n
    BY DEF Distinct
  <2>1. m \in Nat /\ n \in Nat
    BY <1>7
  <2>2. CASE m \in DOMAIN others /\ all[m] = others[m] /\ n \in DOMAIN others /\ all[n] = others[n]
    BY <1>5, <2>2 DEF Distinct
  <2>3. CASE m - Len(others) \in DOMAIN order /\ all[m] = order[m - Len(others)]
             /\ n - Len(others) \in DOMAIN order /\ all[n] = order[n - Len(others)]
    <3>1. m - Len(others) = n - Len(others)
      BY <2>3 DEF Distinct
    <3> QED BY <1>7, <2>1, <3>1
  <2> QED BY <1>5, <1>6, <1>8, <2>2, <2>3
<1>10. /\ new \in Seq(Threads) /\ Len(new) <= MaxCached
       /\ \E k \in Nat : \A n \in DOMAIN new : n + k \in DOMAIN all /\ new[n] = all[n + k]
  <2>1. new = Newest(all, MaxCached) /\ MaxCached \in Nat
    BY <1>1, CacheAssumption DEF all
  <2> QED BY <1>7, <2>1, NewestList
<1>11. PICK k \in Nat : \A n \in DOMAIN new : n + k \in DOMAIN all /\ new[n] = all[n + k]
  BY <1>10
<1>12. Distinct(new)
  <2> SUFFICES ASSUME NEW m \in DOMAIN new, NEW n \in DOMAIN new, new[m] = new[n]
               PROVE  m = n
    BY DEF Distinct
  <2>1. m + k = n + k
    BY <1>9, <1>11 DEF Distinct
  <2>2. m \in Nat /\ n \in Nat
    BY <1>10, LenProperties
  <2> QED BY <2>1, <2>2
<1>13. ASSUME NEW n \in DOMAIN new
       PROVE  \/ \E i \in DOMAIN list : new[n] = list[i]
              \/ \E i \in DOMAIN order : new[n] = order[i]
  <2>1. n + k \in DOMAIN all /\ new[n] = all[n + k]
    BY <1>11
  <2>2. \/ n + k \in DOMAIN others /\ all[n + k] = others[n + k]
        \/ \E i \in DOMAIN order : all[n + k] = order[i]
    BY <1>8, <2>1
  <2> QED BY <1>4, <1>5, <2>1, <2>2
<1> QED BY <1>10, <1>12, <1>13

\* The threads that are there at one time are finitely many, however many may be named.
Live == {t \in Threads : thread[t] = "live"}

SInv == IInv /\ CInv /\ IsFiniteSet(Live)

LEMMA LiveStaysFinite ==
  ASSUME IInv, [Next]_vars, IsFiniteSet(Live)
  PROVE  IsFiniteSet(Live)'
<1>1. PICK t : Live' \subseteq Live \cup {t}
  <2>1. CASE Next
    <3>1. PICK t \in Threads : Elsewhere(t)
      BY <2>1, NextMoves DEF Stepped
    <3>2. Live' \subseteq Live \cup {t}
      BY <3>1 DEF Elsewhere, Same, Live
    <3> QED BY <3>2
  <2>2. CASE UNCHANGED vars
    BY <2>2 DEF vars, Live
  <2> QED BY <2>1, <2>2
<1>2. IsFiniteSet(Live \cup {t})
  BY FS_AddElement
<1> QED BY <1>1, <1>2, FS_Subset

\* An order of a finite set of threads lists each of them once and nothing else.
LEMMA OrderIs ==
  ASSUME NEW live \in SUBSET Threads, IsFiniteSet(live), NEW order \in SetToSeqs(live)
  PROVE  /\ order \in Seq(Threads) /\ Distinct(order)
         /\ \A i \in DOMAIN order : order[i] \in live
<1>1. Cardinality(live) \in Nat
  BY FS_CardinalityType
<1>2. /\ order \in [1 .. Cardinality(live) -> live]
      /\ \A i, j \in 1 .. Cardinality(live) : i # j => order[i] # order[j]
  BY DEF SetToSeqs
<1>3. order \in [1 .. Cardinality(live) -> Threads]
  BY <1>2
<1>4. order \in Seq(Threads) /\ DOMAIN order = 1 .. Cardinality(live)
  BY <1>1, <1>3, ListOf
<1> QED BY <1>2, <1>4 DEF Distinct

LEMMA EmptyCache ==
  ASSUME audited' = <<>>, moved' = FALSE
  PROVE  CInv'
<1>1. DOMAIN audited' = {} /\ Len(audited') = 0 /\ audited' \in Seq(Threads)
  OBVIOUS
<1>2. CacheFits'
  BY <1>1, CacheAssumption DEF CacheFits, Distinct
<1>3. Cached' = <<>>
  BY DEF Cached
<1>4. NeverServesDamaged'
  BY <1>3 DEF NeverServesDamaged, Contains
<1> QED BY <1>1, <1>2, <1>4 DEF CInv

\* A read that trusts or audits what it reads.
LEMMA ReadFits ==
  ASSUME CInv, NEW order \in Seq(Threads), Distinct(order),
         \A i \in DOMAIN order : order[i] \notin damaged,
         audited' \in Touched(order), moved' = FALSE, damaged' = damaged
  PROVE  CInv'
<1> PICK new : new = audited'
  OBVIOUS
<1>1. /\ new \in Seq(Threads) /\ Len(new) <= MaxCached /\ Distinct(new)
      /\ \A n \in DOMAIN new :
           \/ \E i \in DOMAIN Cached : new[n] = Cached[i]
           \/ \E i \in DOMAIN order : new[n] = order[i]
  BY TouchedList
<1>2. Cached \in Seq(Threads) /\ \A t \in damaged : ~Contains(Cached, t)
  BY CachedIs
<1>3. \A i \in DOMAIN Cached : Cached[i] \notin damaged
  BY <1>2, LenProperties DEF Contains
<1>4. \A n \in DOMAIN new : new[n] \notin damaged
  BY <1>1, <1>3
<1>5. \A t \in damaged : ~Contains(new, t)
  BY <1>1, <1>4, LenProperties DEF Contains
<1>6. Cached' = new
  BY DEF Cached
<1>7. NeverServesDamaged'
  BY <1>5, <1>6 DEF NeverServesDamaged
<1>8. CacheFits'
  BY <1>1 DEF CacheFits, Distinct
<1> QED BY <1>1, <1>7, <1>8 DEF CInv

LEMMA ReadKeeps ==
  ASSUME CInv, NEW t \in Threads, NEW late \in BOOLEAN, Read(t, late)
  PROVE  CInv'
<1>1. /\ t \in damaged => Contains(Cached, t)
      /\ audited' \in IF late THEN {<<>>} ELSE Touched(<<t>>)
      /\ moved' = FALSE /\ damaged' = damaged
  BY DEF Read
<1>2. CASE late
  BY <1>1, <1>2, EmptyCache
<1>3. CASE ~late
  <2>1. <<t>> \in Seq(Threads) /\ Distinct(<<t>>)
    BY DEF Distinct
  <2>2. t \notin damaged
    BY <1>1, CachedIs
  <2>3. \A i \in DOMAIN <<t>> : <<t>>[i] \notin damaged
    BY <2>2
  <2> QED BY <1>1, <1>3, <2>1, <2>3, ReadFits
<1> QED BY <1>2, <1>3

LEMMA ListKeeps ==
  ASSUME CInv, IsFiniteSet(Live), NEW late \in BOOLEAN, ListThreads(late)
  PROVE  CInv'
<1>1. PICK order \in SetToSeqs(Live) : audited' \in IF late THEN {<<>>} ELSE Touched(order)
  BY DEF ListThreads, Live
<1>2. /\ \A t \in Live \cap damaged : Contains(Cached, t)
      /\ moved' = FALSE /\ damaged' = damaged
  BY DEF ListThreads, Live
<1>3. CASE late
  BY <1>1, <1>2, <1>3, EmptyCache
<1>4. CASE ~late
  <2>1. Live \in SUBSET Threads
    BY DEF Live
  <2>2. /\ order \in Seq(Threads) /\ Distinct(order)
        /\ \A i \in DOMAIN order : order[i] \in Live
    BY <2>1, OrderIs
  <2>3. \A t \in Live : t \notin damaged
    BY <1>2, CachedIs
  <2> QED BY <1>1, <1>2, <1>4, <2>2, <2>3, ReadFits
<1> QED BY <1>3, <1>4

\* Another connection has committed: nothing that was audited before is trusted.
LEMMA OutsideKeeps ==
  ASSUME CInv, NEW t \in Threads, Outside(t)
  PROVE  CInv'
<1>1. moved' = (audited # <<>>) /\ audited' = audited
  BY DEF Outside
<1>2. Cached' = <<>>
  BY <1>1 DEF Cached
<1>3. NeverServesDamaged'
  BY <1>2 DEF NeverServesDamaged, Contains
<1> QED BY <1>1, <1>3 DEF CInv, CacheFits, Distinct

LEMMA StoreStepKeeps == SInv /\ [StoreNext]_storeVars /\ [Next]_vars => SInv'
<1> SUFFICES ASSUME SInv, [StoreNext]_storeVars, [Next]_vars
             PROVE  SInv'
  OBVIOUS
<1>1. IInv' /\ IsFiniteSet(Live)'
  BY NextFine, LiveStaysFinite DEF SInv
<1>2. CASE StoreNext
  <2>1. ASSUME NEW t \in Threads, NEW late \in BOOLEAN, Read(t, late)
        PROVE  CInv'
    BY <2>1, ReadKeeps DEF SInv
  <2>2. ASSUME NEW late \in BOOLEAN, ListThreads(late)
        PROVE  CInv'
    BY <2>2, ListKeeps DEF SInv
  <2>3. ASSUME NEW t \in Threads, ReadFails(t)
        PROVE  CInv'
    BY <2>3, EmptyCache DEF ReadFails
  <2>4. ASSUME NEW t \in Threads, Outside(t)
        PROVE  CInv'
    BY <2>4, OutsideKeeps DEF SInv
  <2>5. CASE Write
    <3>1. audited' = <<>> /\ moved' = FALSE
      BY <2>5 DEF Write
    <3> QED BY <1>1, <3>1, EmptyCache DEF SInv
  <2> QED BY <1>1, <1>2, <2>1, <2>2, <2>3, <2>4, <2>5 DEF StoreNext, SInv
<1>3. CASE UNCHANGED storeVars
  <2>1. audited' = audited /\ moved' = moved /\ damaged' = damaged
    BY <1>3 DEF storeVars, cache
  <2> QED BY <1>1, <2>1 DEF SInv, CInv, CacheFits, Distinct, NeverServesDamaged, Cached, Contains
<1> QED BY <1>2, <1>3

\* The inductive invariant of the connection: the ledger's, finitely many live threads, and
\* a cache within its limit that trusts no thread an outside writer has damaged.
THEOREM StoreInductive == StoreSpec => []SInv
<1>1. StoreInit => SInv
  <2> SUFFICES ASSUME StoreInit
               PROVE  SInv
    OBVIOUS
  <2>1. IInv
    BY InitFine DEF StoreInit
  <2>2. Live = {}
    BY DEF StoreInit, Init, Live
  <2>3. IsFiniteSet(Live)
    BY <2>2, FS_EmptySet
  <2>4. audited = <<>> /\ moved = FALSE /\ damaged = {}
    BY DEF StoreInit
  <2>5. Len(audited) = 0 /\ DOMAIN audited = {} /\ audited \in Seq(Threads)
    BY <2>4
  <2>6. CacheFits /\ NeverServesDamaged
    BY <2>4, <2>5, CacheAssumption DEF CacheFits, Distinct, NeverServesDamaged
  <2>7. CInv
    BY <2>4, <2>5, <2>6 DEF CInv
  <2> QED BY <2>1, <2>3, <2>7 DEF SInv
<1>2. SInv /\ [StoreNext]_storeVars /\ [Next]_vars => SInv'
  BY StoreStepKeeps
<1> QED BY <1>1, <1>2, StoreImplementsLedger, PTL DEF StoreSpec, Spec

\* Whatever a read may return without looking at its rows passes the audit as it is in
\* the file: outside commits, writes and late commits take the trust away in time.
THEOREM DamageIsNeverServed == StoreSpec => []NeverServesDamaged
<1>1. SInv => NeverServesDamaged
  BY DEF SInv, CInv
<1> QED BY <1>1, StoreInductive, PTL

\* The cache of audited threads never outgrows its limit and never lists a thread twice.
THEOREM CacheAlwaysFits == StoreSpec => []CacheFits
<1>1. SInv => CacheFits
  BY DEF SInv, CInv
<1> QED BY <1>1, StoreInductive, PTL

-----------------------------------------------------------------------------
(* The context coordinator: measuring.                                     *)

Bytes(list, start) == Cardinality(Octets(list, start))

LEMMA MessagesWeigh ==
  ASSUME NEW list \in Seq(Message), NEW i \in 1 .. Len(list)
  PROVE  list[i].id \in Ids /\ Weight[list[i].id] \in Nat
<1>1. list[i] \in Message
  OBVIOUS
<1> QED BY <1>1, WeightAssumption DEF Message

LEMMA PlaceFinite ==
  ASSUME NEW i, NEW w \in Nat
  PROVE  IsFiniteSet({i} \X (1 .. w))
<1>1. IsFiniteSet({i})
  BY FS_Singleton
<1>2. IsFiniteSet(1 .. w)
  BY FS_Interval
<1> QED BY <1>1, <1>2, FS_Product

\* The bytes between two places of a list.
Middle(list, start, end) ==
  UNION {{i} \X (1 .. Weight[list[i].id]) : i \in start + 1 .. end}

LEMMA MiddleFinite ==
  ASSUME NEW list \in Seq(Message), NEW start \in Nat, NEW end \in Nat, end <= Len(list)
  PROVE  IsFiniteSet(Middle(list, start, end))
<1> DEFINE places == start + 1 .. end
           parts == {{i} \X (1 .. Weight[list[i].id]) : i \in places}
<1>1. IsFiniteSet(places)
  BY FS_Interval
<1>2. IsFiniteSet(parts)
  <2> DEFINE F == [i \in places |-> {i} \X (1 .. Weight[list[i].id])]
  <2>1. F \in Surjection(places, parts)
    BY DEF Surjection
  <2> QED BY <1>1, <2>1, FS_Surjection
<1>3. ASSUME NEW part \in parts
      PROVE  IsFiniteSet(part)
  <2>1. PICK i \in places : part = {i} \X (1 .. Weight[list[i].id])
    OBVIOUS
  <2>2. Weight[list[i].id] \in Nat
    BY MessagesWeigh
  <2> QED BY <2>1, <2>2, PlaceFinite
<1>4. IsFiniteSet(UNION parts)
  <2> HIDE DEF parts
  <2> QED BY <1>2, <1>3, FS_UNION
<1> QED BY <1>4 DEF Middle

LEMMA OctetsAre ==
  ASSUME NEW list \in Seq(Message), NEW start \in Nat
  PROVE  /\ Octets(list, start) = Middle(list, start, Len(list))
         /\ IsFiniteSet(Octets(list, start)) /\ Bytes(list, start) \in Nat
<1>1. Octets(list, start) = Middle(list, start, Len(list))
  BY DEF Octets, Middle
<1>2. IsFiniteSet(Octets(list, start))
  BY <1>1, MiddleFinite
<1> QED BY <1>1, <1>2, FS_CardinalityType DEF Bytes

LEMMA BytesSplit ==
  ASSUME NEW list \in Seq(Message), NEW start \in Nat, NEW end \in Nat,
         start <= end, end <= Len(list)
  PROVE  /\ Cardinality(Middle(list, start, end)) \in Nat
         /\ Bytes(list, start) = Cardinality(Middle(list, start, end)) + Bytes(list, end)
<1> DEFINE front == Middle(list, start, end)
           rest == Octets(list, end)
<1>1. IsFiniteSet(front) /\ IsFiniteSet(rest) /\ Bytes(list, end) \in Nat
  BY MiddleFinite, OctetsAre
<1>2. front \cap rest = {}
  BY DEF Middle, Octets
<1>3. Octets(list, start) = front \cup rest
  <2>1. start + 1 .. Len(list) = (start + 1 .. end) \cup (end + 1 .. Len(list))
    OBVIOUS
  <2> QED BY <2>1 DEF Octets, Middle
<1>4. Cardinality(front \cup rest) = Cardinality(front) + Cardinality(rest)
  <2> HIDE DEF front, rest
  <2>1. Cardinality(front \cup rest)
          = Cardinality(front) + Cardinality(rest) - Cardinality(front \cap rest)
    BY <1>1, FS_Union
  <2>2. Cardinality(front \cap rest) = 0
    BY <1>2, FS_EmptySet
  <2>3. Cardinality(front) \in Nat /\ Cardinality(rest) \in Nat
    BY <1>1, FS_CardinalityType
  <2> QED BY <2>1, <2>2, <2>3
<1>5. Cardinality(front) \in Nat
  BY <1>1, FS_CardinalityType
<1> QED BY <1>3, <1>4, <1>5 DEF Bytes

\* What a turn adds behind a summary does not depend on where the summary ends: if it
\* makes one list too long behind start and leaves room in the other, it is the other
\* that is shorter behind every later place the two have in common.
LEMMA ShorterTurn ==
  ASSUME NEW l1 \in Seq(Message), NEW l2 \in Seq(Message), NEW start \in Nat, NEW end \in Nat,
         start <= end, end <= Len(l1), Len(l1) <= Len(l2),
         \A i \in 1 .. end : l1[i] = l2[i],
         NEW x \in Nat \ {0}, NEW y \in Nat \ {0},
         Fits(l2, start, x), ~Fits(l1, start, x), Fits(l1, end, y)
  PROVE  Fits(l2, end, y)
<1> DEFINE c == Cardinality(Middle(l1, start, end))
<1>1. Middle(l1, start, end) = Middle(l2, start, end)
  <2>1. \A i \in start + 1 .. end : i \in 1 .. end
    OBVIOUS
  <2>2. \A i \in start + 1 .. end : l1[i] = l2[i]
    BY <2>1
  <2> QED BY <2>2 DEF Middle
<1>2. /\ c \in Nat
      /\ Bytes(l1, start) = c + Bytes(l1, end) /\ Bytes(l2, start) = c + Bytes(l2, end)
  BY <1>1, BytesSplit
<1>3. /\ Bytes(l1, end) \in Nat /\ Bytes(l2, end) \in Nat
      /\ Len(l1) \in Nat /\ Len(l2) \in Nat /\ Budget \in Nat /\ MaxEntries \in Nat
  <2>1. Bytes(l1, end) \in Nat
    BY OctetsAre
  <2>2. Bytes(l2, end) \in Nat
    BY OctetsAre
  <2>3. Len(l1) \in Nat /\ Len(l2) \in Nat
    OBVIOUS
  <2> QED BY <2>1, <2>2, <2>3, BudgetAssumption
<1>4. Bytes(l2, start) + x <= Budget /\ Len(l2) - start + 1 <= MaxEntries
  BY DEF Fits, Bytes
<1>5. ~(Bytes(l1, start) + x <= Budget)
  <2>1. Len(l1) - start + 1 <= MaxEntries
    BY <1>3, <1>4
  <2>2. ~(Bytes(l1, start) + x <= Budget /\ Len(l1) - start + (IF x = 0 THEN 0 ELSE 1) <= MaxEntries)
    BY DEF Fits, Bytes
  <2>3. (IF x = 0 THEN 0 ELSE 1) = 1
    OBVIOUS
  <2> QED BY <2>1, <2>2, <2>3
<1>6. Bytes(l1, end) + y <= Budget
  BY DEF Fits, Bytes
<1>7. Bytes(l2, end) + y <= Budget /\ Len(l2) - end + 1 <= MaxEntries
  <2> DEFINE s1 == Bytes(l1, start)
             e1 == Bytes(l1, end)
             s2 == Bytes(l2, start)
             e2 == Bytes(l2, end)
             n1 == Len(l1)
             n2 == Len(l2)
  <2>1. c \in Nat /\ e1 \in Nat /\ e2 \in Nat /\ s1 = c + e1 /\ s2 = c + e2
    BY <1>2, <1>3
  <2>2. /\ n1 \in Nat /\ n2 \in Nat /\ Budget \in Nat /\ MaxEntries \in Nat
        /\ start <= end /\ end <= n1 /\ n1 <= n2
    BY <1>3
  <2>3. s2 + x <= Budget /\ n2 - start + 1 <= MaxEntries /\ ~(s1 + x <= Budget) /\ e1 + y <= Budget
    BY <1>4, <1>5, <1>6
  <2> HIDE DEF c, s1, e1, s2, e2, n1, n2
  <2>4. e2 <= e1
    BY <2>1, <2>2, <2>3
  <2>5. e2 + y <= Budget /\ n2 - end + 1 <= MaxEntries
    BY <2>1, <2>2, <2>3, <2>4
  <2> QED BY <2>5 DEF e2, n2
<1> QED BY <1>7 DEF Fits, Bytes

\* The messages before the recent window of a list.
Older(list) == {k \in DOMAIN list : Cardinality({i \in Users(list) : i > k}) >= RecentTurns}

LEMMA LaterFinite ==
  ASSUME NEW list \in Seq(Message), NEW k
  PROVE  /\ IsFiniteSet({i \in Users(list) : i > k})
         /\ Cardinality({i \in Users(list) : i > k}) \in Nat
<1>1. IsFiniteSet(1 .. Len(list))
  BY FS_Interval
<1>2. {i \in Users(list) : i > k} \in SUBSET (1 .. Len(list))
  BY DEF Users
<1> DEFINE later == {i \in Users(list) : i > k}
<1>3. later \in SUBSET (1 .. Len(list))
  BY <1>2
<1>4. IsFiniteSet(later) /\ Cardinality(later) \in Nat
  <2> HIDE DEF later
  <2>1. IsFiniteSet(later)
    BY <1>1, <1>3, FS_Subset
  <2> QED BY <2>1, FS_CardinalityType
<1> QED BY <1>4

LEMMA OlderFinite ==
  ASSUME NEW list \in Seq(Message)
  PROVE  IsFiniteSet(Older(list)) /\ RecentStart(list) = Cardinality(Older(list))
<1>1. Older(list) \in SUBSET (1 .. Len(list))
  BY DEF Older
<1>2. IsFiniteSet(1 .. Len(list))
  BY FS_Interval
<1> QED BY <1>1, <1>2, FS_Subset DEF Older, RecentStart

\* A user's message behind a list is in the recent window.
LEMMA WindowIsBehind ==
  ASSUME NEW list \in Seq(Message), NEW msg \in Message
  PROVE  /\ RecentStart(Append(list, msg)) \in Nat
         /\ RecentStart(Append(list, msg)) <= Len(list)
<1> DEFINE longer == Append(list, msg)
<1>1. longer \in Seq(Message) /\ Len(list) \in Nat /\ DOMAIN longer = 1 .. Len(list) + 1
  BY AppendProperties
<1>2. Len(list) + 1 \notin Older(longer)
  <2>1. {i \in Users(longer) : i > Len(list) + 1} = {}
    BY <1>1 DEF Users
  <2>2. Cardinality({i \in Users(longer) : i > Len(list) + 1}) = 0
    BY <2>1, FS_EmptySet
  <2> QED BY <2>2, BudgetAssumption DEF Older
<1>3. Older(longer) \in SUBSET (1 .. Len(list))
  <2>1. \A k \in Older(longer) : k \in 1 .. Len(list) + 1
    BY <1>1 DEF Older
  <2> HIDE DEF longer
  <2> QED BY <1>1, <1>2, <2>1
<1>4. IsFiniteSet(1 .. Len(list)) /\ Cardinality(1 .. Len(list)) = Len(list)
  BY <1>1, FS_Interval
<1>5. /\ IsFiniteSet(Older(longer)) /\ Cardinality(Older(longer)) \in Nat
      /\ Cardinality(Older(longer)) <= Len(list)
  BY <1>3, <1>4, FS_Subset, FS_CardinalityType
<1> QED BY <1>1, <1>5, OlderFinite

\* What is added to a list moves the recent window, never back.
LEMMA WindowMoves ==
  ASSUME NEW l1 \in Seq(Message), NEW l2 \in Seq(Message), Len(l1) <= Len(l2),
         \A i \in 1 .. Len(l1) : l1[i] = l2[i],
         NEW m1 \in Ids, NEW m2 \in Ids
  PROVE  RecentStart(Append(l1, UserMessage(m1, FALSE)))
           <= RecentStart(Append(l2, UserMessage(m2, FALSE)))
<1> DEFINE u1 == UserMessage(m1, FALSE)
           u2 == UserMessage(m2, FALSE)
           a1 == Append(l1, u1)
           a2 == Append(l2, u2)
           n1 == Len(l1)
           n2 == Len(l2)
<1>1. u1 \in Message /\ u1.role = "user" /\ u2 \in Message /\ u2.role = "user"
  BY UserMessageIs
<1> HIDE DEF u1, u2
<1>2. /\ a1 \in Seq(Message) /\ DOMAIN a1 = 1 .. n1 + 1 /\ a1[n1 + 1] = u1 /\ n1 \in Nat
      /\ \A i \in 1 .. n1 : a1[i] = l1[i]
  BY <1>1, AppendProperties
<1>3. /\ a2 \in Seq(Message) /\ DOMAIN a2 = 1 .. n2 + 1 /\ a2[n2 + 1] = u2 /\ n2 \in Nat
      /\ \A i \in 1 .. n2 : a2[i] = l2[i]
  BY <1>1, AppendProperties
<1>4. n1 <= n2 /\ \A i \in 1 .. n1 : l1[i] = l2[i]
  OBVIOUS
<1> HIDE DEF a1, a2, n1, n2
<1>5. ASSUME NEW k \in Older(a1)
      PROVE  k \in Older(a2)
  <2> DEFINE L1 == {i \in Users(a1) : i > k}
             L2 == {i \in Users(a2) : i > k}
             D1 == L1 \ {n1 + 1}
  <2>1. k \in 1 .. n1 + 1 /\ Cardinality(L1) >= RecentTurns
    BY <1>2 DEF Older
  <2>2. IsFiniteSet(L1) /\ Cardinality(L1) \in Nat /\ IsFiniteSet(L2) /\ Cardinality(L2) \in Nat
    BY <1>2, <1>3, LaterFinite
  <2>3. RecentTurns \in Nat /\ RecentTurns > 0
    BY BudgetAssumption
  <2>4. k # n1 + 1
    <3>1. SUFFICES ASSUME k = n1 + 1
                   PROVE  FALSE
      OBVIOUS
    <3>2. L1 = {}
      BY <1>2, <3>1 DEF Users
    <3>3. Cardinality(L1) = 0
      BY <3>2, FS_EmptySet
    <3> QED BY <2>1, <2>3, <3>3
  <2>5. k \in Nat /\ k <= n1
    BY <1>2, <2>1, <2>4
  <2>6. n1 + 1 \in L1 /\ n2 + 1 \in L2
    BY <1>1, <1>2, <1>3, <1>4, <2>5 DEF Users
  <2>7. D1 \subseteq L2 /\ n2 + 1 \notin D1
    <3>1. ASSUME NEW i \in D1
          PROVE  i \in L2 /\ i # n2 + 1
      <4>1. i \in 1 .. n1 /\ i > k /\ a1[i].role = "user"
        BY <1>2 DEF Users
      <4>2. i \in DOMAIN a2 /\ a2[i] = a1[i] /\ i # n2 + 1
        BY <1>2, <1>3, <1>4, <4>1
      <4> QED BY <4>1, <4>2 DEF Users
    <3> QED BY <3>1
  <2>8. D1 \cup {n2 + 1} \in SUBSET L2
    BY <2>6, <2>7
  <2> HIDE DEF L1, L2
  <2>9. IsFiniteSet(D1) /\ Cardinality(D1) = Cardinality(L1) - 1
    BY <2>2, <2>6, FS_RemoveElement
  <2> HIDE DEF D1
  <2>10. IsFiniteSet(D1 \cup {n2 + 1}) /\ Cardinality(D1 \cup {n2 + 1}) = Cardinality(D1) + 1
    BY <2>7, <2>9, FS_AddElement
  <2>11. Cardinality(D1 \cup {n2 + 1}) <= Cardinality(L2)
    BY <2>2, <2>8, FS_Subset
  <2>12. Cardinality(L2) >= RecentTurns
    BY <2>1, <2>2, <2>3, <2>9, <2>10, <2>11
  <2>13. k \in DOMAIN a2
    BY <1>3, <1>4, <1>2, <2>1, <2>5
  <2> QED BY <2>12, <2>13 DEF Older, L2
<1>6. Older(a1) \in SUBSET Older(a2)
  BY <1>5
<1>7. IsFiniteSet(Older(a2)) /\ RecentStart(a2) = Cardinality(Older(a2))
  BY <1>3, OlderFinite
<1>8. RecentStart(a1) = Cardinality(Older(a1))
  BY <1>2, OlderFinite
<1>9. Cardinality(Older(a1)) <= Cardinality(Older(a2))
  BY <1>6, <1>7, FS_Subset
<1> QED BY <1>7, <1>8, <1>9 DEF a1, a2, u1, u2

-----------------------------------------------------------------------------
(* The newest snapshot of a list of them.                                  *)

\* Snapshots are named by the place they end at, and no two end at the same.
Dated(list) ==
  /\ list \in Seq(Sum)
  /\ \A i \in DOMAIN list : list[i].id = list[i].last /\ list[i].last <= MaxMessages
  /\ \A i, j \in DOMAIN list : list[i].last = list[j].last => i = j

After(list, i, j) ==
  LET a == list[i]
      b == list[j]
  IN a.last > b.last \/ (a.last = b.last /\ i > j)

Replaced(list) ==
  {list[i] : i \in {n \in DOMAIN list : \E j \in DOMAIN list : After(list, j, n)}}

Top(list) == CHOOSE s \in {list[i] : i \in DOMAIN list} : s \notin Replaced(list)

LEMMA LatestIsTop ==
  ASSUME NEW t
  PROVE  Latest(t) = Top(snaps[t])
BY DEF Latest, Superseded, Newer, Top, Replaced, After

LEMMA LatestIsTopNext ==
  ASSUME NEW t
  PROVE  Latest(t)' = Top(snaps'[t])
BY DEF Latest, Superseded, Newer, Top, Replaced, After

LEMMA DatedRows ==
  ASSUME NEW list, Dated(list), NEW i \in DOMAIN list
  PROVE  /\ list[i] \in Sum /\ list[i].id \in Snaps /\ list[i].last \in Nat
         /\ list[i].text \in Nat /\ list[i].last <= MaxMessages
<1>1. list[i] \in Sum
  BY DEF Dated
<1> QED BY <1>1 DEF Sum, Dated

\* The one that ends last is the newest.
LEMMA TopIsThat ==
  ASSUME NEW list, Dated(list), NEW j \in DOMAIN list,
         \A i \in DOMAIN list : list[i].last <= list[j].last
  PROVE  Top(list) = list[j]
<1>1. \A i \in DOMAIN list : list[i].last \in Nat
  BY DatedRows
<1>2. \A i \in DOMAIN list : ~After(list, i, j)
  <2>1. ASSUME NEW i \in DOMAIN list
        PROVE  ~After(list, i, j)
    <3>1. CASE i = j
      <4>1. j \in Nat
        BY DEF Dated
      <4>2. ~(j > j)
        BY <4>1
      <4> QED BY <1>1, <3>1, <4>2 DEF After
    <3>2. CASE i # j
      <4>1. list[i].last < list[j].last
        BY <1>1, <3>2 DEF Dated
      <4> QED BY <1>1, <4>1 DEF After
    <3> QED BY <3>1, <3>2
  <2> QED BY <2>1
<1>3. list[j] \notin Replaced(list)
  <2>1. SUFFICES ASSUME NEW n \in DOMAIN list, list[n] = list[j],
                        NEW i \in DOMAIN list, After(list, i, n)
                 PROVE  FALSE
    BY DEF Replaced
  <2>2. n = j
    BY <2>1 DEF Dated
  <2> QED BY <1>2, <2>1, <2>2
<1>4. ASSUME NEW n \in DOMAIN list, list[n] \notin Replaced(list)
      PROVE  list[n] = list[j]
  <2>1. SUFFICES ASSUME n # j
                 PROVE  FALSE
    OBVIOUS
  <2>2. list[j].last > list[n].last
    BY <1>1, <2>1 DEF Dated
  <2>3. After(list, j, n)
    BY <2>2 DEF After
  <2> QED BY <1>4, <2>3 DEF Replaced
<1> QED BY <1>3, <1>4 DEF Top

LEMMA TopIs ==
  ASSUME NEW list, Dated(list), list # <<>>
  PROVE  \E j \in DOMAIN list :
           Top(list) = list[j] /\ \A i \in DOMAIN list : list[i].last <= Top(list).last
<1> DEFINE ends == {list[i].last : i \in DOMAIN list}
<1>1. ends \in SUBSET Nat /\ MaxMessages \in Nat /\ \A x \in ends : x <= MaxMessages
  BY DatedRows, BoundAssumption
<1>2. ends # {}
  <2>1. 1 \in DOMAIN list
    BY DEF Dated
  <2> QED BY <2>1
<1>3. PICK x \in ends : \A y \in ends : y <= x
  <2> HIDE DEF ends
  <2> QED BY <1>1, <1>2, LargestNumber
<1>4. PICK j \in DOMAIN list : x = list[j].last
  OBVIOUS
<1>5. \A i \in DOMAIN list : list[i].last <= list[j].last
  BY <1>3, <1>4
<1>6. Top(list) = list[j]
  BY <1>5, TopIsThat
<1> QED BY <1>5, <1>6

\* What is left of a list that keeps its newest entry has the same newest entry.
LEMMA TopStays ==
  ASSUME NEW old, NEW new, Dated(old), new \in Seq(Sum),
         \A i, j \in DOMAIN new : new[i].id = new[j].id => i = j,
         \A j \in DOMAIN new : \E i \in DOMAIN old : new[j] = old[i],
         \A i \in DOMAIN old : \E j \in DOMAIN new : new[j].last >= old[i].last
  PROVE  Dated(new) /\ (old # <<>> => new # <<>> /\ Top(new) = Top(old))
<1>1. \A i \in DOMAIN old : old[i].last \in Nat
  BY DatedRows
<1>2. Dated(new)
  <2>1. ASSUME NEW j \in DOMAIN new
        PROVE  new[j].id = new[j].last /\ new[j].last <= MaxMessages
    <3>1. PICK i \in DOMAIN old : new[j] = old[i]
      OBVIOUS
    <3> QED BY <3>1 DEF Dated
  <2>2. \A i, j \in DOMAIN new : new[i].last = new[j].last => i = j
    BY <2>1
  <2> QED BY <2>1, <2>2 DEF Dated
<1>3. ASSUME old # <<>>
      PROVE  new # <<>> /\ Top(new) = Top(old)
  <2>1. PICK i \in DOMAIN old :
          Top(old) = old[i] /\ \A k \in DOMAIN old : old[k].last <= Top(old).last
    BY <1>3, TopIs
  <2>2. PICK j \in DOMAIN new : new[j].last >= old[i].last
    OBVIOUS
  <2>3. PICK k \in DOMAIN old : new[j] = old[k]
    OBVIOUS
  <2>4. k = i
    <3>1. old[k].last <= old[i].last /\ old[k].last >= old[i].last
      BY <2>1, <2>2, <2>3
    <3>2. old[k].last = old[i].last
      BY <1>1, <3>1
    <3> QED BY <3>2 DEF Dated
  <2>5. \A n \in DOMAIN new : new[n].last <= new[j].last
    BY <2>1, <2>3, <2>4
  <2>6. Top(new) = new[j]
    BY <1>2, <2>5, TopIsThat
  <2> QED BY <2>1, <2>2, <2>3, <2>4, <2>6
<1> QED BY <1>2, <1>3

\* A new snapshot is the newest unless one ends later.
LEMMA TopGrows ==
  ASSUME NEW old, NEW s \in Sum, Dated(old), s.id = s.last, s.last <= MaxMessages,
         \A i \in DOMAIN old : old[i].id # s.id
  PROVE  /\ Dated(Append(old, s)) /\ Append(old, s) # <<>>
         /\ old = <<>> => Top(Append(old, s)) = s
         /\ old # <<>> /\ Top(old).last < s.last => Top(Append(old, s)) = s
         /\ old # <<>> /\ ~(Top(old).last < s.last) =>
              /\ Top(Append(old, s)) = Top(old)
              /\ Top(old).last > s.last
<1> DEFINE new == Append(old, s)
           n == Len(old)
<1>1. /\ n \in Nat /\ new \in Seq(Sum) /\ DOMAIN new = 1 .. n + 1 /\ new[n + 1] = s
      /\ DOMAIN old = 1 .. n /\ \A i \in 1 .. n : new[i] = old[i]
  BY AppendProperties DEF Dated
<1>2. s.last \in Nat /\ \A i \in 1 .. n : old[i].last \in Nat /\ old[i].last # s.last
  <2>1. s.last \in Nat
    BY DEF Sum
  <2>2. \A i \in 1 .. n : old[i].last \in Nat
    BY <1>1, DatedRows
  <2>3. \A i \in 1 .. n : old[i].last # s.last
    BY <1>1 DEF Dated
  <2> QED BY <2>1, <2>2, <2>3
<1> HIDE DEF new, n
<1>3. ASSUME NEW i \in 1 .. n + 1
      PROVE  i \in 1 .. n \/ i = n + 1
  BY <1>1
<1>4. Dated(new)
  <2>1. \A i \in DOMAIN new : new[i].id = new[i].last /\ new[i].last <= MaxMessages
    <3>1. \A i \in 1 .. n : old[i].id = old[i].last /\ old[i].last <= MaxMessages
      BY <1>1 DEF Dated
    <3> QED BY <1>1, <1>3, <3>1
  <2>2. ASSUME NEW i \in DOMAIN new, NEW j \in DOMAIN new, new[i].last = new[j].last
        PROVE  i = j
    <3>1. \A a, b \in 1 .. n : old[a].last = old[b].last => a = b
      BY <1>1 DEF Dated
    <3> QED BY <1>1, <1>2, <1>3, <2>2, <3>1
  <2> QED BY <1>1, <2>1, <2>2 DEF Dated
<1>5. n + 1 \in DOMAIN new
  BY <1>1
<1>6. new # <<>>
  BY <1>5
<1>7. ASSUME \A i \in 1 .. n : old[i].last <= s.last
      PROVE  Top(new) = s
  <2>1. \A i \in DOMAIN new : new[i].last <= new[n + 1].last
    BY <1>1, <1>2, <1>3, <1>7
  <2> QED BY <1>1, <1>4, <1>5, <2>1, TopIsThat
<1>8. ASSUME old = <<>>
      PROVE  Top(new) = s
  <2>1. n = 0
    BY <1>8 DEF n
  <2>2. \A i \in 1 .. n : old[i].last <= s.last
    BY <2>1
  <2> QED BY <1>7, <2>2
<1>9. ASSUME old # <<>>
      PROVE  /\ Top(old).last < s.last => Top(new) = s
             /\ ~(Top(old).last < s.last) => Top(new) = Top(old) /\ Top(old).last > s.last
  <2>1. PICK j \in 1 .. n :
          Top(old) = old[j] /\ \A i \in 1 .. n : old[i].last <= Top(old).last
    BY <1>1, <1>9, TopIs
  <2>2. ASSUME Top(old).last < s.last
        PROVE  Top(new) = s
    <3>1. \A i \in 1 .. n : old[i].last <= s.last
      BY <1>2, <2>1, <2>2
    <3> QED BY <1>7, <3>1
  <2>3. ASSUME ~(Top(old).last < s.last)
        PROVE  Top(new) = Top(old) /\ Top(old).last > s.last
    <3>1. Top(old).last > s.last
      BY <1>2, <2>1, <2>3
    <3>2. j \in DOMAIN new /\ new[j] = old[j]
      BY <1>1, <2>1
    <3>3. ASSUME NEW i \in DOMAIN new
          PROVE  new[i].last <= new[j].last
      <4>1. CASE i \in 1 .. n
        <5>1. new[i] = old[i]
          BY <1>1, <4>1
        <5> QED BY <2>1, <3>2, <4>1, <5>1
      <4>2. CASE i = n + 1
        <5>1. new[i] = s /\ old[j].last \in Nat /\ s.last \in Nat
          BY <1>1, <1>2, <4>2
        <5> QED BY <2>1, <3>1, <3>2, <5>1
      <4> QED BY <1>1, <1>3, <4>1, <4>2
    <3> QED BY <1>4, <2>1, <3>1, <3>2, <3>3, TopIsThat
  <2> QED BY <2>2, <2>3
<1> QED BY <1>4, <1>6, <1>8, <1>9 DEF new

-----------------------------------------------------------------------------
(* The invariant: where a request stands, what a thread keeps.             *)

Waiting ==
  [at : {"loaded", "summarising", "raced", "prepared"}, thread : Threads, id : Ids,
   rev : Nat, seen : Nat, end : Nat]

\* The messages of a thread as a request loaded them, with its own behind.
Ahead(w, list) == Append(SubSeq(list, 1, w.rev), UserMessage(w.id, FALSE))

\* The context can be put together from these messages and these snapshots.
Meets(list, sums) ==
  \/ Fits(list, 0, 0)
  \/ RecentStart(list) > 0 /\ sums # <<>> /\ WithSnapshot(list, Top(sums))

\* A request that waits for a summary saw a shorter snapshot than the one it writes,
\* and if that one is still the newest, it did not help.
Longing(w, list, sums) ==
  /\ w.end = RecentStart(Ahead(w, list)) /\ w.seen < w.end
  /\ w.seen > 0 => sums # <<>>
  /\ sums # <<>> =>
       /\ w.seen <= Top(sums).last
       /\ w.seen = Top(sums).last => ~WithSnapshot(Ahead(w, list), Top(sums))

Stands(w, list, sums) ==
  /\ w.rev <= Len(list)
  /\ w.at # "prepared" => RecentStart(Ahead(w, list)) > 0
  /\ w.at = "summarising" => Longing(w, list, sums)

\* The turn a prepared request would write now can be put together.
Ready(w, list, sums) ==
  w.at = "prepared" /\ w.rev = Len(list) => Meets(Ahead(w, list), sums)

\* A request that was overtaken is excused: its turn may not fit any more.
Placed(p) ==
  LET t == request[p].thread
  IN /\ thread[t] # "unborn"
     /\ thread[t] = "live" =>
          /\ Stands(request[p], ledger[t], snaps[t])
          /\ Ready(request[p], ledger[t], snaps[t]) \/ p \in overtaken

\* Every snapshot ends before the recent window of whatever is asked next.
Behaved(t) ==
  \A i \in DOMAIN snaps[t] :
    /\ snaps[t][i].id = snaps[t][i].last /\ snaps[t][i].text \in Texts
    /\ \A m \in Ids : snaps[t][i].last <= RecentStart(Append(ledger[t], UserMessage(m, FALSE)))

Held(t) == current[t] # None => Meets(ledger[t], snaps[t]) \/ t \in exposed

KInv ==
  /\ IInv
  /\ request \in [Requests -> Waiting \cup {Idle}] /\ overtaken \subseteq Requests
  /\ \A t \in Threads : Behaved(t) /\ Held(t)
  /\ \A p \in Requests : request[p] # Idle => Placed(p)

LEMMA WaitingTypes ==
  ASSUME NEW w \in Waiting
  PROVE  /\ w.at \in {"loaded", "summarising", "raced", "prepared"} /\ w # Idle
         /\ w.thread \in Threads /\ w.id \in Ids /\ w.rev \in Nat
         /\ w.seen \in Nat /\ w.end \in Nat
BY DEF Waiting, Idle

\* Of what a request loaded.
LEMMA AheadIs ==
  ASSUME NEW w \in Waiting, NEW list \in Seq(Message), w.rev <= Len(list)
  PROVE  /\ SubSeq(list, 1, w.rev) \in Seq(Message) /\ Len(SubSeq(list, 1, w.rev)) = w.rev
         /\ \A i \in 1 .. w.rev : SubSeq(list, 1, w.rev)[i] = list[i]
         /\ Ahead(w, list) \in Seq(Message) /\ Len(Ahead(w, list)) = w.rev + 1
         /\ \A i \in 1 .. w.rev : Ahead(w, list)[i] = list[i]
         /\ RecentStart(Ahead(w, list)) \in Nat /\ RecentStart(Ahead(w, list)) <= w.rev
<1> DEFINE front == SubSeq(list, 1, w.rev)
           um == UserMessage(w.id, FALSE)
<1>1. w.rev \in Nat /\ um \in Message /\ Len(list) \in Nat
  <2>1. w.id \in Ids /\ w.rev \in Nat
    BY WaitingTypes
  <2>2. \A m \in Ids : UserMessage(m, FALSE) \in Message
    BY UserMessageIs
  <2>3. um \in Message
    BY <2>1, <2>2
  <2>4. Len(list) \in Nat
    OBVIOUS
  <2> QED BY <2>1, <2>3, <2>4
<1>2. /\ front \in Seq(Message) /\ Len(front) = w.rev
      /\ \A i \in 1 .. w.rev : front[i] = list[i]
  <2>1. \A i \in 1 .. w.rev : list[i] \in Message
    BY <1>1
  <2>2. /\ front \in Seq(Message)
        /\ Len(front) = IF 1 <= w.rev THEN w.rev - 1 + 1 ELSE 0
        /\ \A i \in 1 .. w.rev - 1 + 1 : front[i] = list[1 + i - 1]
    <3>1. 1 \in Int /\ w.rev \in Int
      BY <1>1
    <3> QED BY <2>1, <3>1, SubSeqProperties
  <2>3. w.rev - 1 + 1 = w.rev /\ (~(1 <= w.rev) => w.rev = 0)
    BY <1>1
  <2>4. \A i \in 1 .. w.rev : 1 + i - 1 = i
    BY <1>1
  <2> HIDE DEF front
  <2> QED BY <2>2, <2>3, <2>4
<1> HIDE DEF front, um
<1>3. /\ Append(front, um) \in Seq(Message) /\ Len(Append(front, um)) = w.rev + 1
      /\ \A i \in 1 .. w.rev : Append(front, um)[i] = front[i]
  BY <1>1, <1>2, AppendProperties
<1>4. RecentStart(Append(front, um)) \in Nat /\ RecentStart(Append(front, um)) <= Len(front)
  BY <1>1, <1>2, WindowIsBehind
<1> QED BY <1>2, <1>3, <1>4 DEF Ahead, front, um

\* What is written behind the place a request loaded does not change what it loaded.
LEMMA AheadStays ==
  ASSUME NEW w \in Waiting, NEW old \in Seq(Message), NEW new \in Seq(Message),
         w.rev <= Len(old), Len(old) <= Len(new), \A i \in 1 .. Len(old) : new[i] = old[i]
  PROVE  Ahead(w, new) = Ahead(w, old)
<1>1. w.rev \in Nat /\ Len(old) \in Nat /\ Len(new) \in Nat
  BY WaitingTypes
<1>2. w.rev <= Len(new)
  BY <1>1
<1> DEFINE a == SubSeq(old, 1, w.rev)
           b == SubSeq(new, 1, w.rev)
<1>3. a \in Seq(Message) /\ Len(a) = w.rev /\ \A i \in 1 .. w.rev : a[i] = old[i]
  BY AheadIs
<1>4. b \in Seq(Message) /\ Len(b) = w.rev /\ \A i \in 1 .. w.rev : b[i] = new[i]
  BY <1>2, AheadIs
<1>5. \A i \in 1 .. w.rev : new[i] = old[i]
  BY <1>1
<1> HIDE DEF a, b
<1>6. a = b
  BY <1>1, <1>3, <1>4, <1>5, SeqEqual
<1> QED BY <1>6 DEF Ahead, a, b

\* A longer ledger and snapshots with the same newest leave a request where it stands.
LEMMA StandsStays ==
  ASSUME NEW w \in Waiting, NEW old \in Seq(Message), NEW new \in Seq(Message),
         new = old \/ \E msg \in Message : new = Append(old, msg),
         NEW before, NEW after, before # <<>> => after # <<>> /\ Top(after) = Top(before),
         before = <<>> => after = <<>>,
         Stands(w, old, before)
  PROVE  Stands(w, new, after) /\ (Ready(w, old, before) => Ready(w, new, after))
<1>1. w.rev \in Nat /\ w.rev <= Len(old) /\ Len(old) \in Nat /\ Len(new) \in Nat
  BY WaitingTypes DEF Stands
<1>2. /\ Len(new) = Len(old) => new = old
      /\ Len(old) <= Len(new) /\ \A i \in 1 .. Len(old) : new[i] = old[i]
  <2>1. ASSUME NEW msg \in Message, new = Append(old, msg)
        PROVE  Len(new) = Len(old) + 1 /\ \A i \in 1 .. Len(old) : new[i] = old[i]
    BY <2>1, AppendProperties
  <2> QED BY <1>1, <2>1
<1>3. Ahead(w, new) = Ahead(w, old) /\ w.rev <= Len(new)
  BY <1>1, <1>2, AheadStays
<1>4. ASSUME Ready(w, old, before), w.at = "prepared", w.rev = Len(new)
      PROVE  Meets(Ahead(w, new), after)
  <2>1. w.rev = Len(old)
    BY <1>1, <1>2, <1>4
  <2>2. Meets(Ahead(w, old), before)
    BY <1>4, <2>1 DEF Ready
  <2> QED BY <1>3, <2>2 DEF Meets
<1>5. w.at = "summarising" => Longing(w, new, after)
  <2>1. SUFFICES ASSUME w.at = "summarising"
                 PROVE  Longing(w, new, after)
    OBVIOUS
  <2>2. Longing(w, old, before)
    BY <2>1 DEF Stands
  <2> QED BY <1>3, <2>2 DEF Longing
<1>6. w.at # "prepared" => RecentStart(Ahead(w, new)) > 0
  BY <1>3 DEF Stands
<1> QED BY <1>3, <1>4, <1>5, <1>6 DEF Stands, Ready

-----------------------------------------------------------------------------
(* What the invariant says, and what keeps it.                             *)

LEMMA ThreadGone ==
  ASSUME IInv, NEW t \in Threads, thread[t] # "live"
  PROVE  ledger[t] = <<>> /\ snaps[t] = <<>> /\ current[t] = None
<1>1. ledger[t] = <<>> /\ snaps[t] = <<>> /\ Rows(t) = {} /\ ThreadAudit(t)
  BY DEF IInv, Fine
<1>2. current[t] = None
  BY <1>1 DEF ThreadAudit
<1> QED BY <1>1, <1>2

LEMMA ThreadGoneNext ==
  ASSUME IInv', NEW t \in Threads, thread'[t] # "live"
  PROVE  ledger'[t] = <<>> /\ snaps'[t] = <<>> /\ current'[t] = None
<1>1. ledger'[t] = <<>> /\ snaps'[t] = <<>> /\ Rows(t)' = {} /\ ThreadAudit(t)'
  BY DEF IInv, Fine
<1>2. current'[t] = None
  BY <1>1 DEF ThreadAudit
<1> QED BY <1>1, <1>2

LEMMA NoRows ==
  ASSUME NEW S, NEW list \in Seq(S), ~\E i \in DOMAIN list : TRUE
  PROVE  list = <<>>
<1>1. Len(list) \in Nat /\ DOMAIN list = 1 .. Len(list)
  OBVIOUS
<1>2. Len(list) = 0
  BY <1>1
<1> QED BY <1>2, EmptySeq

LEMMA ThreadKnown ==
  ASSUME KInv, NEW t \in Threads
  PROVE  /\ IInv /\ TypeOK /\ ledger[t] \in Seq(Message) /\ Revision(t) \in Nat
         /\ Revision(t) = Len(ledger[t]) /\ Revision(t) <= MaxMessages
         /\ Dated(snaps[t])
         /\ \A i \in DOMAIN snaps[t] : snaps[t][i].last \in 1 .. Revision(t)
<1>1. IInv /\ TypeOK /\ Fine(t) /\ Behaved(t)
  BY DEF KInv, IInv
<1>2. /\ ledger[t] \in Seq(Message) /\ Revision(t) \in Nat /\ Revision(t) <= MaxMessages
      /\ snaps[t] \in Seq(Sum)
  BY <1>1, ThreadTypes
<1>3. /\ \A i \in DOMAIN snaps[t] : snaps[t][i].last \in 1 .. Revision(t)
      /\ \A i, j \in DOMAIN snaps[t] : snaps[t][i].id = snaps[t][j].id => i = j
  BY <1>1 DEF Fine, ThreadAudit
<1>4. MaxMessages \in Nat
  BY BoundAssumption
<1>5. ASSUME NEW i \in DOMAIN snaps[t]
      PROVE  snaps[t][i].id = snaps[t][i].last /\ snaps[t][i].last <= MaxMessages
  <2>1. snaps[t][i].last \in 1 .. Revision(t)
    BY <1>3
  <2>2. snaps[t][i].last <= MaxMessages
    BY <1>2, <1>4, <2>1
  <2> QED BY <1>1, <2>2 DEF Behaved
<1>6. \A i, j \in DOMAIN snaps[t] : snaps[t][i].last = snaps[t][j].last => i = j
  BY <1>3, <1>5
<1> QED BY <1>1, <1>2, <1>3, <1>5, <1>6 DEF Dated, Revision

LEMMA TopKnown ==
  ASSUME KInv, NEW t \in Threads, snaps[t] # <<>>
  PROVE  \E i \in DOMAIN snaps[t] :
           /\ Latest(t) = snaps[t][i] /\ Top(snaps[t]) = snaps[t][i]
           /\ Top(snaps[t]).last \in 1 .. Revision(t)
           /\ Top(snaps[t]).id = Top(snaps[t]).last
           /\ Top(snaps[t]).text \in Texts /\ Top(snaps[t]).text \in Nat \ {0}
           /\ \A m \in Ids :
                Top(snaps[t]).last <= RecentStart(Append(ledger[t], UserMessage(m, FALSE)))
           /\ \A j \in DOMAIN snaps[t] : snaps[t][j].last <= Top(snaps[t]).last
<1>1. Dated(snaps[t]) /\ \A i \in DOMAIN snaps[t] : snaps[t][i].last \in 1 .. Revision(t)
  BY ThreadKnown
<1>2. PICK i \in DOMAIN snaps[t] :
        /\ Top(snaps[t]) = snaps[t][i]
        /\ \A j \in DOMAIN snaps[t] : snaps[t][j].last <= Top(snaps[t]).last
  BY <1>1, TopIs
<1>3. Behaved(t)
  BY DEF KInv
<1>4. /\ snaps[t][i].id = snaps[t][i].last /\ snaps[t][i].text \in Texts
      /\ \A m \in Ids : snaps[t][i].last <= RecentStart(Append(ledger[t], UserMessage(m, FALSE)))
  BY <1>3 DEF Behaved
<1>5. snaps[t][i].text \in Nat \ {0}
  BY <1>4, TextAssumption, WeightAssumption
<1>6. Latest(t) = Top(snaps[t])
  BY LatestIsTop
<1> QED BY <1>1, <1>2, <1>4, <1>5, <1>6

LEMMA RequestKnown ==
  ASSUME KInv, NEW p \in Requests, request[p] # Idle
  PROVE  /\ request[p] \in Waiting /\ request[p].thread \in Threads
         /\ thread[request[p].thread] # "unborn"
         /\ thread[request[p].thread] = "live" =>
              /\ Stands(request[p], ledger[request[p].thread], snaps[request[p].thread])
              /\ \/ Ready(request[p], ledger[request[p].thread], snaps[request[p].thread])
                 \/ p \in overtaken
<1>1. request[p] \in Waiting /\ Placed(p)
  BY DEF KInv
<1> QED BY <1>1, WaitingTypes DEF Placed

\* The newest snapshot stays, and no other comes.
Keeps(old, new) ==
  /\ \A j \in DOMAIN new : \E i \in DOMAIN old : new[j] = old[i]
  /\ old # <<>> => new # <<>> /\ Top(new) = Top(old)

\* What happens to a thread as long as nobody compacts it.
Rests(t) ==
  /\ thread'[t] = "unborn" => thread[t] = "unborn"
  /\ thread'[t] = "live" =>
       /\ thread[t] # "deleted"
       /\ ledger'[t] = ledger[t] \/ \E msg \in Message : ledger'[t] = Append(ledger[t], msg)
       /\ Keeps(snaps[t], snaps'[t])

\* No turn is begun.
Lingers(t) == current'[t] # None => current[t] # None /\ ledger'[t] = ledger[t]

LEMMA SameRests ==
  ASSUME KInv, NEW t \in Threads, Same(t)
  PROVE  Rests(t) /\ Lingers(t)
<1>1. /\ thread'[t] = thread[t] /\ ledger'[t] = ledger[t] /\ current'[t] = current[t]
      /\ snaps'[t] = snaps[t]
  BY DEF Same
<1>2. Keeps(snaps[t], snaps'[t])
  BY <1>1 DEF Keeps
<1> QED BY <1>1, <1>2 DEF Rests, Lingers

LEMMA BehavedStays ==
  ASSUME KInv, IInv', NEW t \in Threads, Rests(t)
  PROVE  Behaved(t)'
<1>1. CASE thread'[t] # "live"
  <2>1. snaps'[t] = <<>>
    BY <1>1, ThreadGoneNext
  <2> QED BY <2>1 DEF Behaved
<1>2. CASE thread'[t] = "live"
  <2>1. /\ ledger'[t] = ledger[t] \/ \E msg \in Message : ledger'[t] = Append(ledger[t], msg)
        /\ \A j \in DOMAIN snaps'[t] : \E i \in DOMAIN snaps[t] : snaps'[t][j] = snaps[t][i]
    BY <1>2 DEF Rests, Keeps
  <2>2. ledger[t] \in Seq(Message) /\ ledger'[t] \in Seq(Message)
    BY ThreadKnown DEF IInv, TypeOK
  <2>3. Len(ledger[t]) <= Len(ledger'[t]) /\ \A i \in 1 .. Len(ledger[t]) : ledger[t][i] = ledger'[t][i]
    <3>1. ASSUME NEW msg \in Message, ledger'[t] = Append(ledger[t], msg)
          PROVE  /\ Len(ledger[t]) <= Len(ledger'[t])
                 /\ \A i \in 1 .. Len(ledger[t]) : ledger[t][i] = ledger'[t][i]
      BY <2>2, <3>1, AppendProperties
    <3> QED BY <2>1, <2>2, <3>1
  <2>4. ASSUME NEW j \in DOMAIN snaps'[t]
        PROVE  /\ snaps'[t][j].id = snaps'[t][j].last /\ snaps'[t][j].text \in Texts
               /\ \A m \in Ids :
                    snaps'[t][j].last <= RecentStart(Append(ledger'[t], UserMessage(m, FALSE)))
    <3>1. PICK i \in DOMAIN snaps[t] : snaps'[t][j] = snaps[t][i]
      BY <2>1
    <3>2. /\ snaps[t][i].id = snaps[t][i].last /\ snaps[t][i].text \in Texts
          /\ \A m \in Ids : snaps[t][i].last <= RecentStart(Append(ledger[t], UserMessage(m, FALSE)))
      BY DEF KInv, Behaved
    <3>3. ASSUME NEW m \in Ids
          PROVE  snaps[t][i].last <= RecentStart(Append(ledger'[t], UserMessage(m, FALSE)))
      <4> DEFINE before == RecentStart(Append(ledger[t], UserMessage(m, FALSE)))
                 after == RecentStart(Append(ledger'[t], UserMessage(m, FALSE)))
                 last == snaps[t][i].last
      <4>1. before <= after
        BY <2>2, <2>3, WindowMoves
      <4>2. UserMessage(m, FALSE) \in Message
        BY UserMessageIs
      <4>3. before \in Nat
        BY <2>2, <4>2, WindowIsBehind
      <4>4. after \in Nat
        BY <2>2, <4>2, WindowIsBehind
      <4>5. last \in Nat
        BY ThreadKnown, DatedRows
      <4>6. last <= before
        BY <3>2
      <4> HIDE DEF before, after, last
      <4>7. last <= after
        BY <4>1, <4>3, <4>4, <4>5, <4>6
      <4> QED BY <4>7 DEF last, after
    <3> QED BY <3>1, <3>2, <3>3
  <2> QED BY <2>4 DEF Behaved
<1> QED BY <1>1, <1>2

LEMMA HeldStays ==
  ASSUME KInv, IInv', NEW t \in Threads, Rests(t), Lingers(t), t \in exposed => t \in exposed'
  PROVE  Held(t)'
<1>1. SUFFICES ASSUME current'[t] # None
               PROVE  Meets(ledger'[t], snaps'[t]) \/ t \in exposed'
  BY DEF Held
<1>2. thread'[t] = "live"
  BY <1>1, ThreadGoneNext
<1>3. /\ current[t] # None /\ ledger'[t] = ledger[t]
      /\ snaps[t] # <<>> => snaps'[t] # <<>> /\ Top(snaps'[t]) = Top(snaps[t])
  BY <1>1, <1>2 DEF Lingers, Rests, Keeps
<1>4. Meets(ledger[t], snaps[t]) \/ t \in exposed
  BY <1>3 DEF KInv, Held
<1> QED BY <1>3, <1>4 DEF Meets

LEMMA PlacedStays ==
  ASSUME KInv, IInv', NEW p \in Requests, request[p] # Idle, request'[p] = request[p],
         Rests(request[p].thread), p \in overtaken => p \in overtaken'
  PROVE  Placed(p)'
<1>1. PICK w : w = request[p]
  OBVIOUS
<1>2. PICK t : t = w.thread
  OBVIOUS
<1>3. /\ w \in Waiting /\ t \in Threads /\ thread[t] # "unborn"
      /\ thread[t] = "live" =>
           Stands(w, ledger[t], snaps[t]) /\ (Ready(w, ledger[t], snaps[t]) \/ p \in overtaken)
  BY <1>1, <1>2, RequestKnown
<1>4. thread'[t] # "unborn"
  BY <1>1, <1>2, <1>3 DEF Rests
<1>5. ASSUME thread'[t] = "live"
      PROVE  /\ Stands(w, ledger'[t], snaps'[t])
             /\ Ready(w, ledger'[t], snaps'[t]) \/ p \in overtaken'
  <2>1. /\ thread[t] # "deleted"
        /\ ledger'[t] = ledger[t] \/ \E msg \in Message : ledger'[t] = Append(ledger[t], msg)
        /\ Keeps(snaps[t], snaps'[t])
    BY <1>1, <1>2, <1>5 DEF Rests
  <2>2. Stands(w, ledger[t], snaps[t]) /\ (Ready(w, ledger[t], snaps[t]) \/ p \in overtaken)
    <3>1. thread[t] = "live"
      BY <1>3, <2>1, ThreadKnown, ThreadTypes
    <3> QED BY <1>3, <3>1
  <2>3. ledger[t] \in Seq(Message) /\ ledger'[t] \in Seq(Message) /\ snaps'[t] \in Seq(Sum)
    BY <1>3, ThreadKnown DEF IInv, TypeOK, Sum
  <2>4. snaps[t] = <<>> => snaps'[t] = <<>>
    <3>1. snaps[t] = <<>> => ~\E i \in DOMAIN snaps[t] : TRUE
      OBVIOUS
    <3>2. snaps[t] = <<>> => ~\E j \in DOMAIN snaps'[t] : TRUE
      BY <2>1, <3>1 DEF Keeps
    <3> QED BY <2>3, <3>2, NoRows
  <2>5. snaps[t] # <<>> => snaps'[t] # <<>> /\ Top(snaps'[t]) = Top(snaps[t])
    BY <2>1 DEF Keeps
  <2>6. /\ Stands(w, ledger'[t], snaps'[t])
        /\ Ready(w, ledger[t], snaps[t]) => Ready(w, ledger'[t], snaps'[t])
    BY <1>3, <2>1, <2>2, <2>3, <2>4, <2>5, StandsStays
  <2> QED BY <2>2, <2>6
<1>6. request'[p] = w
  BY <1>1
<1> QED BY <1>2, <1>4, <1>5, <1>6 DEF Placed

-----------------------------------------------------------------------------
(* The coordinator and the rest of the server call the ledger.             *)

\* Where a summary that is asked for ends: its range is an identifier and a key.
LEMMA EndKnown ==
  ASSUME KInv, NEW q \in Requests, request[q] # Idle, request[q].at = "summarising",
         thread[request[q].thread] = "live"
  PROVE  /\ request[q].end \in 1 .. Revision(request[q].thread)
         /\ request[q].end <= request[q].rev
         /\ request[q].end \in Snaps /\ request[q].end \in Keys /\ request[q].end \in Nat
<1>1. PICK w : w = request[q]
  OBVIOUS
<1>2. PICK t : t = w.thread
  OBVIOUS
<1>3. w \in Waiting /\ t \in Threads /\ Stands(w, ledger[t], snaps[t]) /\ w.at = "summarising"
  BY <1>1, <1>2, RequestKnown
<1>4. /\ w.end = RecentStart(Ahead(w, ledger[t])) /\ w.seen < w.end
      /\ w.rev <= Len(ledger[t])
  BY <1>3 DEF Stands, Longing
<1>5. /\ ledger[t] \in Seq(Message) /\ Revision(t) = Len(ledger[t]) /\ Revision(t) \in Nat
      /\ Revision(t) <= MaxMessages
  BY <1>3, ThreadKnown
<1>6. RecentStart(Ahead(w, ledger[t])) <= w.rev
  BY <1>3, <1>4, <1>5, AheadIs
<1>7. w.end \in Nat /\ w.seen \in Nat /\ w.rev \in Nat /\ MaxMessages \in Nat
  BY <1>3, WaitingTypes, BoundAssumption
<1>8. w.end \in 1 .. Revision(t) /\ w.end \in 1 .. MaxMessages /\ w.end <= w.rev
  BY <1>4, <1>5, <1>6, <1>7
<1>9. w.end \in Snaps /\ w.end \in Keys
  BY <1>8, DigestAssumption
<1> QED BY <1>1, <1>2, <1>7, <1>8, <1>9

LEMMA CallIsMade ==
  ASSUME NEW w, NEW text \in Nat, w.end \in Snaps, w.end \in Keys, w.end \in Nat,
         w.thread \in Threads
  PROVE  /\ CallIs(Call(w, text), "compact", w.end, w.thread, w.end, w.end,
                   None, None, FALSE, None, text)
         /\ Snapshot(Call(w, text)) = [id |-> w.end, last |-> w.end, text |-> text]
<1>1. CallIs(Call(w, text), "compact", w.end, w.thread, w.end, w.end,
             None, None, FALSE, None, text)
  <2>1. PICK k, t : k = w.end /\ t = w.thread
    OBVIOUS
  <2>2. k \in Keys /\ k \in Snaps /\ k \in Nat /\ t \in Threads
    BY <2>1
  <2>3. CallIs([Blank("compact", k, t) EXCEPT !.id = k, !.rev = k, !.text = text],
               "compact", k, t, k, k, None, None, FALSE, None, text)
    BY <2>2, CompactCall
  <2> QED BY <2>1, <2>3 DEF Call
<1> QED BY <1>1 DEF CallIs, Snapshot

LEMMA CompactCalls ==
  ASSUME KInv, NEW q \in Requests, NEW text \in Texts, Compact(q, text)
  PROVE  [Next]_vars
<1>1. PICK w : w = request[q]
  OBVIOUS
<1>2. PICK t : t = w.thread
  OBVIOUS
<1>3. PICK k : k = w.end
  OBVIOUS
<1>4. PICK c : c = Call(w, text)
  OBVIOUS
<1>5. w.at = "summarising" /\ thread[t] = "live"
  BY <1>1, <1>2 DEF Compact
<1>6. w # Idle
  BY <1>5 DEF Idle
<1>7. w \in Waiting /\ t \in Threads
  BY <1>1, <1>2, <1>6, RequestKnown
<1>8. k \in 1 .. Revision(t) /\ k \in Snaps /\ k \in Keys /\ k \in Nat
  BY <1>1, <1>2, <1>3, <1>5, <1>6, EndKnown
<1>9. text \in Nat
  BY TextAssumption
<1>10. /\ CallIs(c, "compact", k, t, k, k, None, None, FALSE, None, text)
       /\ Snapshot(c) = [id |-> k, last |-> k, text |-> text]
  BY <1>2, <1>3, <1>4, <1>7, <1>8, <1>9, CallIsMade
<1>11. \/ CreateCompactionSnapshot(k, t, k, k, text) \/ Replay(c) \/ Recognise(c)
       \/ UNCHANGED vars
  BY <1>1, <1>2, <1>3, <1>4 DEF Compact, Goes
<1>12. CASE CreateCompactionSnapshot(k, t, k, k, text)
  <2>1. Revision(t) \in Nat
    BY <1>7, ThreadKnown
  <2>2. k \in Revisions(t)
    BY <1>8, <2>1 DEF Revisions
  <2> QED BY <1>7, <1>8, <1>12, <2>2 DEF Next, Mutate
<1>13. CASE Replay(c)
  <2>1. PICK gone \in Expired(CleanupRows) : Contains(Kept(gone), c)
    BY <1>13 DEF Replay
  <2>2. receipts \in Seq(Request)
    BY DEF KInv, IInv, TypeOK
  <2>3. PICK n \in DOMAIN Kept(gone) : Kept(gone)[n] = c
    BY <2>1 DEF Contains
  <2>4. PICK i \in DOMAIN receipts : receipts[i] = c
    BY <2>2, <2>3, KeptList
  <2>5. receipts[i].key = k /\ receipts[i].thread = t
    BY <1>10, <2>4 DEF CallIs
  <2>6. Again(k, t)
    BY <1>13, <2>4, <2>5 DEF Again
  <2> QED BY <1>7, <1>8, <2>6 DEF Next
<1>14. CASE Recognise(c)
  <2>1. Effect(c) /\ c.kind = "compact" /\ c.thread = t
    BY <1>10, <1>14 DEF Recognise, CallIs
  <2>2. PICK i \in DOMAIN snaps[t] : snaps[t][i] = Snapshot(c)
    BY <2>1 DEF Effect
  <2>3. snaps[t][i].id = k /\ snaps[t][i].last = k /\ snaps[t][i].text = text
    BY <1>10, <2>2
  <2>4. c = [Blank("compact", k, t) EXCEPT !.id = snaps[t][i].id, !.rev = snaps[t][i].last,
                                           !.text = snaps[t][i].text]
    BY <1>2, <1>3, <1>4, <2>3 DEF Call
  <2>5. c \in Calls(k, t)
    BY <2>4 DEF Calls
  <2>6. Again(k, t)
    BY <1>14, <2>5 DEF Again
  <2> QED BY <1>7, <1>8, <2>6 DEF Next
<1>15. CASE UNCHANGED vars
  BY <1>15
<1> QED BY <1>11, <1>12, <1>13, <1>14, <1>15

LEMMA PersistCalls ==
  ASSUME KInv, NEW q \in Requests, NEW g \in Gens, NEW a \in Ids, Persist(q, g, a)
  PROVE  [Next]_vars
<1>1. PICK w : w = request[q]
  OBVIOUS
<1>2. PICK t, m, r : t = w.thread /\ m = w.id /\ r = w.rev
  OBVIOUS
<1>3. w.at = "prepared" /\ StartTurn(UserKey, t, m, g, a, r, FALSE)
  BY <1>1, <1>2 DEF Persist
<1>4. w # Idle
  BY <1>3 DEF Idle
<1>5. t \in Threads /\ m \in Ids
  BY <1>1, <1>2, <1>4, RequestKnown, WaitingTypes
<1>6. r = Revision(t) /\ Revision(t) \in Nat
  BY <1>3, <1>5, ThreadKnown DEF StartTurn, Appendable
<1>7. r \in Revisions(t)
  BY <1>6 DEF Revisions
<1>8. Mutate(UserKey, t)
  BY <1>3, <1>5, <1>7 DEF Mutate
<1> QED BY <1>5, <1>8, ClientAssumption DEF Next

LEMMA RestCalls ==
  ASSUME KInv, NEW t \in Threads, RestOfServer(t)
  PROVE  Next
<1>1. UserKey \in Keys
  BY ClientAssumption
<1>2. ASSUME CreateThread(UserKey, t)
      PROVE  Next
  BY <1>1, <1>2 DEF Next, Mutate
<1>3. ASSUME NEW g \in Gens, AppendDelta(t, g)
      PROVE  Next
  BY <1>3 DEF Next
<1>4. ASSUME NEW g \in Gens, FinalizeGeneration(UserKey, t, g)
      PROVE  Next
  BY <1>1, <1>4 DEF Next, Mutate
<1>5. ASSUME NEW g \in Gens, CancelGeneration(UserKey, t, g)
      PROVE  Next
  BY <1>1, <1>5 DEF Next, Mutate
<1>6. ASSUME NEW g \in Gens, NEW c \in Codes, FailGeneration(UserKey, t, g, c)
      PROVE  Next
  BY <1>1, <1>6 DEF Next, Mutate
<1>7. ASSUME DeleteThread(UserKey, t, Revision(t))
      PROVE  Next
  <2>1. Revision(t) \in Revisions(t)
    BY ThreadKnown DEF Revisions
  <2> QED BY <1>1, <1>7, <2>1 DEF Next, Mutate
<1>8. ASSUME Maintain(t)
      PROVE  Next
  BY <1>8 DEF Next
<1> QED BY <1>2, <1>3, <1>4, <1>5, <1>6, <1>7, <1>8 DEF RestOfServer

LEMMA StepsCall ==
  ASSUME KInv, [ContextNext]_contextVars
  PROVE  [Next]_vars
<1>1. ASSUME NEW q \in Requests, NEW t \in Threads, NEW m \in Ids, Load(q, t, m)
      PROVE  UNCHANGED vars
  BY <1>1 DEF Load, Goes
<1>2. ASSUME NEW q \in Requests, Reuse(q) \/ Raced(q) \/ Abandon(q)
      PROVE  UNCHANGED vars
  BY <1>2 DEF Reuse, Raced, Abandon, Goes
<1>3. CASE UNCHANGED contextVars
  BY <1>3 DEF contextVars
<1>4. CASE ContextNext
  <2>1. \/ \E q \in Requests :
             \/ \E t \in Threads, m \in Ids : Load(q, t, m)
             \/ Reuse(q) \/ Raced(q) \/ Abandon(q)
             \/ \E text \in Texts : Compact(q, text)
             \/ \E g \in Gens, a \in Ids : Persist(q, g, a)
        \/ \E t \in Threads : RestOfServer(t)
    BY <1>4 DEF ContextNext
  <2> QED BY <1>1, <1>2, <2>1, CompactCalls, PersistCalls, RestCalls
<1> QED BY <1>3, <1>4

-----------------------------------------------------------------------------
(* The steps that leave the snapshots as they are, or only clean them up.  *)

LEMMA RestingKeeps ==
  ASSUME KInv, IInv', \A u \in Threads : Rests(u) /\ Lingers(u),
         request' = request, overtaken' = overtaken, exposed' = exposed
  PROVE  KInv'
<1>1. request' \in [Requests -> Waiting \cup {Idle}] /\ overtaken' \subseteq Requests
  BY DEF KInv
<1>2. ASSUME NEW u \in Threads
      PROVE  Behaved(u)' /\ Held(u)'
  BY BehavedStays, HeldStays
<1>3. ASSUME NEW p \in Requests, request'[p] # Idle
      PROVE  Placed(p)'
  <2>1. request[p] # Idle /\ request'[p] = request[p]
    BY <1>3
  <2>2. Rests(request[p].thread)
    BY <2>1, RequestKnown
  <2> QED BY <2>1, <2>2, PlacedStays
<1> QED BY <1>1, <1>2, <1>3 DEF KInv

LEMMA UnchangedRests ==
  ASSUME KInv, vars' = vars
  PROVE  \A u \in Threads : Rests(u) /\ Lingers(u)
<1>1. \A u \in Threads : Same(u)
  BY DEF Same, vars
<1> QED BY <1>1, SameRests

LEMMA CreateRests ==
  ASSUME KInv, NEW t \in Threads, CreateThread(UserKey, t)
  PROVE  Rests(t) /\ Lingers(t)
<1>1. /\ thread[t] = "unborn" /\ ledger' = ledger /\ current' = current /\ snaps' = snaps
  BY DEF CreateThread
<1>2. Keeps(snaps[t], snaps'[t])
  BY <1>1 DEF Keeps
<1> QED BY <1>1, <1>2 DEF Rests, Lingers

LEMMA DeltaRests ==
  ASSUME KInv, NEW t \in Threads, NEW g \in Gens, AppendDelta(t, g)
  PROVE  Rests(t) /\ Lingers(t)
<1>1. /\ thread' = thread /\ ledger' = ledger /\ current' = current /\ snaps' = snaps
      /\ current[t] = g
  BY DEF AppendDelta
<1>2. Keeps(snaps[t], snaps'[t])
  BY <1>1 DEF Keeps
<1> QED BY <1>1, <1>2 DEF Rests, Lingers

LEMMA FinalizeRests ==
  ASSUME KInv, NEW t \in Threads, NEW g \in Gens, FinalizeGeneration(UserKey, t, g)
  PROVE  Rests(t) /\ Lingers(t)
<1> DEFINE msg == AnswerOf(t, g)
<1>1. /\ gens[t][g].status = "in_progress"
      /\ ledger' = [ledger EXCEPT ![t] = Append(@, msg)]
      /\ current' = [current EXCEPT ![t] = None]
      /\ thread' = thread /\ snaps' = snaps
  BY DEF FinalizeGeneration, AnswerOf
<1>2. TypeOK /\ \A h \in Rows(t) : RowFine(t, h)
  BY DEF KInv, IInv, Fine
<1>3. gens[t][g].reply \in Ids
  BY <1>1, <1>2 DEF Rows, RowFine
<1>4. msg \in Message
  BY <1>3 DEF AnswerOf, Message
<1> HIDE DEF msg
<1>5. current'[t] = None /\ ledger'[t] = Append(ledger[t], msg)
  BY <1>1, <1>2 DEF TypeOK
<1>6. Keeps(snaps[t], snaps'[t])
  BY <1>1 DEF Keeps
<1>7. current[t] # None
  <2>1. Runs(t, g)
    BY <1>1, Running DEF KInv
  <2> QED BY <2>1, NullAssumption DEF Runs
<1>8. thread[t] = "live"
  BY <1>7, ThreadGone DEF KInv
<1> QED BY <1>1, <1>4, <1>5, <1>6, <1>8 DEF Rests, Lingers

LEMMA TerminateRests ==
  ASSUME KInv, NEW t \in Threads, NEW q, NEW end, q.thread = t, Terminate(q, end)
  PROVE  Rests(t) /\ Lingers(t)
<1>1. /\ current' = [current EXCEPT ![t] = None]
      /\ thread' = thread /\ ledger' = ledger /\ snaps' = snaps
      /\ gens[t][q.gen].status = "in_progress" /\ current[t] = q.gen
  BY DEF Terminate
<1>2. TypeOK
  BY DEF KInv, IInv
<1>3. current'[t] = None
  BY <1>1, <1>2 DEF TypeOK
<1>4. Keeps(snaps[t], snaps'[t])
  BY <1>1 DEF Keeps
<1>5. thread'[t] = "live" => thread[t] # "deleted"
  BY <1>1
<1> QED BY <1>1, <1>3, <1>4, <1>5 DEF Rests, Lingers

LEMMA DeleteRests ==
  ASSUME KInv, NEW t \in Threads, NEW r, DeleteThread(UserKey, t, r)
  PROVE  Rests(t) /\ Lingers(t)
<1>1. thread' = [thread EXCEPT ![t] = "deleted"] /\ current[t] = None /\ current' = current
  BY DEF DeleteThread
<1>2. TypeOK
  BY DEF KInv, IInv
<1>3. thread'[t] = "deleted" /\ current'[t] = None
  BY <1>1, <1>2 DEF TypeOK
<1> QED BY <1>3 DEF Rests, Lingers

LEMMA MaintainRests ==
  ASSUME KInv, NEW t \in Threads, Maintain(t)
  PROVE  Rests(t) /\ Lingers(t)
<1>1. PICK old \in SUBSET Prunable(t), gone \in SUBSET Superseded(t) : RunMaintenance(t, old, gone)
  BY DEF Maintain
<1>2. PICK left \in Thinned(snaps[t], {i \in DOMAIN snaps[t] : snaps[t][i] \notin gone}) :
        snaps' = [snaps EXCEPT ![t] = left]
  BY <1>1 DEF RunMaintenance
<1>3. thread' = thread /\ ledger' = ledger /\ current' = current
  BY <1>1 DEF RunMaintenance
<1>4. IInv /\ TypeOK
  BY DEF KInv, IInv
<1>5. snaps'[t] = left
  BY <1>2, <1>4 DEF TypeOK
<1>6. PICK at \in [DOMAIN left -> DOMAIN snaps[t]] :
        /\ \A j \in DOMAIN left : left[j] = snaps[t][at[j]]
        /\ \A i, j \in DOMAIN left : at[i] = at[j] => i = j
  BY <1>2, <1>4, PrunedSums
<1>7. /\ left \in Seq(Sum)
      /\ \A i \in DOMAIN snaps[t] : \E j \in DOMAIN left : left[j].last >= snaps[t][i].last
  BY <1>2, <1>4, PrunedSums
<1>8. Dated(snaps[t]) /\ \A i, j \in DOMAIN snaps[t] : snaps[t][i].id = snaps[t][j].id => i = j
  BY <1>4, ThreadKnown DEF IInv, Fine
<1>9. \A i, j \in DOMAIN left : left[i].id = left[j].id => i = j
  BY <1>6, <1>8
<1>10. \A j \in DOMAIN left : \E i \in DOMAIN snaps[t] : left[j] = snaps[t][i]
  BY <1>6
<1>11. snaps[t] # <<>> => left # <<>> /\ Top(left) = Top(snaps[t])
  BY <1>7, <1>8, <1>9, <1>10, TopStays
<1>12. Keeps(snaps[t], snaps'[t])
  BY <1>5, <1>10, <1>11 DEF Keeps
<1> QED BY <1>3, <1>12 DEF Rests, Lingers

LEMMA ServerRests ==
  ASSUME KInv, NEW t \in Threads, RestOfServer(t)
  PROVE  /\ \A u \in Threads : Rests(u) /\ Lingers(u)
         /\ request' = request /\ overtaken' = overtaken /\ exposed' = exposed
<1>1. request' = request /\ overtaken' = overtaken /\ exposed' = exposed
  BY DEF RestOfServer
<1>2. UserKey \in Keys /\ IInv
  BY ClientAssumption DEF KInv
<1>3. Elsewhere(t) /\ Rests(t) /\ Lingers(t)
  <2>1. CASE CreateThread(UserKey, t)
    BY <1>2, <2>1, CreateMoves, CreateRests DEF Stepped
  <2>2. ASSUME NEW g \in Gens, AppendDelta(t, g)
        PROVE  Elsewhere(t) /\ Rests(t) /\ Lingers(t)
    BY <1>2, <2>2, DeltaMoves, DeltaRests DEF Stepped
  <2>3. ASSUME NEW g \in Gens, FinalizeGeneration(UserKey, t, g)
        PROVE  Elsewhere(t) /\ Rests(t) /\ Lingers(t)
    BY <1>2, <2>3, FinalizeMoves, FinalizeRests DEF Stepped
  <2>4. ASSUME NEW g \in Gens, CancelGeneration(UserKey, t, g)
        PROVE  Elsewhere(t) /\ Rests(t) /\ Lingers(t)
    <3>1. PICK q : q = [Blank("cancel", UserKey, t) EXCEPT !.gen = g]
      OBVIOUS
    <3>2. Terminate(q, "cancelled") /\ q.thread = t
      BY <2>4, <3>1 DEF CancelGeneration, Blank
    <3>3. Rests(t) /\ Lingers(t)
      BY <3>2, TerminateRests
    <3> QED BY <1>2, <2>4, <3>3, CancelMoves DEF Stepped
  <2>5. ASSUME NEW g \in Gens, NEW c \in Codes, FailGeneration(UserKey, t, g, c)
        PROVE  Elsewhere(t) /\ Rests(t) /\ Lingers(t)
    <3>1. PICK q : q = [Blank("fail", UserKey, t) EXCEPT !.gen = g, !.code = c]
      OBVIOUS
    <3>2. Terminate(q, "failed") /\ q.thread = t
      BY <2>5, <3>1 DEF FailGeneration, Blank
    <3>3. Rests(t) /\ Lingers(t)
      BY <3>2, TerminateRests
    <3> QED BY <1>2, <2>5, <3>3, FailMoves DEF Stepped
  <2>6. CASE DeleteThread(UserKey, t, Revision(t))
    <3>1. PICK r : r = Revision(t)
      OBVIOUS
    <3>2. r \in Revisions(t) /\ DeleteThread(UserKey, t, r)
      BY <2>6, <3>1, ThreadKnown DEF Revisions
    <3> QED BY <1>2, <3>2, DeleteMoves, DeleteRests DEF Stepped
  <2>7. CASE Maintain(t)
    BY <1>2, <2>7, MaintainMoves, MaintainRests DEF Stepped
  <2> QED BY <2>1, <2>2, <2>3, <2>4, <2>5, <2>6, <2>7 DEF RestOfServer
<1>4. \A u \in Threads \ {t} : Rests(u) /\ Lingers(u)
  BY <1>3, SameRests DEF Elsewhere
<1> QED BY <1>1, <1>3, <1>4

\* A request moves on to a place it may stand at.
LEMMA GoesKeeps ==
  ASSUME KInv, IInv', NEW q \in Requests, NEW w \in Waiting, Goes(q, w),
         thread[w.thread] = "live", Stands(w, ledger[w.thread], snaps[w.thread]),
         Ready(w, ledger[w.thread], snaps[w.thread])
  PROVE  KInv'
<1>1. /\ request' = [request EXCEPT ![q] = w] /\ vars' = vars
      /\ overtaken' = overtaken /\ exposed' = exposed
  BY DEF Goes
<1>2. /\ request' \in [Requests -> Waiting \cup {Idle}] /\ overtaken' \subseteq Requests
      /\ request'[q] = w /\ \A p \in Requests \ {q} : request'[p] = request[p]
  BY <1>1 DEF KInv
<1>3. \A u \in Threads : Rests(u) /\ Lingers(u)
  BY <1>1, UnchangedRests
<1>4. ASSUME NEW u \in Threads
      PROVE  Behaved(u)' /\ Held(u)'
  BY <1>1, <1>3, BehavedStays, HeldStays
<1>5. ASSUME NEW p \in Requests, request'[p] # Idle, p # q
      PROVE  Placed(p)'
  <2>1. request[p] # Idle /\ request'[p] = request[p]
    BY <1>2, <1>5
  <2>2. Rests(request[p].thread)
    BY <1>3, <2>1, RequestKnown
  <2> QED BY <1>1, <2>1, <2>2, PlacedStays
<1>6. Placed(q)'
  <2>1. thread' = thread /\ ledger' = ledger /\ snaps' = snaps
    BY <1>1 DEF vars
  <2> QED BY <1>2, <2>1 DEF Placed
<1> QED BY <1>2, <1>4, <1>5, <1>6 DEF KInv

LEMMA AbandonKeeps ==
  ASSUME KInv, IInv', NEW q \in Requests, Abandon(q)
  PROVE  KInv'
<1>1. /\ request' = [request EXCEPT ![q] = Idle] /\ vars' = vars
      /\ overtaken' = overtaken \ {q} /\ exposed' = exposed
  BY DEF Abandon, Leaves
<1>2. /\ request' \in [Requests -> Waiting \cup {Idle}] /\ overtaken' \subseteq Requests
      /\ request'[q] = Idle /\ \A p \in Requests \ {q} : request'[p] = request[p]
  BY <1>1 DEF KInv
<1>3. \A u \in Threads : Rests(u) /\ Lingers(u)
  BY <1>1, UnchangedRests
<1>4. ASSUME NEW u \in Threads
      PROVE  Behaved(u)' /\ Held(u)'
  BY <1>1, <1>3, BehavedStays, HeldStays
<1>5. ASSUME NEW p \in Requests, request'[p] # Idle
      PROVE  Placed(p)'
  <2>1. p # q /\ request[p] # Idle /\ request'[p] = request[p]
    BY <1>2, <1>5
  <2>2. Rests(request[p].thread)
    BY <1>3, <2>1, RequestKnown
  <2>3. p \in overtaken => p \in overtaken'
    BY <1>1, <2>1
  <2> QED BY <2>1, <2>2, <2>3, PlacedStays
<1> QED BY <1>2, <1>4, <1>5 DEF KInv

-----------------------------------------------------------------------------
(* The steps of a request that change nothing but the request.             *)

LEMMA ProjectedIs ==
  ASSUME NEW r
  PROVE  Projected(r) = Ahead(r, ledger[r.thread])
BY DEF Projected, Ahead

LEMMA AheadOf ==
  ASSUME NEW r, NEW w, w.rev = r.rev, w.id = r.id, NEW list
  PROVE  Ahead(w, list) = Ahead(r, list)
BY DEF Ahead

LEMMA PreparedIs ==
  ASSUME NEW w \in Waiting
  PROVE  /\ Prepared(w) \in Waiting /\ Prepared(w).at = "prepared"
         /\ Prepared(w).thread = w.thread /\ Prepared(w).id = w.id /\ Prepared(w).rev = w.rev
<1>1. 0 \in Nat
  OBVIOUS
<1> QED BY <1>1 DEF Waiting, Prepared

\* A request that waits and has found what it needs is prepared.
LEMMA PreparedStands ==
  ASSUME NEW w \in Waiting, NEW list, NEW sums, Stands(w, list, sums), Meets(Ahead(w, list), sums)
  PROVE  Stands(Prepared(w), list, sums) /\ Ready(Prepared(w), list, sums)
<1>1. /\ Prepared(w).at = "prepared" /\ Prepared(w).id = w.id /\ Prepared(w).rev = w.rev
  BY PreparedIs
<1>2. Ahead(Prepared(w), list) = Ahead(w, list)
  BY <1>1, AheadOf
<1> QED BY <1>1, <1>2 DEF Stands, Ready

LEMMA LoadKeeps ==
  ASSUME KInv, IInv', NEW q \in Requests, NEW t \in Threads, NEW m \in Ids, Load(q, t, m)
  PROVE  KInv'
<1>1. PICK n : n = Revision(t)
  OBVIOUS
<1>2. PICK r : r = [Idle EXCEPT !.thread = t, !.id = m, !.rev = n]
  OBVIOUS
<1>3. /\ thread[t] = "live"
      /\ \/ Fits(Projected(r), 0, 0) /\ Goes(q, Prepared(r))
         \/ /\ ~Fits(Projected(r), 0, 0) /\ RecentStart(Projected(r)) > 0
            /\ Goes(q, [r EXCEPT !.at = "loaded"])
  BY <1>1, <1>2 DEF Load
<1>4. n \in Nat /\ n = Len(ledger[t])
  BY <1>1, ThreadKnown
<1>5. r.thread = t /\ r.id = m /\ r.rev = n
  BY <1>2 DEF Idle
<1>6. Projected(r) = Ahead(r, ledger[t])
  BY <1>5, ProjectedIs
<1>7. CASE Fits(Projected(r), 0, 0) /\ Goes(q, Prepared(r))
  <2>1. PICK w : w = Prepared(r)
    OBVIOUS
  <2>2. w = [at |-> "prepared", thread |-> t, id |-> m, rev |-> n, seen |-> 0, end |-> 0]
    BY <1>2, <2>1 DEF Prepared, Idle
  <2>3. w \in Waiting /\ w.thread = t /\ w.at = "prepared" /\ w.id = m /\ w.rev = n
    BY <1>4, <2>2 DEF Waiting
  <2>4. Ahead(w, ledger[t]) = Ahead(r, ledger[t])
    BY <1>5, <2>3, AheadOf
  <2>5. Meets(Ahead(w, ledger[t]), snaps[t])
    BY <1>6, <1>7, <2>4 DEF Meets
  <2>6. Stands(w, ledger[t], snaps[t]) /\ Ready(w, ledger[t], snaps[t])
    BY <1>4, <2>3, <2>5 DEF Stands, Ready
  <2>7. Goes(q, w)
    BY <1>7, <2>1
  <2> QED BY <1>3, <2>3, <2>6, <2>7, GoesKeeps
<1>8. CASE RecentStart(Projected(r)) > 0 /\ Goes(q, [r EXCEPT !.at = "loaded"])
  <2>1. PICK w : w = [r EXCEPT !.at = "loaded"]
    OBVIOUS
  <2>2. w = [at |-> "loaded", thread |-> t, id |-> m, rev |-> n, seen |-> 0, end |-> 0]
    BY <1>2, <2>1 DEF Idle
  <2>3. w \in Waiting /\ w.thread = t /\ w.at = "loaded" /\ w.id = m /\ w.rev = n
    BY <1>4, <2>2 DEF Waiting
  <2>4. Ahead(w, ledger[t]) = Ahead(r, ledger[t])
    BY <1>5, <2>3, AheadOf
  <2>5. Stands(w, ledger[t], snaps[t]) /\ Ready(w, ledger[t], snaps[t])
    BY <1>4, <1>6, <1>8, <2>3, <2>4 DEF Stands, Ready
  <2>6. Goes(q, w)
    BY <1>8, <2>1
  <2> QED BY <1>3, <2>3, <2>5, <2>6, GoesKeeps
<1> QED BY <1>3, <1>7, <1>8

\* A snapshot that is used again meets the request.
LEMMA ReusableMeets ==
  ASSUME KInv, NEW r \in Waiting, Reusable(r), RecentStart(Projected(r)) > 0
  PROVE  Meets(Ahead(r, ledger[r.thread]), snaps[r.thread])
<1>1. PICK t : t = r.thread
  OBVIOUS
<1>2. snaps[t] # <<>> /\ WithSnapshot(Projected(r), Latest(t))
  BY <1>1 DEF Reusable
<1>3. Latest(t) = Top(snaps[t]) /\ Projected(r) = Ahead(r, ledger[t])
  BY <1>1, LatestIsTop, ProjectedIs
<1> QED BY <1>1, <1>2, <1>3 DEF Meets

\* What a request that is not idle and whose thread is there has to go on from.
LEMMA RequestStands ==
  ASSUME KInv, NEW q \in Requests, request[q].at # "idle", thread[request[q].thread] = "live"
  PROVE  /\ request[q] \in Waiting /\ request[q].thread \in Threads
         /\ Stands(request[q], ledger[request[q].thread], snaps[request[q].thread])
<1>1. request[q] # Idle
  BY DEF Idle
<1> QED BY <1>1, RequestKnown

LEMMA ReuseKeeps ==
  ASSUME KInv, IInv', NEW q \in Requests, Reuse(q)
  PROVE  KInv'
<1>1. PICK r : r = request[q]
  OBVIOUS
<1>2. PICK t : t = r.thread
  OBVIOUS
<1>3. PICK seen : seen = IF snaps[t] = <<>> THEN 0 ELSE Latest(t).last
  OBVIOUS
<1>4. PICK start : start = RecentStart(Projected(r))
  OBVIOUS
<1>5. /\ r.at = "loaded" /\ thread[t] = "live"
      /\ \/ Reusable(r) /\ Goes(q, Prepared(r))
         \/ /\ ~Reusable(r) /\ Summarisable(r)
            /\ Goes(q, [r EXCEPT !.at = "summarising", !.seen = seen, !.end = start])
  BY <1>1, <1>2, <1>3, <1>4 DEF Reuse
<1>6. r \in Waiting /\ t \in Threads /\ Stands(r, ledger[t], snaps[t])
  BY <1>1, <1>2, <1>5, RequestStands
<1>7. /\ r.rev <= Len(ledger[t]) /\ start > 0
      /\ start = RecentStart(Ahead(r, ledger[t])) /\ Projected(r) = Ahead(r, ledger[t])
  BY <1>2, <1>4, <1>5, <1>6, ProjectedIs DEF Stands
<1>8. CASE Reusable(r) /\ Goes(q, Prepared(r))
  <2>1. Meets(Ahead(r, ledger[t]), snaps[t])
    BY <1>2, <1>4, <1>6, <1>7, <1>8, ReusableMeets
  <2>2. Stands(Prepared(r), ledger[t], snaps[t]) /\ Ready(Prepared(r), ledger[t], snaps[t])
    BY <1>6, <2>1, PreparedStands
  <2>3. PICK w : w = Prepared(r)
    OBVIOUS
  <2>4. w \in Waiting /\ w.thread = t
    BY <1>2, <1>6, <2>3, PreparedIs
  <2>5. Goes(q, w) /\ Stands(w, ledger[t], snaps[t]) /\ Ready(w, ledger[t], snaps[t])
    BY <1>8, <2>2, <2>3
  <2> QED BY <1>5, <2>4, <2>5, GoesKeeps
<1>9. CASE /\ ~Reusable(r) /\ Summarisable(r)
           /\ Goes(q, [r EXCEPT !.at = "summarising", !.seen = seen, !.end = start])
  <2>1. PICK w : w = [r EXCEPT !.at = "summarising", !.seen = seen, !.end = start]
    OBVIOUS
  <2>2. /\ ledger[t] \in Seq(Message) /\ Len(ledger[t]) \in Nat
    BY <1>6, ThreadKnown
  <2>3. start \in Nat /\ start <= r.rev /\ r.rev \in Nat
    BY <1>6, <1>7, <2>2, AheadIs, WaitingTypes
  <2>4. /\ seen \in Nat /\ seen < start /\ (seen > 0 => snaps[t] # <<>>)
        /\ snaps[t] # <<>> =>
             /\ seen = Top(snaps[t]).last
             /\ ~WithSnapshot(Ahead(r, ledger[t]), Top(snaps[t]))
    <3>1. CASE snaps[t] = <<>>
      BY <1>3, <1>7, <2>3, <3>1
    <3>2. CASE snaps[t] # <<>>
      <4>1. Latest(t) = Top(snaps[t]) /\ seen = Top(snaps[t]).last
        BY <1>3, <3>2, LatestIsTop
      <4>2. Latest(t).last < start
        BY <1>2, <1>4, <1>9, <3>2 DEF Summarisable
      <4>3. seen \in Nat
        <5>1. Top(snaps[t]).last \in 1 .. Revision(t)
          BY <1>6, <3>2, TopKnown
        <5> QED BY <4>1, <5>1
      <4>4. Latest(t).last <= r.rev
        BY <2>3, <4>1, <4>2, <4>3
      <4>5. ~WithSnapshot(Projected(r), Latest(t))
        BY <1>2, <1>9, <3>2, <4>4 DEF Reusable
      <4> QED BY <1>7, <3>2, <4>1, <4>2, <4>3, <4>5
    <3> QED BY <3>1, <3>2
  <2>5. /\ w \in Waiting /\ w.thread = t /\ w.at = "summarising" /\ w.id = r.id
        /\ w.rev = r.rev /\ w.seen = seen /\ w.end = start
    BY <1>2, <1>6, <2>1, <2>3, <2>4 DEF Waiting
  <2>6. Ahead(w, ledger[t]) = Ahead(r, ledger[t])
    BY <2>5, AheadOf
  <2>7. Longing(w, ledger[t], snaps[t])
    <3>1. snaps[t] # <<>> => seen <= Top(snaps[t]).last
      BY <2>4
    <3> QED BY <1>7, <2>4, <2>5, <2>6, <3>1 DEF Longing
  <2>8. Stands(w, ledger[t], snaps[t]) /\ Ready(w, ledger[t], snaps[t])
    BY <1>7, <2>5, <2>6, <2>7 DEF Stands, Ready
  <2>9. Goes(q, w)
    BY <1>9, <2>1
  <2> QED BY <1>5, <2>5, <2>8, <2>9, GoesKeeps
<1> QED BY <1>5, <1>8, <1>9

LEMMA RacedKeeps ==
  ASSUME KInv, IInv', NEW q \in Requests, Raced(q)
  PROVE  KInv'
<1>1. PICK r : r = request[q]
  OBVIOUS
<1>2. PICK t : t = r.thread
  OBVIOUS
<1>3. r.at = "raced" /\ thread[t] = "live" /\ Reusable(r) /\ Goes(q, Prepared(r))
  BY <1>1, <1>2 DEF Raced
<1>4. r \in Waiting /\ t \in Threads /\ Stands(r, ledger[t], snaps[t])
  BY <1>1, <1>2, <1>3, RequestStands
<1>5. RecentStart(Projected(r)) > 0
  BY <1>2, <1>3, <1>4, ProjectedIs DEF Stands
<1>6. Meets(Ahead(r, ledger[t]), snaps[t])
  BY <1>2, <1>3, <1>4, <1>5, ReusableMeets
<1>7. Stands(Prepared(r), ledger[t], snaps[t]) /\ Ready(Prepared(r), ledger[t], snaps[t])
  BY <1>4, <1>6, PreparedStands
<1>8. PICK w : w = Prepared(r)
  OBVIOUS
<1>9. w \in Waiting /\ w.thread = t
  BY <1>2, <1>4, <1>8, PreparedIs
<1>10. Goes(q, w) /\ Stands(w, ledger[t], snaps[t]) /\ Ready(w, ledger[t], snaps[t])
  BY <1>3, <1>7, <1>8
<1> QED BY <1>3, <1>9, <1>10, GoesKeeps

\* A conflict: the request has to look at the snapshot another one wrote.
LEMMA ConflictKeeps ==
  ASSUME KInv, IInv', NEW q \in Requests, request[q].at = "summarising",
         thread[request[q].thread] = "live",
         Goes(q, [request[q] EXCEPT !.at = "raced", !.seen = 0, !.end = 0])
  PROVE  KInv'
<1>1. PICK r : r = request[q]
  OBVIOUS
<1>2. PICK t : t = r.thread
  OBVIOUS
<1>3. r \in Waiting /\ t \in Threads /\ Stands(r, ledger[t], snaps[t]) /\ r.at = "summarising"
  BY <1>1, <1>2, RequestStands
<1>4. PICK w : w = [r EXCEPT !.at = "raced", !.seen = 0, !.end = 0]
  OBVIOUS
<1>5. w \in Waiting /\ w.thread = t /\ w.at = "raced" /\ w.id = r.id /\ w.rev = r.rev
  <2>1. 0 \in Nat
    OBVIOUS
  <2> QED BY <1>2, <1>3, <1>4, <2>1 DEF Waiting
<1>6. Ahead(w, ledger[t]) = Ahead(r, ledger[t])
  BY <1>5, AheadOf
<1>7. Stands(w, ledger[t], snaps[t]) /\ Ready(w, ledger[t], snaps[t])
  BY <1>3, <1>5, <1>6 DEF Stands, Ready
<1>8. Goes(q, w) /\ thread[w.thread] = "live"
  BY <1>1, <1>2, <1>4, <1>5
<1> QED BY <1>5, <1>7, <1>8, GoesKeeps

-----------------------------------------------------------------------------
(* A prepared turn is written.                                             *)

LEMMA WholeList ==
  ASSUME NEW S, NEW list \in Seq(S), NEW n, n = Len(list)
  PROVE  SubSeq(list, 1, n) = list
<1> DEFINE all == SubSeq(list, 1, n)
<1>1. n \in Nat /\ \A i \in 1 .. n : list[i] \in S
  OBVIOUS
<1>2. 1 \in Int /\ n \in Int
  BY <1>1
<1>3. /\ all \in Seq(S)
      /\ Len(all) = IF 1 <= n THEN n - 1 + 1 ELSE 0
      /\ \A i \in 1 .. n - 1 + 1 : all[i] = list[1 + i - 1]
  BY <1>1, <1>2, SubSeqProperties
<1>4. n - 1 + 1 = n /\ (~(1 <= n) => n = 0) /\ \A i \in 1 .. n : 1 + i - 1 = i
  BY <1>1
<1> HIDE DEF all
<1>5. Len(all) = Len(list) /\ \A i \in 1 .. Len(all) : all[i] = list[i]
  BY <1>3, <1>4
<1>6. all = list
  BY <1>3, <1>5, SeqEqual
<1> QED BY <1>6 DEF all

LEMMA PersistKeeps ==
  ASSUME KInv, IInv', NEW q \in Requests, NEW g \in Gens, NEW a \in Ids, Persist(q, g, a)
  PROVE  KInv'
<1>1. PICK w : w = request[q]
  OBVIOUS
<1>2. PICK t, m, r : t = w.thread /\ m = w.id /\ r = w.rev
  OBVIOUS
<1>3. /\ w.at = "prepared" /\ StartTurn(UserKey, t, m, g, a, r, FALSE)
      /\ request' = [request EXCEPT ![q] = Idle] /\ overtaken' = overtaken \ {q}
      /\ exposed' = IF q \in overtaken THEN exposed \cup {t} ELSE exposed \ {t}
  BY <1>1, <1>2 DEF Persist, Leaves
<1>4. /\ thread[t] = "live" /\ current[t] = None /\ r = Revision(t)
      /\ ledger' = [ledger EXCEPT ![t] = Append(@, UserMessage(m, FALSE))]
      /\ thread' = thread /\ snaps' = snaps
  BY <1>3 DEF StartTurn, Appendable
<1>5. w # Idle
  BY <1>3 DEF Idle
<1>6. /\ w \in Waiting /\ t \in Threads /\ m \in Ids
      /\ Ready(w, ledger[t], snaps[t]) \/ q \in overtaken
  BY <1>1, <1>2, <1>4, <1>5, RequestKnown, WaitingTypes
<1>7. /\ IInv /\ TypeOK /\ ledger[t] \in Seq(Message) /\ Revision(t) \in Nat
      /\ Revision(t) = Len(ledger[t])
  BY <1>6, ThreadKnown
<1>8. ledger'[t] = Append(ledger[t], UserMessage(m, FALSE))
  BY <1>4, <1>6, <1>7 DEF TypeOK
<1>9. UserMessage(m, FALSE) \in Message
  BY <1>6, UserMessageIs
<1>10. Elsewhere(t)
  <2>1. r \in Revisions(t)
    BY <1>4, <1>7 DEF Revisions
  <2>2. UserKey \in Keys /\ FALSE \in BOOLEAN
    BY ClientAssumption
  <2> QED BY <1>3, <1>6, <1>7, <2>1, <2>2, TurnMoves DEF Stepped
<1>11. Rests(t)
  <2>1. Keeps(snaps[t], snaps'[t])
    BY <1>4 DEF Keeps
  <2> QED BY <1>4, <1>8, <1>9, <2>1 DEF Rests
<1>12. /\ \A u \in Threads : Rests(u)
       /\ \A u \in Threads \ {t} : Lingers(u)
  BY <1>10, <1>11, SameRests DEF Elsewhere
<1>13. /\ request' \in [Requests -> Waiting \cup {Idle}] /\ overtaken' \subseteq Requests
       /\ request'[q] = Idle /\ \A p \in Requests \ {q} : request'[p] = request[p]
  BY <1>3 DEF KInv
<1>14. Held(t)'
  <2>1. CASE q \in overtaken
    <3>1. t \in exposed'
      BY <1>3, <2>1
    <3> QED BY <3>1 DEF Held
  <2>2. CASE Ready(w, ledger[t], snaps[t])
    <3>1. Meets(Ahead(w, ledger[t]), snaps[t])
      BY <1>2, <1>3, <1>4, <1>7, <2>2 DEF Ready
    <3>2. SubSeq(ledger[t], 1, r) = ledger[t]
      BY <1>4, <1>7, WholeList
    <3>3. Ahead(w, ledger[t]) = ledger'[t]
      BY <1>2, <1>8, <3>2 DEF Ahead
    <3>4. Meets(ledger'[t], snaps'[t])
      BY <1>4, <3>1, <3>3
    <3> QED BY <3>4 DEF Held
  <2> QED BY <1>6, <2>1, <2>2
<1>15. ASSUME NEW u \in Threads
       PROVE  Behaved(u)' /\ Held(u)'
  <2>1. Behaved(u)'
    BY <1>12, BehavedStays
  <2>2. Held(u)'
    <3>1. CASE u = t
      BY <1>14, <3>1
    <3>2. CASE u # t
      <4>1. u \in exposed => u \in exposed'
        BY <1>3, <3>2
      <4> QED BY <1>12, <3>2, <4>1, HeldStays
    <3> QED BY <3>1, <3>2
  <2> QED BY <2>1, <2>2
<1>16. ASSUME NEW p \in Requests, request'[p] # Idle
       PROVE  Placed(p)'
  <2>1. p # q /\ request[p] # Idle /\ request'[p] = request[p]
    BY <1>13, <1>16
  <2>2. Rests(request[p].thread)
    BY <1>12, <2>1, RequestKnown
  <2>3. p \in overtaken => p \in overtaken'
    BY <1>3, <2>1
  <2> QED BY <2>1, <2>2, <2>3, PlacedStays
<1> QED BY <1>13, <1>15, <1>16 DEF KInv

-----------------------------------------------------------------------------
(* A summary is written, or found written.                                 *)

\* What is known when the summarizer has answered.
LEMMA AnsweredIs ==
  ASSUME KInv, NEW q \in Requests, NEW text \in Texts, Compact(q, text),
         NEW w, w = request[q], NEW t, t = w.thread, NEW k, k = w.end
  PROVE  /\ w \in Waiting /\ t \in Threads /\ text \in Nat \ {0} /\ thread[t] = "live"
         /\ w.at = "summarising" /\ Stands(w, ledger[t], snaps[t]) /\ Longing(w, ledger[t], snaps[t])
         /\ k \in 1 .. Revision(t) /\ k \in Nat /\ k \in Snaps /\ k \in Keys
         /\ k <= w.rev /\ w.rev \in Nat /\ w.rev <= Revision(t)
         /\ k = RecentStart(Ahead(w, ledger[t])) /\ k > 0
         /\ Fits(Ahead(w, ledger[t]), k, text)
<1>1. w.at = "summarising" /\ thread[t] = "live" /\ Fits(Projected(w), k, text)
  BY DEF Compact
<1>2. w \in Waiting /\ t \in Threads /\ Stands(w, ledger[t], snaps[t])
  BY <1>1, RequestStands
<1>3. Longing(w, ledger[t], snaps[t]) /\ w.rev <= Len(ledger[t])
  BY <1>1, <1>2 DEF Stands
<1>4. k \in 1 .. Revision(t) /\ k \in Nat /\ k \in Snaps /\ k \in Keys /\ k <= w.rev
  BY <1>1, EndKnown DEF Idle
<1>5. text \in Nat \ {0}
  BY TextAssumption, WeightAssumption
<1>6. k = RecentStart(Ahead(w, ledger[t])) /\ Fits(Ahead(w, ledger[t]), k, text)
  BY <1>1, <1>3, ProjectedIs DEF Longing
<1>7. w.rev \in Nat /\ w.rev <= Revision(t)
  BY <1>2, <1>3, WaitingTypes DEF Revision
<1> QED BY <1>1, <1>2, <1>3, <1>4, <1>5, <1>6, <1>7

\* With nothing behind what it loaded, a request asks for a summary up to the window
\* of the whole ledger, and no snapshot ends behind that.
LEMMA WindowKnown ==
  ASSUME KInv, NEW t \in Threads, NEW w \in Waiting, w.rev <= Revision(t), NEW m \in Ids
  PROVE  /\ RecentStart(Ahead(w, ledger[t])) <= RecentStart(Append(ledger[t], UserMessage(m, FALSE)))
         /\ RecentStart(Ahead(w, ledger[t])) \in Nat
         /\ RecentStart(Append(ledger[t], UserMessage(m, FALSE))) \in Nat
         /\ w.rev = Revision(t) =>
              Ahead(w, ledger[t]) = Append(ledger[t], UserMessage(w.id, FALSE))
<1>1. ledger[t] \in Seq(Message) /\ Revision(t) = Len(ledger[t]) /\ Revision(t) \in Nat
  BY ThreadKnown
<1> DEFINE front == SubSeq(ledger[t], 1, w.rev)
<1>2. /\ front \in Seq(Message) /\ Len(front) = w.rev
      /\ \A i \in 1 .. w.rev : front[i] = ledger[t][i]
      /\ RecentStart(Ahead(w, ledger[t])) \in Nat
  BY <1>1, AheadIs
<1>3. w.id \in Ids /\ UserMessage(m, FALSE) \in Message
  BY WaitingTypes, UserMessageIs
<1>4. RecentStart(Append(ledger[t], UserMessage(m, FALSE))) \in Nat
  BY <1>1, <1>3, WindowIsBehind
<1>5. RecentStart(Append(front, UserMessage(w.id, FALSE)))
        <= RecentStart(Append(ledger[t], UserMessage(m, FALSE)))
  <2> HIDE DEF front
  <2> QED BY <1>1, <1>2, <1>3, WindowMoves
<1>6. w.rev = Revision(t) => front = ledger[t]
  BY <1>1, WholeList
<1> QED BY <1>2, <1>4, <1>5, <1>6 DEF Ahead

\* The row a summary is written into.
Written(k, text) == [id |-> k, last |-> k, text |-> text]

\* A summary that ends where the window begins is all that is left out.
LEMMA WithWritten ==
  ASSUME NEW list, NEW k \in Nat, NEW text, NEW s, s.last = k, s.text = text,
         RecentStart(list) \in Nat, k <= RecentStart(list), Fits(list, k, text)
  PROVE  WithSnapshot(list, s)
<1>1. Least(s.last, RecentStart(list)) = k
  BY DEF Least
<1> QED BY <1>1 DEF WithSnapshot

\* The writer's own turn, while nothing is behind what it loaded.
LEMMA OwnMeets ==
  ASSUME KInv, NEW t \in Threads, NEW w \in Waiting, w.rev = Revision(t), NEW text \in Nat,
         NEW k \in Nat, k = RecentStart(Ahead(w, ledger[t])), k > 0,
         Fits(Ahead(w, ledger[t]), k, text),
         NEW sums, sums # <<>>, Top(sums).last = k, Top(sums).text = text
  PROVE  Meets(Ahead(w, ledger[t]), sums)
<1>1. WithSnapshot(Ahead(w, ledger[t]), Top(sums))
  BY WithWritten
<1> QED BY <1>1 DEF Meets

\* No snapshot ends behind the window of a request that loaded the whole ledger.
LEMMA TopIsBefore ==
  ASSUME KInv, NEW t \in Threads, NEW w \in Waiting, w.rev = Revision(t), snaps[t] # <<>>
  PROVE  Top(snaps[t]).last <= RecentStart(Ahead(w, ledger[t]))
<1>1. w.id \in Ids /\ Revision(t) \in Nat /\ w.rev <= Revision(t)
  BY WaitingTypes, ThreadKnown
<1>2. Ahead(w, ledger[t]) = Append(ledger[t], UserMessage(w.id, FALSE))
  BY <1>1, WindowKnown
<1>3. \A m \in Ids : Top(snaps[t]).last <= RecentStart(Append(ledger[t], UserMessage(m, FALSE)))
  BY TopKnown
<1> QED BY <1>1, <1>2, <1>3

\* The turns of the others: who could use the snapshot that is replaced can use the new
\* one, because the writer could not.
LEMMA OthersMeet ==
  ASSUME KInv, NEW t \in Threads, NEW w \in Waiting, Longing(w, ledger[t], snaps[t]),
         w.rev <= Revision(t), NEW k \in Nat, k = w.end, k > 0, k <= w.rev,
         NEW text \in Nat \ {0}, Fits(Ahead(w, ledger[t]), k, text),
         NEW s \in Sum, s = Written(k, text), s.last <= MaxMessages,
         \A i \in DOMAIN snaps[t] : snaps[t][i].id # s.id,
         snaps[t] # <<>> /\ Top(snaps[t]).last < k => w.seen = Top(snaps[t]).last,
         NEW v \in Waiting, v.rev = Revision(t), Meets(Ahead(v, ledger[t]), snaps[t])
  PROVE  Meets(Ahead(v, ledger[t]), Append(snaps[t], s))
<1> DEFINE mine == Ahead(w, ledger[t])
           yours == Ahead(v, ledger[t])
           new == Append(snaps[t], s)
           L == Top(snaps[t])
<1>1. s.id = k /\ s.last = k /\ s.text = text
  BY DEF Written
<1>2. Dated(snaps[t]) /\ ledger[t] \in Seq(Message) /\ Revision(t) = Len(ledger[t])
      /\ Revision(t) \in Nat
  BY ThreadKnown
<1>3. /\ new # <<>>
      /\ snaps[t] # <<>> /\ L.last < k => Top(new) = s
      /\ snaps[t] # <<>> /\ ~(L.last < k) => Top(new) = L
  <2>1. Dated(snaps[t]) /\ s.id = s.last /\ s.last = k
    BY <1>1, <1>2
  <2> QED BY <2>1, TopGrows
<1>4. CASE Fits(yours, 0, 0)
  BY <1>4 DEF Meets
<1>5. CASE RecentStart(yours) > 0 /\ snaps[t] # <<>> /\ WithSnapshot(yours, L)
  <2>1. CASE ~(L.last < k)
    BY <1>3, <1>5, <2>1 DEF Meets
  <2>2. CASE L.last < k
    <3>1. L.last \in 1 .. Revision(t) /\ L.text \in Nat \ {0}
      BY <1>5, TopKnown
    <3>2. L.last \in Nat /\ w.rev \in Nat /\ v.rev \in Nat /\ v.id \in Ids
      BY <1>2, <3>1, WaitingTypes
    <3>3. k = RecentStart(mine)
      BY DEF Longing
    <3>4. RecentStart(mine) <= RecentStart(yours) /\ RecentStart(yours) \in Nat
      <4>1. \A m \in Ids : RecentStart(mine) <= RecentStart(Append(ledger[t], UserMessage(m, FALSE)))
        BY WindowKnown
      <4>2. yours = Append(ledger[t], UserMessage(v.id, FALSE)) /\ RecentStart(yours) \in Nat
        <5>1. v.rev <= Revision(t) /\ v.id \in Ids /\ v.rev = Revision(t)
          BY <1>2, <3>2
        <5> QED BY <5>1, WindowKnown
      <4> QED BY <3>2, <4>1, <4>2
    <3>5. ~WithSnapshot(mine, L)
      BY <1>5, <2>2 DEF Longing
    <3>6. ~Fits(mine, L.last, L.text)
      <4>1. Least(L.last, RecentStart(mine)) = L.last
        BY <2>2, <3>2, <3>3 DEF Least
      <4> QED BY <3>5, <4>1 DEF WithSnapshot
    <3>7. Fits(yours, L.last, L.text)
      <4>1. Least(L.last, RecentStart(yours)) = L.last
        BY <2>2, <3>2, <3>3, <3>4 DEF Least
      <4> QED BY <1>5, <4>1 DEF WithSnapshot
    <3>8. /\ mine \in Seq(Message) /\ Len(mine) = w.rev + 1
          /\ \A i \in 1 .. w.rev : mine[i] = ledger[t][i]
      <4>1. w.rev <= Len(ledger[t])
        BY <1>2
      <4> QED BY <1>2, <4>1, AheadIs
    <3>9. /\ yours \in Seq(Message) /\ Len(yours) = v.rev + 1
          /\ \A i \in 1 .. v.rev : yours[i] = ledger[t][i]
      <4>1. v.rev <= Len(ledger[t])
        BY <1>2, <3>2
      <4> QED BY <1>2, <4>1, AheadIs
    <3> HIDE DEF mine, yours, L, new
    <3>10. /\ L.last <= k /\ k <= Len(mine) /\ Len(mine) <= Len(yours)
           /\ \A i \in 1 .. k : mine[i] = yours[i]
      <4>1. w.rev <= v.rev /\ k \in Nat /\ k <= w.rev
        BY <1>2, <3>2
      <4>2. L.last <= k /\ k <= Len(mine) /\ Len(mine) <= Len(yours)
        BY <2>2, <3>2, <3>8, <3>9, <4>1
      <4>3. ASSUME NEW i \in 1 .. k
            PROVE  mine[i] = yours[i]
        <5>1. i \in 1 .. w.rev /\ i \in 1 .. v.rev
          BY <3>2, <4>1
        <5> QED BY <3>8, <3>9, <5>1
      <4> QED BY <4>2, <4>3
    <3>11. Fits(mine, k, text)
      BY DEF mine
    <3>12. PICK start, x : start = L.last /\ x = L.text
      OBVIOUS
    <3>13. start \in Nat /\ x \in Nat \ {0} /\ start <= k
           /\ Fits(yours, start, x) /\ ~Fits(mine, start, x)
      BY <3>1, <3>2, <3>6, <3>7, <3>10, <3>12
    <3>14. Fits(yours, k, text)
      BY <3>8, <3>9, <3>10, <3>11, <3>13, ShorterTurn
    <3>15. WithSnapshot(yours, s)
      BY <1>1, <3>3, <3>4, <3>14, WithWritten
    <3> QED BY <1>3, <1>5, <2>2, <3>15 DEF Meets, yours, new, L
  <2> QED BY <2>1, <2>2
<1> QED BY <1>4, <1>5 DEF Meets

\* Who waits for a summary too goes on waiting: it has not seen the new one.
LEMMA LongingStays ==
  ASSUME NEW v \in Waiting, NEW list, NEW old, Dated(old), NEW s \in Sum, s.id = s.last, s.last > 0,
         s.last <= MaxMessages, \A i \in DOMAIN old : old[i].id # s.id,
         Longing(v, list, old)
  PROVE  Longing(v, list, Append(old, s))
<1> DEFINE new == Append(old, s)
<1>1. /\ new # <<>>
      /\ old = <<>> => Top(new) = s
      /\ old # <<>> /\ Top(old).last < s.last => Top(new) = s
      /\ old # <<>> /\ ~(Top(old).last < s.last) => Top(new) = Top(old)
  BY TopGrows
<1>2. v.seen \in Nat /\ s.last \in Nat
  BY WaitingTypes DEF Sum
<1>3. CASE old = <<>>
  <2>1. v.seen = 0 /\ Top(new) = s
    BY <1>1, <1>2, <1>3 DEF Longing
  <2>2. v.seen <= Top(new).last /\ v.seen # Top(new).last
    BY <1>2, <2>1
  <2> HIDE DEF new
  <2> QED BY <1>1, <2>2 DEF Longing, new
<1>4. CASE old # <<>>
  <2>1. /\ v.seen <= Top(old).last
        /\ v.seen = Top(old).last => ~WithSnapshot(Ahead(v, list), Top(old))
    BY <1>4 DEF Longing
  <2>2. Top(old).last \in Nat
    BY <1>4, TopIs, DatedRows
  <2>3. CASE Top(old).last < s.last
    <3>1. Top(new) = s
      BY <1>1, <1>4, <2>3
    <3>2. v.seen <= Top(new).last /\ v.seen # Top(new).last
      BY <1>2, <2>1, <2>2, <2>3, <3>1
    <3> HIDE DEF new
    <3> QED BY <1>1, <3>2 DEF Longing, new
  <2>4. CASE ~(Top(old).last < s.last)
    <3>1. Top(new) = Top(old)
      BY <1>1, <1>4, <2>4
    <3> HIDE DEF new
    <3> QED BY <1>1, <2>1, <3>1 DEF Longing, new
  <2> QED BY <2>3, <2>4
<1> QED BY <1>3, <1>4

\* The summary was written before: the rows stay, and the request is prepared.
LEMMA AgainKeeps ==
  ASSUME KInv, IInv', NEW q \in Requests, NEW text \in Texts, Compact(q, text),
         UNCHANGED rows, exposed' = exposed,
         request' = [request EXCEPT ![q] = Prepared(request[q])],
         overtaken \subseteq overtaken', overtaken' \subseteq Requests,
         \E i \in DOMAIN snaps[request[q].thread] :
           snaps[request[q].thread][i] = Written(request[q].end, text)
  PROVE  KInv'
<1>1. PICK w : w = request[q]
  OBVIOUS
<1>2. PICK t : t = w.thread
  OBVIOUS
<1>3. PICK k : k = w.end
  OBVIOUS
<1>4. /\ w \in Waiting /\ t \in Threads /\ text \in Nat \ {0} /\ thread[t] = "live"
      /\ Stands(w, ledger[t], snaps[t]) /\ k \in Nat /\ k > 0
      /\ k = RecentStart(Ahead(w, ledger[t])) /\ Fits(Ahead(w, ledger[t]), k, text)
  BY <1>1, <1>2, <1>3, AnsweredIs
<1>5. PICK i \in DOMAIN snaps[t] : snaps[t][i] = Written(k, text)
  BY <1>1, <1>2, <1>3
<1>6. /\ thread' = thread /\ ledger' = ledger /\ snaps' = snaps
      /\ \A u \in Threads : Rests(u) /\ Lingers(u)
  <2>1. \A u \in Threads : Same(u)
    BY DEF Same, rows
  <2> QED BY <2>1, SameRests DEF rows
<1>7. Prepared(w) \in Waiting /\ Prepared(w).thread = t /\ Prepared(w).at = "prepared"
      /\ Prepared(w).rev = w.rev /\ Prepared(w).id = w.id
  BY <1>2, <1>4, PreparedIs
<1>8. /\ request' \in [Requests -> Waiting \cup {Idle}]
      /\ request'[q] = Prepared(w) /\ \A p \in Requests \ {q} : request'[p] = request[p]
  BY <1>1, <1>7 DEF KInv
<1>9. \A u \in Threads : Behaved(u)' /\ Held(u)'
  BY <1>6, BehavedStays, HeldStays
<1>10. ASSUME NEW p \in Requests, request'[p] # Idle, p # q
       PROVE  Placed(p)'
  <2>1. request[p] # Idle /\ request'[p] = request[p]
    BY <1>8, <1>10
  <2>2. Rests(request[p].thread)
    BY <1>6, <2>1, RequestKnown
  <2> QED BY <2>1, <2>2, PlacedStays
<1>11. Stands(Prepared(w), ledger[t], snaps[t]) /\ Ready(Prepared(w), ledger[t], snaps[t])
  <2>1. ASSUME w.rev = Len(ledger[t])
        PROVE  Meets(Ahead(w, ledger[t]), snaps[t])
    <3>1. w.rev = Revision(t)
      BY <2>1 DEF Revision
    <3>2. snaps[t] # <<>> /\ snaps[t][i].last = k /\ snaps[t][i].text = text
      BY <1>5 DEF Written
    <3>3. Top(snaps[t]).last <= k
      BY <1>4, <3>1, <3>2, TopIsBefore
    <3>4. PICK j \in DOMAIN snaps[t] :
            /\ Top(snaps[t]) = snaps[t][j]
            /\ \A n \in DOMAIN snaps[t] : snaps[t][n].last <= Top(snaps[t]).last
      BY <1>4, <3>2, TopKnown
    <3>5. Dated(snaps[t]) /\ snaps[t][j].last \in Nat
      BY <1>4, ThreadKnown, DatedRows
    <3>6. snaps[t][j].last = snaps[t][i].last
      BY <1>4, <3>2, <3>3, <3>4, <3>5
    <3>7. j = i
      BY <3>5, <3>6 DEF Dated
    <3> QED BY <1>4, <3>1, <3>2, <3>4, <3>7, OwnMeets
  <2>2. Ahead(Prepared(w), ledger[t]) = Ahead(w, ledger[t])
    BY <1>7, AheadOf
  <2> QED BY <1>4, <1>7, <2>1, <2>2 DEF Stands, Ready
<1>12. Placed(q)'
  BY <1>4, <1>6, <1>7, <1>8, <1>11 DEF Placed
<1> QED BY <1>8, <1>9, <1>10, <1>12 DEF KInv

\* A new summary: what it does to its own thread.
LEMMA WrittenKeeps ==
  ASSUME KInv, IInv', NEW q \in Requests, NEW text \in Texts, Compact(q, text),
         CreateCompactionSnapshot(request[q].end, request[q].thread, request[q].end,
                                  request[q].end, text),
         exposed' = exposed,
         request' = [request EXCEPT ![q] = Prepared(request[q])],
         overtaken' = IF Overtakes(request[q]) THEN overtaken \cup Behind(request[q]) ELSE overtaken
  PROVE  KInv'
<1>1. PICK w : w = request[q]
  OBVIOUS
<1>2. PICK t : t = w.thread
  OBVIOUS
<1>3. PICK k : k = w.end
  OBVIOUS
<1>4. PICK s : s = Written(k, text)
  OBVIOUS
<1> DEFINE new == Append(snaps[t], s)
<1>5. /\ w \in Waiting /\ t \in Threads /\ text \in Nat \ {0} /\ thread[t] = "live"
      /\ w.at = "summarising" /\ Stands(w, ledger[t], snaps[t]) /\ Longing(w, ledger[t], snaps[t])
      /\ k \in 1 .. Revision(t) /\ k \in Nat /\ k \in Snaps /\ k \in Keys
      /\ k <= w.rev /\ w.rev \in Nat /\ w.rev <= Revision(t)
      /\ k = RecentStart(Ahead(w, ledger[t])) /\ k > 0
      /\ Fits(Ahead(w, ledger[t]), k, text)
  BY <1>1, <1>2, <1>3, AnsweredIs
<1>6. /\ IInv /\ TypeOK /\ Dated(snaps[t]) /\ Revision(t) \in Nat /\ Revision(t) = Len(ledger[t])
      /\ Revision(t) <= MaxMessages /\ MaxMessages \in Nat /\ ledger[t] \in Seq(Message)
  BY <1>5, ThreadKnown, BoundAssumption
<1>7. CreateCompactionSnapshot(k, t, k, k, text)
  BY <1>1, <1>2, <1>3
<1>8. /\ current[t] = None /\ \A i \in DOMAIN snaps[t] : snaps[t][i].id # k
      /\ thread' = thread /\ ledger' = ledger /\ current' = current
      /\ snaps' = [snaps EXCEPT ![t] = Append(@, Snapshot(Call(w, text)))]
  BY <1>2, <1>3, <1>7 DEF CreateCompactionSnapshot, Call
<1>9. Snapshot(Call(w, text)) = s
  BY <1>2, <1>3, <1>4, <1>5, CallIsMade DEF Written
<1>10. s \in Sum /\ s.id = k /\ s.last = k /\ s.text = text /\ s.id = s.last /\ s.last <= MaxMessages
  BY <1>4, <1>5, <1>6 DEF Written, Sum
<1>11. snaps'[t] = new
  BY <1>5, <1>6, <1>8, <1>9 DEF TypeOK
<1>12. \A i \in DOMAIN snaps[t] : snaps[t][i].id # s.id
  BY <1>8, <1>10
<1>13. /\ Dated(new) /\ new # <<>>
       /\ snaps[t] = <<>> => Top(new) = s
       /\ snaps[t] # <<>> /\ Top(snaps[t]).last < k => Top(new) = s
       /\ snaps[t] # <<>> /\ ~(Top(snaps[t]).last < k) =>
            Top(new) = Top(snaps[t]) /\ Top(snaps[t]).last > k
  <2>1. /\ Dated(new) /\ new # <<>>
        /\ snaps[t] = <<>> => Top(new) = s
        /\ snaps[t] # <<>> /\ Top(snaps[t]).last < s.last => Top(new) = s
        /\ snaps[t] # <<>> /\ ~(Top(snaps[t]).last < s.last) =>
              Top(new) = Top(snaps[t]) /\ Top(snaps[t]).last > s.last
    BY <1>6, <1>10, <1>12, TopGrows
  <2> HIDE DEF new
  <2> QED BY <1>10, <2>1
<1>14. \A u \in Threads \ {t} : Rests(u) /\ Lingers(u)
  <2>1. k \in Revisions(t)
    BY <1>5, <1>6 DEF Revisions
  <2>2. Elsewhere(t)
    BY <1>5, <1>6, <1>7, <2>1, CompactMoves DEF Stepped
  <2> QED BY <2>2, SameRests DEF Elsewhere
<1>15. /\ Prepared(w) \in Waiting /\ Prepared(w).thread = t /\ Prepared(w).at = "prepared"
       /\ Prepared(w).rev = w.rev /\ Prepared(w).id = w.id
  BY <1>2, <1>5, PreparedIs
<1>16. /\ request' \in [Requests -> Waiting \cup {Idle}]
       /\ request'[q] = Prepared(w) /\ \A p \in Requests \ {q} : request'[p] = request[p]
  BY <1>1, <1>15 DEF KInv
<1>17. overtaken' \subseteq Requests /\ overtaken \subseteq overtaken'
  BY DEF Behind, KInv
<1>18. Behaved(t)' /\ Held(t)'
  <2>1. Held(t)'
    BY <1>8 DEF Held
  <2>2. snaps[t] \in Seq(Sum)
    BY <1>6 DEF Dated
  <2>3. ASSUME NEW i \in DOMAIN new
        PROVE  /\ new[i].id = new[i].last /\ new[i].text \in Texts
               /\ \A m \in Ids : new[i].last <= RecentStart(Append(ledger[t], UserMessage(m, FALSE)))
    <3>1. CASE i \in DOMAIN snaps[t]
      <4>1. new[i] = snaps[t][i]
        BY <1>10, <2>2, <3>1, AppendProperties
      <4> QED BY <1>5, <3>1, <4>1 DEF KInv, Behaved
    <3>2. CASE i \notin DOMAIN snaps[t]
      <4>1. new[i] = s
        BY <1>10, <2>2, <2>3, <3>2, AppendProperties
      <4>2. \A m \in Ids : k <= RecentStart(Append(ledger[t], UserMessage(m, FALSE)))
        BY <1>5, WindowKnown
      <4> QED BY <1>10, <4>1, <4>2
    <3> QED BY <3>1, <3>2
  <2> HIDE DEF new
  <2>4. Behaved(t)'
    BY <1>8, <1>11, <2>3 DEF Behaved
  <2> QED BY <2>1, <2>4
<1>19. ASSUME NEW u \in Threads
       PROVE  Behaved(u)' /\ Held(u)'
  BY <1>14, <1>18, BehavedStays, HeldStays
<1>20. Placed(q)'
  <2>1. ASSUME w.rev = Len(ledger[t])
        PROVE  Meets(Ahead(w, ledger[t]), new)
    <3>1. w.rev = Revision(t)
      BY <1>6, <2>1
    <3>2. Top(new) = s
      <4>1. snaps[t] # <<>> => Top(snaps[t]).last <= k
        BY <1>5, <3>1, TopIsBefore
      <4>2. snaps[t] # <<>> => Top(snaps[t]).last \in Nat
        BY <1>6, TopIs, DatedRows
      <4> QED BY <1>5, <1>13, <4>1, <4>2
    <3> QED BY <1>5, <1>10, <1>13, <3>1, <3>2, OwnMeets
  <2>2. Ahead(Prepared(w), ledger[t]) = Ahead(w, ledger[t])
    BY <1>15, AheadOf
  <2> HIDE DEF new
  <2>3. Stands(Prepared(w), ledger[t], new) /\ Ready(Prepared(w), ledger[t], new)
    BY <1>5, <1>15, <2>1, <2>2 DEF Stands, Ready
  <2> QED BY <1>5, <1>8, <1>11, <1>15, <1>16, <2>3 DEF Placed
<1>21. ASSUME NEW p \in Requests, request'[p] # Idle, p # q
       PROVE  Placed(p)'
  <2>1. request[p] # Idle /\ request'[p] = request[p]
    BY <1>16, <1>21
  <2>2. PICK v : v = request[p]
    OBVIOUS
  <2>3. v \in Waiting /\ v.thread \in Threads
    BY <2>1, <2>2, RequestKnown
  <2>4. CASE v.thread # t
    <3>1. Rests(request[p].thread)
      BY <1>14, <2>2, <2>3, <2>4
    <3> QED BY <1>17, <2>1, <3>1, PlacedStays
  <2>5. CASE v.thread = t
    <3>1. Stands(v, ledger[t], snaps[t]) /\ (Ready(v, ledger[t], snaps[t]) \/ p \in overtaken)
      BY <1>5, <2>1, <2>2, <2>5, RequestKnown
    <3>2. v.at = "summarising" => Longing(v, ledger[t], new)
      <4>1. v.at = "summarising" => Longing(v, ledger[t], snaps[t])
        BY <3>1 DEF Stands
      <4>2. s.last > 0
        BY <1>5, <1>10
      <4> QED BY <1>6, <1>10, <1>12, <2>3, <4>1, <4>2, LongingStays
    <3>3. ASSUME v.at = "prepared", v.rev = Len(ledger[t]), p \notin overtaken'
          PROVE  Meets(Ahead(v, ledger[t]), new)
      <4>1. Meets(Ahead(v, ledger[t]), snaps[t])
        BY <1>17, <3>1, <3>3 DEF Ready
      <4>2. p \in Behind(w)
        BY <1>2, <2>2, <2>5, <3>3 DEF Behind
      <4>3. ~Overtakes(w)
        BY <1>1, <3>3, <4>2
      <4>4. snaps[t] # <<>> /\ Top(snaps[t]).last < k => w.seen = Top(snaps[t]).last
        <5>1. SUFFICES ASSUME snaps[t] # <<>>, Top(snaps[t]).last < k
                       PROVE  w.seen = Top(snaps[t]).last
          OBVIOUS
        <5>2. w.seen <= Top(snaps[t]).last /\ w.seen \in Nat
          BY <1>5, <5>1, WaitingTypes DEF Longing
        <5>3. Top(snaps[t]).last \in Nat
          BY <1>6, <5>1, TopIs, DatedRows
        <5>4. Latest(t) = Top(snaps[t])
          BY LatestIsTop
        <5>5. ~(w.seen < Top(snaps[t]).last)
          BY <1>2, <1>3, <4>3, <5>1, <5>4 DEF Overtakes
        <5> QED BY <5>2, <5>3, <5>5
      <4>5. v.rev = Revision(t)
        BY <1>6, <3>3
      <4> QED BY <1>3, <1>4, <1>5, <1>10, <1>12, <2>3, <4>1, <4>4, <4>5, OthersMeet
    <3> HIDE DEF new
    <3>4. Stands(v, ledger[t], new) /\ (Ready(v, ledger[t], new) \/ p \in overtaken')
      BY <3>1, <3>2, <3>3 DEF Stands, Ready
    <3>5. request'[p] = v
      BY <2>1, <2>2
    <3> QED BY <1>5, <1>8, <1>11, <2>5, <3>4, <3>5 DEF Placed
  <2> QED BY <2>4, <2>5
<1> QED BY <1>16, <1>17, <1>19, <1>20, <1>21 DEF KInv

LEMMA CompactKeeps ==
  ASSUME KInv, IInv', NEW q \in Requests, NEW text \in Texts, Compact(q, text)
  PROVE  KInv'
<1>1. PICK w : w = request[q]
  OBVIOUS
<1>2. PICK c : c = Call(w, text)
  OBVIOUS
<1>3. w.at = "summarising" /\ thread[w.thread] = "live"
  BY <1>1 DEF Compact
<1>4. \/ /\ \/ CreateCompactionSnapshot(w.end, w.thread, w.end, w.end, text)
            \/ Replay(c) \/ Recognise(c)
         /\ request' = [request EXCEPT ![q] = Prepared(w)]
         /\ overtaken' = IF Overtakes(w) THEN overtaken \cup Behind(w) ELSE overtaken
         /\ exposed' = exposed
      \/ Goes(q, [w EXCEPT !.at = "raced", !.seen = 0, !.end = 0])
  BY <1>1, <1>2 DEF Compact
<1>5. CASE Goes(q, [w EXCEPT !.at = "raced", !.seen = 0, !.end = 0])
  BY <1>1, <1>3, <1>5, ConflictKeeps
<1>6. CASE /\ CreateCompactionSnapshot(w.end, w.thread, w.end, w.end, text)
           /\ request' = [request EXCEPT ![q] = Prepared(w)]
           /\ overtaken' = IF Overtakes(w) THEN overtaken \cup Behind(w) ELSE overtaken
           /\ exposed' = exposed
  BY <1>1, <1>6, WrittenKeeps
<1>7. CASE /\ Replay(c) \/ Recognise(c)
           /\ request' = [request EXCEPT ![q] = Prepared(w)]
           /\ overtaken' = IF Overtakes(w) THEN overtaken \cup Behind(w) ELSE overtaken
           /\ exposed' = exposed
  <2>1. Effect(c) /\ UNCHANGED rows
    BY <1>7 DEF Replay, Recognise
  <2>2. /\ w.end \in Snaps /\ w.end \in Keys /\ w.end \in Nat /\ w.thread \in Threads /\ text \in Nat
    BY <1>1, AnsweredIs
  <2>3. /\ c.kind = "compact" /\ c.thread = w.thread
        /\ Snapshot(c) = [id |-> w.end, last |-> w.end, text |-> text]
    BY <1>2, <2>2, CallIsMade DEF CallIs
  <2>4. \E i \in DOMAIN snaps[w.thread] : snaps[w.thread][i] = Written(w.end, text)
    BY <2>1, <2>3 DEF Effect, Written
  <2>5. overtaken \subseteq overtaken' /\ overtaken' \subseteq Requests
    BY <1>7 DEF Behind, KInv
  <2> QED BY <1>1, <1>7, <2>1, <2>4, <2>5, AgainKeeps
<1> QED BY <1>4, <1>5, <1>6, <1>7

-----------------------------------------------------------------------------
(* The theorems.                                                           *)

LEMMA ContextStarts == ContextInit => KInv
<1> SUFFICES ASSUME ContextInit
             PROVE  KInv
  OBVIOUS
<1>1. IInv
  BY InitFine DEF ContextInit
<1>2. /\ request = [p \in Requests |-> Idle] /\ overtaken = {}
      /\ \A t \in Threads : snaps[t] = <<>> /\ current[t] = None
  BY DEF ContextInit, Init
<1>3. \A t \in Threads : Behaved(t) /\ Held(t)
  <2>1. \A t \in Threads : Held(t)
    BY <1>2 DEF Held
  <2>2. ASSUME NEW t \in Threads
        PROVE  Behaved(t)
    <3>1. DOMAIN snaps[t] = {}
      BY <1>2
    <3> QED BY <3>1 DEF Behaved
  <2> QED BY <2>1, <2>2
<1>4. \A p \in Requests : request[p] = Idle
  BY <1>2
<1>5. request \in [Requests -> Waiting \cup {Idle}]
  BY <1>2
<1> QED BY <1>1, <1>2, <1>3, <1>4, <1>5 DEF KInv

LEMMA ContextKeeps == KInv /\ [ContextNext]_contextVars => KInv'
<1> SUFFICES ASSUME KInv, [ContextNext]_contextVars
             PROVE  KInv'
  OBVIOUS
<1>1. IInv'
  BY StepsCall, NextFine DEF KInv
<1>2. CASE UNCHANGED contextVars
  <2>1. /\ vars' = vars /\ request' = request /\ overtaken' = overtaken /\ exposed' = exposed
    BY <1>2 DEF contextVars
  <2>2. \A u \in Threads : Rests(u) /\ Lingers(u)
    BY <2>1, UnchangedRests
  <2> QED BY <1>1, <2>1, <2>2, RestingKeeps
<1>3. ASSUME NEW q \in Requests, NEW t \in Threads, NEW m \in Ids, Load(q, t, m)
      PROVE  KInv'
  BY <1>1, <1>3, LoadKeeps
<1>4. ASSUME NEW q \in Requests, Reuse(q)
      PROVE  KInv'
  BY <1>1, <1>4, ReuseKeeps
<1>5. ASSUME NEW q \in Requests, Raced(q)
      PROVE  KInv'
  BY <1>1, <1>5, RacedKeeps
<1>6. ASSUME NEW q \in Requests, Abandon(q)
      PROVE  KInv'
  BY <1>1, <1>6, AbandonKeeps
<1>7. ASSUME NEW q \in Requests, NEW text \in Texts, Compact(q, text)
      PROVE  KInv'
  BY <1>1, <1>7, CompactKeeps
<1>8. ASSUME NEW q \in Requests, NEW g \in Gens, NEW a \in Ids, Persist(q, g, a)
      PROVE  KInv'
  BY <1>1, <1>8, PersistKeeps
<1>9. ASSUME NEW t \in Threads, RestOfServer(t)
      PROVE  KInv'
  <2>1. /\ \A u \in Threads : Rests(u) /\ Lingers(u)
        /\ request' = request /\ overtaken' = overtaken /\ exposed' = exposed
    BY <1>9, ServerRests
  <2> QED BY <1>1, <2>1, RestingKeeps
<1> QED BY <1>2, <1>3, <1>4, <1>5, <1>6, <1>7, <1>8, <1>9 DEF ContextNext

\* Whatever requests race, write late or are given up: what was measured stays true.
THEOREM ContextInductive == ContextSpec => []KInv
<1>1. ContextInit => KInv
  BY ContextStarts
<1>2. KInv /\ [ContextNext]_contextVars => KInv'
  BY ContextKeeps
<1> QED BY <1>1, <1>2, PTL DEF ContextSpec

\* All the coordinator does to the store are calls of the store (prepareForTurn).
THEOREM ContextImplementsLedger == ContextSpec => Spec
<1>1. ContextInit => Init
  BY DEF ContextInit
<1>2. KInv /\ [ContextNext]_contextVars => [Next]_vars
  BY StepsCall
<1> QED BY <1>1, <1>2, ContextInductive, PTL DEF ContextSpec, Spec

\* A turn that was accepted can be put together (assemble), with the exception of the
\* one whose request was overtaken by a late summary of another.
THEOREM TurnsAssemble == ContextSpec => []PreparedTurnAssembles
<1>1. KInv => PreparedTurnAssembles
  <2> SUFFICES ASSUME KInv, NEW t \in Threads, current[t] # None, t \notin exposed
               PROVE  Assembles(t)
    BY DEF PreparedTurnAssembles
  <2>1. Meets(ledger[t], snaps[t])
    BY DEF KInv, Held
  <2>2. CASE Fits(ledger[t], 0, 0)
    BY <2>2 DEF Assembles
  <2>3. CASE /\ RecentStart(ledger[t]) > 0 /\ snaps[t] # <<>>
             /\ WithSnapshot(ledger[t], Top(snaps[t]))
    <3>1. Latest(t) = Top(snaps[t])
      BY LatestIsTop
    <3>2. Revision(t) \in Nat /\ Top(snaps[t]).last \in 1 .. Revision(t)
      BY <2>3, ThreadKnown, TopKnown
    <3>3. Latest(t).last <= Revision(t)
      BY <3>1, <3>2
    <3> QED BY <2>3, <3>1, <3>3 DEF Assembles
  <2> QED BY <2>1, <2>2, <2>3 DEF Meets
<1> QED BY <1>1, ContextInductive, PTL

\* One thread, one step: the newest snapshot is never followed by a shorter one.
Covers(t) ==
  thread[t] = "live" /\ thread'[t] = "live" /\ snaps[t] # <<>>
    => snaps'[t] # <<>> /\ Latest(t)'.last >= Latest(t).last

LEMMA RestCovers ==
  ASSUME KInv, NEW t \in Threads, Rests(t)
  PROVE  Covers(t)
<1> SUFFICES ASSUME thread'[t] = "live", snaps[t] # <<>>
             PROVE  snaps'[t] # <<>> /\ Latest(t)'.last >= Latest(t).last
  BY DEF Covers
<1>1. snaps'[t] # <<>> /\ Top(snaps'[t]) = Top(snaps[t])
  BY DEF Rests, Keeps
<1>2. Latest(t) = Top(snaps[t]) /\ Latest(t)' = Top(snaps'[t])
  BY LatestIsTop, LatestIsTopNext
<1>3. Top(snaps[t]).last \in Nat
  BY ThreadKnown, TopIs, DatedRows
<1> QED BY <1>1, <1>2, <1>3

LEMMA CompactCovers ==
  ASSUME KInv, NEW q \in Requests, NEW text \in Texts, Compact(q, text), NEW u \in Threads
  PROVE  Covers(u)
<1>1. PICK w : w = request[q]
  OBVIOUS
<1>2. PICK t : t = w.thread
  OBVIOUS
<1>3. PICK k : k = w.end
  OBVIOUS
<1>4. PICK c : c = Call(w, text)
  OBVIOUS
<1>5. /\ t \in Threads /\ text \in Nat \ {0} /\ w \in Waiting
      /\ k \in 1 .. Revision(t) /\ k \in Nat /\ k \in Snaps /\ k \in Keys
  BY <1>1, <1>2, <1>3, AnsweredIs
<1>6. \/ CreateCompactionSnapshot(k, t, k, k, text) \/ UNCHANGED rows \/ UNCHANGED vars
  BY <1>1, <1>2, <1>3, <1>4 DEF Compact, Replay, Recognise, Goes
<1>7. CASE UNCHANGED rows \/ UNCHANGED vars
  <2>1. Same(u)
    BY <1>7 DEF Same, rows, vars
  <2> QED BY <2>1, SameRests, RestCovers
<1>8. CASE CreateCompactionSnapshot(k, t, k, k, text)
  <2>1. /\ IInv /\ TypeOK /\ Dated(snaps[t]) /\ Revision(t) \in Nat
        /\ Revision(t) <= MaxMessages /\ MaxMessages \in Nat
    BY <1>5, ThreadKnown, BoundAssumption
  <2>2. CASE u # t
    <3>1. k \in Revisions(t)
      BY <1>5, <2>1 DEF Revisions
    <3>2. Elsewhere(t)
      BY <1>5, <1>8, <2>1, <3>1, CompactMoves DEF Stepped
    <3>3. Same(u)
      BY <2>2, <3>2 DEF Elsewhere
    <3> QED BY <3>3, SameRests, RestCovers
  <2>3. CASE u = t
    <3>1. PICK s : s = Written(k, text)
      OBVIOUS
    <3>2. /\ \A i \in DOMAIN snaps[t] : snaps[t][i].id # k
          /\ snaps' = [snaps EXCEPT ![t] = Append(@, Snapshot(Call(w, text)))]
      BY <1>2, <1>3, <1>8 DEF CreateCompactionSnapshot, Call
    <3>3. Snapshot(Call(w, text)) = s
      BY <1>2, <1>3, <1>5, <3>1, CallIsMade DEF Written
    <3>4. s \in Sum /\ s.id = k /\ s.last = k /\ s.id = s.last /\ s.last <= MaxMessages
      BY <1>5, <2>1, <3>1 DEF Written, Sum
    <3>5. snaps'[t] = Append(snaps[t], s)
      BY <1>5, <2>1, <3>2, <3>3 DEF TypeOK
    <3>6. \A i \in DOMAIN snaps[t] : snaps[t][i].id # s.id
      BY <3>2, <3>4
    <3>7. /\ Append(snaps[t], s) # <<>>
          /\ snaps[t] # <<>> /\ Top(snaps[t]).last < s.last => Top(Append(snaps[t], s)) = s
          /\ snaps[t] # <<>> /\ ~(Top(snaps[t]).last < s.last) =>
               Top(Append(snaps[t], s)) = Top(snaps[t])
      BY <2>1, <3>4, <3>6, TopGrows
    <3>8. snaps[t] # <<>> => Top(snaps[t]).last \in Nat
      BY <2>1, TopIs, DatedRows
    <3>9. Latest(t) = Top(snaps[t]) /\ Latest(t)' = Top(snaps'[t])
      BY LatestIsTop, LatestIsTopNext
    <3>10. snaps[t] # <<>> => Latest(t)'.last >= Latest(t).last
      BY <1>5, <3>4, <3>5, <3>7, <3>8, <3>9
    <3> QED BY <2>3, <3>5, <3>7, <3>10 DEF Covers
  <2> QED BY <2>2, <2>3
<1> QED BY <1>6, <1>7, <1>8

LEMMA PersistRests ==
  ASSUME KInv, NEW q \in Requests, NEW g \in Gens, NEW a \in Ids, Persist(q, g, a),
         NEW u \in Threads
  PROVE  snaps'[u] = snaps[u]
BY DEF Persist, StartTurn

LEMMA StepCovers ==
  ASSUME KInv, [ContextNext]_contextVars, NEW u \in Threads
  PROVE  Covers(u)
<1>1. ASSUME vars' = vars
      PROVE  Covers(u)
  BY <1>1, UnchangedRests, RestCovers
<1>2. CASE UNCHANGED contextVars
  BY <1>1, <1>2 DEF contextVars
<1>3. ASSUME NEW q \in Requests, NEW t \in Threads, NEW m \in Ids, Load(q, t, m)
      PROVE  Covers(u)
  BY <1>1, <1>3 DEF Load, Goes
<1>4. ASSUME NEW q \in Requests, Reuse(q) \/ Raced(q) \/ Abandon(q)
      PROVE  Covers(u)
  BY <1>1, <1>4 DEF Reuse, Raced, Abandon, Goes
<1>5. ASSUME NEW q \in Requests, NEW text \in Texts, Compact(q, text)
      PROVE  Covers(u)
  BY <1>5, CompactCovers
<1>6. ASSUME NEW q \in Requests, NEW g \in Gens, NEW a \in Ids, Persist(q, g, a)
      PROVE  Covers(u)
  <2>1. snaps'[u] = snaps[u]
    BY <1>6, PersistRests
  <2>2. Latest(u) = Top(snaps[u]) /\ Latest(u)' = Top(snaps'[u])
    BY LatestIsTop, LatestIsTopNext
  <2>3. snaps[u] # <<>> => Top(snaps[u]).last \in Nat
    BY ThreadKnown, TopIs, DatedRows
  <2> QED BY <2>1, <2>2, <2>3 DEF Covers
<1>7. ASSUME NEW t \in Threads, RestOfServer(t)
      PROVE  Covers(u)
  BY <1>7, ServerRests, RestCovers
<1> QED BY <1>2, <1>3, <1>4, <1>5, <1>6, <1>7 DEF ContextNext

\* The newest snapshot of a thread is only ever replaced by one that ends later,
\* whoever writes, retries or cleans up (getLatestCompactionSnapshot).
THEOREM CoverageHolds == ContextSpec => CoverageNeverShrinks
<1>1. KInv /\ [ContextNext]_contextVars => \A t \in Threads : Covers(t)
  BY StepCovers
<1>2. KInv /\ [ContextNext]_contextVars =>
        [\A t \in Threads :
           /\ thread[t] = "live" /\ thread'[t] = "live" /\ snaps[t] # <<>>
           => snaps'[t] # <<>> /\ Latest(t)'.last >= Latest(t).last]_contextVars
  BY <1>1 DEF Covers
<1> QED BY <1>2, ContextInductive, PTL DEF ContextSpec, CoverageNeverShrinks
=============================================================================
