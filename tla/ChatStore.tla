------------------------------ MODULE ChatStore ------------------------------
(***************************************************************************)
(* One connection of DirectChatStore on a file other connections write to: *)
(* the ledger of ChatLedger and the cache of audited threads in front of   *)
(* its reads (chat-store.js:1085-1206).  Reading a thread costs an audit   *)
(* of all its rows, so the connection remembers which threads it audited,  *)
(* for as long as PRAGMA data_version says nobody else has committed.  A   *)
(* write goes around the cache and empties it.                             *)
(***************************************************************************)
EXTENDS ChatLedger

CONSTANT MaxCached  \* MAX_AUDITED_THREAD_CACHE_ENTRIES

ASSUME CacheAssumption == MaxCached \in Nat \ {0}

VARIABLES
  damaged,  \* the threads whose rows an outside writer has made inconsistent
  moved,    \* data_version differs from #auditDataVersion, null while nothing is cached
  audited   \* #auditedThreads, the least recently used first

cache == <<moved, audited>>
storeVars == <<vars, damaged, cache>>

\* Mutant: the cache is kept when another connection has committed.
CachedMutantForever == audited

\* What #auditThread may still trust.
Cached == IF moved THEN <<>> ELSE audited

\* Each thread of a read is moved to the end, or audited and put there, and the
\* least recently used ones beyond the limit are forgotten.
Touched(order) ==
  {Newest(others \o order, MaxCached) :
     others \in Thinned(Cached, {i \in DOMAIN Cached : Cached[i] \notin Range(order)})}

\* A read transaction over one thread, as getThread, getGeneration, listMessages,
\* getAttachment and getLatestCompactionSnapshot all run it; "late" is a commit of
\* another connection after the snapshot was pinned, seen by the check behind COMMIT.
Read(t, late) ==
  /\ thread[t] = "live"
  /\ t \in damaged => Contains(Cached, t)
  /\ audited' \in IF late THEN {<<>>} ELSE Touched(<<t>>)
  /\ moved' = FALSE
  /\ UNCHANGED <<vars, damaged>>

\* listThreads: every live thread passes the audit, in one transaction, or none is returned.
ListThreads(late) ==
  LET live == {t \in Threads : thread[t] = "live"}
  IN /\ live # {}
     /\ \A t \in live \cap damaged : Contains(Cached, t)
     /\ \E order \in SetToSeqs(live) :
          audited' \in IF late THEN {<<>>} ELSE Touched(order)
     /\ moved' = FALSE
     /\ UNCHANGED <<vars, damaged>>

\* The audit of a read fails: StorageCorruptionError, and the cache is dropped.
ReadFails(t) ==
  /\ thread[t] = "live" /\ t \in damaged /\ ~Contains(Cached, t)
  /\ audited' = <<>> /\ moved' = FALSE
  /\ UNCHANGED <<vars, damaged>>

\* Every mutation audits the thread it touches inside its transaction.
Write ==
  /\ \/ \E k \in Keys, t \in Threads \ damaged : Mutate(k, t) \/ Again(k, t)
     \/ \E t \in Threads \ damaged, g \in Gens : AppendDelta(t, g)
     \/ \E t \in Threads \ damaged : Maintain(t)
  /\ audited' = <<>> /\ moved' = FALSE
  /\ UNCHANGED damaged

\* Another connection commits: a call of its own, or rows no call would write.
Outside(t) ==
  /\ thread[t] = "live"
  /\ damaged' \in {damaged, damaged \cup {t}}
  /\ moved' = (audited # <<>>)
  /\ UNCHANGED <<vars, audited>>

StoreInit == Init /\ damaged = {} /\ moved = FALSE /\ audited = <<>>

StoreNext ==
  \/ \E t \in Threads, late \in BOOLEAN : Read(t, late)
  \/ \E late \in BOOLEAN : ListThreads(late)
  \/ \E t \in Threads : ReadFails(t) \/ Outside(t)
  \/ Write

StoreSpec == StoreInit /\ [][StoreNext]_storeVars

\* Whatever a read may return without looking at its rows passes the audit as
\* it is in the file now (#auditThread, 1103-1145): an outside commit, a write
\* and a late commit under a pinned snapshot all take the trust away in time.
NeverServesDamaged == \A t \in damaged : ~Contains(Cached, t)
=============================================================================
