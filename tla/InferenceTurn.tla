--------------------------- MODULE InferenceTurn ---------------------------
(***************************************************************************)
(* What the dispatch lease promises, without leases, fences or clocks: a   *)
(* generation is dispatched to the model at most once, at most one         *)
(* generation of the whole workstation is dispatched at a time, and a      *)
(* dispatch that was lost can only end as a failure or a cancellation.     *)
(***************************************************************************)
EXTENDS Integers

CONSTANTS Thread, Generation, ThreadOf

VARIABLES
  turn,  \* where every generation stands
  text   \* how many deltas it has

vars == <<turn, text>>

Ended == {"completed", "failed", "cancelled"}
Open == {"pending", "running", "lost"}

TypeOK ==
  /\ turn \in [Generation -> {"absent"} \cup Open \cup Ended]
  /\ text \in [Generation -> Nat]

Init ==
  /\ turn = [g \in Generation |-> "absent"]
  /\ text = [g \in Generation |-> 0]

\* One open generation per thread.
Begin(g) ==
  /\ turn[g] = "absent"
  /\ \A h \in Generation : ThreadOf[h] = ThreadOf[g] => turn[h] \notin Open
  /\ turn' = [turn EXCEPT ![g] = "pending"]
  /\ UNCHANGED text

\* A generation is dispatched once; whatever else was running is lost.
Dispatch(g) ==
  /\ turn[g] = "pending"
  /\ turn' = [h \in Generation |->
                IF h = g THEN "running"
                ELSE IF turn[h] = "running" THEN "lost" ELSE turn[h]]
  /\ UNCHANGED text

Lose(g) ==
  /\ turn[g] = "running"
  /\ turn' = [turn EXCEPT ![g] = "lost"]
  /\ UNCHANGED text

\* The dispatch writes; a pending generation only while it was never leased.
Write(g) ==
  /\ turn[g] \in {"pending", "running"}
  /\ text' = [text EXCEPT ![g] = @ + 1]
  /\ UNCHANGED turn

Complete(g) ==
  /\ turn[g] \in {"pending", "running"}
  /\ text[g] > 0
  /\ turn' = [turn EXCEPT ![g] = "completed"]
  /\ UNCHANGED text

GiveUp(g) ==
  /\ turn[g] \in Open
  /\ \E end \in {"failed", "cancelled"} : turn' = [turn EXCEPT ![g] = end]
  /\ UNCHANGED text

Next ==
  \E g \in Generation :
    Begin(g) \/ Dispatch(g) \/ Lose(g) \/ Write(g) \/ Complete(g) \/ GiveUp(g)

Spec == Init /\ [][Next]_vars
=============================================================================
