---------------------------- MODULE Conversation ----------------------------
(***************************************************************************)
(* What the Direct Chat ledger promises to whoever calls it, without keys, *)
(* receipts, cursors, clean-up or limits: a thread identifier is used for  *)
(* one conversation only, messages are only appended, a generation belongs *)
(* to one user message and is run once, an answer directly follows the     *)
(* message it answers, and nothing unresolved is ever forgotten.           *)
(***************************************************************************)
EXTENDS Integers, Sequences

CONSTANTS Threads, Ids, Gens

VARIABLES
  thread,  \* "unborn", "live" or "deleted"
  talk,    \* the messages of every thread
  turn     \* where every generation of every thread stands, and what it answers

vars == <<thread, talk, turn>>

Idle == [state |-> "absent", at |-> 0]

Running(t) == \E g \in Gens : turn[t][g].state = "running"
Said(t, m) == \E i \in DOMAIN talk[t] : talk[t][i].id = m
Heard(t) == \E g \in Gens : turn[t][g].state # "absent" /\ turn[t][g].at = Len(talk[t])
EndsWithUser(t) == talk[t] # <<>> /\ talk[t][Len(talk[t])].role = "user"

Init ==
  /\ thread = [t \in Threads |-> "unborn"]
  /\ talk = [t \in Threads |-> <<>>]
  /\ turn = [t \in Threads |-> [g \in Gens |-> Idle]]

Open(t) ==
  /\ thread[t] = "unborn"
  /\ thread' = [thread EXCEPT ![t] = "live"]
  /\ UNCHANGED <<talk, turn>>

\* A user message nobody has said before, while nothing is being answered.
Speak(t, m) ==
  /\ thread[t] = "live" /\ ~Running(t) /\ ~Said(t, m)
  /\ talk' = [talk EXCEPT ![t] = Append(@, [id |-> m, role |-> "user"])]

Say(t, m) == Speak(t, m) /\ UNCHANGED <<thread, turn>>

\* The message and the generation that answers it appear together.
Ask(t, m, g) ==
  /\ Speak(t, m)
  /\ turn[t][g].state = "absent"
  /\ turn' = [turn EXCEPT ![t][g] = [state |-> "running", at |-> Len(talk[t]) + 1]]
  /\ UNCHANGED thread

Begin(t, g) ==
  /\ thread[t] = "live" /\ ~Running(t) /\ EndsWithUser(t)
  /\ turn[t][g].state = "absent"
  /\ turn' = [turn EXCEPT ![t][g] = [state |-> "running", at |-> Len(talk[t])]]
  /\ UNCHANGED <<thread, talk>>

Answer(t, g, a) ==
  /\ turn[t][g] = [state |-> "running", at |-> Len(talk[t])]
  /\ EndsWithUser(t) /\ ~Said(t, a)
  /\ talk' = [talk EXCEPT ![t] = Append(@, [id |-> a, role |-> "assistant"])]
  /\ turn' = [turn EXCEPT ![t][g].state = "answered"]
  /\ UNCHANGED thread

Stop(t, g) ==
  /\ turn[t][g].state = "running"
  /\ turn' = [turn EXCEPT ![t][g].state = "stopped"]
  /\ UNCHANGED <<thread, talk>>

\* Only a conversation in which nothing is open can be forgotten, for good.
Forget(t) ==
  /\ thread[t] = "live" /\ ~Running(t)
  /\ EndsWithUser(t) => Heard(t)
  /\ thread' = [thread EXCEPT ![t] = "deleted"]
  /\ talk' = [talk EXCEPT ![t] = <<>>]
  /\ turn' = [turn EXCEPT ![t] = [g \in Gens |-> Idle]]

\* A call that was made before, a read, clean-up: nothing anybody sees changes.
Repeat == UNCHANGED vars

Next ==
  \/ Repeat
  \/ \E t \in Threads :
       \/ Open(t) \/ Forget(t)
       \/ \E m \in Ids : Say(t, m)
       \/ \E g \in Gens : Begin(t, g) \/ Stop(t, g)
       \/ \E g \in Gens, m \in Ids : Ask(t, m, g) \/ Answer(t, g, m)

Spec == Init /\ [][Next]_vars
=============================================================================
