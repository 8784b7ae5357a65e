------------------------- MODULE BrowserPageProofs -------------------------
(* Proofs about BrowserDelete and BrowserHandoff, two parts of the browser  *)
(* page that share no variable, for any number of revisions, tickets,       *)
(* drafts, accounts, releases and faults.                                   *)
(*                                                                          *)
(* The deletion: a ticket and all its requests carry one revision, at which *)
(* the page saw no turn run.  The conversation's revisions only grow, so a  *)
(* ticket that met a conflict names a revision that is over, and so do all  *)
(* its requests still in flight: they cannot delete any more.               *)
(*                                                                          *)
(* The handoff: an owed draft is in one place at a time, which the claim of *)
(* the URL, the kept record, the task and the composer tell (Owed), and the *)
(* rows of the other places are different ones (HandoffFine).               *)
EXTENDS BrowserDelete, BrowserHandoff, TLAPS

-----------------------------------------------------------------------------
(* The deletion of a conversation.                                          *)

Rows == [revision : Nat, running : BOOLEAN]
Remotes == [exists : BOOLEAN, revision : Nat, running : BOOLEAN, deleting : BOOLEAN]
Requests == [id : Nat, revision : Nat, attempt : Nat]
Reads == [valid : BOOLEAN, row : Rows \cup {Absent}]
Pairs == [id : Nat, revision : Nat]
Steps == {"idle", "confirm", "send", "sent", "refresh", "reconcile"}
Heard == {"none", "deleted", "absent", "unclear", "conflict", "refused", "signed out"}
Ops == [step : Steps, row : Rows \cup {Absent}, attempt : Nat, retained : BOOLEAN,
        refreshed : BOOLEAN, view : Nat, answer : Heard]

Typed ==
  /\ remote \in Remotes /\ calls \subseteq Requests
  /\ entry \in Rows \cup {Absent} /\ reading \in Reads \cup {Absent}
  /\ ticket \in Pairs \cup {Absent} /\ eraser \in Pairs \cup {Absent}
  /\ shown \in Nat /\ issued \in Nat /\ op \in Ops
  /\ agreed \subseteq Nat /\ stopped \subseteq Nat

(* A revision at which no turn runs, so far as the page could have read it. *)
Quiet(r) == r <= remote.revision /\ (r = remote.revision => ~remote.running)

(* A row the server listed at some time.                                    *)
Listed(row) == row.revision <= remote.revision /\ (~row.running => Quiet(row.revision))

Known ==
  /\ entry # Absent => Listed(entry)
  /\ reading # Absent /\ reading.row # Absent => Listed(reading.row)
  /\ op.step = "confirm" => op.row # Absent /\ ~op.row.running /\ ticket = Absent
  /\ shown # 0 => shown \in agreed

(* A ticket and all its requests carry one revision, seen without a turn.   *)
Sound(t) == t.id \in 1 .. issued /\ t.revision \in agreed /\ Quiet(t.revision)

Tickets ==
  /\ ticket # Absent => Sound(ticket)
  /\ op.step \in {"send", "sent", "refresh", "reconcile"} => ticket # Absent
  /\ op.step = "refresh" => op.answer = "conflict"
  /\ \A c \in calls : Sound(c) /\ (ticket # Absent /\ c.id = ticket.id => c.revision = ticket.revision)

(* A ticket given up, or about to be, names a revision that is over.        *)
Over ==
  kind = "chat" =>
    /\ \A c \in calls : c.id \in stopped => c.revision < remote.revision
    /\ op.step \in {"sent", "refresh"} /\ op.answer = "conflict" =>
         /\ ticket.revision < remote.revision
         /\ eraser # Absent => eraser.id # ticket.id
    /\ ticket # Absent => ticket.id \notin stopped
    /\ stopped \subseteq 1 .. issued
    /\ eraser # Absent => ~remote.exists /\ eraser.id <= issued

(* What was told, or is about to be, of a conversation that is gone.        *)
Gone ==
  /\ op.step = "sent" /\ op.answer \in {"deleted", "absent"} => ~remote.exists
  /\ told = "deleted" /\ kind = "chat" /\ reading # Absent /\ reading.valid => reading.row = Absent

IInv == Typed /\ Known /\ Tickets /\ Over /\ Gone /\ DeletionHonest

-----------------------------------------------------------------------------
(* Types: the fields of the records, and the records the steps build.       *)

(* The handler at rest.                                                     *)
LEMMA NoOpType ==
  /\ NoOp \in Ops /\ NoOp.step = "idle" /\ NoOp.answer = "none"
BY DEF NoOp, Ops, Steps, Heard, Rows

(* The fields of a handler's record.                                        *)
LEMMA OpFields ==
  ASSUME NEW o \in Ops
  PROVE  /\ o.step \in Steps /\ o.answer \in Heard /\ o.attempt \in Nat
         /\ o.row \in Rows \cup {Absent}
BY DEF Ops

(* The handler goes on to a step.                                           *)
LEMMA OpStepType ==
  ASSUME NEW o \in Ops, NEW s \in Steps
  PROVE  /\ [o EXCEPT !.step = s] \in Ops
         /\ [o EXCEPT !.step = s].step = s
         /\ [o EXCEPT !.step = s].answer = o.answer
BY DEF Ops

(* It refreshes its cursor for the view it met.                             *)
LEMMA OpViewType ==
  ASSUME NEW o \in Ops, NEW s \in Steps, NEW v \in Nat
  PROVE  /\ [o EXCEPT !.step = s, !.view = v] \in Ops
         /\ [o EXCEPT !.step = s, !.view = v].step = s
         /\ [o EXCEPT !.step = s, !.view = v].answer = o.answer
BY DEF Ops

(* It sends once more.                                                      *)
LEMMA OpAttemptType ==
  ASSUME NEW o \in Ops
  PROVE  /\ [o EXCEPT !.step = "send", !.attempt = 1] \in Ops
         /\ [o EXCEPT !.step = "send", !.attempt = 1].step = "send"
         /\ [o EXCEPT !.step = "send", !.attempt = 1].answer = o.answer
BY DEF Ops, Steps

(* It has sent, or sends again with a refreshed ticket.                     *)
LEMMA OpSendType ==
  ASSUME NEW o \in Ops
  PROVE  /\ [o EXCEPT !.step = "sent", !.answer = "none"] \in Ops
         /\ [o EXCEPT !.step = "sent", !.answer = "none"].step = "sent"
         /\ [o EXCEPT !.step = "sent", !.answer = "none"].answer = "none"
         /\ [o EXCEPT !.step = "send", !.attempt = 0, !.refreshed = TRUE] \in Ops
         /\ [o EXCEPT !.step = "send", !.attempt = 0, !.refreshed = TRUE].step = "send"
BY DEF Ops, Steps, Heard

(* It hears an answer.                                                      *)
LEMMA OpAnswerType ==
  ASSUME NEW o \in Ops, NEW a \in Heard
  PROVE  /\ [o EXCEPT !.answer = a] \in Ops
         /\ [o EXCEPT !.answer = a].step = o.step
         /\ [o EXCEPT !.answer = a].row = o.row
         /\ [o EXCEPT !.answer = a].answer = a
BY DEF Ops

(* The button was pressed: Delete, or Retry.                                *)
LEMMA OpPressType ==
  ASSUME NEW row \in Rows
  PROVE  /\ [NoOp EXCEPT !.step = "confirm", !.row = row, !.retained = FALSE] \in Ops
         /\ [NoOp EXCEPT !.step = "confirm", !.row = row, !.retained = FALSE].step = "confirm"
         /\ [NoOp EXCEPT !.step = "confirm", !.row = row, !.retained = FALSE].row = row
         /\ [NoOp EXCEPT !.step = "confirm", !.row = row, !.retained = FALSE].answer = "none"
         /\ [NoOp EXCEPT !.step = "send", !.row = row, !.retained = TRUE] \in Ops
         /\ [NoOp EXCEPT !.step = "send", !.row = row, !.retained = TRUE].step = "send"
         /\ [NoOp EXCEPT !.step = "send", !.row = row, !.retained = TRUE].row = row
         /\ [NoOp EXCEPT !.step = "send", !.row = row, !.retained = TRUE].answer = "none"
BY DEF NoOp, Ops, Heard, Steps

(* The fields of the conversation.                                          *)
LEMMA RemoteFields ==
  ASSUME NEW r \in Remotes
  PROVE  /\ r.exists \in BOOLEAN /\ r.revision \in Nat /\ r.running \in BOOLEAN
         /\ r.deleting \in BOOLEAN
BY DEF Remotes

(* The conversation is deleted, or its deletion has begun.                  *)
LEMMA RemoteUpdates ==
  ASSUME NEW r \in Remotes
  PROVE  /\ [r EXCEPT !.exists = FALSE] \in Remotes
         /\ ~[r EXCEPT !.exists = FALSE].exists
         /\ [r EXCEPT !.exists = FALSE].revision = r.revision
         /\ [r EXCEPT !.exists = FALSE].running = r.running
         /\ [r EXCEPT !.deleting = TRUE] \in Remotes
         /\ [r EXCEPT !.deleting = TRUE].exists = r.exists
         /\ [r EXCEPT !.deleting = TRUE].revision = r.revision
         /\ [r EXCEPT !.deleting = TRUE].running = r.running
BY DEF Remotes

(* The conversation after another page's turn starts or ends.               *)
Turned(r, running, revision) == [r EXCEPT !.running = running, !.revision = revision]

(* A turn only raises the revision.                                         *)
LEMMA TurnedType ==
  ASSUME NEW r \in Remotes, NEW b \in BOOLEAN, NEW n \in Nat
  PROVE  /\ Turned(r, b, n) \in Remotes
         /\ Turned(r, b, n).exists = r.exists
         /\ Turned(r, b, n).revision = n
BY DEF Remotes, Turned

(* The fields of rows, list reads, tickets and requests.                    *)
LEMMA RowFields ==
  /\ \A r \in Rows : r.revision \in Nat /\ r.running \in BOOLEAN
  /\ \A r \in Reads : r.valid \in BOOLEAN /\ r.row \in Rows \cup {Absent}
  /\ \A r \in Pairs : r.id \in Nat /\ r.revision \in Nat
  /\ \A r \in Requests : r.id \in Nat /\ r.revision \in Nat /\ r.attempt \in Nat
BY DEF Rows, Reads, Pairs, Requests

(* No record is Absent.                                                     *)
LEMMA Apart == Absent \notin Rows /\ Absent \notin Pairs /\ Absent \notin Reads
BY NullAssumption DEF Rows, Pairs, Reads

(* The server's row is what its conversation is.                            *)
LEMMA ListingType ==
  ASSUME remote \in Remotes
  PROVE  /\ Listing \in Rows \cup {Absent}
         /\ remote.exists <=> Listing # Absent
         /\ remote.exists => /\ Listing \in Rows
                             /\ Listing.revision = remote.revision
                             /\ Listing.running = remote.running
                             /\ Listed(Listing)
<1>1. Entry(remote.revision, remote.running) \in Rows
  BY RemoteFields DEF Entry, Rows
<1>2. /\ Entry(remote.revision, remote.running).revision = remote.revision
      /\ Entry(remote.revision, remote.running).running = remote.running
  BY DEF Entry
<1> QED BY <1>1, <1>2, Apart, RemoteFields DEF Listing, Listed, Quiet

(* What Voided leaves of a list read.                                       *)
LEMMA VoidedType ==
  ASSUME reading \in Reads \cup {Absent}
  PROVE  /\ Voided(reading) \in Reads \cup {Absent}
         /\ Voided(reading) = Absent <=> reading = Absent
         /\ reading # Absent => Voided(reading).row = reading.row
         /\ kind = "chat" /\ reading # Absent => ~Voided(reading).valid
<1>1. CASE reading = Absent \/ kind = "agent"
  BY <1>1 DEF Voided
<1>2. CASE reading # Absent /\ kind # "agent"
  <2>1. Voided(reading) = [reading EXCEPT !.valid = FALSE] /\ reading \in Reads
    BY <1>2 DEF Voided
  <2>2. Voided(reading) \in Reads /\ Voided(reading).row = reading.row /\ ~Voided(reading).valid
    BY <2>1 DEF Reads
  <2> QED BY <1>2, <2>2, Apart
<1> QED BY <1>1, <1>2

(* What a step may use of the types.                                        *)
LEMMA Fields ==
  ASSUME IInv
  PROVE  /\ remote.exists \in BOOLEAN /\ remote.revision \in Nat /\ remote.running \in BOOLEAN
         /\ entry # Absent => entry \in Rows /\ entry.revision \in Nat /\ entry.running \in BOOLEAN
         /\ reading # Absent => reading \in Reads /\ reading.row \in Rows \cup {Absent}
         /\ ticket # Absent => ticket \in Pairs /\ ticket.id \in Nat /\ ticket.revision \in Nat
         /\ \A c \in calls : c.id \in Nat /\ c.revision \in Nat
         /\ op.step \in Steps /\ op.answer \in Heard /\ op.attempt \in Nat
         /\ issued \in Nat /\ shown \in Nat
BY RemoteFields, RowFields, OpFields DEF IInv, Typed

-----------------------------------------------------------------------------
(* The server's steps.                                                      *)

(* What another page, the backend or a served request may do to the         *)
(* conversation: its revisions only grow, and it never comes back.          *)
Later ==
  /\ remote' \in Remotes
  /\ remote'.revision >= remote.revision
  /\ remote'.revision = remote.revision => remote'.running = remote.running
  /\ remote'.exists => remote.exists

(* A quiet revision stays quiet.                                            *)
LEMMA QuietLater ==
  ASSUME NEW r \in Nat, Quiet(r), Later, remote \in Remotes
  PROVE  Quiet(r)'
BY RemoteFields DEF Quiet, Later

(* Rows, tickets and requests that are sound stay so.                       *)
LEMMA KnownLater ==
  ASSUME IInv, Later, UNCHANGED <<kind, entry, reading, shown, ticket, issued, told, agreed, stopped>>,
         calls' \subseteq calls, op' \in Ops, op'.step = op.step, op'.row = op.row,
         op.step = "refresh" => op'.answer = op.answer
  PROVE  Known' /\ Tickets'
<1>1. \A r \in Rows : Listed(r) => Listed(r)'
  BY RowFields, QuietLater, RemoteFields DEF IInv, Typed, Listed, Later
<1>2. Known'
  BY <1>1, RowFields DEF IInv, Typed, Known
<1>3. \A t \in Pairs \cup Requests : Sound(t) => Sound(t)'
  BY RowFields, QuietLater DEF IInv, Typed, Sound
<1>4. Tickets'
  BY <1>3 DEF IInv, Typed, Tickets
<1> QED BY <1>2, <1>4

(* Other pages and the backend disturb nothing the page relies on.          *)
LEMMA OthersStep ==
  ASSUME IInv, Others
  PROVE  IInv'
<1>1. UNCHANGED <<kind, receipts, calls, entry, reading, shown, ticket, issued, op, told, agreed, stopped>>
  BY DEF Others, list, memory
<1>2. /\ Later /\ eraser' \in Pairs \cup {Absent}
      /\ eraser' # eraser => ~remote'.exists /\ eraser'.id = 0
  <2>1. /\ remote \in Remotes /\ eraser \in Pairs \cup {Absent}
        /\ remote.revision \in Nat /\ remote.revision + 1 \in Nat /\ remote.exists \in BOOLEAN
        /\ TRUE \in BOOLEAN /\ FALSE \in BOOLEAN
    BY RemoteFields DEF IInv, Typed
  <2>2. CASE TurnStarts
    <3>1. remote' = Turned(remote, TRUE, remote.revision + 1) /\ eraser' = eraser
      BY <2>2 DEF TurnStarts, Turned
    <3>2. /\ remote' \in Remotes /\ remote'.exists = remote.exists
          /\ remote'.revision = remote.revision + 1 /\ eraser' = eraser
      BY <2>1, <3>1, TurnedType
    <3> QED BY <2>1, <3>2 DEF Later
  <2>3. CASE TurnEnds
    <3>1. remote' = Turned(remote, FALSE, remote.revision + 1) /\ eraser' = eraser
      BY <2>3 DEF TurnEnds, Turned
    <3>2. /\ remote' \in Remotes /\ remote'.exists = remote.exists
          /\ remote'.revision = remote.revision + 1 /\ eraser' = eraser
      BY <2>1, <3>1, TurnedType
    <3> QED BY <2>1, <3>2 DEF Later
  <2>4. CASE DeletedElsewhere
    <3>1. /\ remote' \in Remotes /\ ~remote'.exists /\ remote'.revision = remote.revision
          /\ remote'.running = remote.running
      BY <2>1, <2>4, RemoteUpdates DEF DeletedElsewhere
    <3>2. eraser' \in Pairs /\ eraser'.id = 0
      BY <2>1, <2>4 DEF DeletedElsewhere, Pairs
    <3> QED BY <2>1, <3>1, <3>2 DEF Later
  <2>5. CASE DeletionCompletes
    <3>1. /\ remote' \in Remotes /\ ~remote'.exists /\ remote'.revision = remote.revision
          /\ remote'.running = remote.running /\ eraser' = eraser
      BY <2>1, <2>5, RemoteUpdates DEF DeletionCompletes
    <3> QED BY <2>1, <3>1 DEF Later
  <2> QED BY <2>2, <2>3, <2>4, <2>5 DEF Others
<1>3. Typed'
  BY <1>1, <1>2 DEF IInv, Typed, Later
<1>4. Known' /\ Tickets'
  <2>1. op' \in Ops
    BY <1>1 DEF IInv, Typed
  <2> QED BY <1>1, <1>2, <2>1, KnownLater
<1>5. Over'
  <2>1. ticket # Absent => ticket.id > 0
    BY Fields DEF IInv, Tickets, Sound
  <2>2. op.step \in {"sent", "refresh"} => ticket # Absent
    BY DEF IInv, Tickets
  <2>3. remote'.revision \in Nat /\ remote'.revision >= remote.revision /\ (remote'.exists => remote.exists)
    BY <1>2, RemoteFields DEF Later
  <2>4. eraser' # eraser =>
          ~remote'.exists /\ eraser'.id <= issued /\ (ticket # Absent => eraser'.id # ticket.id)
    BY <1>2, <2>1, Fields
  <2>5. remote'.exists \in BOOLEAN
    BY <1>2, RemoteFields DEF Later
  <2> SUFFICES ASSUME kind = "chat" PROVE Over'
    BY <1>1 DEF Over
  <2>6. (\A c \in calls : c.id \in stopped => c.revision < remote.revision)'
    BY <1>1, <2>3, Fields DEF IInv, Over
  <2>7. (op.step \in {"sent", "refresh"} /\ op.answer = "conflict" =>
           ticket.revision < remote.revision /\ (eraser # Absent => eraser.id # ticket.id))'
    BY <1>1, <2>2, <2>3, <2>4, Fields DEF IInv, Over
  <2>8. (eraser # Absent => ~remote.exists /\ eraser.id <= issued)'
    BY <1>1, <2>3, <2>4 DEF IInv, Over
  <2> QED BY <1>1, <2>6, <2>7, <2>8 DEF IInv, Over
<1>6. Gone'
  <2>1. remote'.exists => remote.exists
    BY <1>2 DEF Later
  <2> QED BY <1>1, <2>1 DEF IInv, Gone
<1>7. DeletionHonest'
  <2>1. kind = "chat" => 0 \notin stopped
    <3>1. kind = "chat" => stopped \subseteq 1 .. issued
      BY DEF IInv, Over
    <3> QED BY <3>1, Fields
  <2>2. remote'.exists => remote.exists
    BY <1>2 DEF Later
  <2>3. Truthful'
    BY <1>1, <2>2 DEF IInv, DeletionHonest, Truthful
  <2>4. Consented' /\ StopIsFinal'
    BY <1>1, <1>2, <2>1 DEF IInv, DeletionHonest, Consented, StopIsFinal
  <2> QED BY <2>3, <2>4 DEF DeletionHonest
<1> QED BY <1>3, <1>4, <1>5, <1>6, <1>7 DEF IInv

(* A served request answers the handler only if it is the handler's; it     *)
(* deletes a Chat conversation only at the revision it carries.             *)
LEMMA ServeStep ==
  ASSUME IInv, Serve
  PROVE  IInv'
<1> DEFINE heard(c, a) == IF Awaits /\ c = Call THEN [op EXCEPT !.answer = a] ELSE op
<1>1. PICK c \in calls :
        /\ calls' = calls \ {c}
        /\ UNCHANGED <<kind, entry, reading, shown, ticket, issued, told, agreed, stopped>>
        /\ \/ /\ Verdict(c) = "deletes"
              /\ \/ remote' = [remote EXCEPT !.exists = FALSE] /\ op' = heard(c, "deleted")
                 \/ /\ kind = "agent"
                    /\ remote' = [remote EXCEPT !.deleting = TRUE] /\ op' = heard(c, "unclear")
              /\ eraser' = [id |-> c.id, revision |-> remote.revision]
           \/ /\ Verdict(c) # "deletes" /\ op' = heard(c, Verdict(c))
              /\ UNCHANGED <<remote, eraser>>
  BY DEF Serve, list, memory
<1>2. /\ Sound(c) /\ c.id \in Nat /\ c.revision \in Nat
      /\ ticket # Absent /\ c.id = ticket.id => c.revision = ticket.revision
  BY Fields DEF IInv, Tickets
<1>3. \A a \in Heard :
        /\ heard(c, a) \in Ops /\ heard(c, a).step = op.step /\ heard(c, a).row = op.row
        /\ op.step = "refresh" => heard(c, a).answer = op.answer
        /\ \/ heard(c, a).answer = op.answer
           \/ heard(c, a).answer = a /\ op.step = "sent" /\ c.revision = ticket.revision
  <2>1. op \in Ops
    BY DEF IInv, Typed
  <2>2. c = Call => c.revision = ticket.revision
    BY DEF Call
  <2> QED BY <2>1, <2>2, OpAnswerType DEF Awaits
<1>4. "deleted" \in Heard /\ "unclear" \in Heard /\ "absent" \in Heard /\ "conflict" \in Heard
  BY DEF Heard
<1> HIDE DEF heard
<1>5. ASSUME /\ Verdict(c) = "deletes"
             /\ \/ remote' = [remote EXCEPT !.exists = FALSE] /\ op' = heard(c, "deleted")
                \/ /\ kind = "agent"
                   /\ remote' = [remote EXCEPT !.deleting = TRUE] /\ op' = heard(c, "unclear")
             /\ eraser' = [id |-> c.id, revision |-> remote.revision]
      PROVE  IInv'
  <2>1. remote.exists /\ ~remote.running /\ (kind = "chat" => c.revision = remote.revision)
    BY <1>5 DEF Verdict
  <2>2. /\ Later /\ remote'.revision = remote.revision
        /\ kind = "chat" => ~remote'.exists
        /\ \/ op' = heard(c, "deleted") /\ ~remote'.exists
           \/ op' = heard(c, "unclear")
    <3>1. remote \in Remotes
      BY DEF IInv, Typed
    <3>2. CASE remote' = [remote EXCEPT !.exists = FALSE] /\ op' = heard(c, "deleted")
      <4>1. /\ remote' \in Remotes /\ ~remote'.exists /\ remote'.revision = remote.revision
            /\ remote'.running = remote.running
        BY <3>1, <3>2, RemoteUpdates
      <4> QED BY <3>1, <3>2, <4>1, RemoteFields DEF Later
    <3>3. CASE kind = "agent" /\ remote' = [remote EXCEPT !.deleting = TRUE] /\ op' = heard(c, "unclear")
      <4>1. /\ remote' \in Remotes /\ remote'.exists = remote.exists
            /\ remote'.revision = remote.revision /\ remote'.running = remote.running
        BY <3>1, <3>3, RemoteUpdates
      <4> QED BY <3>1, <3>3, <4>1, RemoteFields DEF Later
    <3> QED BY <1>5, <3>2, <3>3
  <2>3. /\ op' \in Ops /\ op'.step = op.step /\ op'.row = op.row
        /\ op.step = "refresh" => op'.answer = op.answer
        /\ \/ op'.answer \in {op.answer, "unclear"}
           \/ op'.answer = "deleted" /\ ~remote'.exists
    <3>1. CASE op' = heard(c, "deleted") /\ ~remote'.exists
      BY <1>3, <1>4, <3>1
    <3>2. CASE op' = heard(c, "unclear")
      BY <1>3, <1>4, <3>2
    <3> QED BY <2>2, <3>1, <3>2
  <2>4. eraser' \in Pairs /\ eraser' # Absent /\ eraser'.id = c.id /\ eraser'.revision = remote.revision
    BY <1>2, <1>5, Fields, Apart DEF Pairs
  <2>5. Typed'
    BY <1>1, <2>2, <2>3, <2>4 DEF IInv, Typed, Later
  <2>6. Known' /\ Tickets'
    BY <1>1, <2>2, <2>3, KnownLater
  <2>7. Over'
    <3> SUFFICES ASSUME kind = "chat" PROVE Over'
      BY <1>1 DEF Over
    <3>1. c.revision = remote.revision /\ ~remote'.exists
      BY <2>1, <2>2
    <3>2. (op.step \in {"sent", "refresh"} /\ op.answer = "conflict" =>
             ticket.revision < remote.revision /\ (eraser # Absent => eraser.id # ticket.id))'
      <4> SUFFICES ASSUME op.step \in {"sent", "refresh"}, op.answer = "conflict"
                   PROVE  ticket.revision < remote.revision /\ c.id # ticket.id
        BY <1>1, <2>2, <2>3, <2>4
      <4>1. ticket # Absent /\ ticket.revision < remote.revision
        BY DEF IInv, Tickets, Over
      <4> QED BY <1>2, <3>1, <4>1, Fields
    <3>3. c.id <= issued
      BY <1>2, Fields DEF Sound
    <3> QED BY <1>1, <2>2, <2>4, <3>1, <3>2, <3>3 DEF IInv, Over
  <2>8. Gone'
    BY <1>1, <2>1, <2>2, <2>3 DEF IInv, Gone, Later
  <2>9. DeletionHonest'
    <3>1. Truthful'
      BY <1>1, <2>1 DEF IInv, DeletionHonest, Truthful
    <3>2. Consented'
      BY <1>1, <1>2, <2>1, <2>4 DEF Consented, Sound
    <3>3. StopIsFinal'
      BY <1>1, <1>2, <2>1, <2>4, Fields DEF IInv, Over, StopIsFinal
    <3> QED BY <3>1, <3>2, <3>3 DEF DeletionHonest
  <2> QED BY <2>5, <2>6, <2>7, <2>8, <2>9 DEF IInv
<1>6. ASSUME Verdict(c) # "deletes", op' = heard(c, Verdict(c)), UNCHANGED <<remote, eraser>>
      PROVE  IInv'
  <2>1. /\ Verdict(c) \in {"deleted", "absent", "unclear", "conflict"}
        /\ Verdict(c) \in {"deleted", "absent"} => ~remote.exists
        /\ Verdict(c) = "conflict" => /\ remote.exists
                                      /\ kind = "chat" => remote.running \/ c.revision # remote.revision
    BY <1>6 DEF Verdict
  <2>2. /\ op' \in Ops /\ op'.step = op.step /\ op'.row = op.row
        /\ op.step = "refresh" => op'.answer = op.answer
        /\ \/ op'.answer = op.answer
           \/ op'.answer = Verdict(c) /\ op.step = "sent" /\ c.revision = ticket.revision
    BY <1>3, <1>4, <1>6, <2>1
  <2>3. Later
    BY <1>6, Fields, RemoteFields DEF IInv, Typed, Later
  <2>4. Typed'
    BY <1>1, <1>6, <2>2 DEF IInv, Typed
  <2>5. Known' /\ Tickets'
    BY <1>1, <2>2, <2>3, KnownLater
  <2>6. Over'
    <3> SUFFICES ASSUME kind = "chat" PROVE Over'
      BY <1>1 DEF Over
    <3>1. Verdict(c) = "conflict" => c.revision < remote.revision /\ eraser = Absent
      BY <1>2, <2>1, Fields DEF IInv, Over, Sound, Quiet
    <3> QED BY <1>1, <1>6, <2>2, <3>1 DEF IInv, Over
  <2>7. Gone'
    BY <1>1, <1>6, <2>1, <2>2 DEF IInv, Gone
  <2>8. DeletionHonest'
    BY <1>1, <1>6 DEF IInv, DeletionHonest, Truthful, Consented, StopIsFinal
  <2> QED BY <2>4, <2>5, <2>6, <2>7, <2>8 DEF IInv
<1> QED BY <1>1, <1>5, <1>6

(* An answer that is lost or refused says nothing of the conversation.      *)
LEMMA AnswerFailsStep ==
  ASSUME IInv, AnswerFails
  PROVE  IInv'
<1>1. /\ calls' \subseteq calls /\ op.step = "sent"
      /\ UNCHANGED <<kind, remote, eraser, entry, reading, shown, ticket, issued, told, agreed, stopped>>
  BY DEF AnswerFails, Awaits, backend, list, memory
<1>2. /\ op' \in Ops /\ op'.step = op.step /\ op'.row = op.row
      /\ op'.answer \in {"unclear", "refused", "signed out"}
  <2>1. PICK a \in {"unclear", "refused", "signed out"} : op' = [op EXCEPT !.answer = a]
    BY DEF AnswerFails
  <2>2. op \in Ops /\ a \in Heard
    BY DEF IInv, Typed, Heard
  <2> QED BY <2>1, <2>2, OpAnswerType
<1>3. Later
  BY <1>1, Fields DEF IInv, Typed, Later
<1>4. Typed'
  BY <1>1, <1>2 DEF IInv, Typed
<1>5. Known' /\ Tickets'
  BY <1>1, <1>2, <1>3, KnownLater
<1>6. Over' /\ Gone' /\ DeletionHonest'
  BY <1>1, <1>2 DEF IInv, Over, Gone, DeletionHonest, Truthful, Consented, StopIsFinal
<1> QED BY <1>4, <1>5, <1>6 DEF IInv

-----------------------------------------------------------------------------
(* The page's list and view.                                                *)

(* A list read sees what the server lists now.                              *)
LEMMA ListReadStep ==
  ASSUME IInv, ListRead
  PROVE  IInv'
<1>1. UNCHANGED <<kind, remote, eraser, calls, entry, shown, ticket, issued, op, told, agreed, stopped>>
  BY DEF ListRead, backend, memory
<1>2. /\ reading' \in Reads /\ reading'.row = Listing
      /\ reading'.row # Absent => Listed(reading'.row)
  BY ListingType DEF IInv, Typed, ListRead, Reads
<1>3. ~remote.exists => Listing = Absent
  BY DEF Listing
<1>4. Typed'
  BY <1>1, <1>2 DEF IInv, Typed
<1>5. Known'
  BY <1>1, <1>2 DEF IInv, Known, Listed, Quiet
<1>6. Tickets'
  BY <1>1 DEF IInv, Tickets, Sound, Quiet
<1>7. Over' /\ DeletionHonest'
  BY <1>1 DEF IInv, Over, DeletionHonest, Truthful, Consented, StopIsFinal
<1>8. Gone'
  BY <1>1, <1>2, <1>3 DEF IInv, Gone, DeletionHonest, Truthful
<1> QED BY <1>4, <1>5, <1>6, <1>7, <1>8 DEF IInv

(* A list read that arrives after a deletion does not show the row again.   *)
LEMMA ListArrivesStep ==
  ASSUME IInv, ListArrives
  PROVE  IInv'
<1>1. /\ UNCHANGED <<kind, remote, eraser, calls, shown, ticket, issued, op, told, agreed, stopped>>
      /\ reading # Absent /\ reading' = Absent
      /\ entry' = IF reading.valid THEN reading.row ELSE entry
  BY DEF ListArrives, backend, memory
<1>2. entry' \in Rows \cup {Absent} /\ (entry' # Absent => Listed(entry'))
  BY <1>1, Fields DEF IInv, Typed, Known
<1>3. Typed'
  BY <1>1, <1>2 DEF IInv, Typed
<1>4. Known'
  BY <1>1, <1>2 DEF IInv, Known, Listed, Quiet
<1>5. Tickets'
  BY <1>1 DEF IInv, Tickets, Sound, Quiet
<1>6. Over' /\ Gone'
  BY <1>1 DEF IInv, Over, Gone
<1>7. DeletionHonest'
  BY <1>1 DEF IInv, Gone, DeletionHonest, Truthful, Consented, StopIsFinal
<1> QED BY <1>3, <1>4, <1>5, <1>6, <1>7 DEF IInv

(* A rendered revision is one the user was shown.                           *)
LEMMA RenderStep ==
  ASSUME IInv, Render
  PROVE  IInv'
<1>1. /\ UNCHANGED <<kind, remote, eraser, calls, entry, reading, ticket, issued, op, told, stopped>>
      /\ shown' = remote.revision /\ agreed' = agreed \cup {remote.revision}
  BY DEF Render, backend
<1>2. Typed'
  BY <1>1, Fields DEF IInv, Typed
<1>3. Known'
  BY <1>1 DEF IInv, Known, Listed, Quiet
<1>4. Tickets'
  BY <1>1 DEF IInv, Tickets, Sound, Quiet
<1>5. Over' /\ Gone' /\ DeletionHonest'
  BY <1>1 DEF IInv, Over, Gone, DeletionHonest, Truthful, Consented, StopIsFinal
<1> QED BY <1>2, <1>3, <1>4, <1>5 DEF IInv

(* A page that signs out forgets its ticket; what it asked for stays sound. *)
LEMMA Forgets ==
  ASSUME IInv, DropsSession, UNCHANGED <<kind, remote, eraser, calls, issued, agreed, stopped>>
  PROVE  IInv'
<1>1. /\ ticket' = Absent /\ entry' = Absent /\ reading' = Absent /\ shown' = 0 /\ told' = "nothing"
      /\ op' \in Ops /\ op'.step = "idle"
  BY NoOpType DEF DropsSession
<1>2. Typed'
  BY <1>1 DEF IInv, Typed
<1>3. Known'
  BY <1>1 DEF Known
<1>4. Tickets'
  BY <1>1 DEF IInv, Tickets, Sound, Quiet
<1>5. Over' /\ Gone' /\ DeletionHonest'
  BY <1>1 DEF IInv, Over, Gone, DeletionHonest, Truthful, Consented, StopIsFinal
<1> QED BY <1>2, <1>3, <1>4, <1>5 DEF IInv

(* A page whose session is gone forgets.                                    *)
LEMMA RevalidatedStep ==
  ASSUME IInv, Revalidated
  PROVE  IInv'
BY Forgets DEF Revalidated, backend, memory

-----------------------------------------------------------------------------
(* The deletion handler.                                                    *)

(* The button acts on the row of the list.                                  *)
LEMMA PressStep ==
  ASSUME IInv, Press
  PROVE  IInv'
<1>1. /\ UNCHANGED <<kind, remote, eraser, calls, entry, reading, shown, ticket, issued, told, agreed, stopped>>
      /\ entry # Absent /\ (ticket = Absent => ~entry.running)
  BY DEF Press, backend, list, memory
<1>2. /\ op' \in Ops /\ op'.row = entry /\ op'.answer = "none"
      /\ op'.step = IF ticket = Absent THEN "confirm" ELSE "send"
  <2>1. entry \in Rows
    BY <1>1, Fields
  <2>2. CASE ticket = Absent
    <3>1. op' = [NoOp EXCEPT !.step = "confirm", !.row = entry, !.retained = FALSE]
      BY <2>2 DEF Press
    <3> QED BY <2>1, <2>2, <3>1, OpPressType
  <2>3. CASE ticket # Absent
    <3>1. op' = [NoOp EXCEPT !.step = "send", !.row = entry, !.retained = TRUE]
      BY <2>3 DEF Press
    <3> QED BY <2>1, <2>3, <3>1, OpPressType
  <2> QED BY <2>2, <2>3
<1>3. Typed'
  BY <1>1, <1>2 DEF IInv, Typed
<1>4. Known'
  BY <1>1, <1>2 DEF IInv, Known, Listed, Quiet
<1>5. Tickets'
  BY <1>1, <1>2 DEF IInv, Tickets, Sound, Quiet
<1>6. Over' /\ Gone' /\ DeletionHonest'
  BY <1>1, <1>2 DEF IInv, Over, Gone, DeletionHonest, Truthful, Consented, StopIsFinal
<1> QED BY <1>3, <1>4, <1>5, <1>6 DEF IInv

(* A new ticket of a revision the user agreed to.                           *)
LEMMA IssueStep ==
  ASSUME IInv, NEW revision \in Nat, Issue(revision), revision \in agreed', Quiet(revision),
         Known', agreed' \subseteq Nat, agreed \subseteq agreed',
         op' \in Ops, op'.step = "send",
         entry' \in Rows \cup {Absent}, reading' \in Reads \cup {Absent},
         UNCHANGED <<kind, remote, eraser, calls, shown, told, stopped>>,
         Gone', DeletionHonest'
  PROVE  IInv'
<1>1. /\ issued' = issued + 1 /\ issued \in Nat
      /\ ticket' \in Pairs /\ ticket'.id = issued + 1 /\ ticket'.revision = revision
  BY Fields DEF Issue, Pairs
<1>2. Typed'
  BY <1>1 DEF IInv, Typed
<1>3. Tickets'
  <2>1. Sound(ticket)'
    BY <1>1 DEF Sound, Quiet
  <2>2. \A c \in calls : Sound(c)' /\ c.id # issued + 1
    BY <1>1, Fields DEF IInv, Tickets, Sound, Quiet
  <2>3. ticket' # Absent
    BY <1>1, Apart
  <2> QED BY <1>1, <2>1, <2>2, <2>3 DEF Tickets
<1>4. Over'
  <2> SUFFICES ASSUME kind = "chat" PROVE Over'
    BY DEF Over
  <2>1. stopped \subseteq 1 .. issued
    BY DEF IInv, Over
  <2>2. issued + 1 \notin stopped /\ stopped \subseteq 1 .. issued + 1
    BY <1>1, <2>1
  <2>3. eraser # Absent => ~remote.exists /\ eraser.id <= issued + 1
    BY <1>1, RowFields DEF IInv, Typed, Over
  <2> QED BY <1>1, <2>2, <2>3 DEF IInv, Over
<1> QED BY <1>2, <1>3, <1>4 DEF IInv

(* What the user confirms is what the row still says.                       *)
LEMMA ConfirmStep ==
  ASSUME IInv, Confirm
  PROVE  IInv'
<1>1. /\ UNCHANGED <<kind, remote, eraser, calls, entry, reading, shown, told, stopped>>
      /\ op.step = "confirm" /\ ticket = Absent /\ op.row # Absent /\ ~op.row.running
  BY DEF IInv, Known, Confirm, backend, list
<1>2. CASE entry = op.row /\ Issue(entry.revision) /\ agreed' = agreed \cup {entry.revision}
           /\ op' = [op EXCEPT !.step = "send"]
  <2>1. entry.revision \in Nat /\ Quiet(entry.revision)
    BY <1>1, <1>2, Fields DEF IInv, Known, Listed
  <2>2. op' \in Ops /\ op'.step = "send"
    BY <1>2, OpStepType DEF IInv, Typed, Steps
  <2>3. Known'
    BY <1>1, <1>2, <2>2 DEF IInv, Known, Listed, Quiet
  <2>4. Gone' /\ DeletionHonest'
    BY <1>1, <1>2, <2>2 DEF IInv, Gone, DeletionHonest, Truthful, Consented, StopIsFinal
  <2>5. /\ agreed' \subseteq Nat /\ agreed \subseteq agreed' /\ entry.revision \in agreed'
        /\ entry' \in Rows \cup {Absent} /\ reading' \in Reads \cup {Absent}
    BY <1>1, <1>2, <2>1 DEF IInv, Typed
  <2> QED BY <1>1, <1>2, <2>1, <2>2, <2>3, <2>4, <2>5, IssueStep
<1>3. CASE op' = NoOp /\ UNCHANGED <<ticket, issued, agreed>>
  <2>1. Typed'
    BY <1>1, <1>3, NoOpType DEF IInv, Typed
  <2>2. Known' /\ Tickets'
    BY <1>1, <1>3, NoOpType DEF IInv, Known, Listed, Tickets, Sound, Quiet
  <2>3. Over' /\ Gone' /\ DeletionHonest'
    BY <1>1, <1>3, NoOpType DEF IInv, Over, Gone, DeletionHonest, Truthful, Consented, StopIsFinal
  <2> QED BY <2>1, <2>2, <2>3 DEF IInv
<1> QED BY <1>2, <1>3 DEF Confirm

(* A request carries its ticket's revision.                                 *)
LEMMA SendStep ==
  ASSUME IInv, Send
  PROVE  IInv'
<1>1. /\ UNCHANGED <<kind, remote, eraser, entry, reading, shown, ticket, issued, told, agreed, stopped>>
      /\ op.step = "send" /\ calls' = calls \cup {Call} /\ ticket # Absent
      /\ op' = [op EXCEPT !.step = "sent", !.answer = "none"]
  BY DEF IInv, Tickets, Send, backend, list, memory
<1>2. op' \in Ops /\ op'.step = "sent" /\ op'.answer = "none"
  BY <1>1, OpSendType DEF IInv, Typed
<1>3. Call \in Requests /\ Call.id = ticket.id /\ Call.revision = ticket.revision
  BY <1>1, Fields DEF Call, Requests
<1>4. Typed'
  BY <1>1, <1>2, <1>3 DEF IInv, Typed
<1>5. Known'
  BY <1>1, <1>2 DEF IInv, Known, Listed, Quiet
<1>6. Tickets'
  <2>1. Sound(ticket) /\ Sound(Call)
    BY <1>1, <1>3 DEF IInv, Tickets, Sound
  <2> QED BY <1>1, <1>2, <1>3, <2>1 DEF IInv, Tickets, Sound, Quiet
<1>7. Over'
  BY <1>1, <1>2, <1>3 DEF IInv, Over
<1>8. Gone' /\ DeletionHonest'
  BY <1>1, <1>2 DEF IInv, Gone, DeletionHonest, Truthful, Consented, StopIsFinal
<1> QED BY <1>4, <1>5, <1>6, <1>7, <1>8 DEF IInv

(* The conversation is gone: the page says so and forgets its ticket.       *)
LEMMA FinishesStep ==
  ASSUME IInv, Finishes, ~remote.exists, UNCHANGED <<kind, remote, eraser, calls, issued, agreed>>
  PROVE  IInv'
<1>1. /\ ticket' = Absent /\ entry' = Absent /\ reading' = Voided(reading) /\ shown' = 0
      /\ told' = "deleted" /\ op' \in Ops /\ op'.step = "idle" /\ stopped' = stopped
  BY NoOpType DEF Finishes
<1>2. /\ reading' \in Reads \cup {Absent} /\ (reading' = Absent <=> reading = Absent)
      /\ reading # Absent => reading'.row = reading.row
      /\ kind = "chat" /\ reading # Absent => ~reading'.valid
  BY <1>1, VoidedType DEF IInv, Typed
<1>3. Typed'
  BY <1>1, <1>2 DEF IInv, Typed
<1>4. Known'
  BY <1>1, <1>2 DEF IInv, Known, Listed, Quiet
<1>5. Tickets'
  BY <1>1 DEF IInv, Tickets, Sound, Quiet
<1>6. Over' /\ Gone' /\ DeletionHonest'
  BY <1>1, <1>2 DEF IInv, Over, Gone, DeletionHonest, Truthful, Consented, StopIsFinal
<1> QED BY <1>3, <1>4, <1>5, <1>6 DEF IInv

(* What a step of the handler may leave of the list while the conversation  *)
(* exists: what it showed, or what the server lists now.                    *)
Relisted ==
  /\ entry' \in {entry, Listing} /\ reading' \in {reading, Voided(reading)}
  /\ UNCHANGED <<kind, remote, eraser, calls, shown, agreed>>

(* The list stays what the server listed at some time.                      *)
LEMMA RelistedKnown ==
  ASSUME IInv, Relisted, op'.step # "confirm"
  PROVE  /\ Known' /\ entry' \in Rows \cup {Absent} /\ reading' \in Reads \cup {Absent}
         /\ (reading' = Absent <=> reading = Absent)
         /\ reading # Absent => reading'.row = reading.row
<1>1. Listing \in Rows \cup {Absent} /\ (Listing # Absent => Listed(Listing))
  BY ListingType, Fields DEF IInv, Typed
<1>2. /\ reading' \in Reads \cup {Absent} /\ (reading' = Absent <=> reading = Absent)
      /\ reading # Absent => reading'.row = reading.row
  BY VoidedType DEF IInv, Typed, Relisted
<1>3. entry' \in Rows \cup {Absent} /\ (entry' # Absent => Listed(entry'))
  BY <1>1 DEF IInv, Typed, Known, Relisted
<1>4. Known'
  BY <1>2, <1>3 DEF IInv, Known, Listed, Quiet, Relisted
<1> QED BY <1>2, <1>3, <1>4

(* The ticket is given up; if the page says the conversation has changed,   *)
(* the ticket's revision is over.                                           *)
LEMMA GivesUpStep ==
  ASSUME IInv, NEW what \in {"stopped", "rejected"}, GivesUp(what), Relisted, UNCHANGED issued,
         op.step \in {"sent", "refresh", "reconcile"},
         what = "stopped" /\ kind = "chat" =>
           ticket.revision < remote.revision /\ (eraser # Absent => eraser.id # ticket.id)
  PROVE  IInv'
<1>1. /\ ticket' = Absent /\ told' = what /\ op' \in Ops /\ op'.step = "idle"
      /\ stopped' = IF what = "stopped" THEN stopped \cup {ticket.id} ELSE stopped
      /\ UNCHANGED <<kind, remote, eraser, calls, shown, agreed>>
  BY NoOpType DEF GivesUp, Relisted
<1>2. ticket # Absent /\ ticket.id \in 1 .. issued /\ ticket.id \in Nat
  BY Fields DEF IInv, Tickets, Sound
<1>3. /\ Known' /\ entry' \in Rows \cup {Absent} /\ reading' \in Reads \cup {Absent}
  BY <1>1, RelistedKnown
<1>4. Typed'
  BY <1>1, <1>2, <1>3 DEF IInv, Typed
<1>5. Tickets'
  BY <1>1 DEF IInv, Tickets, Sound, Quiet
<1>6. Over'
  <2> SUFFICES ASSUME kind = "chat" PROVE Over'
    BY <1>1 DEF Over
  <2>1. stopped' \subseteq 1 .. issued
    BY <1>1, <1>2 DEF IInv, Over
  <2>2. \A c \in calls : c.id \in stopped' => c.revision < remote.revision
    BY <1>1, <1>2 DEF IInv, Over, Tickets
  <2> QED BY <1>1, <2>1, <2>2 DEF IInv, Over
<1>7. Gone' /\ Truthful' /\ Consented'
  BY <1>1 DEF IInv, Gone, DeletionHonest, Truthful, Consented
<1>8. StopIsFinal'
  BY <1>1 DEF IInv, DeletionHonest, StopIsFinal
<1> QED BY <1>3, <1>4, <1>5, <1>6, <1>7, <1>8 DEF IInv, DeletionHonest

(* A conflict means that the ticket's revision is over.                     *)
LEMMA AnswersStep ==
  ASSUME IInv, Answers
  PROVE  IInv'
<1>1. /\ UNCHANGED <<kind, remote, eraser, calls, issued, agreed>>
      /\ op.step = "sent" /\ op \in Ops /\ ticket # Absent
  BY DEF IInv, Typed, Tickets, Answers, backend
<1>2. CASE op.answer \in {"deleted", "absent"} /\ Finishes
  BY <1>1, <1>2, FinishesStep DEF IInv, Gone
<1>3. CASE DropsSession /\ UNCHANGED stopped
  BY <1>1, <1>3, Forgets
<1>4. CASE GivesUp("rejected") /\ UNCHANGED list
  <2>1. Relisted
    BY <1>1, <1>4 DEF Relisted, list
  <2> QED BY <1>1, <1>4, <2>1, GivesUpStep
<1>5. CASE op.answer = "conflict" /\ GivesUp("stopped") /\ UNCHANGED list
  <2>1. Relisted
    BY <1>1, <1>5 DEF Relisted, list
  <2>2. kind = "chat" => ticket.revision < remote.revision /\ (eraser # Absent => eraser.id # ticket.id)
    BY <1>1, <1>5 DEF IInv, Over
  <2> QED BY <1>1, <1>5, <2>1, <2>2, GivesUpStep
<1>6. CASE /\ \/ Refreshes /\ op' = [op EXCEPT !.step = "refresh", !.view = shown]
              \/ op.answer = "unclear" /\ op.attempt = 0
                 /\ op' = [op EXCEPT !.step = "send", !.attempt = 1]
              \/ op.answer = "unclear" /\ op.attempt = 1
                 /\ op' = [op EXCEPT !.step = "reconcile"]
           /\ UNCHANGED <<list, ticket, told, stopped>>
  <2>1. /\ op' \in Ops /\ op'.answer = op.answer /\ op'.step \in {"send", "refresh", "reconcile"}
        /\ op'.step = "refresh" => op.answer = "conflict"
    <3>1. shown \in Nat /\ 1 \in Nat /\ "refresh" \in Steps /\ "send" \in Steps /\ "reconcile" \in Steps
      BY Fields DEF Steps
    <3>2. CASE op.answer = "conflict" /\ op' = [op EXCEPT !.step = "refresh", !.view = shown]
      BY <1>1, <3>1, <3>2, OpViewType
    <3>3. CASE op' = [op EXCEPT !.step = "send", !.attempt = 1]
      BY <1>1, <3>3, OpAttemptType
    <3>4. CASE op' = [op EXCEPT !.step = "reconcile"]
      BY <1>1, <3>1, <3>4, OpStepType
    <3> QED BY <1>6, <3>2, <3>3, <3>4 DEF Refreshes
  <2>2. UNCHANGED <<entry, reading, shown, ticket, told, stopped>>
    BY <1>6 DEF list
  <2>3. Typed'
    BY <1>1, <2>1, <2>2 DEF IInv, Typed
  <2>4. Known' /\ Tickets'
    BY <1>1, <2>1, <2>2 DEF IInv, Known, Listed, Tickets, Sound, Quiet
  <2>5. Over' /\ Gone' /\ DeletionHonest'
    BY <1>1, <2>1, <2>2 DEF IInv, Over, Gone, DeletionHonest, Truthful, Consented, StopIsFinal
  <2> QED BY <2>3, <2>4, <2>5 DEF IInv
<1> QED BY <1>2, <1>3, <1>4, <1>5, <1>6 DEF Answers

(* A refreshed ticket names the revision the page renders.                  *)
LEMMA RefreshCursorStep ==
  ASSUME IInv, RefreshCursor
  PROVE  IInv'
<1>1. /\ UNCHANGED <<kind, remote, eraser, calls, agreed>>
      /\ op.step = "refresh" /\ op.answer = "conflict" /\ op \in Ops /\ ticket # Absent
      /\ kind = "chat" => ticket.revision < remote.revision /\ (eraser # Absent => eraser.id # ticket.id)
  BY DEF IInv, Typed, Tickets, Over, RefreshCursor, backend
<1>2. CASE ~remote.exists /\ Finishes /\ UNCHANGED issued
  BY <1>1, <1>2, FinishesStep
<1>3. CASE GivesUp("rejected") /\ UNCHANGED <<list, issued>>
  <2>1. Relisted
    BY <1>1, <1>3 DEF Relisted, list
  <2> QED BY <1>1, <1>3, <2>1, GivesUpStep
<1>4. CASE /\ remote.exists /\ UNCHANGED shown
           /\ IF shown = op.view /\ entry # Absent
              THEN entry' = Listing /\ reading' = Voided(reading)
              ELSE UNCHANGED <<entry, reading>>
           /\ GivesUp("stopped") /\ UNCHANGED issued
  <2>1. Relisted
    BY <1>1, <1>4 DEF Relisted
  <2> QED BY <1>1, <1>4, <2>1, GivesUpStep
<1>5. CASE /\ remote.exists /\ UNCHANGED <<shown, told, stopped>>
           /\ entry' = Listing /\ reading' = Voided(reading) /\ Shows(Listing)
           /\ Issue(remote.revision)
           /\ op' = [op EXCEPT !.step = "send", !.attempt = 0, !.refreshed = TRUE]
  <2>1. op' \in Ops /\ op'.step = "send"
    BY <1>1, <1>5, OpSendType
  <2>2. Relisted
    BY <1>1, <1>5 DEF Relisted
  <2>3. /\ Known' /\ entry' \in Rows \cup {Absent} /\ reading' \in Reads \cup {Absent}
        /\ (reading' = Absent <=> reading = Absent)
        /\ reading # Absent => reading'.row = reading.row
    BY <2>1, <2>2, RelistedKnown
  <2>4. /\ ~remote.running /\ remote.revision > ticket.revision /\ remote.revision = shown
        /\ remote.revision \in Nat
    BY <1>5, ListingType, Fields DEF IInv, Typed, Shows
  <2>5. Quiet(remote.revision) /\ remote.revision \in agreed'
    BY <1>1, <2>4, Fields DEF IInv, Known, Quiet
  <2>6. told # "deleted"
    BY <1>5 DEF IInv, DeletionHonest, Truthful
  <2>7. Gone' /\ DeletionHonest'
    BY <1>1, <1>5, <2>1, <2>6 DEF IInv, Gone, DeletionHonest, Truthful, Consented, StopIsFinal
  <2>8. agreed' \subseteq Nat /\ agreed \subseteq agreed'
    BY <1>1 DEF IInv, Typed
  <2> QED BY <1>1, <1>5, <2>1, <2>3, <2>4, <2>5, <2>7, <2>8, IssueStep
<1> QED BY <1>2, <1>3, <1>4, <1>5 DEF RefreshCursor

(* So does a list that shows another revision.                              *)
LEMMA ReconcileStep ==
  ASSUME IInv, Reconcile
  PROVE  IInv'
<1>1. /\ UNCHANGED <<kind, remote, eraser, calls, issued, agreed>>
      /\ op.step = "reconcile" /\ ticket # Absent
  BY DEF IInv, Tickets, Reconcile, backend
<1>2. ASSUME KeepsTicket, Relisted PROVE IInv'
  <2>1. /\ ticket' = ticket /\ told' = "uncertain" /\ stopped' = stopped
        /\ op' \in Ops /\ op'.step = "idle" /\ op'.answer = "none" /\ shown' = shown
    BY <1>2, NoOpType DEF KeepsTicket, Relisted
  <2>2. /\ Known' /\ entry' \in Rows \cup {Absent} /\ reading' \in Reads \cup {Absent}
    BY <1>2, <2>1, RelistedKnown
  <2>3. Typed'
    BY <1>1, <2>1, <2>2 DEF IInv, Typed
  <2>4. Tickets'
    BY <1>1, <2>1 DEF IInv, Tickets, Sound, Quiet
  <2>5. Over' /\ Gone' /\ DeletionHonest'
    BY <1>1, <2>1 DEF IInv, Over, Gone, DeletionHonest, Truthful, Consented, StopIsFinal
  <2> QED BY <2>2, <2>3, <2>4, <2>5 DEF IInv
<1>3. CASE KeepsTicket /\ UNCHANGED list
  <2>1. Relisted
    BY <1>1, <1>3 DEF Relisted, list
  <2> QED BY <1>2, <1>3, <2>1
<1>4. CASE DropsSession /\ UNCHANGED stopped
  BY <1>1, <1>4, Forgets
<1>5. CASE ~remote.exists /\ Finishes
  BY <1>1, <1>5, FinishesStep
<1>6. CASE /\ UNCHANGED shown /\ remote.exists
           /\ entry' = IF kind = "chat" \/ entry # Absent THEN Listing ELSE entry
           /\ reading' = Voided(reading)
           /\ IF remote.deleting \/ Listing = Entry(ticket.revision, FALSE)
              THEN KeepsTicket
              ELSE GivesUp("stopped")
  <2>1. Relisted
    BY <1>1, <1>6 DEF Relisted
  <2>2. CASE KeepsTicket
    BY <1>2, <2>1, <2>2
  <2>3. CASE Listing # Entry(ticket.revision, FALSE) /\ GivesUp("stopped")
    <3>1. kind = "chat" => eraser = Absent
      BY <1>6 DEF IInv, Over
    <3>2. Listing = Entry(remote.revision, remote.running)
      BY <1>6 DEF Listing
    <3>3. ASSUME ~remote.running PROVE ticket.revision # remote.revision
      <4>1. remote.running = FALSE
        BY <3>3, Fields
      <4> QED BY <2>3, <3>2, <4>1
    <3>4. Quiet(ticket.revision)
      BY <1>1 DEF IInv, Tickets, Sound
    <3>5. ticket.revision < remote.revision
      BY <1>1, <3>3, <3>4, Fields DEF Quiet
    <3> QED BY <1>1, <2>1, <2>3, <3>1, <3>5, GivesUpStep
  <2> QED BY <1>6, <2>2, <2>3
<1> QED BY <1>3, <1>4, <1>5, <1>6 DEF Reconcile

-----------------------------------------------------------------------------
(* A page that has asked for nothing yet.                                   *)
LEMMA StartInv ==
  ASSUME DeleteInit
  PROVE  IInv
<1>1. /\ remote.exists /\ remote.revision = 1 /\ ~remote.running /\ remote \in Remotes
      /\ entry \in Rows /\ entry.revision = 1 /\ reading = Absent /\ calls = {}
      /\ shown = 0 /\ ticket = Absent /\ issued = 0 /\ told = "nothing"
      /\ agreed = {} /\ stopped = {} /\ eraser = Absent
      /\ op \in Ops /\ op.step = "idle"
  BY NoOpType DEF DeleteInit, Remotes, Rows, Entry
<1>2. Typed
  BY <1>1 DEF Typed
<1>3. Known /\ Tickets
  BY <1>1 DEF Known, Listed, Quiet, Tickets
<1>4. Over /\ Gone /\ DeletionHonest
  BY <1>1 DEF Over, Gone, DeletionHonest, Truthful, Consented, StopIsFinal
<1> QED BY <1>2, <1>3, <1>4 DEF IInv

(* Each step keeps the invariant.                                           *)
LEMMA StepInv ==
  ASSUME IInv, [DeleteNext]_deleteVars
  PROVE  IInv'
<1>1. CASE DeleteNext
  BY <1>1, OthersStep, ServeStep, AnswerFailsStep, ListReadStep, ListArrivesStep, RenderStep,
     RevalidatedStep, PressStep, ConfirmStep, SendStep, AnswersStep, RefreshCursorStep, ReconcileStep
     DEF DeleteNext
<1>2. CASE UNCHANGED deleteVars
  <2>1. UNCHANGED <<kind, remote, receipts, calls, entry, reading, shown, ticket, issued, op, told,
                    agreed, stopped, eraser, faults>>
    BY <1>2 DEF deleteVars
  <2>2. Typed' /\ Known' /\ Tickets'
    BY <2>1 DEF IInv, Typed, Known, Listed, Tickets, Sound, Quiet
  <2>3. Over' /\ Gone' /\ DeletionHonest'
    BY <2>1 DEF IInv, Over, Gone, DeletionHonest, Truthful, Consented, StopIsFinal
  <2> QED BY <2>2, <2>3 DEF IInv
<1> QED BY <1>1, <1>2

(* Every ticket and every request on its way names one revision that was    *)
(* quiet when the page read it and that its user agreed to, and a ticket    *)
(* given up names a revision that is over (deleteChatThread).               *)
THEOREM TicketsStaySound == DeleteSpec => []IInv
<1>1. DeleteInit => IInv
  BY StartInv
<1>2. IInv /\ [DeleteNext]_deleteVars => IInv'
  BY StepInv
<1> QED BY <1>1, <1>2, PTL DEF DeleteSpec

(* "Conversation deleted." is the truth, a Chat page deletes only what its  *)
(* user confirmed or was shown, and a ticket given up deletes nothing later *)
(* (deleteChatThread, refreshCompletedThreadDeletion,                       *)
(* reconcileThreadDeletion).                                                *)
THEOREM DeletionAlwaysHonest == DeleteSpec => []DeletionHonest
<1>1. IInv => DeletionHonest
  BY DEF IInv
<1> QED BY <1>1, TicketsStaySound, PTL

-----------------------------------------------------------------------------
(* The update handoff: types.                                               *)

TaskSteps == {"", "take", "keep", "settle", "save", "go"}
Stagings == {"prepare", "prepare, then go", "carry"}
Tasks == Stagings \cup {"none", "chain", "migrate", "enter"}

AppRow == [release : Nat, who : Accounts \cup {Nothing}, owner : Accounts \cup {Nothing},
           text : Drafts \cup {Nothing}, claim : Handoffs \cup {Nothing}, proof : Nat, url : BOOLEAN,
           consumed : BOOLEAN, kept : HandoffRow \cup {Nothing}, durable : BOOLEAN, installed : BOOLEAN,
           ready : ReadyRow \cup {Nothing}, switched : BOOLEAN]
TaskRow == [by : Tasks, step : TaskSteps, id : Handoffs \cup {Nothing}, target : Nat, text : Drafts \cup {Nothing},
            who : Accounts \cup {Nothing}, row : HandoffRow \cup {Nothing}, stale : BOOLEAN]

RowTypes(store) == DOMAIN store \subseteq Handoffs /\ store \in [DOMAIN store -> HandoffRow]

HandoffTypes ==
  /\ app \in AppRow /\ task \in TaskRow /\ RowTypes(rows)
  /\ carried \in Drafts \cup {Nothing} /\ deployed \in Nat /\ worker \in Nat /\ active \in Nat

-----------------------------------------------------------------------------
(* What the page, its task and the store say of each other.                *)

Holder(p) == IF p.who = Nothing THEN p.owner ELSE p.who
Keeping == task.by = "enter" /\ task.step = "keep"

\* The claim of the URL: unread, being kept, or the page's kept record.
ClaimFine ==
  /\ Unread(app) => app.url
  /\ app.url => app.claim # Nothing /\ (Unread(app) \/ Pending(app) \/ app.claim \notin DOMAIN rows)
  /\ task.by = "enter" => app.who # Nothing /\ (task.step = "take" => Unread(app))
  /\ Keeping => /\ ~Unread(app) /\ ~Pending(app) /\ app.url /\ app.claim \notin DOMAIN rows
                /\ task.row # Nothing /\ task.row.by = app.who

\* The kept record is its account's, and its row is the one the URL reaches.
KeptFine ==
  /\ Pending(app) => /\ ~Unread(app) /\ app.claim # Nothing
                     /\ app.kept.by = Holder(app)
                     /\ app.durable <=> app.url
                     /\ app.durable => app.claim \in DOMAIN rows /\ rows[app.claim].text = app.kept.text
  /\ task.by = "migrate" => /\ task.id = app.claim /\ task.id # Nothing /\ task.row # Nothing /\ ~Unread(app)
                            /\ IF Pending(app) THEN task.row = app.kept ELSE ~app.url

\* The rows under way and prepared are not the claim's.
StageFine ==
  /\ task.by \in Stagings => /\ task.id \notin DOMAIN rows \cup {app.claim, Nothing}
                             /\ task.text # Nothing /\ task.who # Nothing
  /\ app.ready # Nothing => /\ app.ready.id \in DOMAIN rows /\ app.ready.id # app.claim
                            /\ rows[app.ready.id].text = app.ready.text

\* Nobody can edit while an unread row crosses a release.
ChainFine ==
  task.by = "chain" => \/ Unread(app) /\ app.text = Nothing
                       \/ /\ Pending(app) /\ app.who = Nothing /\ app.durable
                          /\ app.text \in {Nothing, app.kept.text}

\* A page with a claim shows nothing else.
AgreeFine ==
  app.url /\ app.text # Nothing =>
    /\ Pending(app) => app.text = app.kept.text
    /\ Keeping => app.text = task.row.text
    /\ Unread(app) /\ app.claim \in DOMAIN rows => app.text = rows[app.claim].text

\* Where the draft that is owed is.
Owed ==
  carried # Nothing =>
    IF Unread(app) THEN app.claim \in DOMAIN rows /\ rows[app.claim].text = carried
    ELSE IF Pending(app) THEN carried = app.kept.text
    ELSE IF Keeping THEN carried = task.row.text
    ELSE carried = app.text

HandoffFine == ClaimFine /\ KeptFine /\ StageFine /\ ChainFine /\ AgreeFine
HandoffInv == HandoffTypes /\ HandoffFine /\ (lapses = {} => Owed)

-----------------------------------------------------------------------------
(* Helpers.                                                                *)

LEMMA NothingIs ==
  /\ Nothing \notin Drafts /\ Nothing \notin Accounts /\ Nothing \notin Handoffs
  /\ Nothing \notin HandoffRow /\ Nothing \notin ReadyRow
BY HandoffAssumption

LEMMA NoTaskIs ==
  /\ NoTask \in TaskRow /\ NoTask.by = "none" /\ NoTask.step = ""
  /\ NoTask.row = Nothing /\ NoTask.text = Nothing /\ ~NoTask.stale
BY DEF NoTask, TaskRow, Tasks, TaskSteps

LEMMA AppIs ==
  ASSUME NEW p \in AppRow
  PROVE  /\ p.release \in Nat /\ p.who \in Accounts \cup {Nothing} /\ p.owner \in Accounts \cup {Nothing}
         /\ p.text \in Drafts \cup {Nothing} /\ p.claim \in Handoffs \cup {Nothing} /\ p.proof \in Nat
         /\ p.url \in BOOLEAN /\ p.consumed \in BOOLEAN /\ p.kept \in HandoffRow \cup {Nothing}
         /\ p.durable \in BOOLEAN /\ p.installed \in BOOLEAN /\ p.ready \in ReadyRow \cup {Nothing}
         /\ p.switched \in BOOLEAN
BY DEF AppRow

LEMMA RowIs ==
  ASSUME NEW r \in HandoffRow
  PROVE  r.text \in Drafts /\ r.by \in Accounts /\ r.target \in Nat /\ r.bound \in BOOLEAN /\ r.fresh \in BOOLEAN
BY DEF HandoffRow

LEMMA TaskIs ==
  ASSUME NEW t \in TaskRow
  PROVE  /\ t.by \in Tasks /\ t.step \in TaskSteps /\ t.id \in Handoffs \cup {Nothing} /\ t.target \in Nat
         /\ t.text \in Drafts \cup {Nothing} /\ t.who \in Accounts \cup {Nothing}
         /\ t.row \in HandoffRow \cup {Nothing} /\ t.stale \in BOOLEAN
BY DEF TaskRow

LEMMA ReadyIs ==
  ASSUME NEW r \in ReadyRow
  PROVE  r.id \in Handoffs /\ r.target \in Nat /\ r.text \in Drafts /\ r.mine \in BOOLEAN
BY DEF ReadyRow

\* What a deletion and a write leave of the store.
LEMMA DropIs ==
  ASSUME RowTypes(rows), NEW ids, NEW store, store = Drop(ids)
  PROVE  /\ RowTypes(store) /\ DOMAIN store = DOMAIN rows \ ids
         /\ \A i \in DOMAIN store : store[i] = rows[i]
BY DEF RowTypes, Drop

LEMMA PutIs ==
  ASSUME RowTypes(rows), NEW id \in Handoffs, NEW row \in HandoffRow, NEW store, store = Put(id, row)
  PROVE  /\ RowTypes(store) /\ DOMAIN store = DOMAIN rows \cup {id} /\ store[id] = row
         /\ \A i \in DOMAIN rows \ {id} : store[i] = rows[i]
BY DEF RowTypes, Put

\* Dropping a prepared row leaves the row of the claim.
LEMMA WithdrawnIs ==
  ASSUME HandoffTypes, StageFine
  PROVE  app.claim \notin Withdrawn
<1>1. CASE app.ready # Nothing
  BY <1>1 DEF Withdrawn, StageFine
<1>2. CASE app.ready = Nothing
  BY <1>2 DEF Withdrawn, StageFine, Stagings
<1> QED BY <1>1, <1>2

LEMMA StaleIs ==
  ASSUME HandoffTypes, NEW t, t = Stale
  PROVE  /\ t \in TaskRow /\ t.by = task.by /\ t.step = task.step /\ t.id = task.id /\ t.text = task.text
         /\ t.who = task.who /\ t.row = task.row /\ t.target = task.target
BY DEF Stale, HandoffTypes, TaskRow

LEMMA InvalidatedIs ==
  ASSUME NEW p \in AppRow, NEW q, q = Invalidated(p)
  PROVE  /\ q \in AppRow /\ q.ready = Nothing /\ q.text = p.text /\ q.who = p.who /\ q.owner = p.owner
         /\ q.claim = p.claim /\ q.url = p.url /\ q.consumed = p.consumed /\ q.kept = p.kept
         /\ q.durable = p.durable /\ q.release = p.release
BY DEF Invalidated, AppRow

LEMMA FinishedIs ==
  ASSUME NEW p \in AppRow, NEW q, q = Finished(p)
  PROVE  /\ q \in AppRow /\ q.kept = Nothing /\ ~q.durable /\ ~q.url /\ q.text = p.text /\ q.who = p.who
         /\ q.owner = p.owner /\ q.claim = p.claim /\ q.consumed = p.consumed /\ q.ready = p.ready
BY DEF Finished, AppRow

LEMMA LoadedIs ==
  ASSUME deployed \in Nat, NEW c \in Handoffs \cup {Nothing}, NEW f \in Nat, NEW d \in Drafts \cup {Nothing},
         NEW p, p = Loaded(c, f, d)
  PROVE  /\ p \in AppRow /\ p.text = d /\ p.claim = c /\ (p.url <=> c # Nothing) /\ ~p.consumed
         /\ p.kept = Nothing /\ p.ready = Nothing /\ ~p.durable /\ p.who = Nothing
BY NothingIs DEF Loaded, AppRow

-----------------------------------------------------------------------------
(* Steps that leave the claim and the kept record.                         *)

LEMMA QuietStep ==
  ASSUME HandoffInv, HandoffTypes',
         app'.claim = app.claim, app'.url = app.url, app'.consumed = app.consumed, app'.kept = app.kept,
         app'.durable = app.durable,
         \/ app'.text = app.text
         \/ carried' = Nothing /\ (app'.text = Nothing \/ (~Unread(app) /\ ~Pending(app) /\ ~Keeping)),
         app'.who = app.who \/ (app'.who = Nothing /\ task'.by # "enter"),
         Pending(app) => Holder(app)' = Holder(app),
         \/ task' = NoTask /\ ~Keeping
         \/ /\ task'.by = task.by /\ task'.step = task.step /\ task'.id = task.id /\ task'.text = task.text
            /\ task'.who = task.who /\ task'.row = task.row,
         DOMAIN rows' \subseteq DOMAIN rows, \A i \in DOMAIN rows' : rows'[i].text = rows[i].text,
         app.claim \in DOMAIN rows => app.claim \in DOMAIN rows',
         \/ app'.ready = Nothing
         \/ /\ app.ready # Nothing /\ app'.ready.id = app.ready.id /\ app'.ready.text = app.ready.text
            /\ app.ready.id \in DOMAIN rows',
         carried' \in {carried, Nothing}, lapses \subseteq lapses'
  PROVE  HandoffInv'
<1> USE NothingIs
<1>0. HandoffTypes /\ ClaimFine /\ KeptFine /\ StageFine /\ ChainFine /\ AgreeFine /\ (lapses = {} => Owed)
  BY DEF HandoffInv, HandoffFine
<1>1. (Unread(app)' <=> Unread(app)) /\ (Pending(app)' <=> Pending(app))
  BY DEF Unread, Pending
<1>2. (Keeping' => Keeping /\ task'.row = task.row) /\ (Keeping => Keeping' /\ task'.row = task.row /\ app'.who = app.who)
  BY NoTaskIs DEF Keeping
<1>3. ClaimFine'
  BY <1>0, <1>1, <1>2, NoTaskIs DEF ClaimFine, Keeping
<1>4. KeptFine'
  BY <1>0, <1>1, NoTaskIs DEF KeptFine
<1>5. StageFine'
  BY <1>0, <1>1, NoTaskIs DEF StageFine, Stagings
<1>6. ChainFine'
  BY <1>0, <1>1, NoTaskIs DEF ChainFine
<1>7. AgreeFine'
  BY <1>0, <1>1, <1>2 DEF AgreeFine
<1>8. lapses' = {} => Owed'
  BY <1>0, <1>1, <1>2 DEF Owed
<1> QED BY <1>3, <1>4, <1>5, <1>6, <1>7, <1>8 DEF HandoffInv, HandoffFine

\* A page that was just loaded.
LEMMA LoadStep ==
  ASSUME HandoffTypes', task' = NoTask,
         app'.url <=> app'.claim # Nothing, ~app'.consumed, app'.kept = Nothing, app'.ready = Nothing,
         app'.text # Nothing /\ app'.claim \in DOMAIN rows' => app'.text = rows'[app'.claim].text,
         lapses' = {} /\ carried' # Nothing => /\ app'.claim \in DOMAIN rows' 
                                               /\ rows'[app'.claim].text = carried'
  PROVE  HandoffInv'
<1> USE NothingIs, NoTaskIs
<1>1. (Unread(app)' <=> app'.claim # Nothing) /\ ~Pending(app)' /\ ~Keeping'
  BY DEF Unread, Pending, Keeping
<1>2. Nothing \notin DOMAIN rows'
  BY DEF HandoffTypes, RowTypes
<1>3. ClaimFine' /\ KeptFine'
  BY <1>1 DEF ClaimFine, KeptFine, Keeping
<1>4. StageFine' /\ ChainFine'
  BY <1>1 DEF StageFine, ChainFine, Stagings
<1>5. AgreeFine'
  BY <1>1 DEF AgreeFine
<1>6. lapses' = {} => Owed'
  BY <1>1, <1>2 DEF Owed
<1> QED BY <1>3, <1>4, <1>5, <1>6 DEF HandoffInv, HandoffFine

LEMMA NavigateStep ==
  ASSUME HandoffInv, NEW c \in Handoffs \cup {Nothing}, NEW f \in Nat, NEW store, RowTypes(store),
         Navigate(c, f, store), UNCHANGED <<deployed, worker, active>>,
         LET unsent == IF app.text # Nothing THEN app.text ELSE IF Pending(app) THEN app.kept.text ELSE carried IN
           \/ lapses # {} \/ task.by = "migrate" \/ unsent = Nothing
           \/ c \in DOMAIN store /\ store[c].text = unsent
  PROVE  HandoffInv'
<1> USE NothingIs
<1> DEFINE unsent == IF app.text # Nothing THEN app.text ELSE IF Pending(app) THEN app.kept.text ELSE carried
<1>1. HandoffTypes
  BY DEF HandoffInv
<1>2. unsent \in Drafts \cup {Nothing}
  BY <1>1, AppIs, RowIs DEF HandoffTypes, Pending
<1>3. PICK p : p = Loaded(c, f, Nothing)
  OBVIOUS
<1>4. app' = p /\ task' = NoTask /\ rows' = store /\ carried' = unsent
  BY <1>3 DEF Navigate
<1>5. /\ p \in AppRow /\ p.text = Nothing /\ p.claim = c /\ (p.url <=> c # Nothing) /\ ~p.consumed
      /\ p.kept = Nothing /\ p.ready = Nothing
  BY <1>1, <1>3, LoadedIs DEF HandoffTypes
<1>6. HandoffTypes'
  BY <1>1, <1>2, <1>4, <1>5, NoTaskIs DEF HandoffTypes
<1>7. lapses' = {} /\ unsent # Nothing => c \in DOMAIN store /\ store[c].text = unsent
  BY DEF Navigate, Lapse
<1> QED BY <1>4, <1>5, <1>6, <1>7, LoadStep

\* Only the rest of the world moves.
LEMMA StillStep ==
  ASSUME HandoffInv, HandoffTypes', UNCHANGED <<rows, task, carried, lapses>>,
         app' = app \/ app' = [app EXCEPT !.switched = TRUE]
  PROVE  HandoffInv'
<1>1. app \in AppRow
  BY DEF HandoffInv, HandoffTypes
<1>2. /\ app'.claim = app.claim /\ app'.url = app.url /\ app'.consumed = app.consumed /\ app'.kept = app.kept
      /\ app'.durable = app.durable /\ app'.text = app.text /\ app'.who = app.who /\ app'.owner = app.owner
      /\ app'.ready = app.ready
  BY <1>1 DEF AppRow
<1>3. app.ready # Nothing => app.ready.id \in DOMAIN rows
  BY DEF HandoffInv, HandoffFine, StageFine
<1>4. Holder(app)' = Holder(app)
  BY <1>2 DEF Holder
<1> QED BY <1>2, <1>3, <1>4, QuietStep

LEMMA WorldStep ==
  ASSUME HandoffInv, Deploy \/ WorkerInstalled \/ ControllerChange
  PROVE  HandoffInv'
<1>1. HandoffTypes /\ app \in AppRow
  BY DEF HandoffInv, HandoffTypes
<1>2. UNCHANGED <<rows, task, carried, lapses>> /\ (app' = app \/ app' = [app EXCEPT !.switched = TRUE])
  BY DEF Deploy, WorkerInstalled, ControllerChange
<1>3. app' \in AppRow
  BY <1>1, <1>2 DEF AppRow
<1>4. deployed' \in Nat /\ worker' \in Nat /\ active' \in Nat
  BY <1>1 DEF Deploy, WorkerInstalled, ControllerChange, HandoffTypes
<1>5. HandoffTypes'
  BY <1>1, <1>2, <1>3, <1>4 DEF HandoffTypes
<1> QED BY <1>2, <1>5, StillStep

\* The page gives up what it prepared, and may have edited its composer.
LEMMA WithdrawStep ==
  ASSUME HandoffInv, UNCHANGED <<deployed, worker, active, lapses>>,
         NEW d \in Drafts \cup {Nothing}, app' = Invalidated([app EXCEPT !.text = d]),
         rows' = Drop(Withdrawn) \/ rows' = rows, task' = task \/ task' = Stale \/ (task' = NoTask /\ ~Keeping),
         carried' \in {carried, Nothing},
         d = app.text \/ (carried' = Nothing /\ ~Unread(app) /\ ~Pending(app) /\ ~Keeping)
  PROVE  HandoffInv'
<1> USE NothingIs
<1>1. HandoffTypes /\ app \in AppRow /\ task \in TaskRow /\ RowTypes(rows) /\ StageFine
  BY DEF HandoffInv, HandoffFine, HandoffTypes
<1>2. PICK p : p = [app EXCEPT !.text = d]
  OBVIOUS
<1>3. /\ p \in AppRow /\ p.claim = app.claim /\ p.url = app.url /\ p.consumed = app.consumed /\ p.kept = app.kept
      /\ p.durable = app.durable /\ p.text = d /\ p.who = app.who /\ p.owner = app.owner
  BY <1>1, <1>2 DEF AppRow
<1>4. /\ app' \in AppRow /\ app'.claim = app.claim /\ app'.url = app.url /\ app'.consumed = app.consumed
      /\ app'.kept = app.kept /\ app'.durable = app.durable /\ app'.text = d /\ app'.who = app.who
      /\ app'.owner = app.owner /\ app'.ready = Nothing
  BY <1>2, <1>3, InvalidatedIs
<1>5. /\ RowTypes(rows') /\ DOMAIN rows' \subseteq DOMAIN rows /\ \A i \in DOMAIN rows' : rows'[i].text = rows[i].text
      /\ app.claim \in DOMAIN rows => app.claim \in DOMAIN rows'
  BY <1>1, WithdrawnIs, DropIs
<1>6. /\ task' \in TaskRow
      /\ \/ task' = NoTask /\ ~Keeping
         \/ /\ task'.by = task.by /\ task'.step = task.step /\ task'.id = task.id /\ task'.text = task.text
            /\ task'.who = task.who /\ task'.row = task.row
  BY <1>1, StaleIs, NoTaskIs
<1>7. Holder(app)' = Holder(app)
  BY <1>4 DEF Holder
<1>8. HandoffTypes'
  BY <1>1, <1>4, <1>5, <1>6 DEF HandoffTypes
<1> QED BY <1>4, <1>5, <1>6, <1>7, <1>8, QuietStep

LEMMA SameText ==
  ASSUME HandoffInv
  PROVE  [app EXCEPT !.text = app.text] = app /\ app.text \in Drafts \cup {Nothing}
BY DEF HandoffInv, HandoffTypes, AppRow

LEMMA ActivationTimeoutStep ==
  ASSUME HandoffInv, ActivationTimeout
  PROVE  HandoffInv'
<1>1. app' = Invalidated([app EXCEPT !.text = app.text])
  BY SameText DEF ActivationTimeout
<1> QED BY <1>1, SameText, WithdrawStep DEF ActivationTimeout

LEMMA EditableIs ==
  ASSUME Editable
  PROVE  ~Unread(app) /\ ~Pending(app) /\ ~Keeping /\ app.who # Nothing /\ app.owner = Nothing
BY DEF Editable, Keeping

LEMMA TypeStep ==
  ASSUME HandoffInv, NEW d \in Drafts \cup {Nothing}, Type(d)
  PROVE  HandoffInv'
BY EditableIs, WithdrawStep DEF Type

LEMMA SubmitDraftStep ==
  ASSUME HandoffInv, SubmitDraft
  PROVE  HandoffInv'
<1> USE NothingIs
<1>1. /\ ~Unread(app) /\ ~Pending(app) /\ ~Keeping /\ carried' = Nothing
      /\ UNCHANGED <<deployed, worker, active, lapses>>
  BY EditableIs DEF SubmitDraft
<1>2. CASE app.text \in Pictures
  BY <1>1, <1>2, WithdrawStep DEF SubmitDraft
<1>3. CASE app.text \notin Pictures
  <2>1. HandoffTypes /\ app \in AppRow /\ StageFine
    BY DEF HandoffInv, HandoffFine, HandoffTypes
  <2>2. app' = [app EXCEPT !.text = Nothing] /\ rows' = rows /\ task' = task
    BY <1>3 DEF SubmitDraft
  <2>3. /\ app' \in AppRow /\ app'.claim = app.claim /\ app'.url = app.url /\ app'.consumed = app.consumed
        /\ app'.kept = app.kept /\ app'.durable = app.durable /\ app'.who = app.who
        /\ app'.owner = app.owner /\ app'.ready = app.ready
    BY <2>1, <2>2 DEF AppRow
  <2>4. Holder(app)' = Holder(app)
    BY <2>3 DEF Holder
  <2>5. HandoffTypes'
    BY <1>1, <2>1, <2>2, <2>3 DEF HandoffTypes
  <2>6. app.ready # Nothing => app.ready.id \in DOMAIN rows
    BY <2>1 DEF StageFine
  <2> QED BY <1>1, <2>2, <2>3, <2>4, <2>5, <2>6, QuietStep
<1> QED BY <1>2, <1>3

LEMMA RowExpiresStep ==
  ASSUME HandoffInv, RowExpires
  PROVE  HandoffInv'
<1>1. HandoffTypes /\ RowTypes(rows) /\ StageFine
  BY DEF HandoffInv, HandoffFine, HandoffTypes
<1>2. UNCHANGED <<app, task, carried, lapses, deployed, worker, active>>
  BY DEF RowExpires
<1>3. PICK i \in DOMAIN rows : rows' = [rows EXCEPT ![i].fresh = FALSE]
  BY DEF RowExpires
<1>4. PICK r, q : r = rows[i] /\ q = [r EXCEPT !.fresh = FALSE]
  OBVIOUS
<1>5. r \in HandoffRow /\ q \in HandoffRow /\ q.text = r.text
  BY <1>1, <1>3, <1>4 DEF RowTypes, HandoffRow
<1>6. /\ DOMAIN rows' = DOMAIN rows /\ rows'[i] = q /\ \A j \in DOMAIN rows \ {i} : rows'[j] = rows[j]
      /\ rows' = [j \in DOMAIN rows |-> rows'[j]]
  BY <1>3, <1>4
<1>7. RowTypes(rows') /\ \A j \in DOMAIN rows' : rows'[j].text = rows[j].text
  BY <1>1, <1>3, <1>4, <1>5, <1>6 DEF RowTypes
<1>8. HandoffTypes'
  BY <1>1, <1>2, <1>7 DEF HandoffTypes
<1>9. app.ready # Nothing => app.ready.id \in DOMAIN rows
  BY <1>1 DEF StageFine
<1>10. Holder(app)' = Holder(app)
  BY <1>2 DEF Holder
<1> QED BY <1>2, <1>6, <1>7, <1>8, <1>9, <1>10, QuietStep

LEMMA ExpelledStep ==
  ASSUME HandoffInv, Expelled
  PROVE  HandoffInv'
<1> USE NothingIs
<1>1. HandoffTypes /\ app \in AppRow /\ task \in TaskRow /\ StageFine /\ app.who # Nothing /\ ~Keeping
  BY DEF HandoffInv, HandoffFine, HandoffTypes, Expelled, Keeping
<1>2. UNCHANGED <<deployed, worker, active, rows, carried, lapses>> /\ task' \in {NoTask, task}
      /\ (task.by = "enter" => task' = NoTask)
  BY DEF Expelled
<1>3. PICK r : r = IF app.ready = Nothing THEN app.ready ELSE [app.ready EXCEPT !.mine = FALSE]
  OBVIOUS
<1>4. /\ r \in ReadyRow \cup {Nothing} /\ (app.ready = Nothing => r = Nothing)
      /\ app.ready # Nothing => r # Nothing /\ r.id = app.ready.id /\ r.text = app.ready.text
                                /\ app.ready.id \in DOMAIN rows
  <2>1. app.ready \in ReadyRow \cup {Nothing}
    BY <1>1, AppIs
  <2>2. CASE app.ready # Nothing
    <3>1. PICK e : e = app.ready
      OBVIOUS
    <3>2. e \in ReadyRow /\ r = [e EXCEPT !.mine = FALSE]
      BY <1>3, <2>1, <2>2, <3>1
    <3>3. r \in ReadyRow /\ r.id = e.id /\ r.text = e.text
      BY <3>2 DEF ReadyRow
    <3> QED BY <1>1, <2>2, <3>1, <3>3 DEF StageFine
  <2> QED BY <1>3, <2>2
<1>5. app' = [app EXCEPT !.who = Nothing, !.owner = app.who, !.ready = r]
  BY <1>3 DEF Expelled
<1>6. /\ app' \in AppRow /\ app'.claim = app.claim /\ app'.url = app.url /\ app'.consumed = app.consumed
      /\ app'.kept = app.kept /\ app'.durable = app.durable /\ app'.text = app.text /\ app'.who = Nothing
      /\ app'.owner = app.who /\ app'.ready = r
  BY <1>1, <1>4, <1>5 DEF AppRow
<1>7. HandoffTypes'
  BY <1>1, <1>2, <1>6, NoTaskIs DEF HandoffTypes
<1>8. Holder(app)' = Holder(app)
  BY <1>1, <1>6 DEF Holder
<1>9. app'.who = Nothing /\ task'.by # "enter"
  BY <1>2, <1>6, NoTaskIs
<1> QED BY <1>1, <1>2, <1>4, <1>6, <1>7, <1>8, <1>9, QuietStep

LEMMA StageFailsStep ==
  ASSUME HandoffInv, StageFails
  PROVE  HandoffInv'
<1>1. task' = NoTask /\ ~Keeping /\ UNCHANGED <<deployed, worker, active, rows, carried, lapses>>
  BY DEF StageFails, Keeping
<1>2. CASE app' = Invalidated(app)
  BY <1>1, <1>2, SameText, WithdrawStep
<1>3. CASE app' = app
  <2>1. HandoffTypes'
    BY <1>1, <1>3, NoTaskIs DEF HandoffInv, HandoffTypes
  <2>2. Holder(app)' = Holder(app)
    BY <1>3 DEF Holder
  <2>3. app.ready # Nothing => app.ready.id \in DOMAIN rows
    BY DEF HandoffInv, HandoffFine, StageFine
  <2> QED BY <1>1, <1>3, <2>1, <2>2, <2>3, QuietStep
<1> QED BY <1>2, <1>3 DEF StageFails

-----------------------------------------------------------------------------
(* Steps that end a claim, or follow it.                                   *)

\* The kept record finds its place, or is given up.
LEMMA FinishStep ==
  ASSUME HandoffInv, HandoffTypes', Pending(app),
         app'.claim = app.claim, app'.consumed = app.consumed, app'.kept = Nothing, ~app'.url, ~app'.durable,
         task'.by = "enter" => app'.who # Nothing /\ task'.step = "settle",
         task'.by # "chain",
         task'.by \in Stagings \cup {"migrate"} =>
           /\ task'.by = task.by /\ task'.id = task.id /\ task'.text = task.text /\ task'.who = task.who
           /\ task'.row = task.row,
         DOMAIN rows' \subseteq DOMAIN rows, \A i \in DOMAIN rows' : rows'[i].text = rows[i].text,
         \/ app'.ready = Nothing
         \/ app'.ready = app.ready /\ DOMAIN rows \ {app.claim} \subseteq DOMAIN rows',
         lapses' = {} => lapses = {} /\ carried' \in {Nothing, app'.text}
  PROVE  HandoffInv'
<1> USE NothingIs
<1>0. HandoffTypes /\ ClaimFine /\ KeptFine /\ StageFine
  BY DEF HandoffInv, HandoffFine
<1>1. ~Unread(app)' /\ ~Pending(app)' /\ ~Keeping'
  BY <1>0 DEF Unread, Pending, Keeping, KeptFine
<1>2. ClaimFine'
  BY <1>1 DEF ClaimFine, Keeping
<1>3. KeptFine'
  BY <1>0, <1>1 DEF KeptFine
<1>4. StageFine'
  BY <1>0 DEF StageFine
<1>5. ChainFine' /\ AgreeFine' /\ (lapses' = {} => Owed')
  BY <1>1 DEF ChainFine, AgreeFine, Owed
<1> QED BY <1>2, <1>3, <1>4, <1>5 DEF HandoffInv, HandoffFine

LEMMA PendingIs ==
  ASSUME HandoffInv, Pending(app)
  PROVE  /\ ~Unread(app) /\ ~Keeping /\ app.claim \in Handoffs /\ app.kept \in HandoffRow /\ app.kept.text \in Drafts
         /\ app.kept.by \in Accounts /\ app.kept.by = Holder(app)
         /\ lapses = {} => carried \in {Nothing, app.kept.text}
         /\ app.durable => app.claim \in DOMAIN rows /\ rows[app.claim].text = app.kept.text
<1> USE NothingIs
<1>1. app.kept \in HandoffRow /\ app.claim \in Handoffs \cup {Nothing}
  BY AppIs DEF HandoffInv, HandoffTypes, Pending
<1> QED BY <1>1, RowIs DEF HandoffInv, HandoffFine, KeptFine, ClaimFine, Owed

LEMMA AssignStep ==
  ASSUME HandoffInv, Assign
  PROVE  HandoffInv'
<1> USE NothingIs
<1>1. /\ HandoffTypes /\ app \in AppRow /\ RowTypes(rows) /\ task \in TaskRow /\ ChainFine
      /\ Pending(app) /\ app.who # Nothing /\ task.by # "enter"
      /\ UNCHANGED <<deployed, worker, active, task, carried, lapses>>
  BY DEF HandoffInv, HandoffFine, HandoffTypes, Assign
<1>2. PICK p : p = [app EXCEPT !.text = app.kept.text]
  OBVIOUS
<1>3. /\ p \in AppRow /\ p.claim = app.claim /\ p.consumed = app.consumed /\ p.text = app.kept.text
      /\ p.ready = app.ready
  BY <1>1, <1>2, PendingIs DEF AppRow
<1>4. /\ app' \in AppRow /\ app'.kept = Nothing /\ ~app'.durable /\ ~app'.url /\ app'.text = app.kept.text
      /\ app'.claim = app.claim /\ app'.consumed = app.consumed /\ app'.ready = app.ready
  BY <1>2, <1>3, FinishedIs DEF Assign
<1>5. /\ RowTypes(rows') /\ DOMAIN rows' = DOMAIN rows \ {app.claim}
      /\ \A i \in DOMAIN rows' : rows'[i] = rows[i]
  BY <1>1, DropIs DEF Assign
<1>6. HandoffTypes'
  BY <1>1, <1>4, <1>5 DEF HandoffTypes
<1>7. task.by # "chain"
  BY <1>1, PendingIs DEF ChainFine
<1> QED BY <1>1, <1>4, <1>5, <1>6, <1>7, PendingIs, FinishStep

LEMMA LogoutStep ==
  ASSUME HandoffInv, Logout
  PROVE  HandoffInv'
<1> USE NothingIs
<1>1. /\ HandoffTypes /\ app \in AppRow /\ RowTypes(rows) /\ task \in TaskRow /\ ChainFine /\ StageFine
      /\ app.who # Nothing /\ task.by # "enter" /\ task' = Stale /\ carried' = Nothing
      /\ UNCHANGED <<deployed, worker, active, lapses>>
  BY DEF HandoffInv, HandoffFine, HandoffTypes, Logout
<1>2. PICK p : p = [app EXCEPT !.who = Nothing, !.owner = Nothing, !.text = Nothing]
  OBVIOUS
<1>2a. PICK out : out = Invalidated(p)
  OBVIOUS
<1>3. /\ p \in AppRow /\ p.claim = app.claim /\ p.consumed = app.consumed /\ p.text = Nothing /\ p.who = Nothing
      /\ p.owner = Nothing /\ p.url = app.url /\ p.kept = app.kept /\ p.durable = app.durable
  BY <1>1, <1>2 DEF AppRow
<1>4. /\ out \in AppRow /\ out.claim = app.claim /\ out.consumed = app.consumed /\ out.text = Nothing
      /\ out.who = Nothing /\ out.owner = Nothing /\ out.url = app.url /\ out.kept = app.kept
      /\ out.durable = app.durable /\ out.ready = Nothing
  BY <1>2a, <1>3, InvalidatedIs
<1>5. /\ task' \in TaskRow /\ task'.by = task.by /\ task'.step = task.step /\ task'.id = task.id
      /\ task'.text = task.text /\ task'.who = task.who /\ task'.row = task.row
  BY <1>1, StaleIs
<1>6. CASE Pending(app)
  <2>0. PICK gone : gone = Withdrawn \cup {app.claim}
    OBVIOUS
  <2>1. app' = Finished(out) /\ rows' = Drop(gone)
    BY <1>2, <1>2a, <1>6, <2>0 DEF Logout
  <2>2. /\ app' \in AppRow /\ app'.kept = Nothing /\ ~app'.durable /\ ~app'.url /\ app'.text = Nothing
        /\ app'.claim = app.claim /\ app'.consumed = app.consumed /\ app'.ready = Nothing
    BY <1>4, <2>1, FinishedIs
  <2>3. RowTypes(rows') /\ DOMAIN rows' \subseteq DOMAIN rows /\ \A i \in DOMAIN rows' : rows'[i] = rows[i]
    <3>1. PICK store : store = Drop(gone)
      OBVIOUS
    <3>2. RowTypes(store) /\ DOMAIN store = DOMAIN rows \ gone /\ \A i \in DOMAIN store : store[i] = rows[i]
      BY <1>1, <3>1, DropIs
    <3> QED BY <2>1, <3>1, <3>2
  <2>4. HandoffTypes'
    BY <1>1, <1>5, <2>2, <2>3 DEF HandoffTypes
  <2>5. task.by # "chain"
    BY <1>1, <1>6, PendingIs DEF ChainFine
  <2> QED BY <1>1, <1>5, <1>6, <2>2, <2>3, <2>4, <2>5, FinishStep
<1>7. CASE ~Pending(app)
  <2>0. PICK gone : gone = Withdrawn
    OBVIOUS
  <2>1. app' = out /\ rows' = Drop(gone)
    <3>1. Withdrawn \cup {} = gone
      BY <2>0
    <3> QED BY <1>2, <1>2a, <1>7, <3>1 DEF Logout
  <2>2. /\ RowTypes(rows') /\ DOMAIN rows' \subseteq DOMAIN rows /\ \A i \in DOMAIN rows' : rows'[i] = rows[i]
        /\ app.claim \in DOMAIN rows => app.claim \in DOMAIN rows'
    <3>1. PICK store : store = Drop(gone)
      OBVIOUS
    <3>2. /\ RowTypes(store) /\ DOMAIN store = DOMAIN rows \ gone /\ \A i \in DOMAIN store : store[i] = rows[i]
      BY <1>1, <3>1, DropIs
    <3>3. app.claim \notin gone
      BY <1>1, <2>0, WithdrawnIs
    <3> QED BY <2>1, <3>1, <3>2, <3>3
  <2>3. HandoffTypes'
    BY <1>1, <1>4, <1>5, <2>1, <2>2 DEF HandoffTypes
  <2> QED BY <1>1, <1>4, <1>5, <1>7, <2>1, <2>2, <2>3, QuietStep
<1> QED BY <1>6, <1>7

LEMMA ReloadStep ==
  ASSUME HandoffInv, Reload
  PROVE  HandoffInv'
<1> USE NothingIs
<1>0. HandoffTypes /\ ClaimFine /\ KeptFine /\ AgreeFine /\ app \in AppRow
  BY DEF HandoffInv, HandoffFine, HandoffTypes
<1>1. /\ task' = NoTask /\ UNCHANGED <<deployed, worker, active, rows, lapses>>
      /\ carried' = IF app.url /\ app.claim \in DOMAIN rows /\ rows[app.claim].text = carried
                    THEN carried ELSE Nothing
  BY DEF Reload
<1>2. PICK d \in {Nothing, app.text} : app' = Loaded(IF app.url THEN app.claim ELSE Nothing, app.proof, d)
  BY DEF Reload
<1>3. PICK c : c = IF app.url THEN app.claim ELSE Nothing
  OBVIOUS
<1>4. c \in Handoffs \cup {Nothing} /\ d \in Drafts \cup {Nothing} /\ app.proof \in Nat /\ deployed \in Nat
  BY <1>0, <1>2, <1>3, AppIs DEF HandoffTypes
<1>5. /\ app' \in AppRow /\ app'.text = d /\ app'.claim = c /\ (app'.url <=> c # Nothing) /\ ~app'.consumed
      /\ app'.kept = Nothing /\ app'.ready = Nothing
  BY <1>2, <1>3, <1>4, LoadedIs
<1>6. HandoffTypes'
  BY <1>0, <1>1, <1>5, NoTaskIs DEF HandoffTypes
<1>7. Nothing \notin DOMAIN rows
  BY <1>0 DEF HandoffTypes, RowTypes
<1>8. ASSUME d # Nothing, c \in DOMAIN rows
      PROVE  d = rows[c].text
  <2>1. app.url /\ c = app.claim /\ d = app.text
    BY <1>2, <1>3, <1>7, <1>8
  <2>2. Unread(app) \/ (Pending(app) /\ rows[c].text = app.kept.text)
    BY <1>0, <1>8, <2>1 DEF ClaimFine, KeptFine
  <2> QED BY <1>0, <1>8, <2>1, <2>2 DEF AgreeFine
<1>9. carried' # Nothing => c \in DOMAIN rows' /\ rows'[c].text = carried'
  BY <1>1, <1>3
<1> QED BY <1>1, <1>5, <1>6, <1>8, <1>9, LoadStep

LEMMA EnterTask ==
  ASSUME NEW s \in TaskSteps, NEW t, t = [NoTask EXCEPT !.by = "enter", !.step = s]
  PROVE  t \in TaskRow /\ t.by = "enter" /\ t.step = s
BY DEF NoTask, TaskRow, Tasks

\* The sign in of the owner, or of anybody when the page has none.
LEMMA ReturnStep ==
  ASSUME HandoffInv, HandoffTypes', app.who = Nothing, app'.who # Nothing, task.by = "none",
         app'.claim = app.claim, app'.url = app.url, app'.consumed = app.consumed, app'.kept = app.kept,
         app'.durable = app.durable,
         app'.text = app.text \/ (app'.text = Nothing /\ carried' = Nothing),
         Pending(app) => app.kept.by = app'.who,
         task'.by = "enter", task'.step = IF Unread(app) THEN "take" ELSE "settle",
         DOMAIN rows' \subseteq DOMAIN rows, \A i \in DOMAIN rows' : rows'[i].text = rows[i].text,
         app.claim \in DOMAIN rows => app.claim \in DOMAIN rows',
         app'.ready = Nothing \/ (app'.ready = app.ready /\ rows' = rows),
         carried' \in {carried, Nothing}, lapses' = lapses
  PROVE  HandoffInv'
<1> USE NothingIs
<1>0. HandoffTypes /\ ClaimFine /\ KeptFine /\ StageFine /\ ChainFine /\ AgreeFine /\ (lapses = {} => Owed)
  BY DEF HandoffInv, HandoffFine
<1>1. (Unread(app)' <=> Unread(app)) /\ (Pending(app)' <=> Pending(app)) /\ ~Keeping /\ ~Keeping'
  BY DEF Unread, Pending, Keeping
<1>2. ClaimFine'
  BY <1>0, <1>1 DEF ClaimFine, Keeping
<1>3. KeptFine'
  BY <1>0, <1>1 DEF KeptFine, Holder
<1>4. StageFine' /\ ChainFine'
  BY <1>0 DEF StageFine, ChainFine, Stagings
<1>5. AgreeFine'
  BY <1>0, <1>1 DEF AgreeFine
<1>6. lapses' = {} => Owed'
  BY <1>0, <1>1 DEF Owed
<1> QED BY <1>2, <1>3, <1>4, <1>5, <1>6 DEF HandoffInv, HandoffFine

LEMMA EnterStep ==
  ASSUME HandoffInv, NEW a \in Accounts, Enter(a)
  PROVE  HandoffInv'
<1> USE NothingIs
<1>1. /\ HandoffTypes /\ app \in AppRow /\ RowTypes(rows) /\ StageFine
      /\ app.who = Nothing /\ task.by = "none" /\ UNCHANGED <<deployed, worker, active, lapses>>
  BY DEF HandoffInv, HandoffFine, HandoffTypes, Enter
<1>2. PICK p : p = [app EXCEPT !.text = Nothing, !.owner = Nothing]
  OBVIOUS
<1>3. PICK empty : empty = Invalidated(p)
  OBVIOUS
<1>4. /\ p \in AppRow /\ p.claim = app.claim /\ p.consumed = app.consumed /\ p.text = Nothing /\ p.url = app.url
      /\ p.kept = app.kept /\ p.durable = app.durable
  BY <1>1, <1>2 DEF AppRow
<1>5. /\ empty \in AppRow /\ empty.claim = app.claim /\ empty.consumed = app.consumed /\ empty.text = Nothing
      /\ empty.url = app.url /\ empty.kept = app.kept /\ empty.durable = app.durable /\ empty.ready = Nothing
  BY <1>3, <1>4, InvalidatedIs
<1>6. CASE app.owner \notin {Nothing, a}
  <2>0. PICK gone : gone = Withdrawn \cup (IF Pending(app) THEN {app.claim} ELSE {})
    OBVIOUS
  <2>1. rows' = Drop(gone) /\ carried' = Nothing
    BY <1>6, <2>0 DEF Enter
  <2>2. RowTypes(rows') /\ DOMAIN rows' = DOMAIN rows \ gone /\ \A i \in DOMAIN rows' : rows'[i] = rows[i]
    <3>1. PICK store : store = Drop(gone)
      OBVIOUS
    <3>2. RowTypes(store) /\ DOMAIN store = DOMAIN rows \ gone /\ \A i \in DOMAIN store : store[i] = rows[i]
      BY <1>1, <3>1, DropIs
    <3> QED BY <2>1, <3>1, <3>2
  <2>3. CASE Pending(app)
    <3>1. PICK mine : mine = Finished(empty)
      OBVIOUS
    <3>2. /\ mine \in AppRow /\ mine.kept = Nothing /\ ~mine.durable /\ ~mine.url /\ mine.text = Nothing
          /\ mine.claim = app.claim /\ mine.consumed = app.consumed /\ mine.ready = Nothing
      BY <1>5, <3>1, FinishedIs
    <3>3. ~Unread(mine)
      BY <2>3, <3>2, PendingIs DEF Unread
    <3>4. app' = [mine EXCEPT !.who = a] /\ task' = [NoTask EXCEPT !.by = "enter", !.step = "settle"]
      BY <1>2, <1>3, <1>6, <2>3, <3>1, <3>3 DEF Enter
    <3>5. /\ app' \in AppRow /\ app'.kept = Nothing /\ ~app'.durable /\ ~app'.url /\ app'.text = Nothing
          /\ app'.claim = app.claim /\ app'.consumed = app.consumed /\ app'.ready = Nothing /\ app'.who = a
      BY <3>2, <3>4 DEF AppRow
    <3>6. task' \in TaskRow /\ task'.by = "enter" /\ task'.step = "settle"
      BY <3>4, EnterTask DEF TaskSteps
    <3>7. HandoffTypes'
      BY <1>1, <2>1, <2>2, <3>5, <3>6 DEF HandoffTypes
    <3> QED BY <1>1, <2>1, <2>2, <2>3, <3>5, <3>6, <3>7, FinishStep DEF Stagings
  <2>4. CASE ~Pending(app)
    <3>1. Unread(empty) <=> Unread(app)
      BY <1>5 DEF Unread
    <3>2. PICK s \in TaskSteps : s = IF Unread(app) THEN "take" ELSE "settle"
      BY DEF TaskSteps
    <3>3. app' = [empty EXCEPT !.who = a] /\ task' = [NoTask EXCEPT !.by = "enter", !.step = s]
      BY <1>2, <1>3, <1>6, <2>4, <3>1, <3>2 DEF Enter
    <3>4. /\ app' \in AppRow /\ app'.claim = app.claim /\ app'.consumed = app.consumed /\ app'.text = Nothing
          /\ app'.url = app.url /\ app'.kept = app.kept /\ app'.durable = app.durable /\ app'.ready = Nothing
          /\ app'.who = a
      BY <1>5, <3>3 DEF AppRow
    <3>5. task' \in TaskRow /\ task'.by = "enter" /\ task'.step = s
      BY <3>3, EnterTask
    <3>6. HandoffTypes'
      BY <1>1, <2>1, <2>2, <3>4, <3>5 DEF HandoffTypes
    <3>7. app.claim \notin gone
      BY <1>1, <2>0, <2>4, WithdrawnIs
    <3> QED BY <1>1, <2>1, <2>2, <2>4, <3>2, <3>4, <3>5, <3>6, <3>7, ReturnStep
  <2> QED BY <2>3, <2>4
<1>7. CASE app.owner \in {Nothing, a}
  <2>1. PICK s \in TaskSteps : s = IF Unread(app) THEN "take" ELSE "settle"
    BY DEF TaskSteps
  <2>2. /\ app' = [app EXCEPT !.who = a] /\ task' = [NoTask EXCEPT !.by = "enter", !.step = s]
        /\ rows' = rows /\ carried' = carried
    BY <1>7, <2>1 DEF Enter
  <2>3. /\ app' \in AppRow /\ app'.claim = app.claim /\ app'.consumed = app.consumed /\ app'.text = app.text
        /\ app'.url = app.url /\ app'.kept = app.kept /\ app'.durable = app.durable /\ app'.ready = app.ready
        /\ app'.who = a
    BY <1>1, <2>2 DEF AppRow
  <2>4. task' \in TaskRow /\ task'.by = "enter" /\ task'.step = s
    BY <2>2, EnterTask
  <2>5. HandoffTypes'
    BY <1>1, <2>2, <2>3, <2>4 DEF HandoffTypes
  <2>6. Pending(app) => app.kept.by = a
    BY <1>1, <1>7, PendingIs DEF Holder
  <2> QED BY <1>1, <2>1, <2>2, <2>3, <2>4, <2>5, <2>6, ReturnStep
<1> QED BY <1>6, <1>7

LEMMA TakeRowStep ==
  ASSUME HandoffInv, TakeRow
  PROVE  HandoffInv'
<1> USE NothingIs
<1>1. /\ HandoffTypes /\ app \in AppRow /\ RowTypes(rows) /\ task \in TaskRow /\ carried \in Drafts \cup {Nothing}
      /\ task.by = "enter" /\ task.step = "take" /\ UNCHANGED <<deployed, worker, active>>
  BY DEF HandoffInv, HandoffTypes, TakeRow
<1>2. /\ ClaimFine /\ StageFine /\ AgreeFine /\ Unread(app) /\ app.url /\ ~Pending(app) /\ app.who # Nothing
      /\ app.claim \in Handoffs
  <2>1. ClaimFine /\ StageFine /\ AgreeFine
    BY DEF HandoffInv, HandoffFine
  <2>2. Unread(app) /\ app.url /\ app.who # Nothing
    BY <1>1, <2>1 DEF ClaimFine
  <2>3. app.claim \in Handoffs
    BY <1>1, <2>2, AppIs DEF Unread
  <2> QED BY <2>1, <2>2, <2>3, PendingIs
<1>3. lapses = {} => carried = Nothing \/ (app.claim \in DOMAIN rows /\ rows[app.claim].text = carried)
  BY <1>2 DEF HandoffInv, Owed
<1>4. PICK t : t = [task EXCEPT !.step = "settle", !.row = Nothing]
  OBVIOUS
<1>5. t \in TaskRow /\ t.by = "enter" /\ t.step = "settle"
  <2>1. "settle" \in TaskSteps
    BY DEF TaskSteps
  <2> QED BY <1>1, <1>4, <2>1 DEF TaskRow
\* The store could not be read.
<1>6. CASE task' = t /\ UNCHANGED <<rows, app, carried, lapses>>
  <2>1. HandoffTypes'
    BY <1>1, <1>5, <1>6 DEF HandoffTypes
  <2>2. Unread(app)' /\ ~Pending(app)' /\ ~Keeping'
    BY <1>2, <1>5, <1>6 DEF Unread, Pending, Keeping
  <2>3. ClaimFine' /\ KeptFine' /\ ChainFine'
    BY <1>2, <1>5, <1>6, <2>2 DEF ClaimFine, KeptFine, ChainFine, Keeping
  <2>4. StageFine'
    BY <1>2, <1>5, <1>6 DEF StageFine, Stagings
  <2>5. AgreeFine' /\ (lapses' = {} => Owed')
    BY <1>2, <1>3, <1>6, <2>2 DEF AgreeFine, Owed
  <2> QED BY <2>1, <2>3, <2>4, <2>5 DEF HandoffInv, HandoffFine
\* There is no row, or none of this account and release.
<1>7. CASE /\ task' = t /\ app' = [app EXCEPT !.consumed = TRUE, !.url = FALSE]
           /\ RowTypes(rows') /\ DOMAIN rows' = DOMAIN rows \ {app.claim}
           /\ \A i \in DOMAIN rows' : rows'[i] = rows[i]
           /\ carried' \in {carried, Nothing} /\ (lapses' = {} => lapses = {} /\ carried' = Nothing)
  <2>1. /\ app' \in AppRow /\ app'.text = app.text /\ app'.who = app.who /\ app'.claim = app.claim
        /\ app'.consumed /\ ~app'.url /\ app'.kept = app.kept /\ app'.ready = app.ready
    <3>1. PICK q : q = [app EXCEPT !.consumed = TRUE, !.url = FALSE]
      OBVIOUS
    <3>2. /\ q \in AppRow /\ q.text = app.text /\ q.who = app.who /\ q.claim = app.claim
          /\ q.consumed /\ ~q.url /\ q.kept = app.kept /\ q.ready = app.ready
      BY <1>1, <3>1 DEF AppRow
    <3> QED BY <1>7, <3>1, <3>2
  <2>2. HandoffTypes'
    BY <1>1, <1>5, <1>7, <2>1 DEF HandoffTypes
  <2>3. ~Unread(app)' /\ ~Pending(app)' /\ ~Keeping'
    BY <1>2, <1>5, <1>7, <2>1 DEF Unread, Pending, Keeping
  <2>4. ClaimFine' /\ KeptFine' /\ ChainFine'
    BY <1>2, <1>5, <1>7, <2>1, <2>3 DEF ClaimFine, KeptFine, ChainFine, Keeping
  <2>5. StageFine'
    <3>1. task'.by \notin Stagings
      BY <1>5, <1>7 DEF Stagings
    <3>2. app.ready # Nothing => app.ready.id \in DOMAIN rows' /\ rows'[app.ready.id] = rows[app.ready.id]
      BY <1>2, <1>7 DEF StageFine
    <3> QED BY <1>2, <2>1, <3>1, <3>2 DEF StageFine
  <2>6. AgreeFine' /\ (lapses' = {} => Owed')
    BY <1>7, <2>1, <2>3 DEF AgreeFine, Owed
  <2> QED BY <2>2, <2>4, <2>5, <2>6 DEF HandoffInv, HandoffFine
\* The row is in the handler's hands alone.
<1>8. CASE /\ app.claim \in DOMAIN rows /\ rows' = Drop({app.claim}) /\ Valid(rows[app.claim])
           /\ task' = [task EXCEPT !.step = "keep", !.row = rows[app.claim]]
           /\ app' = [app EXCEPT !.consumed = TRUE] /\ UNCHANGED <<carried, lapses>>
  <2>1. PICK r : r = rows[app.claim]
    OBVIOUS
  <2>2. r \in HandoffRow /\ r.by = app.who
    BY <1>1, <1>8, <2>1 DEF RowTypes, Valid, Ours
  <2>3. task' \in TaskRow /\ task'.by = "enter" /\ task'.step = "keep" /\ task'.row = r
    <3>1. PICK u : u = [task EXCEPT !.step = "keep", !.row = r]
      OBVIOUS
    <3>2. "keep" \in TaskSteps
      BY DEF TaskSteps
    <3>3. u \in TaskRow /\ u.by = "enter" /\ u.step = "keep" /\ u.row = r
      BY <1>1, <2>2, <3>1, <3>2 DEF TaskRow
    <3> QED BY <1>8, <2>1, <3>1, <3>3
  <2>4. /\ app' \in AppRow /\ app'.text = app.text /\ app'.who = app.who /\ app'.claim = app.claim
        /\ app'.consumed /\ app'.url /\ app'.kept = app.kept /\ app'.ready = app.ready
    BY <1>1, <1>2, <1>8 DEF AppRow
  <2>5. RowTypes(rows') /\ DOMAIN rows' = DOMAIN rows \ {app.claim} /\ \A i \in DOMAIN rows' : rows'[i] = rows[i]
    BY <1>1, <1>8, DropIs
  <2>6. HandoffTypes'
    BY <1>1, <1>8, <2>3, <2>4, <2>5 DEF HandoffTypes
  <2>7. ~Unread(app)' /\ ~Pending(app)' /\ Keeping'
    BY <1>2, <2>3, <2>4 DEF Unread, Pending, Keeping
  <2>8. ClaimFine' /\ KeptFine' /\ ChainFine'
    BY <1>2, <2>2, <2>3, <2>4, <2>5, <2>7 DEF ClaimFine, KeptFine, ChainFine, Keeping
  <2>9. StageFine'
    BY <1>2, <2>3, <2>4, <2>5 DEF StageFine, Stagings
  <2>10. AgreeFine'
    BY <1>2, <1>8, <2>1, <2>3, <2>4, <2>7 DEF AgreeFine
  <2>11. lapses' = {} => Owed'
    BY <1>3, <1>8, <2>1, <2>3, <2>7 DEF Owed
  <2> QED BY <2>6, <2>8, <2>9, <2>10, <2>11 DEF HandoffInv, HandoffFine
<1>9. CASE app.claim \notin DOMAIN rows
  <2>1. task' = t /\ (app' = app \/ app' = [app EXCEPT !.consumed = TRUE, !.url = FALSE])
        /\ UNCHANGED <<rows, carried, lapses>>
    BY <1>4, <1>9 DEF TakeRow
  <2>2. DOMAIN rows = DOMAIN rows \ {app.claim}
    BY <1>9
  <2> QED BY <1>1, <1>3, <1>6, <1>7, <1>9, <2>1, <2>2
<1>10. CASE app.claim \in DOMAIN rows /\ rows' = Drop({app.claim}) /\ ~Valid(rows[app.claim])
  <2>1. PICK r : r = rows[app.claim]
    OBVIOUS
  <2>2. CASE task' = t /\ UNCHANGED <<rows, app, carried, lapses>>
    BY <1>6, <2>2
  <2>3. CASE /\ task' = t /\ app' = [app EXCEPT !.consumed = TRUE, !.url = FALSE]
             /\ carried' = IF r.by = app.who THEN carried ELSE Nothing
             /\ lapses' = lapses \cup IF ~r.fresh THEN {"expired"}
                                      ELSE IF r.by = app.who THEN {"overtaken"} ELSE {}
    <3>1. RowTypes(rows') /\ DOMAIN rows' = DOMAIN rows \ {app.claim} /\ \A i \in DOMAIN rows' : rows'[i] = rows[i]
      BY <1>1, <1>10, DropIs
    <3>2. lapses' = {} => lapses = {} /\ carried' = Nothing
      BY <2>3
    <3> QED BY <1>7, <2>3, <3>1, <3>2
  <2> QED BY <1>4, <1>10, <2>1, <2>2, <2>3 DEF TakeRow
<1> QED BY <1>4, <1>6, <1>8, <1>9, <1>10 DEF TakeRow

LEMMA KeepRowStep ==
  ASSUME HandoffInv, KeepRow
  PROVE  HandoffInv'
<1> USE NothingIs
<1>1. /\ HandoffTypes /\ app \in AppRow /\ RowTypes(rows) /\ task \in TaskRow /\ Keeping
      /\ UNCHANGED <<deployed, worker, active, carried, lapses>>
  BY DEF HandoffInv, HandoffTypes, KeepRow, Keeping
<1>2. /\ StageFine /\ ~Unread(app) /\ app.url /\ ~Pending(app) /\ app.who # Nothing /\ app.claim \in Handoffs
      /\ app.claim \notin DOMAIN rows
      /\ task.row \in HandoffRow /\ task.row.by = app.who
  BY <1>1, AppIs, TaskIs DEF HandoffInv, HandoffFine, ClaimFine, Keeping
<1>3. app.text \in {Nothing, task.row.text} /\ (lapses = {} => carried \in {Nothing, task.row.text})
  BY <1>1, <1>2 DEF HandoffInv, HandoffFine, AgreeFine, Owed
<1>4. app.consumed
  BY <1>1, <1>2, AppIs DEF Unread
<1>5. PICK r : r = task.row
  OBVIOUS
<1>6. task' \in TaskRow /\ task'.by = "enter" /\ task'.step = "settle"
  <2>1. task' = [task EXCEPT !.step = "settle", !.row = Nothing]
    BY DEF KeepRow
  <2>2. PICK u : u = [task EXCEPT !.step = "settle", !.row = Nothing]
    OBVIOUS
  <2>3. "settle" \in TaskSteps
    BY DEF TaskSteps
  <2>4. u \in TaskRow /\ u.by = "enter" /\ u.step = "settle"
    BY <1>1, <2>2, <2>3 DEF TaskRow, Keeping
  <2> QED BY <2>1, <2>2, <2>4
<1>7. PICK b \in BOOLEAN :
        /\ app' \in AppRow /\ app'.text = app.text /\ app'.who = app.who /\ app'.claim = app.claim
        /\ app'.consumed = app.consumed /\ app'.url = b /\ app'.kept = r /\ app'.durable = b
        /\ app'.ready = app.ready
        /\ IF b THEN rows' = Put(app.claim, r) ELSE rows' = rows
  <2>1. CASE rows' = Put(app.claim, r) /\ app' = [app EXCEPT !.kept = r, !.durable = TRUE, !.installed = FALSE]
    <3>1. /\ app' \in AppRow /\ app'.text = app.text /\ app'.who = app.who /\ app'.claim = app.claim
          /\ app'.consumed = app.consumed /\ app'.url = TRUE /\ app'.kept = r /\ app'.durable = TRUE
          /\ app'.ready = app.ready
      BY <1>1, <1>2, <1>5, <2>1 DEF AppRow
    <3> QED BY <2>1, <3>1
  <2>2. CASE rows' = rows /\ app' = [app EXCEPT !.kept = r, !.durable = FALSE, !.installed = FALSE, !.url = FALSE]
    <3>1. /\ app' \in AppRow /\ app'.text = app.text /\ app'.who = app.who /\ app'.claim = app.claim
          /\ app'.consumed = app.consumed /\ app'.url = FALSE /\ app'.kept = r /\ app'.durable = FALSE
          /\ app'.ready = app.ready
      BY <1>1, <1>2, <1>5, <2>2 DEF AppRow
    <3> QED BY <2>2, <3>1
  <2> QED BY <1>5, <2>1, <2>2 DEF KeepRow
<1>8. /\ RowTypes(rows') /\ DOMAIN rows \subseteq DOMAIN rows' /\ \A i \in DOMAIN rows : rows'[i] = rows[i]
      /\ b => app.claim \in DOMAIN rows' /\ rows'[app.claim] = r
  <2>1. CASE b
    <3>1. PICK store, c : store = Put(c, r) /\ c = app.claim
      OBVIOUS
    <3>2. /\ RowTypes(store) /\ DOMAIN store = DOMAIN rows \cup {c} /\ store[c] = r
          /\ \A i \in DOMAIN rows \ {c} : store[i] = rows[i]
      BY <1>1, <1>2, <1>5, <3>1, PutIs
    <3> QED BY <1>2, <1>7, <2>1, <3>1, <3>2
  <2>2. CASE ~b
    BY <1>1, <1>7, <2>2
  <2> QED BY <2>1, <2>2
<1>9. HandoffTypes'
  BY <1>1, <1>6, <1>7, <1>8 DEF HandoffTypes
<1>10. ~Unread(app)' /\ Pending(app)' /\ ~Keeping'
  BY <1>2, <1>4, <1>5, <1>6, <1>7 DEF Unread, Pending, Keeping
<1>11. ClaimFine'
  BY <1>2, <1>6, <1>7, <1>10 DEF ClaimFine, Keeping
<1>12. KeptFine'
  BY <1>2, <1>5, <1>6, <1>7, <1>8, <1>10 DEF KeptFine, Holder
<1>13. StageFine' /\ ChainFine'
  BY <1>2, <1>6, <1>7, <1>8 DEF StageFine, ChainFine, Stagings
<1>14. AgreeFine' /\ (lapses' = {} => Owed')
  BY <1>1, <1>3, <1>5, <1>7, <1>10 DEF AgreeFine, Owed
<1> QED BY <1>9, <1>11, <1>12, <1>13, <1>14 DEF HandoffInv, HandoffFine

-----------------------------------------------------------------------------
(* The draft finds its place.                                              *)

LEMMA SettleStep ==
  ASSUME HandoffInv, Settle
  PROVE  HandoffInv'
<1> USE NothingIs
<1>1. /\ HandoffTypes /\ app \in AppRow /\ RowTypes(rows) /\ task \in TaskRow /\ StageFine /\ KeptFine /\ ClaimFine
      /\ task.by = "enter" /\ ~Keeping /\ task' = NoTask /\ app.who # Nothing
      /\ UNCHANGED <<deployed, worker, active, carried, lapses>>
  BY DEF HandoffInv, HandoffFine, HandoffTypes, Settle, Keeping, ClaimFine
<1>2. PICK p : p = [app EXCEPT !.owner = Nothing]
  OBVIOUS
<1>3. /\ p \in AppRow /\ p.text = app.text /\ p.who = app.who /\ p.claim = app.claim /\ p.url = app.url
      /\ p.consumed = app.consumed /\ p.kept = app.kept /\ p.durable = app.durable /\ p.ready = app.ready
  BY <1>1, <1>2 DEF AppRow
<1>4. PICK k : k = app.kept.text
  OBVIOUS
<1>5. PICK q : q = [p EXCEPT !.text = k, !.installed = TRUE]
  OBVIOUS
<1>6. CASE app' = p /\ UNCHANGED rows
  <2>1. HandoffTypes'
    BY <1>1, <1>3, <1>6, NoTaskIs DEF HandoffTypes
  <2>2. Holder(app)' = Holder(app)
    BY <1>1, <1>3, <1>6 DEF Holder
  <2>3. app.ready # Nothing => app.ready.id \in DOMAIN rows
    BY <1>1 DEF StageFine
  <2> QED BY <1>1, <1>3, <1>6, <2>1, <2>2, <2>3, QuietStep
<1>7. ASSUME Pending(app)
      PROVE  /\ q \in AppRow /\ q.text = k /\ q.who = app.who /\ q.claim = app.claim /\ q.url = app.url
             /\ q.consumed = app.consumed /\ q.kept = app.kept /\ q.durable = app.durable /\ q.ready = app.ready
  BY <1>3, <1>4, <1>5, <1>7, PendingIs DEF AppRow
<1>8. CASE Pending(app) /\ app' = q /\ UNCHANGED rows
  <2>1. HandoffTypes'
    BY <1>1, <1>7, <1>8, NoTaskIs DEF HandoffTypes
  <2>2. ~Unread(app) /\ ~Unread(app)' /\ Pending(app)' /\ ~Keeping'
    BY <1>1, <1>7, <1>8, PendingIs, NoTaskIs DEF Unread, Pending, Keeping
  <2>3. ClaimFine'
    BY <1>1, <1>7, <1>8, <2>2, NoTaskIs DEF ClaimFine
  <2>4. KeptFine'
    BY <1>1, <1>7, <1>8, <2>2, NoTaskIs DEF KeptFine, Holder
  <2>5. StageFine' /\ ChainFine'
    BY <1>1, <1>7, <1>8, NoTaskIs DEF StageFine, ChainFine, Stagings
  <2>6. AgreeFine' /\ (lapses' = {} => Owed')
    BY <1>1, <1>4, <1>7, <1>8, <2>2, PendingIs DEF AgreeFine, Owed
  <2> QED BY <2>1, <2>3, <2>4, <2>5, <2>6 DEF HandoffInv, HandoffFine
<1>9. CASE Pending(app) /\ app' = Finished(q) /\ rows' = Drop({app.claim})
  <2>1. /\ app' \in AppRow /\ app'.kept = Nothing /\ ~app'.durable /\ ~app'.url /\ app'.text = k
        /\ app'.claim = app.claim /\ app'.consumed = app.consumed /\ app'.ready = app.ready
    BY <1>7, <1>9, FinishedIs
  <2>2. RowTypes(rows') /\ DOMAIN rows' = DOMAIN rows \ {app.claim} /\ \A i \in DOMAIN rows' : rows'[i] = rows[i]
    BY <1>1, <1>9, DropIs
  <2>3. HandoffTypes'
    BY <1>1, <2>1, <2>2, NoTaskIs DEF HandoffTypes
  <2>4. lapses' = {} => lapses = {} /\ carried' \in {Nothing, app'.text}
    BY <1>1, <1>4, <1>9, <2>1, PendingIs
  <2> QED BY <1>1, <1>9, <2>1, <2>2, <2>3, <2>4, NoTaskIs, FinishStep DEF Stagings
<1> QED BY <1>2, <1>4, <1>5, <1>6, <1>8, <1>9 DEF Settle

-----------------------------------------------------------------------------
(* Leaving for another release.                                            *)

LEMMA StagesStep ==
  ASSUME HandoffInv, NEW target \in Nat, NEW way \in Stagings, Stages(target, way),
         UNCHANGED <<deployed, worker, active, carried, lapses>>,
         ~Unread(app), ~Pending(app), app.who # Nothing, app.text # Nothing
  PROVE  HandoffInv'
<1> USE NothingIs
<1>1. /\ HandoffTypes /\ app \in AppRow /\ RowTypes(rows) /\ task \in TaskRow
      /\ ClaimFine /\ KeptFine /\ StageFine /\ AgreeFine /\ (lapses = {} => Owed)
  BY DEF HandoffInv, HandoffFine, HandoffTypes
<1>2. PICK id \in Handoffs \ (DOMAIN rows \cup {app.claim}) :
        task' = [NoTask EXCEPT !.by = way, !.id = id, !.target = target, !.text = app.text, !.who = app.who]
  BY DEF Stages
<1>3. app.text \in Drafts /\ app.who \in Accounts
  BY <1>1, AppIs
<1>4. /\ task' \in TaskRow /\ task'.by = way /\ task'.id = id /\ task'.text = app.text /\ task'.who = app.who
  BY <1>2, <1>3 DEF NoTask, TaskRow, Tasks, TaskSteps
<1>5. /\ app' \in AppRow /\ app'.text = app.text /\ app'.who = app.who /\ app'.claim = app.claim
      /\ app'.url = app.url /\ app'.consumed = app.consumed /\ app'.kept = app.kept
      /\ RowTypes(rows') /\ DOMAIN rows' \subseteq DOMAIN rows
      /\ (app'.ready = Nothing \/ (app'.ready = app.ready /\ rows' = rows))
  <2>1. CASE app' = Invalidated(app) /\ rows' = Drop(Withdrawn)
    <3>1. RowTypes(rows') /\ DOMAIN rows' \subseteq DOMAIN rows
      <4>1. PICK gone, store : gone = Withdrawn /\ store = Drop(gone)
        OBVIOUS
      <4>2. RowTypes(store) /\ DOMAIN store = DOMAIN rows \ gone
        BY <1>1, <4>1, DropIs
      <4> QED BY <2>1, <4>1, <4>2
    <3> QED BY <1>1, <2>1, <3>1, InvalidatedIs
  <2>2. CASE UNCHANGED <<app, rows>>
    BY <1>1, <2>2
  <2> QED BY <2>1, <2>2 DEF Stages
<1>6. HandoffTypes'
  BY <1>1, <1>4, <1>5 DEF HandoffTypes
<1>7. ~Unread(app)' /\ ~Pending(app)' /\ ~Keeping' /\ task'.by \notin {"enter", "migrate", "chain"}
  BY <1>4, <1>5 DEF Unread, Pending, Keeping, Stagings
<1>8. ClaimFine' /\ KeptFine' /\ ChainFine' /\ AgreeFine'
  BY <1>1, <1>5, <1>7 DEF ClaimFine, KeptFine, ChainFine, AgreeFine
<1>9. StageFine'
  BY <1>1, <1>2, <1>4, <1>5 DEF StageFine
<1>10. lapses' = {} => Owed'
  BY <1>1, <1>5, <1>7 DEF Owed, AgreeFine, ClaimFine
<1> QED BY <1>6, <1>8, <1>9, <1>10 DEF HandoffInv, HandoffFine

LEMMA ApplyUpdateStep ==
  ASSUME HandoffInv, ApplyUpdate
  PROVE  HandoffInv'
<1>1. PICK target : target = IF app.switched THEN active ELSE worker
  OBVIOUS
<1>2. target \in Nat
  BY <1>1 DEF HandoffInv, HandoffTypes
<1>3. Stages(target, "prepare") /\ Eligible(app) /\ UNCHANGED <<deployed, worker, active, carried, lapses>>
  BY <1>1 DEF ApplyUpdate
<1>4. ~Unread(app) /\ ~Pending(app) /\ app.who # Nothing /\ app.text # Nothing
  BY <1>3 DEF Eligible
<1>5. "prepare" \in Stagings
  BY DEF Stagings
<1> QED BY <1>2, <1>3, <1>4, <1>5, StagesStep

\* The row a prepared page leaves with.
LEMMA LeaveStep ==
  ASSUME HandoffInv, ~Unsafe, UNCHANGED <<deployed, worker, active>>,
         app.text # Nothing => app.ready # Nothing /\ app.ready.text = app.text,
         Navigate(IF app.ready = Nothing THEN Nothing ELSE app.ready.id, 0, rows)
  PROVE  HandoffInv'
<1> USE NothingIs
<1>1. HandoffTypes /\ app \in AppRow /\ RowTypes(rows) /\ StageFine /\ (lapses = {} => Owed)
  BY DEF HandoffInv, HandoffFine, HandoffTypes
<1>2. ~Unread(app) /\ ~Pending(app) /\ ~Keeping
  BY NoTaskIs DEF Unsafe, Keeping
<1>3. PICK c : c = IF app.ready = Nothing THEN Nothing ELSE app.ready.id
  OBVIOUS
<1>4. c \in Handoffs \cup {Nothing}
  BY <1>1, <1>3, AppIs, ReadyIs
<1>5. app.text # Nothing => c \in DOMAIN rows /\ rows[c].text = app.text
  BY <1>1, <1>3 DEF StageFine
<1>6. lapses = {} /\ app.text = Nothing => carried = Nothing
  BY <1>1, <1>2 DEF Owed
<1> QED BY <1>1, <1>2, <1>3, <1>4, <1>5, <1>6, NavigateStep

LEMMA ReloadForUpdateStep ==
  ASSUME HandoffInv, ReloadForUpdate
  PROVE  HandoffInv'
BY LeaveStep DEF ReloadForUpdate, Matches

\* The page stays as it is and starts to take its claim, or its record, across.
LEMMA CrossStep ==
  ASSUME HandoffInv, HandoffTypes', UNCHANGED <<app, rows, carried, lapses>>, ~Keeping,
         task'.by \in {"chain", "migrate"},
         ChainFine',
         task'.by = "migrate" => Pending(app) /\ task'.id = app.claim /\ task'.row = app.kept
  PROVE  HandoffInv'
<1> USE NothingIs
<1>1. ClaimFine /\ KeptFine /\ StageFine /\ AgreeFine /\ (lapses = {} => Owed)
  BY DEF HandoffInv, HandoffFine
<1>2. (Unread(app)' <=> Unread(app)) /\ (Pending(app)' <=> Pending(app)) /\ ~Keeping'
  BY DEF Unread, Pending, Keeping
<1>3. ClaimFine'
  BY <1>1, <1>2 DEF ClaimFine
<1>4. KeptFine'
  BY <1>1, <1>2, PendingIs DEF KeptFine, Holder
<1>5. StageFine'
  BY <1>1 DEF StageFine, Stagings
<1>6. AgreeFine' /\ (lapses' = {} => Owed')
  BY <1>1, <1>2 DEF AgreeFine, Owed
<1> QED BY <1>3, <1>4, <1>5, <1>6 DEF HandoffInv, HandoffFine

LEMMA MismatchStep ==
  ASSUME HandoffInv, Mismatch
  PROVE  HandoffInv'
<1> USE NothingIs
<1>1. /\ HandoffTypes /\ app \in AppRow /\ KeptFine /\ UNCHANGED <<deployed, worker, active>>
      /\ deployed \in Nat
  BY DEF HandoffInv, HandoffFine, HandoffTypes, Mismatch
<1>2. PICK chain : chain = [NoTask EXCEPT !.by = "chain", !.target = deployed]
  OBVIOUS
<1>3. chain \in TaskRow /\ chain.by = "chain"
  BY <1>1, <1>2 DEF NoTask, TaskRow, Tasks, TaskSteps
<1>4. ASSUME task' = chain, UNCHANGED <<rows, app, carried, lapses>>,
             \/ Unread(app) /\ app.text = Nothing
             \/ Pending(app) /\ app.who = Nothing /\ app.durable /\ Restorable(app)
      PROVE  HandoffInv'
  <2>1. HandoffTypes'
    BY <1>1, <1>3, <1>4 DEF HandoffTypes
  <2>2. ~Keeping
    BY <1>4, PendingIs DEF HandoffInv, HandoffFine, ClaimFine
  <2>3. ChainFine'
    BY <1>3, <1>4 DEF ChainFine, Unread, Pending, Restorable
  <2> QED BY <1>3, <1>4, <2>1, <2>2, <2>3, CrossStep
<1>5. ASSUME Pending(app), UNCHANGED <<rows, app, carried, lapses>>,
             task' = [NoTask EXCEPT !.by = "migrate", !.step = "save", !.id = app.claim,
                                    !.target = deployed, !.row = app.kept]
      PROVE  HandoffInv'
  <2>1. app.claim \in Handoffs /\ app.kept \in HandoffRow /\ ~Keeping
    BY <1>5, PendingIs
  <2>2. /\ task' \in TaskRow /\ task'.by = "migrate" /\ task'.id = app.claim /\ task'.row = app.kept
    BY <1>1, <1>5, <2>1 DEF NoTask, TaskRow, Tasks, TaskSteps
  <2>3. HandoffTypes'
    BY <1>1, <1>5, <2>2 DEF HandoffTypes
  <2>4. ChainFine'
    BY <2>2 DEF ChainFine
  <2> QED BY <1>5, <2>1, <2>2, <2>3, <2>4, CrossStep
<1>6. ASSUME NEW way \in {"carry", "prepare, then go"}, Stages(deployed, way), UNCHANGED <<carried, lapses>>,
             ~Unread(app), ~Pending(app), app.who # Nothing, app.text # Nothing
      PROVE  HandoffInv'
  BY <1>1, <1>6, StagesStep DEF Stagings
<1>7. CASE /\ ~Unsafe /\ app.text = Nothing
           /\ Navigate(IF app.ready = Nothing THEN Nothing ELSE app.ready.id, 0, rows)
  BY <1>1, <1>7, LeaveStep
<1> QED BY <1>2, <1>4, <1>5, <1>6, <1>7 DEF Mismatch, Eligible

LEMMA ChainedStep ==
  ASSUME HandoffInv, Chained
  PROVE  HandoffInv'
<1> USE NothingIs
<1>1. /\ HandoffTypes /\ RowTypes(rows) /\ ChainFine /\ KeptFine /\ (lapses = {} => Owed)
      /\ app.claim \in Handoffs \cup {Nothing} /\ task.target \in Nat /\ task.by = "chain"
      /\ Navigate(app.claim, task.target, rows) /\ UNCHANGED <<deployed, worker, active>>
  BY AppIs, TaskIs DEF HandoffInv, HandoffFine, HandoffTypes, Chained
<1>2. CASE Unread(app) /\ app.text = Nothing
  <2>1. ~Pending(app)
    BY <1>2, PendingIs
  <2>2. lapses # {} \/ carried = Nothing \/ (app.claim \in DOMAIN rows /\ rows[app.claim].text = carried)
    BY <1>1, <1>2 DEF Owed
  <2> QED BY <1>1, <1>2, <2>1, <2>2, NavigateStep
<1>3. CASE Pending(app) /\ app.durable /\ app.text \in {Nothing, app.kept.text}
  <2>1. app.claim \in DOMAIN rows /\ rows[app.claim].text = app.kept.text
    BY <1>3, PendingIs
  <2> QED BY <1>1, <1>3, <2>1, NavigateStep
<1> QED BY <1>1, <1>2, <1>3 DEF ChainFine

LEMMA MigrateSavedStep ==
  ASSUME HandoffInv, MigrateSaved
  PROVE  HandoffInv'
<1> USE NothingIs
<1>1. /\ HandoffTypes /\ app \in AppRow /\ RowTypes(rows) /\ task \in TaskRow
      /\ ClaimFine /\ KeptFine /\ StageFine /\ AgreeFine /\ (lapses = {} => Owed)
      /\ task.by = "migrate" /\ UNCHANGED <<deployed, worker, active, app, carried, lapses>>
  BY DEF HandoffInv, HandoffFine, HandoffTypes, MigrateSaved
<1>2. /\ task.id = app.claim /\ app.claim \in Handoffs /\ task.row \in HandoffRow /\ task.target \in Nat
      /\ ~Unread(app) /\ IF Pending(app) THEN task.row = app.kept ELSE ~app.url
  BY <1>1, AppIs, TaskIs DEF KeptFine
<1>3. PICK old : old = task.row
  OBVIOUS
<1>4. PICK row : row = [old EXCEPT !.target = task.target, !.fresh = TRUE]
  OBVIOUS
<1>5. row \in HandoffRow /\ row.text = old.text
  BY <1>2, <1>3, <1>4 DEF HandoffRow
<1>6. /\ RowTypes(rows') /\ DOMAIN rows' = DOMAIN rows \cup {app.claim} /\ rows'[app.claim] = row
      /\ \A i \in DOMAIN rows \ {app.claim} : rows'[i] = rows[i]
  <2>1. PICK store, c : store = Put(c, row) /\ c = app.claim
    OBVIOUS
  <2>2. /\ RowTypes(store) /\ DOMAIN store = DOMAIN rows \cup {c} /\ store[c] = row
        /\ \A i \in DOMAIN rows \ {c} : store[i] = rows[i]
    <3>1. RowTypes(rows) /\ c \in Handoffs /\ row \in HandoffRow
      BY <1>1, <1>2, <1>5, <2>1
    <3> QED BY <2>1, <3>1, PutIs
  <2>3. rows' = store
    BY <1>2, <1>3, <1>4, <2>1 DEF MigrateSaved
  <2> QED BY <2>1, <2>2, <2>3
<1>7. /\ task' \in TaskRow /\ task'.by = "migrate" /\ task'.id = task.id /\ task'.row = task.row
  <2>1. task' = [task EXCEPT !.step = "go"]
    BY DEF MigrateSaved
  <2> QED BY <1>1, <2>1 DEF TaskRow, TaskSteps
<1>8. HandoffTypes'
  BY <1>1, <1>6, <1>7 DEF HandoffTypes
<1>9. (Unread(app)' <=> Unread(app)) /\ (Pending(app)' <=> Pending(app)) /\ ~Keeping /\ ~Keeping'
  BY <1>1, <1>7 DEF Unread, Pending, Keeping
<1>10. ClaimFine'
  BY <1>1, <1>2, <1>7, <1>9 DEF ClaimFine
<1>11. KeptFine'
  BY <1>1, <1>2, <1>3, <1>5, <1>6, <1>7, <1>9 DEF KeptFine, Holder
<1>12. StageFine' /\ ChainFine'
  BY <1>1, <1>6, <1>7 DEF StageFine, ChainFine, Stagings
<1>13. AgreeFine' /\ (lapses' = {} => Owed')
  BY <1>1, <1>2, <1>9 DEF AgreeFine, Owed
<1> QED BY <1>8, <1>10, <1>11, <1>12, <1>13 DEF HandoffInv, HandoffFine

LEMMA MigratedStep ==
  ASSUME HandoffInv, Migrated
  PROVE  HandoffInv'
<1>1. RowTypes(rows) /\ task.id \in Handoffs \cup {Nothing}
  BY TaskIs DEF HandoffInv, HandoffTypes
<1> QED BY <1>1, NavigateStep DEF Migrated

\* The row is prepared.
LEMMA PreparedStep ==
  ASSUME HandoffInv, task.by \in Stagings, NEW r \in HandoffRow, r.text = task.text,
         rows' = Put(task.id, r), task' = NoTask,
         app' = [app EXCEPT !.ready = [id |-> task.id, target |-> task.target, text |-> task.text, mine |-> TRUE]],
         UNCHANGED <<deployed, worker, active, carried, lapses>>
  PROVE  HandoffInv'
<1> USE NothingIs
<1>1. /\ HandoffTypes /\ app \in AppRow /\ RowTypes(rows) /\ task \in TaskRow
      /\ ClaimFine /\ KeptFine /\ StageFine /\ AgreeFine /\ (lapses = {} => Owed)
  BY DEF HandoffInv, HandoffFine, HandoffTypes
<1>2. PICK id : id = task.id
  OBVIOUS
<1>3. id \in Handoffs /\ id \notin DOMAIN rows /\ id # app.claim /\ task.text \in Drafts /\ task.target \in Nat
  BY <1>1, <1>2, TaskIs DEF StageFine
<1>4. PICK ready : ready = [id |-> id, target |-> task.target, text |-> task.text, mine |-> TRUE]
  OBVIOUS
<1>5. ready \in ReadyRow /\ ready.id = id /\ ready.text = task.text
  BY <1>3, <1>4 DEF ReadyRow
<1>6. app' = [app EXCEPT !.ready = ready]
  BY <1>2, <1>4
<1>7. /\ app' \in AppRow /\ app'.text = app.text /\ app'.who = app.who /\ app'.claim = app.claim
      /\ app'.url = app.url /\ app'.consumed = app.consumed /\ app'.kept = app.kept
      /\ app'.durable = app.durable /\ app'.owner = app.owner /\ app'.ready = ready
  BY <1>1, <1>5, <1>6 DEF AppRow
<1>8. /\ RowTypes(rows') /\ DOMAIN rows' = DOMAIN rows \cup {id} /\ rows'[id] = r
      /\ \A i \in DOMAIN rows \ {id} : rows'[i] = rows[i]
  <2>1. PICK store : store = Put(id, r)
    OBVIOUS
  <2>2. /\ RowTypes(store) /\ DOMAIN store = DOMAIN rows \cup {id} /\ store[id] = r
        /\ \A i \in DOMAIN rows \ {id} : store[i] = rows[i]
    <3>1. RowTypes(rows) /\ id \in Handoffs
      BY <1>1, <1>3
    <3> QED BY <2>1, <3>1, PutIs
  <2> QED BY <1>2, <2>1, <2>2
<1>9. HandoffTypes'
  BY <1>1, <1>7, <1>8, NoTaskIs DEF HandoffTypes
<1>10. (Unread(app)' <=> Unread(app)) /\ (Pending(app)' <=> Pending(app)) /\ ~Keeping /\ ~Keeping'
  BY <1>7, NoTaskIs DEF Unread, Pending, Keeping, Stagings
<1>11. app.claim \in DOMAIN rows' <=> app.claim \in DOMAIN rows
  BY <1>3, <1>8
<1>12. app.claim \in DOMAIN rows => rows'[app.claim] = rows[app.claim]
  BY <1>3, <1>8
<1>13. ClaimFine' /\ KeptFine'
  BY <1>1, <1>7, <1>10, <1>11, <1>12, NoTaskIs DEF ClaimFine, KeptFine, Holder
<1>14. StageFine' /\ ChainFine'
  BY <1>3, <1>5, <1>7, <1>8, NoTaskIs DEF StageFine, ChainFine, Stagings
<1>15. AgreeFine' /\ (lapses' = {} => Owed')
  BY <1>1, <1>7, <1>10, <1>11, <1>12 DEF AgreeFine, Owed
<1> QED BY <1>9, <1>13, <1>14, <1>15 DEF HandoffInv, HandoffFine

LEMMA StagedStep ==
  ASSUME HandoffInv, Staged
  PROVE  HandoffInv'
<1> USE NothingIs
<1>1. /\ HandoffTypes /\ app \in AppRow /\ RowTypes(rows) /\ task \in TaskRow /\ StageFine /\ ~Keeping
      /\ task.by \in Stagings /\ UNCHANGED <<deployed, worker, active>>
  BY DEF HandoffInv, HandoffFine, HandoffTypes, Staged, Stagings, Keeping
<1>2. PICK bound \in BOOLEAN :
        LET stored == Put(task.id, Row(task.text, task.who, task.target, bound)) IN
        \/ task' = NoTask /\ UNCHANGED <<rows, app, carried, lapses>>
        \/ /\ rows' = stored /\ task' = NoTask /\ UNCHANGED <<carried, lapses>>
           /\ app' = [app EXCEPT !.ready = [id |-> task.id, target |-> task.target, text |-> task.text, mine |-> TRUE]]
        \/ Unchanged(task) /\ Navigate(task.id, 0, stored)
  BY DEF Staged
<1>3. task.text \in Drafts /\ task.who \in Accounts /\ task.target \in Nat /\ task.id \in Handoffs
  BY <1>1, TaskIs DEF StageFine
<1>4. PICK r : r = Row(task.text, task.who, task.target, bound)
  OBVIOUS
<1>5. r \in HandoffRow /\ r.text = task.text
  BY <1>3, <1>4 DEF Row, HandoffRow
<1>6. PICK store : store = Put(task.id, r)
  OBVIOUS
<1>7. RowTypes(store) /\ task.id \in DOMAIN store /\ store[task.id] = r
  <2>1. PICK id : id = task.id
    OBVIOUS
  <2>2. RowTypes(rows) /\ id \in Handoffs /\ r \in HandoffRow /\ store = Put(id, r)
    BY <1>1, <1>3, <1>5, <1>6, <2>1
  <2>3. RowTypes(store) /\ DOMAIN store = DOMAIN rows \cup {id} /\ store[id] = r
    BY <2>2, PutIs
  <2> QED BY <2>1, <2>3
<1>8. CASE task' = NoTask /\ UNCHANGED <<rows, app, carried, lapses>>
  <2>1. HandoffTypes'
    BY <1>1, <1>8, NoTaskIs DEF HandoffTypes
  <2>2. Holder(app)' = Holder(app)
    BY <1>8 DEF Holder
  <2>3. app.ready # Nothing => app.ready.id \in DOMAIN rows
    BY <1>1 DEF StageFine
  <2> QED BY <1>1, <1>8, <2>1, <2>2, <2>3, QuietStep
<1>9. CASE /\ rows' = store /\ task' = NoTask /\ UNCHANGED <<carried, lapses>>
           /\ app' = [app EXCEPT !.ready = [id |-> task.id, target |-> task.target, text |-> task.text, mine |-> TRUE]]
  BY <1>1, <1>5, <1>6, <1>9, PreparedStep
<1>10. CASE Unchanged(task) /\ Navigate(task.id, 0, store)
  <2>1. app.text = task.text /\ app.text # Nothing
    BY <1>1, <1>10 DEF Unchanged, StageFine
  <2> QED BY <1>1, <1>3, <1>5, <1>7, <1>10, <2>1, NavigateStep
<1> QED BY <1>2, <1>4, <1>6, <1>8, <1>9, <1>10

-----------------------------------------------------------------------------
(* What holds of every behaviour.                                          *)

LEMMA HandoffStarts ==
  ASSUME HandoffInit
  PROVE  HandoffInv
<1> USE NothingIs, NoTaskIs
<1>1. /\ app = Loaded(Nothing, 0, Nothing) /\ task = NoTask /\ rows = [i \in {} |-> Nothing] /\ carried = Nothing
      /\ deployed = 1 /\ worker = 1 /\ active = 1
  BY DEF HandoffInit
<1>2. /\ app \in AppRow /\ app.text = Nothing /\ app.claim = Nothing /\ ~app.url
      /\ app.kept = Nothing /\ app.ready = Nothing
  <2>1. PICK p : p = Loaded(Nothing, 0, Nothing)
    OBVIOUS
  <2>2. /\ p \in AppRow /\ p.text = Nothing /\ p.claim = Nothing /\ ~p.url
        /\ p.kept = Nothing /\ p.ready = Nothing
    <3>1. deployed \in Nat /\ Nothing \in Handoffs \cup {Nothing} /\ Nothing \in Drafts \cup {Nothing} /\ 0 \in Nat
      BY <1>1
    <3> QED BY <2>1, <3>1 DEF Loaded, AppRow
  <2> QED BY <1>1, <2>1, <2>2
<1>3. DOMAIN rows = {} /\ RowTypes(rows)
  <2>1. rows \in [{} -> HandoffRow]
    BY <1>1
  <2>2. DOMAIN rows = {}
    BY <2>1
  <2> QED BY <2>1, <2>2 DEF RowTypes
<1>4. HandoffTypes
  BY <1>1, <1>2, <1>3 DEF HandoffTypes
<1>5. ~Unread(app) /\ ~Pending(app) /\ ~Keeping
  BY <1>1, <1>2 DEF Unread, Pending, Keeping
<1>6. HandoffFine
  BY <1>1, <1>2, <1>5 DEF HandoffFine, ClaimFine, KeptFine, StageFine, ChainFine, AgreeFine, Stagings
<1> QED BY <1>1, <1>4, <1>6 DEF HandoffInv, Owed

LEMMA HandoffGoesOn ==
  ASSUME HandoffInv, [HandoffNext]_handoffVars
  PROVE  HandoffInv'
<1>1. CASE UNCHANGED handoffVars
  <2>1. UNCHANGED <<deployed, worker, active, rows, app, task, carried, lapses>>
    BY <1>1 DEF handoffVars
  <2> QED BY <2>1 DEF HandoffInv, HandoffTypes, HandoffFine, ClaimFine, KeptFine, StageFine, ChainFine, AgreeFine,
                     Owed, Unread, Pending, Keeping, Holder, RowTypes
<1>2. CASE HandoffNext
  BY <1>2, WorldStep, ActivationTimeoutStep, RowExpiresStep, TypeStep, SubmitDraftStep, AssignStep, ExpelledStep,
     LogoutStep, ReloadStep, ApplyUpdateStep, ReloadForUpdateStep, MismatchStep, ChainedStep, MigrateSavedStep,
     MigratedStep, StagedStep, StageFailsStep, EnterStep, TakeRowStep, KeepRowStep, SettleStep
     DEF HandoffNext
<1> QED BY <1>1, <1>2

LEMMA HandoffShows ==
  ASSUME HandoffInv
  PROVE  DraftArrives
<1> USE NothingIs
<1>1. ClaimFine /\ KeptFine /\ (lapses = {} => Owed)
  BY DEF HandoffInv, HandoffFine
<1>2. lapses = {} => carried \in Reachable \cup {Nothing}
  <2>1. CASE Unread(app)
    BY <1>1, <2>1 DEF Owed, Reachable, ClaimFine
  <2>2. CASE ~Unread(app) /\ Pending(app)
    BY <1>1, <2>2 DEF Owed, Reachable
  <2>3. CASE ~Unread(app) /\ ~Pending(app) /\ Keeping
    BY <1>1, <2>3 DEF Owed, Reachable, Keeping
  <2>4. CASE ~Unread(app) /\ ~Pending(app) /\ ~Keeping
    BY <1>1, <2>4 DEF Owed, Reachable
  <2> QED BY <2>1, <2>2, <2>3, <2>4
<1>3. Pending(app) /\ app.who # Nothing => app.kept.by = app.who
  BY <1>1 DEF KeptFine, Holder
<1>4. Pending(app) /\ app.durable => app.url /\ app.claim \in DOMAIN rows
  BY <1>1 DEF KeptFine
<1> QED BY <1>2, <1>3, <1>4 DEF DraftArrives

(* At every moment of the handoff the claim of the URL, the record the page *)
(* keeps, the row under way and the row prepared are told apart, and what   *)
(* an update navigation owes is in exactly one of them (prepareUpdateHandoff*)
(* to consumeUpdateHandoff), for any number of drafts, accounts, rows,      *)
(* releases, failures and reloads.                                          *)
THEOREM HandoffStaysWhole == HandoffSpec => []HandoffInv
<1>1. HandoffInit => HandoffInv
  BY HandoffStarts
<1>2. HandoffInv /\ [HandoffNext]_handoffVars => HandoffInv'
  BY HandoffGoesOn
<1> QED BY <1>1, <1>2, PTL DEF HandoffSpec

(* An unsent draft that an update took away from one page can be reached    *)
(* from the next one until the user edits, sends or gives it up, and a page *)
(* never keeps another account's (README.md:206): DraftArrives of every     *)
(* behaviour, whatever the number of drafts, accounts and releases.         *)
THEOREM DraftAlwaysArrives == HandoffSpec => []DraftArrives
<1>1. HandoffInv => DraftArrives
  BY HandoffShows
<1> QED BY <1>1, HandoffStaysWhole, PTL
=============================================================================
