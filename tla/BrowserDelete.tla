--------------------------- MODULE BrowserDelete ----------------------------
(* The deletion of one conversation by a page of the browser application    *)
(* (browser-app.js), for Chat, whose ticket names the revision the user     *)
(* confirmed, and for Agent, whose ticket is an idempotency key alone.      *)
(* Requests may be lost, answered late, and served after the page gave them *)
(* up; other pages add turns to the conversation and delete it.             *)
(*                                                                          *)
(* A revision stands for the cursor (revision, hash) of a Chat ledger, and  *)
(* for (revision, lastRunId) of an Agent conversation.                      *)
(*                                                                          *)
(* A Chat list is the whole of the account's conversations: the page asks   *)
(* for 100 of them (4516), and threadsPerAccount (chat-store.js:57) allows  *)
(* no more.  Only so is absence from it a deletion.                         *)
EXTENDS Naturals, FiniteSets

CONSTANTS MaxRevision,  \* bound: revisions of the conversation
          MaxTickets,   \* bound: tickets the page issues
          MaxFaults,    \* bound: losses, failures, sign outs
          Absent

ASSUME BoundAssumption == {MaxRevision, MaxTickets, MaxFaults} \subseteq Nat
ASSUME NullAssumption  ==
  /\ Absent \notin [revision : Nat, running : BOOLEAN]
  /\ Absent \notin [id : Nat, revision : Nat]
  /\ Absent \notin [valid : BOOLEAN, row : [revision : Nat, running : BOOLEAN] \cup {Absent}]

VARIABLES kind,      \* "chat" or "agent", for ever
          remote,    \* the conversation at the server
          receipts,  \* the tickets whose deletion the server remembers
          calls,     \* the deletion requests not served yet
          entry,     \* the row of the page's list, or Absent
          reading,   \* the list read under way, or Absent
          shown,     \* the revision the page renders as completed, or 0
          ticket,    \* the pending deletion, or Absent
          issued,    \* tickets so far
          op,        \* the deletion handler under way
          told,      \* what the page last said of the conversation
          agreed,    \* history: the revisions the user confirmed or was shown
          stopped,   \* history: tickets the page said had changed conversations
          eraser,    \* history: the ticket and revision of the deletion, or Absent
          faults

deleteVars == <<kind, remote, receipts, calls, entry, reading, shown, ticket, issued, op, told,
                agreed, stopped, eraser, faults>>
backend == <<kind, remote, receipts, eraser>>
list == <<entry, reading, shown>>
memory == <<agreed, stopped>>

NoOp == [step |-> "idle", row |-> Absent, attempt |-> 0, retained |-> FALSE,
         refreshed |-> FALSE, view |-> 0, answer |-> "none"]
Entry(revision, running) == [revision |-> revision, running |-> running]
Listing == IF remote.exists THEN Entry(remote.revision, remote.running) ELSE Absent
Fault == faults < MaxFaults /\ faults' = faults + 1

DeleteInit ==
  /\ kind \in {"chat", "agent"}
  /\ remote = [exists |-> TRUE, revision |-> 1, running |-> FALSE, deleting |-> FALSE]
  /\ receipts = {} /\ calls = {} /\ entry = Entry(1, FALSE) /\ reading = Absent /\ shown = 0
  /\ ticket = Absent /\ issued = 0 /\ op = NoOp /\ told = "nothing"
  /\ agreed = {} /\ stopped = {} /\ eraser = Absent /\ faults = 0

-----------------------------------------------------------------------------
(* Other pages, and the Agent backend, which deletes in the background.     *)

TurnStarts == /\ remote.exists /\ ~remote.deleting /\ ~remote.running
              /\ remote.revision < MaxRevision
              /\ remote' = [remote EXCEPT !.running = TRUE, !.revision = @ + 1]
              /\ UNCHANGED <<eraser, faults>>

TurnEnds == /\ remote.exists /\ remote.running /\ remote.revision < MaxRevision
            /\ remote' = [remote EXCEPT !.running = FALSE, !.revision = @ + 1]
            /\ UNCHANGED <<eraser, faults>>

DeletedElsewhere == /\ remote.exists /\ ~remote.running /\ Fault
                    /\ remote' = [remote EXCEPT !.exists = FALSE]
                    /\ eraser' = [id |-> 0, revision |-> remote.revision]

DeletionCompletes == /\ remote.exists /\ remote.deleting
                     /\ remote' = [remote EXCEPT !.exists = FALSE]
                     /\ UNCHANGED <<eraser, faults>>

Others == /\ TurnStarts \/ TurnEnds \/ DeletedElsewhere \/ DeletionCompletes
          /\ UNCHANGED <<kind, receipts, calls, list, ticket, issued, op, told, memory>>

-----------------------------------------------------------------------------
(* The server.                                                              **)

(* What a deletion request meets: for Chat the ledger's deleteThread, with  *)
(* its receipt and its cursor.                                              *)
Verdict(c) ==
  IF c.id \in receipts /\ ~remote.exists THEN "deleted"
  ELSE IF ~remote.exists THEN "absent"
  ELSE IF remote.deleting THEN "unclear"
  ELSE IF remote.running \/ (kind = "chat" /\ c.revision # remote.revision) THEN "conflict"
  ELSE "deletes"

(* The request whose answer the handler awaits.                             *)
Call == [id |-> ticket.id, revision |-> ticket.revision, attempt |-> op.attempt]
Awaits == op.step = "sent" /\ op.answer = "none"

(* A request is served, in time or after the page stopped waiting for it;   *)
(* the Agent backend may take longer than the answer.                       *)
Serve == \E c \in calls :
  LET verdict == Verdict(c)
      heard(answer) == IF Awaits /\ c = Call THEN [op EXCEPT !.answer = answer] ELSE op IN
  /\ calls' = calls \ {c}
  /\ UNCHANGED <<kind, list, ticket, issued, told, memory, faults>>
  /\ \/ /\ verdict = "deletes"
        /\ \/ remote' = [remote EXCEPT !.exists = FALSE] /\ op' = heard("deleted")
           \/ /\ kind = "agent"
              /\ remote' = [remote EXCEPT !.deleting = TRUE] /\ op' = heard("unclear")
        /\ receipts' = receipts \cup {c.id}
        /\ eraser' = [id |-> c.id, revision |-> remote.revision]
     \/ /\ verdict # "deletes" /\ op' = heard(verdict)
        /\ UNCHANGED <<remote, receipts, eraser>>

(* The answer is lost or late, or a gate refuses the request.               *)
AnswerFails ==
  /\ Awaits /\ Fault
  /\ \/ op' = [op EXCEPT !.answer = "unclear"] /\ UNCHANGED calls
     \/ /\ Call \in calls /\ calls' = calls \ {Call}
        /\ \E answer \in {"refused", "signed out"} : op' = [op EXCEPT !.answer = answer]
  /\ UNCHANGED <<backend, list, ticket, issued, told, memory>>

-----------------------------------------------------------------------------
(* The page's list and view.                                                *)

(* chatThreadListEpoch: a newer list makes every read under way void.  The  *)
(* Agent list has no such epoch.                                            *)
Voided(read) == IF read = Absent \/ kind = "agent" THEN read ELSE [read EXCEPT !.valid = FALSE]

(* loadChatThreads, loadAgentThreads                                        *)
ListRead == /\ reading = Absent /\ reading' = [valid |-> TRUE, row |-> Listing]
            /\ UNCHANGED <<backend, calls, entry, shown, ticket, issued, op, told, memory, faults>>

ListArrives == /\ reading # Absent /\ reading' = Absent
               /\ entry' = IF reading.valid THEN reading.row ELSE entry
               /\ UNCHANGED <<backend, calls, shown, ticket, issued, op, told, memory, faults>>

(* The page follows a turn to its end and renders the final revision.       *)
Render == /\ remote.exists /\ ~remote.running /\ shown # remote.revision
          /\ shown' = remote.revision /\ agreed' = agreed \cup {remote.revision}
          /\ UNCHANGED <<backend, calls, entry, reading, ticket, issued, op, told, stopped, faults>>

(* requireFreshAuthentication: the ticket and the list are gone.            *)
DropsSession == /\ ticket' = Absent /\ op' = NoOp /\ told' = "nothing"
            /\ entry' = Absent /\ reading' = Absent /\ shown' = 0

(* A revalidation finds another session; an Agent deletion defers it.       *)
Revalidated == /\ kind = "chat" /\ Fault /\ DropsSession
               /\ UNCHANGED <<backend, calls, issued, memory>>

-----------------------------------------------------------------------------
(* deleteChatThread and deleteAgentThread.                                  *)

(* The button of the list's row: Delete, or Retry of the pending ticket.    *)
Press ==
  /\ op.step = "idle" /\ entry # Absent
  /\ (ticket = Absent \/ kind = "chat") => ~entry.running
  /\ op' = [NoOp EXCEPT !.step = IF ticket = Absent THEN "confirm" ELSE "send",
                        !.row = entry, !.retained = ticket # Absent]
  /\ UNCHANGED <<backend, calls, list, ticket, issued, told, memory, faults>>

Issue(revision) == /\ issued < MaxTickets /\ issued' = issued + 1
                   /\ ticket' = [id |-> issued + 1, revision |-> revision]

(* The user declines, or confirms what the row still says.                  *)
Confirm ==
  /\ op.step = "confirm" /\ UNCHANGED <<backend, calls, list, told, stopped, faults>>
  /\ \/ /\ entry = op.row /\ Issue(entry.revision)
        /\ agreed' = agreed \cup {entry.revision}
        /\ op' = [op EXCEPT !.step = "send"]
     \/ op' = NoOp /\ UNCHANGED <<ticket, issued, agreed>>

Send ==
  /\ op.step = "send" /\ op' = [op EXCEPT !.step = "sent", !.answer = "none"]
  /\ calls' = calls \cup {Call}
  /\ UNCHANGED <<backend, list, ticket, issued, told, memory, faults>>

(* finishLocalThreadDeletion, finishAgentThreadDeletion                     *)
Finishes == /\ ticket' = Absent /\ op' = NoOp /\ told' = "deleted"
            /\ entry' = Absent /\ shown' = 0 /\ reading' = Voided(reading)
            /\ UNCHANGED stopped

(* The ticket is given up: "Deletion stopped because this conversation      *)
(* changed", or "rejected".                                                 *)
GivesUp(what) ==
  /\ ticket' = Absent /\ op' = NoOp /\ told' = what
  /\ stopped' = IF what = "stopped" THEN stopped \cup {ticket.id} ELSE stopped

(* Nothing is known: the exact ticket is kept for a retry.                  *)
KeepsTicket == /\ ticket' = ticket /\ op' = NoOp /\ told' = "uncertain" /\ UNCHANGED stopped

(* The cursor of a generation this page completed may be older in its list. *)
Refreshes == /\ kind = "chat" /\ op.answer = "conflict" /\ shown # 0
             /\ ~op.refreshed /\ ~op.retained /\ op.attempt = 0

Answers ==
  /\ op.step = "sent" /\ op.answer # "none"
  /\ UNCHANGED <<backend, calls, issued, agreed, faults>>
  /\ \/ op.answer \in {"deleted", "absent"} /\ Finishes
     \/ op.answer = "signed out" /\ DropsSession /\ UNCHANGED stopped
     \/ op.answer = "refused" /\ GivesUp("rejected") /\ UNCHANGED list
     \/ op.answer = "conflict" /\ ~Refreshes /\ GivesUp("stopped") /\ UNCHANGED list
     \/ /\ \/ Refreshes /\ op' = [op EXCEPT !.step = "refresh", !.view = shown]
           \/ op.answer = "unclear" /\ op.attempt = 0
              /\ op' = [op EXCEPT !.step = "send", !.attempt = 1]
           \/ op.answer = "unclear" /\ op.attempt = 1
              /\ op' = [op EXCEPT !.step = "reconcile"]
        /\ UNCHANGED <<list, ticket, told, stopped>>

(* Mutant: any newer revision will do.                                      *)
ShowsMutantAnyNewer(row) == ~row.running /\ row.revision > ticket.revision

(* refreshCompletedThreadDeletion: only for the revision the page renders.  *)
Shows(row) == ~row.running /\ row.revision > ticket.revision /\ row.revision = shown

RefreshCursor ==
  /\ op.step = "refresh" /\ UNCHANGED <<backend, calls, agreed>>
  /\ \/ /\ ~remote.exists /\ Finishes /\ UNCHANGED <<issued, faults>>
     \/ /\ Fault /\ GivesUp("rejected") /\ UNCHANGED <<list, issued>>
     \/ /\ remote.exists /\ UNCHANGED <<shown, faults>>
        /\ IF shown = op.view /\ entry # Absent
           THEN entry' = Listing /\ reading' = Voided(reading)
           ELSE UNCHANGED <<entry, reading>>
        /\ IF shown = op.view /\ entry # Absent /\ Shows(Listing)
           THEN /\ Issue(remote.revision) /\ UNCHANGED <<told, stopped>>
                /\ op' = [op EXCEPT !.step = "send", !.attempt = 0, !.refreshed = TRUE]
           ELSE GivesUp("stopped") /\ UNCHANGED issued

(* reconcileThreadDeletion reads the list, reconcileAgentThreadDeletion the *)
(* conversation, once the answers of both attempts are lost.  A Chat that   *)
(* is not in the list is deleted: the list is complete, as said above.      *)
Reconcile ==
  /\ op.step = "reconcile" /\ UNCHANGED <<backend, calls, issued, agreed>>
  /\ \/ Fault /\ KeepsTicket /\ UNCHANGED list
     \/ Fault /\ DropsSession /\ UNCHANGED stopped
     \/ UNCHANGED faults /\ ~remote.exists /\ Finishes
     \/ /\ UNCHANGED <<shown, faults>> /\ remote.exists
        /\ entry' = IF kind = "chat" \/ entry # Absent THEN Listing ELSE entry
        /\ reading' = Voided(reading)
        /\ IF remote.deleting \/ Listing = Entry(ticket.revision, FALSE)
           THEN KeepsTicket
           ELSE GivesUp("stopped")

-----------------------------------------------------------------------------
DeleteNext ==
  \/ Others \/ Serve \/ AnswerFails
  \/ ListRead \/ ListArrives \/ Render \/ Revalidated
  \/ Press \/ Confirm \/ Send \/ Answers \/ RefreshCursor \/ Reconcile

DeleteSpec == DeleteInit /\ [][DeleteNext]_deleteVars

-----------------------------------------------------------------------------
(* "Conversation deleted." is said of a conversation that is gone, and the  *)
(* Chat list does not show it again.                                        *)
Truthful == told = "deleted" => ~remote.exists /\ (kind = "chat" => entry = Absent)

(* A Chat page deletes no revision its user has not confirmed or been shown.*)
Consented == kind = "chat" /\ eraser # Absent /\ eraser.id # 0 => eraser.revision \in agreed

(* A Chat ticket the page gave up because the conversation had changed does *)
(* not delete it later, whatever its requests in flight do.                 *)
StopIsFinal == kind = "chat" /\ eraser # Absent => eraser.id \notin stopped

(* What the page says and does about a deletion (deleteChatThread,          *)
(* refreshCompletedThreadDeletion, reconcileThreadDeletion).                *)
DeletionHonest == Truthful /\ Consented /\ StopIsFinal
=============================================================================
