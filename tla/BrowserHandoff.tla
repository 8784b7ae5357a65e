--------------------------- MODULE BrowserHandoff ---------------------------
(* The update handoff of the browser application: an unsent draft crosses a *)
(* full page reload into a newer release as an encrypted, expiring row of   *)
(* IndexedDB (pwa-update-handoff-store.js) whose key travels in the URL     *)
(* fragment (browser-app.js).  One page at a time, several accounts.        *)
(*                                                                          *)
(* A draft is a value of Drafts (its text, images and search choice), typed *)
(* once.  A row is what encryptUpdateHandoff writes and decryptUpdateHandoff*)
(* checks: the draft, the account digest, the release it is for, whether it *)
(* belongs to a conversation, and whether its five minutes are over.  Which *)
(* mode the draft is for is left out: both modes pass the same steps.       *)
EXTENDS Naturals

CONSTANTS Drafts,       \* what users type
          Pictures,     \* the drafts with images
          Accounts,
          Handoffs,     \* handoff identifiers
          MaxReleases,  \* bound: releases of the server
          MaxHitches,   \* bound: expiries, storage failures, reloads, sign outs
          Nothing

VARIABLES deployed,  \* the release the server serves
          worker,    \* the release of the newest installed service worker
          active,    \* the release of the worker that controls the page
          rows,      \* the object store "handoffs": identifier |-> row
          app,       \* the page
          task,      \* the one asynchronous operation under way, or NoTask
          typed,     \* the drafts typed so far
          sent,      \* history: the drafts the server accepted
          carried,   \* history: the unsent draft the last update navigation owed
          lapses,    \* history: the losses the page does not prevent
          hitches    \* hitches so far

handoffVars == <<deployed, worker, active, rows, app, task, typed, sent, carried, lapses, hitches>>
history == <<typed, sent>>

(* A row of the store, and what the page remembers of one it prepared.      *)
HandoffRow == [text : Drafts, by : Accounts, target : Nat, bound : BOOLEAN, fresh : BOOLEAN]
ReadyRow == [id : Handoffs, target : Nat, text : Drafts, mine : BOOLEAN]

(* Nothing is told from whatever may stand in its place.                    *)
ASSUME HandoffAssumption == Nothing \notin Drafts \cup Accounts \cup Handoffs \cup HandoffRow \cup ReadyRow

NoTask == [by |-> "none", step |-> "", id |-> Nothing, target |-> 0, text |-> Nothing,
           who |-> Nothing, row |-> Nothing, stale |-> FALSE]

(* The page as initialize() finds it: the claim its URL carries, if any.    *)
Loaded(claim, proof, text) ==
  [release |-> deployed, who |-> Nothing, owner |-> Nothing, text |-> text,
   claim |-> claim, proof |-> proof, url |-> claim # Nothing, consumed |-> FALSE,
   kept |-> Nothing, durable |-> FALSE, installed |-> FALSE,
   ready |-> Nothing, switched |-> FALSE]

Row(text, who, target, bound) ==
  [text |-> text, by |-> who, target |-> target, bound |-> bound, fresh |-> TRUE]

Put(id, row) == [i \in DOMAIN rows \cup {id} |-> IF i = id THEN row ELSE rows[i]]
Drop(ids) == [i \in DOMAIN rows \ ids |-> rows[i]]

Hitch == hitches < MaxHitches /\ hitches' = hitches + 1
Smooth == UNCHANGED hitches
Lapse(what, case) == lapses' = IF case THEN lapses \cup {what} ELSE lapses

HandoffInit ==
  /\ deployed = 1 /\ worker = 1 /\ active = 1 /\ rows = [i \in {} |-> Nothing]
  /\ app = Loaded(Nothing, 0, Nothing) /\ task = NoTask
  /\ typed = {} /\ sent = {}
  /\ carried = Nothing /\ lapses = {} /\ hitches = 0

-----------------------------------------------------------------------------
(* What the page holds.                                                     *)

(* A claim that was read from the URL and not taken from the store yet      *)
(* locks the page.                                                          *)
Unread(p) == p.claim # Nothing /\ ~p.consumed
Pending(p) == p.kept # Nothing

(* Operations that forbid a reload.                                         *)
Unsafe == Unread(app) \/ Pending(app) \/ task # NoTask

(* updateHandoffEligible, of a page with work.                              *)
Eligible(p) == /\ p.who # Nothing /\ p.owner = Nothing /\ p.text # Nothing
               /\ ~Unread(p) /\ ~Pending(p)

(* updateHandoffMatchesComposer                                             *)
Matches(target) == /\ app.ready # Nothing
                   /\ app.ready.target = target /\ app.ready.text = app.text
                   /\ app.ready.mine

(* invalidatePreparedUpdateHandoff: the prepared or staged row is dropped,  *)
(* and a staged one may not become the prepared one any more.               *)
Invalidated(p) == [p EXCEPT !.ready = Nothing]
Withdrawn == {i \in Handoffs : \/ app.ready # Nothing /\ app.ready.id = i
                               \/ app.ready = Nothing /\ task.by = "prepare" /\ task.id = i}
Stale == IF task.by = "prepare" THEN [task EXCEPT !.stale = TRUE] ELSE task

(* finishRetainedUpdateRecovery                                             *)
Finished(p) == [p EXCEPT !.kept = Nothing, !.durable = FALSE, !.installed = FALSE, !.url = FALSE]

(* restoreUpdateHandoff, in a composer that is empty or agrees.             *)
Restorable(p) == p.text \in {Nothing, p.kept.text}

(* retainedUpdateMigrationHasCompetingComposer                              *)
Competes(p) == ~(p.installed /\ p.text = p.kept.text) /\ ~Restorable(p)

-----------------------------------------------------------------------------
(* The world: releases, workers, time.                                      *)

Deploy == /\ deployed < MaxReleases /\ deployed' = deployed + 1
          /\ UNCHANGED <<worker, active, rows, app, task, history, carried, lapses, hitches>>

(* registration.update() installs the newest worker; it waits.  A page that *)
(* came from the network may be of its release already.                     *)
WorkerInstalled == /\ worker < deployed /\ worker' = deployed
                   /\ UNCHANGED <<deployed, active, rows, app, task, history, carried, lapses,
                                  hitches>>

(* "controllerchange": this page's or another page's SKIP_WAITING.          *)
ControllerChange == /\ active # worker /\ active' = worker
                    /\ app' = [app EXCEPT !.switched = TRUE]
                    /\ UNCHANGED <<deployed, worker, rows, task, history, carried, lapses, hitches>>

(* The activation timer: the confirmed worker did not take over.            *)
ActivationTimeout == /\ app.ready # Nothing /\ ~app.switched /\ Hitch
                     /\ rows' = Drop(Withdrawn) /\ app' = Invalidated(app)
                     /\ UNCHANGED <<deployed, worker, active, task, history, carried, lapses>>

RowExpires == \E i \in DOMAIN rows :
  /\ rows[i].fresh /\ Hitch
  /\ rows' = [rows EXCEPT ![i].fresh = FALSE]
  /\ UNCHANGED <<deployed, worker, active, app, task, history, carried, lapses>>

-----------------------------------------------------------------------------
(* The user.                                                                *)

Editable == /\ app.who # Nothing /\ app.owner = Nothing
            /\ ~Unread(app) /\ ~Pending(app) /\ task.by # "enter"

(* composerDraftChanged                                                     *)
Type(d) ==
  /\ Editable /\ d # app.text
  /\ d \notin typed /\ typed' = typed \cup ({d} \ {Nothing})
  /\ app' = Invalidated([app EXCEPT !.text = d])
  /\ rows' = Drop(Withdrawn) /\ task' = Stale /\ carried' = Nothing
  /\ UNCHANGED <<deployed, worker, active, sent, lapses, hitches>>

(* submitMessage, of a send the server accepts.  The composer is emptied by *)
(* assignment; only detaching images invalidates a prepared handoff.        *)
SubmitDraft ==
  /\ Editable /\ app.text # Nothing /\ app.release = deployed
  /\ sent' = sent \cup {app.text}
  /\ carried' = Nothing
  /\ IF app.text \in Pictures
     THEN /\ app' = Invalidated([app EXCEPT !.text = Nothing])
          /\ rows' = Drop(Withdrawn) /\ task' = Stale
     ELSE app' = [app EXCEPT !.text = Nothing] /\ UNCHANGED <<rows, task>>
  /\ UNCHANGED <<deployed, worker, active, typed, lapses, hitches>>

(* Resume, New conversation, or opening the exact conversation: the kept    *)
(* draft is installed (a competing composer after a second press) and the   *)
(* row consumed.                                                            *)
Assign ==
  /\ Pending(app) /\ app.who # Nothing /\ task.by # "enter"
  /\ app' = Finished([app EXCEPT !.text = app.kept.text])
  /\ rows' = Drop({app.claim})
  /\ UNCHANGED <<deployed, worker, active, task, history, carried, lapses, hitches>>

(* requireFreshAuthentication keeps the work in page memory for its owner.  *)
(* It has no caller until the sign in under way has built its clients.      *)
Expelled ==
  /\ app.who # Nothing /\ task.step \notin {"take", "keep"} /\ Hitch
  /\ app' = [app EXCEPT !.who = Nothing, !.owner = app.who,
                         !.ready = IF @ = Nothing THEN @ ELSE [@ EXCEPT !.mine = FALSE]]
  /\ task' = IF task.by = "enter" THEN NoTask ELSE task
  /\ UNCHANGED <<deployed, worker, active, rows, history, carried, lapses>>

Logout ==
  /\ app.who # Nothing /\ task.by # "enter" /\ app.release = deployed
  /\ LET gone == Withdrawn \cup IF Pending(app) THEN {app.claim} ELSE {}
         out == Invalidated([app EXCEPT !.who = Nothing, !.owner = Nothing, !.text = Nothing]) IN
     /\ rows' = Drop(gone)
     /\ app' = IF Pending(app) THEN Finished(out) ELSE out
  /\ task' = Stale /\ carried' = Nothing
  /\ UNCHANGED <<deployed, worker, active, history, lapses, hitches>>

(* The user, or a crash, reloads the page: what only the page held is gone, *)
(* unless the browser restores the text of the composer.                    *)
Reload ==
  /\ Hitch
  /\ \E text \in {Nothing, app.text} :
       app' = Loaded(IF app.url THEN app.claim ELSE Nothing, app.proof, text)
  /\ task' = NoTask
  /\ carried' = IF app.url /\ app.claim \in DOMAIN rows /\ rows[app.claim].text = carried
                THEN carried ELSE Nothing
  /\ UNCHANGED <<deployed, worker, active, rows, history, lapses>>

-----------------------------------------------------------------------------
(* Leaving for another release.                                             *)

(* replaceWithRelease: the row the new page's fragment reaches, if any.     *)
(* What was unsent here is owed to the next page.                           *)
Navigate(claim, proof, store) ==
  LET unsent == IF app.text # Nothing THEN app.text
                ELSE IF Pending(app) THEN app.kept.text ELSE carried
      reached == claim # Nothing /\ claim \in DOMAIN store /\ store[claim].text = unsent IN
  /\ app' = Loaded(claim, proof, Nothing) /\ task' = NoTask
  /\ rows' = store /\ carried' = unsent
  /\ Lapse("migrated", unsent # Nothing /\ ~reached /\ task.by = "migrate")

(* prepareUpdateHandoff's first half, under an identifier never used.       *)
Stages(target, kind) ==
  LET free == Handoffs \ (DOMAIN rows \cup {app.claim})
      id == CHOOSE i \in free : TRUE IN
  /\ free # {}
  /\ task' = [NoTask EXCEPT !.by = kind, !.id = id, !.target = target, !.text = app.text,
                            !.who = app.who]
  /\ IF app.ready # Nothing /\ ~Matches(target)
     THEN app' = Invalidated(app) /\ rows' = Drop(Withdrawn)
     ELSE UNCHANGED <<app, rows>>

(* activateWaitingUpdate, asked to protect a draft first: for the worker    *)
(* that took over, or the one that waits.                                   *)
ApplyUpdate ==
  LET target == IF app.switched THEN active ELSE worker IN
  /\ app.switched \/ worker # active
  /\ task = NoTask /\ Eligible(app) /\ ~Matches(target)
  /\ Stages(target, "prepare")
  /\ UNCHANGED <<deployed, worker, active, history, carried, lapses, hitches>>

(* reloadForActiveUpdate, when updateReloadSafe.                            *)
ReloadForUpdate ==
  /\ app.switched /\ ~Unsafe
  /\ app.text # Nothing => Eligible(app) /\ Matches(active)
  /\ Navigate(IF app.ready = Nothing THEN Nothing ELSE app.ready.id, 0, rows)
  /\ Smooth /\ UNCHANGED <<deployed, worker, active, history>>

(* refreshForReleaseMismatch, from any answer of a newer server; a sign in  *)
(* under way ends with it.                                                  *)
Mismatch ==
  LET free == task.by \in {"none", "enter"}
      chain == [NoTask EXCEPT !.by = "chain", !.target = deployed] IN
  /\ app.release # deployed /\ free /\ Smooth
  /\ UNCHANGED <<deployed, worker, active, history>>
  /\ \/ /\ Unread(app) /\ app.text = Nothing
        /\ task' = chain /\ UNCHANGED <<rows, app, carried, lapses>>
     \/ /\ Pending(app) /\ ~Unread(app) /\ app.who = Nothing /\ app.durable /\ Restorable(app)
        /\ task' = chain /\ UNCHANGED <<rows, app, carried, lapses>>
     \/ /\ Pending(app) /\ ~Unread(app) /\ app.who # Nothing /\ ~Competes(app)
        /\ task' = [NoTask EXCEPT !.by = "migrate", !.step = "save", !.id = app.claim,
                                  !.target = deployed, !.row = app.kept]
        /\ UNCHANGED <<rows, app, carried, lapses>>
     \/ /\ ~Unread(app) /\ ~Pending(app) /\ app.who # Nothing /\ app.owner # Nothing
        /\ app.text # Nothing /\ Stages(deployed, "carry")
        /\ UNCHANGED <<carried, lapses>>
     \/ /\ task = NoTask /\ Eligible(app) /\ Stages(deployed, "prepare, then go")
        /\ UNCHANGED <<carried, lapses>>
     \/ /\ ~Unsafe /\ app.text = Nothing
        /\ Navigate(IF app.ready = Nothing THEN Nothing ELSE app.ready.id, 0, rows)

(* createChainedUpdateHandoffClaim: an unread row crosses one more release, *)
(* its key proves the next target.                                          *)
Chained ==
  /\ task.by = "chain"
  /\ Navigate(app.claim, task.target, rows)
  /\ Smooth /\ UNCHANGED <<deployed, worker, active, history>>

(* migrateRetainedUpdateHandoff writes the kept record again, for the next  *)
(* release and under the same identifier, then navigates.                   *)
MigrateSaved ==
  /\ task.by = "migrate" /\ task.step = "save"
  /\ rows' = Put(task.id, [task.row EXCEPT !.target = task.target, !.fresh = TRUE])
  /\ task' = [task EXCEPT !.step = "go"]
  /\ Smooth /\ UNCHANGED <<deployed, worker, active, app, history, carried, lapses>>

Migrated ==
  /\ task.by = "migrate" /\ task.step = "go"
  /\ Navigate(task.id, 0, rows)
  /\ Smooth /\ UNCHANGED <<deployed, worker, active, history>>

(* What prepareUpdateHandoff and carryAuthenticationRecoveryToRelease find  *)
(* unchanged once the row is written.                                       *)
UnchangedMutantAccount(t) == app.who = t.who
Unchanged(t) == /\ app.who = t.who /\ app.text = t.text /\ ~t.stale
                /\ t.by # "carry" => Eligible(app)
                /\ t.by = "carry" => app.owner # Nothing

(* The row is saved: the draft is prepared, or leaves at once, or the row   *)
(* is discarded because the page has moved on.                              *)
Staged ==
  /\ task.by \in {"prepare", "prepare, then go", "carry"} /\ Smooth
  /\ UNCHANGED <<deployed, worker, active, history>>
  /\ \E bound \in BOOLEAN :
       LET stored == Put(task.id, Row(task.text, task.who, task.target, bound)) IN
       IF ~Unchanged(task)
       THEN task' = NoTask /\ UNCHANGED <<rows, app, carried, lapses>>
       ELSE IF task.by = "prepare" /\ ~(app.switched /\ task.target = active)
            THEN /\ rows' = stored /\ task' = NoTask
                 /\ app' = [app EXCEPT !.ready = [id |-> task.id, target |-> task.target,
                                                  text |-> task.text, mine |-> TRUE]]
                 /\ UNCHANGED <<carried, lapses>>
            ELSE Navigate(task.id, 0, stored)

(* The store fails, or times out: the page stays with its work.             *)
StageFails ==
  /\ task.by \in {"prepare", "prepare, then go", "carry", "migrate", "chain"} /\ Hitch
  /\ task' = NoTask
  /\ app' = IF task.by \in {"prepare", "prepare, then go"} THEN Invalidated(app) ELSE app
  /\ UNCHANGED <<deployed, worker, active, rows, history, carried, lapses>>

-----------------------------------------------------------------------------
(* Arriving: authenticated() and its consumption of the claim.              *)

(* Another account's sign in discards what the page kept for its owner.     *)
Enter(a) ==
  LET foreign == app.owner \notin {Nothing, a}
      empty == Invalidated([app EXCEPT !.text = Nothing, !.owner = Nothing])
      mine == IF ~foreign THEN app ELSE IF Pending(app) THEN Finished(empty) ELSE empty IN
  /\ app.who = Nothing /\ app.release = deployed /\ task.by = "none"
  /\ app' = [mine EXCEPT !.who = a]
  /\ rows' = IF foreign THEN Drop(Withdrawn \cup IF Pending(app) THEN {app.claim} ELSE {}) ELSE rows
  /\ carried' = IF foreign THEN Nothing ELSE carried
  /\ task' = [NoTask EXCEPT !.by = "enter", !.step = IF Unread(mine) THEN "take" ELSE "settle"]
  /\ Smooth /\ UNCHANGED <<deployed, worker, active, history, lapses>>

(* validateUpdateHandoff: within its five minutes, and of this account.     *)
Ours(row) == row.fresh /\ row.by = app.who

(* decryptUpdateHandoff: moreover for this release, or chained to it.       *)
Valid(row) == Ours(row) /\ app.release \in {row.target, app.proof}

(* store.take deletes the row in the transaction that reads it.             *)
TakeRow ==
  LET row == rows[app.claim] IN
  /\ task.by = "enter" /\ task.step = "take"
  /\ UNCHANGED <<deployed, worker, active, history>>
  /\ \/ /\ Hitch /\ task' = [task EXCEPT !.step = "settle", !.row = Nothing]
        /\ UNCHANGED <<rows, app, carried, lapses>>
     \/ /\ app.claim \notin DOMAIN rows /\ Smooth
        /\ task' = [task EXCEPT !.step = "settle", !.row = Nothing]
        /\ app' = [app EXCEPT !.consumed = TRUE, !.url = FALSE]
        /\ UNCHANGED <<rows, carried, lapses>>
     \/ /\ app.claim \in DOMAIN rows /\ Smooth /\ rows' = Drop({app.claim})
        /\ IF Valid(row)
           THEN /\ task' = [task EXCEPT !.step = "keep", !.row = row]
                /\ app' = [app EXCEPT !.consumed = TRUE]
                /\ UNCHANGED <<carried, lapses>>
           ELSE /\ task' = [task EXCEPT !.step = "settle", !.row = Nothing]
                /\ app' = [app EXCEPT !.consumed = TRUE, !.url = FALSE]
                /\ carried' = IF row.by = app.who THEN carried ELSE Nothing
                /\ lapses' = lapses \cup IF ~row.fresh THEN {"expired"}
                                         ELSE IF row.by = app.who THEN {"overtaken"} ELSE {}

(* The row is written back until the draft has found its place; if it       *)
(* cannot be, the page alone holds it.                                      *)
KeepRow ==
  /\ task.by = "enter" /\ task.step = "keep"
  /\ \/ Smooth /\ rows' = Put(app.claim, task.row)
        /\ app' = [app EXCEPT !.kept = task.row, !.durable = TRUE, !.installed = FALSE]
     \/ Hitch /\ UNCHANGED rows
        /\ app' = [app EXCEPT !.kept = task.row, !.durable = FALSE, !.installed = FALSE, !.url = FALSE]
  /\ task' = [task EXCEPT !.step = "settle", !.row = Nothing]
  /\ UNCHANGED <<deployed, worker, active, history, carried, lapses>>

(* The rest of authenticated(): the capabilities are known.  A draft of a   *)
(* conversation stays kept until that conversation is verified.             *)
Settle ==
  LET p == [app EXCEPT !.owner = Nothing]
      restored == [p EXCEPT !.text = app.kept.text, !.installed = TRUE] IN
  /\ task.by = "enter" /\ task.step = "settle" /\ task' = NoTask
  /\ \/ /\ Pending(app) => ~Restorable(app)
        /\ app' = p /\ UNCHANGED rows
     \/ /\ Pending(app) /\ Restorable(app)
        /\ \/ app.kept.bound /\ app' = restored /\ UNCHANGED rows
           \/ app' = Finished(restored) /\ rows' = Drop({app.claim})
  /\ Smooth /\ UNCHANGED <<deployed, worker, active, history, carried, lapses>>

-----------------------------------------------------------------------------
HandoffNext ==
  \/ Deploy \/ WorkerInstalled \/ ControllerChange \/ ActivationTimeout \/ RowExpires
  \/ \E d \in Drafts \cup {Nothing} : Type(d)
  \/ SubmitDraft \/ Assign \/ Expelled \/ Logout \/ Reload
  \/ ApplyUpdate \/ ReloadForUpdate \/ Mismatch
  \/ Chained \/ MigrateSaved \/ Migrated \/ Staged \/ StageFails
  \/ \E a \in Accounts : Enter(a)
  \/ TakeRow \/ KeepRow \/ Settle

HandoffSpec == HandoffInit /\ [][HandoffNext]_handoffVars

-----------------------------------------------------------------------------
(* Where an unsent draft can still come back from.                          *)
Reachable ==
  {app.text} \cup (IF Pending(app) THEN {app.kept.text} ELSE {})
    \cup (IF task.by = "enter" /\ task.step = "keep" THEN {task.row.text} ELSE {})
    \cup (IF app.url /\ app.claim \in DOMAIN rows THEN {rows[app.claim].text} ELSE {})

(* A draft that an update took away from one page is in the next page's     *)
(* composer, in its protected record, or in a row its URL reaches, for as   *)
(* long as the user has not edited, sent or given it up and no other        *)
(* account has signed in; what the page shows as its own was typed by the   *)
(* account signed in; and a page that calls a reload safe still reaches the *)
(* row.  prepareUpdateHandoff, consumeUpdateHandoff, README.md:206.         *)
DraftArrives ==
  \/ lapses # {}
  \/ /\ carried \in Reachable \cup {Nothing}
     /\ Pending(app) /\ app.who # Nothing => app.kept.by = app.who
     /\ Pending(app) /\ app.durable => app.url /\ app.claim \in DOMAIN rows

(* A draft the page restores as unsent was not sent.  "Your unsent prompt   *)
(* was restored; review it before sending." (browser-app.js:7222)           *)
RestoredIsUnsent == app.text \notin sent
=============================================================================
