----------------------------- MODULE MCBrowser -----------------------------
(* One page, seen from its sends, from the conversations it follows, from   *)
(* the drafts it hands to its next release and from a deletion; the parts   *)
(* share no variable and are explored one after the other.                  *)
EXTENDS BrowserSend, BrowserStream, BrowserHandoff, BrowserDelete

VARIABLE part  \* "send", "stream", "handoff" or "delete", for ever

browserVars == <<sendVars, streamVars, handoffVars, deleteVars, part>>

Symmetry == Permutations(Threads)

(* Bound: handlers of the view that wait at the same time, where a third    *)
(* could join: a stream or a list, and a request of the user's.             *)
MaxJobs == 2

(* Bound: requests the page gave up on that are still on their way.         *)
MaxStrays == 2

(* Nothing is claimed of a page after these.                                *)
Claimed == /\ Never({"barged", "late"}) /\ lapses = {}
           /\ Cardinality(jobs) <= MaxJobs /\ Cardinality(stray) <= MaxStrays

Init == /\ part \in {"send", "stream", "handoff", "delete"}
        /\ SendInit /\ StreamInit /\ HandoffInit /\ DeleteInit
        /\ part # "send" => page.thread = None
        /\ part # "delete" => kind = "chat"

Next ==
  /\ UNCHANGED part
  /\ \/ part = "send" /\ SendNext /\ UNCHANGED <<streamVars, handoffVars, deleteVars>>
     \/ part = "stream" /\ StreamNext /\ UNCHANGED <<sendVars, handoffVars, deleteVars>>
     \/ part = "handoff" /\ HandoffNext /\ UNCHANGED <<sendVars, streamVars, deleteVars>>
     \/ part = "delete" /\ DeleteNext /\ UNCHANGED <<sendVars, streamVars, handoffVars>>

Spec == Init /\ [][Next]_browserVars
=============================================================================
