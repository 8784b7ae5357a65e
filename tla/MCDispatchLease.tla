-------------------------- MODULE MCDispatchLease --------------------------
(* Small instances of DispatchLease: two generations, each in a thread of  *)
(* its own, and two owners.                                                *)
EXTENDS DispatchLease, TLC

CONSTANTS t1, t2, g1, g2, o1, o2

MCTwoThreads == g1 :> t1 @@ g2 :> t2

\* Owners are interchangeable, and so are the two threads with what is in them.
MCSymmetry ==
  Permutations({o1, o2}) \cup {g1 :> g2 @@ g2 :> g1 @@ t1 :> t2 @@ t2 :> t1}
=============================================================================
