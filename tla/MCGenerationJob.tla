-------------------------- MODULE MCGenerationJob --------------------------
(* Small instances of GenerationJob: two processes, two turns.             *)
EXTENDS GenerationJob, TLC

CONSTANTS s1, s2, t1, t2, g1, g2

MCTwoThreads == g1 :> t1 @@ g2 :> t2

\* Processes are interchangeable, and so are the threads with their turns.
MCSymmetry ==
  Permutations({s1, s2}) \cup {g1 :> g2 @@ g2 :> g1 @@ t1 :> t2 @@ t2 :> t1}
=============================================================================
