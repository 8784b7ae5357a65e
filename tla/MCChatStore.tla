---------------------------- MODULE MCChatStore ----------------------------
(* Instances of ChatStore: identifiers of a kind are interchangeable.      *)
(*                                                                        *)
EXTENDS ChatStore, TLC

Interchangeable == Permutations(Ids) \cup Permutations(Gens) \cup Permutations(Snaps)
                     \cup Permutations(Keys)
=============================================================================
