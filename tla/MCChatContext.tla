--------------------------- MODULE MCChatContext ---------------------------
(* Instances of ChatContext: short and long messages, and requests that    *)
(* race at the same cursor.                                                *)
EXTENDS ChatContext, TLC

CONSTANTS s1, s2, s3, l1, l2

Short == {s1, s2, s3}
Long == {l1, l2}

MCIds == Short \cup Long
MCWeight == [m \in MCIds |-> IF m \in Long THEN 2 ELSE 1]
MCSnaps == 1 .. MaxMessages
MCKeys == 1 .. MaxMessages \cup {UserKey}

Interchangeable ==
  Permutations(Short) \cup Permutations(Long) \cup Permutations(Gens) \cup Permutations(Requests)
=============================================================================
