------------------------- MODULE MCRolloutAdmission -------------------------
(* Small instances of RolloutAdmission.                                    *)
EXTENDS RolloutAdmission, TLC

CONSTANTS s1, s2, s3, r1, r2

MCSymmetry == Permutations({s1, s2, s3}) \cup Permutations({r1, r2})
=============================================================================
