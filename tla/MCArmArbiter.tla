---------------------------- MODULE MCArmArbiter ----------------------------
(* Small instances of ArmArbiter: two arms, two keys.  The code names        *)
(* the arms by number; model values stand for 101 and 1.                     *)
EXTENDS ArmArbiter, TLC

CONSTANTS A, B, k1, k2

\* Sound only without a forced arm: then the two arms are interchangeable too.
ArmSymmetry == Permutations(Keys) \cup Permutations(Channels)
=============================================================================
