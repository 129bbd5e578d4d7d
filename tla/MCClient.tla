------------------------------ MODULE MCClient ------------------------------
(* Instances of Client, and of its refinement, for TLC. *)
EXTENDS ClientRefinement, TLC

CONSTANTS t1, t2, b1

OneTopic  == {t1}
TwoTopics == {t1, t2}
OneBody   == {b1}
Symmetry  == Permutations(TwoTopics)

=============================================================================
