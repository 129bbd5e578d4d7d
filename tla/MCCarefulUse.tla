---------------------------- MODULE MCCarefulUse ----------------------------
(* Instances of CarefulUse for TLC. *)
EXTENDS CarefulUse

CONSTANTS t1, b1

OneTopic == {t1}
OneBody  == {b1}

=============================================================================
