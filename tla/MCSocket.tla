------------------------------ MODULE MCSocket ------------------------------
(* Instances of Socket for TLC. *)
EXTENDS Socket

CONSTANTS o1, o2, o3

Three == {o1, o2, o3}

=============================================================================
