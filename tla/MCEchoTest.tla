----------------------------- MODULE MCEchoTest -----------------------------
(* Instances of EchoTest for TLC. *)
EXTENDS EchoTest

CONSTANT echo

EchoTopics == {echo}

=============================================================================
