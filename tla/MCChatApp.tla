----------------------------- MODULE MCChatApp -----------------------------
(* Instances of ChatApp for TLC. *)
EXTENDS ChatApp

CONSTANTS chat, joined

ChatTopics == {chat}
Lines      == {joined}

=============================================================================
