-------------------------- MODULE ClientRefinement --------------------------
(***************************************************************************)
(* Client implements PubSub.  What the application asks for and what the   *)
(* server handles are Client's histories of calls and requests; a message  *)
(* is taken when main pops it from the inbox.                              *)
(***************************************************************************)
EXTENDS Client

PS == INSTANCE PubSub WITH
        Requests <- ApiCall, Messages <- MailItem,
        calls <- called, handled <- log, taken <- ndisp,
        closing <- disconnectMsg, state <- status

\* Every step of the threads, the queues and the connections is a step of
\* PubSub or invisible to the application.
ImplementsPubSub == PS!Spec

\* The threads also keep the promise that sending and taking go on.
DeliversAsPubSub == PS!FairSpec

=============================================================================
