----------------------------- MODULE CarefulUse -----------------------------
(***************************************************************************)
(* Client, used by an application that keeps the rules its code leaves     *)
(* unwritten: its threads call the methods in turn, so that no two pushes  *)
(* overlap (nothing in the library sees to that: they need a lock of their *)
(* own); it changes its subscriptions only before run(), and unsubscribes  *)
(* from nothing it has not subscribed to.  The connections stay up, every  *)
(* reply has a LENGTH, and the queues stay short enough never to move      *)
(* their maps of blocks (14 calls and 79 replies do not).                  *)
(***************************************************************************)
EXTENDS Client

ASSUME CalmAssumption ==
  /\ Faults = {} /\ "NOLENGTH" \notin Oddities
  /\ OutGrowth = {} /\ InGrowth = {}

Changes == {"SUBSCRIBE", "UNSUBSCRIBE"}

CarefulCall(t, m) ==
  /\ \A u \in Callers : pc[u] \notin PushPoints
  /\ m.type \in Changes => pc[Main] = "app"
  /\ m.type = "UNSUBSCRIBE" => m.topic \in topicCallbacks
  /\ Call(t, m)

\* run() waits for the change that a caller is making.
CarefulRun == (\A t \in Callers : pc[t] \notin {"insert", "erase"}) /\ Run

CarefulNext ==
  \/ status = "running" /\ Inside
  \/ status = "running" /\ (CarefulRun \/ \E t \in Callers, m \in ApiCall : CarefulCall(t, m))
  \/ Ended

CarefulSpec == Init /\ [][CarefulNext]_vars

-----------------------------------------------------------------------------
(* Properties *)

\* Under these rules the library has one fault left: run() returns while other
\* threads use its frame.  Until then no step is undefined, aborts or exits:
\* the publisher pops no slot that is not complete, no iterator or map is used
\* while it changes, nothing is written to a NULL stream.
OnlyLateUse ==
  status \in {"failure", "crashed"} => status = "crashed" /\ pc[Main] = "returned"

=============================================================================
