------------------------------- MODULE PubSub -------------------------------
(***************************************************************************)
(* What the client library promises an application that calls it from one  *)
(* thread: the calls reach the server in order, the server's messages      *)
(* reach the callbacks in order, a callback runs at most once for each     *)
(* message and only for a topic that was subscribed to, and the process    *)
(* ends well only after disconnect().  No threads, locks, queues or        *)
(* connections here.                                                       *)
(***************************************************************************)
EXTENDS Naturals, Sequences

CONSTANTS
  Requests,  \* what an application may ask for
  Messages   \* what the server may have for a client

VARIABLES
  calls,     \* what the application has asked for, in order
  handled,   \* what the server has handled
  subs,      \* the topics it has for this client
  mail,      \* the messages it has for this client, from the first on
  taken,     \* how many of them the client has taken
  shown,     \* the callbacks that have run
  closing,   \* disconnect() has been called
  state      \* of the process

vars == <<calls, handled, subs, mail, taken, shown, closing, state>>

Init ==
  /\ calls = <<>> /\ handled = <<>> /\ subs = {} /\ mail = <<>>
  /\ taken = 0 /\ shown = <<>> /\ closing = FALSE /\ state = "running"

Request ==
  /\ \E m \in Requests : calls' = Append(calls, m)
  /\ UNCHANGED <<handled, subs, mail, taken, shown, closing, state>>

Handle ==
  /\ Len(handled) < Len(calls)
  /\ LET m == calls[Len(handled) + 1] IN
       /\ handled' = Append(handled, m)
       /\ subs' = CASE m.type = "SUBSCRIBE"   -> subs \cup {m.topic}
                    [] m.type = "UNSUBSCRIBE" -> subs \ {m.topic}
                    [] OTHER                  -> subs
       /\ mail' = IF m.type = "MESSAGE" /\ m.topic \in subs THEN Append(mail, m) ELSE mail
  /\ UNCHANGED <<calls, taken, shown, closing, state>>

Arrive ==
  /\ \E m \in Messages : mail' = Append(mail, m)
  /\ UNCHANGED <<calls, handled, subs, taken, shown, closing, state>>

Take ==
  /\ taken < Len(mail)
  /\ taken' = taken + 1
  /\ UNCHANGED <<calls, handled, subs, mail, shown, closing, state>>

Subscribed(topic) ==
  \E k \in 1..Len(calls) : calls[k].type = "SUBSCRIBE" /\ calls[k].topic = topic

\* The message taken last, unless its callback has run.
Show ==
  /\ taken > 0 /\ \A i \in 1..Len(shown) : shown[i].n < taken
  /\ mail[taken].type = "MESSAGE" /\ Subscribed(mail[taken].topic)
  /\ shown' = Append(shown, [n |-> taken, m |-> mail[taken]])
  /\ UNCHANGED <<calls, handled, subs, mail, taken, closing, state>>

Disconnect ==
  /\ \E k \in 1..Len(calls) : calls[k].type = "DISCONNECT"
  /\ closing' = TRUE
  /\ UNCHANGED <<calls, handled, subs, mail, taken, shown, state>>

End ==
  /\ \E how \in {"success", "failure", "crashed"} :
       state' = how /\ (how = "success" => closing)
  /\ UNCHANGED <<calls, handled, subs, mail, taken, shown, closing>>

Next == /\ state = "running"
        /\ Request \/ Handle \/ Arrive \/ Take \/ Show \/ Disconnect \/ End

Spec == Init /\ [][Next]_vars

\* Until disconnect() the client goes on sending and taking.
Open(A)  == state = "running" /\ ~ closing /\ A
FairSpec == Spec /\ WF_vars(Open(Handle)) /\ WF_vars(Open(Take))

=============================================================================
