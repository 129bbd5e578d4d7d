------------------------------ MODULE EchoTest ------------------------------
(***************************************************************************)
(* The functional test: main starts the generator thread, subscribes to    *)
(* the echo topic and calls run(), while the generator publishes           *)
(* EchoMessages numbered messages and then disconnects.                    *)
(***************************************************************************)
EXTENDS Client

CONSTANTS EchoTopic, EchoMessages

Generator == "generator"

ASSUME EchoAssumption ==
  /\ Callers = {Main, Generator} /\ EchoTopic \in Topics
  /\ EchoMessages \in Nat /\ 1..EchoMessages \subseteq Bodies
  /\ MaxOut >= EchoMessages + 2

VARIABLES made,       \* calls the generator has made
          subscribed  \* main has called subscribe

echoVars == <<vars, made, subscribed>>

EchoInit == Init /\ made = 0 /\ subscribed = FALSE

\* The message numbered made + 1, or disconnect() after the last.
GeneratorCall ==
  /\ made <= EchoMessages
  /\ Call(Generator, IF made < EchoMessages
                     THEN [type |-> "MESSAGE", topic |-> EchoTopic, body |-> made + 1]
                     ELSE Bare("DISCONNECT"))
  /\ made' = made + 1 /\ UNCHANGED subscribed

Subscribe ==
  /\ ~ subscribed
  /\ Call(Main, [type |-> "SUBSCRIBE", topic |-> EchoTopic, body |-> None])
  /\ subscribed' = TRUE /\ UNCHANGED made

EchoRun == subscribed /\ Run /\ UNCHANGED <<made, subscribed>>

EchoNext ==
  \/ status = "running" /\ (GeneratorCall \/ Subscribe \/ EchoRun)
  \/ status = "running" /\ Inside /\ UNCHANGED <<made, subscribed>>
  \/ Ended /\ UNCHANGED <<made, subscribed>>

EchoSpec == EchoInit /\ [][EchoNext]_echoVars

\* As in Client, with the application's own steps: sleep(1) ends.  The server
\* need not answer.
Unchanged == UNCHANGED <<made, subscribed>>
EchoFairness ==
  /\ SF_echoVars(Running(GeneratorCall \/ (Method(Generator) /\ Unchanged)))
  /\ SF_echoVars(Running(Subscribe \/ EchoRun \/ ((Method(Main) \/ MainNext) /\ Unchanged)))
  /\ SF_vars(Running(PublisherNext)) /\ SF_vars(Running(ReceiverNext))

EchoFairSpec == EchoSpec /\ EchoFairness

-----------------------------------------------------------------------------
(* Properties *)

\* The test ends: it succeeds, fails or crashes, but never hangs.
EchoEnds == <>(status # "running")

\* The server echoes every message back to the client.
EveryMessageEchoed ==
  status = "success" =>
    \A n \in 1..EchoMessages : \E i \in 1..Len(shown) : shown[i].m.body = n

=============================================================================
