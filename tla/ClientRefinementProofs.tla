------------------------ MODULE ClientRefinementProofs ------------------------
(***************************************************************************)
(* Proof that Client implements PubSub as long as no two calls overlap.    *)
(***************************************************************************)
EXTENDS ClientRefinement, ClientOrderingProofs

-----------------------------------------------------------------------------
(* What the application has asked for *)

Asked(m)      == \E k \in 1..Len(called) : called[k] = m
Wanted(topic) == \E k \in 1..Len(called) : called[k].type = "SUBSCRIBE" /\ called[k].topic = topic

InCall  == PushPoints \cup {"flagWait", "flag"}
Showing == {"ioWait", "callback"}

\* A method works for the call it was given, topicCallbacks holds topics that
\* were subscribed to, and so does main on its way to a callback.
OnRequest ==
  /\ \A t \in Callers :
       /\ pc[t] \in InCall => Asked(msg[t])
       /\ pc[t] = "insert" => msg[t].type = "SUBSCRIBE"
       /\ pc[t] \in {"flagWait", "flag"} => msg[t].type = "DISCONNECT"
  /\ \A topic \in topicCallbacks : Wanted(topic)
  /\ pc[Main] \in Showing => Wanted(msg[Main].topic)

\* What the threads do between the calls and the lookups.
Ordinary ==
  /\ called' = called /\ topicCallbacks' \subseteq topicCallbacks
  /\ \A t \in Callers : pc'[t] \in InCall =>
       /\ pc[t] \in InCall /\ msg'[t] = msg[t]
       /\ pc'[t] = "insert" => pc[t] = "insert"
       /\ pc'[t] \in {"flagWait", "flag"} =>
            pc[t] \in {"flagWait", "flag"} \/ msg[t].type = "DISCONNECT"
  /\ pc'[Main] \in Showing => pc[Main] \in Showing /\ msg'[Main] = msg[Main]

\* An ordinary step preserves the invariant.
LEMMA OrdinaryKeeps == ASSUME OnRequest, Ordinary PROVE OnRequest'
<1>1. /\ \A m : Asked(m) => \E k \in 1..Len(called') : called'[k] = m
      /\ \A topic : Wanted(topic) =>
           \E k \in 1..Len(called') : called'[k].type = "SUBSCRIBE" /\ called'[k].topic = topic
  BY DEF Ordinary, Asked, Wanted
<1>2. ASSUME NEW t \in Callers
      PROVE  /\ pc'[t] \in InCall => \E k \in 1..Len(called') : called'[k] = msg'[t]
             /\ pc'[t] = "insert" => msg'[t].type = "SUBSCRIBE"
             /\ pc'[t] \in {"flagWait", "flag"} => msg'[t].type = "DISCONNECT"
  BY <1>1 DEF OnRequest, Ordinary, InCall, PushPoints
<1>3. /\ \A topic \in topicCallbacks' :
           \E k \in 1..Len(called') : called'[k].type = "SUBSCRIBE" /\ called'[k].topic = topic
      /\ pc'[Main] \in Showing =>
           \E k \in 1..Len(called') :
             called'[k].type = "SUBSCRIBE" /\ called'[k].topic = msg'[Main].topic
  BY <1>1 DEF OnRequest, Ordinary
<1>4. QED BY <1>2, <1>3 DEF OnRequest, Asked, Wanted

\* Steps that are not ordinary: a call, an insertion and a lookup.
LEMMA Extraordinary ==
  TypeOK /\ [Next]_vars =>
    \/ Ordinary
    \/ \E t \in Callers : (\E m \in ApiCall : Call(t, m)) \/ Insert(t)
    \/ Find
<1> SUFFICES ASSUME TypeOK, [Next]_vars
             PROVE  \/ Ordinary
                    \/ \E t \in Callers : (\E m \in ApiCall : Call(t, m)) \/ Insert(t)
                    \/ Find
  OBVIOUS
<1> USE CallersAssumption DEF Threads, Senders, Publisher, Receiver, Main, Goto, Wait,
      Post, Hold, data, threadVars, pushVars, nodeVars, lockVars, mapVars, serverVars, inVars,
      endVars, Ordinary, InCall, PushPoints, Showing
<1>t. pc \in [Threads -> Points] /\ msg \in [Threads -> Message \cup {None, Junk}]
  BY DEF TypeOK, FunctionTypes
<1>1. CASE UNCHANGED vars \/ Dies
  BY <1>1 DEF vars, Dies
<1>2. ASSUME NEW t \in Callers, Erase(t) \/ PushStep(t) \/ FlagWait(t) \/ Flag(t)
      PROVE  Ordinary
  BY <1>t, <1>2 DEF Erase, PushStep, PushBack, Construct, Load, Store, Link, SetNode, SetCur,
     Pushed, FlagWait, Flag
<1>3. ASSUME NEW t \in Senders, SenderStep(t) PROVE Ordinary
  BY <1>t, <1>3 DEF SenderStep, Connect, PutWait, Put, Get, Cancelled
<1>4. ASSUME NEW t \in Senders \cup {Main}, CheckWait(t) PROVE Ordinary
  BY <1>t, <1>4 DEF CheckWait
<1>5. CASE PublisherStep
  BY <1>t, <1>5 DEF PublisherStep, PubCheck, Shutdown, Poll, PopWait, Pop, Close
<1>6. CASE ReceiverStep
  BY <1>t, <1>6 DEF ReceiverStep, RcvCheck, Shutdown, Read, Push
<1>7. CASE MainStep /\ ~ Find
  BY <1>t, <1>7 DEF MainStep, Run, Start, StartReceiver, MainCheck, Shutdown, InboxEmpty,
     Dispatch, IoWait, RunCallback, CancelPublisher, CancelReceiver, Cancel
<1>8. CASE ServerNext
  BY <1>8 DEF ServerNext, ServerHandle, ServerRetrieve, ServerMail, ServerClose
<1>9. QED
  BY <1>1, <1>2, <1>3, <1>4, <1>5, <1>6, <1>7, <1>8, Steps DEF AnyStep, CallerStep

\* A call is recorded before it is carried out.
LEMMA OnRequestStep == TypeOK /\ Handling /\ OnRequest /\ [Next]_vars => OnRequest'
<1> SUFFICES ASSUME TypeOK, Handling, OnRequest, [Next]_vars PROVE OnRequest'
  OBVIOUS
<1>t. pc \in [Threads -> Points] /\ called \in Seq(ApiCall) /\ Len(called) \in Nat
      /\ DOMAIN msg = Threads /\ Callers \subseteq Threads /\ Main \in Threads
  BY DEF TypeOK, FunctionTypes, SequenceTypes, Threads
<1>1. CASE Ordinary
  BY <1>1, OrdinaryKeeps
<1>2. ASSUME NEW t \in Callers, NEW m \in ApiCall, Call(t, m) PROVE OnRequest'
  <2>1. /\ called' = Append(called, m) /\ topicCallbacks' = topicCallbacks
        /\ pc' = [pc EXCEPT ![t] = Entry(m)] /\ msg' = [msg EXCEPT ![t] = m]
        /\ pc[t] = "app"
    BY <1>2 DEF Call, Goto, Hold, mapVars
  <2>2. Len(called') = Len(called) + 1 /\ called'[Len(called) + 1] = m
        /\ \A k \in 1..Len(called) : called'[k] = called[k]
    BY <1>t, <2>1, Appended
  <2>3. /\ 1..Len(called) \subseteq 1..Len(called') /\ Len(called) + 1 \in 1..Len(called')
    BY <1>t, <2>2
  <2>4. /\ Asked(m)' /\ \A x : Asked(x) => \E k \in 1..Len(called') : called'[k] = x
        /\ \A topic : Wanted(topic) =>
             \E k \in 1..Len(called') : called'[k].type = "SUBSCRIBE" /\ called'[k].topic = topic
    BY <2>2, <2>3 DEF Asked, Wanted
  <2>5. Entry(m) \notin Showing \cup {"flagWait", "flag"}
        /\ (Entry(m) = "insert" => m.type = "SUBSCRIBE")
    BY DEF Entry, Showing
  <2>6. ASSUME NEW u \in Callers
        PROVE  /\ pc'[u] \in InCall => \E k \in 1..Len(called') : called'[k] = msg'[u]
               /\ pc'[u] = "insert" => msg'[u].type = "SUBSCRIBE"
               /\ pc'[u] \in {"flagWait", "flag"} => msg'[u].type = "DISCONNECT"
    <3>1. CASE u = t
      BY <1>t, <2>1, <2>4, <2>5, <3>1 DEF Asked
    <3>2. CASE u # t
      BY <1>t, <2>1, <2>4, <3>2 DEF OnRequest
    <3>3. QED BY <3>1, <3>2
  <2>7. /\ \A topic \in topicCallbacks' :
             \E k \in 1..Len(called') : called'[k].type = "SUBSCRIBE" /\ called'[k].topic = topic
        /\ pc'[Main] \in Showing => pc[Main] \in Showing /\ msg'[Main] = msg[Main]
    BY <1>t, <2>1, <2>4, <2>5 DEF OnRequest, Showing
  <2>8. pc'[Main] \in Showing =>
             \E k \in 1..Len(called') :
               called'[k].type = "SUBSCRIBE" /\ called'[k].topic = msg'[Main].topic
    BY <2>4, <2>7 DEF OnRequest
  <2>9. QED BY <2>6, <2>7, <2>8 DEF OnRequest, Asked, Wanted
<1>3. ASSUME NEW t \in Callers, Insert(t) PROVE OnRequest'
  <2>1. /\ UNCHANGED <<called, msg>> /\ topicCallbacks' = topicCallbacks \cup {msg[t].topic}
        /\ pc' = [pc EXCEPT ![t] = "push"] /\ pc[t] = "insert"
    BY <1>3 DEF Insert, Goto
  <2>2. Wanted(msg[t].topic)
    BY <2>1 DEF OnRequest, Asked, Wanted, InCall, PushPoints
  <2>3. \A topic \in topicCallbacks' : Wanted(topic)'
    BY <2>1, <2>2 DEF OnRequest, Wanted
  <2>4. \A u \in Callers : /\ pc'[u] \in InCall => Asked(msg[u])
                           /\ pc'[u] = "insert" => msg[u].type = "SUBSCRIBE"
                           /\ pc'[u] \in {"flagWait", "flag"} => msg[u].type = "DISCONNECT"
    BY <1>t, <2>1 DEF OnRequest, InCall, PushPoints
  <2>5. pc'[Main] \in Showing => Wanted(msg[Main].topic)
    BY <1>t, <2>1 DEF OnRequest, Showing
  <2>6. QED BY <2>1, <2>3, <2>4, <2>5 DEF OnRequest, Asked, Wanted
<1>4. CASE Find
  <2>1. /\ UNCHANGED <<called, msg, topicCallbacks>> /\ pc[Main] = "find"
        /\ pc' = [pc EXCEPT ![Main] = IF msg[Main].topic \in topicCallbacks
                                        THEN "ioWait" ELSE "check"]
    BY <1>4 DEF Find, Goto
  <2>2. pc'[Main] \in Showing => Wanted(msg[Main].topic)
    BY <1>t, <2>1 DEF OnRequest, Showing
  <2>3. \A u \in Callers : /\ pc'[u] \in InCall => Asked(msg[u])
                           /\ pc'[u] = "insert" => msg[u].type = "SUBSCRIBE"
                           /\ pc'[u] \in {"flagWait", "flag"} => msg[u].type = "DISCONNECT"
    BY <1>t, <2>1 DEF OnRequest, InCall, PushPoints
  <2>4. QED BY <2>1, <2>2, <2>3 DEF OnRequest, Asked, Wanted
<1>5. QED BY <1>1, <1>2, <1>3, <1>4, Extraordinary

-----------------------------------------------------------------------------
(* Step simulation *)

Related == IInv /\ Queue /\ Chain /\ Pipeline /\ Inbox /\ Shown /\ OnRequest

\* What the application sees.
seen == <<called, log, subs, mail, ndisp, shown, disconnectMsg, status>>

\* The server's part: it handles the next call, or is sent a message.
LEMMA ServerSeen ==
  ASSUME Related, ServerNext PROVE PS!Handle \/ PS!Arrive \/ UNCHANGED seen
<1>1. CASE ServerHandle
  <2>1. CASE msg[Publisher] = Identify
    BY <1>1, <2>1, Calls DEF ServerHandle, seen, inVars, endVars
  <2>2. CASE msg[Publisher] # Identify
    <3>1. /\ Len(log) \in Nat /\ Len(called) \in Nat /\ start \in Nat /\ finish \in Nat
          /\ start <= finish
      BY DEF Related, IInv, TypeOK, SequenceTypes, ScalarTypes, Pipeline
    <3>2. finish <= Len(called) + 1
      BY <3>1 DEF Related, Queue
    <3>3. Len(log) = start - 2 /\ msg[Publisher] = called[start - 1]
      BY <1>1, <2>2 DEF ServerHandle, Related, Pipeline, InHand
    <3>4. Len(log) + 1 = start - 1 /\ Len(log) < Len(called)
      BY <3>1, <3>2, <3>3
    <3>5. msg[Publisher] = called[Len(log) + 1]
      BY <3>3, <3>4
    <3>6. QED BY <1>1, <2>2, <3>4, <3>5 DEF ServerHandle, PS!Handle, inVars, endVars
  <2>3. QED BY <2>1, <2>2
<1>2. CASE ServerRetrieve
  BY <1>2 DEF ServerRetrieve, seen, inVars, endVars
<1>3. CASE ServerMail
  BY <1>3 DEF ServerMail, PS!Arrive, inVars, endVars
<1>4. ASSUME NEW t \in Senders, ServerClose(t) PROVE UNCHANGED seen
  BY <1>4 DEF ServerClose, seen, inVars, endVars
<1>5. QED BY <1>1, <1>2, <1>3, <1>4 DEF ServerNext

\* Main's part: it takes the next message, or shows the one it took.
LEMMA MainSeen ==
  ASSUME Related, MainStep PROVE PS!Take \/ PS!Show \/ UNCHANGED seen
<1> USE DEF Goto, Wait, Post, Hold, data, threadVars, pushVars, nodeVars, lockVars, mapVars,
      serverVars, inVars, endVars
<1>1. CASE Dispatch
  <2>1. /\ ndisp \in Nat /\ nread \in Nat /\ Len(mail) \in Nat
        /\ inbox \in Seq(MailItem) /\ nread <= Len(mail)
        /\ Len(inbox) = nread - ndisp - (IF pc[Receiver] = "push" THEN 1 ELSE 0)
    BY DEF Related, IInv, TypeOK, SequenceTypes, ScalarTypes, Inbox
  <2>2. Len(inbox) > 0
    BY <1>1, <2>1, Removed DEF Dispatch
  <2>3. ndisp < Len(mail)
    BY <2>1, <2>2
  <2>4. QED BY <1>1, <2>3 DEF Dispatch, PS!Take
<1>2. CASE RunCallback
  <2>1. /\ pc[Main] = "callback" /\ shown' = Append(shown, [n |-> ndisp, m |-> msg[Main]])
        /\ UNCHANGED <<called, log, subs, mail, ndisp, disconnectMsg, status>>
    BY <1>2 DEF RunCallback
  <2>2. /\ msg[Main] = mail[ndisp] /\ ndisp > 0 /\ msg[Main].type = "MESSAGE"
        /\ \A i \in 1..Len(shown) : shown[i].n < ndisp
    BY <2>1 DEF Related, Shown, CallbacksInOrder
  <2>3. Wanted(mail[ndisp].topic)
    BY <2>1, <2>2 DEF Related, OnRequest, Showing
  <2>4. QED BY <2>1, <2>2, <2>3 DEF PS!Show, PS!Subscribed, Wanted
<1>3. CASE Run \/ StartReceiver \/ MainCheck \/ InboxEmpty \/ Find \/ IoWait
             \/ CancelPublisher \/ CancelReceiver
  BY <1>3 DEF seen, Run, StartReceiver, Start, MainCheck, Shutdown, InboxEmpty, Find, IoWait,
     CancelPublisher, CancelReceiver, Cancel
<1>4. QED BY <1>1, <1>2, <1>3 DEF MainStep

\* The callers' part: a call, and the end of a call of disconnect().
LEMMA CallerSeen ==
  ASSUME Related, NEW t \in Callers, CallerStep(t)
  PROVE  PS!Request \/ PS!Disconnect \/ UNCHANGED seen
<1> USE DEF Goto, Wait, Post, Hold, data, threadVars, pushVars, nodeVars, lockVars, mapVars,
      serverVars, inVars, endVars
<1>1. ASSUME NEW m \in ApiCall, Call(t, m) PROVE PS!Request
  BY <1>1 DEF Call, PS!Request
<1>2. CASE Flag(t)
  <2>1. pc[t] = "flag" /\ disconnectMsg' = TRUE
        /\ UNCHANGED <<called, log, subs, mail, ndisp, shown, status>>
    BY <1>2 DEF Flag
  <2>2. \E k \in 1..Len(called) : called[k].type = "DISCONNECT"
    BY <2>1 DEF Related, OnRequest, InCall, Asked
  <2>3. QED BY <2>1, <2>2 DEF PS!Disconnect
<1>3. CASE Insert(t) \/ Erase(t) \/ PushStep(t) \/ FlagWait(t)
  BY <1>3 DEF seen, Insert, Erase, PushStep, PushBack, Construct, Load, Store, Link,
     SetNode, SetCur, Pushed, FlagWait
<1>4. QED BY <1>1, <1>2, <1>3 DEF CallerStep

\* A step of Client is a step of PubSub or shows nothing to the application.
LEMMA Simulation == Related /\ [Next]_vars => [PS!Next]_(PS!vars)
<1> SUFFICES ASSUME Related, [Next]_vars PROVE [PS!Next]_(PS!vars)
  OBVIOUS
<1>1. UNCHANGED seen => UNCHANGED PS!vars
  BY DEF seen, PS!vars
<1>2. UNCHANGED vars \/ status = "running"
  BY DEF Next, Ended
<1>3. CASE UNCHANGED vars
  BY <1>1, <1>3 DEF vars, data, threadVars, serverVars, inVars, endVars, seen
<1>4. CASE status = "running" /\ Dies
  <2>1. UNCHANGED <<called, log, subs, mail, ndisp, shown, disconnectMsg>>
    BY <1>4 DEF Dies, threadVars, serverVars, inVars, endVars
  <2>2. status' \in {"success", "failure", "crashed"} /\ (status' = "success" => disconnectMsg)
    BY <1>4 DEF Dies, Related, IInv, Ending
  <2>3. PS!End
    BY <2>1, <2>2 DEF PS!End
  <2>4. QED BY <1>4, <2>3 DEF PS!Next
<1>5. ASSUME NEW t \in Senders, SenderStep(t) PROVE UNCHANGED seen
  BY <1>5 DEF seen, SenderStep, Connect, PutWait, Put, Get, Cancelled, Goto, Wait, Post, Hold,
     data, threadVars, pushVars, nodeVars, lockVars, mapVars, serverVars, inVars, endVars
<1>6. ASSUME (\E t \in Senders \cup {Main} : CheckWait(t)) \/ PublisherStep \/ ReceiverStep
      PROVE  UNCHANGED seen
  BY <1>6 DEF seen, CheckWait, PublisherStep, PubCheck, Shutdown, Poll, PopWait, Pop, Close,
     ReceiverStep, RcvCheck, Read, Push, Goto, Wait, Post, Hold,
     data, threadVars, pushVars, nodeVars, lockVars, mapVars, serverVars, inVars, endVars
<1>7. CASE status = "running" /\ AnyStep
  <2>1. \/ UNCHANGED seen \/ PS!Handle \/ PS!Arrive \/ PS!Take \/ PS!Show
        \/ PS!Request \/ PS!Disconnect
    BY <1>5, <1>6, <1>7, ServerSeen, MainSeen, CallerSeen DEF AnyStep
  <2>2. QED BY <1>1, <1>7, <2>1 DEF PS!Next
<1>8. QED BY <1>2, <1>3, <1>4, <1>7, Steps

\* As long as no two calls overlap, the library is an implementation of PubSub:
\* what the application sees are PubSub's steps only.
THEOREM Refinement == Spec /\ []Apart => ImplementsPubSub
<1>1. Init => Related /\ PS!Init
  <2> SUFFICES ASSUME Init PROVE Related /\ PS!Init
    OBVIOUS
  <2>1. IInv /\ Queue /\ Chain /\ Pipeline
    BY InitIInv, InitWriting
  <2>2. Inbox /\ Shown
    BY InitReading
  <2>3. OnRequest
    <3>1. \A t \in Callers \cup {Main} : pc[t] \in {"app", "off"}
      BY DEF Init, Threads
    <3>2. QED BY <3>1 DEF Init, OnRequest, InCall, PushPoints, Showing
  <2>4. PS!Init
    BY DEF Init, PS!Init
  <2>5. QED BY <2>1, <2>2, <2>3, <2>4 DEF Related
<1>2. Related /\ Apart /\ Apart' /\ [Next]_vars => Related'
  BY NextIInv, QueueStep, ChainStep, PipelineStep, InboxStep, ShownStep, OnRequestStep
     DEF Related, IInv, Pipeline
<1>3. QED BY <1>1, <1>2, Simulation, PTL DEF Spec, ImplementsPubSub, PS!Spec

=============================================================================
