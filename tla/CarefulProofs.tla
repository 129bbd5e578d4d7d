---------------------------- MODULE CarefulProofs ----------------------------
(***************************************************************************)
(* Proofs about CarefulUse: kept rules leave one way to crash.             *)
(***************************************************************************)
EXTENDS CarefulUse, ClientOrderingProofs

-----------------------------------------------------------------------------
(* The inductive invariant *)

\* Who may be where, and what the steps that could crash would find.
Calm ==
  /\ \A u \in Threads : pc[u] \in {"insert", "erase"} => u \in Callers
  /\ \A u \in Threads : pc[u] = "find" => u = Main
  /\ \A t \in Callers : pc[t] \in {"insert", "erase"} => pc[Main] \in {"app", "insert", "erase"}
  /\ \A t \in Callers : pc[t] = "erase" => msg[t].topic \in topicCallbacks
  /\ it # Junk /\ (pc[Main] \in BeforeRun => it = None)
  /\ \A t \in Senders : conn[t] # "null" /\ (conn[t] = "closed" => pc[t] = "done")
  /\ OnlyLateUse

\* Under the rules, a process dies only when run() has returned.
LateDeath == /\ status' \in {"crashed", "success"} /\ pc[Main] = "returned"
             /\ UNCHANGED <<pc, threadVars>>

\* The steps inside the library.
CallStep(t) == Insert(t) \/ Erase(t) \/ PushStep(t)
                 \/ FlagWait(t) \/ Flag(t)
LoopStep    == StartReceiver \/ MainCheck \/ InboxEmpty \/ Dispatch \/ Find
                 \/ IoWait \/ RunCallback \/ CancelPublisher \/ CancelReceiver

\* The replies of these servers have a LENGTH.
LEMMA Lengths == TypeOK => \A i \in 1..Len(mail) : mail[i].type # "NOLENGTH"
<1>1. \A m \in MailItem : m.type # "NOLENGTH"
  BY CalmAssumption DEF MailItem, Bare
<1>2. TypeOK => mail \in Seq(MailItem)
  BY DEF TypeOK, SequenceTypes
<1>3. mail \in Seq(MailItem) => \A i \in 1..Len(mail) : mail[i] \in MailItem
  OBVIOUS
<1>4. QED BY <1>1, <1>2, <1>3

\* The publisher finds a complete message where it pops.
LEMMA FrontComplete ==
  TypeOK /\ Queue /\ Pipeline /\ pc[Publisher] = "pop" => Front # Junk
<1> SUFFICES ASSUME TypeOK, Queue, Pipeline, pc[Publisher] = "pop" PROVE Front # Junk
  OBVIOUS
<1>1. start \in Nat \ {0} /\ finish \in Nat /\ start < finish
  BY DEF TypeOK, ScalarTypes, Pipeline
<1>2. /\ called \in Seq(ApiCall) /\ Len(called) <= MaxOut /\ finish <= Len(called) + 1
      /\ 1..MaxOut \subseteq DOMAIN cell /\ \A i \in 1..(finish - 1) : cell[i] = called[i]
  <2>1. 1..MaxOut \subseteq DOMAIN cell
    <3>1. MaxOut \in Nat /\ MaxOut <= Last(MaxOut) /\ Last(MaxOut) \in Nat
      BY BoundsAssumption, BlockOrder, BlockAssumption DEF Last
    <3>2. QED BY <3>1 DEF TypeOK, FunctionTypes, Slots
  <2>2. called \in Seq(ApiCall) /\ Len(called) \in Nat /\ finish <= Len(called) + 1
    BY SMTT(30) DEF TypeOK, SequenceTypes, ScalarTypes, Queue
  <2>3. QED BY <2>1, <2>2 DEF Queue
<1>3. start \in 1..MaxOut /\ start \in 1..(finish - 1) /\ start \in 1..Len(called)
  BY <1>1, <1>2, BoundsAssumption
<1>4. Front = called[start] /\ called[start] \in ApiCall
  BY <1>2, <1>3 DEF Front
<1>5. QED BY <1>4, NoValueAssumption, Calls

\* A step that the rules allow is a call, run(), a step of one thread or a
\* late death.
LEMMA CarefulSteps ==
  ASSUME IInv, Queue, Pipeline, Calm, Apart, [CarefulNext]_vars
  PROVE  \/ UNCHANGED vars \/ LateDeath \/ CarefulRun
         \/ \E t \in Callers, m \in ApiCall : CarefulCall(t, m)
         \/ \E t \in Callers : CallStep(t)
         \/ \E t \in Senders : SenderStep(t)
         \/ \E t \in Senders \cup {Main} : CheckWait(t)
         \/ PublisherStep \/ ReceiverStep \/ LoopStep \/ ServerNext
<1>1. ASSUME NEW t \in Callers, Method(t) PROVE CallStep(t)
  <2>1. ~ ConstructStray(t)
    BY StartInBlock DEF ConstructStray, IInv, Pipeline
  <2>2. QED BY <1>1, <2>1 DEF Method, EraseEnd, CallStep, PushStep, Calm
<1>2. ASSUME NEW t \in Senders, Exchange(t) PROVE SenderStep(t) \/ CheckWait(t)
  BY <1>2 DEF Exchange, PutNull, GetEof, SenderStep, Calm
<1>3. ~ PopJunk
  BY FrontComplete DEF PopJunk, IInv
<1>4. ~ ReadNoLength
  <2>1. conn[Receiver] = "answered" /\ msg[Receiver] = Retrieve => nread + 1 \in 1..Len(mail)
    BY DEF IInv, TypeOK, SequenceTypes, ScalarTypes, Handling
  <2>2. QED BY <2>1, Lengths DEF ReadNoLength, IInv
<1>5. ~ MapContended
  <2> SUFFICES ASSUME NEW t \in Callers, NEW u \in Threads \ {t},
                      pc[t] \in {"insert", "erase"}, pc[u] \in {"insert", "erase", "find"}
               PROVE FALSE
    BY DEF MapContended
  <2>1. pc[u] = "find"
    BY DEF Calm, Apart, PushPoints
  <2>2. QED BY <2>1 DEF Calm
<1>6. ~ GrowthRace
  BY CalmAssumption DEF GrowthRace
<1>7. CASE MainNext
  <2>1. FreedCallback => FALSE
    BY DEF FreedCallback, Calm
  <2>2. Return \/ LateUse => LateDeath
    BY DEF Return, LateUse, Die, LateDeath
  <2>3. QED BY <1>7, <2>1, <2>2 DEF MainNext, LoopStep
<1>8. CASE PublisherNext
  BY <1>2, <1>3, <1>8 DEF PublisherNext, PublisherStep, Senders
<1>9. CASE ReceiverNext
  BY <1>2, <1>4, <1>9 DEF ReceiverNext, ReceiverStep, Senders
<1>10. QED
  BY <1>1, <1>5, <1>6, <1>7, <1>8, <1>9 DEF CarefulNext, Inside, MapRace, Ended

\* The rules keep it so.
LEMMA CalmStep ==
  ASSUME IInv, Queue, Pipeline, Calm, Apart, [CarefulNext]_vars PROVE Calm'
<1>t. TypeOK /\ Handling
  BY DEF IInv
<1> USE <1>t, CallersAssumption, NoValueAssumption DEF TypeOK, FunctionTypes,
      ScalarTypes, Calm, OnlyLateUse, Apart, BeforeRun, PushPoints, Threads, Senders,
      Publisher, Receiver, Main, Goto, Wait, Post, Hold, data, threadVars,
      pushVars, nodeVars, lockVars, mapVars, serverVars, inVars, endVars
<1>1. CASE UNCHANGED vars \/ LateDeath
  BY <1>1 DEF vars, LateDeath
<1>2. ASSUME NEW t \in Callers, NEW m \in ApiCall, CarefulCall(t, m) PROVE Calm'
  <2>1. /\ pc[t] = "app" /\ pc' = [pc EXCEPT ![t] = Entry(m)] /\ msg' = [msg EXCEPT ![t] = m]
        /\ UNCHANGED <<topicCallbacks, it, conn, status>>
        /\ \A u \in Callers : pc[u] \notin PushPoints
    BY <1>2 DEF CarefulCall, Call
  <2>2. CASE m.type \in Changes
    <3>1. /\ pc[Main] = "app" /\ Entry(m) \in {"insert", "erase"}
          /\ Entry(m) = "erase" => m.topic \in topicCallbacks
      BY <1>2, <2>2 DEF CarefulCall, Entry, Changes
    <3>2. QED BY <2>1, <3>1
  <2>3. CASE m.type \notin Changes
    <3>1. Entry(m) = "push"
      BY <2>3 DEF Entry, Changes
    <3>2. QED BY <2>1, <3>1
  <2>4. QED BY <2>2, <2>3
<1>3. CASE CarefulRun
  BY <1>3 DEF CarefulRun, Run, Start, Handling
<1>4. ASSUME NEW t \in Callers, CallStep(t) PROVE Calm'
  <2>1. CASE Insert(t)
    BY <2>1 DEF Insert
  <2>2. CASE Erase(t)
    BY <2>2 DEF Erase, Handling
  <2>3. CASE PushBack(t) \/ Construct(t) \/ Load(t)
    BY <2>3 DEF PushBack, Construct, Load
  <2>4. CASE Store(t) \/ Link(t) \/ SetNode(t) \/ SetCur(t)
    BY <2>4 DEF Store, Link, SetNode, SetCur, Pushed
  <2>5. CASE FlagWait(t) \/ Flag(t)
    BY <2>5 DEF FlagWait, Flag
  <2>6. QED BY <1>4, <2>1, <2>2, <2>3, <2>4, <2>5 DEF CallStep, PushStep
<1>5. ASSUME NEW t \in Senders, SenderStep(t) PROVE Calm'
  <2>1. CASE Connect(t)
    BY <2>1, CalmAssumption DEF Connect, SockConnect
  <2>2. CASE PutWait(t) \/ Put(t)
    BY <2>2 DEF PutWait, Put
  <2>3. CASE Get(t) \/ Cancelled(t)
    BY <2>3 DEF Get, Cancelled, CancellationPoints
  <2>4. QED BY <1>5, <2>1, <2>2, <2>3 DEF SenderStep
<1>6. ASSUME NEW t \in Senders \cup {Main}, CheckWait(t) PROVE Calm'
  BY <1>6 DEF CheckWait
<1>7. CASE PublisherStep
  <2>1. CASE PubCheck
    BY <2>1 DEF PubCheck, Shutdown
  <2>2. CASE Poll \/ PopWait
    BY <2>2 DEF Poll, PopWait
  <2>3. CASE Pop \/ Close
    BY <2>3 DEF Pop, Close
  <2>4. QED BY <1>7, <2>1, <2>2, <2>3 DEF PublisherStep
<1>8. CASE ReceiverStep
  <2>1. CASE RcvCheck
    BY <2>1 DEF RcvCheck, Shutdown
  <2>2. CASE Read
    BY <2>2 DEF Read
  <2>3. CASE Push
    BY <2>3 DEF Push
  <2>4. QED BY <1>8, <2>1, <2>2, <2>3 DEF ReceiverStep
<1>9. CASE LoopStep
  <2>1. CASE StartReceiver
    BY <2>1 DEF StartReceiver, Start, Handling
  <2>2. CASE MainCheck \/ InboxEmpty
    BY <2>2 DEF MainCheck, Shutdown, InboxEmpty
  <2>3. CASE Dispatch \/ Find
    BY <2>3 DEF Dispatch, Find
  <2>4. CASE IoWait \/ RunCallback
    BY <2>4 DEF IoWait, RunCallback
  <2>5. CASE CancelPublisher \/ CancelReceiver
    BY <2>5 DEF CancelPublisher, CancelReceiver, Cancel
  <2>6. QED BY <1>9, <2>1, <2>2, <2>3, <2>4, <2>5 DEF LoopStep
<1>10. CASE ServerNext
  BY <1>10, CalmAssumption DEF ServerNext, ServerHandle, ServerRetrieve, ServerMail, ServerClose
<1>11. QED
  BY <1>1, <1>2, <1>3, <1>4, <1>5, <1>6, <1>7, <1>8, <1>9, <1>10, CarefulSteps

\* Calls are made in turn: no two threads are inside a push.
LEMMA InTurn ==
  ASSUME IInv, Queue, Pipeline, Calm, Apart, [CarefulNext]_vars PROVE Apart'
<1>t. /\ pc \in [Threads -> Points] /\ Callers \subseteq Threads
      /\ Callers \cap Senders = {}
  BY CallersAssumption DEF IInv, TypeOK, FunctionTypes, Threads
<1> DEFINE Stays == \A u \in Callers : pc'[u] \in PushPoints => pc[u] \in PushPoints
<1>s. Stays => Apart'
  BY DEF Apart
<1>1. ASSUME NEW t \in Callers, NEW m \in ApiCall, CarefulCall(t, m) PROVE Apart'
  <2>1. pc' = [pc EXCEPT ![t] = Entry(m)] /\ \A u \in Callers : pc[u] \notin PushPoints
    BY <1>1 DEF CarefulCall, Call, Goto
  <2>2. QED BY <1>t, <2>1 DEF Apart
<1> USE DEF Senders, Publisher, Receiver, Main, Goto, data, threadVars
<1>2. UNCHANGED vars \/ LateDeath => Stays
  BY DEF vars, LateDeath
<1>3. CarefulRun \/ LoopStep => Stays
  BY <1>t DEF CarefulRun, Run, Start, LoopStep, StartReceiver, MainCheck, Shutdown, InboxEmpty,
     Dispatch, Find, IoWait, RunCallback, CancelPublisher, CancelReceiver, Cancel, PushPoints
<1>4. ASSUME NEW t \in Callers, CallStep(t) PROVE Stays
  BY <1>t, <1>4 DEF CallStep, Insert, Erase, PushStep, PushBack, Construct, Load, Store, Link,
     SetNode, SetCur, Pushed, FlagWait, Flag, PushPoints
<1>5. ASSUME NEW t \in Senders, SenderStep(t) PROVE Stays
  BY <1>t, <1>5 DEF SenderStep, Connect, PutWait, Put, Get, Cancelled
<1>6. ASSUME NEW t \in Senders \cup {Main}, CheckWait(t) PROVE Stays
  BY <1>t, <1>6 DEF CheckWait, PushPoints
<1>7. PublisherStep \/ ReceiverStep => Stays
  BY <1>t DEF PublisherStep, PubCheck, Shutdown, Poll, PopWait, Pop, Close,
     ReceiverStep, RcvCheck, Read, Push
<1>8. ServerNext => Stays
  BY DEF ServerNext, ServerHandle, ServerRetrieve, ServerMail, ServerClose
<1> HIDE DEF Stays
<1>9. QED
  BY <1>s, <1>1, <1>2, <1>3, <1>4, <1>5, <1>6, <1>7, <1>8, CarefulSteps

\* The invariants under these rules, that calls do not overlap among them.
THEOREM Kept == CarefulSpec => [](IInv /\ Queue /\ Chain /\ Pipeline /\ Calm /\ Apart)
<1> DEFINE Inv == IInv /\ Queue /\ Chain /\ Pipeline /\ Calm /\ Apart
<1>1. Init => Inv
  <2>1. Init => IInv
    BY InitIInv
  <2>2. Init => Queue /\ Chain /\ Pipeline
    BY InitWriting
  <2>3. Init => Calm /\ Apart
    BY CallersAssumption, NoValueAssumption DEF Init, Calm, Apart, OnlyLateUse, BeforeRun, PushPoints,
       Threads, Senders, Publisher, Receiver, Main
  <2>4. QED BY <2>1, <2>2, <2>3
<1>2. Inv /\ [CarefulNext]_vars => Inv'
  <2> SUFFICES ASSUME Inv, [CarefulNext]_vars PROVE Inv'
    OBVIOUS
  <2>1. [Next]_vars
    BY DEF CarefulNext, Next, CarefulRun, CarefulCall
  <2>2. Calm' /\ Apart'
    BY CalmStep, InTurn
  <2>3. QED
    BY <2>1, <2>2, NextIInv, QueueStep, ChainStep, PipelineStep DEF IInv, Pipeline
<1>3. QED BY <1>1, <1>2, PTL DEF CarefulSpec

\* An application whose threads call the methods in turn, that settles its
\* subscriptions before run() and unsubscribes only from what it subscribed to
\* meets no crash and no exit before run() has returned.
THEOREM OneFaultLeft == CarefulSpec => []OnlyLateUse
<1>1. Calm => OnlyLateUse
  BY DEF Calm
<1>2. QED BY <1>1, Kept, PTL

\* The calls of such an application's threads reach the server in the order
\* they were made, for any number of threads and of blocks.
THEOREM InTurnInOrder == CarefulSpec => []HandledInOrder
<1>1. [CarefulNext]_vars => [Next]_vars
  BY DEF CarefulNext, Next, CarefulRun, CarefulCall
<1>2. CarefulSpec => Spec
  BY <1>1, PTL DEF CarefulSpec, Spec
<1>3. QED
  BY <1>2, Kept, FirstCalledFirstHandled, PTL

=============================================================================
