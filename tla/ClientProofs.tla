---------------------------- MODULE ClientProofs ----------------------------
(***************************************************************************)
(* Proofs about Client, for every value of its constants.                  *)
(***************************************************************************)
EXTENDS Client, TLAPS

-----------------------------------------------------------------------------
(* The inductive invariant *)

\* The points of main before run().
BeforeRun == PushPoints \cup {"app", "flagWait", "flag"}

\* What each thread has in hand at the points where it uses it.
Handling ==
  /\ \A t \in Callers : pc[t] \in PushPoints => msg[t] \in ApiCall
  /\ \A t \in Callers : pc[t] \in {"insert", "erase"} => msg[t].topic \in Topics
  /\ pc[Main] \in BeforeRun => pc[Publisher] = "off"
  /\ pc[Main] \in BeforeRun \cup {"startReceiver"} => pc[Receiver] = "off"
  /\ pc[Publisher] \in {"putWait", "put"} => msg[Publisher] \in ApiCall \cup {Identify, Junk}
  /\ conn[Publisher] = "asked" => msg[Publisher] \in ApiCall \cup {Identify}
  /\ \A t \in Senders : conn[t] \in {"asked", "answered"} => pc[t] \in {"get", "cancelled"}
  /\ conn[Receiver] = "answered" /\ msg[Receiver] = Retrieve => nread < Len(mail)
  /\ pc[Receiver] = "push" => msg[Receiver] \in MailItem
  /\ pc[Main] \in {"find", "ioWait", "callback"} => msg[Main] \in MailItem

\* A thread inside a critical section holds its semaphore, and is alone there.
Locks ==
  /\ \A t \in Threads : pc[t] \in OutSection => outLock = 0
  /\ \A t \in Threads : pc[t] = "put" => sockLock = 0
  /\ pc[Main] = "callback" => ioLock = 0
  /\ MutualExclusion

\* The publisher has taken a message that the server has not handled.
InHand == msg[Publisher] # Identify
            /\ (pc[Publisher] \in {"putWait", "put"} \/ conn[Publisher] = "asked")

\* What is left of the two loops once disconnect_msg is set.
Late ==
  disconnectMsg =>
    /\ AtMostOneAfterDisconnect
    /\ pc[Publisher] \in {"poll", "popWait", "pop"} => start <= cut.out
    /\ pc[Publisher] \in {"poll", "popWait", "pop"} \/ InHand => Len(log) <= cut.log
    /\ pc[Main] = "dispatch" => ndisp <= cut.in

\* main, on its way out of run().
Ending ==
  /\ pc[Main] \in {"cancelPublisher", "cancelReceiver", "returned"} => disconnectMsg
  /\ pc[Main] = "cancelReceiver" => cancelled = {Publisher}
  /\ pc[Main] = "returned" => cancelled = Senders
  /\ pc[Main] \notin {"cancelReceiver", "returned"} => cancelled = {}
  /\ SuccessMeansDisconnected

IInv == TypeOK /\ Handling /\ Locks /\ Late /\ Ending

-----------------------------------------------------------------------------
(* The steps of Next, by thread; a death changes nothing but status *)

Dies == /\ \/ status' \in {"failure", "crashed"}
           \/ status' = "success" /\ pc[Main] = "returned"
        /\ UNCHANGED <<pc, threadVars>>

PushStep(t)   == PushBack(t) \/ Construct(t) \/ Load(t) \/ Store(t) \/ Link(t)
                   \/ SetNode(t) \/ SetCur(t)
CallerStep(t) == \/ \E m \in ApiCall : Call(t, m)
                 \/ Insert(t) \/ Erase(t) \/ PushStep(t) \/ FlagWait(t) \/ Flag(t)
SenderStep(t) == Connect(t) \/ PutWait(t) \/ Put(t) \/ Get(t) \/ Cancelled(t)
PublisherStep == PubCheck \/ Poll \/ PopWait \/ Pop \/ Close
ReceiverStep  == RcvCheck \/ Read \/ Push
MainStep      == Run \/ StartReceiver \/ MainCheck \/ InboxEmpty \/ Dispatch \/ Find
                   \/ IoWait \/ RunCallback \/ CancelPublisher \/ CancelReceiver
AnyStep == \/ \E t \in Callers : CallerStep(t)
           \/ \E t \in Senders : SenderStep(t)
           \/ \E t \in Senders \cup {Main} : CheckWait(t)
           \/ PublisherStep \/ ReceiverStep \/ MainStep \/ ServerNext

\* Every step is a stutter, the death of the process or a step of one thread.
LEMMA Steps == [Next]_vars => UNCHANGED vars \/ Dies \/ AnyStep
<1>1. ASSUME NEW t \in Callers, Method(t) PROVE Dies \/ AnyStep
  BY <1>1 DEF Method, EraseEnd, ConstructStray, Die, Dies, AnyStep, CallerStep, PushStep
<1>2. ASSUME NEW t \in Senders, Exchange(t) PROVE Dies \/ AnyStep
  BY <1>2 DEF Exchange, PutNull, GetEof, Die, Dies, AnyStep, SenderStep
<1>3. CASE PublisherNext
  BY <1>2, <1>3 DEF PublisherNext, PopJunk, Die, Dies, AnyStep, PublisherStep, Senders
<1>4. CASE ReceiverNext
  BY <1>2, <1>4 DEF ReceiverNext, ReadNoLength, Die, Dies, AnyStep, ReceiverStep, Senders
<1>5. CASE MainNext
  BY <1>5 DEF MainNext, FreedCallback, Return, LateUse, Die, Dies, AnyStep, MainStep
<1>6. CASE MapRace \/ GrowthRace \/ ServerNext
  BY <1>6 DEF MapRace, GrowthRace, Die, Dies, AnyStep
<1>7. CASE Run \/ \E t \in Callers, m \in ApiCall : Call(t, m)
  BY <1>7 DEF AnyStep, CallerStep, MainStep
<1>8. QED
  BY <1>1, <1>3, <1>4, <1>5, <1>6, <1>7 DEF Next, Inside, Ended

-----------------------------------------------------------------------------
(* Messages *)

\* What the application passes to the server is a message with a topic.
LEMMA Calls ==
  /\ Identify \notin ApiCall /\ Identify.type = "IDENTIFY"
  /\ ApiCall \subseteq Message /\ MailItem \subseteq Message
  /\ Identify \in Message /\ Retrieve \in Message
  /\ \A m \in ApiCall : m.type \in {"SUBSCRIBE", "UNSUBSCRIBE"} => m.topic \in Topics
  /\ \A m \in ApiCall : m.type = "MESSAGE" => m \in MailItem
<1>1. Identify \notin ApiCall /\ Identify.type = "IDENTIFY"
  BY DEF ApiCall, Bare, Identify
<1>m. /\ ApiCall \subseteq Message /\ MailItem \subseteq Message
      /\ Identify \in Message /\ Retrieve \in Message
  BY DEF Message
<1>2. \A m \in ApiCall : m.type \in {"SUBSCRIBE", "UNSUBSCRIBE"} => m.topic \in Topics
  BY DEF ApiCall, Bare
<1>3. \A m \in ApiCall : m.type = "MESSAGE" => m \in MailItem
  BY DEF ApiCall, MailItem, Bare
<1>4. QED BY <1>1, <1>m, <1>2, <1>3

\* Blocks follow each other from slot 1 on, and none is empty.
LEMMA BlockTypes ==
  \A b \in Nat \ {0} : First(b) \in Nat \ {0} /\ Last(b) \in Nat /\ Last(b) >= First(b)
<1> TAKE b \in Nat \ {0}
<1>1. BlockLength \in Nat \ {0}
  BY BlockAssumption
<1>2. PICK c \in Nat : b = c + 1
  <2>1. b - 1 \in Nat /\ b = (b - 1) + 1
    OBVIOUS
  <2>2. QED BY <2>1
<1>3. Last(b) = c * BlockLength + BlockLength /\ First(b) = c * BlockLength + 1
  BY <1>1, <1>2 DEF Last, First
<1>4. c * BlockLength \in Nat
  BY <1>1
<1>5. QED BY <1>1, <1>3, <1>4

\* Whatever a push_back writes, a slot holds a call or the junk of a torn write.
LEMMA WrittenTypes ==
  ASSUME NEW t \in Callers, cell \in [Slots -> ApiCall \cup {Junk}], msg[t] \in ApiCall
  PROVE  Written(t) \subseteq [Slots -> ApiCall \cup {Junk}]
<1> DEFINE C == ApiCall \cup {Junk}
<1>1. \A i : \A m \in C : [cell EXCEPT ![i] = m] \in [Slots -> C]
  OBVIOUS
<1>2. ASSUME NEW c \in Written(t) PROVE c = cell \/ \E i : \E m \in C : c = [cell EXCEPT ![i] = m]
  BY <1>2 DEF Written
<1>3. QED BY <1>1, <1>2

-----------------------------------------------------------------------------
(* The invariant holds initially and is preserved by every step *)

\* The constructor's values satisfy the invariant.
LEMMA InitIInv == Init => IInv
<1> SUFFICES ASSUME Init PROVE IInv
  OBVIOUS
<1> USE CallersAssumption, BoundsAssumption DEF Init, Threads, Senders, Publisher, Receiver, Main
<1>1. TypeOK
  <2>1. /\ pc \in [Threads -> Points] /\ msg \in [Threads -> Message \cup {None, Junk}]
        /\ conn \in [Senders -> {"none", "null", "idle", "asked", "answered", "closed"}]
    BY DEF Points
  <2>2. /\ cell \in [Slots -> ApiCall \cup {Junk}] /\ tmp \in [Callers -> Nat]
        /\ cut \in [out : Nat, in : Nat, log : Nat]
    OBVIOUS
  <2>3. /\ inbox \in Seq(MailItem) /\ mail \in Seq(MailItem) /\ called \in Seq(ApiCall)
        /\ log \in Seq(ApiCall) /\ shown \in Seq([n : Nat, m : Message])
    OBVIOUS
  <2>4. disconnectMsg \in BOOLEAN
    BY Zenon
  <2>5. ScalarTypes
    BY <2>4 DEF ScalarTypes
  <2>6. QED BY <2>1, <2>2, <2>3, <2>5 DEF TypeOK, FunctionTypes, SequenceTypes
<1>2. Handling
  BY DEF Handling, PushPoints
<1>3. Locks
  BY DEF Locks, MutualExclusion, OutSection
<1>4. Late
  BY DEF Late
<1>5. Ending
  BY DEF Ending, SuccessMeansDisconnected
<1>6. QED BY <1>1, <1>2, <1>3, <1>4, <1>5 DEF IInv

\* Threads, slots and connections hold messages of the right kind: each thread
\* has in hand what Handling says.
LEMMA FunctionStep ==
  TypeOK /\ Handling /\ [Next]_vars => FunctionTypes'
<1> SUFFICES ASSUME TypeOK, Handling, [Next]_vars PROVE FunctionTypes'
  OBVIOUS
<1> USE CallersAssumption DEF TypeOK, FunctionTypes, SequenceTypes, ScalarTypes,
      Points, Handling, PushPoints, Threads, Senders, Publisher, Receiver, Main,
      Goto, Wait, Post, Hold, data, threadVars, pushVars, nodeVars, lockVars, mapVars,
      serverVars, inVars, endVars
<1>1. CASE UNCHANGED vars \/ Dies
  BY <1>1 DEF vars, Dies
<1>2. ASSUME NEW t \in Callers, CallerStep(t) PROVE FunctionTypes'
  <2>1. ASSUME NEW m \in ApiCall, Call(t, m) PROVE FunctionTypes'
    BY <2>1, Calls DEF Call, Entry
  <2>2. CASE Insert(t)
    BY <2>2 DEF Insert
  <2>3. CASE Erase(t)
    BY <2>3 DEF Erase
  <2>4. CASE Construct(t)
    <3>1. msg[t] \in ApiCall
      BY <2>4 DEF Construct
    <3>2. Written(t) \subseteq [Slots -> ApiCall \cup {Junk}]
      BY <3>1, WrittenTypes DEF TypeOK
    <3>3. cell' \in [Slots -> ApiCall \cup {Junk}]
      BY <2>4, <3>2 DEF Construct
    <3>4. pc' \in [Threads -> Points]
      BY <2>4 DEF Construct
    <3>5. UNCHANGED <<msg, tmp, conn, cut>>
      BY <2>4 DEF Construct
    <3>6. QED
      BY <3>3, <3>4, <3>5
  <2>5. CASE Load(t)
    BY <2>5 DEF Load
  <2>6. CASE Store(t)
    BY <2>6 DEF Store, Pushed
  <2>7. CASE FlagWait(t)
    BY <2>7 DEF FlagWait
  <2>8. CASE Flag(t)
    BY <2>8 DEF Flag
  <2>9. CASE PushBack(t) \/ Link(t) \/ SetNode(t)
    BY ZenonT(30), <2>9 DEF PushBack, Link, SetNode
  <2>10. CASE SetCur(t)
    BY <2>10 DEF SetCur, Pushed
  <2>q. QED
    BY <1>2, <2>1, <2>2, <2>3, <2>4, <2>5, <2>6, <2>7, <2>8, <2>9, <2>10 DEF
      CallerStep, PushStep
<1>3. ASSUME NEW t \in Senders, SenderStep(t) PROVE FunctionTypes'
  <2>1. CASE Connect(t)
    BY <2>1, Calls DEF Connect, SockConnect
  <2>2. CASE PutWait(t)
    BY <2>2 DEF PutWait
  <2>3. CASE Put(t)
    BY <2>3 DEF Put
  <2>4. CASE Get(t)
    BY <2>4 DEF Get
  <2>5. CASE Cancelled(t)
    BY <2>5 DEF Cancelled
  <2>q. QED
    BY <1>3, <2>1, <2>2, <2>3, <2>4, <2>5 DEF SenderStep
<1>4. ASSUME NEW t \in Senders \cup {Main}, CheckWait(t) PROVE FunctionTypes'
  BY <1>4 DEF CheckWait
<1>5. CASE PublisherStep
  <2>1. CASE PubCheck
    BY <2>1 DEF PubCheck, Shutdown
  <2>2. CASE Poll
    BY <2>2 DEF Poll
  <2>3. CASE PopWait
    BY <2>3 DEF PopWait
  <2>4. CASE Pop
    BY <2>4, Calls DEF Pop, Front
  <2>5. CASE Close
    BY <2>5 DEF Close
  <2>q. QED
    BY <1>5, <2>1, <2>2, <2>3, <2>4, <2>5 DEF PublisherStep
<1>6. CASE ReceiverStep
  <2>1. CASE RcvCheck
    BY <2>1, Calls DEF RcvCheck, Shutdown
  <2>2. CASE Read
    BY <2>2, Calls DEF Read
  <2>3. CASE Push
    BY <2>3 DEF Push, Received
  <2>q. QED
    BY <1>6, <2>1, <2>2, <2>3 DEF ReceiverStep
<1>7. CASE MainStep
  <2>1. CASE Run
    BY <2>1 DEF Run, Start
  <2>2. CASE StartReceiver
    BY <2>2 DEF StartReceiver, Start
  <2>3. CASE MainCheck
    BY <2>3 DEF MainCheck, Shutdown
  <2>4. CASE InboxEmpty
    BY <2>4 DEF InboxEmpty
  <2>5. CASE Dispatch
    BY SMTT(30), <2>5, Calls DEF Dispatch, Oldest
  <2>6. CASE Find
    BY <2>6 DEF Find
  <2>7. CASE IoWait
    BY <2>7 DEF IoWait
  <2>8. CASE RunCallback
    BY <2>8 DEF RunCallback
  <2>9. CASE CancelPublisher
    BY <2>9 DEF CancelPublisher, Cancel
  <2>10. CASE CancelReceiver
    BY <2>10 DEF CancelReceiver, Cancel
  <2>q. QED
    BY <1>7, <2>1, <2>2, <2>3, <2>4, <2>5, <2>6, <2>7, <2>8, <2>9, <2>10 DEF
      MainStep
<1>8. CASE ServerNext
  BY <1>8 DEF ServerNext, ServerHandle, ServerRetrieve, ServerMail, ServerClose
<1>9. QED
  BY <1>1, <1>2, <1>3, <1>4, <1>5, <1>6, <1>7, <1>8, Steps DEF AnyStep

\* The inbox, the mailbox and the histories are sequences of what they record.
LEMMA SequenceStep ==
  TypeOK /\ Handling /\ [Next]_vars => SequenceTypes'
<1> SUFFICES ASSUME TypeOK, Handling, [Next]_vars PROVE SequenceTypes'
  OBVIOUS
<1> USE CallersAssumption, Calls DEF TypeOK, FunctionTypes, SequenceTypes,
      Handling, Threads, Senders, Publisher, Receiver, Main, Goto, Wait, Post,
      Hold, data, threadVars, pushVars, nodeVars, lockVars, mapVars, serverVars, inVars,
      endVars
<1>1. CASE UNCHANGED vars \/ Dies
  BY <1>1 DEF vars, Dies
<1>2. ASSUME NEW t \in Callers, CallerStep(t) PROVE SequenceTypes'
  <2>1. ASSUME NEW m \in ApiCall, Call(t, m) PROVE SequenceTypes'
    BY <2>1 DEF Call, Entry
  <2>2. CASE Insert(t) \/ Erase(t) \/ PushStep(t) \/
          FlagWait(t) \/ Flag(t)
    BY <2>2 DEF Insert, Erase, PushStep,
    PushBack, Construct, Load, Store, Pushed, Link, SetNode, SetCur, FlagWait, Flag
  <2>q. QED
    BY <1>2, <2>1, <2>2 DEF CallerStep
<1>3. ASSUME NEW t \in Senders, SenderStep(t) PROVE SequenceTypes'
  BY <1>3 DEF SenderStep, Connect, SockConnect, PutWait, Put, Get, Cancelled
<1>4. ASSUME NEW t \in Senders \cup {Main}, CheckWait(t) PROVE SequenceTypes'
  BY <1>4 DEF CheckWait
<1>5. CASE PublisherStep
  BY <1>5 DEF PublisherStep, PubCheck, Shutdown, Poll, PopWait, Pop, Front,
    Close
<1>6. CASE ReceiverStep
  <2>1. CASE RcvCheck
    BY <2>1 DEF RcvCheck, Shutdown
  <2>2. CASE Read
    BY <2>2 DEF Read
  <2>3. CASE Push
    BY <2>3 DEF Push, Received
  <2>q. QED
    BY <1>6, <2>1, <2>2, <2>3 DEF ReceiverStep
<1>7. CASE MainStep
  <2>1. CASE Run
    BY <2>1 DEF Run, Start
  <2>2. CASE StartReceiver
    BY <2>2 DEF StartReceiver, Start
  <2>3. CASE MainCheck
    BY <2>3 DEF MainCheck, Shutdown
  <2>4. CASE InboxEmpty
    BY <2>4 DEF InboxEmpty
  <2>5. CASE Dispatch
    BY <2>5 DEF Dispatch, Oldest
  <2>6. CASE Find
    BY <2>6 DEF Find
  <2>7. CASE IoWait
    BY <2>7 DEF IoWait
  <2>8. CASE RunCallback
    <3>1. msg[Main] \in Message
      BY <2>8 DEF RunCallback
    <3>2. [n |-> ndisp, m |-> msg[Main]] \in [n : Nat, m : Message]
      BY <3>1 DEF TypeOK, ScalarTypes
    <3>3. QED
      BY <2>8, <3>2 DEF RunCallback
  <2>9. CASE CancelPublisher
    BY <2>9 DEF CancelPublisher, Cancel
  <2>10. CASE CancelReceiver
    BY <2>10 DEF CancelReceiver, Cancel
  <2>q. QED
    BY <1>7, <2>1, <2>2, <2>3, <2>4, <2>5, <2>6, <2>7, <2>8, <2>9, <2>10 DEF
      MainStep
<1>8. CASE ServerNext
  <2>1. CASE ServerHandle
    BY <2>1, Calls DEF ServerHandle
  <2>2. CASE ServerRetrieve
    BY <2>2 DEF ServerRetrieve
  <2>3. CASE ServerMail
    BY <2>3 DEF ServerMail
  <2>4. ASSUME NEW t \in Senders, ServerClose(t) PROVE SequenceTypes'
    BY <2>4 DEF ServerClose
  <2>q. QED
    BY <1>8, <2>1, <2>2, <2>3, <2>4 DEF ServerNext
<1>9. QED
  BY <1>1, <1>2, <1>3, <1>4, <1>5, <1>6, <1>7, <1>8, Steps DEF AnyStep

\* A semaphore is posted only by the thread that took it, so none exceeds 1.
LEMMA ScalarStep ==
  TypeOK /\ Handling /\ Locks /\ [Next]_vars => ScalarTypes'
<1> SUFFICES ASSUME TypeOK, Handling, Locks, [Next]_vars PROVE ScalarTypes'
  OBVIOUS
<1> USE CallersAssumption DEF TypeOK, FunctionTypes, SequenceTypes, ScalarTypes,
      Handling, PushPoints, Locks, OutSection, Threads, Senders, Publisher,
      Receiver, Main, Goto, Wait, Post, Hold, data, threadVars, pushVars, nodeVars,
      lockVars, mapVars, serverVars, inVars, endVars
<1>1. CASE UNCHANGED vars \/ Dies
  BY <1>1 DEF vars, Dies
<1>2. ASSUME NEW t \in Callers, CallerStep(t) PROVE ScalarTypes'
  <2>1. ASSUME NEW m \in ApiCall, Call(t, m) PROVE ScalarTypes'
    BY <2>1 DEF Call, Entry
  <2>2. CASE Insert(t)
    BY <2>2 DEF Insert
  <2>3. CASE Erase(t)
    BY <2>3 DEF Erase
  <2>4. CASE Construct(t)
    BY <2>4 DEF Construct
  <2>5. CASE Load(t)
    BY <2>5 DEF Load
  <2>6. CASE Store(t)
    <3>1. tmp[t] \in Nat
      OBVIOUS
    <3>2. finish' \in Nat
      BY <2>6, <3>1 DEF Store, Astray
    <3>3. QED
      BY <2>6, <3>2 DEF Store, Pushed
  <2>7. CASE FlagWait(t)
    BY <2>7 DEF FlagWait
  <2>8. CASE Flag(t)
    BY <2>8 DEF Flag
  <2>9. CASE PushBack(t) \/ Link(t) \/ SetNode(t)
    BY <2>9 DEF PushBack, Link, SetNode
  <2>10. CASE SetCur(t)
    <3>1. finish' \in Nat
      BY <2>10, BlockTypes DEF SetCur, Astray
    <3>2. QED
      BY <2>10, <3>1 DEF SetCur, Pushed
  <2>q. QED
    BY <1>2, <2>1, <2>2, <2>3, <2>4, <2>5, <2>6, <2>7, <2>8, <2>9, <2>10 DEF
      CallerStep, PushStep
<1>3. ASSUME NEW t \in Senders, SenderStep(t) PROVE ScalarTypes'
  BY <1>3 DEF SenderStep, Connect, SockConnect, PutWait, Put, Get, Cancelled
<1>4. ASSUME NEW t \in Senders \cup {Main}, CheckWait(t) PROVE ScalarTypes'
  BY <1>4 DEF CheckWait
<1>5. CASE PublisherStep
  BY <1>5 DEF PublisherStep, PubCheck, Shutdown, Poll, PopWait, Pop, Front,
    Close
<1>6. CASE ReceiverStep
  BY SMTT(30), <1>6 DEF ReceiverStep, RcvCheck, Shutdown, Read, Push, Received
<1>7. CASE MainStep
  BY SMTT(30), <1>7 DEF MainStep, Run, Start, StartReceiver, MainCheck, Shutdown,
    InboxEmpty, Dispatch, Oldest, Find, IoWait, RunCallback, CancelPublisher,
    Cancel, CancelReceiver
<1>8. CASE ServerNext
  <2>1. CASE ServerHandle
    BY SMTT(30), <2>1, Calls DEF ServerHandle
  <2>2. CASE ServerRetrieve
    BY <2>2 DEF ServerRetrieve
  <2>3. CASE ServerMail
    BY <2>3 DEF ServerMail
  <2>4. ASSUME NEW t \in Senders, ServerClose(t) PROVE ScalarTypes'
    BY <2>4 DEF ServerClose
  <2>q. QED
    BY <1>8, <2>1, <2>2, <2>3, <2>4 DEF ServerNext
<1>9. QED
  BY <1>1, <1>2, <1>3, <1>4, <1>5, <1>6, <1>7, <1>8, Steps DEF AnyStep

\* What a thread has in hand stays of the right kind until it is used.
LEMMA HandlingStep ==
  TypeOK /\ Handling /\ [Next]_vars => Handling'
<1> SUFFICES ASSUME TypeOK, Handling, [Next]_vars PROVE Handling'
  OBVIOUS
<1> USE CallersAssumption DEF TypeOK, FunctionTypes, SequenceTypes, ScalarTypes,
      PushPoints, BeforeRun, Handling, CancellationPoints, Threads, Senders,
      Publisher, Receiver, Main, Goto, Wait, Post, Hold, data, threadVars,
      pushVars, nodeVars, lockVars, mapVars, serverVars, inVars, endVars
<1>1. CASE UNCHANGED vars \/ Dies
  BY <1>1 DEF vars, Dies
<1>2. ASSUME NEW t \in Callers, CallerStep(t) PROVE Handling'
  <2>1. ASSUME NEW m \in ApiCall, Call(t, m) PROVE Handling'
    BY <2>1, Calls DEF Call, Entry
  <2>2. CASE Insert(t)
    BY <2>2 DEF Insert
  <2>3. CASE Erase(t)
    BY <2>3 DEF Erase
  <2>4. CASE Construct(t)
    BY <2>4 DEF Construct
  <2>5. CASE Load(t)
    BY <2>5 DEF Load
  <2>6. CASE Store(t)
    BY <2>6 DEF Store, Pushed
  <2>7. CASE FlagWait(t)
    BY <2>7 DEF FlagWait
  <2>8. CASE Flag(t)
    BY <2>8 DEF Flag
  <2>9. CASE PushBack(t) \/ Link(t) \/ SetNode(t)
    BY SMTT(30), <2>9 DEF PushBack, Link, SetNode
  <2>10. CASE SetCur(t)
    BY <2>10 DEF SetCur, Pushed
  <2>q. QED
    BY <1>2, <2>1, <2>2, <2>3, <2>4, <2>5, <2>6, <2>7, <2>8, <2>9, <2>10 DEF
      CallerStep, PushStep
<1>3. ASSUME NEW t \in Senders, SenderStep(t) PROVE Handling'
  BY SMTT(30), <1>3 DEF SenderStep, Connect, SockConnect, PutWait, Put, Get, Cancelled
<1>4. ASSUME NEW t \in Senders \cup {Main}, CheckWait(t) PROVE Handling'
  BY <1>4 DEF CheckWait
<1>5. CASE PublisherStep
  <2>1. CASE PubCheck
    BY <2>1 DEF PubCheck, Shutdown
  <2>2. CASE Poll
    BY <2>2 DEF Poll
  <2>3. CASE PopWait
    BY <2>3 DEF PopWait
  <2>4. CASE Pop
    BY <2>4, Calls DEF Pop, Front
  <2>5. CASE Close
    BY <2>5 DEF Close
  <2>q. QED
    BY <1>5, <2>1, <2>2, <2>3, <2>4, <2>5 DEF PublisherStep
<1>6. CASE ReceiverStep
  BY SMTT(30), <1>6, Calls DEF ReceiverStep, RcvCheck, Shutdown, Read, Push, Received
<1>7. CASE MainStep
  <2>1. CASE Run
    BY <2>1 DEF Run, Start
  <2>2. CASE StartReceiver
    BY <2>2 DEF StartReceiver, Start
  <2>3. CASE MainCheck
    BY <2>3 DEF MainCheck, Shutdown
  <2>4. CASE InboxEmpty
    BY <2>4 DEF InboxEmpty
  <2>5. CASE Dispatch
    BY <2>5 DEF Dispatch, Oldest
  <2>6. CASE Find
    BY <2>6 DEF Find
  <2>7. CASE IoWait
    BY <2>7 DEF IoWait
  <2>8. CASE RunCallback
    BY <2>8 DEF RunCallback
  <2>9. CASE CancelPublisher
    BY <2>9 DEF CancelPublisher, Cancel
  <2>10. CASE CancelReceiver
    BY <2>10 DEF CancelReceiver, Cancel
  <2>q. QED
    BY <1>7, <2>1, <2>2, <2>3, <2>4, <2>5, <2>6, <2>7, <2>8, <2>9, <2>10 DEF
      MainStep
<1>8. CASE ServerNext
  BY <1>8 DEF ServerNext, ServerHandle, ServerRetrieve, ServerMail, ServerClose
<1>9. QED
  BY <1>1, <1>2, <1>3, <1>4, <1>5, <1>6, <1>7, <1>8, Steps DEF AnyStep

\* A thread enters a critical section only when its semaphore is 1.
LEMMA LocksStep ==
  TypeOK /\ Locks /\ [Next]_vars => Locks'
<1> SUFFICES ASSUME TypeOK, Locks, [Next]_vars PROVE Locks'
  OBVIOUS
<1> USE CallersAssumption DEF Locks, MutualExclusion, OutSection, Threads,
      Senders, Publisher, Receiver, Main, Goto, Wait, Post, Hold, data,
      threadVars, pushVars, nodeVars, lockVars, mapVars, serverVars, inVars, endVars
<1>t. /\ pc \in [Threads -> Points]
      /\ outLock \in {0, 1} /\ sockLock \in {0, 1} /\ ioLock \in {0, 1}
  BY DEF TypeOK, FunctionTypes, ScalarTypes
<1>1. CASE UNCHANGED vars \/ Dies
  BY <1>t, <1>1 DEF vars, Dies
<1>2. ASSUME NEW t \in Callers, CallerStep(t) PROVE Locks'
  BY <1>t, <1>2 DEF CallerStep, Call, Entry, Insert, Erase, PushStep,
    PushBack, Construct, Load, Store, Pushed, Link, SetNode, SetCur, FlagWait, Flag
<1>3. ASSUME NEW t \in Senders, SenderStep(t) PROVE Locks'
  BY <1>t, <1>3 DEF SenderStep, Connect, SockConnect, PutWait, Put, Get, Cancelled
<1>4. ASSUME NEW t \in Senders \cup {Main}, CheckWait(t) PROVE Locks'
  BY <1>t, <1>4 DEF CheckWait
<1>5. CASE PublisherStep
  BY <1>t, <1>5 DEF PublisherStep, PubCheck, Shutdown, Poll, PopWait, Pop,
    Front, Close
<1>6. CASE ReceiverStep
  BY <1>t, <1>6 DEF ReceiverStep, RcvCheck, Shutdown, Read, Push, Received
<1>7. CASE MainStep
  BY <1>t, <1>7 DEF MainStep, Run, Start, StartReceiver, MainCheck, Shutdown,
    InboxEmpty, Dispatch, Oldest, Find, IoWait, RunCallback, CancelPublisher,
    Cancel, CancelReceiver
<1>8. CASE ServerNext
  BY <1>t, <1>8 DEF ServerNext, ServerHandle, ServerRetrieve, ServerMail,
    ServerClose
<1>9. QED
  BY <1>1, <1>2, <1>3, <1>4, <1>5, <1>6, <1>7, <1>8, Steps DEF AnyStep

\* A thread leaves a critical section only by posting its semaphore, unless it
\* is cancelled in fputs.
LEMMA ReturnStep ==
  TypeOK /\ Handling /\ SemaphoresReturn /\ [Next]_vars => SemaphoresReturn'
<1> SUFFICES ASSUME TypeOK, Handling, SemaphoresReturn, [Next]_vars PROVE SemaphoresReturn'
  OBVIOUS
<1> USE CallersAssumption DEF SemaphoresReturn, OutSection, Threads, Senders, Publisher, Receiver, Main,
      Goto, Wait, Post, Hold, data, threadVars, pushVars, nodeVars, lockVars, mapVars, serverVars, inVars, endVars
<1>t. /\ pc \in [Threads -> Points]
      /\ outLock \in {0, 1} /\ sockLock \in {0, 1} /\ ioLock \in {0, 1}
      /\ pc[Main] \in BeforeRun \cup {"startReceiver"} => pc[Receiver] = "off"
      /\ pc[Main] \in BeforeRun => pc[Publisher] = "off"
  BY DEF TypeOK, FunctionTypes, ScalarTypes, Handling
<1>1. CASE UNCHANGED vars \/ Dies
  BY <1>t, <1>1 DEF vars, Dies
<1>2. ASSUME NEW t \in Callers, CallerStep(t) PROVE SemaphoresReturn'
  BY <1>t, <1>2 DEF CallerStep, Call, Entry, Insert, Erase, PushStep,
    PushBack, Construct, Load, Store, Pushed, Link, SetNode, SetCur, FlagWait, Flag
<1>3. ASSUME NEW t \in Senders, SenderStep(t) PROVE SemaphoresReturn'
  BY <1>t, <1>3 DEF SenderStep, Connect, SockConnect, PutWait, Put, Get, Cancelled, CancellationPoints
<1>4. ASSUME NEW t \in Senders \cup {Main}, CheckWait(t) PROVE SemaphoresReturn'
  BY <1>t, <1>4 DEF CheckWait
<1>5. CASE PublisherStep
  BY <1>t, <1>5 DEF PublisherStep, PubCheck, Shutdown, Poll, PopWait, Pop,
    Front, Close
<1>6. CASE ReceiverStep
  BY <1>t, <1>6 DEF ReceiverStep, RcvCheck, Shutdown, Read, Push, Received
<1>7. CASE MainStep
  BY <1>t, <1>7 DEF MainStep, Run, Start, StartReceiver, MainCheck, Shutdown,
    InboxEmpty, Dispatch, Oldest, Find, IoWait, RunCallback, CancelPublisher,
    Cancel, CancelReceiver, BeforeRun
<1>8. CASE ServerNext
  BY <1>t, <1>8 DEF ServerNext, ServerHandle, ServerRetrieve, ServerMail,
    ServerClose
<1>9. QED
  BY <1>1, <1>2, <1>3, <1>4, <1>5, <1>6, <1>7, <1>8, Steps DEF AnyStep

\* Each loop goes round at most once more after disconnect_msg is set.
LEMMA LateStep ==
  TypeOK /\ Handling /\ Late /\ [Next]_vars => Late'
<1> SUFFICES ASSUME TypeOK, Handling, Late, [Next]_vars PROVE Late'
  OBVIOUS
<1> USE CallersAssumption DEF Late, AtMostOneAfterDisconnect, InHand, Threads, Senders, Publisher, Receiver, Main,
      Goto, Wait, Post, Hold, data, threadVars, pushVars, nodeVars, lockVars, mapVars,
      serverVars, inVars, endVars
<1>t. /\ pc \in [Threads -> Points] /\ msg \in [Threads -> Message \cup {None, Junk}]
      /\ start \in Nat /\ ndisp \in Nat /\ cut \in [out : Nat, in : Nat, log : Nat]
      /\ conn \in [Senders -> {"none", "null", "idle", "asked", "answered", "closed"}]
      /\ Len(log) \in Nat
      /\ conn[Publisher] \in {"asked", "answered"} => pc[Publisher] \in {"get", "cancelled"}
  BY DEF TypeOK, FunctionTypes, ScalarTypes, SequenceTypes, Handling
<1>1. CASE UNCHANGED vars \/ Dies
  BY <1>t, <1>1 DEF vars, Dies
<1>2. ASSUME NEW t \in Callers, CallerStep(t) PROVE Late'
  <2>1. ASSUME NEW m \in ApiCall, Call(t, m) PROVE Late'
    BY <1>t, <2>1 DEF Call, Entry
  <2>2. CASE Insert(t) \/ Erase(t) \/ PushStep(t) \/
          FlagWait(t)
    BY <1>t, <2>2 DEF Insert, Erase, PushStep,
    PushBack, Construct, Load, Store, Pushed, Link, SetNode, SetCur, FlagWait
  <2>3. CASE Flag(t)
    BY <1>t, <2>3 DEF Flag
  <2>q. QED
    BY <1>2, <2>1, <2>2, <2>3 DEF CallerStep
<1>3. ASSUME NEW t \in Senders, SenderStep(t) PROVE Late'
  <2>1. CASE Connect(t)
    BY <1>t, <2>1 DEF Connect, SockConnect
  <2>2. CASE PutWait(t)
    BY <1>t, <2>2 DEF PutWait
  <2>3. CASE Put(t)
    BY <1>t, <2>3 DEF Put
  <2>4. CASE Get(t)
    BY <1>t, <2>4 DEF Get
  <2>5. CASE Cancelled(t)
    BY <1>t, <2>5 DEF Cancelled
  <2>q. QED
    BY <1>3, <2>1, <2>2, <2>3, <2>4, <2>5 DEF SenderStep
<1>4. ASSUME NEW t \in Senders \cup {Main}, CheckWait(t) PROVE Late'
  BY <1>t, <1>4 DEF CheckWait
<1>5. CASE PublisherStep
  <2>1. CASE PubCheck
    BY <1>t, <2>1 DEF PubCheck, Shutdown
  <2>2. CASE Poll
    BY <1>t, <2>2 DEF Poll
  <2>3. CASE PopWait \/ Close
    BY <1>t, <2>3 DEF PopWait, Close
  <2>4. CASE Pop
    BY <1>t, <2>4 DEF Pop, Front
  <2>q. QED
    BY <1>5, <2>1, <2>2, <2>3, <2>4 DEF PublisherStep
<1>6. CASE ReceiverStep
  BY <1>t, <1>6 DEF ReceiverStep, RcvCheck, Shutdown, Read, Push, Received
<1>7. CASE MainStep
  <2>1. CASE MainCheck
    BY <1>t, <2>1 DEF MainCheck, Shutdown
  <2>2. CASE Dispatch
    BY <1>t, <2>2 DEF Dispatch, Oldest
  <2>3. CASE Run \/ StartReceiver \/ InboxEmpty \/ Find \/ IoWait \/
          RunCallback \/ CancelPublisher \/ CancelReceiver
    BY <1>t, <2>3 DEF Run, Start, StartReceiver, InboxEmpty, Find, IoWait,
      RunCallback, CancelPublisher, Cancel, CancelReceiver
  <2>q. QED
    BY <1>7, <2>1, <2>2, <2>3 DEF MainStep
<1>8. CASE ServerNext
  <2>1. CASE ServerHandle
    <3>1. Len(log') = Len(log) \/ (InHand /\ Len(log') = Len(log) + 1)
      BY <1>t, <2>1 DEF ServerHandle, TypeOK, SequenceTypes
    <3>2. QED BY <1>t, <2>1, <3>1 DEF ServerHandle
  <2>2. CASE ServerRetrieve \/ ServerMail \/ \E t \in Senders : ServerClose(t)
    BY <1>t, <2>2 DEF ServerRetrieve, ServerMail, ServerClose
  <2>q. QED
    BY <1>8, <2>1, <2>2 DEF ServerNext
<1>9. QED
  BY <1>1, <1>2, <1>3, <1>4, <1>5, <1>6, <1>7, <1>8, Steps DEF AnyStep

\* run() returns only through both pthread_cancel calls.
LEMMA EndingStep ==
  TypeOK /\ Ending /\ [Next]_vars => Ending'
<1> SUFFICES ASSUME TypeOK, Ending, [Next]_vars PROVE Ending'
  OBVIOUS
<1> USE CallersAssumption DEF Ending, SuccessMeansDisconnected, Threads,
      Senders, Publisher, Receiver, Main, Goto, Wait, Post, Hold, data,
      threadVars, pushVars, nodeVars, lockVars, mapVars, serverVars, inVars, endVars
<1>t. pc \in [Threads -> Points]
  BY DEF TypeOK, FunctionTypes
<1>1. CASE UNCHANGED vars \/ Dies
  BY <1>t, <1>1 DEF vars, Dies
<1>2. ASSUME NEW t \in Callers, CallerStep(t) PROVE Ending'
  BY <1>t, <1>2 DEF CallerStep, Call, Entry, Insert, Erase, PushStep,
    PushBack, Construct, Load, Store, Pushed, Link, SetNode, SetCur, FlagWait, Flag
<1>3. ASSUME NEW t \in Senders, SenderStep(t) PROVE Ending'
  BY <1>t, <1>3 DEF SenderStep, Connect, SockConnect, PutWait, Put, Get, Cancelled
<1>4. ASSUME NEW t \in Senders \cup {Main}, CheckWait(t) PROVE Ending'
  BY <1>t, <1>4 DEF CheckWait
<1>5. CASE PublisherStep
  BY <1>t, <1>5 DEF PublisherStep, PubCheck, Shutdown, Poll, PopWait, Pop,
    Front, Close
<1>6. CASE ReceiverStep
  BY <1>t, <1>6 DEF ReceiverStep, RcvCheck, Shutdown, Read, Push, Received
<1>7. CASE MainStep
  BY <1>t, <1>7 DEF MainStep, Run, Start, StartReceiver, MainCheck, Shutdown,
    InboxEmpty, Dispatch, Oldest, Find, IoWait, RunCallback, CancelPublisher,
    Cancel, CancelReceiver
<1>8. CASE ServerNext
  BY <1>t, <1>8 DEF ServerNext, ServerHandle, ServerRetrieve, ServerMail,
    ServerClose
<1>9. QED
  BY <1>1, <1>2, <1>3, <1>4, <1>5, <1>6, <1>7, <1>8, Steps DEF AnyStep

\* The invariant is inductive.
LEMMA NextIInv == IInv /\ [Next]_vars => IInv'
BY FunctionStep, SequenceStep, ScalarStep, HandlingStep, LocksStep, LateStep,
   EndingStep DEF IInv, TypeOK

\* The invariant holds in every reachable state.
THEOREM Invariance == Spec => []IInv
<1>1. Init => IInv
  BY InitIInv
<1>2. IInv /\ [Next]_vars => IInv'
  BY NextIInv
<1>3. QED
  BY <1>1, <1>2, PTL DEF Spec

-----------------------------------------------------------------------------
(* What follows from it *)

\* Every variable keeps its type: in particular no semaphore exceeds 1.
THEOREM TypeCorrect == Spec => []TypeOK
<1>1. IInv => TypeOK
  BY DEF IInv
<1>2. QED
  BY <1>1, Invariance, PTL

\* out_lock and sock_lock exclude, for any number of calling threads and in
\* spite of pthread_cancel.
THEOREM Exclusion == Spec => []MutualExclusion
<1>1. IInv => MutualExclusion
  BY DEF IInv, Locks
<1>2. QED
  BY <1>1, Invariance, PTL

\* No semaphore is lost, but sock_lock to a sender cancelled in fputs: out_lock
\* always comes back to those who wait in disconnect() or shutdown().
THEOREM NoneLost == Spec => []SemaphoresReturn
<1>1. Init => SemaphoresReturn
  BY DEF Init, SemaphoresReturn
<1>2. IInv /\ SemaphoresReturn /\ [Next]_vars => SemaphoresReturn'
  BY ReturnStep DEF IInv
<1>3. QED
  BY <1>1, <1>2, Invariance, PTL DEF Spec

\* After disconnect() has set disconnect_msg, each loop handles at most one
\* more message.
THEOREM PromptDisconnect == Spec => []AtMostOneAfterDisconnect
<1>1. IInv => AtMostOneAfterDisconnect
  BY DEF IInv, Late, AtMostOneAfterDisconnect
<1>2. QED
  BY <1>1, Invariance, PTL

\* The process succeeds only by way of disconnect() and both cancellations.
THEOREM OrderlyEnd == Spec => []SuccessMeansDisconnected
<1>1. IInv => SuccessMeansDisconnected
  BY DEF IInv, Ending
<1>2. QED
  BY <1>1, Invariance, PTL

=============================================================================
