------------------------ MODULE ClientOrderingProofs ------------------------
(***************************************************************************)
(* Proofs about Client: what the queues keep and in which order, and that  *)
(* the client's and the server's idea of the subscriptions agree.  The     *)
(* theorems on outMessages are about executions in which no two calls      *)
(* overlap, as its push_back takes no lock; those on the inbox are about   *)
(* all executions.                                                         *)
(***************************************************************************)
EXTENDS ClientProofs, SequenceTheorems

-----------------------------------------------------------------------------
(* The inductive invariants *)

\* No two threads are inside publish, subscribe, unsubscribe or disconnect as
\* far as the end of its push_back.
Apart == \A s, t \in Callers : s # t => ~ (pc[s] \in PushPoints /\ pc[t] \in PushPoints)

\* outMessages, as its producers have filled it in turn.
Queue ==
  /\ Len(called) <= MaxOut
  /\ \A t \in Callers : pc[t] \in PushPoints =>
       /\ finish = Len(called) /\ msg[t] = called[Len(called)]
       /\ pc[t] \in {"load", "store", "setNode", "setCur"} => cell[finish] = msg[t]
       /\ pc[t] = "store" => tmp[t] = finish
  /\ (\A t \in Callers : pc[t] \notin PushPoints) => finish = Len(called) + 1
  /\ \A i \in 1..(finish - 1) : cell[i] = called[i]

\* finish lies in its block, but for the moment between the two stores that
\* move it to the next one; the block that it moves to is linked by then.
Chain ==
  /\ node \in blocks
  /\ (\A t \in Callers : pc[t] # "setCur") => First(node) <= finish /\ finish <= Last(node)
  /\ \A t \in Callers :
       /\ pc[t] \in {"construct", "load", "store"} => finish # Last(node)
       /\ pc[t] \in {"link", "constructLast", "setNode"} => finish = Last(node)
       /\ pc[t] \in {"constructLast", "setNode"} => node + 1 \in blocks
       /\ pc[t] = "setCur" => First(node) = finish + 1

\* The publisher, between outMessages and the server.
Pipeline ==
  /\ start <= finish
  /\ pc[Publisher] \in {"popWait", "pop"} => start < finish
  /\ Len(log) < start
  /\ InHand => Len(log) = start - 2 /\ msg[Publisher] = called[start - 1]
  /\ \/ pc[Publisher] \in {"off", "connect", "check", "test", "poll", "popWait", "pop"}
     \/ pc[Publisher] \in {"putWait", "put"} /\ msg[Publisher] = Identify
     \/ pc[Publisher] = "get" /\ conn[Publisher] = "answered"
     \/ conn[Publisher] = "asked" /\ msg[Publisher] = Identify
     => Len(log) = start - 1
  /\ \A k \in 1..Len(log) : log[k] = called[k]

\* The receiver and main, on either side of the inbox.
Inbox ==
  /\ ndisp <= nread /\ nread <= Len(mail)
  /\ Len(inbox) = nread - ndisp - (IF pc[Receiver] = "push" THEN 1 ELSE 0)
  /\ pc[Receiver] = "push" => msg[Receiver] = mail[nread]
  /\ \A i \in 1..Len(inbox) : inbox[i] = mail[ndisp + i]

\* What main has in hand, and what it has shown.
Shown ==
  /\ CallbacksInOrder
  /\ \A i \in 1..Len(shown) : shown[i].n > 0
  /\ pc[Main] \in {"find", "ioWait", "callback"} => ndisp > 0 /\ msg[Main].type = "MESSAGE"

-----------------------------------------------------------------------------
(* Sequences *)

\* Append adds one element at the end.
LEMMA Appended ==
  ASSUME NEW S, NEW s \in Seq(S), NEW e \in S
  PROVE  /\ Append(s, e) \in Seq(S) /\ Len(Append(s, e)) = Len(s) + 1
         /\ \A i \in 1..Len(s) : Append(s, e)[i] = s[i]
         /\ Append(s, e)[Len(s) + 1] = e
OBVIOUS

\* Head and Tail take one element from the front.
LEMMA Removed ==
  ASSUME NEW S, NEW s \in Seq(S), s # <<>>
  PROVE  /\ Head(s) = s[1] /\ Len(s) > 0 /\ Len(Tail(s)) = Len(s) - 1
         /\ \A i \in 1..Len(Tail(s)) : Tail(s)[i] = s[i + 1]
OBVIOUS

\* The elements of shown are records.
LEMMA ShownRecords ==
  TypeOK => \A i \in 1..Len(shown) : shown[i] \in [n : Nat, m : Message]
<1> DEFINE R == [n : Nat, m : Message]
<1>1. TypeOK => shown \in Seq(R)
  BY DEF TypeOK, SequenceTypes
<1> HIDE DEF R
<1>2. shown \in Seq(R) => \A i \in 1..Len(shown) : shown[i] \in R
  OBVIOUS
<1>3. QED BY <1>1, <1>2 DEF R

\* A step that only extends the mailbox keeps Shown.
LEMMA ShownKept ==
  ASSUME TypeOK, Inbox, Shown, UNCHANGED <<shown, ndisp>>,
         pc'[Main] \in {"find", "ioWait", "callback"}
           => pc[Main] \in {"find", "ioWait", "callback"} /\ msg'[Main] = msg[Main],
         \A i \in 1..Len(mail) : mail'[i] = mail[i]
  PROVE  Shown'
<1>1. /\ ndisp \in Nat /\ Len(mail) \in Nat /\ ndisp <= Len(mail)
      /\ \A i \in 1..Len(shown) : shown[i].n \in Nat
  <2>1. nread \in Nat /\ ndisp \in Nat /\ Len(mail) \in Nat /\ ndisp <= Len(mail)
    BY DEF TypeOK, SequenceTypes, ScalarTypes, Inbox
  <2>2. \A i \in 1..Len(shown) : shown[i] \in [n : Nat, m : Message]
    BY ShownRecords
  <2>3. QED BY <2>1, <2>2
<1>2. ASSUME NEW i \in 1..Len(shown)
      PROVE  /\ shown[i].n \in 1..Len(mail) /\ shown[i].n <= ndisp
             /\ shown[i].m = mail'[shown[i].n] /\ shown[i].m.type = "MESSAGE"
  BY <1>1 DEF Shown, CallbacksInOrder
<1>3. pc[Main] \in {"find", "ioWait", "callback"} => msg[Main] = mail'[ndisp]
  BY <1>1 DEF Shown, CallbacksInOrder
<1>4. QED BY <1>2, <1>3 DEF Shown, CallbacksInOrder

-----------------------------------------------------------------------------
(* Every step preserves them *)

\* Blocks follow each other: each ends before the next begins.
LEMMA BlockOrder ==
  /\ \A b \in Nat \ {0} : First(b + 1) = Last(b) + 1
  /\ \A a, b \in Nat \ {0} : a < b => Last(a) < First(b)
  /\ \A n \in Nat : n <= Last(n)
<1>1. BlockLength \in Nat /\ BlockLength >= 1
  BY BlockAssumption
<1>2. ASSUME NEW b \in Nat \ {0} PROVE First(b + 1) = Last(b) + 1
  <2>1. (b + 1) - 1 = b
    OBVIOUS
  <2>2. QED BY <2>1 DEF First
<1>3. ASSUME NEW a \in Nat \ {0}, NEW b \in Nat \ {0}, a < b PROVE Last(a) < First(b)
  <2>1. PICK d \in Nat : b - 1 = a + d
    <3>1. b - 1 - a \in Nat /\ b - 1 = a + (b - 1 - a)
      BY <1>3
    <3>2. QED BY <3>1
  <2>2. First(b) = (a + d) * BlockLength + 1
    BY <2>1 DEF First, Last
  <2>3. (a + d) * BlockLength = a * BlockLength + d * BlockLength
    BY <1>1
  <2>4. d * BlockLength \in Nat /\ a * BlockLength \in Nat
    BY <1>1
  <2>5. QED BY <2>2, <2>3, <2>4 DEF Last
<1>4. ASSUME NEW n \in Nat PROVE n <= Last(n)
  <2>1. PICK d \in Nat : BlockLength = 1 + d
    <3>1. BlockLength - 1 \in Nat /\ BlockLength = 1 + (BlockLength - 1)
      BY <1>1
    <3>2. QED BY <3>1
  <2>2. n * (1 + d) = n + n * d /\ n * d \in Nat
    OBVIOUS
  <2>3. QED BY <2>1, <2>2 DEF Last
<1>5. QED BY <1>2, <1>3, <1>4

\* The slots that calls fill exist.
LEMMA SlotTypes ==
  ASSUME TypeOK, Queue, NEW t \in Callers, pc[t] \in PushPoints, start <= finish
  PROVE  finish \in Slots
<1>1. finish = Len(called) /\ Len(called) <= MaxOut
  BY DEF Queue
<1>2. start \in Nat \ {0} /\ finish \in Nat /\ MaxOut \in Nat /\ MaxOut <= Last(MaxOut)
  BY BoundsAssumption, BlockOrder DEF TypeOK, ScalarTypes
<1>3. Last(MaxOut) \in Nat
  BY <1>2, BlockAssumption DEF Last
<1>4. QED BY <1>1, <1>2, <1>3 DEF Slots

\* A cursor behind start is in a live block.
LEMMA StartInBlock == ASSUME TypeOK, start <= finish PROVE ~ Stray
<1>1. start \in Nat \ {0} /\ finish \in Nat /\ blocks \subseteq Nat \ {0}
  BY DEF TypeOK, ScalarTypes
<1>2. \A b \in blocks : Last(b) \in Nat
  BY <1>1, BlockTypes
<1>3. QED BY <1>1, <1>2 DEF Stray, Astray

\* A cursor that is not at the end of its block is not at the end of another.
LEMMA InsideBlock ==
  ASSUME TypeOK, Apart, Chain, start <= finish, NEW t \in Callers,
         pc[t] \in {"construct", "load", "store"}
  PROVE  finish \notin {Astray} \cup {Last(b) : b \in blocks}
<1>1. /\ start \in Nat \ {0} /\ finish \in Nat /\ blocks \subseteq Nat \ {0}
      /\ node \in Nat \ {0}
  BY DEF TypeOK, ScalarTypes
<1>2. \A u \in Callers : pc[u] # "setCur"
  BY DEF Apart, PushPoints
<1>3. First(node) <= finish /\ finish < Last(node) /\ First(node) \in Nat /\ Last(node) \in Nat
  BY <1>1, <1>2, BlockTypes DEF Chain
<1>4. ASSUME NEW b \in blocks PROVE finish # Last(b)
  <2>1. b \in Nat \ {0} /\ Last(b) \in Nat /\ First(b) \in Nat /\ First(b) <= Last(b)
    BY <1>1, BlockTypes
  <2>2. CASE b < node
    BY <1>1, <1>3, <2>1, <2>2, BlockOrder
  <2>3. CASE node < b
    BY <1>1, <1>3, <2>1, <2>3, BlockOrder
  <2>4. CASE b = node
    BY <1>3, <2>4
  <2>5. b < node \/ node < b \/ b = node
    BY <1>1, <2>1
  <2>6. QED BY <2>2, <2>3, <2>4, <2>5
<1>5. QED BY <1>1, <1>3, <1>4 DEF Astray

\* Calls in turn fill the slots one after the other.
LEMMA QueueStep ==
  ASSUME Apart, Apart', TypeOK, Queue, Chain, start <= finish, [Next]_vars
  PROVE  Queue'
<1>s. ~ Stray
  BY StartInBlock
<1>f. /\ \A t \in Callers : pc[t] = "store" => tmp[t] \notin {Astray} \cup {Last(b) : b \in blocks}
      /\ \A t \in Callers : pc[t] = "setCur" => node \in blocks /\ First(node) = finish + 1
  BY InsideBlock DEF Queue, Chain, PushPoints
<1> USE CallersAssumption, BoundsAssumption DEF TypeOK, FunctionTypes,
      SequenceTypes, ScalarTypes, Apart, Queue, PushPoints, Threads,
      Senders, Publisher, Receiver, Main, Goto, Wait, Post, Hold, data,
      threadVars, pushVars, nodeVars, lockVars, mapVars, serverVars, inVars, endVars
<1>1. CASE UNCHANGED vars \/ Dies
  BY ZenonT(30), <1>1 DEF vars, Dies
<1>2. ASSUME NEW t \in Callers, CallerStep(t) PROVE Queue'
  <2>1. ASSUME NEW m \in ApiCall, Call(t, m) PROVE Queue'
    BY SMTT(30), <2>1 DEF Call, Entry
  <2>2. CASE Insert(t)
    BY <2>2 DEF Insert
  <2>3. CASE Erase(t)
    BY <2>3 DEF Erase
  <2>4. CASE Construct(t)
    <3>1. /\ UNCHANGED <<called, msg, finish, tmp>> /\ pc[t] \in {"construct", "constructLast"}
          /\ pc'[t] \in {"load", "setNode"} /\ \A u \in Callers \ {t} : pc'[u] = pc[u]
      BY <2>4 DEF Construct
    <3>2. \A u \in Callers \ {t} : pc[u] \notin PushPoints
      BY <3>1
    <3>3. cell' = [cell EXCEPT ![finish] = msg[t]]
      BY <1>s, <2>4, <3>2 DEF Construct, Written
    <3>4. finish \in Slots
      BY <3>1, SlotTypes
    <3>5. cell'[finish] = msg[t] /\ \A i \in 1..(finish - 1) : cell'[i] = cell[i]
      BY <3>3, <3>4
    <3>6. QED
      BY <3>1, <3>2, <3>5
  <2>5. CASE Load(t)
    BY <2>5 DEF Load
  <2>6. CASE Store(t) \/ SetCur(t)
    <3>1. finish = Len(called) /\ cell[finish] = called[finish] /\ finish' = finish + 1
      BY <1>f, <2>6 DEF Store, SetCur, Pushed
    <3>2. UNCHANGED <<called, cell>> /\ \A u \in Callers : pc'[u] \notin PushPoints
      BY ZenonT(30), <2>6 DEF Store, SetCur, Pushed
    <3>3. /\ finish \in Nat /\ Len(called) <= MaxOut
          /\ \A i \in 1..(finish - 1) : cell[i] = called[i]
      OBVIOUS
    <3> HIDE DEF TypeOK, FunctionTypes, SequenceTypes, ScalarTypes, PushPoints
    <3>4. QED BY <3>1, <3>2, <3>3
  <2>7. CASE FlagWait(t)
    BY <2>7 DEF FlagWait
  <2>8. CASE Flag(t)
    BY <2>8 DEF Flag
  <2>9. CASE PushBack(t)
    BY <2>9 DEF PushBack
  <2>10. CASE Link(t) \/ SetNode(t)
    BY ZenonT(30), <2>10 DEF Link, SetNode
  <2>q. QED
    BY <1>2, <2>1, <2>2, <2>3, <2>4, <2>5, <2>6, <2>7, <2>8, <2>9, <2>10 DEF
      CallerStep, PushStep
<1>3. ASSUME NEW t \in Senders, SenderStep(t) PROVE Queue'
  <2>1. CASE Connect(t)
    BY <2>1 DEF Connect, SockConnect
  <2>2. CASE PutWait(t)
    BY <2>2 DEF PutWait
  <2>3. CASE Put(t)
    BY <2>3 DEF Put
  <2>4. CASE Get(t)
    BY <2>4 DEF Get
  <2>5. CASE Cancelled(t)
    BY <2>5 DEF Cancelled
  <2>q. QED
    BY <1>3, <2>1, <2>2, <2>3, <2>4, <2>5 DEF SenderStep
<1>4. ASSUME NEW t \in Senders \cup {Main}, CheckWait(t) PROVE Queue'
  BY <1>4 DEF CheckWait
<1>5. CASE PublisherStep
  <2>1. CASE PubCheck
    BY <2>1 DEF PubCheck, Shutdown
  <2>2. CASE Poll
    BY <2>2 DEF Poll
  <2>3. CASE PopWait
    BY <2>3 DEF PopWait
  <2>4. CASE Pop
    BY <2>4 DEF Pop, Front
  <2>5. CASE Close
    BY <2>5 DEF Close
  <2>q. QED
    BY <1>5, <2>1, <2>2, <2>3, <2>4, <2>5 DEF PublisherStep
<1>6. CASE ReceiverStep
  <2>1. CASE RcvCheck
    BY <2>1 DEF RcvCheck, Shutdown
  <2>2. CASE Read
    BY <2>2 DEF Read
  <2>3. CASE Push
    BY <2>3 DEF Push, Received
  <2>q. QED
    BY <1>6, <2>1, <2>2, <2>3 DEF ReceiverStep
<1>7. CASE MainStep
  <2>1. CASE Run
    BY SMTT(30), <2>1 DEF Run, Start
  <2>2. CASE StartReceiver
    BY SMTT(30), <2>2 DEF StartReceiver, Start
  <2>3. CASE MainCheck
    BY <2>3 DEF MainCheck, Shutdown
  <2>4. CASE InboxEmpty
    BY <2>4 DEF InboxEmpty
  <2>5. CASE Dispatch
    BY <2>5 DEF Dispatch, Oldest
  <2>6. CASE Find
    BY <2>6 DEF Find
  <2>7. CASE IoWait
    BY <2>7 DEF IoWait
  <2>8. CASE RunCallback
    BY <2>8 DEF RunCallback
  <2>9. CASE CancelPublisher
    BY <2>9 DEF CancelPublisher, Cancel
  <2>10. CASE CancelReceiver
    BY <2>10 DEF CancelReceiver, Cancel
  <2>q. QED
    BY <1>7, <2>1, <2>2, <2>3, <2>4, <2>5, <2>6, <2>7, <2>8, <2>9, <2>10 DEF
      MainStep
<1>8. CASE ServerNext
  <2>1. UNCHANGED <<pc, msg, cell, finish, tmp, called>>
    BY <1>8 DEF ServerNext, ServerHandle, ServerRetrieve, ServerMail, ServerClose
  <2> HIDE DEF TypeOK, FunctionTypes, SequenceTypes, ScalarTypes
  <2>2. QED
    BY <2>1
<1>9. QED
  BY <1>1, <1>2, <1>3, <1>4, <1>5, <1>6, <1>7, <1>8, Steps DEF AnyStep

\* Calls in turn move finish from block to block.
LEMMA ChainStep ==
  ASSUME Apart, Apart', TypeOK, Queue, Chain, start <= finish, [Next]_vars
  PROVE  Chain'
<1>t. /\ pc \in [Threads -> Points] /\ node \in Nat \ {0} /\ finish \in Nat
      /\ node + 1 \in Nat \ {0} /\ Callers \subseteq Threads
      /\ Last(node) \in Nat /\ First(node) \in Nat
      /\ First(node + 1) = Last(node) + 1 /\ First(node + 1) <= Last(node + 1)
      /\ Last(node + 1) \in Nat /\ First(node) <= Last(node)
  BY BlockTypes, BlockOrder DEF TypeOK, FunctionTypes, ScalarTypes, Threads
<1>k. ASSUME UNCHANGED <<node, blocks, finish>>,
             \A t \in Callers : pc'[t] = pc[t]
                \/ (pc[t] # "setCur" /\ pc'[t] \notin PushPoints \ {"insert", "erase", "push"})
      PROVE  Chain'
  BY <1>k DEF Chain, PushPoints
<1>1. CASE UNCHANGED vars \/ Dies
  BY <1>1, <1>k DEF vars, data, Dies, threadVars, pushVars, nodeVars
<1>2. ASSUME NEW t \in Callers, CallerStep(t) PROVE Chain'
  <2>a. pc[t] \in PushPoints => \A u \in Callers \ {t} : pc[u] \notin PushPoints
    BY DEF Apart
  <2>1. CASE (\E m \in ApiCall : Call(t, m)) \/ Insert(t) \/ Erase(t) \/ FlagWait(t) \/ Flag(t)
    <3>1. UNCHANGED <<node, blocks, finish>> /\ \A u \in Callers \ {t} : pc'[u] = pc[u]
      BY <1>t, <2>1 DEF Call, Insert, Erase, FlagWait, Flag, Goto, pushVars, nodeVars
    <3>2. pc[t] \in {"app", "insert", "erase", "flagWait", "flag"}
          /\ pc'[t] \in {"app", "insert", "erase", "push", "flag"}
      BY <1>t, <2>1 DEF Call, Entry, Insert, Erase, FlagWait, Flag, Goto
    <3>3. QED BY <1>k, <3>1, <3>2 DEF PushPoints
  <2>2. CASE PushBack(t)
    <3>1. /\ UNCHANGED <<node, blocks, finish>> /\ pc[t] = "push"
          /\ pc'[t] = IF finish = Last(node) THEN "link" ELSE "construct"
          /\ \A u \in Callers \ {t} : pc'[u] = pc[u]
      BY <1>t, <2>2 DEF PushBack, Goto, data, threadVars, pushVars, nodeVars, Chain
    <3>2. QED BY <2>a, <3>1 DEF Chain, PushPoints
  <2>3. CASE Construct(t) \/ Load(t)
    <3>1. UNCHANGED <<node, blocks, finish>> /\ \A u \in Callers \ {t} : pc'[u] = pc[u]
      BY <1>t, <2>3 DEF Construct, Load, Goto, nodeVars
    <3>2. \/ pc[t] = "construct" /\ pc'[t] = "load"
          \/ pc[t] = "load" /\ pc'[t] = "store"
          \/ pc[t] = "constructLast" /\ pc'[t] = "setNode"
      BY <1>t, <2>3 DEF Construct, Load, Goto
    <3>3. QED BY <2>a, <3>1, <3>2 DEF Chain, PushPoints
  <2>4. CASE Store(t)
    <3>1. tmp[t] = finish /\ finish \notin {Astray} \cup {Last(b) : b \in blocks} /\ pc[t] = "store"
      BY <2>4, InsideBlock DEF Store, Pushed, Goto, Queue, PushPoints
    <3>2. finish' = finish + 1 /\ UNCHANGED <<node, blocks>>
          /\ \A u \in Callers : pc'[u] \notin PushPoints
      BY <1>t, <2>4, <2>a, <3>1 DEF Store, Pushed, Goto, nodeVars, PushPoints
    <3>3. First(node) <= finish /\ finish < Last(node)
      BY <1>t, <2>a, <3>1 DEF Chain, PushPoints
    <3>4. QED BY <1>t, <3>2, <3>3 DEF Chain, PushPoints
  <2>5. CASE Link(t)
    <3>1. blocks' = blocks \cup {node + 1} /\ UNCHANGED <<node, finish>>
          /\ pc[t] = "link" /\ pc'[t] = "constructLast" /\ \A u \in Callers \ {t} : pc'[u] = pc[u]
      BY <1>t, <2>5 DEF Link, Goto
    <3>2. QED BY <2>a, <3>1 DEF Chain, PushPoints
  <2>6. CASE SetNode(t)
    <3>1. node' = node + 1 /\ UNCHANGED <<blocks, finish>>
          /\ pc[t] = "setNode" /\ pc'[t] = "setCur" /\ \A u \in Callers \ {t} : pc'[u] = pc[u]
      BY <1>t, <2>6 DEF SetNode, Goto
    <3>2. finish = Last(node) /\ node + 1 \in blocks
      BY <3>1 DEF Chain
    <3>3. QED BY <1>t, <2>a, <3>1, <3>2 DEF Chain, PushPoints
  <2>7. CASE SetCur(t)
    <3>1. pc[t] = "setCur" /\ finish' = First(node) /\ UNCHANGED <<node, blocks>>
          /\ \A u \in Callers : pc'[u] \notin PushPoints
      BY <1>t, <2>7, <2>a DEF SetCur, Pushed, Goto, nodeVars, PushPoints, Chain
    <3>2. QED BY <1>t, <3>1 DEF Chain, PushPoints
  <2>q. QED BY <1>2, <2>1, <2>2, <2>3, <2>4, <2>5, <2>6, <2>7 DEF CallerStep, PushStep
<1> USE CallersAssumption DEF Threads, Senders, Publisher, Receiver, Main, Goto, Wait, Post,
      Hold, data, threadVars, pushVars, nodeVars, lockVars, mapVars, serverVars,
      inVars, endVars
<1> DEFINE Aside ==
      /\ UNCHANGED <<node, blocks, finish>>
      /\ \A u \in Callers : pc'[u] = pc[u] \/ (pc[u] # "setCur" /\ pc'[u] \notin PushPoints)
<1>a. Aside => Chain'
  BY <1>k
<1>3. ASSUME NEW t \in Senders, SenderStep(t) PROVE Aside
  BY <1>t, <1>3 DEF SenderStep, Connect, PutWait, Put, Get, Cancelled
<1>4. ASSUME NEW t \in Senders \cup {Main}, CheckWait(t) PROVE Aside
  BY <1>t, <1>4 DEF CheckWait, PushPoints
<1>5. CASE PublisherStep
  <2>1. Aside
    BY <1>t, <1>5 DEF PublisherStep, PubCheck, Shutdown, Poll, PopWait, Pop, Close
  <2>2. QED BY <2>1, <1>a
<1>6. CASE ReceiverStep
  <2>1. Aside
    BY <1>t, <1>6 DEF ReceiverStep, RcvCheck, Shutdown, Read, Push
  <2>2. QED BY <2>1, <1>a
<1>7. CASE MainStep
  <2>1. Aside
    BY <1>t, <1>7 DEF MainStep, Run, Start, StartReceiver, MainCheck, Shutdown, InboxEmpty,
       Dispatch, Find, IoWait, RunCallback, CancelPublisher, CancelReceiver, Cancel, PushPoints
  <2>2. QED BY <2>1, <1>a
<1>8. CASE ServerNext
  <2>1. Aside
    BY <1>8 DEF ServerNext, ServerHandle, ServerRetrieve, ServerMail, ServerClose
  <2>2. QED BY <2>1, <1>a
<1> HIDE DEF Aside
<1>9. QED
  BY <1>a, <1>1, <1>2, <1>3, <1>4, <1>5, <1>6, <1>7, <1>8, Steps DEF AnyStep

\* The publisher takes, sends and awaits one message at a time.
LEMMA PipelineStep ==
  ASSUME Apart, TypeOK, Handling, Queue, Chain, Pipeline, [Next]_vars
  PROVE  Pipeline'
<1>f. /\ \A t \in Callers : pc[t] = "store" =>
           tmp[t] = finish /\ tmp[t] \notin {Astray} \cup {Last(b) : b \in blocks}
      /\ \A t \in Callers : pc[t] = "setCur" => node \in blocks /\ First(node) = finish + 1
  BY InsideBlock DEF Queue, Chain, PushPoints, Pipeline
<1>d. finish - 1 \in Nat /\ (finish - 1) <= MaxOut => 1..(finish - 1) \subseteq DOMAIN cell
  <2>1. MaxOut \in Nat /\ MaxOut <= Last(MaxOut) /\ Last(MaxOut) \in Nat
    BY BoundsAssumption, BlockOrder, BlockAssumption DEF Last
  <2>2. QED BY <2>1 DEF TypeOK, FunctionTypes, Slots
<1> USE CallersAssumption, BoundsAssumption, Calls DEF TypeOK, FunctionTypes,
      SequenceTypes, ScalarTypes, Handling, BeforeRun, Pipeline, InHand,
      PushPoints, Threads, Senders, Publisher, Receiver, Main, Goto, Wait, Post,
      Hold, data, threadVars, pushVars, nodeVars, lockVars, mapVars, serverVars, inVars,
      endVars
<1>t. /\ finish - 1 <= Len(called) /\ start - 1 <= Len(called) /\ finish - 1 <= MaxOut
      /\ \A i \in 1..(finish - 1) : cell[i] = called[i]
      /\ Len(called) \in Nat /\ Len(log) \in Nat
  <2>1. finish <= Len(called) + 1 /\ Len(called) <= MaxOut
    BY SMTT(30) DEF Queue
  <2>2. QED BY SMTT(30), <2>1 DEF Queue
<1>1. CASE UNCHANGED vars \/ Dies
  BY <1>t, <1>1 DEF vars, Dies
<1>2. ASSUME NEW t \in Callers, CallerStep(t) PROVE Pipeline'
  <2>1. ASSUME NEW m \in ApiCall, Call(t, m) PROVE Pipeline'
    <3>1. /\ UNCHANGED <<conn, start, finish, log>> /\ called' = Append(called, m)
          /\ pc'[Publisher] = pc[Publisher] /\ msg'[Publisher] = msg[Publisher]
      BY <2>1 DEF Call, Entry
    <3>2. \A i \in 1..Len(called) : called'[i] = called[i]
      BY <3>1, Appended
    <3>3. start \in Nat /\ finish \in Nat /\ (InHand => start - 1 \in 1..Len(called))
      BY SMTT(30), <1>t
    <3> HIDE DEF TypeOK, FunctionTypes, SequenceTypes, ScalarTypes, Handling
    <3>4. \A k \in 1..Len(log) : log[k] = called'[k]
      BY <1>t, <3>2, <3>3
    <3>5. QED BY <1>t, <3>1, <3>2, <3>3, <3>4
  <2>2. CASE Insert(t)
    BY <1>t, <2>2 DEF Insert
  <2>3. CASE Erase(t)
    BY <1>t, <2>3 DEF Erase
  <2>4. CASE Construct(t)
    BY SMTT(30), <1>t, <2>4 DEF Construct
  <2>5. CASE Load(t)
    BY <1>t, <2>5 DEF Load
  <2>6. CASE Store(t) \/ SetCur(t)
    <3>1. finish' = finish + 1
      BY <1>f, <2>6 DEF Store, SetCur, Pushed
    <3>2. /\ UNCHANGED <<called, log, start, conn, msg>>
          /\ pc'[Publisher] = pc[Publisher]
      BY <2>6 DEF Store, SetCur, Pushed
    <3>3. start \in Nat /\ finish \in Nat
      OBVIOUS
    <3> HIDE DEF TypeOK, FunctionTypes, SequenceTypes, ScalarTypes, Handling
    <3>4. QED BY <3>1, <3>2, <3>3
  <2>7. CASE FlagWait(t)
    BY <1>t, <2>7 DEF FlagWait
  <2>8. CASE Flag(t)
    BY <1>t, <2>8 DEF Flag
  <2>9. CASE PushBack(t)
    BY <1>t, <2>9 DEF PushBack
  <2>10. CASE Link(t) \/ SetNode(t)
    BY ZenonT(30), <1>t, <2>10 DEF Link, SetNode
  <2>q. QED
    BY <1>2, <2>1, <2>2, <2>3, <2>4, <2>5, <2>6, <2>7, <2>8, <2>9, <2>10 DEF
      CallerStep, PushStep
<1>3. ASSUME NEW t \in Senders, SenderStep(t) PROVE Pipeline'
  <2>1. CASE Connect(t)
    BY <1>t, <2>1 DEF Connect, SockConnect
  <2>2. CASE PutWait(t)
    BY <1>t, <2>2 DEF PutWait
  <2>3. CASE Put(t)
    BY <1>t, <2>3 DEF Put
  <2>4. CASE Get(t)
    BY <1>t, <2>4 DEF Get
  <2>5. CASE Cancelled(t)
    BY <1>t, <2>5 DEF Cancelled
  <2>q. QED
    BY <1>3, <2>1, <2>2, <2>3, <2>4, <2>5 DEF SenderStep
<1>4. ASSUME NEW t \in Senders \cup {Main}, CheckWait(t) PROVE Pipeline'
  BY <1>t, <1>4 DEF CheckWait
<1>5. CASE PublisherStep
  <2>1. CASE PubCheck
    BY <1>t, <2>1 DEF PubCheck, Shutdown
  <2>2. CASE Poll
    BY <1>t, <2>2 DEF Poll
  <2>3. CASE PopWait
    BY <1>t, <2>3 DEF PopWait
  <2>4. CASE Pop
    <3>1. start \in Nat \ {0} /\ finish \in Nat /\ start < finish /\ Len(log) = start - 1
      BY <2>4 DEF Pop
    <3>2. called \in Seq(ApiCall) /\ MaxOut \in Nat
      OBVIOUS
    <3>3. /\ msg'[Publisher] = Front /\ pc'[Publisher] = "putWait" /\ start' = start + 1
          /\ UNCHANGED <<cell, finish, called, log, conn>>
      BY <2>4 DEF Pop
    <3>4. /\ \A k \in 1..Len(log) : log[k] = called[k]
          /\ conn[Publisher] \notin {"asked", "answered"}
      BY <2>4 DEF Pop
    <3> HIDE DEF TypeOK, FunctionTypes, SequenceTypes, ScalarTypes, Handling, Pipeline
    <3>5. start \in DOMAIN cell /\ start \in 1..(finish - 1) /\ start \in 1..Len(called)
      BY <1>d, <1>t, <3>1, <3>2
    <3>6. Front = called[start] /\ Front # Identify
      BY <1>t, <3>2, <3>5 DEF Front
    <3>7. QED BY <1>t, <3>1, <3>3, <3>4, <3>6 DEF Pipeline
  <2>5. CASE Close
    BY <1>t, <2>5 DEF Close
  <2>q. QED
    BY <1>5, <2>1, <2>2, <2>3, <2>4, <2>5 DEF PublisherStep
<1>6. CASE ReceiverStep
  <2>1. CASE RcvCheck
    BY <1>t, <2>1 DEF RcvCheck, Shutdown
  <2>2. CASE Read
    BY <1>t, <2>2 DEF Read
  <2>3. CASE Push
    BY <1>t, <2>3 DEF Push, Received
  <2>q. QED
    BY <1>6, <2>1, <2>2, <2>3 DEF ReceiverStep
<1>7. CASE MainStep
  <2>1. CASE Run
    BY <1>t, <2>1 DEF Run, Start
  <2>2. CASE StartReceiver
    BY <1>t, <2>2 DEF StartReceiver, Start
  <2>3. CASE MainCheck
    BY <1>t, <2>3 DEF MainCheck, Shutdown
  <2>4. CASE InboxEmpty
    BY <1>t, <2>4 DEF InboxEmpty
  <2>5. CASE Dispatch
    BY <1>t, <2>5 DEF Dispatch, Oldest
  <2>6. CASE Find
    BY <1>t, <2>6 DEF Find
  <2>7. CASE IoWait
    BY <1>t, <2>7 DEF IoWait
  <2>8. CASE RunCallback
    BY <1>t, <2>8 DEF RunCallback
  <2>9. CASE CancelPublisher
    BY <1>t, <2>9 DEF CancelPublisher, Cancel
  <2>10. CASE CancelReceiver
    BY <1>t, <2>10 DEF CancelReceiver, Cancel
  <2>q. QED
    BY <1>7, <2>1, <2>2, <2>3, <2>4, <2>5, <2>6, <2>7, <2>8, <2>9, <2>10 DEF
      MainStep
<1>8. CASE ServerNext
  <2>1. CASE ServerHandle
    <3>1. CASE msg[Publisher] = Identify
      BY <1>t, <2>1, <3>1 DEF ServerHandle
    <3>2. CASE msg[Publisher] # Identify
      <4>1. log' = Append(log, msg[Publisher]) /\ msg[Publisher] \in ApiCall
        BY <2>1, <3>2 DEF ServerHandle
      <4>2. /\ pc[Publisher] \in {"get", "cancelled"} /\ conn'[Publisher] = "answered"
            /\ Len(log) = start - 2 /\ msg[Publisher] = called[start - 1]
            /\ UNCHANGED <<pc, start, finish, called>> /\ start \in Nat /\ start <= finish
            /\ log \in Seq(ApiCall) /\ \A k \in 1..Len(log) : log[k] = called[k]
        BY <2>1, <3>2 DEF ServerHandle
      <4> HIDE DEF TypeOK, FunctionTypes, SequenceTypes, ScalarTypes, Handling, Pipeline
      <4>3. /\ Len(log') = start - 1 /\ log'[start - 1] = called[start - 1]
            /\ \A k \in 1..Len(log) : log'[k] = log[k]
        BY <4>1, <4>2, Appended
      <4>4. \A k \in 1..Len(log') : log'[k] = called[k]
        BY <4>2, <4>3
      <4>5. QED BY <4>2, <4>3, <4>4 DEF Pipeline
    <3>3. QED BY <3>1, <3>2
  <2>2. CASE ServerRetrieve
    BY <1>t, <2>2 DEF ServerRetrieve
  <2>3. CASE ServerMail
    BY <1>t, <2>3 DEF ServerMail
  <2>4. ASSUME NEW t \in Senders, ServerClose(t) PROVE Pipeline'
    BY <1>t, <2>4 DEF ServerClose
  <2>q. QED
    BY <1>8, <2>1, <2>2, <2>3, <2>4 DEF ServerNext
<1>9. QED
  BY <1>1, <1>2, <1>3, <1>4, <1>5, <1>6, <1>7, <1>8, Steps DEF AnyStep

\* The receiver appends what it read, main takes the oldest.
LEMMA InboxStep ==
  TypeOK /\ Handling /\ Inbox /\ [Next]_vars => Inbox'
<1> SUFFICES ASSUME TypeOK, Handling, Inbox, [Next]_vars PROVE Inbox'
  OBVIOUS
<1> USE CallersAssumption DEF TypeOK, FunctionTypes, SequenceTypes, ScalarTypes,
      Handling, Inbox, PushPoints, CancellationPoints, Threads, Senders,
      Publisher, Receiver, Main, Goto, Wait, Post, Hold, data, threadVars,
      pushVars, nodeVars, lockVars, mapVars, serverVars, inVars, endVars
<1>1. CASE UNCHANGED vars \/ Dies
  BY <1>1 DEF vars, Dies
<1>k. ASSUME UNCHANGED <<inbox, mail, nread, ndisp>>, msg'[Receiver] = msg[Receiver],
             pc'[Receiver] = "push" <=> pc[Receiver] = "push"
      PROVE  Inbox'
  BY <1>k
<1>m. ASSUME UNCHANGED <<inbox, nread, ndisp, msg, pc>>, Len(mail') = Len(mail) + 1,
             \A i \in 1..Len(mail) : mail'[i] = mail[i]
      PROVE  Inbox'
  <2>1. /\ nread \in Nat /\ ndisp \in Nat /\ Len(inbox) \in Nat /\ Len(mail) \in Nat
        /\ ndisp <= nread /\ nread <= Len(mail)
        /\ Len(inbox) = nread - ndisp - (IF pc[Receiver] = "push" THEN 1 ELSE 0)
    OBVIOUS
  <2>2. pc[Receiver] = "push" => msg[Receiver] = mail[nread] /\ nread \in 1..Len(mail)
    BY <2>1
  <2>0. \A i \in 1..Len(inbox) : inbox[i] = mail[ndisp + i]
    OBVIOUS
  <2> HIDE DEF TypeOK, FunctionTypes, SequenceTypes, ScalarTypes, Handling, Inbox
  <2>3. \A i \in 1..Len(inbox) : inbox[i] = mail[ndisp + i] /\ ndisp + i \in 1..Len(mail)
    BY <2>0, <2>1
  <2>4. nread <= Len(mail')
    BY <1>m, <2>1
  <2>5. pc'[Receiver] = "push" => msg'[Receiver] = mail'[nread']
    BY <1>m, <2>2
  <2>6. \A i \in 1..Len(inbox') : inbox'[i] = mail'[ndisp' + i]
    BY <1>m, <2>3
  <2>7. ndisp' <= nread' /\ nread' <= Len(mail')
    BY <1>m, <2>1, <2>4
  <2>8. Len(inbox') = nread' - ndisp' - (IF pc'[Receiver] = "push" THEN 1 ELSE 0)
    BY <1>m, <2>1
  <2>9. QED BY <2>5, <2>6, <2>7, <2>8 DEF Inbox
<1>2. ASSUME NEW t \in Callers, CallerStep(t) PROVE Inbox'
  <2>1. ASSUME NEW m \in ApiCall, Call(t, m) PROVE Inbox'
    BY <2>1 DEF Call, Entry
  <2>2. CASE Insert(t)
    BY <2>2, <1>k DEF Insert
  <2>3. CASE Erase(t)
    BY <2>3, <1>k DEF Erase
  <2>4. CASE Construct(t)
    BY <2>4, <1>k DEF Construct
  <2>5. CASE Load(t)
    BY <2>5, <1>k DEF Load
  <2>6. CASE Store(t)
    BY <2>6, <1>k DEF Store, Pushed
  <2>7. CASE FlagWait(t)
    BY <2>7, <1>k DEF FlagWait
  <2>8. CASE Flag(t)
    BY <2>8, <1>k DEF Flag
  <2>9. CASE PushBack(t) \/ Link(t) \/ SetNode(t) \/ SetCur(t)
    BY <2>9, <1>k DEF PushBack, Link, SetNode, SetCur, Pushed
  <2>q. QED
    BY <1>2, <2>1, <2>2, <2>3, <2>4, <2>5, <2>6, <2>7, <2>8, <2>9 DEF CallerStep, PushStep
<1>3. ASSUME NEW t \in Senders, SenderStep(t) PROVE Inbox'
  <2>1. CASE Connect(t)
    BY <2>1 DEF Connect, SockConnect
  <2>2. CASE PutWait(t)
    BY <2>2 DEF PutWait
  <2>3. CASE Put(t)
    BY <2>3 DEF Put
  <2>4. CASE Get(t)
    BY <2>4 DEF Get
  <2>5. CASE Cancelled(t)
    BY <2>5 DEF Cancelled
  <2>q. QED
    BY <1>3, <2>1, <2>2, <2>3, <2>4, <2>5 DEF SenderStep
<1>4. ASSUME NEW t \in Senders \cup {Main}, CheckWait(t) PROVE Inbox'
  BY <1>4, <1>k DEF CheckWait
<1>5. CASE PublisherStep
  <2>1. CASE PubCheck
    BY <2>1, <1>k DEF PubCheck, Shutdown
  <2>2. CASE Poll
    BY <2>2, <1>k DEF Poll
  <2>3. CASE PopWait
    BY <2>3, <1>k DEF PopWait
  <2>4. CASE Pop
    BY <2>4, <1>k DEF Pop, Front
  <2>5. CASE Close
    BY <2>5, <1>k DEF Close
  <2>q. QED
    BY <1>5, <2>1, <2>2, <2>3, <2>4, <2>5 DEF PublisherStep
<1>6. CASE ReceiverStep
  <2>1. CASE RcvCheck
    BY <2>1 DEF RcvCheck, Shutdown
  <2>2. CASE Read
    <3>1. nread < Len(mail) /\ pc[Receiver] = "get" /\ pc'[Receiver] = "push"
      BY <2>2 DEF Read
    <3>2. nread' = nread + 1 /\ msg'[Receiver] = mail[nread'] /\ inbox' = inbox
      BY <2>2 DEF Read
    <3>3. /\ ndisp \in Nat /\ nread \in Nat /\ Len(mail) \in Nat /\ Len(inbox) \in Nat
          /\ UNCHANGED <<mail, ndisp>>
      BY <2>2 DEF Read
    <3>4. /\ ndisp <= nread /\ Len(inbox) = nread - ndisp
          /\ \A i \in 1..Len(inbox) : inbox[i] = mail[ndisp + i]
      BY <3>1
    <3> HIDE DEF TypeOK, FunctionTypes, SequenceTypes, ScalarTypes, Handling, Inbox
    <3>5. QED BY <3>1, <3>2, <3>3, <3>4 DEF Inbox
  <2>3. CASE Push
    BY SMTT(30), <2>3 DEF Push, Received
  <2>q. QED
    BY <1>6, <2>1, <2>2, <2>3 DEF ReceiverStep
<1>7. CASE MainStep
  <2>1. CASE Dispatch
    <3>1. Len(inbox') = Len(inbox) - 1 /\ \A i \in 1..Len(inbox') : inbox'[i] = inbox[i + 1]
      BY SMTT(30), <2>1, Removed DEF Dispatch
    <3>2. ndisp' = ndisp + 1 /\ Len(inbox) > 0
      BY <2>1, Removed DEF Dispatch
    <3>3. ndisp' <= nread
      BY <3>2
    <3>4. \A i \in 1..Len(inbox') : inbox'[i] = mail[ndisp' + i]
      <4>1. /\ ndisp \in Nat /\ Len(inbox) \in Nat
            /\ \A i \in 1..Len(inbox) : inbox[i] = mail[ndisp + i]
        OBVIOUS
      <4> HIDE DEF TypeOK, FunctionTypes, SequenceTypes, ScalarTypes, Handling, Inbox
      <4>2. ASSUME NEW i \in 1..Len(inbox') PROVE inbox'[i] = mail[ndisp' + i]
        <5>1. i \in Nat /\ i + 1 \in 1..Len(inbox) /\ ndisp + (i + 1) = ndisp' + i
          BY <3>1, <3>2, <4>1
        <5>2. QED BY <3>1, <4>1, <5>1
      <4>3. QED BY <4>2
    <3>5. QED BY SMTT(30), <2>1, <3>1, <3>2, <3>3, <3>4 DEF Dispatch
  <2>2. CASE Run
    BY <2>2, <1>k DEF Run, Start
  <2>3. CASE StartReceiver
    BY <2>3, <1>k DEF StartReceiver, Start
  <2>4. CASE MainCheck
    BY <2>4, <1>k DEF MainCheck, Shutdown
  <2>5. CASE InboxEmpty
    BY <2>5, <1>k DEF InboxEmpty
  <2>6. CASE Find
    BY <2>6, <1>k DEF Find
  <2>7. CASE IoWait
    BY <2>7, <1>k DEF IoWait
  <2>8. CASE RunCallback
    BY <2>8, <1>k DEF RunCallback
  <2>9. CASE CancelPublisher
    BY <2>9, <1>k DEF CancelPublisher, Cancel
  <2>10. CASE CancelReceiver
    BY <2>10, <1>k DEF CancelReceiver, Cancel
  <2>q. QED
    BY <1>7, <2>1, <2>2, <2>3, <2>4, <2>5, <2>6, <2>7, <2>8, <2>9, <2>10 DEF MainStep
<1>8. CASE ServerNext
  <2>1. CASE ServerHandle
    <3>1. CASE mail' = mail
      BY <2>1, <3>1 DEF ServerHandle
    <3>2. CASE mail' # mail
      <4>1. PICK m \in MailItem : mail' = Append(mail, m)
        BY <2>1, <3>2, Calls DEF ServerHandle, Identify, Bare
      <4>2. Len(mail') = Len(mail) + 1 /\ \A i \in 1..Len(mail) : mail'[i] = mail[i]
        BY <4>1, Appended
      <4>3. UNCHANGED <<inbox, nread, ndisp, msg, pc>>
        BY <2>1 DEF ServerHandle
      <4>4. QED BY <1>m, <4>2, <4>3
    <3>3. QED BY <3>1, <3>2
  <2>2. CASE ServerRetrieve
    BY <2>2, <1>k DEF ServerRetrieve
  <2>3. CASE ServerMail
    <3>1. CASE mail' = mail
      BY <2>3, <3>1 DEF ServerMail
    <3>2. CASE mail' # mail
      <4>1. PICK m \in MailItem : mail' = Append(mail, m)
        BY <2>3, <3>2, Calls DEF ServerMail, Identify, Bare
      <4>2. Len(mail') = Len(mail) + 1 /\ \A i \in 1..Len(mail) : mail'[i] = mail[i]
        BY <4>1, Appended
      <4>3. UNCHANGED <<inbox, nread, ndisp, msg, pc>>
        BY <2>3 DEF ServerMail
      <4>4. QED BY <1>m, <4>2, <4>3
    <3>3. QED BY <3>1, <3>2
  <2>4. ASSUME NEW t \in Senders, ServerClose(t) PROVE Inbox'
    BY <2>4, <1>k DEF ServerClose
  <2>q. QED
    BY <1>8, <2>1, <2>2, <2>3, <2>4 DEF ServerNext
<1>9. QED
  BY <1>1, <1>2, <1>3, <1>4, <1>5, <1>6, <1>7, <1>8, Steps DEF AnyStep

\* main shows what it took last.
LEMMA ShownStep ==
  TypeOK /\ Handling /\ Inbox /\ Shown /\ [Next]_vars => Shown'
<1> SUFFICES ASSUME TypeOK, Handling, Inbox, Shown, [Next]_vars PROVE Shown'
  OBVIOUS
<1> USE CallersAssumption DEF Threads, Senders, Publisher, Receiver, Main, Goto,
      Wait, Post, Hold, data, threadVars, pushVars, nodeVars, lockVars, mapVars,
      serverVars, inVars, endVars
<1>t. pc \in [Threads -> Points] /\ msg \in [Threads -> Message \cup {None, Junk}]
  BY DEF TypeOK, FunctionTypes
<1>1. CASE UNCHANGED vars \/ Dies
  <2>1. shown' = shown /\ ndisp' = ndisp /\ mail' = mail /\ pc' = pc /\ msg' = msg
    BY <1>1 DEF vars, Dies
  <2>2. QED BY <2>1, ShownKept
<1>2. ASSUME NEW t \in Callers, CallerStep(t) PROVE Shown'
  <2>1. ASSUME NEW m \in ApiCall, Call(t, m) PROVE Shown'
    <3>1. /\ UNCHANGED <<shown, ndisp, mail>>
          /\ pc'[Main] \in {"find", "ioWait", "callback"}
               => pc[Main] \in {"find", "ioWait", "callback"} /\ msg'[Main] = msg[Main]
      BY <1>t, <2>1 DEF Call, Entry
    <3>2. QED BY <3>1, ShownKept
  <2>2. CASE Insert(t) \/ Erase(t) \/ PushStep(t) \/
          FlagWait(t) \/ Flag(t)
    <3>1. /\ UNCHANGED <<shown, ndisp, mail>>
          /\ pc'[Main] \in {"find", "ioWait", "callback"}
               => pc[Main] \in {"find", "ioWait", "callback"} /\ msg'[Main] = msg[Main]
      BY <1>t, <2>2 DEF Insert, Erase, PushStep, PushBack, Construct, Load,
     Store, Link, SetNode, SetCur, Pushed, FlagWait, Flag
    <3>2. QED BY <3>1, ShownKept
  <2>q. QED
    BY <1>2, <2>1, <2>2 DEF CallerStep
<1>3. ASSUME NEW t \in Senders, SenderStep(t) PROVE Shown'
  <2>1. CASE Connect(t) \/ PutWait(t) \/ Put(t) \/ Get(t) \/ Cancelled(t)
    <3>1. /\ UNCHANGED <<shown, ndisp, mail>>
          /\ pc'[Main] \in {"find", "ioWait", "callback"}
               => pc[Main] \in {"find", "ioWait", "callback"} /\ msg'[Main] = msg[Main]
      BY <1>t, <2>1 DEF Connect, SockConnect, PutWait, Put, Get, Cancelled
    <3>2. QED BY <3>1, ShownKept
  <2>q. QED
    BY <1>3, <2>1 DEF SenderStep
<1>4. ASSUME NEW t \in Senders \cup {Main}, CheckWait(t) PROVE Shown'
  <2>1. /\ UNCHANGED <<shown, ndisp, mail>>
        /\ pc'[Main] \in {"find", "ioWait", "callback"}
             => pc[Main] \in {"find", "ioWait", "callback"} /\ msg'[Main] = msg[Main]
    BY <1>t, <1>4 DEF CheckWait
  <2>2. QED BY SMTT(30), <2>1, ShownKept
<1>5. CASE PublisherStep
  <2>1. CASE PubCheck \/ Poll \/ PopWait \/ Pop \/ Close
    <3>1. /\ UNCHANGED <<shown, ndisp, mail>>
          /\ pc'[Main] \in {"find", "ioWait", "callback"}
               => pc[Main] \in {"find", "ioWait", "callback"} /\ msg'[Main] = msg[Main]
      BY <1>t, <2>1 DEF PubCheck, Shutdown, Poll, PopWait, Pop, Front, Close
    <3>2. QED BY <3>1, ShownKept
  <2>q. QED
    BY <1>5, <2>1 DEF PublisherStep
<1>6. CASE ReceiverStep
  <2>1. CASE RcvCheck \/ Read \/ Push
    <3>1. /\ UNCHANGED <<shown, ndisp, mail>>
          /\ pc'[Main] \in {"find", "ioWait", "callback"}
               => pc[Main] \in {"find", "ioWait", "callback"} /\ msg'[Main] = msg[Main]
      BY <1>t, <2>1 DEF RcvCheck, Shutdown, Read, Push, Received
    <3>2. QED BY <3>1, ShownKept
  <2>q. QED
    BY <1>6, <2>1 DEF ReceiverStep
<1>7. CASE MainStep
  <2>1. CASE Dispatch
    <3>1. Head(inbox) = mail[ndisp + 1] /\ ndisp' = ndisp + 1 /\ shown' = shown /\ mail' = mail
      BY <2>1, Removed DEF Dispatch, Oldest, TypeOK, SequenceTypes, ScalarTypes, Inbox
    <3>2. /\ msg'[Main] = Head(inbox)
          /\ pc'[Main] \in {"find", "ioWait", "callback"} => Head(inbox).type = "MESSAGE"
      BY <1>t, <2>1 DEF Dispatch, Oldest
    <3>3. ndisp \in Nat /\ \A i \in 1..Len(shown) : shown[i] \in [n : Nat, m : Message]
      BY ShownRecords DEF TypeOK, ScalarTypes
    <3>4. \A i \in 1..Len(shown) :
            shown[i].n \in Nat /\ shown[i].n <= ndisp /\ shown[i].n < ndisp + 1
      BY <3>3 DEF Shown, CallbacksInOrder
    <3>5. CallbacksInOrder'
      BY <3>1, <3>2, <3>3, <3>4 DEF Shown, CallbacksInOrder
    <3>6. QED BY <3>1, <3>2, <3>3, <3>5 DEF Shown
  <2>2. CASE RunCallback
    <3>1. /\ shown' = Append(shown, [n |-> ndisp, m |-> msg[Main]]) /\ pc'[Main] = "check"
          /\ UNCHANGED <<mail, msg, ndisp>> /\ msg[Main] \in Message
          /\ msg[Main] = mail[ndisp] /\ msg[Main].type = "MESSAGE" /\ ndisp > 0
          /\ \A i \in 1..Len(shown) : shown[i].n < ndisp
      BY <1>t, <2>2, Calls DEF RunCallback, Handling, Shown, CallbacksInOrder
    <3>2. ndisp \in Nat /\ shown \in Seq([n : Nat, m : Message])
          /\ [n |-> ndisp, m |-> msg[Main]] \in [n : Nat, m : Message]
      BY <3>1 DEF TypeOK, SequenceTypes, ScalarTypes
    <3> DEFINE R == [n : Nat, m : Message]
               r == [n |-> ndisp, m |-> msg[Main]]
    <3>3. r.n = ndisp /\ r.m = msg[Main] /\ shown' = Append(shown, r)
      BY <3>1
    <3>4. r \in R /\ shown \in Seq(R)
      BY <3>2
    <3> HIDE DEF R, r
    <3>5. /\ Len(shown') = Len(shown) + 1 /\ shown'[Len(shown) + 1] = r
          /\ \A i \in 1..Len(shown) : shown'[i] = shown[i]
      BY <3>3, <3>4, Appended
    <3>6. Len(shown) \in Nat
      BY <3>4
    <3>7. CallbacksInOrder'
      BY <3>1, <3>2, <3>3, <3>5, <3>6 DEF Shown, CallbacksInOrder
    <3>8. \A i \in 1..Len(shown') : shown'[i].n > 0
      BY <3>1, <3>3, <3>5, <3>6 DEF Shown
    <3>9. QED BY <3>1, <3>7, <3>8 DEF Shown
  <2>3. CASE Find
    <3>1. /\ UNCHANGED <<shown, ndisp, mail>>
          /\ pc'[Main] \in {"find", "ioWait", "callback"}
               => pc[Main] \in {"find", "ioWait", "callback"} /\ msg'[Main] = msg[Main]
      BY <1>t, <2>3 DEF Find
    <3>2. QED BY <3>1, ShownKept
  <2>4. CASE Run \/ StartReceiver \/ MainCheck \/ InboxEmpty \/ IoWait \/
          CancelPublisher \/ CancelReceiver
    <3>1. /\ UNCHANGED <<shown, ndisp, mail>>
          /\ pc'[Main] \in {"find", "ioWait", "callback"}
               => pc[Main] \in {"find", "ioWait", "callback"} /\ msg'[Main] = msg[Main]
      BY <1>t, <2>4 DEF Run, Start, StartReceiver, MainCheck, Shutdown, InboxEmpty,
        IoWait, CancelPublisher, Cancel, CancelReceiver
    <3>2. QED BY <3>1, ShownKept
  <2>q. QED
    BY <1>7, <2>1, <2>2, <2>3, <2>4 DEF MainStep
<1>8. CASE ServerNext
  <2>1. CASE ServerHandle
    <3>1. UNCHANGED <<shown, ndisp, pc, msg>> /\ mail \in Seq(MailItem)
      BY <2>1 DEF ServerHandle, TypeOK, SequenceTypes
    <3>2. mail' = mail \/ \E m \in MailItem : mail' = Append(mail, m)
      BY <2>1, Calls DEF ServerHandle, Handling
    <3>3. \A i \in 1..Len(mail) : mail'[i] = mail[i]
      BY <3>1, <3>2, Appended
    <3>4. QED BY <3>1, <3>3, ShownKept
  <2>2. CASE ServerRetrieve
    <3>1. /\ UNCHANGED <<shown, ndisp, mail>>
          /\ pc'[Main] \in {"find", "ioWait", "callback"}
               => pc[Main] \in {"find", "ioWait", "callback"} /\ msg'[Main] = msg[Main]
      BY <1>t, <2>2 DEF ServerRetrieve
    <3>2. QED BY <3>1, ShownKept
  <2>3. CASE ServerMail
    <3>1. UNCHANGED <<shown, ndisp, pc, msg>> /\ mail \in Seq(MailItem)
      BY <2>3 DEF ServerMail, TypeOK, SequenceTypes
    <3>2. mail' = mail \/ \E m \in MailItem : mail' = Append(mail, m)
      BY <2>3, Calls DEF ServerMail, Handling
    <3>3. \A i \in 1..Len(mail) : mail'[i] = mail[i]
      BY <3>1, <3>2, Appended
    <3>4. QED BY <3>1, <3>3, ShownKept
  <2>4. ASSUME NEW t \in Senders, ServerClose(t) PROVE Shown'
    <3>1. /\ UNCHANGED <<shown, ndisp, mail>>
          /\ pc'[Main] \in {"find", "ioWait", "callback"}
               => pc[Main] \in {"find", "ioWait", "callback"} /\ msg'[Main] = msg[Main]
      BY <1>t, <2>4 DEF ServerClose
    <3>2. QED BY <3>1, ShownKept
  <2>q. QED
    BY <1>8, <2>1, <2>2, <2>3, <2>4 DEF ServerNext
<1>9. QED
  BY <1>1, <1>2, <1>3, <1>4, <1>5, <1>6, <1>7, <1>8, Steps DEF AnyStep

-----------------------------------------------------------------------------
(* What follows from them *)

\* The inbox is empty at first.
LEMMA InitReading == Init => Inbox /\ Shown
<1> SUFFICES ASSUME Init PROVE Inbox /\ Shown
  OBVIOUS
<1>1. /\ inbox = <<>> /\ mail = <<>> /\ shown = <<>> /\ nread = 0 /\ ndisp = 0
      /\ pc[Receiver] = "off" /\ pc[Main] \in {"off", "app"}
  BY CallersAssumption DEF Init, Threads, Senders, Receiver, Main
<1>2. QED
  BY <1>1 DEF Inbox, Shown, CallbacksInOrder

\* The invariants of the two queues, together with the core invariant, hold in
\* every reachable state.
THEOREM Reading == Spec => [](IInv /\ Inbox /\ Shown)
<1>1. Init => IInv /\ Inbox /\ Shown
  BY InitIInv, InitReading
<1>2. IInv /\ Inbox /\ Shown /\ [Next]_vars => (IInv /\ Inbox /\ Shown)'
  BY NextIInv, InboxStep, ShownStep DEF IInv
<1>3. QED
  BY <1>1, <1>2, PTL DEF Spec

\* Callbacks run in the server's order, once at most, on the right message.
THEOREM CallbacksOrdered == Spec => []CallbacksInOrder
<1>1. Shown => CallbacksInOrder
  BY DEF Shown
<1>2. QED
  BY <1>1, Reading, PTL

\* The inbox is exactly what was read and not yet dispatched.
LEMMA InboxContents == TypeOK /\ Handling /\ Inbox => InboxInOrder
<1> SUFFICES ASSUME TypeOK, Handling, Inbox PROVE InboxInOrder
  OBVIOUS
<1> DEFINE hand == IF pc[Receiver] = "push" THEN <<msg[Receiver]>> ELSE <<>>
           unread == SubSeq(mail, ndisp + 1, nread)
<1>1. /\ ndisp \in Nat /\ nread \in Nat /\ nread <= Len(mail) /\ ndisp <= nread
      /\ inbox \in Seq(MailItem) /\ mail \in Seq(MailItem)
      /\ Len(mail) \in Nat /\ Len(inbox) \in Nat
  BY DEF TypeOK, SequenceTypes, ScalarTypes, Inbox
<1>2. /\ Len(hand) = IF pc[Receiver] = "push" THEN 1 ELSE 0
      /\ hand \in Seq(MailItem)
      /\ pc[Receiver] = "push" => hand[1] = mail[nread]
  BY DEF Handling, Inbox
<1>3. /\ unread \in Seq(MailItem) /\ Len(unread) = nread - ndisp
      /\ \A i \in 1..(nread - ndisp) : unread[i] = mail[ndisp + i]
  <2>1. \A i \in (ndisp + 1)..nread : mail[i] \in MailItem
    BY <1>1
  <2>2. /\ unread \in Seq(MailItem)
        /\ Len(unread) = IF ndisp + 1 <= nread THEN nread - (ndisp + 1) + 1 ELSE 0
        /\ \A i \in 1..(nread - (ndisp + 1) + 1) : unread[i] = mail[(ndisp + 1) + i - 1]
    BY <1>1, <2>1, SubSeqProperties
  <2> HIDE DEF unread
  <2>3. QED
    BY <1>1, <2>2
<1>4. /\ inbox \o hand \in Seq(MailItem)
      /\ Len(inbox \o hand) = Len(inbox) + Len(hand)
      /\ \A i \in 1..(Len(inbox) + Len(hand)) :
           (inbox \o hand)[i] = IF i <= Len(inbox) THEN inbox[i] ELSE hand[i - Len(inbox)]
  <2> HIDE DEF hand
  <2>1. QED
    BY <1>1, <1>2, ConcatProperties
<1>5. /\ Len(inbox) + Len(hand) = nread - ndisp
      /\ \A i \in 1..Len(inbox) : inbox[i] = mail[ndisp + i]
      /\ pc[Receiver] = "push" => Len(inbox) + 1 = nread - ndisp
  <2> HIDE DEF hand
  <2>1. QED
    BY <1>1, <1>2 DEF Inbox
<1> HIDE DEF hand, unread
<1>6. \A i \in 1..(nread - ndisp) : (inbox \o hand)[i] = mail[ndisp + i]
  <2>1. ASSUME NEW i \in 1..(nread - ndisp) PROVE (inbox \o hand)[i] = mail[ndisp + i]
    <3>1. CASE i <= Len(inbox)
      BY <1>1, <1>4, <1>5, <3>1
    <3>2. CASE i > Len(inbox)
      <4>1. pc[Receiver] = "push" /\ i = Len(inbox) + 1
        BY <1>1, <1>2, <1>5, <3>2
      <4>2. ndisp + i = nread /\ i - Len(inbox) = 1
        BY <1>1, <1>5, <4>1
      <4>3. QED
        BY <1>1, <1>2, <1>4, <1>5, <3>2, <4>1, <4>2
    <3>3. i <= Len(inbox) \/ i > Len(inbox)
      BY <1>1
    <3>4. QED
      BY <3>1, <3>2, <3>3
  <2>2. QED
    BY <2>1
<1>7. inbox \o hand = unread
  BY <1>3, <1>4, <1>5, <1>6, SeqEqual
<1>8. QED
  BY <1>7 DEF InboxInOrder, hand, unread

\* Nothing is lost, repeated or reordered between the receiver and main.
THEOREM InboxOrdered == Spec => []InboxInOrder
<1>1. IInv /\ Inbox => InboxInOrder
  BY InboxContents DEF IInv
<1>2. QED
  BY <1>1, Reading, PTL

\* The queue is empty at first.
LEMMA InitWriting == Init => Queue /\ Chain /\ Pipeline
<1> SUFFICES ASSUME Init PROVE Queue /\ Chain /\ Pipeline
  OBVIOUS
<1>1. /\ called = <<>> /\ log = <<>> /\ start = 1 /\ finish = 1
      /\ pc[Publisher] = "off" /\ conn[Publisher] = "none"
      /\ \A t \in Callers : pc[t] = "app"
  BY CallersAssumption DEF Init, Threads, Senders, Publisher
<1>2. QED
  <2>1. Queue /\ Pipeline
    BY <1>1, BoundsAssumption DEF Queue, Pipeline, InHand, PushPoints
  <2>2. node = 1 /\ blocks = {1} /\ First(1) = 1 /\ Last(1) >= 1
    BY BlockAssumption DEF Init, First, Last
  <2>3. QED BY <1>1, <2>1, <2>2 DEF Chain

\* As long as calls do not overlap, the invariants of outMessages hold.
THEOREM Writing == Spec /\ []Apart => [](IInv /\ Queue /\ Chain /\ Pipeline)
<1>1. Init => IInv /\ Queue /\ Chain /\ Pipeline
  BY InitIInv, InitWriting
<1>2. IInv /\ Queue /\ Chain /\ Pipeline /\ Apart /\ Apart' /\ [Next]_vars
        => (IInv /\ Queue /\ Chain /\ Pipeline)'
  BY NextIInv, QueueStep, ChainStep, PipelineStep DEF IInv, Pipeline
<1>3. QED
  BY <1>1, <1>2, PTL DEF Spec

\* As long as calls do not overlap, outMessages keeps the message of every one,
\* over any number of blocks.
THEOREM QueueComplete == Spec /\ []Apart => []QueueKeepsAll
<1>1. IInv /\ Queue => QueueKeepsAll
  <2> SUFFICES ASSUME IInv, Queue, \A t \in Callers : pc[t] \notin PushPoints
               PROVE  /\ finish = Len(called) + 1
                      /\ \A k \in 1..Len(called) : \E i \in 1..Len(called) : cell[i] = called[k]
    BY DEF QueueKeepsAll
  <2>1. finish = Len(called) + 1 /\ Len(called) \in Nat
    BY DEF IInv, TypeOK, SequenceTypes, Queue
  <2>2. \A k \in 1..Len(called) : cell[k] = called[k]
    BY <2>1 DEF Queue
  <2>3. QED
    BY <2>1, <2>2
<1>2. QED
  BY <1>1, Writing, PTL

\* As long as calls do not overlap, the server handles them in the order they
\* were made, none lost, repeated or altered.
THEOREM FirstCalledFirstHandled == Spec /\ []Apart => []HandledInOrder
<1>1. IInv /\ Queue /\ Pipeline => HandledInOrder
  <2> SUFFICES ASSUME IInv, Queue, Pipeline PROVE HandledInOrder
    OBVIOUS
  <2>1. /\ Len(log) \in Nat /\ Len(called) \in Nat /\ start \in Nat /\ finish \in Nat
        /\ Len(log) < start /\ start <= finish
    BY DEF IInv, TypeOK, SequenceTypes, ScalarTypes, Pipeline
  <2>2. finish <= Len(called) + 1
    BY <2>1 DEF Queue
  <2>3. QED
    BY <2>1, <2>2 DEF Pipeline, HandledInOrder
<1>2. QED
  BY <1>1, Writing, PTL

-----------------------------------------------------------------------------
(* Subscriptions: the client's and the server's idea of them *)

AtMap == {"insert", "erase"}

\* The calls whose effect on topicCallbacks is in place.
Applied == IF \E t \in Callers : pc[t] \in AtMap THEN Len(called) - 1 ELSE Len(called)

Change(k, topic) == called[k].type \in {"SUBSCRIBE", "UNSUBSCRIBE"} /\ called[k].topic = topic

\* Either nothing about the topic is on its way to the server, and both sides
\* agree, or the last such request says what topicCallbacks holds.
AgreeOn(topic) ==
  \/ /\ \A k \in (Len(log) + 1)..Applied : ~ Change(k, topic)
     /\ topic \in subs <=> topic \in topicCallbacks
  \/ \E k \in (Len(log) + 1)..Applied :
       /\ Change(k, topic) /\ \A j \in (k + 1)..Applied : ~ Change(j, topic)
       /\ topic \in topicCallbacks <=> called[k].type = "SUBSCRIBE"

Agree ==
  /\ \A t \in Callers : /\ pc[t] = "insert" => msg[t].type = "SUBSCRIBE"
                        /\ pc[t] = "erase"  => msg[t].type = "UNSUBSCRIBE"
  /\ \A topic \in Topics : AgreeOn(topic)

\* Steps that touch neither the map, nor the requests, nor the subscriptions.
Quiet ==
  /\ UNCHANGED <<called, log, subs, topicCallbacks>>
  /\ \A t \in Callers : /\ pc[t] \in AtMap <=> pc'[t] \in AtMap
                        /\ pc'[t] \in AtMap => pc'[t] = pc[t] /\ msg'[t] = msg[t]

\* A quiet step preserves the invariant.
LEMMA QuietKeeps == ASSUME Agree, Quiet PROVE Agree'
<1>1. Applied' = Applied
  BY DEF Quiet, Applied
<1>2. \A t \in Callers : /\ pc'[t] = "insert" => msg'[t].type = "SUBSCRIBE"
                         /\ pc'[t] = "erase"  => msg'[t].type = "UNSUBSCRIBE"
  BY DEF Quiet, Agree, AtMap
<1>3. ASSUME NEW topic \in Topics PROVE AgreeOn(topic)'
  BY <1>1 DEF Quiet, Agree, AgreeOn, Change
<1>4. QED BY <1>2, <1>3 DEF Agree

\* All other steps.
LEMMA Loud ==
  TypeOK /\ [Next]_vars =>
    \/ Quiet
    \/ \E t \in Callers : (\E m \in ApiCall : Call(t, m)) \/ Insert(t) \/ Erase(t)
    \/ ServerHandle
<1> SUFFICES ASSUME TypeOK, [Next]_vars
             PROVE  \/ Quiet
                    \/ \E t \in Callers : \/ \E m \in ApiCall : Call(t, m)
                                          \/ Insert(t) \/ Erase(t)
                    \/ ServerHandle
  OBVIOUS
<1> USE CallersAssumption DEF Threads, Senders, Publisher, Receiver, Main, Goto, Wait,
      Post, Hold, data, threadVars, pushVars, nodeVars, lockVars, mapVars, serverVars, inVars,
      endVars, Quiet, AtMap
<1>t. pc \in [Threads -> Points] /\ msg \in [Threads -> Message \cup {None, Junk}]
  BY DEF TypeOK, FunctionTypes
<1>1. CASE UNCHANGED vars \/ Dies
  BY <1>1 DEF vars, Dies
<1>2. ASSUME NEW t \in Callers, PushStep(t) \/ FlagWait(t) \/ Flag(t)
      PROVE  Quiet
  BY <1>t, <1>2 DEF PushStep, PushBack, Construct, Load,
     Store, Link, SetNode, SetCur, Pushed, FlagWait, Flag
<1>3. ASSUME NEW t \in Senders, SenderStep(t) PROVE Quiet
  BY <1>t, <1>3 DEF SenderStep, Connect, PutWait, Put, Get, Cancelled
<1>4. ASSUME NEW t \in Senders \cup {Main}, CheckWait(t) PROVE Quiet
  BY <1>t, <1>4 DEF CheckWait
<1>5. CASE PublisherStep
  BY <1>t, <1>5 DEF PublisherStep, PubCheck, Shutdown, Poll, PopWait, Pop, Close
<1>6. CASE ReceiverStep
  BY <1>t, <1>6 DEF ReceiverStep, RcvCheck, Shutdown, Read, Push
<1>7. CASE MainStep
  BY <1>t, <1>7 DEF MainStep, Run, Start, StartReceiver, MainCheck, Shutdown, InboxEmpty,
     Dispatch, Find, IoWait, RunCallback, CancelPublisher, CancelReceiver, Cancel
<1>8. CASE ServerNext /\ ~ ServerHandle
  BY <1>8 DEF ServerNext, ServerRetrieve, ServerMail, ServerClose
<1>9. QED
  BY <1>1, <1>2, <1>3, <1>4, <1>5, <1>6, <1>7, <1>8, Steps DEF AnyStep, CallerStep

-----------------------------------------------------------------------------
(* Calls, changes of the map and handled requests *)

\* A thread at the map works for the last call.
LEMMA AtLast ==
  ASSUME TypeOK, Queue, Pipeline
  PROVE  /\ Len(log) \in Nat /\ Len(called) \in Nat /\ Len(log) <= Applied
         /\ Applied \in Int /\ Applied <= Len(called) /\ start - 1 <= Applied
         /\ \A t \in Callers : pc[t] \in AtMap =>
              /\ msg[t] = called[Len(called)] /\ Len(called) > 0
              /\ Applied = Len(called) - 1
<1>1. /\ Len(log) \in Nat /\ Len(called) \in Nat /\ start \in Nat /\ finish \in Nat
      /\ start <= finish /\ Len(log) < start /\ finish > 0
  BY DEF TypeOK, SequenceTypes, ScalarTypes, Pipeline
<1>2. \A t \in Callers : pc[t] \in AtMap => finish = Len(called) /\ msg[t] = called[Len(called)]
  BY DEF Queue, AtMap, PushPoints
<1>3. finish <= Len(called) + 1
  BY <1>1 DEF Queue
<1>4. CASE \E t \in Callers : pc[t] \in AtMap
  BY <1>1, <1>2, <1>4 DEF Applied
<1>5. CASE ~ \E t \in Callers : pc[t] \in AtMap
  BY <1>1, <1>3, <1>5 DEF Applied
<1>6. QED BY <1>4, <1>5

\* A call joins the requests; its change of the map, if it has one, is to come.
LEMMA CallAgrees ==
  ASSUME Apart', TypeOK, Queue, Pipeline, Agree, NEW t \in Callers, NEW m \in ApiCall, Call(t, m)
  PROVE  Agree'
<1>1. /\ called' = Append(called, m) /\ UNCHANGED <<topicCallbacks, log, subs>>
      /\ pc[t] = "app" /\ pc' = [pc EXCEPT ![t] = Entry(m)] /\ msg' = [msg EXCEPT ![t] = m]
  BY DEF Call, Goto, Hold, mapVars, serverVars
<1>2. /\ Len(called') = Len(called) + 1 /\ called'[Len(called) + 1] = m
      /\ \A k \in 1..Len(called) : called'[k] = called[k]
      /\ Len(called) \in Nat /\ Len(log) \in Nat /\ Len(log) <= Len(called)
  BY <1>1, Appended, AtLast DEF TypeOK, SequenceTypes
<1>3. /\ t \in Threads /\ DOMAIN pc = Threads /\ DOMAIN msg = Threads
      /\ \A u \in Callers \ {t} : u \in Threads /\ pc'[u] = pc[u] /\ pc[u] \notin AtMap
  <2>1. t \in Threads /\ DOMAIN pc = Threads /\ DOMAIN msg = Threads /\ Callers \subseteq Threads
    BY DEF TypeOK, FunctionTypes, Threads
  <2>2. pc'[t] \in PushPoints
    BY <1>1, <2>1 DEF Entry, PushPoints
  <2>3. ASSUME NEW u \in Callers \ {t} PROVE pc'[u] = pc[u] /\ pc'[u] \notin PushPoints
    BY <1>1, <2>1, <2>2 DEF Apart
  <2>4. QED BY <2>1, <2>3 DEF AtMap, PushPoints
<1>4. Applied = Len(called)
  BY <1>1, <1>3 DEF Applied, AtMap
<1>5. /\ pc'[t] = Entry(m) /\ msg'[t] = m
      /\ Applied' = IF Entry(m) \in AtMap THEN Len(called) ELSE Len(called) + 1
  BY <1>1, <1>2, <1>3 DEF Applied
<1>6. Entry(m) \notin AtMap => m.type \notin {"SUBSCRIBE", "UNSUBSCRIBE"}
  BY DEF Entry, AtMap
<1>7. \A u \in Callers : /\ pc'[u] = "insert" => msg'[u].type = "SUBSCRIBE"
                         /\ pc'[u] = "erase"  => msg'[u].type = "UNSUBSCRIBE"
  BY <1>1, <1>3, <1>5 DEF Entry, AtMap
<1>8. ASSUME NEW topic \in Topics PROVE AgreeOn(topic)'
  <2>1. \A k \in (Len(log) + 1)..Len(called) :
          called'[k] = called[k] /\ (Change(k, topic) <=> /\ called'[k].type \in {"SUBSCRIBE", "UNSUBSCRIBE"}
                                                          /\ called'[k].topic = topic)
    BY <1>2 DEF Change
  <2>2. Entry(m) \notin AtMap =>
          ~ (called'[Len(called) + 1].type \in {"SUBSCRIBE", "UNSUBSCRIBE"})
    BY <1>2, <1>6
  <2>3. AgreeOn(topic) /\ Applied = Len(called) /\ UNCHANGED <<log, subs, topicCallbacks>>
    BY <1>1, <1>4 DEF Agree
  <2>4. CASE \A k \in (Len(log) + 1)..Applied : ~ Change(k, topic)
    <3>1. topic \in subs <=> topic \in topicCallbacks
      BY <2>3, <2>4 DEF AgreeOn
    <3>2. \A k \in (Len(log) + 1)..Applied' : ~ Change(k, topic)'
      BY <1>2, <1>5, <2>1, <2>2, <2>3, <2>4 DEF Change
    <3>3. QED BY <2>3, <3>1, <3>2 DEF AgreeOn
  <2>5. ASSUME NEW k \in (Len(log) + 1)..Applied, Change(k, topic),
               \A j \in (k + 1)..Applied : ~ Change(j, topic),
               topic \in topicCallbacks <=> called[k].type = "SUBSCRIBE"
        PROVE  AgreeOn(topic)'
    <3>1. k \in (Len(log) + 1)..Applied' /\ Change(k, topic)' /\ called'[k] = called[k]
      BY <1>2, <1>5, <2>1, <2>3, <2>5 DEF Change
    <3>2. \A j \in (k + 1)..Applied' : ~ Change(j, topic)'
      BY <1>2, <1>5, <2>1, <2>2, <2>3, <2>5 DEF Change
    <3>3. QED BY <2>3, <2>5, <3>1, <3>2 DEF AgreeOn
  <2>6. QED BY <2>3, <2>4, <2>5 DEF AgreeOn
<1>9. QED BY <1>7, <1>8 DEF Agree

\* insert and erase put the last call in place.
LEMMA MapAgrees ==
  ASSUME Apart, TypeOK, Queue, Pipeline, Agree, NEW t \in Callers, Insert(t) \/ Erase(t)
  PROVE  Agree'
<1> DEFINE n == Len(called)
<1>1. /\ UNCHANGED <<called, log, subs, msg>> /\ pc[t] \in AtMap
      /\ pc' = [pc EXCEPT ![t] = "push"]
      /\ \/ pc[t] = "insert" /\ topicCallbacks' = topicCallbacks \cup {msg[t].topic}
         \/ pc[t] = "erase"  /\ topicCallbacks' = topicCallbacks \ {msg[t].topic}
  BY DEF Insert, Erase, Goto, serverVars, AtMap
<1>2. t \in Threads /\ DOMAIN pc = Threads /\ \A u \in Callers \ {t} : pc[u] \notin AtMap
  BY <1>1 DEF TypeOK, FunctionTypes, Apart, AtMap, PushPoints, Threads
<1>3. /\ n \in Nat /\ Len(log) \in Nat /\ Len(log) <= n - 1
      /\ Applied = n - 1 /\ msg[t] = called[n]
  BY <1>1, AtLast
<1>4. Applied' = n /\ Len(log') = Len(log)
  BY <1>1, <1>2 DEF Applied, AtMap
<1>5. \A u \in Callers : pc'[u] \notin AtMap
  BY <1>1, <1>2 DEF AtMap
<1>6. ASSUME NEW topic \in Topics PROVE AgreeOn(topic)'
  <2>1. AgreeOn(topic) /\ called[n].type = IF pc[t] = "insert" THEN "SUBSCRIBE" ELSE "UNSUBSCRIBE"
    BY <1>1, <1>3 DEF Agree, AtMap
  <2>2. \A k : Change(k, topic)' <=> Change(k, topic)
    BY <1>1 DEF Change
  <2>3. CASE topic = msg[t].topic
    <3>1. n \in (Len(log') + 1)..Applied' /\ Change(n, topic) /\ (n + 1)..Applied' = {}
      BY <1>1, <1>3, <1>4, <2>1, <2>3 DEF Change
    <3>2. topic \in topicCallbacks' <=> called'[n].type = "SUBSCRIBE"
      BY <1>1, <2>1, <2>3
    <3> HIDE DEF n
    <3>3. \A j \in (n + 1)..Applied' : ~ Change(j, topic)
      BY <3>1
    <3>4. QED BY <2>2, <3>1, <3>2, <3>3 DEF AgreeOn
  <2>4. CASE topic # msg[t].topic
    <3>1. ~ Change(n, topic) /\ (topic \in topicCallbacks' <=> topic \in topicCallbacks)
      BY <1>1, <1>3, <2>4 DEF Change
    <3>2. CASE \A k \in (Len(log) + 1)..Applied : ~ Change(k, topic)
      <4>1. topic \in subs <=> topic \in topicCallbacks
        BY <2>1, <3>2 DEF AgreeOn
      <4>2. \A k \in (Len(log') + 1)..Applied' : ~ Change(k, topic)
        <5> HIDE DEF n
        <5> QED BY <1>3, <1>4, <3>1, <3>2
      <4>3. QED BY <1>1, <2>2, <3>1, <4>1, <4>2 DEF AgreeOn
    <3>3. ASSUME NEW k \in (Len(log) + 1)..Applied, Change(k, topic),
                 \A j \in (k + 1)..Applied : ~ Change(j, topic),
                 topic \in topicCallbacks <=> called[k].type = "SUBSCRIBE"
          PROVE  AgreeOn(topic)'
      <4>1. k \in (Len(log') + 1)..Applied' /\ \A j \in (k + 1)..Applied' : ~ Change(j, topic)
        <5> HIDE DEF n
        <5>1. k \in Int /\ k \in (Len(log') + 1)..Applied'
          BY <1>3, <1>4
        <5>2. ASSUME NEW j \in (k + 1)..n PROVE ~ Change(j, topic)
          <6>1. j \in (k + 1)..Applied \/ j = n
            BY <1>3, <5>1
          <6>2. QED BY <3>1, <3>3, <6>1
        <5>3. QED BY <1>4, <5>1, <5>2
      <4>2. QED BY <1>1, <2>2, <3>1, <3>3, <4>1 DEF AgreeOn
    <3>4. QED BY <2>1, <3>2, <3>3 DEF AgreeOn
  <2>5. QED BY <2>3, <2>4
<1>7. QED BY <1>5, <1>6 DEF Agree, AtMap

\* The server handles the oldest request.
LEMMA ServerAgrees ==
  ASSUME TypeOK, Handling, Queue, Pipeline, Agree, ServerHandle
  PROVE  Agree'
<1>1. UNCHANGED <<pc, msg, called, topicCallbacks>>
  BY DEF ServerHandle, mapVars
<1>2. CASE msg[Publisher] = Identify
  <2>1. log' = log /\ subs' = subs
    BY <1>2, Calls DEF ServerHandle
  <2>2. QED BY <1>1, <2>1, QuietKeeps DEF Quiet
<1>3. CASE msg[Publisher] # Identify
  <2> DEFINE n == Len(log) + 1
  <2>1. /\ Len(log) \in Nat /\ Len(called) \in Nat /\ n \in 1..Applied /\ Applied \in Int
        /\ Applied <= Len(called) /\ msg[Publisher] = called[n]
    <3>1. Len(log) = start - 2 /\ msg[Publisher] = called[start - 1] /\ start \in Nat
      BY <1>3 DEF ServerHandle, Pipeline, InHand, TypeOK, ScalarTypes
    <3>2. start - 1 <= Applied /\ Len(log) \in Nat /\ Len(called) \in Nat /\ Applied \in Int
          /\ Applied <= Len(called)
      BY AtLast
    <3>3. QED BY <3>1, <3>2
  <2>2. /\ log' = Append(log, called[n])
        /\ subs' = CASE called[n].type = "SUBSCRIBE"   -> subs \cup {called[n].topic}
                     [] called[n].type = "UNSUBSCRIBE" -> subs \ {called[n].topic}
                     [] OTHER                          -> subs
    BY <1>3, <2>1 DEF ServerHandle
  <2>3. called[n] \in ApiCall /\ log \in Seq(ApiCall)
    BY <2>1 DEF TypeOK, SequenceTypes
  <2> HIDE DEF n
  <2>4. Len(log') = n
    BY <2>2, <2>3, Appended DEF n
  <2>5. Applied' = Applied
    BY <1>1 DEF Applied
  <2>6. ASSUME NEW topic \in Topics PROVE AgreeOn(topic)'
    <3>1. \A k : Change(k, topic)' <=> Change(k, topic)
      BY <1>1 DEF Change
    <3>2. AgreeOn(topic)
      BY DEF Agree
    <3>3. /\ Change(n, topic) => (topic \in subs' <=> called[n].type = "SUBSCRIBE")
          /\ ~ Change(n, topic) => (topic \in subs' <=> topic \in subs)
      BY <2>2 DEF Change
    <3>4. n \in Int /\ (Len(log) + 1)..Applied = n..Applied
      BY <2>1 DEF n
    <3>5. CASE \A k \in n..Applied : ~ Change(k, topic)
      <4>1. topic \in subs <=> topic \in topicCallbacks
        BY <3>2, <3>4, <3>5 DEF AgreeOn
      <4>2. ~ Change(n, topic) /\ \A k \in (n + 1)..Applied : ~ Change(k, topic)
        BY <2>1, <3>4, <3>5
      <4>3. QED BY <1>1, <2>4, <2>5, <3>1, <3>3, <4>1, <4>2 DEF AgreeOn
    <3>6. ASSUME NEW k \in n..Applied, Change(k, topic),
                 \A j \in (k + 1)..Applied : ~ Change(j, topic),
                 topic \in topicCallbacks <=> called[k].type = "SUBSCRIBE"
          PROVE  AgreeOn(topic)'
      <4>1. CASE k = n
        <5>1. topic \in subs' <=> topic \in topicCallbacks
          BY <3>3, <3>6, <4>1
        <5>2. QED BY <1>1, <2>4, <2>5, <3>1, <3>6, <4>1, <5>1 DEF AgreeOn
      <4>2. CASE k # n
        <5>1. k \in (n + 1)..Applied
          BY <2>1, <3>4, <4>2
        <5>2. QED BY <1>1, <2>4, <2>5, <3>1, <3>6, <5>1 DEF AgreeOn
      <4>3. QED BY <4>1, <4>2
    <3>7. QED BY <3>2, <3>4, <3>5, <3>6 DEF AgreeOn
  <2>7. QED BY <1>1, <2>6 DEF Agree
<1>4. QED BY <1>2, <1>3

-----------------------------------------------------------------------------
(* What follows *)

\* As long as calls do not overlap, topicCallbacks and the server's
\* subscriptions agree once the requests on their way are counted in.
THEOREM Subscriptions == Spec /\ []Apart => []SubscriptionsAgree
<1>1. Init => Agree
  <2> SUFFICES ASSUME Init PROVE Agree
    OBVIOUS
  <2>1. /\ called = <<>> /\ log = <<>> /\ subs = {} /\ topicCallbacks = {}
        /\ \A t \in Callers : pc[t] = "app"
    BY CallersAssumption DEF Init, Threads
  <2>2. Applied = 0 /\ Len(log) = 0
    BY <2>1 DEF Applied, AtMap
  <2>3. QED BY <2>1, <2>2 DEF Agree, AgreeOn
<1>2. IInv /\ Queue /\ Pipeline /\ Apart /\ Apart' /\ Agree /\ [Next]_vars => Agree'
  BY Loud, QuietKeeps, CallAgrees, MapAgrees, ServerAgrees DEF IInv
<1>3. IInv /\ Queue /\ Pipeline /\ Agree => SubscriptionsAgree
  <2> SUFFICES ASSUME IInv, Queue, Pipeline, Agree,
                      \A t \in Callers : pc[t] \notin {"insert", "erase"}, NEW topic \in Topics
               PROVE  /\ PendingFor(topic) = {} => (topic \in subs <=> topic \in topicCallbacks)
                      /\ \A k \in PendingFor(topic) : (\A j \in PendingFor(topic) : j <= k) =>
                           (topic \in topicCallbacks <=> called[k].type = "SUBSCRIBE")
    BY DEF SubscriptionsAgree
  <2>1. Applied = Len(called) /\ Len(log) \in Nat /\ Len(called) \in Nat
    BY DEF Applied, AtMap, IInv, TypeOK, SequenceTypes
  <2>2. PendingFor(topic) = {k \in (Len(log) + 1)..Applied : Change(k, topic)}
    BY <2>1 DEF PendingFor, Change
  <2>3. AgreeOn(topic)
    BY DEF Agree
  <2>4. CASE \A k \in (Len(log) + 1)..Applied : ~ Change(k, topic)
    BY <2>2, <2>3, <2>4 DEF AgreeOn
  <2>5. ASSUME NEW n \in (Len(log) + 1)..Applied, Change(n, topic),
               \A j \in (n + 1)..Applied : ~ Change(j, topic),
               topic \in topicCallbacks <=> called[n].type = "SUBSCRIBE"
        PROVE  \A k \in PendingFor(topic) : (\A j \in PendingFor(topic) : j <= k) =>
                 (topic \in topicCallbacks <=> called[k].type = "SUBSCRIBE")
    <3>1. \A k \in PendingFor(topic) : k \in Int /\ k <= Applied /\ Change(k, topic)
      BY <2>1, <2>2
    <3>2. n \in PendingFor(topic) /\ n \in Int
      BY <2>1, <2>2, <2>5
    <3>3. \A k \in PendingFor(topic) : k <= n
      BY <2>1, <2>5, <3>1, <3>2
    <3>4. \A k \in PendingFor(topic) : (\A j \in PendingFor(topic) : j <= k) => k = n
      BY <3>1, <3>2, <3>3
    <3>5. QED BY <2>5, <3>4
  <2>6. CASE \E k \in (Len(log) + 1)..Applied : Change(k, topic)
    <3>1. PendingFor(topic) # {}
      BY <2>2, <2>6
    <3>2. QED BY <2>3, <2>5, <2>6, <3>1 DEF AgreeOn
  <2>7. QED BY <2>4, <2>6
<1>4. QED BY <1>1, <1>2, <1>3, Writing, PTL DEF Spec

=============================================================================
