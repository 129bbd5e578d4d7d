----------------------------- MODULE ChatProofs -----------------------------
(***************************************************************************)
(* Proof about ChatApp: who holds io_lock, whatever the user does, however *)
(* the connections fail and whatever the two callers do to outMessages.    *)
(***************************************************************************)
EXTENDS ChatApp, TLAPS

-----------------------------------------------------------------------------
(* The inductive invariant *)

Prompting == pc[Generator] = "prompt"
Showing   == pc[Main] = "callback"

\* io_lock is down exactly at the prompt or in a callback, and never at both.
IoLock ==
  /\ pc = [t \in Threads |-> pc[t]]
  /\ ioLock = IF Prompting \/ Showing THEN 0 ELSE 1
  /\ ~ (Prompting /\ Showing)

\* The threads have names of their own.
LEMMA Everyone == {Main, Generator, Publisher, Receiver} \subseteq Threads /\ Callers \subseteq Threads
BY ChatAssumption DEF Threads, Senders

\* io_lock is up at first.
LEMMA InitIoLock == ChatInit => IoLock
<1> SUFFICES ASSUME ChatInit PROVE IoLock
  OBVIOUS
<1>1. /\ pc = [t \in Threads |-> IF t \in Senders THEN "off" ELSE "app"] /\ ioLock = 1
      /\ {Main, Generator} \subseteq Threads
  BY Everyone DEF ChatInit, Init
<1>2. QED BY <1>1 DEF IoLock, Prompting, Showing, Senders, Main, Generator

\* A step that neither takes nor posts io_lock and enters no section of it.
Aside ==
  /\ pc' = [t \in Threads |-> pc'[t]] /\ ioLock' = ioLock
  /\ pc'[Generator] = "prompt" <=> Prompting
  /\ pc'[Main] = "callback" <=> Showing

Sections == {"prompt", "callback"}

\* A thread that goes on outside both sections.
LEMMA GoOn ==
  ASSUME IoLock, NEW t \in Threads, NEW to, to \notin Sections,
         pc[t] \notin Sections, pc' = [pc EXCEPT ![t] = to], ioLock' = ioLock
  PROVE  Aside
BY Everyone DEF IoLock, Aside, Prompting, Showing, Sections

\* A step that moves no thread.
LEMMA Stay == ASSUME IoLock, pc' = pc, ioLock' = ioLock PROVE Aside
BY DEF IoLock, Aside, Prompting, Showing

\* A step aside preserves the invariant.
LEMMA AsideKeeps == ASSUME IoLock, Aside PROVE IoLock'
BY DEF IoLock, Aside, Prompting, Showing

-----------------------------------------------------------------------------
(* The steps *)

\* A call, and a step of a method.
LEMMA CallAside ==
  ASSUME IoLock, NEW t \in Callers, NEW m, Call(t, m) PROVE Aside
<1>0. Entry(m) \in {"insert", "erase", "push"}
  BY DEF Entry
<1>1. t \in Threads /\ Entry(m) \notin Sections
  BY <1>0, Everyone DEF Sections
<1>2. pc[t] = "app" /\ pc' = [pc EXCEPT ![t] = Entry(m)] /\ ioLock' = ioLock
  BY DEF Call, Goto, lockVars
<1>3. QED BY <1>1, <1>2, GoOn DEF Sections

\* The library's methods are steps aside.
LEMMA MethodAside ==
  ASSUME IoLock, NEW t \in Callers, Method(t) PROVE Aside
<1> USE Everyone, GoOn DEF Goto, lockVars, Sections
<1>1. CASE Insert(t) \/ Erase(t)
  BY <1>1 DEF Insert, Erase
<1>2. CASE EraseEnd(t) \/ ConstructStray(t)
  BY <1>2, Stay DEF EraseEnd, ConstructStray, Die, threadVars
<1>3. CASE PushBack(t)
  <2>1. /\ pc[t] = "push" /\ ioLock' = ioLock
        /\ pc' = [pc EXCEPT ![t] = IF node \in blocks /\ finish = Last(node)
                                    THEN "link" ELSE "construct"]
    BY <1>3 DEF PushBack, data, threadVars
  <2>2. QED BY <2>1
<1>p. CASE Construct(t) \/ Load(t) \/ Link(t) \/ SetNode(t)
  BY <1>p DEF Construct, Load, Link, SetNode
<1>4. CASE Store(t) \/ SetCur(t)
  <2>1. /\ pc[t] \in {"store", "setCur"} /\ ioLock' = ioLock
        /\ pc' = [pc EXCEPT ![t] = IF msg[t].type = "DISCONNECT" THEN "flagWait" ELSE "app"]
    BY <1>4 DEF Store, SetCur, Pushed
  <2>2. QED BY <2>1
<1>5. CASE FlagWait(t) \/ Flag(t)
  BY <1>5 DEF FlagWait, Flag
<1>6. QED BY <1>1, <1>2, <1>3, <1>p, <1>4, <1>5 DEF Method

\* The senders: no code of theirs knows io_lock.
LEMMA ExchangeAside ==
  ASSUME IoLock, NEW t \in Senders \cup {Main, Generator},
         CheckWait(t) \/ (t \in Senders /\ Exchange(t))
  PROVE  Aside
<1> USE Everyone, GoOn DEF Goto, lockVars, Sections, Senders
<1>1. CASE CheckWait(t)
  BY <1>1 DEF CheckWait
<1>2. CASE t \in Senders /\ (Connect(t) \/ PutWait(t))
  BY <1>2 DEF Connect, PutWait
<1>3. CASE t \in Senders /\ (Put(t) \/ Get(t))
  BY <1>3 DEF Put, Get
<1>4. CASE PutNull(t) \/ GetEof(t)
  BY <1>4, Stay DEF PutNull, GetEof, Die, threadVars
<1>5. CASE t \in Senders /\ Cancelled(t)
  BY <1>5 DEF Cancelled, CancellationPoints, data, threadVars
<1>6. QED BY <1>1, <1>2, <1>3, <1>4, <1>5 DEF Exchange

\* So are the steps of the publisher,
LEMMA PublisherAside == ASSUME IoLock, PublisherNext PROVE Aside
<1> USE Everyone, GoOn DEF Goto, lockVars, Sections
<1>1. CASE Exchange(Publisher)
  BY <1>1, ExchangeAside DEF Senders
<1>2. CASE PubCheck
  <2>1. /\ pc[Publisher] = "test" /\ ioLock' = ioLock
        /\ pc' = [pc EXCEPT ![Publisher] = IF disconnectMsg THEN "close" ELSE "poll"]
    BY <1>2 DEF PubCheck, Shutdown
  <2>2. QED BY <2>1
<1>3. CASE Poll
  <2>1. /\ pc[Publisher] = "poll" /\ ioLock' = ioLock
        /\ \/ pc' = [pc EXCEPT ![Publisher] = "check"]
           \/ pc' = [pc EXCEPT ![Publisher] = "popWait"]
    BY <1>3 DEF Poll, data, threadVars
  <2>2. QED BY <2>1
<1>4. CASE PopWait \/ Pop
  BY <1>4 DEF PopWait, Pop
<1>5. CASE PopJunk
  BY <1>5, Stay DEF PopJunk, Die, threadVars
<1>6. CASE Close
  BY <1>6 DEF Close
<1>7. QED BY <1>1, <1>2, <1>3, <1>4, <1>5, <1>6 DEF PublisherNext

\* of the receiver,
LEMMA ReceiverAside == ASSUME IoLock, ReceiverNext PROVE Aside
<1> USE Everyone, GoOn DEF Goto, lockVars, Sections
<1>1. CASE Exchange(Receiver)
  BY <1>1, ExchangeAside DEF Senders
<1>2. CASE RcvCheck
  <2>1. /\ pc[Receiver] = "test" /\ ioLock' = ioLock
        /\ pc' = [pc EXCEPT ![Receiver] = IF disconnectMsg THEN "done" ELSE "putWait"]
    BY <1>2 DEF RcvCheck, Shutdown
  <2>2. QED BY <2>1
<1>3. CASE Read \/ Push
  BY <1>3 DEF Read, Push
<1>4. CASE ReadNoLength
  BY <1>4, Stay DEF ReadNoLength, Die, threadVars
<1>5. QED BY <1>1, <1>2, <1>3, <1>4 DEF ReceiverNext

\* main starts two threads: neither is itself nor the generator.
LEMMA StartAside ==
  ASSUME IoLock, NEW t \in Senders, NEW from, NEW to, {from, to} \cap Sections = {}, Start(t, from, to)
  PROVE  Aside
BY Everyone DEF Start, IoLock, Aside, Prompting, Showing, Sections, Senders, Generator, Main,
   Publisher, Receiver, data, threadVars, lockVars

\* main, but for the two steps around a callback.
LEMMA MainAside ==
  ASSUME IoLock, MainNext, ~ IoWait, ~ RunCallback PROVE Aside
<1> USE Everyone, GoOn DEF Goto, lockVars, Sections
<1>1. CASE CheckWait(Main)
  BY <1>1, ExchangeAside
<1>2. CASE StartReceiver
  BY <1>2, StartAside DEF StartReceiver, Senders
<1>3. CASE MainCheck
  <2>1. /\ pc[Main] = "test" /\ ioLock' = ioLock
        /\ pc' = [pc EXCEPT ![Main] = IF disconnectMsg THEN "cancelPublisher" ELSE "dispatch"]
    BY <1>3 DEF MainCheck, Shutdown
  <2>2. QED BY <2>1
<1>4. CASE InboxEmpty
  BY <1>4 DEF InboxEmpty, data, threadVars
<1>5. CASE Dispatch
  <2>1. /\ pc[Main] = "dispatch" /\ ioLock' = ioLock
        /\ pc' = [pc EXCEPT ![Main] = IF Oldest.type = "MESSAGE" THEN "find" ELSE "check"]
    BY <1>5 DEF Dispatch
  <2>2. QED BY <2>1
<1>6. CASE Find
  <2>1. /\ pc[Main] = "find" /\ ioLock' = ioLock
        /\ pc' = [pc EXCEPT ![Main] = IF msg[Main].topic \in topicCallbacks
                                      THEN "ioWait" ELSE "check"]
    BY <1>6 DEF Find
  <2>2. QED BY <2>1
<1>7. CASE CancelPublisher \/ CancelReceiver
  BY <1>7 DEF CancelPublisher, CancelReceiver, Cancel
<1>8. CASE FreedCallback \/ Return \/ LateUse
  BY <1>8, Stay DEF FreedCallback, Return, LateUse, Die, threadVars
<1>9. QED BY <1>1, <1>2, <1>3, <1>4, <1>5, <1>6, <1>7, <1>8 DEF MainNext

\* and of the server.
LEMMA ServerAside == ASSUME IoLock, ServerNext PROVE Aside
BY Stay DEF ServerNext, ServerHandle, ServerRetrieve, ServerMail, ServerClose, lockVars

\* The library, but for the two steps around a callback.
LEMMA InsideAside ==
  ASSUME IoLock, Inside, ~ IoWait, ~ RunCallback PROVE Aside
<1>1. CASE MapRace \/ GrowthRace
  BY <1>1, Stay DEF MapRace, GrowthRace, Die, threadVars, lockVars
<1>2. QED
  BY <1>1, MethodAside, PublisherAside, ReceiverAside, MainAside, ServerAside DEF Inside

\* The application, but for the two steps around the prompt.
LEMMA AppAside ==
  ASSUME IoLock,
         Subscribe \/ ChatRun \/ Publish \/ Loop \/ CheckWait(Generator) \/ ChatCheck
           \/ Ignore
  PROVE  Aside
<1> USE Everyone, GoOn DEF Goto, lockVars, Sections
<1>1. CASE Subscribe \/ Publish
  BY <1>1, CallAside, ChatAssumption DEF Subscribe, Publish
<1>2. CASE ChatRun
  BY <1>2, StartAside DEF ChatRun, Run, Senders
<1>3. CASE Loop \/ Ignore
  BY <1>3 DEF Loop, Ignore, data, threadVars
<1>4. CASE CheckWait(Generator)
  BY <1>4, ExchangeAside
<1>5. CASE ChatCheck
  <2>1. /\ pc[Generator] = "test" /\ ioLock' = ioLock
        /\ pc' = [pc EXCEPT ![Generator] = IF disconnectMsg THEN "done" ELSE "ignore"]
    BY <1>5 DEF ChatCheck, Shutdown
  <2>2. QED BY <2>1
<1>6. QED BY <1>1, <1>2, <1>3, <1>4, <1>5

\* The four steps that take or post io_lock.
LEMMA LockSteps ==
  ASSUME IoLock, IoWait \/ RunCallback \/ PromptWait \/ Prompt PROVE IoLock'
<1> USE Everyone DEF IoLock, Prompting, Showing, Goto, Wait, Post, Main, Generator
<1>1. CASE IoWait
  BY <1>1 DEF IoWait
<1>2. CASE RunCallback
  BY <1>2 DEF RunCallback
<1>3. CASE PromptWait
  BY <1>3 DEF PromptWait
<1>4. CASE Prompt
  BY <1>4 DEF Prompt
<1>5. QED BY <1>1, <1>2, <1>3, <1>4

\* Every step preserves the invariant.
LEMMA NextIoLock == IoLock /\ [ChatNext]_chatVars => IoLock'
<1> SUFFICES ASSUME IoLock, [ChatNext]_chatVars PROVE IoLock'
  OBVIOUS
<1>1. CASE UNCHANGED chatVars \/ Ended
  BY <1>1, Stay, AsideKeeps DEF chatVars, Ended, vars, data, threadVars, lockVars
<1>2. CASE Inside
  BY <1>2, InsideAside, AsideKeeps, LockSteps
<1>3. CASE Subscribe \/ ChatRun \/ Generates \/ Input
  BY <1>3, AppAside, AsideKeeps, LockSteps DEF Generates, Input
<1>4. QED BY <1>1, <1>2, <1>3 DEF ChatNext

-----------------------------------------------------------------------------
(* The theorem *)

\* No callback prints between the prompt and the user's answer, and io_lock is
\* down only at the prompt or in a callback (user_app.cpp:33, with
\* callbacks_thread).
THEOREM Undisturbed == ChatSpec => []PromptUndisturbed
<1>1. IoLock => PromptUndisturbed
  BY DEF IoLock, Prompting, Showing, PromptUndisturbed
<1>2. QED BY <1>1, InitIoLock, NextIoLock, PTL DEF ChatSpec

=============================================================================
