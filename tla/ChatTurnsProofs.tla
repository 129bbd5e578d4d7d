--------------------------- MODULE ChatTurnsProofs ---------------------------
(***************************************************************************)
(* Proof that ChatApp implements ChatTurns: whatever the connections and   *)
(* the two pushes do, the threads of the chat take turns at io_lock and    *)
(* out_lock as ChatTurns says.                                             *)
(***************************************************************************)
EXTENDS ChatProofs, SequenceTheorems

-----------------------------------------------------------------------------
(* The inductive invariant *)

Setup   == {"app"} \cup PushPoints              \* of main and the generator
Working == {"connect", "putWait", "put", "get", "check", "poll", "popWait", "push"}

\* Where each thread may be, given that nobody calls disconnect().
Places ==
  /\ pc = [t \in Threads |-> pc[t]]
  /\ pc[Main] \in Setup \cup {"startReceiver"} \cup MainLoop
  /\ pc[Generator] \in Setup \cup GenLoop
  /\ \A t \in Senders : pc[t] \in {"off", "test", "pop"} \cup Working
  /\ pc[Main] \in Setup => pc[Publisher] = "off"
  /\ pc[Main] \in Setup \cup {"startReceiver"} => pc[Receiver] = "off"

\* Nobody does, so nobody is told to stop.
NoEnd ==
  /\ ~ disconnectMsg /\ cancelled = {}
  /\ msg = [t \in Threads |-> msg[t]]
  /\ \A t \in Callers : pc[t] \in PushPoints => msg[t].type # "DISCONNECT"

\* A thread inside out_lock holds it, and is alone there.
Alone ==
  /\ outLock \in {0, 1}
  /\ \A t \in Threads : pc[t] \in OutSection => outLock = 0
  /\ \A s, t \in Threads : s # t => ~ (pc[s] \in OutSection /\ pc[t] \in OutSection)

\* The inbox is a sequence, of whatever.
Texts == \E S : inbox \in Seq(S)

Chatting == Places /\ NoEnd /\ Alone /\ Texts

-----------------------------------------------------------------------------
(* The kinds of step *)

Rest == <<outLock, ioLock, inbox, disconnectMsg, cancelled, status>>

\* t goes on to one of these points.
GoesTo(t, points) == \E to \in points : pc' = [pc EXCEPT ![t] = to]

\* Nothing is put into a caller's hand.
HandsOff == msg' = [t \in Threads |-> msg'[t]] /\ \A t \in Callers : msg'[t] = msg[t]

Dies == status' # "running" /\ UNCHANGED <<pc, threadVars>>

Calls(t) ==
  /\ pc[t] = "app" /\ GoesTo(t, PushPoints)
  /\ \E m : m.type # "DISCONNECT" /\ msg' = [msg EXCEPT ![t] = m]
  /\ UNCHANGED Rest

Pushes(t) ==
  /\ pc[t] \in PushPoints /\ GoesTo(t, Setup)
  /\ UNCHANGED <<msg, Rest>>

Works(t) ==
  /\ pc[t] \in Working /\ GoesTo(t, Working)
  /\ HandsOff
  /\ UNCHANGED Rest

Arrives ==
  /\ pc[Receiver] = "push" /\ GoesTo(Receiver, Working)
  /\ HandsOff
  /\ \E m : inbox' = Append(inbox, m)
  /\ UNCHANGED <<outLock, ioLock, disconnectMsg, cancelled, status>>

Enters(t) ==
  /\ pc[t] \in Working /\ GoesTo(t, {"test", "pop"})
  /\ outLock > 0 /\ outLock' = outLock - 1
  /\ UNCHANGED <<msg, ioLock, inbox, disconnectMsg, cancelled, status>>

Leaves(t) ==
  /\ pc[t] \in {"test", "pop"} /\ GoesTo(t, Working)
  /\ outLock' = outLock + 1
  /\ HandsOff
  /\ UNCHANGED <<ioLock, inbox, disconnectMsg, cancelled, status>>

\* main starts the senders and then enters its loop.
Starts ==
  \/ /\ pc[Main] = "app"
     /\ pc' = [pc EXCEPT ![Main] = "startReceiver", ![Publisher] = "connect"]
     /\ UNCHANGED <<msg, Rest>>
  \/ /\ pc[Main] = "startReceiver"
     /\ pc' = [pc EXCEPT ![Main] = "check", ![Receiver] = "connect"]
     /\ UNCHANGED <<msg, Rest>>

\* main in its loop, and the generator in its own.
Rounds ==
  \/ CheckWait(Main) \/ MainCheck \/ InboxEmpty \/ Dispatch \/ Find \/ IoWait \/ RunCallback

Talks == Loop \/ CheckWait(Generator) \/ ChatCheck \/ Ignore \/ PromptWait \/ Prompt

\* The steps of the chat are of these kinds.
Kinds ==
  \/ Dies
  \/ \E t \in Callers : Calls(t) \/ Pushes(t)
  \/ \E t \in Senders : Works(t) \/ Enters(t) \/ Leaves(t)
  \/ Arrives \/ Starts \/ Rounds \/ Talks
  \/ UNCHANGED <<pc, msg, Rest>>

-----------------------------------------------------------------------------
(* The points and the threads *)

\* No two of the sets of points that matter have one in common.
LEMMA PointsApart ==
  /\ Working \cap OutSection = {} /\ "off" \notin OutSection
  /\ (Setup \cup {"startReceiver"}) \cap (MainLoop \cup GenLoop \cup OutSection) = {}
  /\ \A p \in Setup \cup {"startReceiver"} : MainAt(p) = "setup" /\ GenAt(p) = "publish"
BY DEF Working, OutSection, Setup, PushPoints, MainLoop, GenLoop, MainAt, GenAt

\* Who is who.
LEMMA Names ==
  /\ {Main, Generator, Publisher, Receiver} \subseteq Threads
  /\ Callers = {Main, Generator} /\ Senders = {Publisher, Receiver}
  /\ Main # Generator /\ Main # Publisher /\ Main # Receiver
  /\ Generator # Publisher /\ Generator # Receiver /\ Publisher # Receiver
BY Everyone, ChatAssumption DEF Senders, Main, Generator, Publisher, Receiver

\* What a thread's move changes.
LEMMA Moved ==
  ASSUME Places, NEW t \in Threads, NEW to, pc' = [pc EXCEPT ![t] = to]
  PROVE  /\ pc' = [u \in Threads |-> pc'[u]]
         /\ pc'[t] = to /\ \A u \in Threads \ {t} : pc'[u] = pc[u]
BY DEF Places

\* Whether a sender is inside out_lock.
LEMMA BusyKept ==
  ASSUME \A t \in Senders : pc[t] \in OutSection <=> pc'[t] \in OutSection
  PROVE  Busy' = Busy
BY DEF Busy

-----------------------------------------------------------------------------
(* Each kind of step preserves the invariant and is a step of ChatTurns *)

\* Calls and pushes are not seen there.
LEMMA CallsKeep ==
  ASSUME Chatting, NEW t \in Callers, Calls(t) \/ Pushes(t)
  PROVE  Chatting' /\ UNCHANGED Turns!vars
<1>1. PICK to \in Setup : pc' = [pc EXCEPT ![t] = to] /\ pc[t] \in Setup
  BY DEF Calls, Pushes, GoesTo, Setup
<1>2. /\ t \in {Main, Generator} /\ t \notin Senders /\ t \in Threads /\ UNCHANGED Rest
      /\ pc' = [u \in Threads |-> pc'[u]]
      /\ pc'[t] = to /\ \A u \in Threads \ {t} : pc'[u] = pc[u]
  BY <1>1, Names, Moved DEF Chatting, Calls, Pushes
<1>3. Places'
  BY <1>1, <1>2, Names, PointsApart DEF Chatting, Places
<1>4. NoEnd'
  <2>1. CASE Pushes(t)
    BY <1>2, <2>1, Names DEF Chatting, NoEnd, Pushes, Rest
  <2>2. CASE Calls(t)
    BY <1>2, <2>2, Names DEF Chatting, NoEnd, Calls, Rest
  <2>3. QED BY <2>1, <2>2
<1>5. Alone' /\ Texts'
  BY <1>1, <1>2, PointsApart DEF Chatting, Alone, Texts, Rest
<1>6. UNCHANGED <<GenAt(pc[Generator]), MainAt(pc[Main]), Busy>>
  BY <1>1, <1>2, Names, PointsApart, BusyKept
<1>7. QED BY <1>2, <1>3, <1>4, <1>5, <1>6 DEF Chatting, Turns!vars, Rest

\* What a sender's move leaves of the invariant, but for out_lock.
LEMMA SenderPlaces ==
  ASSUME Chatting, NEW t \in Senders, pc[t] \in {"test", "pop"} \cup Working,
         NEW to \in {"test", "pop"} \cup Working, pc' = [pc EXCEPT ![t] = to],
         HandsOff, UNCHANGED <<disconnectMsg, cancelled>>
  PROVE  /\ Places' /\ NoEnd'
         /\ pc'[t] = to /\ \A u \in Threads \ {t} : pc'[u] = pc[u]
         /\ UNCHANGED <<GenAt(pc[Generator]), MainAt(pc[Main])>>
<1>1. /\ t \in Threads /\ t \notin Callers
      /\ pc' = [u \in Threads |-> pc'[u]]
      /\ pc'[t] = to /\ \A u \in Threads \ {t} : pc'[u] = pc[u]
  BY Names, Moved DEF Chatting
<1>2. pc[t] # "off"
  BY DEF Working
<1>3. Places'
  BY <1>1, <1>2, Names DEF Chatting, Places
<1>4. NoEnd'
  BY <1>1, Names DEF Chatting, NoEnd, HandsOff
<1>5. QED BY <1>1, <1>3, <1>4, Names

\* A sender at work outside out_lock is not seen there, but for the text that
\* the receiver puts into the inbox.
LEMMA WorksKeep ==
  ASSUME Chatting, NEW t \in Senders, Works(t) \/ (t = Receiver /\ Arrives)
  PROVE  Chatting' /\ (Turns!Arrive \/ UNCHANGED Turns!vars)
<1>1. PICK to \in Working : pc' = [pc EXCEPT ![t] = to] /\ pc[t] \in Working
  BY DEF Works, Arrives, GoesTo, Working
<1>2. HandsOff /\ UNCHANGED <<outLock, ioLock, disconnectMsg, cancelled, status>>
  BY DEF Works, Arrives, Rest
<1>3. /\ Places' /\ NoEnd'
      /\ pc'[t] = to /\ \A u \in Threads \ {t} : pc'[u] = pc[u]
      /\ UNCHANGED <<GenAt(pc[Generator]), MainAt(pc[Main])>>
  BY <1>1, <1>2, SenderPlaces
<1>4. Alone'
  BY <1>1, <1>2, <1>3, PointsApart DEF Chatting, Alone
<1>5. Busy' = Busy
  BY <1>1, <1>3, Names, PointsApart, BusyKept
<1>6. Texts' /\ (inbox' = inbox \/ inbox' # <<>>)
  <2>1. CASE UNCHANGED inbox
    BY <2>1 DEF Chatting, Texts
  <2>2. CASE ~ UNCHANGED inbox
    <3>1. PICK S, m : inbox \in Seq(S) /\ inbox' = Append(inbox, m)
      BY <2>2 DEF Chatting, Texts, Works, Rest, Arrives
    <3>2. inbox \in Seq(S \cup {m}) /\ m \in S \cup {m}
      BY <3>1
    <3>3. inbox' \in Seq(S \cup {m}) /\ inbox' # <<>>
      BY <3>1, <3>2
    <3>4. QED BY <3>3 DEF Texts
  <2>3. QED BY <2>1, <2>2
<1>7. QED BY <1>2, <1>3, <1>4, <1>5, <1>6 DEF Chatting, Turns!Arrive, Turns!Others, Turns!vars

\* Where it takes out_lock, nobody else is inside.
LEMMA EntersKeep ==
  ASSUME Chatting, NEW t \in Senders, Enters(t)
  PROVE  Chatting' /\ Turns!Take
<1>1. PICK to \in {"test", "pop"} : pc' = [pc EXCEPT ![t] = to]
  BY DEF Enters, GoesTo
<1>2. /\ pc[t] \in Working /\ HandsOff /\ outLock > 0 /\ outLock' = outLock - 1
      /\ UNCHANGED <<ioLock, inbox, disconnectMsg, cancelled, status>>
  BY DEF Enters, HandsOff, Chatting, NoEnd
<1>3. /\ Places' /\ NoEnd' /\ t \in Threads
      /\ pc'[t] = to /\ \A u \in Threads \ {t} : pc'[u] = pc[u]
      /\ UNCHANGED <<GenAt(pc[Generator]), MainAt(pc[Main])>>
  BY <1>1, <1>2, SenderPlaces, Names
<1>4. outLock = 1 /\ \A u \in Threads : pc[u] \notin OutSection
  BY <1>2 DEF Chatting, Alone
<1>5. Alone'
  BY <1>2, <1>3, <1>4 DEF Alone
<1>6. ~ Busy /\ Busy'
  BY <1>1, <1>3, <1>4, Names DEF Busy, OutSection
<1>7. QED BY <1>2, <1>3, <1>5, <1>6 DEF Chatting, Texts, Turns!Take, Turns!Wait, Turns!Others

\* Where it posts it, nobody is.
LEMMA LeavesKeep ==
  ASSUME Chatting, NEW t \in Senders, Leaves(t)
  PROVE  Chatting' /\ Turns!Leave
<1>1. PICK to \in Working : pc' = [pc EXCEPT ![t] = to]
  BY DEF Leaves, GoesTo
<1>2. /\ pc[t] \in {"test", "pop"} /\ HandsOff /\ outLock' = outLock + 1
      /\ UNCHANGED <<ioLock, inbox, disconnectMsg, cancelled, status>>
  BY DEF Leaves
<1>3. /\ Places' /\ NoEnd' /\ t \in Threads
      /\ pc'[t] = to /\ \A u \in Threads \ {t} : pc'[u] = pc[u]
      /\ UNCHANGED <<GenAt(pc[Generator]), MainAt(pc[Main])>>
  BY <1>1, <1>2, SenderPlaces, Names
<1>4. outLock = 0 /\ \A u \in Threads \ {t} : pc[u] \notin OutSection
  BY <1>2, <1>3 DEF Chatting, Alone, OutSection
<1>5. \A u \in Threads : pc'[u] \notin OutSection
  BY <1>1, <1>3, <1>4, PointsApart
<1>6. Alone'
  BY <1>2, <1>4, <1>5 DEF Alone
<1>7. Busy /\ ~ Busy'
  BY <1>2, <1>5, Names DEF Busy, OutSection
<1>8. QED BY <1>2, <1>3, <1>6, <1>7 DEF Chatting, Texts, Turns!Leave, Turns!Post, Turns!Others

\* main starts a sender that is not inside out_lock yet.
LEMMA StartsKeep ==
  ASSUME Chatting, Starts
  PROVE  Chatting' /\ (Turns!Run \/ UNCHANGED Turns!vars)
<1>1. UNCHANGED <<msg, Rest>>
  BY DEF Starts
<1>2. CASE pc[Main] = "app" /\ pc' = [pc EXCEPT ![Main] = "startReceiver", ![Publisher] = "connect"]
  <2>1. /\ pc' = [u \in Threads |-> pc'[u]]
        /\ pc'[Main] = "startReceiver" /\ pc'[Publisher] = "connect" /\ pc[Publisher] = "off"
        /\ \A u \in Threads \ {Main, Publisher} : pc'[u] = pc[u]
    BY <1>2, Names DEF Chatting, Places, Setup
  <2>2. Places'
    BY <1>2, <2>1, Names DEF Chatting, Places, Setup, PushPoints, Working
  <2>3. NoEnd' /\ Alone' /\ Texts'
    <3>1. {pc[Main], pc'[Main], pc[Publisher], pc'[Publisher]} \cap OutSection = {}
      BY <1>2, <2>1 DEF OutSection
    <3>2. NoEnd'
      BY <1>1, <2>1, Names DEF Chatting, NoEnd, PushPoints, Rest
    <3>3. QED BY <1>1, <2>1, <3>1, <3>2 DEF Chatting, Alone, Texts, Rest
  <2>4. UNCHANGED <<GenAt(pc[Generator]), MainAt(pc[Main])>>
    BY ZenonT(30), <1>2, <2>1, Names, PointsApart DEF Setup
  <2>5. Busy' = Busy
    BY <2>1, Names, BusyKept DEF OutSection
  <2>6. QED BY <1>1, <2>2, <2>3, <2>4, <2>5 DEF Chatting, Rest, Turns!vars
<1>3. CASE pc[Main] = "startReceiver" /\ pc' = [pc EXCEPT ![Main] = "check", ![Receiver] = "connect"]
  <2>1. /\ pc' = [u \in Threads |-> pc'[u]]
        /\ pc'[Main] = "check" /\ pc'[Receiver] = "connect" /\ pc[Receiver] = "off"
        /\ \A u \in Threads \ {Main, Receiver} : pc'[u] = pc[u]
    BY <1>3, Names DEF Chatting, Places
  <2>2. Places'
    BY <1>3, <2>1, Names DEF Chatting, Places, Setup, PushPoints, Working, MainLoop
  <2>3. NoEnd' /\ Alone' /\ Texts'
    <3>1. {pc[Main], pc'[Main], pc[Receiver], pc'[Receiver]} \cap OutSection = {}
      BY <1>3, <2>1 DEF OutSection
    <3>2. NoEnd'
      BY <1>1, <2>1, Names DEF Chatting, NoEnd, PushPoints, Rest
    <3>3. QED BY <1>1, <2>1, <3>1, <3>2 DEF Chatting, Alone, Texts, Rest
  <2>4. MainAt(pc[Main]) = "setup" /\ MainAt(pc'[Main]) = "check" /\ UNCHANGED GenAt(pc[Generator])
    BY <1>3, <2>1, Names DEF MainAt, MainLoop
  <2>5. Busy' = Busy
    BY <2>1, Names, BusyKept DEF OutSection
  <2>6. QED BY <1>1, <2>2, <2>3, <2>4, <2>5 DEF Chatting, Rest, Turns!Run, Turns!MainGoto
<1>4. QED BY <1>2, <1>3 DEF Starts

\* What a step of main or the generator inside its loop leaves of the
\* invariant, but for out_lock and the inbox.
LEMMA LoopPlaces ==
  ASSUME Chatting, NEW t \in Callers, NEW to, pc' = [pc EXCEPT ![t] = to],
         \/ t = Main /\ {pc[t], to} \subseteq MainLoop
         \/ t = Generator /\ pc[t] \in GenLoop \cup {"app"} /\ to \in GenLoop \cup {"app"},
         msg' = msg \/ \E m : msg' = [msg EXCEPT ![t] = m],
         UNCHANGED <<disconnectMsg, cancelled>>
  PROVE  /\ Places' /\ NoEnd' /\ Busy' = Busy
         /\ t \in Threads /\ pc'[t] = to /\ \A u \in Threads \ {t} : pc'[u] = pc[u]
<1>1. /\ t \in Threads /\ t \notin Senders
      /\ pc' = [u \in Threads |-> pc'[u]]
      /\ pc'[t] = to /\ \A u \in Threads \ {t} : pc'[u] = pc[u]
  BY Names, Moved DEF Chatting
<1>2. /\ to \notin PushPoints /\ pc[t] \notin PushPoints /\ pc[t] # "startReceiver"
      /\ t = Main => to \notin Setup \cup {"startReceiver"}
  BY Names DEF MainLoop, GenLoop, PushPoints, Setup
<1>3. Places'
  BY <1>1, <1>2, Names DEF Chatting, Places, Setup
<1>4. NoEnd'
  BY <1>1, <1>2, Names DEF Chatting, NoEnd
<1>5. Busy' = Busy
  BY <1>1, Names, BusyKept
<1>6. QED BY <1>1, <1>3, <1>4, <1>5

\* What it does with out_lock.
LEMMA LoopAlone ==
  ASSUME Chatting, NEW t \in Threads, NEW to,
         pc'[t] = to, \A u \in Threads \ {t} : pc'[u] = pc[u],
         \/ pc[t] \notin OutSection /\ to \notin OutSection /\ outLock' = outLock
         \/ to \in OutSection /\ outLock > 0 /\ outLock' = outLock - 1
         \/ pc[t] \in OutSection /\ to \notin OutSection /\ outLock' = outLock + 1
  PROVE  Alone'
<1>1. CASE pc[t] \notin OutSection /\ to \notin OutSection /\ outLock' = outLock
  BY <1>1 DEF Chatting, Alone
<1>2. CASE to \in OutSection /\ outLock > 0 /\ outLock' = outLock - 1
  BY <1>2 DEF Chatting, Alone
<1>3. CASE pc[t] \in OutSection /\ to \notin OutSection /\ outLock' = outLock + 1
  <2>1. outLock = 0 /\ \A u \in Threads : pc'[u] \notin OutSection
    BY <1>3 DEF Chatting, Alone
  <2>2. QED BY <1>3, <2>1 DEF Alone
<1>4. QED BY <1>1, <1>2, <1>3

\* main goes round its loop.
LEMMA RoundsKeep ==
  ASSUME Chatting, Rounds
  PROVE  Chatting' /\ Turns!MainNext
<1> DEFINE Other == UNCHANGED <<msg, disconnectMsg, cancelled, status>>
<1> DEFINE At(from, to) ==
      /\ Chatting' /\ UNCHANGED <<GenAt(pc[Generator]), Busy>>
      /\ MainAt(pc[Main]) = from /\ MainAt(pc'[Main]) = to
<1>0. ASSUME NEW from \in MainLoop, NEW to \in MainLoop,
             pc[Main] = from, pc' = [pc EXCEPT ![Main] = to],
             msg' = msg \/ \E m : msg' = [msg EXCEPT ![Main] = m],
             UNCHANGED <<disconnectMsg, cancelled>>, Texts',
             \/ from # "test" /\ to # "test" /\ outLock' = outLock
             \/ to = "test" /\ outLock > 0 /\ outLock' = outLock - 1
             \/ from = "test" /\ to # "test" /\ outLock' = outLock + 1
      PROVE  At(from, to)
  <2>1. /\ Places' /\ NoEnd' /\ Busy' = Busy /\ Main \in Threads
        /\ pc'[Main] = to /\ \A u \in Threads \ {Main} : pc'[u] = pc[u]
    BY <1>0, Names, LoopPlaces
  <2>2. (from \in OutSection <=> from = "test") /\ (to \in OutSection <=> to = "test")
    BY DEF OutSection, MainLoop
  <2>3. Alone'
    BY <1>0, <2>1, <2>2, LoopAlone
  <2>4. QED BY <1>0, <2>1, <2>3, Names DEF Chatting, MainAt
<1>t. inbox' = inbox => Texts'
  BY DEF Chatting, Texts
<1> HIDE DEF At
<1> USE <1>t DEF Goto, MainLoop
<1>1. CASE CheckWait(Main)
  <2>1. At("check", "test")
    BY <1>0, <1>1 DEF CheckWait, Wait, endVars, inVars
  <2>2. QED BY <1>1, <2>1 DEF At, CheckWait, Wait, endVars, inVars, Turns!MainNext,
           Turns!MainCheckWait, Turns!MainGoto, Turns!Wait
<1>2. CASE MainCheck
  <2>1. pc[Main] = "test" /\ pc' = [pc EXCEPT ![Main] = "dispatch"]
    BY <1>2 DEF MainCheck, Shutdown, Chatting, NoEnd
  <2>2. At("test", "dispatch")
    BY <1>0, <1>2, <2>1 DEF MainCheck, Shutdown, Post, endVars, inVars
  <2>3. QED BY <1>2, <2>2 DEF At, MainCheck, Shutdown, Post, endVars, inVars, Turns!MainNext,
           Turns!MainShutdown, Turns!MainGoto, Turns!Post
<1>3. CASE InboxEmpty
  <2>1. At("dispatch", "check")
    BY <1>0, <1>3 DEF InboxEmpty, data, threadVars, endVars, inVars, lockVars
  <2>2. QED BY <1>3, <2>1 DEF At, InboxEmpty, data, threadVars, endVars, inVars, lockVars,
           Turns!MainNext, Turns!InboxEmpty, Turns!MainGoto
<1>4. CASE Dispatch
  <2>1. PICK to \in {"find", "check"} : pc[Main] = "dispatch" /\ pc' = [pc EXCEPT ![Main] = to]
    BY <1>4 DEF Dispatch
  <2>2. Texts'
    <3>1. PICK S : inbox \in Seq(S) /\ inbox # <<>> /\ inbox' = Tail(inbox)
      BY <1>4 DEF Chatting, Texts, Dispatch
    <3>2. Tail(inbox) \in Seq(S)
      BY <3>1
    <3>3. QED BY <3>1, <3>2 DEF Texts
  <2>3. At("dispatch", to)
    BY <1>0, <1>4, <2>1, <2>2 DEF Dispatch, Hold, endVars, lockVars
  <2>4. QED BY <1>4, <2>3 DEF At, Dispatch, endVars, lockVars,
           Turns!MainNext, Turns!Dispatch, Turns!MainGoto
<1>5. CASE Find
  <2>1. PICK to \in {"ioWait", "check"} : pc[Main] = "find" /\ pc' = [pc EXCEPT ![Main] = to]
    BY <1>5 DEF Find
  <2>2. At("find", to)
    BY <1>0, <1>5, <2>1 DEF Find, endVars, inVars, lockVars
  <2>3. QED BY <1>5, <2>2 DEF At, Find, endVars, inVars, lockVars,
           Turns!MainNext, Turns!Find, Turns!MainGoto
<1>6. CASE IoWait
  <2>1. At("ioWait", "callback")
    BY <1>0, <1>6 DEF IoWait, endVars, inVars
  <2>2. QED BY <1>6, <2>1 DEF At, IoWait, Wait, endVars, inVars,
           Turns!MainNext, Turns!IoWait, Turns!MainGoto, Turns!Wait
<1>7. CASE RunCallback
  <2>1. At("callback", "check")
    BY <1>0, <1>7 DEF RunCallback, endVars
  <2>2. QED BY <1>7, <2>1 DEF At, RunCallback, Post, endVars,
           Turns!MainNext, Turns!RunCallback, Turns!MainGoto, Turns!Post
<1>8. QED BY <1>1, <1>2, <1>3, <1>4, <1>5, <1>6, <1>7 DEF Rounds

\* So does chat_generator.
LEMMA TalksKeep ==
  ASSUME Chatting, Talks
  PROVE  Chatting' /\ (Turns!Generates \/ Turns!Input)
<1> DEFINE At(from, to) ==
      /\ Chatting' /\ UNCHANGED <<MainAt(pc[Main]), Busy>>
      /\ GenAt(pc[Generator]) = GenAt(from) /\ GenAt(pc'[Generator]) = GenAt(to)
<1>0. ASSUME NEW from \in GenLoop \cup {"app"}, NEW to \in GenLoop \cup {"app"},
             pc[Generator] = from, pc' = [pc EXCEPT ![Generator] = to],
             UNCHANGED <<msg, disconnectMsg, cancelled, inbox>>,
             \/ from # "test" /\ to # "test" /\ outLock' = outLock
             \/ to = "test" /\ outLock > 0 /\ outLock' = outLock - 1
             \/ from = "test" /\ to # "test" /\ outLock' = outLock + 1
      PROVE  At(from, to)
  <2>1. /\ Places' /\ NoEnd' /\ Busy' = Busy /\ Generator \in Threads
        /\ pc'[Generator] = to /\ \A u \in Threads \ {Generator} : pc'[u] = pc[u]
    BY <1>0, Names, LoopPlaces
  <2>2. (from \in OutSection <=> from = "test") /\ (to \in OutSection <=> to = "test")
    BY DEF OutSection, GenLoop
  <2>3. Alone'
    BY <1>0, <2>1, <2>2, LoopAlone
  <2>4. QED BY <1>0, <2>1, <2>3, Names DEF Chatting, Texts
<1> HIDE DEF At
<1>p. GenAt("app") = "publish" /\ \A p \in GenLoop : GenAt(p) = p
  BY DEF GenAt, GenLoop
<1> USE <1>p DEF Goto, GenLoop
<1>1. CASE Loop
  <2>1. At("app", "check")
    BY <1>0, <1>1 DEF Loop, data, threadVars, endVars, inVars, lockVars
  <2>2. QED BY <1>1, <2>1 DEF At, Loop, data, threadVars, endVars, inVars, lockVars,
           Turns!Generates, Turns!Publish, Turns!GenGoto
<1>2. CASE CheckWait(Generator)
  <2>1. At("check", "test")
    BY <1>0, <1>2 DEF CheckWait, Wait, endVars, inVars
  <2>2. QED BY <1>2, <2>1 DEF At, CheckWait, Wait, endVars, inVars,
           Turns!Generates, Turns!CheckWait, Turns!GenGoto, Turns!Wait
<1>3. CASE ChatCheck
  <2>1. pc[Generator] = "test" /\ pc' = [pc EXCEPT ![Generator] = "ignore"]
    BY <1>3 DEF ChatCheck, Shutdown, Chatting, NoEnd
  <2>2. At("test", "ignore")
    BY <1>0, <1>3, <2>1 DEF ChatCheck, Shutdown, Post, endVars, inVars
  <2>3. QED BY <1>3, <2>2 DEF At, ChatCheck, Shutdown, Post, endVars, inVars,
           Turns!Generates, Turns!Shutdown, Turns!GenGoto, Turns!Post
<1>4. CASE Ignore
  <2>1. At("ignore", "ioWait")
    BY <1>0, <1>4 DEF Ignore, data, threadVars, endVars, inVars, lockVars
  <2>2. QED BY <1>4, <2>1 DEF At, Ignore, data, threadVars, endVars, inVars, lockVars,
           Turns!Input, Turns!Ignore, Turns!GenGoto
<1>5. CASE PromptWait
  <2>1. At("ioWait", "prompt")
    BY <1>0, <1>5 DEF PromptWait, endVars, inVars
  <2>2. QED BY <1>5, <2>1 DEF At, PromptWait, Wait, endVars, inVars,
           Turns!Generates, Turns!PromptWait, Turns!GenGoto, Turns!Wait
<1>6. CASE Prompt
  <2>1. At("prompt", "app")
    BY <1>0, <1>6 DEF Prompt, endVars, inVars
  <2>2. QED BY <1>6, <2>1 DEF At, Prompt, Post, endVars, inVars,
           Turns!Input, Turns!Prompt, Turns!GenGoto, Turns!Post
<1>7. QED BY <1>1, <1>2, <1>3, <1>4, <1>5, <1>6 DEF Talks

-----------------------------------------------------------------------------
(* Every step is of one of these kinds *)

\* A call, and a step of a method.
LEMMA MethodKind ==
  ASSUME Chatting, NEW t \in Callers, Method(t)
  PROVE  Dies \/ Pushes(t)
<1> USE DEF Goto, GoesTo, Pushes, Setup, PushPoints, Rest, lockVars, endVars, inVars
<1>0. /\ pc[t] \notin {"flagWait", "flag"}
      /\ pc[t] \in PushPoints => msg[t].type # "DISCONNECT"
  BY Names DEF Chatting, Places, NoEnd, MainLoop, GenLoop
<1>1. CASE Insert(t) \/ Erase(t)
  BY <1>1 DEF Insert, Erase
<1>2. CASE EraseEnd(t) \/ ConstructStray(t)
  BY <1>2 DEF EraseEnd, ConstructStray, Die, Dies
<1>3. CASE PushBack(t)
  <2>1. /\ pc[t] = "push" /\ UNCHANGED data
        /\ pc' = [pc EXCEPT ![t] = "link"] \/ pc' = [pc EXCEPT ![t] = "construct"]
    BY <1>3 DEF PushBack
  <2>2. QED BY <2>1 DEF data, threadVars
<1>4. CASE Construct(t) \/ Load(t) \/ Link(t) \/ SetNode(t)
  BY <1>4 DEF Construct, Load, Link, SetNode
<1>5. CASE Store(t) \/ SetCur(t)
  <2>1. pc[t] \in {"store", "setCur"} /\ pc' = [pc EXCEPT ![t] = "app"]
    BY <1>0, <1>5 DEF Store, SetCur, Pushed
  <2>2. QED BY <1>5, <2>1 DEF Store, SetCur
<1>6. CASE FlagWait(t) \/ Flag(t)
  BY <1>0, <1>6 DEF FlagWait, Flag
<1>7. QED BY <1>1, <1>2, <1>3, <1>4, <1>5, <1>6 DEF Method

\* No call is one of disconnect().
LEMMA CallKind ==
  ASSUME Subscribe \/ Publish
  PROVE  \E t \in Callers : Calls(t)
<1>1. PICK t \in Callers : \E m : Call(t, m) /\ m.type \in {"SUBSCRIBE", "MESSAGE"}
  BY Names DEF Subscribe, Publish, On
<1>2. PICK m : Call(t, m) /\ m.type \in {"SUBSCRIBE", "MESSAGE"}
  BY <1>1
<1>3. Entry(m) \in PushPoints
  BY <1>2 DEF Entry, PushPoints
<1>4. Calls(t)
  BY <1>2, <1>3 DEF Call, Calls, Goto, GoesTo, Hold, Rest, lockVars, inVars, endVars
<1>5. QED BY <1>4

\* What the senders have in common.
LEMMA ExchangeKind ==
  ASSUME Chatting, NEW t \in Senders, Exchange(t)
  PROVE  Dies \/ Works(t) \/ Enters(t)
<1> USE DEF Goto, GoesTo, Works, Enters, Working, Rest, lockVars, endVars, inVars
<1>0. /\ t \notin Callers /\ t \notin cancelled
      /\ msg' = msg \/ (\E m : msg' = [msg EXCEPT ![t] = m]) => HandsOff
  BY Names DEF Chatting, NoEnd, HandsOff
<1>1. CASE Connect(t) \/ PutWait(t)
  BY <1>0, <1>1 DEF Connect, PutWait, Hold
<1>2. CASE Put(t) \/ Get(t)
  BY <1>0, <1>2 DEF Put, Get, Hold
<1>3. CASE PutNull(t) \/ GetEof(t)
  BY <1>3 DEF PutNull, GetEof, Die, Dies
<1>4. CASE CheckWait(t)
  BY <1>4 DEF CheckWait, Wait
<1>5. QED BY <1>0, <1>1, <1>2, <1>3, <1>4 DEF Exchange, Cancelled

\* The publisher,
LEMMA PublisherKind ==
  ASSUME Chatting, PublisherNext
  PROVE  Dies \/ Works(Publisher) \/ Enters(Publisher) \/ Leaves(Publisher)
<1> USE DEF Goto, GoesTo, Works, Enters, Leaves, Working, Rest, lockVars, endVars, inVars
<1>0. /\ Publisher \in Senders /\ Publisher \notin Callers /\ ~ disconnectMsg /\ pc[Publisher] # "close"
      /\ msg' = msg \/ (\E m : msg' = [msg EXCEPT ![Publisher] = m]) => HandsOff
  BY Names DEF Chatting, Places, NoEnd, HandsOff
<1>1. CASE Exchange(Publisher)
  BY <1>0, <1>1, ExchangeKind
<1>2. CASE PubCheck
  <2>1. pc[Publisher] = "test" /\ pc' = [pc EXCEPT ![Publisher] = "poll"]
    BY <1>0, <1>2 DEF PubCheck, Shutdown
  <2>2. QED BY <1>0, <1>2, <2>1 DEF PubCheck, Shutdown, Post
<1>3. CASE Poll
  BY <1>0, <1>3 DEF Poll, data, threadVars
<1>4. CASE PopWait
  BY <1>4 DEF PopWait, Wait
<1>5. CASE Pop
  BY <1>0, <1>5 DEF Pop, Hold, Post
<1>6. CASE PopJunk
  BY <1>6 DEF PopJunk, Die, Dies
<1>7. QED BY <1>0, <1>1, <1>2, <1>3, <1>4, <1>5, <1>6 DEF PublisherNext, Close

\* the receiver,
LEMMA ReceiverKind ==
  ASSUME Chatting, ReceiverNext
  PROVE  Dies \/ Works(Receiver) \/ Enters(Receiver) \/ Leaves(Receiver) \/ Arrives
<1> USE DEF Goto, GoesTo, Working, Rest, lockVars, endVars, inVars
<1>0. /\ Receiver \in Senders /\ Receiver \notin Callers /\ ~ disconnectMsg
      /\ msg' = msg \/ (\E m : msg' = [msg EXCEPT ![Receiver] = m]) => HandsOff
  BY Names DEF Chatting, NoEnd, HandsOff
<1>1. CASE Exchange(Receiver)
  BY <1>0, <1>1, ExchangeKind
<1>2. CASE RcvCheck
  <2>1. pc[Receiver] = "test" /\ pc' = [pc EXCEPT ![Receiver] = "putWait"]
    BY <1>0, <1>2 DEF RcvCheck, Shutdown
  <2>2. QED BY <1>0, <1>2, <2>1 DEF RcvCheck, Shutdown, Post, Hold, Leaves
<1>3. CASE Read
  BY <1>0, <1>3 DEF Read, Hold, Works
<1>4. CASE ReadNoLength
  BY <1>4 DEF ReadNoLength, Die, Dies
<1>5. CASE Push
  BY <1>0, <1>5 DEF Push, Received, Hold, Arrives
<1>6. QED BY <1>1, <1>2, <1>3, <1>4, <1>5 DEF ReceiverNext

\* main, which nothing makes leave its loop,
LEMMA MainKind ==
  ASSUME Chatting, MainNext
  PROVE  Dies \/ Starts \/ Rounds
<1>1. pc[Main] \notin {"cancelPublisher", "cancelReceiver", "returned"}
  BY DEF Chatting, Places, Setup, PushPoints, MainLoop
<1>2. CASE StartReceiver
  BY <1>2 DEF StartReceiver, Start, Starts, Rest, data, threadVars, lockVars, endVars, inVars
<1>3. CASE FreedCallback
  BY <1>3 DEF FreedCallback, Die, Dies
<1>4. QED BY <1>1, <1>2, <1>3 DEF MainNext, Rounds, CancelPublisher, CancelReceiver, Cancel,
         Return, LateUse, Goto

\* and all of them.
LEMMA Sorted == ASSUME Chatting, [ChatNext]_chatVars PROVE Kinds
<1>1. CASE UNCHANGED chatVars \/ Ended
  BY <1>1 DEF chatVars, Ended, Kinds, Rest, vars, data, threadVars, lockVars, endVars, inVars
<1>2. CASE Inside
  <2>1. CASE \E t \in Callers : Method(t)
    BY <2>1, MethodKind DEF Kinds
  <2>2. CASE PublisherNext \/ ReceiverNext \/ MainNext
    BY <2>2, PublisherKind, ReceiverKind, MainKind, Names DEF Kinds
  <2>3. CASE MapRace \/ GrowthRace
    BY <2>3 DEF MapRace, GrowthRace, Die, Dies, Kinds
  <2>4. CASE ServerNext
    BY <2>4 DEF ServerNext, ServerHandle, ServerRetrieve, ServerMail, ServerClose, Kinds, Rest,
       lockVars, endVars, inVars
  <2>5. QED BY <1>2, <2>1, <2>2, <2>3, <2>4 DEF Inside
<1>3. CASE Subscribe \/ Publish
  BY <1>3, CallKind DEF Kinds
<1>4. CASE ChatRun
  BY <1>4 DEF ChatRun, Run, Start, Starts, Kinds, Rest, data, threadVars, lockVars, endVars, inVars
<1>5. CASE Generates \/ Input
  BY <1>3, <1>5 DEF Generates, Input, Talks, Kinds
<1>6. QED BY <1>1, <1>2, <1>3, <1>4, <1>5 DEF ChatNext

-----------------------------------------------------------------------------
(* The theorem *)

\* The chat starts where ChatTurns does.
LEMMA InitChatting == ChatInit => Chatting /\ Turns!Init
<1> SUFFICES ASSUME ChatInit PROVE Chatting /\ Turns!Init
  OBVIOUS
<1>1. Init
  BY DEF ChatInit
<1>2. /\ pc = [t \in Threads |-> IF t \in Senders THEN "off" ELSE "app"]
      /\ msg = [t \in Threads |-> None] /\ inbox = <<>> /\ status = "running"
      /\ outLock = 1 /\ ioLock = 1 /\ disconnectMsg = FALSE /\ cancelled = {}
  BY <1>1 DEF Init
<1>3. /\ pc[Main] = "app" /\ pc[Generator] = "app"
      /\ \A t \in Senders : pc[t] = "off"
      /\ \A t \in Threads : pc[t] \in {"app", "off"}
  BY <1>2, Names
<1>4. Places
  BY <1>2, <1>3, Names DEF Places, Setup
<1>5. NoEnd /\ Alone
  BY <1>2, <1>3, Names DEF NoEnd, Alone, OutSection, PushPoints
<1>6. Texts
  <2>1. inbox \in Seq({})
    BY <1>2
  <2>2. QED BY <2>1 DEF Texts
<1>7. Turns!Init
  BY <1>2, <1>3, Names DEF Turns!Init, GenAt, MainAt, Busy, GenLoop, MainLoop, OutSection
<1>8. QED BY <1>4, <1>5, <1>6, <1>7 DEF Chatting

\* A step of the chat is one of ChatTurns, or none of its steps.
LEMMA NextChatting ==
  Chatting /\ [ChatNext]_chatVars => Chatting' /\ [Turns!Next]_(Turns!vars)
<1> SUFFICES ASSUME Chatting, [ChatNext]_chatVars PROVE Chatting' /\ [Turns!Next]_(Turns!vars)
  OBVIOUS
<1>1. Kinds
  BY Sorted
<1>2. CASE UNCHANGED <<pc, msg, Rest>>
  BY <1>2 DEF Chatting, Places, NoEnd, Alone, Texts, Rest, Busy, Turns!vars
<1>3. CASE status # "running"
  <2>1. UNCHANGED <<pc, msg, Rest>>
    BY <1>3 DEF ChatNext, Ended, chatVars, vars, data, threadVars, lockVars, endVars, inVars, Rest
  <2>2. QED BY <1>2, <2>1
<1>4. CASE status = "running" /\ Dies
  <2>1. UNCHANGED <<pc, msg, outLock, ioLock, inbox, disconnectMsg, cancelled>> /\ status' # "running"
    BY <1>4 DEF Dies, threadVars, lockVars, endVars, inVars
  <2>2. Chatting' /\ Turns!End
    BY <2>1 DEF Chatting, Places, NoEnd, Alone, Texts, Busy, Turns!End
  <2>3. QED BY <1>4, <2>2 DEF Turns!Next
<1>5. CASE status = "running" /\ ~ Dies /\ ~ UNCHANGED <<pc, msg, Rest>>
  <2>1. Chatting' /\ (\/ UNCHANGED Turns!vars \/ Turns!Arrive \/ Turns!Take \/ Turns!Leave
                      \/ Turns!MainNext \/ Turns!Generates \/ Turns!Input)
    BY <1>1, <1>5, CallsKeep, WorksKeep, EntersKeep, LeavesKeep, StartsKeep, RoundsKeep,
       TalksKeep, Names DEF Kinds, Turns!MainNext
  <2>2. QED BY <1>5, <2>1 DEF Turns!Next
<1>6. QED BY <1>3, <1>4, <1>5, <1>2

\* The chat's threads take turns at io_lock and out_lock as ChatTurns says
\* (user_app.cpp:24-42, client.cpp:112, thread_functions.cpp:37-42 and 130-170),
\* for any number of calls and texts, and for every fault.
THEOREM TakeTurns == ChatSpec => ImplementsTurns
<1>1. ChatInit => Chatting /\ Turns!Init
  BY InitChatting
<1>2. Chatting /\ [ChatNext]_chatVars => Chatting' /\ [Turns!Next]_(Turns!vars)
  BY NextChatting
<1>3. QED BY <1>1, <1>2, PTL DEF ChatSpec, ImplementsTurns, Turns!Spec

=============================================================================
