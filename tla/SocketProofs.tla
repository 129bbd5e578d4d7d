---------------------------- MODULE SocketProofs ----------------------------
(***************************************************************************)
(* Proofs about Socket, for any number of threads, addresses and           *)
(* descriptors.                                                            *)
(***************************************************************************)
EXTENDS Socket, TLAPS

-----------------------------------------------------------------------------
(* The inductive invariant *)

Entry(o, a, c) == [who |-> o, addr |-> a, connected |-> c]

\* All addresses before position n refuse, or were not tried for want of a
\* descriptor.
Passed(n) == full \/ \A a \in up : n <= a

\* What thread o has in socket_fd, and in its Socket, at each point.
Progress(o) ==
  /\ pc[o] \in {"resolve", "failed"} => \A f \in Fd : table[f] = None \/ table[f].who # o
  /\ pc[o] = "resolve" => rp[o] = 1
  /\ pc[o] = "socket" => rp[o] \in Addr /\ Passed(rp[o])
  /\ pc[o] = "connect" =>
       /\ rp[o] \in Addr /\ Passed(rp[o])
       /\ fd[o] \in Fd /\ table[fd[o]] = Entry(o, rp[o], FALSE)
  /\ pc[o] \in {"finish", "returned"} =>
       \/ fd[o] = -1 /\ Passed(Tries + 1)
       \/ /\ fd[o] \in Fd /\ rp[o] - 1 \in up /\ Passed(rp[o] - 1)
          /\ table[fd[o]] = Entry(o, rp[o] - 1, TRUE)
  /\ pc[o] = "returned" => sfd[o] = fd[o]

\* A descriptor refers to a try of its thread: an earlier one, or that of the
\* connect() under way.
Tried ==
  \A f \in Fd : table[f] # None =>
    LET o == table[f].who IN
      \/ table[f].addr < rp[o]
      \/ pc[o] = "connect" /\ f = fd[o] /\ table[f].addr = rp[o]

\* No two descriptors refer to the same try.
Distinct ==
  \A f, g \in Fd : /\ f # g /\ table[f] # None /\ table[g] # None
                   /\ table[f].who = table[g].who
                   => table[f].addr # table[g].addr

IInv == TypeOK /\ (\A o \in Openers : Progress(o)) /\ Tried /\ Distinct

-----------------------------------------------------------------------------
(* The invariant holds initially and is preserved by every step *)

\* Nothing is open yet.
LEMMA InitIInv == Init => IInv
<1> USE SizeAssumption DEF Init, Addr, Fd
<1>1. Init => TypeOK
  <2> SUFFICES ASSUME Init PROVE TypeOK
    OBVIOUS
  <2>1. 1 \in 1..(Tries + 1)
    OBVIOUS
  <2>2. full \in BOOLEAN
    BY Zenon
  <2>3. QED BY <2>1, <2>2 DEF TypeOK, Over
<1>2. Init => \A o \in Openers : Progress(o)
  BY DEF Progress
<1>3. Init => Tried /\ Distinct
  BY DEF Tried, Distinct
<1>4. QED BY <1>1, <1>2, <1>3 DEF IInv

\* What a table entry is.
LEMMA Entries ==
  ASSUME NEW o \in Openers, NEW a \in Addr, NEW c \in BOOLEAN
  PROVE  /\ Entry(o, a, c) \in Try /\ Entry(o, a, c) # None
         /\ Entry(o, a, c).who = o /\ Entry(o, a, c).addr = a
BY FreeAssumption DEF Entry, Try

\* A thread that is alone in what it does leaves the others' progress alone.
LEMMA Others ==
  ASSUME NEW o \in Openers, NEW q \in Openers, q # o, TypeOK, Progress(q),
         UNCHANGED up, full => full',
         pc'[q] = pc[q] /\ rp'[q] = rp[q] /\ fd'[q] = fd[q] /\ sfd'[q] = sfd[q],
         \A f \in Fd : table[f] # None /\ table[f].who = q => table'[f] = table[f],
         \A f \in Fd : table'[f] # table[f] /\ table'[f] # None => table'[f].who # q
  PROVE  Progress(q)'
<1> USE FreeAssumption DEF TypeOK
<1>1. \A n : Passed(n) => Passed(n)'
  BY DEF Passed
<1>2. ASSUME NEW a \in Addr, NEW c \in BOOLEAN, NEW f \in Fd, table[f] = Entry(q, a, c)
      PROVE  table'[f] = Entry(q, a, c)
  BY <1>2, Entries
<1>3. \A f \in Fd : table[f] = None \/ table[f].who # q => table'[f] = None \/ table'[f].who # q
  OBVIOUS
<1>4. TRUE \in BOOLEAN /\ FALSE \in BOOLEAN /\ up \subseteq Addr
  OBVIOUS
<1> HIDE DEF TypeOK
<1>5. pc[q] = "connect" =>
        /\ rp[q] \in Addr /\ Passed(rp[q])'
        /\ fd[q] \in Fd /\ table'[fd[q]] = Entry(q, rp[q], FALSE)
  BY <1>1, <1>2, <1>4 DEF Progress
<1>6. pc[q] \in {"finish", "returned"} =>
        \/ fd[q] = -1 /\ Passed(Tries + 1)'
        \/ /\ fd[q] \in Fd /\ rp[q] - 1 \in up /\ Passed(rp[q] - 1)'
           /\ table'[fd[q]] = Entry(q, rp[q] - 1, TRUE)
  <2> DEFINE n == rp[q] - 1
  <2>1. /\ Passed(Tries + 1) => Passed(Tries + 1)'
        /\ Passed(n) => Passed(n)'
    BY <1>1 DEF Passed
  <2>2. n \in up /\ fd[q] \in Fd /\ table[fd[q]] = Entry(q, n, TRUE) => table'[fd[q]] = Entry(q, n, TRUE)
    BY <1>2, <1>4
  <2>3. QED BY <2>1, <2>2 DEF Progress
<1>7. pc[q] = "socket" => Passed(rp[q])'
  BY <1>1 DEF Progress
<1>8. QED BY <1>3, <1>5, <1>6, <1>7 DEF Progress

\* What a step of thread o does to the table.
LEMMA MakeTable ==
  ASSUME IInv, NEW o \in Openers, MakeSocket(o)
  PROVE  /\ fd'[o] \in Fd /\ table[fd'[o]] = None /\ rp[o] \in Addr
         /\ table' = [table EXCEPT ![fd'[o]] = Entry(o, rp[o], FALSE)]
BY DEF IInv, TypeOK, Progress, MakeSocket, Entry

\* connect() marks the thread's own entry.
LEMMA ConnectTable ==
  ASSUME IInv, NEW o \in Openers, Connect(o)
  PROVE  /\ fd[o] \in Fd /\ rp[o] \in Addr /\ table[fd[o]] = Entry(o, rp[o], FALSE)
         /\ table' = [table EXCEPT ![fd[o]] = Entry(o, rp[o], TRUE)]
BY DEF IInv, Progress, Connect, Entry

\* close() frees the thread's own entry, if it has one.
LEMMA DisconnectTable ==
  ASSUME IInv, NEW o \in Openers, Disconnect(o)
  PROVE  \/ table' = table
         \/ /\ sfd[o] \in Fd /\ rp[o] - 1 \in up /\ table[sfd[o]] = Entry(o, rp[o] - 1, TRUE)
            /\ table' = [table EXCEPT ![sfd[o]] = None]
<1>1. pc[o] = "returned" /\ sfd[o] = fd[o]
  BY DEF IInv, Progress, Disconnect
<1>2. CASE sfd[o] < 0
  BY <1>2 DEF Disconnect
<1>3. CASE ~ (sfd[o] < 0)
  <2>1. fd[o] # -1
    BY <1>1, <1>3
  <2>2. sfd[o] \in Fd /\ rp[o] - 1 \in up /\ table[sfd[o]] = Entry(o, rp[o] - 1, TRUE)
    BY <1>1, <2>1 DEF IInv, Progress
  <2>3. table' = [table EXCEPT ![sfd[o]] = None]
    BY <1>3 DEF Disconnect
  <2>4. QED BY <2>2, <2>3
<1>4. QED BY <1>2, <1>3

\* The other steps leave it alone.
LEMMA SameTable ==
  ASSUME NEW o \in Openers, Step(o)
  PROVE  table' = table \/ MakeSocket(o) \/ Connect(o) \/ Disconnect(o)
BY DEF Step, SockConnect, Unresolved, Resolve, NoSocket, Refused, Finish

\* Descriptors, positions and entries keep their types.
LEMMA TypeStep == IInv /\ [Next]_vars => TypeOK'
<1> SUFFICES ASSUME IInv, [Next]_vars PROVE TypeOK'
  OBVIOUS
<1>1. CASE UNCHANGED vars
  BY <1>1 DEF vars, IInv, TypeOK
<1>2. ASSUME NEW o \in Openers, Step(o) PROVE TypeOK'
  <2>1. table' \in [Fd -> Try \cup {None}]
    <3>1. /\ table \in [Fd -> Try \cup {None}]
          /\ rp[o] \in Addr => Entry(o, rp[o], FALSE) \in Try /\ Entry(o, rp[o], TRUE) \in Try
      BY Entries DEF IInv, TypeOK
    <3>2. CASE MakeSocket(o)
      BY ZenonT(30), <3>1, <3>2, MakeTable DEF MakeSocket
    <3>3. CASE Connect(o)
      <4>1. rp[o] \in Addr /\ table' = [table EXCEPT ![fd[o]] = Entry(o, rp[o], TRUE)]
        BY <3>3, ConnectTable DEF Connect, Turn
      <4>2. QED BY <3>1, <4>1
    <3>4. CASE Disconnect(o)
      BY <3>1, <3>4, DisconnectTable DEF Disconnect
    <3>5. QED BY <1>2, <3>1, <3>2, <3>3, <3>4, SameTable
  <2>2. /\ up' \in SUBSET Addr
        /\ pc' \in [Openers -> {"resolve", "socket", "connect", "finish", "returned"} \cup Over]
    BY <1>2 DEF IInv, TypeOK, Over, Step, SockConnect, Turn, Unresolved, Resolve, MakeSocket, NoSocket,
       Connect, Refused, Finish, Disconnect
  <2>3. full' \in BOOLEAN
    BY <1>2, Zenon DEF IInv, TypeOK, Step, SockConnect, Unresolved, Resolve, MakeSocket, NoSocket,
       Connect, Refused, Finish, Disconnect
  <2>4. fd' \in [Openers -> {-1} \cup Fd] /\ sfd' \in [Openers -> {-1} \cup Fd]
    BY <1>2 DEF IInv, TypeOK, Step, SockConnect, Turn, Unresolved, Resolve, MakeSocket, NoSocket,
       Connect, Refused, Finish, Disconnect
  <2>5. rp' \in [Openers -> 1..(Tries + 1)]
    <3>1. CASE UNCHANGED rp
      BY <3>1 DEF IInv, TypeOK
    <3>2. CASE rp' = [rp EXCEPT ![o] = @ + 1] /\ rp[o] \in Addr
      BY <3>2, SizeAssumption DEF IInv, TypeOK, Addr
    <3>3. QED BY <1>2, <3>1, <3>2 DEF IInv, Progress, Step, SockConnect, Turn, Unresolved, Resolve,
                MakeSocket, NoSocket, Connect, Refused, Finish, Disconnect
  <2>6. QED BY <2>1, <2>2, <2>3, <2>4, <2>5 DEF TypeOK
<1>3. QED BY <1>1, <1>2 DEF Next, Ended

\* Each thread goes on as Progress says; Others covers all but the one that moves.
LEMMA ProgressStep == IInv /\ [Next]_vars => \A q \in Openers : Progress(q)'
<1> SUFFICES ASSUME IInv, [Next]_vars, NEW q \in Openers PROVE Progress(q)'
  OBVIOUS
<1>1. CASE UNCHANGED vars
  BY <1>1 DEF vars, IInv, Progress, Passed
<1>2. ASSUME NEW o \in Openers, Step(o) PROVE Progress(q)'
  <2>1. CASE q # o
    <3>1. /\ UNCHANGED up /\ (full => full')
          /\ pc'[q] = pc[q] /\ rp'[q] = rp[q] /\ fd'[q] = fd[q] /\ sfd'[q] = sfd[q]
      BY <1>2, <2>1 DEF IInv, TypeOK, Step, SockConnect, Turn, Unresolved, Resolve, MakeSocket, NoSocket,
         Connect, Refused, Finish, Disconnect
    <3>2. /\ \A f \in Fd : table[f] # None /\ table[f].who = q => table'[f] = table[f]
          /\ \A f \in Fd : table'[f] # table[f] /\ table'[f] # None => table'[f].who # q
      <4>1. DOMAIN table = Fd /\ up \subseteq Addr
        BY DEF IInv, TypeOK
      <4>2. \A a \in Addr : Entry(o, a, TRUE).who = o /\ Entry(o, a, FALSE).who = o
        BY Entries
      <4>3. CASE table' = table
        BY <4>3
      <4>4. CASE MakeSocket(o)
        BY <2>1, <4>1, <4>2, <4>4, MakeTable DEF MakeSocket
      <4>5. CASE Connect(o)
        <5>1. /\ fd[o] \in Fd /\ rp[o] \in Addr /\ table[fd[o]] = Entry(o, rp[o], FALSE)
              /\ table' = [table EXCEPT ![fd[o]] = Entry(o, rp[o], TRUE)]
          BY <4>5, ConnectTable DEF Connect, Turn
        <5>2. \A f \in Fd : IF f = fd[o] THEN table[f].who = o /\ table'[f].who = o
                                       ELSE table'[f] = table[f]
          BY <4>1, <4>2, <5>1
        <5>3. QED BY <2>1, <5>2
      <4>6. CASE Disconnect(o)
        <5>1. \/ table' = table
              \/ /\ sfd[o] \in Fd /\ rp[o] - 1 \in Addr /\ table[sfd[o]] = Entry(o, rp[o] - 1, TRUE)
                 /\ table' = [table EXCEPT ![sfd[o]] = None]
          BY <4>1, <4>6, DisconnectTable DEF Disconnect
        <5>2. CASE table' # table
          <6>1. \A f \in Fd : IF f = sfd[o] THEN table[f].who = o /\ table'[f] = None
                                         ELSE table'[f] = table[f]
            BY <4>1, <4>2, <5>1, <5>2
          <6>2. QED BY <2>1, <6>1
        <5>3. QED BY <4>3, <5>2
      <4>7. QED BY <1>2, <4>3, <4>4, <4>5, <4>6, SameTable
    <3>3. QED BY <2>1, <3>1, <3>2, Others DEF IInv
  <2>2. CASE q = o
    <3> USE SizeAssumption DEF Turn
    <3>t. /\ pc[o] \in {"resolve", "socket", "connect", "finish", "returned"} \cup Over
          /\ rp[o] \in Int /\ Tries \in Int /\ Progress(o) /\ up \subseteq Addr
          /\ DOMAIN pc = Openers /\ DOMAIN rp = Openers /\ DOMAIN fd = Openers
          /\ DOMAIN sfd = Openers /\ DOMAIN table = Fd
      BY DEF IInv, TypeOK
    <3>1. CASE Unresolved(o)
      BY <2>2, <3>1, <3>t DEF Unresolved, Progress
    <3>r. CASE Resolve(o)
      <4>1. rp[o] = 1 /\ rp' = rp /\ pc'[o] = "socket" /\ up' = up
        BY <3>r, <3>t DEF Resolve, Progress
      <4>2. \A a \in up : 1 <= a
        BY <3>t DEF Addr
      <4>3. QED BY <2>2, <4>1, <4>2 DEF Progress, Passed, Addr
    <3>2. CASE MakeSocket(o)
      <4>1. /\ UNCHANGED <<rp, up, full>> /\ pc'[o] = "connect"
            /\ rp[o] \in Addr /\ Passed(rp[o])
        BY <3>2, <3>t DEF MakeSocket, Progress
      <4>2. QED BY <2>2, <3>2, <3>t, <4>1, MakeTable DEF Progress, Passed
    <3>3. CASE NoSocket(o)
      BY <2>2, <3>3, <3>t DEF NoSocket, Progress, Passed, Addr
    <3>4. CASE Connect(o)
      <4>1. /\ rp[o] \in Addr /\ rp[o] \in up /\ fd[o] \in Fd /\ Passed(rp[o])
            /\ table'[fd[o]] = Entry(o, rp[o], TRUE)
        BY <3>4, <3>t, ConnectTable DEF Connect, Progress
      <4>2. /\ rp'[o] = rp[o] + 1 /\ fd'[o] = fd[o] /\ pc'[o] = "finish"
            /\ up' = up /\ full' = full
        BY <3>4, <3>t, <4>1 DEF Connect, Fd
      <4>3. rp'[o] - 1 = rp[o]
        BY <3>t, <4>2
      <4>4. QED BY <2>2, <4>1, <4>2, <4>3 DEF Progress, Passed
    <3>5. CASE Refused(o)
      <4>1. /\ rp[o] \in Addr /\ rp[o] \notin up /\ Passed(rp[o]) /\ up' = up /\ full' = full
            /\ rp'[o] = rp[o] + 1 /\ fd'[o] = -1
            /\ pc'[o] = IF rp[o] < Tries THEN "socket" ELSE "finish"
        <5>1. pc[o] = "connect" /\ rp[o] \notin up /\ up' = up /\ full' = full
          BY <3>5 DEF Refused
        <5>2. rp'[o] = rp[o] + 1 /\ fd'[o] = -1
          BY <3>5, <3>t DEF Refused
        <5>3. pc'[o] = IF rp[o] < Tries THEN "socket" ELSE "finish"
          BY <3>5, <3>t DEF Refused
        <5>4. rp[o] \in Addr /\ Passed(rp[o])
          BY <3>t, <5>1 DEF Progress
        <5>5. QED BY <5>1, <5>2, <5>3, <5>4
      <4>2. full \/ \A a \in up : rp[o] + 1 <= a
        <5>1. rp[o] \in Int /\ rp[o] \notin up /\ \A a \in up : a \in Int
          BY <3>t, <4>1 DEF Addr
        <5>2. full \/ \A a \in up : rp[o] <= a
          BY <4>1 DEF Passed
        <5>3. QED BY <5>1, <5>2
      <4>3. CASE rp[o] < Tries
        <5>1. rp'[o] \in Addr /\ pc'[o] = "socket"
          BY <3>t, <4>1, <4>3 DEF Addr
        <5>2. QED BY <2>2, <4>1, <4>2, <5>1 DEF Progress, Passed
      <4>4. CASE ~ (rp[o] < Tries)
        <5>1. rp[o] = Tries
          BY <3>t, <4>1, <4>4 DEF Addr
        <5>2. pc'[o] = "finish" /\ fd'[o] = -1 /\ (full' \/ \A a \in up' : Tries + 1 <= a)
          BY <4>1, <4>2, <5>1
        <5>3. QED BY <2>2, <5>2 DEF Progress, Passed
      <4>5. QED BY <4>3, <4>4
    <3>6. CASE Finish(o)
      BY <2>2, <3>6, <3>t DEF Finish, Progress, Passed
    <3>7. CASE Disconnect(o)
      BY <2>2, <3>7, <3>t DEF Disconnect, Progress
    <3>8. QED BY <1>2, <3>1, <3>r, <3>2, <3>3, <3>4, <3>5, <3>6, <3>7 DEF Step, SockConnect
  <2>3. QED BY <2>1, <2>2
<1>3. QED BY <1>1, <1>2 DEF Next, Ended

\* A step makes at most one new entry, for the try of its thread; an old one
\* is closed or goes on referring to the same try.
LEMMA TableStep ==
  ASSUME IInv, NEW o \in Openers, Step(o), NEW f \in Fd, table'[f] # None
  PROVE  \/ /\ table[f] # None
            /\ table'[f].who = table[f].who /\ table'[f].addr = table[f].addr
         \/ /\ MakeSocket(o) /\ f = fd'[o]
            /\ table'[f].who = o /\ table'[f].addr = rp[o]
<1>1. DOMAIN table = Fd /\ TRUE \in BOOLEAN /\ FALSE \in BOOLEAN
  BY DEF IInv, TypeOK
<1>2. CASE table' = table
  BY <1>2
<1>3. CASE MakeSocket(o)
  <2>1. /\ rp[o] \in Addr /\ fd'[o] \in Fd
        /\ table' = [table EXCEPT ![fd'[o]] = Entry(o, rp[o], FALSE)]
    BY <1>3, MakeTable
  <2>2. Entry(o, rp[o], FALSE).who = o /\ Entry(o, rp[o], FALSE).addr = rp[o]
    BY <1>1, <2>1, Entries
  <2>3. QED BY <1>1, <1>3, <2>1, <2>2
<1>4. CASE Connect(o)
  <2>1. /\ fd[o] \in Fd /\ rp[o] \in Addr /\ table[fd[o]] = Entry(o, rp[o], FALSE)
        /\ table' = [table EXCEPT ![fd[o]] = Entry(o, rp[o], TRUE)]
    BY <1>4, ConnectTable
  <2>2. \A c \in BOOLEAN : /\ Entry(o, rp[o], c).who = o /\ Entry(o, rp[o], c).addr = rp[o]
                           /\ Entry(o, rp[o], c) # None
    BY <2>1, Entries
  <2>3. QED BY <1>1, <2>1, <2>2
<1>5. CASE Disconnect(o)
  BY <1>1, <1>2, <1>5, DisconnectTable
<1>6. QED BY <1>2, <1>3, <1>4, <1>5, SameTable

\* Positions only grow, and a thread leaves connect() with the next one.
LEMMA PositionStep ==
  ASSUME IInv, NEW o \in Openers, Step(o), NEW q \in Openers
  PROVE  /\ rp[q] \in Int /\ rp'[q] \in Int /\ rp[q] <= rp'[q]
         /\ pc[q] = "connect" => \/ rp[q] < rp'[q]
                                 \/ pc'[q] = "connect" /\ fd'[q] = fd[q] /\ rp'[q] = rp[q]
<1>1. rp[q] \in Int /\ DOMAIN rp = Openers /\ DOMAIN pc = Openers /\ DOMAIN fd = Openers
  BY SizeAssumption DEF IInv, TypeOK
<1>2. CASE q = o
  BY <1>1, <1>2 DEF Step, SockConnect, Turn, Unresolved, Resolve, MakeSocket, NoSocket, Connect,
     Refused, Finish, Disconnect
<1>3. CASE q # o
  BY <1>1, <1>3 DEF Step, SockConnect, Turn, Unresolved, Resolve, MakeSocket, NoSocket, Connect,
     Refused, Finish, Disconnect
<1>4. QED BY <1>2, <1>3

\* A try adds one descriptor, and the next try has another address.
LEMMA TriesStep == IInv /\ [Next]_vars => Tried' /\ Distinct'
<1> SUFFICES ASSUME IInv, [Next]_vars PROVE Tried' /\ Distinct'
  OBVIOUS
<1>1. CASE UNCHANGED vars
  BY <1>1 DEF vars, IInv, Tried, Distinct
<1>2. ASSUME NEW o \in Openers, Step(o) PROVE Tried' /\ Distinct'
  <2>1. \A f \in Fd : table[f] # None => table[f].who \in Openers /\ table[f].addr \in Int
    BY SizeAssumption DEF IInv, TypeOK, Try, Addr
  <2>2. Tried /\ Distinct
    BY DEF IInv
  <2>3. MakeSocket(o) => /\ pc[o] = "socket" /\ pc'[o] = "connect"
                         /\ rp' = rp /\ rp[o] \in Int
    BY SizeAssumption DEF MakeSocket, IInv, TypeOK
  <2>4. Tried'
    <3> SUFFICES ASSUME NEW f \in Fd, table'[f] # None
                 PROVE  \/ table'[f].addr < rp'[table'[f].who]
                        \/ /\ pc'[table'[f].who] = "connect" /\ f = fd'[table'[f].who]
                           /\ table'[f].addr = rp'[table'[f].who]
      BY DEF Tried
    <3>1. CASE MakeSocket(o) /\ f = fd'[o] /\ table'[f].who = o /\ table'[f].addr = rp[o]
      BY <2>3, <3>1
    <3>2. CASE /\ table[f] # None
               /\ table'[f].who = table[f].who /\ table'[f].addr = table[f].addr
      <4> DEFINE q == table[f].who
                 a == table[f].addr
      <4>1. q \in Openers /\ a \in Int
        BY <2>1, <3>2
      <4>2. a < rp[q] \/ (pc[q] = "connect" /\ f = fd[q] /\ a = rp[q])
        BY <2>2, <3>2 DEF Tried
      <4>3. /\ rp[q] \in Int /\ rp'[q] \in Int /\ rp[q] <= rp'[q]
            /\ pc[q] = "connect" => \/ rp[q] < rp'[q]
                                    \/ pc'[q] = "connect" /\ fd'[q] = fd[q] /\ rp'[q] = rp[q]
        BY <1>2, <4>1, PositionStep
      <4>4. a < rp'[q] \/ (pc'[q] = "connect" /\ f = fd'[q] /\ a = rp'[q])
        <5> HIDE DEF q, a
        <5> QED BY <4>1, <4>2, <4>3
      <4>5. QED BY <3>2, <4>4
    <3>3. QED BY <1>2, <3>1, <3>2, TableStep
  <2>5. Distinct'
    <3> SUFFICES ASSUME NEW f \in Fd, NEW g \in Fd, f # g, table'[f] # None, table'[g] # None,
                        table'[f].who = table'[g].who, table'[f].addr = table'[g].addr
                 PROVE  FALSE
      BY DEF Distinct
    <3> DEFINE Old(x) == /\ table[x] # None
                         /\ table'[x].who = table[x].who /\ table'[x].addr = table[x].addr
               New(x) == /\ MakeSocket(o) /\ x = fd'[o]
                         /\ table'[x].who = o /\ table'[x].addr = rp[o]
    <3>1. (Old(f) \/ New(f)) /\ (Old(g) \/ New(g))
      BY <1>2, TableStep
    <3>2. \A x \in Fd : MakeSocket(o) /\ Old(x) /\ table'[x].who = o => table'[x].addr # rp[o]
      <4> SUFFICES ASSUME NEW x \in Fd, MakeSocket(o), Old(x), table[x].who = o
                   PROVE  table[x].addr # rp[o]
        OBVIOUS
      <4>1. table[x].addr < rp[o] /\ table[x].addr \in Int /\ rp[o] \in Int
        BY <2>1, <2>2, <2>3 DEF Tried
      <4>2. QED BY <4>1
    <3>3. ~ (Old(f) /\ Old(g))
      BY <2>2 DEF Distinct
    <3> HIDE DEF Old
    <3>4. QED BY <3>1, <3>2, <3>3
  <2>6. QED BY <2>4, <2>5
<1>3. QED BY <1>1, <1>2 DEF Next, Ended

\* The invariant holds in every reachable state.
THEOREM Invariance == Spec => []IInv
<1>1. IInv /\ [Next]_vars => IInv'
  BY TypeStep, ProgressStep, TriesStep DEF IInv
<1>2. QED BY <1>1, InitIInv, PTL DEF Spec

\* sock_connect returns -1 or a connected descriptor of the thread's own.
THEOREM OwnConnection == Spec => []ConnectedOrNone
<1>1. IInv => ConnectedOrNone
  <2> SUFFICES ASSUME IInv, NEW o \in Openers, pc[o] = "returned", sfd[o] >= 0
               PROVE  \E a \in up : table[sfd[o]] = [who |-> o, addr |-> a, connected |-> TRUE]
    BY DEF ConnectedOrNone
  <2>1. sfd[o] = fd[o] /\ fd[o] # -1
    <3>1. sfd[o] = fd[o]
      BY DEF IInv, Progress
    <3>2. ~ (-1 >= 0)
      OBVIOUS
    <3>3. QED BY <3>1, <3>2
  <2>2. rp[o] - 1 \in up /\ table[sfd[o]] = Entry(o, rp[o] - 1, TRUE)
    BY <2>1 DEF IInv, Progress
  <2>3. QED BY <2>2 DEF Entry
<1>2. QED BY <1>1, Invariance, PTL

\* The locals of sock_connect and the descriptor table keep their types; above
\* all rp stays within the list and its end.
THEOREM TypeCorrect == Spec => []TypeOK
<1>1. IInv => TypeOK
  BY DEF IInv
<1>2. QED BY <1>1, Invariance, PTL

\* Unless descriptors run out, it is the first address that accepts.
THEOREM FirstAddress == Spec => []FirstThatAccepts
<1>1. IInv => FirstThatAccepts
  <2> SUFFICES ASSUME IInv, NEW o \in Openers, pc[o] = "returned", ~ full
               PROVE  \/ sfd[o] < 0 /\ up = {}
                      \/ sfd[o] >= 0 /\ \A a \in up : table[sfd[o]].addr <= a
    BY DEF FirstThatAccepts
  <2>t. sfd[o] = fd[o] /\ up \subseteq Addr /\ Addr \subseteq Int /\ Fd \subseteq Nat
    <3>1. sfd[o] = fd[o] /\ up \subseteq Addr
      BY DEF IInv, TypeOK, Progress
    <3>2. Addr \subseteq Int /\ Fd \subseteq Nat
      BY SizeAssumption DEF Addr, Fd
    <3>3. QED BY <3>1, <3>2
  <2>1. CASE fd[o] = -1 /\ Passed(Tries + 1)
    <3>1. sfd[o] < 0
      BY <2>1, <2>t
    <3>2. \A a \in up : a <= Tries /\ Tries + 1 <= a /\ a \in Int
      BY <2>1, <2>t DEF Passed, Addr
    <3>3. up = {}
      BY <3>2, SizeAssumption
    <3>4. QED BY <3>1, <3>3
  <2>2. CASE /\ fd[o] \in Fd /\ rp[o] - 1 \in up /\ Passed(rp[o] - 1)
             /\ table[fd[o]] = Entry(o, rp[o] - 1, TRUE)
    <3>1. sfd[o] \in Nat /\ table[sfd[o]] = Entry(o, rp[o] - 1, TRUE)
      BY <2>2, <2>t
    <3>3. table[sfd[o]].addr = rp[o] - 1 /\ sfd[o] >= 0
      BY <3>1 DEF Entry
    <3>4. \A a \in up : rp[o] - 1 <= a
      BY <2>2 DEF Passed
    <3>5. QED BY <3>3, <3>4
  <2>3. QED BY <2>1, <2>2 DEF IInv, Progress
<1>2. QED BY <1>1, Invariance, PTL

\* Refused connections cost at most a descriptor for each address.
THEOREM BoundedLeak == Spec => []OneDescriptorPerTry
<1>1. IInv => OneDescriptorPerTry
  <2> SUFFICES ASSUME IInv PROVE OneDescriptorPerTry
    OBVIOUS
  <2>1. \A f \in Fd : table[f] # None =>
          table[f].addr \in Int /\ table[f].who \in Openers /\ rp[table[f].who] \in Int
    BY SizeAssumption DEF IInv, TypeOK, Try, Addr
  <2>2. \A f \in Fd : table[f] # None => table[f].addr <= rp[table[f].who]
    BY <2>1 DEF IInv, Tried
  <2>3. \A f, g \in Fd : table[f] # None /\ table[f] = table[g] => f = g
    BY DEF IInv, Distinct
  <2>4. QED BY <2>2, <2>3 DEF OneDescriptorPerTry
<1>2. QED BY <1>1, Invariance, PTL

=============================================================================
