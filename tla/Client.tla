------------------------------- MODULE Client -------------------------------
(***************************************************************************)
(* The publish/subscribe client library: the Client object and the threads *)
(* that share it.  Application threads (Callers) call publish, subscribe,  *)
(* unsubscribe and disconnect; "main" calls run(), which starts the        *)
(* "publisher" and "receiver" threads and then dispatches the inbox until  *)
(* disconnect() has set disconnect_msg.                                    *)
(*                                                                         *)
(* pc[t] is the point in the source that thread t has reached.  A step of  *)
(* a thread is the code between two accesses to shared memory, semaphores  *)
(* or sockets.  std::deque::push_back is called without a lock, so it      *)
(* takes the steps it compiles to.  Within a block it constructs the       *)
(* element in the slot at finish, loads finish and stores the incremented  *)
(* value; at a block's last slot it links a new block, constructs, and     *)
(* moves finish there, first its node and then its cursor.  Pushing to and *)
(* popping from the inbox is one step each: it has one producer and one    *)
(* consumer, which touch opposite ends.                                    *)
(***************************************************************************)
EXTENDS Naturals, Sequences, FiniteSets

CONSTANTS
  Callers,        \* application threads that call the Client's methods
  Topics, Bodies, \* what publish() and subscribe() are given
  Oddities,       \* kinds of reply other than MESSAGE the server may give
  Faults,         \* subset of {"refuse", "close"}: what a connection may do
  BlockLength,    \* Messages to a block of outMessages: 3 of 152 bytes in 512
  OutGrowth, InGrowth, \* pushes at which a deque moves its map of blocks
  MaxOut,         \* bound: calls that push to outMessages
  MaxMail,        \* bound: messages the rest of the world sends this client
  None, Junk      \* no value; what an unconstructed deque slot holds

Publisher == "publisher"
Receiver  == "receiver"
Main      == "main"
Senders   == {Publisher, Receiver}            \* one connection each
Threads   == Callers \cup Senders \cup {Main}

ASSUME CallersAssumption == Callers \cap Senders = {}
ASSUME BoundsAssumption  == MaxOut \in Nat /\ MaxMail \in Nat
ASSUME BlockAssumption   == BlockLength \in Nat \ {0}
ASSUME OddityAssumption  == Oddities \subseteq {"OTHER", "NOLENGTH"}
ASSUME GrowthAssumption  == OutGrowth \cup InGrowth \subseteq Nat
ASSUME FaultsAssumption  == Faults \subseteq {"refuse", "close"}

VARIABLES
  pc,             \* thread -> point in the code
  msg,            \* thread -> the Message it is handling
  cell, start, finish, \* outMessages: slots and the two cursors of the deque
  node, blocks,   \* the block that finish belongs to; those linked so far
  tmp,            \* caller -> finish as loaded by its push_back
  inbox, topicCallbacks, disconnectMsg,
  it,             \* main's iterator into topicCallbacks
  outLock, sockLock, ioLock,
  cancelled,      \* threads that pthread_cancel has been called on
  status,         \* of the process
  conn,           \* connection of each sender
  subs, mail,     \* server: topics of this client, all messages for it
  nread,          \* how many of mail the receiver has read
  called, log, ndisp, shown, cut  \* history, read by properties only

nodeVars   == <<node, blocks>>
pushVars   == <<cell, finish, tmp, nodeVars>>
lockVars   == <<outLock, sockLock, ioLock>>
mapVars    == <<topicCallbacks, it>>
serverVars == <<conn, subs, mail, log>>
inVars     == <<inbox, ndisp, nread, shown>>
endVars    == <<disconnectMsg, cut, cancelled>>
threadVars == <<msg, start, called, pushVars, lockVars, mapVars, serverVars, inVars, endVars>>
data       == <<threadVars, status>>          \* all but pc
vars       == <<pc, data>>

-----------------------------------------------------------------------------
(* Messages and semaphores *)

Bare(ty) == [type |-> ty, topic |-> None, body |-> None]
Identify == Bare("IDENTIFY")
Retrieve == Bare("RETRIEVE")
ApiCall  == [type : {"MESSAGE"}, topic : Topics, body : Bodies]
              \cup [type : {"SUBSCRIBE", "UNSUBSCRIBE"}, topic : Topics, body : {None}]
              \cup {Bare("DISCONNECT")}
MailItem == [type : {"MESSAGE"}, topic : Topics, body : Bodies]
              \cup {Bare(ty) : ty \in Oddities}
Message  == ApiCall \cup MailItem \cup {Identify, Retrieve}

ASSUME NoValueAssumption == None # Junk /\ {None, Junk} \cap (Message \cup Topics) = {}

(* Slots and blocks of outMessages: block b ends with slot Last(b).  A      *)
(* cursor that has run past the end of its block, or was taken from a block *)
(* not linked yet, is Astray.                                               *)

Last(b)  == b * BlockLength
First(b) == Last(b - 1) + 1
Slots    == 1..Last(MaxOut)
Astray   == 0

Goto(t, from, to) == pc[t] = from /\ pc' = [pc EXCEPT ![t] = to]
Die(how)  == status' = how /\ UNCHANGED <<pc, threadVars>>
Wait(sem) == sem > 0 /\ sem' = sem - 1
Post(sem) == sem' = sem + 1
Hold(t, m) == msg' = [msg EXCEPT ![t] = m]

Init ==
  /\ pc = [t \in Threads |-> IF t \in Senders THEN "off" ELSE "app"]
  /\ msg = [t \in Threads |-> None]
  /\ cell = [i \in Slots |-> Junk] /\ start = 1 /\ finish = 1
  /\ node = 1 /\ blocks = {1}
  /\ tmp = [t \in Callers |-> 0]
  /\ inbox = <<>> /\ topicCallbacks = {} /\ it = None
  /\ disconnectMsg = FALSE /\ cancelled = {} /\ status = "running"
  /\ outLock = 1 /\ sockLock = 1 /\ ioLock = 1
  /\ conn = [t \in Senders |-> "none"]
  /\ subs = {} /\ mail = <<>> /\ nread = 0
  /\ called = <<>> /\ log = <<>> /\ ndisp = 0 /\ shown = <<>>
  /\ cut = [out |-> 0, in |-> 0, log |-> 0]

-----------------------------------------------------------------------------
(* The Client's methods, called by an application thread t *)

Entry(m) == CASE m.type = "SUBSCRIBE"   -> "insert"
              [] m.type = "UNSUBSCRIBE" -> "erase"
              [] OTHER                  -> "push"

Call(t, m) ==
  /\ Len(called) < MaxOut
  /\ Goto(t, "app", Entry(m))
  /\ Hold(t, m)
  /\ called' = Append(called, m)
  /\ UNCHANGED <<start, pushVars, lockVars, mapVars, serverVars, inVars, endVars, status>>

InsertOnly(t) ==                                \* mutant: no push_back
  /\ Goto(t, "insert", "app")
  /\ topicCallbacks' = topicCallbacks \cup {msg[t].topic}
  /\ UNCHANGED <<msg, start, called, pushVars, lockVars, it, serverVars, inVars, endVars, status>>

Insert(t) ==
  /\ Goto(t, "insert", "push")
  /\ topicCallbacks' = topicCallbacks \cup {msg[t].topic}
  /\ UNCHANGED <<msg, start, called, pushVars, lockVars, it, serverVars, inVars, endVars, status>>

\* mutant: the topic stays
EraseNothing(t) == Goto(t, "erase", "push") /\ UNCHANGED data

\* erase(find(topic)): frees the node, under main's iterator if it is there;
\* find() of an absent topic gives end(), and erase(end()) aborts.
Erase(t) ==
  /\ Goto(t, "erase", "push")
  /\ msg[t].topic \in topicCallbacks
  /\ topicCallbacks' = topicCallbacks \ {msg[t].topic}
  /\ it' = IF it = msg[t].topic THEN Junk ELSE it
  /\ UNCHANGED <<msg, start, called, pushVars, lockVars, serverVars, inVars, endVars, status>>

EraseEnd(t) ==
  /\ pc[t] = "erase" /\ msg[t].topic \notin topicCallbacks
  /\ Die("crashed")

\* push_back first compares finish with the last slot of its block.
PushBack(t) ==
  /\ Goto(t, "push", IF node \in blocks /\ finish = Last(node) THEN "link" ELSE "construct")
  /\ UNCHANGED data

\* finish is in no live block: it has gone astray, or pop_front has freed the
\* block since.
Stray == finish = Astray \/ \E b \in blocks : finish <= Last(b) /\ Last(b) < start

\* A slot that another push_back is filling may end up a mixture; a write
\* through a stray cursor lands in any slot, or in memory of no interest.
Written(t) ==
  LET torn == \E u \in Callers \ {t} : pc[u] \in {"load", "store", "setNode", "setCur"}
  IN  IF Stray
      THEN {cell} \cup {[cell EXCEPT ![i] = m] : i \in start..Last(MaxOut), m \in {msg[t], Junk}}
      ELSE {[cell EXCEPT ![finish] = m] : m \in {msg[t]} \cup (IF torn THEN {Junk} ELSE {})}

Construct(t) ==
  /\ Goto(t, "construct", "load") \/ Goto(t, "constructLast", "setNode")
  /\ cell' \in Written(t)
  /\ UNCHANGED <<msg, start, finish, tmp, nodeVars, called, lockVars, mapVars, serverVars, inVars, endVars, status>>

ConstructStray(t) ==
  /\ pc[t] \in {"construct", "constructLast"} /\ Stray
  /\ Die("crashed")

Load(t) ==
  /\ Goto(t, "load", "store")
  /\ tmp' = [tmp EXCEPT ![t] = finish]
  /\ UNCHANGED <<msg, start, cell, finish, nodeVars, called, lockVars, mapVars, serverVars, inVars, endVars, status>>

Pushed(t, from) == Goto(t, from, IF msg[t].type = "DISCONNECT" THEN "flagWait" ELSE "app")

Store(t) ==
  /\ Pushed(t, "store")
  /\ finish' = IF tmp[t] \in {Astray} \cup {Last(b) : b \in blocks} THEN Astray ELSE tmp[t] + 1
  /\ tmp' = [tmp EXCEPT ![t] = 0]
  /\ UNCHANGED <<msg, start, cell, nodeVars, called, lockVars, mapVars, serverVars, inVars, endVars, status>>

\* _M_push_back_aux: a new block, linked after the one of finish ...
Link(t) ==
  /\ Goto(t, "link", "constructLast")
  /\ blocks' = blocks \cup {node + 1}
  /\ UNCHANGED <<msg, start, cell, finish, node, tmp, called, lockVars, mapVars, serverVars, inVars, endVars, status>>

\* ... to which finish moves, its node before its cursor.
SetNode(t) ==
  /\ Goto(t, "setNode", "setCur")
  /\ node' = node + 1
  /\ UNCHANGED <<msg, start, cell, finish, blocks, tmp, called, lockVars, mapVars, serverVars, inVars, endVars, status>>

SetCur(t) ==
  /\ Pushed(t, "setCur")
  /\ finish' = IF node \in blocks THEN First(node) ELSE Astray
  /\ UNCHANGED <<msg, start, cell, nodeVars, tmp, called, lockVars, mapVars, serverVars, inVars, endVars, status>>

\* mutant: sem_wait left out
FlagUnlocked(t) == Goto(t, "flagWait", "flag") /\ UNCHANGED data

FlagWait(t) ==
  /\ Goto(t, "flagWait", "flag")
  /\ Wait(outLock)
  /\ UNCHANGED <<msg, start, pushVars, called, sockLock, ioLock, mapVars, serverVars, inVars, endVars, status>>

FlagKept(t) ==                                  \* mutant: sem_post left out
  /\ Goto(t, "flag", "app")
  /\ disconnectMsg' = TRUE
  /\ cut' = IF disconnectMsg THEN cut ELSE [out |-> start, in |-> ndisp, log |-> Len(log)]
  /\ UNCHANGED <<msg, start, pushVars, called, lockVars, mapVars, serverVars, inVars, cancelled, status>>

Flag(t) ==
  /\ Goto(t, "flag", "app")
  /\ disconnectMsg' = TRUE
  /\ cut' = IF disconnectMsg THEN cut ELSE [out |-> start, in |-> ndisp, log |-> Len(log)]
  /\ Post(outLock)
  /\ UNCHANGED <<msg, start, pushVars, called, sockLock, ioLock, mapVars, serverVars, inVars, cancelled, status>>

Method(t) == Insert(t) \/ Erase(t) \/ EraseEnd(t) \/ PushBack(t) \/ Construct(t)
               \/ ConstructStray(t) \/ Load(t) \/ Store(t) \/ Link(t) \/ SetNode(t)
               \/ SetCur(t) \/ FlagWait(t) \/ Flag(t)

-----------------------------------------------------------------------------
(* What the sending threads and main share: the shutdown() test, the       *)
(* request/reply exchange on a connection, and cancellation                *)

NeverShut(t, down, up) ==                       \* mutant: a loop without the test
  Goto(t, "test", up) /\ Post(outLock)

Shutdown(t, down, up) ==
  /\ Goto(t, "test", IF disconnectMsg THEN down ELSE up)
  /\ Post(outLock)

CheckWait(t) ==
  /\ Goto(t, "check", "test")
  /\ Wait(outLock)
  /\ UNCHANGED <<msg, start, pushVars, called, sockLock, ioLock, mapVars, serverVars, inVars, endVars, status>>

\* sock_connect gives a connected socket or -1, whose fdopen is NULL.
SockConnect == {"idle"} \cup (IF "refuse" \in Faults THEN {"null"} ELSE {})

\* The next line to send is the identify_string.
Connect(t) ==
  /\ Goto(t, "connect", "putWait")
  /\ \E c \in SockConnect : conn' = [conn EXCEPT ![t] = c]
  /\ Hold(t, Identify)
  /\ UNCHANGED <<start, pushVars, called, lockVars, mapVars, subs, mail, log, inVars, endVars, status>>

PutWait(t) ==
  /\ Goto(t, "putWait", "put")
  /\ Wait(sockLock)
  /\ UNCHANGED <<msg, start, pushVars, called, outLock, ioLock, mapVars, serverVars, inVars, endVars, status>>

\* fputs: an unknown type makes good_line empty, so nothing is requested; a
\* line that cannot be written shows at the fgets.
Put(t) ==
  /\ conn[t] # "null"
  /\ Goto(t, "put", "get")
  /\ conn' = [conn EXCEPT ![t] = IF @ = "idle" /\ msg[t] # Junk THEN "asked" ELSE @]
  /\ Post(sockLock)
  /\ UNCHANGED <<msg, start, pushVars, called, outLock, ioLock, mapVars, subs, mail, log, inVars, endVars, status>>

\* fputs on the NULL that fdopen(-1) returned.
PutNull(t) ==
  /\ pc[t] = "put" /\ conn[t] = "null"
  /\ Die("crashed")

\* fgets of the reply to all but RETRIEVE: its text is not used.
Get(t) ==
  /\ msg[t] # Retrieve
  /\ conn[t] = "answered"
  /\ Goto(t, "get", "check")
  /\ conn' = [conn EXCEPT ![t] = "idle"]
  /\ Hold(t, None)
  /\ UNCHANGED <<start, pushVars, called, lockVars, mapVars, subs, mail, log, inVars, endVars, status>>

\* fgets = NULL: exit(EXIT_FAILURE) ends every thread.
GetEof(t) ==
  /\ pc[t] = "get" /\ conn[t] = "closed"
  /\ Die("failure")

CancellationPoints == {"connect", "check", "popWait", "putWait", "put", "get", "close"}

\* The thread dies where it is: a semaphore it holds stays down.
Cancelled(t) ==
  /\ t \in cancelled /\ pc[t] \in CancellationPoints
  /\ pc' = [pc EXCEPT ![t] = "cancelled"]
  /\ UNCHANGED data

Exchange(t) == Connect(t) \/ PutWait(t) \/ Put(t) \/ PutNull(t) \/ Get(t)
                 \/ GetEof(t) \/ Cancelled(t) \/ CheckWait(t)

-----------------------------------------------------------------------------
(* publishing_thread *)

PubCheck ==
  /\ Shutdown(Publisher, "close", "poll")
  /\ UNCHANGED <<msg, start, called, pushVars, sockLock, ioLock, mapVars, serverVars, inVars, endVars, status>>

PollOnce ==                                     \* mutant: an empty queue ends the loop
  /\ Goto(Publisher, "poll", IF start = finish THEN "close" ELSE "popWait")
  /\ UNCHANGED data

PollBlind ==                                    \* mutant: pops without the test
  Goto(Publisher, "poll", "popWait") /\ UNCHANGED data

\* out_messages->empty(), without the lock: it compares the two cursors, and a
\* stray one may be equal to any.
Poll ==
  /\ \/ (start = finish \/ Stray) /\ Goto(Publisher, "poll", "check")
     \/ start # finish /\ Goto(Publisher, "poll", "popWait")
  /\ UNCHANGED data

PopUnlocked == Goto(Publisher, "popWait", "pop") /\ UNCHANGED data   \* mutant

PopWait ==
  /\ Goto(Publisher, "popWait", "pop")
  /\ Wait(outLock)
  /\ UNCHANGED <<msg, start, pushVars, called, sockLock, ioLock, mapVars, serverVars, inVars, endVars, status>>

Newer == IF finish > 1 THEN cell[finish - 1] ELSE Junk   \* mutant: back()
Front == IF start \in DOMAIN cell THEN cell[start] ELSE Junk

Pop ==
  /\ Goto(Publisher, "pop", "putWait")
  /\ Hold(Publisher, Front)
  /\ start' = start + 1
  /\ Post(outLock)
  /\ UNCHANGED <<pushVars, called, sockLock, ioLock, mapVars, serverVars, inVars, endVars, status>>

\* Copying an unconstructed Message reads strings that were never built.
PopJunk ==
  /\ pc[Publisher] = "pop" /\ Front = Junk
  /\ Die("crashed")

Close ==
  /\ Goto(Publisher, "close", "done")
  /\ conn' = [conn EXCEPT ![Publisher] = "closed"]
  /\ UNCHANGED <<msg, start, pushVars, called, lockVars, mapVars, subs, mail, log, inVars, endVars, status>>

PublisherNext == Exchange(Publisher) \/ PubCheck \/ Poll \/ PopWait \/ Pop
                   \/ PopJunk \/ Close

-----------------------------------------------------------------------------
(* receiving_thread *)

RcvCheck ==
  /\ Shutdown(Receiver, "done", "putWait")
  /\ Hold(Receiver, Retrieve)
  /\ UNCHANGED <<start, called, pushVars, sockLock, ioLock, mapVars, serverVars, inVars, endVars, status>>

\* fgets of the header line, stoi of its LENGTH, fread of the body.
Read ==
  /\ Goto(Receiver, "get", "push")
  /\ msg[Receiver] = Retrieve
  /\ conn[Receiver] = "answered"
  /\ mail[nread + 1].type # "NOLENGTH"
  /\ Hold(Receiver, mail[nread + 1])
  /\ conn' = [conn EXCEPT ![Receiver] = "idle"]
  /\ nread' = nread + 1
  /\ UNCHANGED <<start, pushVars, called, lockVars, mapVars, subs, mail, log, inbox, ndisp, shown, endVars, status>>

\* stoi throws and nothing catches it.
ReadNoLength ==
  /\ pc[Receiver] = "get" /\ msg[Receiver] = Retrieve
  /\ conn[Receiver] = "answered" /\ mail[nread + 1].type = "NOLENGTH"
  /\ Die("crashed")

ReceivedFirst == <<msg[Receiver]>> \o inbox     \* mutant: push_front
Received      == Append(inbox, msg[Receiver])

PushLast ==                                     \* mutant: retrieves once
  /\ Goto(Receiver, "push", "done")
  /\ inbox' = Received
  /\ UNCHANGED <<msg, start, pushVars, called, lockVars, mapVars, serverVars, ndisp, nread, shown, endVars, status>>

Push ==
  /\ Goto(Receiver, "push", "check")
  /\ inbox' = Received
  /\ Hold(Receiver, None)
  /\ UNCHANGED <<start, pushVars, called, lockVars, mapVars, serverVars, ndisp, nread, shown, endVars, status>>

ReceiverNext == Exchange(Receiver) \/ RcvCheck \/ Read \/ ReadNoLength \/ Push

-----------------------------------------------------------------------------
(* run() and callbacks_thread, both on main *)

Start(t, from, to) ==
  /\ pc[Main] = from
  /\ pc' = [pc EXCEPT ![Main] = to, ![t] = "connect"]
  /\ UNCHANGED data

Run           == Start(Publisher, "app", "startReceiver")
StartReceiver == Start(Receiver, "startReceiver", "check")

MainCheck ==
  /\ Shutdown(Main, "cancelPublisher", "dispatch")
  /\ UNCHANGED <<msg, start, called, pushVars, sockLock, ioLock, mapVars, serverVars, inVars, endVars, status>>

InboxEmpty ==
  /\ inbox = <<>>
  /\ Goto(Main, "dispatch", "check")
  /\ UNCHANGED data

Newest == inbox[Len(inbox)]                     \* mutant: back()
Oldest == Head(inbox)

\* Takes the oldest text of the inbox and parses it; only a MESSAGE goes on.
Dispatch ==
  /\ inbox # <<>>
  /\ Goto(Main, "dispatch", IF Oldest.type = "MESSAGE" THEN "find" ELSE "check")
  /\ Hold(Main, Oldest)
  /\ inbox' = Tail(inbox)
  /\ ndisp' = ndisp + 1
  /\ UNCHANGED <<start, called, pushVars, lockVars, mapVars, serverVars, nread, shown, endVars, status>>

Find ==
  /\ Goto(Main, "find", IF msg[Main].topic \in topicCallbacks THEN "ioWait" ELSE "check")
  /\ it' = IF msg[Main].topic \in topicCallbacks THEN msg[Main].topic ELSE None
  /\ UNCHANGED <<msg, start, called, pushVars, lockVars, topicCallbacks, serverVars, inVars, endVars, status>>

IoWait ==
  /\ Goto(Main, "ioWait", "callback")
  /\ Wait(ioLock)
  /\ UNCHANGED <<msg, start, pushVars, called, outLock, sockLock, mapVars, serverVars, inVars, endVars, status>>

\* it->second->run(pMessage) under io_lock.
RunCallback ==
  /\ Goto(Main, "callback", "check")
  /\ shown' = Append(shown, [n |-> ndisp, m |-> msg[Main]])
  /\ it' = None
  /\ Post(ioLock)
  /\ UNCHANGED <<msg, start, pushVars, called, outLock, sockLock, topicCallbacks, serverVars, inbox, ndisp, nread, endVars, status>>

\* The iterator was invalidated between find() and here.
FreedCallback ==
  /\ pc[Main] = "callback" /\ it = Junk
  /\ Die("crashed")

Cancel(t, from, to) ==
  /\ Goto(Main, from, to)
  /\ cancelled' = cancelled \cup {t}
  /\ UNCHANGED <<msg, start, called, pushVars, lockVars, mapVars, serverVars, inVars, disconnectMsg, cut, status>>

CancelPublisher == Cancel(Publisher, "cancelPublisher", "cancelReceiver")
CancelTwice     == Cancel(Publisher, "cancelReceiver", "returned")   \* mutant
CancelReceiver  == Cancel(Receiver, "cancelReceiver", "returned")

\* run() has returned, and so does the application's main().
Return == pc[Main] = "returned" /\ Die("success")

\* run()'s arg and main's Client are gone; a thread still at work uses them.
LateUse ==
  /\ pc[Main] = "returned"
  /\ \/ \E t \in Senders : pc[t] \notin {"done", "cancelled"}
     \/ \E t \in Callers \ {Main} : pc[t] # "app"
  /\ Die("crashed")

MainNext == CheckWait(Main) \/ StartReceiver \/ MainCheck \/ InboxEmpty \/ Dispatch
              \/ Find \/ IoWait \/ RunCallback \/ FreedCallback
              \/ CancelPublisher \/ CancelReceiver \/ Return \/ LateUse

\* Two threads inside topicCallbacks, one of them changing it: undefined.
MapContended ==
  \E t \in Callers : \E u \in Threads \ {t} :
    pc[t] \in {"insert", "erase"} /\ pc[u] \in {"insert", "erase", "find"}

MapRace == MapContended /\ Die("crashed")

\* A push_back that moves the deque's map of blocks, 3 Messages or 16 strings
\* to a block, also writes the end that a pop_front is reading, and frees the
\* map that another push_back is at.
GrowthRace ==
  /\ \/ \E t \in Callers :
          /\ pc[t] = "link" /\ finish \in OutGrowth
          /\ pc[Publisher] = "pop" \/ \E u \in Callers \ {t} : pc[u] \in {"link", "setNode"}
     \/ pc[Main] = "dispatch" /\ inbox # <<>> /\ pc[Receiver] = "push" /\ nread \in InGrowth
  /\ Die("crashed")

-----------------------------------------------------------------------------
(* The server and the rest of the world, as the client uses them *)

\* It handles a request of the publisher and answers with one line.
ServerHandle ==
  /\ conn[Publisher] = "asked"
  /\ conn' = [conn EXCEPT ![Publisher] = "answered"]
  /\ LET m == msg[Publisher] IN
       /\ log' = IF m = Identify THEN log ELSE Append(log, m)
       /\ subs' = CASE m.type = "SUBSCRIBE"   -> subs \cup {m.topic}
                    [] m.type = "UNSUBSCRIBE" -> subs \ {m.topic}
                    [] OTHER                  -> subs
       /\ mail' = IF m.type = "MESSAGE" /\ m.topic \in subs THEN Append(mail, m) ELSE mail
  /\ UNCHANGED <<pc, msg, start, pushVars, called, lockVars, mapVars, inVars, endVars, status>>

\* RETRIEVE is answered once there is something to read.
ServerRetrieve ==
  /\ conn[Receiver] = "asked"
  /\ msg[Receiver] = Retrieve => nread < Len(mail)
  /\ conn' = [conn EXCEPT ![Receiver] = "answered"]
  /\ UNCHANGED <<pc, msg, start, pushVars, called, lockVars, mapVars, subs, mail, log, inVars, endVars, status>>

ServerMail ==
  /\ Len(mail) < MaxMail
  /\ \E m \in MailItem :
       /\ m.type = "MESSAGE" => m.topic \in subs
       /\ mail' = Append(mail, m)
  /\ UNCHANGED <<pc, msg, start, pushVars, called, lockVars, mapVars, conn, subs, log, inVars, endVars, status>>

ServerClose(t) ==
  /\ "close" \in Faults
  /\ conn[t] \in {"idle", "asked", "answered"}
  /\ conn' = [conn EXCEPT ![t] = "closed"]
  /\ UNCHANGED <<pc, msg, start, pushVars, called, lockVars, mapVars, subs, mail, log, inVars, endVars, status>>

ServerNext == ServerHandle \/ ServerRetrieve \/ ServerMail
                \/ \E t \in Senders : ServerClose(t)

-----------------------------------------------------------------------------
(* All of it, for an application that calls any method at any time *)

Inside == \/ \E t \in Callers : Method(t)
          \/ PublisherNext \/ ReceiverNext \/ MainNext \/ MapRace \/ GrowthRace
          \/ ServerNext

Ended == status # "running" /\ UNCHANGED vars

Next == \/ status = "running" /\ Inside
        \/ status = "running" /\ (Run \/ \E t \in Callers, m \in ApiCall : Call(t, m))
        \/ Ended

Spec == Init /\ [][Next]_vars

(* Every thread of a running process is scheduled again and again, and the *)
(* server answers.  The loops take and post out_lock for ever, so a thread *)
(* at sem_wait is not enabled all the time: the fairness of the threads is *)
(* strong, that is, a semaphore posted again and again wakes every waiter. *)
Running(A) == status = "running" /\ A
ThreadFairness ==
  /\ \A t \in Callers : SF_vars(Running(Method(t)))
  /\ SF_vars(Running(PublisherNext)) /\ SF_vars(Running(ReceiverNext))
  /\ SF_vars(Running(MainNext))

Fairness ==
  ThreadFairness /\ WF_vars(Running(ServerHandle)) /\ WF_vars(Running(ServerRetrieve))

FairSpec == Spec /\ Fairness /\ WF_vars(Running(Run))

-----------------------------------------------------------------------------
(* Properties *)

Points == {"app", "insert", "erase", "push", "construct", "load", "store", "link",
           "constructLast", "setNode", "setCur", "flagWait", "flag", "off",
           "connect", "putWait", "put", "get", "check", "test", "poll", "popWait",
           "pop", "close", "done", "startReceiver", "dispatch", "find", "ioWait",
           "callback", "cancelPublisher", "cancelReceiver", "returned", "cancelled"}

FunctionTypes ==
  /\ pc \in [Threads -> Points]
  /\ msg \in [Threads -> Message \cup {None, Junk}]
  /\ cell \in [Slots -> ApiCall \cup {Junk}] /\ tmp \in [Callers -> Nat]
  /\ conn \in [Senders -> {"none", "null", "idle", "asked", "answered", "closed"}]
  /\ cut \in [out : Nat, in : Nat, log : Nat]

SequenceTypes ==
  /\ inbox \in Seq(MailItem) /\ mail \in Seq(MailItem)
  /\ called \in Seq(ApiCall) /\ log \in Seq(ApiCall)
  /\ shown \in Seq([n : Nat, m : Message])

ScalarTypes ==
  /\ start \in Nat \ {0} /\ finish \in Nat /\ nread \in Nat /\ ndisp \in Nat
  /\ outLock \in {0, 1} /\ sockLock \in {0, 1} /\ ioLock \in {0, 1}
  /\ topicCallbacks \subseteq Topics /\ it \in Topics \cup {None, Junk}
  /\ node \in Nat \ {0} /\ blocks \subseteq Nat \ {0}
  /\ subs \subseteq Topics /\ cancelled \subseteq Senders
  /\ disconnectMsg \in BOOLEAN
  /\ status \in {"running", "success", "failure", "crashed"}

\* The type of every variable: the semaphores are 0 or 1, the front of
\* outMessages never falls below 1, and only parsed messages reach callbacks.
TypeOK == FunctionTypes /\ SequenceTypes /\ ScalarTypes

OutSection == {"flag", "pop", "test"}

\* out_lock and sock_lock each admit one thread: disconnect() never sets the
\* flag inside the publisher's front/pop_front, and the two senders are never
\* both inside fputs, cancellation inside fputs included.
MutualExclusion ==
  \A s, t \in Threads : s # t =>
    /\ ~ (pc[s] \in OutSection /\ pc[t] \in OutSection)
    /\ ~ (pc[s] = "put" /\ pc[t] = "put")

\* No path through the library loses a semaphore: one that is down has a thread
\* inside its section, which will post it.  Only sock_lock can stay down, when a
\* sender that main has cancelled dies in fputs; out_lock, which disconnect()
\* needs even then, cannot.
SemaphoresReturn ==
  /\ outLock = 0 => \E t \in Threads : pc[t] \in OutSection
  /\ sockLock = 0 => \E t \in Senders : pc[t] = "put" \/ (pc[t] = "cancelled" /\ t \in cancelled)
  /\ ioLock = 0 => pc[Main] = "callback"

\* Once disconnect() has set disconnect_msg, at most one more message leaves
\* outMessages, at most one more request is handled by the server and at most
\* one more message leaves the inbox: each loop tests shutdown() before every
\* message, but the flag may change after the test.
AtMostOneAfterDisconnect ==
  disconnectMsg =>
    start <= cut.out + 1 /\ Len(log) <= cut.log + 1 /\ ndisp <= cut.in + 1

\* The inbox, pushed by the receiver and popped by main without a lock, holds
\* exactly what was read from the server and not yet dispatched, in order.
InboxInOrder ==
  inbox \o (IF pc[Receiver] = "push" THEN <<msg[Receiver]>> ELSE <<>>)
    = SubSeq(mail, ndisp + 1, nread)

\* Callbacks run in the order of the server's messages, at most once for each,
\* only for a MESSAGE, and on the message they were looked up for.
CallbacksInOrder ==
  /\ \A i, j \in 1..Len(shown) : i < j => shown[i].n < shown[j].n
  /\ \A i \in 1..Len(shown) :
       /\ shown[i].n <= ndisp /\ shown[i].m = mail[shown[i].n]
       /\ shown[i].m.type = "MESSAGE"
  /\ pc[Main] \in {"find", "ioWait", "callback"} =>
       msg[Main] = mail[ndisp] /\ \A i \in 1..Len(shown) : shown[i].n < ndisp

PushPoints == {"insert", "erase", "push", "construct", "load", "store", "link",
               "constructLast", "setNode", "setCur"}

\* Whenever no push is under way, outMessages has kept the message of every
\* call: as many slots filled as calls made, and each message in a slot.
QueueKeepsAll ==
  (\A t \in Callers : pc[t] \notin PushPoints) =>
    /\ finish = Len(called) + 1
    /\ \A k \in 1..Len(called) : \E i \in 1..Len(called) : cell[i] = called[k]

\* The server handles the calls of the application in the order they were
\* made, with none lost, repeated or altered on the way.
HandledInOrder ==
  /\ Len(log) <= Len(called)
  /\ \A k \in 1..Len(log) : log[k] = called[k]

PendingFor(topic) ==
  {k \in (Len(log) + 1)..Len(called) :
     called[k].type \in {"SUBSCRIBE", "UNSUBSCRIBE"} /\ called[k].topic = topic}

\* topicCallbacks and the server's subscriptions agree on every topic, once
\* the requests still on their way to the server are counted in.
SubscriptionsAgree ==
  (\A t \in Callers : pc[t] \notin {"insert", "erase"}) =>
    \A topic \in Topics :
      LET pending == PendingFor(topic) IN
        /\ pending = {} => (topic \in subs <=> topic \in topicCallbacks)
        /\ \A k \in pending : (\A j \in pending : j <= k) =>
             (topic \in topicCallbacks <=> called[k].type = "SUBSCRIBE")

\* Access to the topics is synchronized: no thread is inside topicCallbacks
\* while another changes it.
TopicsSynchronized == ~ MapContended

\* The process ends with EXIT_SUCCESS only after disconnect(), with both
\* senders finished or told to stop.
SuccessMeansDisconnected ==
  status = "success" => disconnectMsg /\ cancelled = Senders

\* disconnect() ends the process, although it must first win out_lock from the
\* loops, which never rest, and even if a sender waits for a reply that never
\* comes or was cancelled with sock_lock down.
DisconnectEnds ==
  disconnectMsg \/ (\E t \in Callers : pc[t] = "flagWait") ~> status # "running"

=============================================================================
