------------------------------ MODULE ChatApp ------------------------------
(***************************************************************************)
(* The chat room: main starts chat_generator, subscribes to the chat topic *)
(* and calls run(), while chat_generator publishes that the user has       *)
(* joined and then, line after line, what the user types.  The prompt      *)
(* holds io_lock, the semaphore under which callbacks run, for as long as  *)
(* the user takes.  What the loop does after the end of input, for ever,   *)
(* is in ChatTurns.                                                        *)
(***************************************************************************)
EXTENDS Client

CONSTANTS ChatTopic, Joined     \* CHAT_TOPIC; the text "has joined."

Generator == "generator"

ASSUME ChatAssumption ==
  Callers = {Main, Generator} /\ ChatTopic \in Topics /\ Joined \in Bodies

VARIABLES line,       \* the text chat_generator is to publish next, or None
          subscribed  \* main has called subscribe

appVars  == <<line, subscribed>>
chatVars == <<vars, appVars>>

ChatInit == Init /\ line = Joined /\ subscribed = FALSE

On(ty, text) == [type |-> ty, topic |-> ChatTopic, body |-> text]

Subscribe ==
  /\ ~ subscribed /\ subscribed' = TRUE
  /\ Call(Main, On("SUBSCRIBE", None))
  /\ UNCHANGED line

ChatRun == subscribed /\ Run /\ UNCHANGED appVars

\* The last call that MaxOut allows is left to main's subscribe().
Publish ==
  /\ Len(called) < MaxOut - 1 \/ subscribed
  /\ line # None /\ line' = None
  /\ Call(Generator, On("MESSAGE", line))
  /\ UNCHANGED subscribed

Loop ==
  /\ line = None
  /\ Goto(Generator, "app", "check")
  /\ UNCHANGED <<data, appVars>>

ChatCheck ==
  /\ Shutdown(Generator, "done", "ignore")
  /\ UNCHANGED <<msg, start, called, pushVars, sockLock, ioLock, mapVars, serverVars, inVars, endVars, status, appVars>>

\* cin.ignore: the user presses enter, or there is no more input.
Ignore ==
  /\ Goto(Generator, "ignore", "ioWait")
  /\ UNCHANGED <<data, appVars>>

\* mutant: sem_wait(io_lock) left out
PromptUnlocked == Goto(Generator, "ioWait", "prompt") /\ UNCHANGED <<data, appVars>>

PromptWait ==
  /\ Goto(Generator, "ioWait", "prompt")
  /\ Wait(ioLock)
  /\ UNCHANGED <<msg, start, pushVars, called, outLock, sockLock, mapVars, serverVars, inVars, endVars, status, appVars>>

PromptKept ==                                   \* mutant: sem_post(io_lock) left out
  /\ Goto(Generator, "prompt", "app")
  /\ line' \in Bodies
  /\ UNCHANGED <<data, subscribed>>

\* getline: the user's line, or an empty one at the end of input.
Prompt ==
  /\ Goto(Generator, "prompt", "app")
  /\ line' \in Bodies
  /\ Post(ioLock)
  /\ UNCHANGED <<msg, start, pushVars, called, outLock, sockLock, mapVars, serverVars, inVars, endVars, status, subscribed>>

Input     == Ignore \/ Prompt                   \* waits for the user
Generates == Publish \/ Loop \/ (CheckWait(Generator) /\ UNCHANGED appVars)
               \/ ChatCheck \/ PromptWait

ChatNext ==
  \/ status = "running" /\ (Subscribe \/ ChatRun \/ Generates \/ Input)
  \/ status = "running" /\ Inside /\ UNCHANGED appVars
  \/ Ended /\ UNCHANGED appVars

ChatSpec == ChatInit /\ [][ChatNext]_chatVars

(* Every thread is scheduled, as in Client, with the application's own      *)
(* steps.  The user need never type.                                       *)
ChatFairness ==
  /\ SF_chatVars(Running(Subscribe \/ ChatRun \/ ((Method(Main) \/ MainNext) /\ UNCHANGED appVars)))
  /\ SF_chatVars(Running(Generates \/ (Method(Generator) /\ UNCHANGED appVars)))
  /\ SF_vars(Running(PublisherNext)) /\ SF_vars(Running(ReceiverNext))
  /\ WF_vars(Running(ServerHandle)) /\ WF_vars(Running(ServerRetrieve))

ChatFairSpec == ChatSpec /\ ChatFairness

-----------------------------------------------------------------------------
(* Properties *)

\* No callback prints between the prompt and the user's answer, and main never
\* holds io_lock when it goes back to its loop: it is down only at the prompt
\* or in a callback.
PromptUndisturbed ==
  /\ ~ (pc[Generator] = "prompt" /\ pc[Main] = "callback")
  /\ ioLock = 1 <=> (pc[Generator] # "prompt" /\ pc[Main] # "callback")

(* The threads of the chat, seen through the two semaphores they share.    *)
GenLoop  == {"check", "test", "ignore", "ioWait", "prompt"}
MainLoop == {"check", "test", "dispatch", "find", "ioWait", "callback"}

GenAt(p)  == IF p \in GenLoop THEN p ELSE "publish"
MainAt(p) == IF p \in MainLoop THEN p ELSE "setup"
Busy      == \E t \in Senders : pc[t] \in OutSection

Turns == INSTANCE ChatTurns WITH
  gen     <- GenAt(pc[Generator]),
  main    <- MainAt(pc[Main]),
  busy    <- Busy,
  waiting <- inbox # <<>>,
  eof     <- FALSE,
  over    <- status # "running"

\* Whatever the threads of the chat do, they take and post io_lock and out_lock
\* as ChatTurns says: each in its order and never twice, posting what it takes,
\* and main looks at its inbox between any two waits.
ImplementsTurns == Turns!Spec

\* As many slots filled as calls made, those still under way aside, and no
\* slot torn: main and chat_generator have not pushed into each other.
Whole ==
  /\ ~ Stray /\ finish + Cardinality({t \in Callers : pc[t] \in PushPoints}) = Len(called) + 1
  /\ \A i \in 1..(finish - 1) : cell[i] # Junk

\* What has been said reaches the server even if the user never answers the
\* prompt that follows, unless the two unlocked pushes at the start have met:
\* again and again the server has every call.
LinesReachServer == []<>(Len(log) = Len(called) \/ ~ Whole \/ status # "running")

=============================================================================
