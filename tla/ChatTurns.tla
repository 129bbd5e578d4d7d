----------------------------- MODULE ChatTurns -----------------------------
(***************************************************************************)
(* What the threads of the chat room do to each other through io_lock and  *)
(* out_lock, and nothing else.  Nobody ever calls disconnect(), so the     *)
(* loops of chat_generator, main, publisher and receiver go round for      *)
(* ever; the queues, which grow all the while, are left out but for        *)
(* whether the inbox holds a text.  ChatApp, where calls are bounded,      *)
(* implements this module.                                                 *)
(***************************************************************************)
EXTENDS Naturals

VARIABLES
  gen,            \* chat_generator: where in its loop
  main,           \* main: "setup" until run() loops, then where in its loop
  busy,           \* publisher or receiver is inside out_lock
  waiting,        \* the inbox is not empty
  ioLock, outLock,
  eof,            \* end of the user's input
  over            \* the process has ended

vars == <<gen, main, busy, waiting, ioLock, outLock, eof, over>>

Init ==
  /\ gen = "publish" /\ main = "setup" /\ busy = FALSE /\ waiting = FALSE
  /\ ioLock = 1 /\ outLock = 1 /\ eof = FALSE /\ over = FALSE

Wait(sem) == sem > 0 /\ sem' = sem - 1
Post(sem) == sem' = sem + 1

GenGoto(from, to)  == gen = from /\ gen' = to /\ UNCHANGED <<main, busy, waiting, eof, over>>
MainGoto(from, to) == main = from /\ main' = to /\ UNCHANGED <<gen, busy, eof, over>>

-----------------------------------------------------------------------------
(* chat_generator *)

Publish     == GenGoto("publish", "check") /\ UNCHANGED <<ioLock, outLock>>
CheckWait   == GenGoto("check", "test") /\ Wait(outLock) /\ UNCHANGED ioLock
Shutdown    == GenGoto("test", "ignore") /\ Post(outLock) /\ UNCHANGED ioLock
Ignore      == GenGoto("ignore", "ioWait") /\ UNCHANGED <<ioLock, outLock>>
PromptWait  == GenGoto("ioWait", "prompt") /\ Wait(ioLock) /\ UNCHANGED outLock
PromptKept  == GenGoto("prompt", "publish") /\ UNCHANGED <<ioLock, outLock>> \* mutant: no sem_post
Prompt      == GenGoto("prompt", "publish") /\ Post(ioLock) /\ UNCHANGED outLock

EndOfInput  == ~ eof /\ eof' = TRUE
                 /\ UNCHANGED <<gen, main, busy, waiting, ioLock, outLock, over>>

Input     == Ignore \/ Prompt                   \* waits for the user
Generates == Publish \/ CheckWait \/ Shutdown \/ PromptWait

-----------------------------------------------------------------------------
(* main *)

Run           == MainGoto("setup", "check") /\ UNCHANGED <<waiting, ioLock, outLock>>
MainCheckWait == MainGoto("check", "test") /\ Wait(outLock) /\ UNCHANGED <<waiting, ioLock>>
MainShutdown  == MainGoto("test", "dispatch") /\ Post(outLock) /\ UNCHANGED <<waiting, ioLock>>

InboxEmpty ==
  /\ ~ waiting
  /\ MainGoto("dispatch", "check")
  /\ UNCHANGED <<waiting, ioLock, outLock>>

\* More may be waiting behind the text that main takes; it is looked up only if
\* it is a MESSAGE.
Dispatch ==
  /\ waiting /\ waiting' \in BOOLEAN
  /\ MainGoto("dispatch", "find") \/ MainGoto("dispatch", "check")
  /\ UNCHANGED <<ioLock, outLock>>

Find ==
  /\ MainGoto("find", "ioWait") \/ MainGoto("find", "check")
  /\ UNCHANGED <<waiting, ioLock, outLock>>

IoWait      == MainGoto("ioWait", "callback") /\ Wait(ioLock) /\ UNCHANGED <<waiting, outLock>>
RunCallback == MainGoto("callback", "check") /\ Post(ioLock) /\ UNCHANGED <<waiting, outLock>>

MainNext == Run \/ MainCheckWait \/ MainShutdown \/ InboxEmpty \/ Dispatch \/ Find
              \/ IoWait \/ RunCallback

-----------------------------------------------------------------------------
(* publisher and receiver *)

Others == <<gen, main, ioLock, eof, over>>

Take ==
  /\ ~ busy /\ busy' = TRUE
  /\ Wait(outLock)
  /\ UNCHANGED <<Others, waiting>>

Leave ==
  /\ busy /\ busy' = FALSE
  /\ Post(outLock)
  /\ UNCHANGED <<Others, waiting>>

Arrive == waiting' = TRUE /\ UNCHANGED <<Others, busy, outLock>>

\* A fault of any thread ends the process.
End == over' = TRUE /\ UNCHANGED <<gen, main, busy, waiting, ioLock, outLock, eof>>

Next == \/ ~ over /\ (Generates \/ Input \/ EndOfInput \/ MainNext \/ Take \/ Leave
                        \/ Arrive \/ End)
        \/ over /\ UNCHANGED vars

Spec == Init /\ [][Next]_vars

(* As in ChatApp: a thread at sem_wait gets its turn if the semaphore is   *)
(* posted again and again, and the user need not answer before the input   *)
(* ends.                                                                   *)
Running(A) == ~ over /\ A
Fairness ==
  /\ SF_vars(Running(Generates \/ (eof /\ Input)))
  /\ SF_vars(Running(MainNext)) /\ WF_vars(Running(Leave))

FairSpec == Spec /\ Fairness

-----------------------------------------------------------------------------
(* Properties *)

Unanswered == gen = "prompt" /\ ~ eof

\* main comes back to its inbox again and again, and so takes and shows every
\* text, though chat_generator after the end of input prompts and publishes
\* without pause and three loops fight for out_lock; only a prompt that the
\* user never answers stops it.
MainComesRound == []<>(main = "dispatch" \/ over) \/ <>[]Unanswered

=============================================================================
