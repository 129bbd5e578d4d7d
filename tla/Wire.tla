-------------------------------- MODULE Wire --------------------------------
(***************************************************************************)
(* The text on the connections: what the publisher makes of a Message, the *)
(* server's replies, and how the receiver and the callbacks take them      *)
(* apart.  Locks and the end of the process are in Client.  The client has *)
(* subscribed to the topics it listens to, and stays subscribed.           *)
(*                                                                         *)
(* Text is a sequence of tokens: a word of the protocol, a number, or one  *)
(* of "sp", "nl", "nul" and letters.  In the length of a body each counts  *)
(* as one character.  Headers are shorter than a buffer.                   *)
(***************************************************************************)
EXTENDS Integers, SequencesExt

CONSTANTS
  Topics, Bodies,  \* texts that applications publish
  Self, Others,    \* this client's name, the names of others
  Listened,        \* topics with a callback, subscribed to at the server
  BufSize,         \* BUFSIZ, in tokens of a body
  Numeral,         \* to_string, for the lengths that bodies have
  MaxSent, MaxMail \* bounds: calls of this client, messages of the others

ASSUME ListenedAssumption == Listened \subseteq Topics
ASSUME SizeAssumption     == BufSize \in Nat

\* Each length has a numeral of its own, however many digits that takes.
ASSUME NumeralAssumption ==
  /\ DOMAIN Numeral \subseteq Nat /\ \A b \in Bodies : Len(b) \in DOMAIN Numeral
  /\ \A n \in DOMAIN Numeral : Numeral[n] \in STRING \ {"sp", "nl", "nul"}
  /\ \A m, n \in DOMAIN Numeral : Numeral[m] = Numeral[n] => m = n

\* Topics and names are words, as blanks separate them in every header; the
\* code leaves that to its callers.
ASSUME WordAssumption ==
  /\ Bodies \subseteq Seq(STRING)
  /\ \A w \in Topics \cup Others \cup {Self} :
       w \in Seq(STRING) /\ \A i \in 1..Len(w) : w[i] \notin {"sp", "nl", "nul"}

VARIABLES
  outMessages, out, answers, pub, \* publisher: queue, bytes sent, replies due
  in, rcv, header, need,          \* receiver: bytes to read, point, what it has
  inbox, status,
  sent, handled, mailed, given, shown  \* history; given of mailed are on in

pubVars == <<outMessages, out, answers, pub, sent, handled>>
rcvVars == <<in, rcv, header, need>>
vars    == <<pubVars, rcvVars, inbox, status, mailed, given, shown>>

-----------------------------------------------------------------------------
(* Text *)

Num(n) == <<Numeral[n]>>

\* string::find of a token from a position on; 0 for npos.
Find(s, w, from) == SelectInSubSeq(s, from, Len(s), LAMBDA x : x = w)

After(s, i)      == SubSeq(s, i, Len(s))
CString(s)       == IF Contains(s, "nul") THEN SubSeq(s, 1, Find(s, "nul", 1) - 1) ELSE s

\* stoi: blanks are skipped; what is not a number then throws (-1).
Value   == AntiFunction(Numeral)
Stoi(s) ==
  LET i == SelectInSeq(s, LAMBDA w : w \notin {"sp", "nl"})
  IN IF i # 0 /\ s[i] \in Range(Numeral) THEN Value[s[i]] ELSE -1

-----------------------------------------------------------------------------
(* Publisher *)

ApiCall == [type : {"MESSAGE"}, topic : Topics, body : Bodies]
             \cup [type : {"SUBSCRIBE"}, topic : Listened, body : {<<>>}]
             \cup {[type |-> "DISCONNECT", topic |-> Self, body |-> <<>>]}

\* UNSUBSCRIBE has the form of SUBSCRIBE; the other types are never queued.
GoodLine(m) ==
  CASE m.type = "MESSAGE" ->
         <<"PUBLISH", "sp">> \o m.topic \o <<"sp">> \o Num(Len(m.body)) \o <<"nl">> \o m.body
    [] m.type = "DISCONNECT" -> <<"DISCONNECT", "sp">> \o m.topic \o <<"sp", "nonce", "nl">>
    [] OTHER                 -> <<m.type, "sp">> \o m.topic \o <<"nl">>

Call(m) ==
  /\ Len(sent) < MaxSent
  /\ outMessages' = Append(outMessages, m) /\ sent' = Append(sent, m)
  /\ UNCHANGED <<out, answers, pub, handled, rcvVars, inbox, status, mailed, given, shown>>

\* fputs writes the line up to its first zero.
Send ==
  /\ pub = "send" /\ outMessages # <<>>
  /\ out' = out \o CString(GoodLine(Head(outMessages)))
  /\ outMessages' = Tail(outMessages) /\ pub' = "wait"
  /\ UNCHANGED <<answers, sent, handled, rcvVars, inbox, status, mailed, given, shown>>

SendOn ==                                       \* mutant: fgets left out
  /\ pub = "wait" /\ pub' = "send"
  /\ UNCHANGED <<outMessages, out, answers, sent, handled, rcvVars, inbox, status, mailed, given, shown>>

Answered ==
  /\ pub = "wait" /\ answers > 0
  /\ answers' = answers - 1 /\ pub' = "send"
  /\ UNCHANGED <<outMessages, out, sent, handled, rcvVars, inbox, status, mailed, given, shown>>

-----------------------------------------------------------------------------
(* Server, as the client's code supposes it *)

Mail(m) == [type |-> "MESSAGE", topic |-> m.topic, sender |-> Self, body |-> m.body]

Reply(m) ==
  <<"MESSAGE", "sp">> \o m.topic \o <<"sp", "FROM", "sp">> \o m.sender
    \o <<"sp", "LENGTH", "sp">> \o Num(Len(m.body)) \o <<"nl">> \o m.body

\* It takes a line and, for PUBLISH, as many bytes as the line says, once they
\* are all there.
ServerHandle ==
  LET eol   == Find(out, "nl", 1)
      stop  == Find(out, "sp", 3)
      size  == Stoi(After(out, stop))
      whole == out[1] = "PUBLISH" /\ stop \in 1..eol
      total == IF whole THEN eol + size ELSE eol
      m     == [type  |-> IF whole THEN "MESSAGE" ELSE out[1],
                topic |-> SubSeq(out, 3, (IF stop \in 1..eol THEN stop ELSE eol) - 1),
                body  |-> SubSeq(out, eol + 1, total)]
  IN /\ eol > 0 /\ (whole => size >= 0) /\ Len(out) >= total
     /\ out' = After(out, total + 1) /\ handled' = Append(handled, m)
     /\ answers' = answers + 1
     /\ mailed' = IF m.type = "MESSAGE" /\ m.topic \in Listened
                  THEN Append(mailed, Mail(m)) ELSE mailed
     /\ UNCHANGED <<outMessages, pub, sent, rcvVars, inbox, status, given, shown>>

ServerMail ==
  /\ Len(SelectSeq(mailed, LAMBDA m : m.sender # Self)) < MaxMail
  /\ \E m \in [type : {"MESSAGE"}, topic : Listened, sender : Others, body : Bodies] :
       mailed' = Append(mailed, m)
  /\ UNCHANGED <<pubVars, rcvVars, inbox, status, given, shown>>

ServerRetrieve ==
  /\ rcv = "retrieve" /\ given < Len(mailed)
  /\ given' = given + 1 /\ rcv' = "line"
  /\ in' = in \o Reply(mailed[given + 1])
  /\ UNCHANGED <<pubVars, header, need, inbox, status, mailed, shown>>

-----------------------------------------------------------------------------
(* Receiver *)

\* fgets takes a line; as a string it ends at the first zero.
GetLine ==
  /\ rcv = "line" /\ Contains(in, "nl")
  /\ header' = CString(SubSeq(in, 1, Find(in, "nl", 1)))
  /\ in' = After(in, Find(in, "nl", 1) + 1) /\ rcv' = "length"
  /\ UNCHANGED <<pubVars, need, inbox, status, mailed, given, shown>>

\* stoi of what follows the first LENGTH and the character after it; where
\* there is none, find() + 7 is 6, and no number is taken to be there.
Length ==
  LET i == Find(header, "LENGTH", 1) IN IF i = 0 THEN -1 ELSE Stoi(After(header, i + 2))

GetLength ==
  /\ rcv = "length" /\ Length >= 0
  /\ need' = Length /\ rcv' = "body"
  /\ UNCHANGED <<pubVars, in, header, inbox, status, mailed, given, shown>>

\* stoi throws and nothing catches it.
NoLength ==
  /\ rcv = "length" /\ Length < 0
  /\ status' = "crashed"
  /\ UNCHANGED <<pubVars, rcvVars, inbox, mailed, given, shown>>

\* fread waits for all of length_num bytes; the text ends at the first zero.
Text(n) == header \o CString(SubSeq(in, 1, n))

ReadMore ==                                     \* mutant: the '\n' is counted in
  /\ rcv = "body" /\ need < BufSize /\ Len(in) > need
  /\ inbox' = Append(inbox, Text(need))
  /\ in' = After(in, need + 2) /\ rcv' = "retrieve"
  /\ header' = <<>> /\ need' = 0
  /\ UNCHANGED <<pubVars, status, mailed, given, shown>>

ReadBody ==
  /\ rcv = "body" /\ need < BufSize /\ Len(in) >= need
  /\ inbox' = Append(inbox, Text(need))
  /\ in' = After(in, need + 1) /\ rcv' = "retrieve"
  /\ header' = <<>> /\ need' = 0
  /\ UNCHANGED <<pubVars, status, mailed, given, shown>>

\* A body that fills buffer_3 and has no zero in it has none behind it: what
\* lies there may be taken for text.  A longer one overwrites it too.
Overrun ==
  /\ rcv = "body" /\ need >= BufSize /\ Len(in) >= need
  /\ \/ /\ \E rest \in {<<>>, <<"junk">>} :
            /\ Contains(SubSeq(in, 1, need), "nul") => rest = <<>>
            /\ inbox' = Append(inbox, Text(need) \o rest)
        /\ in' = After(in, need + 1) /\ rcv' = "retrieve"
        /\ header' = <<>> /\ need' = 0
        /\ UNCHANGED status
     \/ status' = "crashed" /\ UNCHANGED <<inbox, rcvVars>>
  /\ UNCHANGED <<pubVars, mailed, given, shown>>

-----------------------------------------------------------------------------
(* callbacks_thread *)

\* From a position to the next token of a kind; find() may give npos, and then
\* it is all the rest.
Field(s, from, to) ==
  LET i == Find(s, to, from) IN IF i = 0 THEN After(s, from) ELSE SubSeq(s, from, i - 1)

FromPosFirst(s) == Find(s, "FROM", 1)           \* mutant: find("FROM") from 0

\* Where FROM is found, behind the topic; npos + 1 is 0.
FromPos(s) == Find(s, "FROM", Find(s, "sp", 3) + 1)

\* Where LENGTH is found, behind the sender.  Without FROM, npos + 5 is 4: what
\* is left of the word MESSAGE is the sender, and the blank there its end.
LengthPos(s) ==
  LET end == IF FromPos(s) = 0 THEN 2 ELSE Find(s, "sp", FromPos(s) + 2)
  IN Find(s, "LENGTH", end + 1)

Parse(s) ==
  [type   |-> "MESSAGE", topic |-> Field(s, 3, "sp"),
   sender |-> IF FromPos(s) = 0 THEN <<"AGE">> ELSE Field(s, FromPos(s) + 2, "sp"),
   body   |-> After(s, Find(s, "nl", LengthPos(s) + 2) + 1)]

\* substr throws for a position behind the text, and stoi where there is no
\* number, as in the E of MESSAGE that npos + 7 stands for.
ParseThrows(s) ==
  \/ FromPos(s) = Len(s)
  \/ LengthPos(s) = 0
  \/ Stoi(Field(s, LengthPos(s) + 2, "nl")) < 0

Starts(s) == Field(s, 1, "sp") = <<"MESSAGE">>

Take == inbox # <<>> /\ inbox' = Tail(inbox)

\* A text that does not start with MESSAGE is dropped.
Dispatch ==
  /\ Take
  /\ LET s == Head(inbox) IN
       /\ Starts(s) => ~ ParseThrows(s)
       /\ shown' = IF Starts(s) /\ Parse(s).topic \in Listened
                   THEN Append(shown, Parse(s)) ELSE shown
  /\ UNCHANGED <<pubVars, rcvVars, status, mailed, given>>

\* Nothing catches what the parsing throws.
DispatchThrows ==
  /\ Take /\ Starts(Head(inbox)) /\ ParseThrows(Head(inbox))
  /\ status' = "crashed"
  /\ UNCHANGED <<pubVars, rcvVars, mailed, given, shown>>

-----------------------------------------------------------------------------

Init ==
  /\ outMessages = <<>> /\ out = <<>> /\ answers = 0 /\ pub = "send"
  /\ in = <<>> /\ rcv = "retrieve" /\ header = <<>> /\ need = 0
  /\ inbox = <<>> /\ status = "running"
  /\ sent = <<>> /\ handled = <<>> /\ mailed = <<>> /\ given = 0 /\ shown = <<>>

Publisher == Send \/ Answered
Receiver  == GetLine \/ GetLength \/ NoLength \/ ReadBody \/ Overrun
Server    == ServerHandle \/ ServerRetrieve
Callbacks == Dispatch \/ DispatchThrows

Running(A) == status = "running" /\ A
Next == Running((\E m \in ApiCall : Call(m)) \/ Publisher \/ Server \/ ServerMail
                  \/ Receiver \/ Callbacks)

Spec     == Init /\ [][Next]_vars
FairSpec == Spec /\ WF_vars(Running(ServerRetrieve \/ Receiver))  \* one or the other
                 /\ WF_inbox(Running(Take))   \* only Callbacks do

-----------------------------------------------------------------------------
(* Properties *)

\* The receiver has taken apart what the server put together, so far: no topic
\* or sender with LENGTH in it, no body that fills the buffer.
Plain(m) == /\ ~ Contains(m.topic, "LENGTH") /\ ~ Contains(m.sender, "LENGTH")
            /\ Len(m.body) < BufSize

\* The server handles the requests as they were made, in order, even after a
\* body with a zero in it: the bytes it misses keep publisher and server
\* waiting for each other, and are never taken from the next request.
HandledAsSent == IsPrefix(handled, sent)

\* What callbacks get are the messages of the server, in order, complete up to
\* a zero in the body, whatever words of the protocol a body holds, as long as
\* no message before was one that the receiver cannot take apart.
ShownAsMailed ==
  (\A i \in 1..given : Plain(mailed[i])) =>
    /\ Len(shown) <= Len(mailed)
    /\ \A i \in 1..Len(shown) : shown[i] = [mailed[i] EXCEPT !.body = CString(@)]

\* Again and again all mail has reached its callback, as long as none of it
\* was such a message: the receiver never waits for a byte too many.
PlainMailIsShown ==
  []<>((\A i \in 1..Len(mailed) : Plain(mailed[i])) => Len(shown) = Len(mailed))

\* A callback runs each time a message of its topic is received.
MailIsShown ==
  \A k \in 1..(MaxSent + MaxMail) : (Len(mailed) >= k) ~> Len(shown) >= k

=============================================================================
