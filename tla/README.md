# A TLA+ model of the publish/subscribe client

The program is a client library for a publish/subscribe chat server
(`src/client`, `include/ps_client/client.h`) with two applications: `echo_test`
(`src/tests`) and a chat room (`src/user_app`). The library is small, but all of
it is about threads: two detached sender threads, the application's threads and
`main` share two `std::deque`s, a `std::map`, a flag and four semaphores. The
modules here model those threads at the grain of their accesses to shared
memory, semaphores and sockets.

Paths below are relative to the repository; line numbers are in `PROJECT.json`
under `map`.

## Inventory

| component | state | operations | in the model |
|---|---|---|---|
| `Client` object (`client.cpp`) | `outMessages`, `inbox`, `topicCallbacks`, `disconnect_msg`, `out_lock`, `sock_lock`, `io_lock`, `callback_lock` (never used), `nonce` (never set) | `publish`, `subscribe`, `unsubscribe`, `disconnect`, `run`, `shutdown`, getters | `Client.tla`, `CarefulUse.tla`; abstractly `PubSub.tla` |
| publishing thread (`thread_functions.cpp`) | its socket, the message in hand | connect and IDENTIFY; test `shutdown()`, pop `outMessages`, send, read one reply line; close | `Client.tla`; the text in `Wire.tla` |
| receiving thread | its socket, the reply in hand | connect and IDENTIFY; test `shutdown()`, send RETRIEVE, read header and body, push to `inbox` | `Client.tla`; the bytes in `Wire.tla` |
| callback dispatch (`callbacks_thread`, which runs on `main`) | the message in hand, an iterator into `topicCallbacks` | pop `inbox`, parse, find the topic, run the callback under `io_lock` | `Client.tla`; the parsing in `Wire.tla` |
| `Callback` classes (`callback.cpp`) | none | print a message | one record in `shown` |
| `Thread` (`thread.cpp`) | a `pthread_t` | start, detach, join; `run()` calls `pthread_cancel` on it | `Client.tla`, except join |
| `Socket` (`socket.cpp`) | a descriptor | `sock_connect` tries each address; `sock_disconnect` | `Socket.tla`; its result in `Client.tla` |
| `Message` and wire format | text | format the request line; find `LENGTH`, `FROM`, spaces; `substr`, `stoi` | `Wire.tla` |
| `echo_test` | a generator thread | publish 10 messages, disconnect; main subscribes and runs | `EchoTest.tla` |
| `user_app` chat | a generator thread | read lines under `io_lock` and publish them, for ever | `ChatApp.tla`; the endless part abstractly in `ChatTurns.tla` |
| unit tests | none | four assertions on single calls | not modelled |
| server | subscriptions and a mailbox per client | outside the repository | external actions |
| `contrib/gtest`, build files | | vendored, or without behaviour | not modelled |

### How the parts interact

Application threads (`Callers`) call the methods. A method pushes a `Message`
to `outMessages` without a lock; `subscribe` and `unsubscribe` first change
`topicCallbacks`, also without a lock; `disconnect` afterwards sets
`disconnect_msg` under `out_lock`. The publisher pops `outMessages` under
`out_lock`, which therefore excludes the publisher from nobody who pushes, and
exchanges request and reply with the server on its own connection. The receiver
asks for messages on a second connection and pushes them to `inbox`, which
`main` pops with no lock on either side. Both senders take `sock_lock`, the same
semaphore for two sockets, for each `fputs`. Each of the three loops calls
`shutdown()`, which takes `out_lock`, before every message. When `main` finds
the flag set it cancels both senders and returns from `run()`.

### What is hard, and what makes each part correct

* **Unlocked pushes** (`outMessages`). With one calling thread, no message may
  be lost, torn or sent out of order even though the publisher pops at the same
  time, and the same holds for several that push in turn: `QueueKeepsAll`,
  `HandledInOrder`. With two that push at once, as both applications have,
  messages are lost, torn, popped out of order or written outside the queue;
  what is left to ask is that the application still ends, and that it loses
  nothing when the pushes did not meet: `EchoEnds`, `LinesReachServer`.
* **Unlocked inbox**. Nothing read from the server is lost, repeated or
  reordered before dispatch: `InboxInOrder`, `CallbacksInOrder`.
* **A test and then a use** (`shutdown()`, `empty()`, `find()`). The flag, the
  queue and the map may change between the two: `AtMostOneAfterDisconnect`,
  `TopicsSynchronized`.
* **Two views of the subscriptions**, the map at once and the server later:
  `SubscriptionsAgree`.
* **Cancellation** anywhere in a sender, with a semaphore down:
  `MutualExclusion`, `SemaphoresReturn`, `DisconnectEnds`, `EchoEnds`.
* **Progress** with three loops contending for `out_lock`, and a receiver that
  waits for a reply that may never come: `DeliversAsPubSub`,
  `DisconnectEnds`, `EchoEnds`.
* **Failure**: refused connections, `fdopen(-1)`, end of file, a reply without
  `LENGTH`: `SuccessMeansDisconnected`.
* **Undefined behaviour** within reach of an ordinary call (a freed iterator,
  `erase(end())`, a deque that moves its blocks): `OnlyLateUse` says which use
  of the library is safe.
* **A semaphore held while a person thinks** (`io_lock` in the chat), and three
  loops that never end beside it: `PromptUndisturbed`, `LinesReachServer`,
  `ImplementsTurns`, `MainComesRound`.
* **Text that looks like the protocol**, that C strings cut short, or that makes
  the parsing throw: `HandledAsSent`, `ShownAsMailed`, `PlainMailIsShown`.
* **A loop with three ways round** and a shared descriptor table:
  `ConnectedOrNone`, `FirstThatAccepts`, `OneDescriptorPerTry`, `Returns`.

`PROJECT.json` lists every hazard at its line, with the properties that cover
it or the reason none does.

## The modules

| module | models |
|---|---|
| `Client` | the `Client` object, its callers, both senders, `main`, the server; all component properties |
| `EchoTest` | `Client` driven by the two threads of `echo_test` |
| `ChatApp` | `Client` driven by the chat application and its user |
| `ChatTurns` | abstract: what the threads of the chat do to each other through `io_lock` and `out_lock`, for ever |
| `CarefulUse` | `Client` driven by an application that keeps the unwritten rules |
| `PubSub` | abstract: what the library promises one calling thread |
| `ClientRefinement` | the mapping under which `Client` implements `PubSub` |
| `Wire` | the bytes on both connections: formatting, the server's replies, parsing |
| `Socket` | `sock_connect` and `sock_disconnect` on a descriptor table |
| `MC...` | instances for TLC; one `.cfg` per run |
| `ClientProofs` | the inductive invariant and the theorems that follow from it |
| `ClientOrderingProofs` | what the two queues keep and in which order; the two views of the subscriptions |
| `ClientRefinementProofs` | the refinement |
| `CarefulProofs`, `ChatProofs` | the invariants of two of the applications |
| `ChatTurnsProofs` | that `ChatApp` implements `ChatTurns` |
| `SocketProofs`, `WireProofs` | the invariants of `Socket` and of `Wire`, and what its text operators return |

`EchoTest`, `ChatApp` and `CarefulUse` each extend `Client` and replace its
arbitrary calls by those of one application; everything inside the library is
the disjunct `Inside`, which they share. `Wire` and `Socket` stand below it:
`Client` takes from `Socket` that a connect gives a connected descriptor of
one's own or -1, and from `Wire` that a line is one request and a reply is one
message; where `Wire` shows that not to hold, `Client` has the oddity
`NOLENGTH`, or `Plain` excludes the case.

### State and actions of `Client`

`pc[t]` is the point of the source that thread `t` has reached, `msg[t]` the
`Message` it has in hand.

| code | points of `pc` | actions |
|---|---|---|
| `publish`, `subscribe`, `unsubscribe`, `disconnect` | `app`, `insert`, `erase`, `flagWait`, `flag` | `Call`, `Insert`, `Erase`, `EraseEnd`, `FlagWait`, `Flag` |
| their `push_back` | `push`, `construct`, `load`, `store`; at the end of a block `link`, `constructLast`, `setNode`, `setCur` | `PushBack`, `Construct`, `Load`, `Store`; `Link`, `Construct`, `SetNode`, `SetCur`; `ConstructStray` |
| `shutdown` | `check`, `test` | `CheckWait`, and `PubCheck`, `RcvCheck`, `MainCheck`, which use `Shutdown` |
| connecting and one exchange | `connect`, `putWait`, `put`, `get` | `Connect`, `PutWait`, `Put`, `PutNull`, `Get`, `GetEof`, `Cancelled` |
| `publishing_thread` | `poll`, `popWait`, `pop`, `close`, `done` | `Poll`, `PopWait`, `Pop`, `PopJunk`, `Close` |
| `receiving_thread` | `get`, `push`, `done` | `Read`, `ReadNoLength`, `Push` |
| `run` | `app`, `startReceiver`, `check`, `cancelPublisher`, `cancelReceiver`, `returned` | `Run`, `StartReceiver`, `CancelPublisher`, `CancelReceiver`, `Return`, `LateUse` |
| `callbacks_thread` | `dispatch`, `find`, `ioWait`, `callback` | `InboxEmpty`, `Dispatch`, `Find`, `IoWait`, `RunCallback`, `FreedCallback` |
| data races on the map and on a deque that grows | | `MapRace`, `GrowthRace` |
| the server (external) | | `ServerHandle`, `ServerRetrieve`, `ServerMail`, `ServerClose` |

How the code's details appear:

* **`outMessages`** is `cell`, an array of slots, with the cursors `start` and
  `finish`. Slots lie in blocks of `BlockLength` (3 in libstdc++: 512 bytes of
  152-byte messages); `blocks` are those linked so far, `node` the one that
  `finish` belongs to. `push_back` is what it compiles to. It compares `finish`
  with the last slot of `node`; within the block it constructs the element at
  `finish`, loads `finish` and stores it incremented; at the block's last slot
  (`_M_push_back_aux`) it links a new block, constructs, moves `node` and then
  `finish` there. Two pushes may thus fill one slot, which may become a mixture
  (`Junk`), move `finish` by one, or back, or store a stale cursor beside the
  new node. A cursor that leaves its block that way, or lies in one that
  `pop_front` has freed, is `Stray`: what is written through it lands in any slot
  or in memory of no interest, or ends the process (`ConstructStray`), and
  `empty()` may see it equal to `start` or not (`Poll`). `pop_front` and `front`
  touch `start` only; `start` walks the slots one by one, over the end of a block
  into the next. Stores become visible in program order, as on x86.
* **Growth.** A push that finds the deque's map of blocks full moves the map and
  writes `start` too. `OutGrowth` and `InGrowth` are the pushes at which this
  happens: with blocks of 512 bytes, the 15th push of a `Message` and the 80th
  of a string are the first. A thread that pops or links a block at that moment
  meets undefined behaviour (`GrowthRace`). The instances put it at the 1st or
  2nd push, within reach; the theorems hold for every choice.
* **The inbox** has one producer and one consumer, at opposite ends, so its
  push and pop are one step each, but for `GrowthRace`.
* **Undefined behaviour** is a step to status `"crashed"` that may happen
  beside the ordinary outcome: copying an unconstructed `Message` (`PopJunk`),
  using the iterator after `unsubscribe` freed its node (`FreedCallback`), two
  threads in `topicCallbacks` one of which changes it (`MapRace`), a thread that
  uses `arg` or the `Client` after `main` has left their frames (`LateUse`).
  `erase(end())`, `fputs` on the `NULL` of `fdopen(-1)` and the exception of
  `stoi` always end the process.
* **A failed `fputs`** and the reply that is then missing are one event: the
  `fgets` that returns `NULL` and calls `exit`. The default action of `SIGPIPE`,
  which ends the process too, is counted as the same failure.
* **`exit`** and a crash end every thread: `status` changes and only the
  stutter `Ended` is left. `Ended` keeps the deadlock check of TLC on: a state
  of a running process in which no thread can move would be reported.
* **Cancellation** takes effect at the blocking calls (`sem_wait`, `connect`,
  `fputs`, `fgets`, `close`), or never. A semaphore the thread holds stays down.
  `pthread_cancel` on a thread that has finished has no effect, as in glibc,
  where the descriptor of a finished thread stays mapped in the stack cache.
* **Topics and bodies** are model values; `Oddities` are replies of another
  type, or without `LENGTH`.
* **The server** handles one request per line it gets and answers it with one
  line, answers RETRIEVE once there is mail, keeps one mailbox per client and
  sends a published message to the subscribers of its topic. `ServerMail` is
  what other clients publish, and any other reply the server may make up.
* `called`, `log`, `ndisp`, `shown`, `cut` are history: properties read them,
  no guard of the code does (`Call` reads `Len(called)` only for its bound).

Operators marked `mutant` are plausible mistakes in the definition that follows
them (a dropped `sem_post`, `back()` for `front()`); no specification uses them.
Put in place of that definition, each breaks the property that `PROJECT.json`
names with it, under `mutants`, and so shows that the property can fail.

`EchoTest` replaces the arbitrary calls of `Client` by those of `echo_test`: the
generator makes `EchoMessages` calls of `publish` and one of `disconnect`, while
`main` calls `subscribe` and then `run`.

### `ChatApp` and `ChatTurns`

In `ChatApp`, `line` is the text `chat_generator` will publish next. The
generator's own loop adds points to `pc`: `check` and `test` (`shutdown()`,
actions `Loop`, `CheckWait`, `ChatCheck`), `ignore` (`cin.ignore`), `ioWait`
(`PromptWait`), `prompt` (`Prompt`, which is `getline` and the `sem_post`);
`Publish` is the call of `publish`, of "has joined." first and of a typed line in
each round. `Subscribe` and `ChatRun` are `main`. Nothing calls `disconnect`, as
in the code.

The generator goes round for ever, and after the end of the input without
waiting for anybody; a model with queues can follow it for a few calls only.
`ChatTurns` leaves the queues out and keeps what the threads do to each other:
where `chat_generator` and `main` are in their loops, whether a sender is inside
`out_lock` (`busy`), whether the inbox holds a text (`waiting`), the two
semaphores, and whether the input has ended. It has no bound. `ImplementsTurns`
says that `ChatApp` implements it, under the mapping beside it (`GenAt`, `MainAt`,
`Busy`). That is about steps; the fairness of the two is stated for the same
threads, but that one gives the other is not checked.

### `CarefulUse`

The rules are what the code expects and no document says: no thread calls a
method while another is in one (up to the end of its `push_back`), which takes a
lock of the application's own; subscriptions change before `run()` only;
`unsubscribe` names a topic that has been subscribed to; queues stay below their
first growth; connections and replies are in order. `CarefulCall` and
`CarefulRun` are `Call` and `Run` with these rules as guards. `OnlyLateUse` then
says that none of the undefined or fatal steps of `Client` can occur until
`run()` has returned, and that the one which remains (`LateUse`: detached threads
read `arg`, a local of `run()`) is the library's own. `HandledInOrder` holds as
for one caller.

### `Wire`

A text is a sequence of tokens: a word of the protocol, a number, a blank, a
newline, a zero byte, a letter. This is enough for every decision of the
parsers, which look for `LENGTH`, `FROM`, blanks, newlines, numbers and zeros.
`Numeral` is `to_string`: a length and the token it is written as, of however
many digits; `Stoi` reads it back.
`out` and `in` are the bytes on the two connections, so a wrong length makes the
reader take the rest of one message for the beginning of the next, as it would.
`GoodLine` and `CString` are what the publisher sends, `Length`, `Stoi` and
`Text` what the receiver reads, `Parse` what `callbacks_thread` extracts, with the
positions that `find` gives where it finds nothing (`npos`, which wraps round in
`npos + 5`). `ParseThrows` is when `substr` or `stoi` throws; nothing catches
it, so `DispatchThrows` ends the process. A body of at least `BufSize` tokens
fills `buffer_3`: `Overrun` then adds whatever lies behind it, or ends the
process. The server takes lines and bodies from `out` as the client's code
supposes.

### `Socket`

`rp` and `fd` are the locals of `sock_connect` (`rp = Tries + 1` is `NULL`),
`table` the process's descriptors; `socket()` takes the lowest free one.
`Turn` is the end of the loop's body, reached on all three ways: no socket
(`NoSocket`), refused (`Refused`, which leaves the descriptor open), connected
(`Connect`). Several threads open sockets at once and share the table.

### `PubSub` and the refinement

`PubSub` has no threads: calls go in and are handled in order; messages arrive,
are taken in order, and shown at most once and only for topics that were ever
subscribed to; the process ends well only after `disconnect()`. Its liveness is
that handling and taking go on until then. `ClientRefinement` maps `calls` to
`called`, `handled` to `log`, `taken` to `ndisp`, `closing` to `disconnectMsg`;
the other variables have the same names. All else in `Client` is stuttering.

## Runs

| run | question | bounds |
|---|---|---|
| `calls` | With one calling thread and every fault: do the queues, the server and the callbacks keep every call and message, complete and in order; do the two views of the subscriptions agree; do the locks exclude, and is none lost; is the exit orderly; is every step a step of `PubSub`? | 2 calls of any kind, 2 topics (symmetric), 1 message of the world; blocks of 2; refused and closed connections, both oddities; growth of `outMessages` at the 2nd push, of the inbox at the 1st |
| `live` | Does `Client` keep `PubSub`'s promise that sending and taking go on, and does `disconnect` win the lock and end the process? | 2 calls, 1 message; blocks of 2 |
| `echo_ends` | Does `echo_test` ever hang? | 1 numbered message, 3 calls of two threads; blocks of 3 |
| `careful` | Which faults are left to an application that keeps the rules, and are its calls handled in order? | 3 calls of two threads, 1 message; blocks of 2 |
| `chat` | Does a callback ever print into a prompt; is what was said sent although the user leaves the next prompt; do the threads take turns as `ChatTurns` says? | 3 calls: `subscribe`, "has joined." and a typed line, and the prompt after it; blocks of 3 |
| `chat_turns` | Does `main` ever wait for anything but the user? | none |
| `socket` | What does `sock_connect` return, what does it leave open, does it always come back? | 3 threads, 3 addresses, 5 descriptors |
| `wire` | Is text taken apart as it was put together, and does a message that can be taken apart reach its callback? | 2 topics, 4 bodies of up to 11 tokens, 2 calls, 1 message of another client |
| `queue_race`, `topics_race`, `echoed`, `wire_length` | disagreements between code and documents, below | the least at which they appear |

The bounds are `MaxOut` (calls that push), `MaxMail` (messages the world sends;
the client's own messages come on top) and `EchoMessages` (10 in the code).
They are named constants and appear in guards of the environment only, never in
a guard of the code. Two calls are enough for one
to be handled, or in the publisher's hand, while another is pushed, for a
subscribe with an unsubscribe or a disconnect behind it; the theorems cover any
number. `careful`, `chat` and `echo_ends` have three calls. The queues have no capacity
in the code, so no size is special but empty, non-empty, the end of a block and
those at which a deque grows (`OutGrowth`, `InGrowth`; none in `careful`, whose
rules exclude them, and in `chat`). Every passing run with calls crosses the end of a
block: where two threads push at once, blocks have the three messages of the code
and three calls reach it, in any order of the two threads' steps; elsewhere
blocks of two have it reached by two calls, and crossed by a third. One caller in
`calls` and `live` is a use the library can support; the two callers of
`echo_test` and of the chat are in their own runs, and the theorems on locks and
inbox cover any number of callers, those on `outMessages` any number that do
not overlap.

In the chat, the three calls are main's `subscribe`, the generator's "has
joined." and a line the user types, after which the generator stands at its second
prompt with `io_lock` while `main` may have the user's own line to show: the
states the questions are about. What does not depend on calls goes on for ever
in `chat_turns`. In `socket` three threads need up to nine descriptors and have
five, so `socket()` fails in some behaviours. In `wire` the four bodies are an
empty one, one full of the protocol's words, one with a zero byte, and one of
eleven tokens that fills the buffer and holds a header of its own: where a wrong
length leaves the rest of it on the connection, the receiver takes that for a
message, which the parsing of `callbacks_thread` throws on. Its length has two
digits. The topics are `FROM` and one with `LENGTH` and a number.
`CHECK_DEADLOCK FALSE` in the `wire` runs: after a body with a zero byte publisher
and server wait for each other for good, and the calls are bounded.

### Fairness

Every thread of a running process is scheduled. The three loops take and post
`out_lock` for as long as they run, so a thread at `sem_wait` is enabled again
and again but not all the time, and weak fairness would let `disconnect()` wait
for ever. The fairness of each thread is therefore strong, one condition for each:
a semaphore that is posted again and again lets every waiter through eventually.
Two threads that wait are two conditions, so neither gets its turn at the
expense of the other. The server's
answers are weakly fair, `ServerMail` and `ServerClose` are not fair, and
neither are the application's calls in `Client`; `run()` is eventually called.
In `EchoTest` the generator and `main` go on, as `sleep(1)` ends. `DisconnectEnds`
and `EchoEnds` do not need the server to have mail: the receiver may wait in
RETRIEVE for ever, and is ended with the process.

In the chat the user need never type: `Ignore` and `Prompt` are not fair in
`ChatApp`, and in `ChatTurns` only once the input has ended, when both return at
once. The generator's other steps, which wait for `out_lock` and `io_lock`, are
strongly fair like those of any thread. `ChatTurns` needs no fairness of the
senders but that one inside `out_lock` comes out of it.
In `Wire` the receiver with the server that answers its RETRIEVE (one of them is
enabled at a time) and the dispatch are weakly fair; the publisher is not, since
only received messages matter there, and locks are in `Client`. In `Socket`
`sock_connect` is weakly fair for each thread, as `getaddrinfo`, `socket` and
`connect` return; `sock_disconnect` need never be called.

## What the runs found

Each is a run expected to violate one property, which a document of the
repository states. `README.md` here is the repository's own.

1. `queue_race`. `README.md:26` promises concurrent data structures between
   threads. The push takes no lock: `subscribe` on `main` and `publish` on the
   generator, both in `echo_test`, lose or tear a message. (With a push that
   meets another at the end of a block, messages are popped out of order as
   well, or written outside the queue; `InTurnInOrder` therefore assumes that no two
   pushes overlap.)
2. `topics_race`. `README.md:31` says that access to the topics is synchronized.
   `topicCallbacks` is changed and searched without a semaphore, and
   `callback_lock` is never used.
3. `echoed`. `Makefile:18` describes `echo_test` as sending messages and having
   them echoed back. It can succeed without one of them having been sent, as the
   generator's `disconnect` overtakes what is queued, or with one in the inbox,
   as `run()` stops at the flag whatever the inbox holds.
4. `wire_length`. `README.md:50` says that the callback runs each time a message
   of its topic is received. The receiver takes the first `LENGTH` of the header
   line, topic and sender included, for the field: with a topic that holds the
   word it reads a wrong number, then a wrong number of bytes, and the callback
   of a subscribed topic does not run.

Two more things the modules show and no document denies. A body with a zero
byte stops the publisher for good (`HandledAsSent` says that at least nothing of
it is taken for the next request). And after the chat's input has ended, the
generator publishes empty messages until it is killed, as nobody calls
`disconnect()`; `main` still gets its turn at the semaphores (`MainComesRound`).

## Proofs

All theorems are for every value of the constants that satisfies the named
assumptions of their module. Those of `Client` are `CallersAssumption` (callers
are not the sender threads; `main` may be one), `BoundsAssumption`,
`BlockAssumption` (a block has at least one slot), `OddityAssumption`,
`GrowthAssumption`, `FaultsAssumption` and `NoValueAssumption`.

`ClientProofs`. `Steps` reduces `[Next]_vars` to a stutter, the death of the
process, or a step of one thread. None of the properties is inductive alone, so
the invariant is `IInv == TypeOK /\ Handling /\ Locks /\ Late /\ Ending`:

* `Handling`: what a thread has in hand where it uses it. Without it `TypeOK` is
  not preserved: the receiver must have a reply in hand at the push, the
  publisher a call when the server handles it, and there must be a message when
  RETRIEVE is answered.
* `Locks`: a thread inside a section holds its semaphore and is alone there. It
  is needed so that `sem_post` never takes a semaphore above 1. Cancellation is
  no exception: the dead thread has left the section and its semaphore stays 0.
* `Late`: after `disconnect_msg`, a thread between its test and its pop has not
  yet used its one message.
* `Ending`: how far `main` is on its way out of `run()`.

One lemma per conjunct shows that a step preserves it, `NextIInv` combines them,
and `Invariance`, `TypeCorrect`, `Exclusion`, `PromptDisconnect` and
`OrderlyEnd` follow. `NoneLost` adds the converse of `Locks`: a semaphore that is
down has a thread in its section. It is inductive with `TypeOK` and `Handling`, which
says that a sender is not in a section yet when it is started. Only `sock_lock` can
stay down, with a sender cancelled in `fputs`, when `main` cancels both.

`ClientOrderingProofs` adds two invariants on either side of the client. `Inbox`
(what lies between `nread` and `ndisp`) and `Shown` give `InboxOrdered` and
`CallbacksOrdered` for any number of callers and all faults. `Queue` (where the
producer is in its push), `Chain` (which block `finish` lies in, and the
moment between the two stores that move it to the next) and `Pipeline` (where the
message in the publisher's hand stands between `start` and `log`) give
`QueueComplete` and `FirstCalledFirstHandled` for executions in which no two
pushes overlap, whichever threads make them (`[]Apart`); `Chain` and `Queue`
together show that no cursor strays. Run `queue_race` shows that the assumption
cannot be dropped. With one caller it holds by itself.

It also proves `Subscriptions`. `SubscriptionsAgree` is not inductive while a
caller is between its call and the change of the map, so `Agree` counts only the
calls whose change is in place (`Applied`) and says, for each topic, that nothing
is pending and both views agree, or that the last pending change is what the map
holds. That the server handles the calls in order is
`FirstCalledFirstHandled`'s invariant.

`ClientRefinementProofs` proves `Refinement`: the initial states map to
`PS!Init`, and under `[]Apart` and the invariants of the modules before every step
is a step of `PubSub` or leaves its variables alone. `OnRequest` is the one invariant it
adds: each method works on a call that was made, and each topic in
`topicCallbacks`, or in `main`'s hand on its way to the callback, has been
subscribed to.

`CarefulProofs` proves `OneFaultLeft` and `InTurnInOrder`, for any number of
threads, with the invariants of `ClientProofs` and `ClientOrderingProofs` for the
restricted next-state relation, and two more: `Apart`, which the rule on calls
gives (`InTurn`), and `Calm`: callers change the map only while `main` has not
called `run()`, they erase only what is there, no iterator is dangling, no
connection is null. `FrontComplete` shows that the slot the publisher pops is
complete.

`SocketProofs` is for any number of threads, addresses and descriptors. The
invariant says whose each descriptor is and which address it was tried for: a
thread's open descriptors are for addresses before `rp`, or the one in `fd` it
is about to connect; an address passed over refuses, unless `socket()` failed.
`TypeCorrect`, `OwnConnection`, `FirstAddress` and `BoundedLeak` follow.

`ChatProofs` proves `Undisturbed`. `IoLock` is inductive by itself: `Aside` is a
step that leaves `io_lock` alone and enters neither the prompt nor a callback,
and all steps but four are.

`ChatTurnsProofs` proves `TakeTurns`: `ChatApp` implements `ChatTurns`, for any number
of calls, any texts and every fault. The invariant `Chatting` says where each
thread may be as long as nobody calls `disconnect()` (`Places`, `NoEnd`) and that a
thread inside `out_lock` is alone there (`Alone`), without which a sender could
enter while `busy` holds. `Kinds` sorts the steps by what they do to the
semaphores; one lemma for each kind shows that it preserves the invariant and is
a step of `ChatTurns` or a stutter, and `Sorted` that every step is of one kind.

`WireProofs` is for any topics, names and bodies, any number of requests and
messages, any `BufSize`, bodies of any length. It rests on `WordAssumption`: a topic
or a name has no blank, newline or zero in it. The code does not check that, but
blanks separate the fields of every header, so the format demands it of the
application. `NumeralAssumption` is about `to_string`: the length of every body
has a numeral, which is no blank, newline or zero, and two lengths have two
numerals.

* The lemmas on text come first. `FindIs`, `FindNone` and `FindFirst` say what a
  search returns, the last from the fact that `<` on the naturals is well founded,
  which the library states without an operator parameter. `CStringIs` and `StoiIs`
  follow. `Publish`, `Subscribe`, `Disconnect` and `Header` list the tokens of the
  formats by position, `Published` to `Headed` show that the formatting operators
  produce them, and `TakePublish` to `TakeMessage` that the reading ones get out
  what was put in.
* `Requests` is the invariant of the publisher's connection: what was sent is
  handled, on the connection or queued, in this order, and at most one request
  is on the connection. That is why a body cut short at a zero is never filled up
  from the next request: none is sent before the reply. `RequestsIntact` follows.
* `Received` is that of the receiver's connection: the messages given to it are
  shown, in the inbox, or the one it is taking apart, of which `header`, `in` and
  `need` hold just what belongs to that point. It needs `Plain` for all messages
  given so far, as one that is not may leave any bytes on the connection.
  `ThrowsStep` shows that a text the parsing throws on is none of these.
  `MailIntact` follows.

TLC has checked these invariants on the instances of the runs before they were
proved.

Only model-checked: all liveness properties (`DeliversAsPubSub`, `DisconnectEnds`,
`EchoEnds`, `LinesReachServer`, `MainComesRound`, `PlainMailIsShown`,
`Returns`), as the prover handles neither fairness nor `ENABLED`. All other
properties of passing runs are theorems.

## Not modelled

* Headers longer than a buffer, and texts of replies without a `LENGTH` that have
  a number where `find() + 7` then points (`Client` has the reply without a
  number, `NOLENGTH`).
* `join`, getters, the value of `nonce`, the printing of callbacks: no decision
  depends on them.
* Which bytes a stray cursor of `outMessages` overwrites: a slot of the queue, memory
  that nobody reads, or the end of the process.
* A memory order weaker than x86's.
* The unit tests (four assertions on single calls), the build files, and
  `contrib/gtest`, a vendored test framework. It is about 51,000 of the
  repository's 52,000 lines of source, so the share of all lines that the map
  covers stays small although nearly every line of `src/client`, `src/tests` and
  `src/user_app` that changes state is in it.

## Plan

Done: `Client`, `EchoTest`, `ChatApp`, `ChatTurns`, `CarefulUse`, `PubSub` and the
refinements, `Wire`, `Socket`, with the proofs above. Left, in this order:

1. The refinement of `PubSub` for the applications: what of it `EchoTest` and
   `ChatApp`, with two callers, still keep.
2. A server that serves several clients at once, if its source becomes
   available: two instances of `Client` with one mailbox each.
