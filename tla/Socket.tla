------------------------------- MODULE Socket -------------------------------
(***************************************************************************)
(* Socket: sock_connect tries the addresses of the host one after the      *)
(* other until one accepts; sock_disconnect closes the descriptor.  The    *)
(* threads that open sockets share the descriptor table of the process.    *)
(* Client takes one fact from here: sock_connect returns a descriptor that *)
(* is connected and the caller's own, or -1.                               *)
(***************************************************************************)
EXTENDS Integers

CONSTANTS
  Openers,   \* threads, each with a Socket
  Tries,     \* number of addresses getaddrinfo gives
  Limit,     \* descriptors the process may still open
  None       \* what a free descriptor refers to

Addr == 1..Tries                  \* the list results; Tries + 1 is NULL
Fd   == 0..(Limit - 1)
Try  == [who : Openers, addr : Addr, connected : BOOLEAN]

ASSUME SizeAssumption == Tries \in Nat \ {0} /\ Limit \in Nat
ASSUME FreeAssumption == None \notin Try

VARIABLES
  pc,        \* opener -> point in the code
  rp, fd,    \* opener -> its position in results, its socket_fd
  sfd,       \* opener -> the member of its Socket
  table,     \* descriptor -> what it refers to, or None
  up,        \* the addresses at which the server accepts
  full       \* history: socket() has failed

vars == <<pc, rp, fd, sfd, table, up, full>>

Init ==
  /\ pc = [o \in Openers |-> "resolve"]
  /\ rp = [o \in Openers |-> 1] /\ fd = [o \in Openers |-> -1]
  /\ sfd = [o \in Openers |-> -1]
  /\ table = [f \in Fd |-> None]
  /\ up \in SUBSET Addr /\ full = FALSE

Unresolved(o) ==
  /\ pc[o] = "resolve"
  /\ pc' = [pc EXCEPT ![o] = "failed"]
  /\ UNCHANGED <<rp, fd, sfd, table, up, full>>

Resolve(o) ==
  /\ pc[o] = "resolve"
  /\ pc' = [pc EXCEPT ![o] = "socket"]
  /\ UNCHANGED <<rp, fd, sfd, table, up, full>>

\* The end of the loop's body with f in socket_fd: rp moves on, and the loop
\* goes round if there is an address left and no socket yet.
Retry(o, f) ==                                  \* mutant: rp does not move on
  /\ rp' = rp
  /\ fd' = [fd EXCEPT ![o] = f]
  /\ pc' = [pc EXCEPT ![o] = IF f < 0 THEN "socket" ELSE "finish"]

TryAll(o, f) ==                                 \* mutant: no test of socket_fd
  /\ rp' = [rp EXCEPT ![o] = @ + 1]
  /\ fd' = [fd EXCEPT ![o] = f]
  /\ pc' = [pc EXCEPT ![o] = IF rp[o] < Tries THEN "socket" ELSE "finish"]

TurnPast(o, f) ==                               \* mutant: takes NULL for an address
  /\ rp' = [rp EXCEPT ![o] = @ + 1]
  /\ fd' = [fd EXCEPT ![o] = f]
  /\ pc' = [pc EXCEPT ![o] = IF f < 0 /\ rp[o] <= Tries THEN "socket" ELSE "finish"]

Turn(o, f) ==
  /\ rp' = [rp EXCEPT ![o] = @ + 1]
  /\ fd' = [fd EXCEPT ![o] = f]
  /\ pc' = [pc EXCEPT ![o] = IF f < 0 /\ rp[o] < Tries THEN "socket" ELSE "finish"]

\* socket() takes the lowest free descriptor.
MakeSocket(o) ==
  /\ pc[o] = "socket"
  /\ \E f \in Fd :
       /\ table[f] = None /\ \A g \in Fd : g < f => table[g] # None
       /\ table' = [table EXCEPT ![f] = [who |-> o, addr |-> rp[o], connected |-> FALSE]]
       /\ fd' = [fd EXCEPT ![o] = f]
  /\ pc' = [pc EXCEPT ![o] = "connect"]
  /\ UNCHANGED <<rp, sfd, up, full>>

NoSocket(o) ==
  /\ pc[o] = "socket" /\ \A f \in Fd : table[f] # None
  /\ Turn(o, -1)
  /\ full' = TRUE
  /\ UNCHANGED <<sfd, table, up>>

Connect(o) ==
  /\ pc[o] = "connect" /\ rp[o] \in up
  /\ table' = [table EXCEPT ![fd[o]] = [who |-> o, addr |-> rp[o], connected |-> TRUE]]
  /\ Turn(o, fd[o])
  /\ UNCHANGED <<sfd, up, full>>

RefusedKept(o) ==                               \* mutant: socket_fd = -1 left out
  /\ pc[o] = "connect" /\ rp[o] \notin up
  /\ Turn(o, fd[o])
  /\ UNCHANGED <<sfd, table, up, full>>

\* The descriptor stays open, and nothing refers to it any more.
Refused(o) ==
  /\ pc[o] = "connect" /\ rp[o] \notin up
  /\ Turn(o, -1)
  /\ UNCHANGED <<sfd, table, up, full>>

Finish(o) ==
  /\ pc[o] = "finish"
  /\ sfd' = [sfd EXCEPT ![o] = fd[o]]
  /\ pc' = [pc EXCEPT ![o] = "returned"]
  /\ UNCHANGED <<rp, fd, table, up, full>>

Disconnect(o) ==
  /\ pc[o] = "returned"
  /\ pc' = [pc EXCEPT ![o] = "disconnected"]
  /\ sfd' = [sfd EXCEPT ![o] = -1]
  /\ table' = IF sfd[o] < 0 THEN table ELSE [table EXCEPT ![sfd[o]] = None]
  /\ UNCHANGED <<rp, fd, up, full>>

Over == {"failed", "disconnected"}

SockConnect(o) == \/ Unresolved(o) \/ Resolve(o) \/ MakeSocket(o) \/ NoSocket(o)
                  \/ Connect(o) \/ Refused(o) \/ Finish(o)

Step(o) == SockConnect(o) \/ Disconnect(o)

Ended == (\A o \in Openers : pc[o] \in Over) /\ UNCHANGED vars

Next == (\E o \in Openers : Step(o)) \/ Ended

Spec     == Init /\ [][Next]_vars
FairSpec == Spec /\ \A o \in Openers : WF_vars(SockConnect(o))

-----------------------------------------------------------------------------
(* Properties *)

TypeOK ==
  /\ pc \in [Openers -> {"resolve", "socket", "connect", "finish", "returned"} \cup Over]
  /\ rp \in [Openers -> 1..(Tries + 1)]
  /\ fd \in [Openers -> {-1} \cup Fd] /\ sfd \in [Openers -> {-1} \cup Fd]
  /\ table \in [Fd -> Try \cup {None}]
  /\ up \in SUBSET Addr /\ full \in BOOLEAN

\* What sock_connect returns is -1 or a descriptor that is open, connected to
\* an address that accepts, and not shared with another thread.
ConnectedOrNone ==
  \A o \in Openers : pc[o] = "returned" /\ sfd[o] >= 0 =>
    \E a \in up : table[sfd[o]] = [who |-> o, addr |-> a, connected |-> TRUE]

\* It is the first such address, and -1 only if there is none, unless the
\* descriptor table was full when it was tried.
FirstThatAccepts ==
  \A o \in Openers : pc[o] = "returned" /\ ~ full =>
    \/ sfd[o] < 0 /\ up = {}
    \/ sfd[o] >= 0 /\ \A a \in up : table[sfd[o]].addr <= a

\* The descriptors lost to refused connections are bounded: a thread has at
\* most one open descriptor for each address it has tried.
OneDescriptorPerTry ==
  /\ \A f, g \in Fd : table[f] # None /\ table[f] = table[g] => f = g
  /\ \A f \in Fd : table[f] # None => table[f].addr <= rp[table[f].who]

\* sock_connect comes back, however many addresses refuse.
Returns == \A o \in Openers : <>(pc[o] \in {"returned"} \cup Over)

=============================================================================
