----------------------------- MODULE LegacyServer -----------------------------
(***************************************************************************)
(* The server of namespace simple_server, which src/main.cpp runs: a       *)
(* detached thread per connection (src/http/simple_server_http.cpp), and   *)
(* one poll thread for the sockets that were upgraded to WebSockets        *)
(* (src/websocket/simple_server_websocket_connection.cpp).                 *)
(*                                                                         *)
(* A request thread lists a socket in two vectors under a mutex and wakes  *)
(* the poll thread through an eventfd; the poll thread reads both vectors  *)
(* without the mutex, inside poll and after it.  A connection's thread is  *)
(* named by the connection.                                                *)
(***************************************************************************)
EXTENDS Sockets

(* What clients send: requests, and whatever follows an upgrade.  "long"   *)
(* fills the 1024 bytes the poll thread reads into.                        *)
CONSTANT Kinds

ASSUME KindsAssumption == Kinds \subseteq {"plain", "upgrade", "throws", "long"}

VARIABLES
  answer,     \* answer[c]: "none", "http" or "101"
  pc,         \* the main thread: "create", "accept", "returned" or "killed"
  thread,     \* thread[c]: where c's thread is; "none" before, "done" after
  nonblock,   \* connections whose socket is O_NONBLOCK
  event_fd,   \* the eventfd's descriptor
  signalled,  \* its counter is not 0 (nobody ever reads it)
  poll_fds,   \* the vector: records of fd and revents
  web_sockect_connections,  \* the vector: the descriptor of each element
  poller,     \* "none", "failed" (no eventfd), "poll", "wait" (in poll), "scan"
  asked,      \* how many entries the poll under way was given, else 0
  moved,      \* push_back has moved poll_fds away under it
  i           \* the index of the scan

lists == <<poll_fds, web_sockect_connections>>
polling == <<poller, asked, moved, i>>
vars == <<sockets, answer, pc, thread, nonblock, event_fd, signalled, lists, polling>>

Running == pc = "accept"

-----------------------------------------------------------------------------
(* An exception nobody catches, SIGPIPE or a fault ends the process. *)
Die ==
  /\ pc' = "killed"
  /\ UNCHANGED <<sockets, answer, thread, nonblock, event_fd, signalled, lists, polling>>

Goes(c, to) == thread' = [thread EXCEPT ![c] = to]

At(c, where) == Running /\ thread[c] = where

(* Clients and the eventfd share the descriptors of the process. *)
Available(f) == f \in ClientFds /\ Free(f) /\ f # event_fd

(* A std::vector of n elements has no room for another: its capacity went  *)
(* through the powers of two.                                              *)
Full(n) == \E k \in 0 .. n : n = 2^k

-----------------------------------------------------------------------------
(* Clients *)

Connect(c) ==
  /\ Running
  /\ Dial(c)
  /\ UNCHANGED <<answer, pc, thread, nonblock, event_fd, signalled, lists, polling>>

Send(c, m) ==
  /\ Running
  /\ Deliver(c, m)
  /\ UNCHANGED <<answer, pc, thread, nonblock, event_fd, signalled, lists, polling>>

Leave(c) ==
  /\ Running
  /\ Depart(c)
  /\ UNCHANGED <<answer, pc, thread, nonblock, event_fd, signalled, lists, polling>>

-----------------------------------------------------------------------------
(* The main thread *)

(* create_socket leaves the status of the step that failed; start() then   *)
(* closes the socket and returns.                                          *)
CreateSocket ==
  /\ pc = "create"
  /\ pc' \in {"accept", "returned"}
  /\ UNCHANGED <<sockets, answer, thread, nonblock, event_fd, signalled, lists, polling>>

(* accept; with no descriptor it fails and start() goes round again. *)
Accept(c, f) ==
  /\ Running
  /\ Available(f)
  /\ TakeNext(c, f)
  /\ conn' = [conn EXCEPT ![c] = "up"]
  /\ Goes(c, "recv")
  /\ UNCHANGED <<rx, eof, answer, pc, nonblock, event_fd, signalled, lists, polling>>

Mutant_AcceptDrops(c) ==
  /\ Running
  /\ \E f \in ClientFds : Available(f)
  /\ backlog # <<>> /\ c = Head(backlog)
  /\ backlog' = Tail(backlog)
  /\ conn' = [conn EXCEPT ![c] = "down"]
  /\ rx' = [rx EXCEPT ![c] = <<>>]
  /\ pc' = "returned"
  /\ UNCHANGED <<fd, eof, answer, thread, nonblock, event_fd, signalled, lists, polling>>

(* address_size is not initialised: when it is negative the kernel drops   *)
(* the connection it has accepted, accept fails and start() goes on.       *)
AcceptDrops(c) ==
  /\ Running
  /\ \E f \in ClientFds : Available(f)
  /\ backlog # <<>> /\ c = Head(backlog)
  /\ backlog' = Tail(backlog)
  /\ conn' = [conn EXCEPT ![c] = "down"]
  /\ rx' = [rx EXCEPT ![c] = <<>>]
  /\ UNCHANGED <<fd, eof, answer, pc, thread, nonblock, event_fd, signalled, lists, polling>>

(* The std::thread constructor throws. *)
SpawnFails ==
  /\ Running
  /\ backlog # <<>>
  /\ \E f \in ClientFds : Available(f)
  /\ Die

-----------------------------------------------------------------------------
(* The request threads *)

(* handle_connection_request: recv blocks until there is something. *)
Receive(c) ==
  /\ At(c, "recv")
  /\ rx[c] # <<>>
  /\ Head(rx[c]) # "throws"
  /\ Goes(c, IF Asks(c, "upgrade") THEN "get" ELSE "look")
  /\ Take(c)
  /\ UNCHANGED <<answer, pc, nonblock, event_fd, signalled, lists, polling>>

ReceiveDies(c) ==
  /\ At(c, "recv")
  /\ Asks(c, "throws")
  /\ Die

Mutant_ReceiveNothing(c) ==
  /\ At(c, "recv")
  /\ rx[c] = <<>>
  /\ eof[c] # "no"
  /\ Goes(c, "done")
  /\ UNCHANGED <<sockets, answer, pc, nonblock, event_fd, signalled, lists, polling>>

(* bytes_read <= 0: straight to closesocket. *)
ReceiveNothing(c) ==
  /\ At(c, "recv")
  /\ rx[c] = <<>>
  /\ eof[c] # "no"
  /\ Goes(c, "close")
  /\ UNCHANGED <<sockets, answer, pc, nonblock, event_fd, signalled, lists, polling>>

(* Every request calls websocket_connection_manager::get(), also one that  *)
(* is not an upgrade.                                                      *)
Dispatched(c) == IF thread[c] = "get" THEN "fcntl" ELSE "respond"

Get(c) ==
  /\ At(c, "get") \/ At(c, "look")
  /\ poller # "none"
  /\ Goes(c, Dispatched(c))
  /\ UNCHANGED <<sockets, answer, pc, nonblock, event_fd, signalled, lists, polling>>

(* The first call constructs the manager; the compiler makes others wait.  *)
(* Without an eventfd there is no poll thread.                             *)
GetCreates(c) ==
  /\ At(c, "get") \/ At(c, "look")
  /\ poller = "none"
  /\ \/ \E f \in ClientFds :
          /\ Available(f)
          /\ event_fd' = f
          /\ poll_fds' = <<[fd |-> f, revents |-> {}]>>
          /\ poller' = "poll"
     \/ /\ \A f \in ClientFds : ~Available(f)
        /\ poller' = "failed"
        /\ UNCHANGED <<event_fd, poll_fds>>
  /\ Goes(c, Dispatched(c))
  /\ UNCHANGED <<sockets, answer, pc, nonblock, signalled, web_sockect_connections,
                 asked, moved, i>>

Mutant_Fcntl(c) ==
  /\ At(c, "fcntl")
  /\ Goes(c, "push")
  /\ UNCHANGED <<sockets, answer, pc, nonblock, event_fd, signalled, lists, polling>>

(* create_new_ws_connection: O_NONBLOCK, ... *)
Fcntl(c) ==
  /\ At(c, "fcntl")
  /\ nonblock' = nonblock \cup {d \in Conns : Holds(d, fd[c])}
  /\ Goes(c, "push")
  /\ UNCHANGED <<sockets, answer, pc, event_fd, signalled, lists, polling>>

Locked == \E d \in Conns : thread[d] \in {"emplace", "signal"}

Push(c) ==
  /\ At(c, "push")
  /\ poll_fds' = Append(poll_fds, [fd |-> fd[c], revents |-> {}])
  /\ moved' = (moved \/ (poller = "wait" /\ Full(Len(poll_fds))))
  /\ Goes(c, "emplace")
  /\ UNCHANGED <<sockets, answer, pc, nonblock, event_fd, signalled,
                 web_sockect_connections, poller, asked, i>>

Mutant_PushBack(c) == Push(c)

(* ... add_socket_to_the_list: with the mutex, poll_fds, ... *)
PushBack(c) == ~Locked /\ Push(c)

(* ... web_sockect_connections ... *)
EmplaceBack(c) ==
  /\ At(c, "emplace")
  /\ web_sockect_connections' = Append(web_sockect_connections, fd[c])
  /\ Goes(c, "signal")
  /\ UNCHANGED <<sockets, answer, pc, nonblock, event_fd, signalled, poll_fds, polling>>

Mutant_Signal(c) ==
  /\ At(c, "signal")
  /\ Goes(c, "handshake")
  /\ UNCHANGED <<sockets, answer, pc, nonblock, event_fd, signalled, lists, polling>>

(* ... and the write to event_fd. *)
Signal(c) ==
  /\ At(c, "signal")
  /\ signalled' = TRUE
  /\ Goes(c, "handshake")
  /\ UNCHANGED <<sockets, answer, pc, nonblock, event_fd, lists, polling>>

(* A vector moves while the scan reads it. *)
RaceDies(c) ==
  /\ poller = "scan"
  /\ \/ At(c, "push") /\ ~Locked /\ Full(Len(poll_fds))
     \/ At(c, "emplace") /\ Full(Len(web_sockect_connections))
  /\ Die

(* A send reaches whoever holds the descriptor's number. *)
Answered(f, a) == [c \in Conns |-> IF Holds(c, f) THEN a ELSE answer[c]]

Mutant_Handshake(c) ==
  /\ At(c, "handshake")
  /\ answer' = Answered(fd[c], "101")
  /\ Goes(c, "respond")
  /\ UNCHANGED <<sockets, pc, nonblock, event_fd, signalled, lists, polling>>

(* The 101; the thread returns and leaves the descriptor open. *)
Handshake(c) ==
  /\ At(c, "handshake")
  /\ answer' = Answered(fd[c], "101")
  /\ Goes(c, "done")
  /\ UNCHANGED <<sockets, pc, nonblock, event_fd, signalled, lists, polling>>

(* The route's answer, or the one for no route. *)
Respond(c) ==
  /\ At(c, "respond")
  /\ answer' = Answered(fd[c], "http")
  /\ Goes(c, "close")
  /\ UNCHANGED <<sockets, pc, nonblock, event_fd, signalled, lists, polling>>

SendDies(c) ==
  /\ At(c, "handshake") \/ At(c, "respond")
  /\ eof[c] = "rst"
  /\ Die

Close(c) ==
  /\ At(c, "close")
  /\ Shut(fd[c])
  /\ Goes(c, "done")
  /\ UNCHANGED <<answer, pc, nonblock, event_fd, signalled, lists, polling>>

-----------------------------------------------------------------------------
(* The poll thread: check_and_notify_events *)

(* A reset hangs up both directions; end of file and errors are readable   *)
(* too, so that a TCP socket never reports POLLHUP without POLLIN.         *)
Raised(c) == {e \in {"in", "hup"} : IF e = "in" THEN Readable(c) ELSE eof[c] = "rst"}

Revents(f) ==
  IF f = event_fd
  THEN {e \in {"in"} : signalled}
  ELSE UNION {Raised(c) : c \in {d \in Conns : Holds(d, f)}}

(* At the top of the loop, poll is given what poll_fds holds by then. *)
PollCalls ==
  /\ Running
  /\ poller = "poll" \/ (poller = "scan" /\ i > Len(poll_fds))
  /\ poller' = "wait"
  /\ asked' = Len(poll_fds)
  /\ i' = 1
  /\ UNCHANGED <<sockets, answer, pc, thread, nonblock, event_fd, signalled, lists, moved>>

Woken == /\ Running
         /\ poller = "wait"
         /\ \E k \in 1 .. asked : Revents(poll_fds[k].fd) # {}

(* The kernel writes revents to where the entries were when poll was       *)
(* called: a vector that has moved keeps those of an earlier poll.         *)
PollReturns ==
  /\ Woken
  /\ poll_fds' = [k \in 1 .. Len(poll_fds) |->
       IF moved \/ k > asked THEN poll_fds[k]
       ELSE [poll_fds[k] EXCEPT !.revents = Revents(poll_fds[k].fd)]]
  /\ poller' = "scan"
  /\ asked' = 0
  /\ moved' = FALSE
  /\ UNCHANGED <<sockets, answer, pc, thread, nonblock, event_fd, signalled,
                 web_sockect_connections, i>>

(* What it wrote to the freed memory may do harm. *)
PollDies == Woken /\ moved /\ Die

AtEntry == Running /\ poller = "scan" /\ i <= Len(poll_fds)

(* The connections an entry with POLLIN makes the thread read: those with  *)
(* an element in web_sockect_connections, so never the eventfd.            *)
Reading ==
  {c \in Conns : /\ AtEntry
                 /\ "in" \in poll_fds[i].revents
                 /\ Holds(c, poll_fds[i].fd)
                 /\ \E k \in 1 .. Len(web_sockect_connections) :
                      web_sockect_connections[k] = poll_fds[i].fd}

HungUp == "in" \notin poll_fds[i].revents /\ "hup" \in poll_fds[i].revents

(* One entry: read and throw away, or on POLLHUP close and erase. *)
Scan ==
  /\ AtEntry
  /\ IF HungUp
     THEN /\ Shut(poll_fds[i].fd)
          /\ poll_fds' = SubSeq(poll_fds, 1, i - 1)
                           \o SubSeq(poll_fds, i + 1, Len(poll_fds))
          /\ UNCHANGED i
     ELSE /\ rx' = [c \in Conns |-> IF c \in Reading THEN <<>> ELSE rx[c]]
          /\ i' = i + 1
          /\ UNCHANGED <<conn, fd, backlog, eof, poll_fds>>
  /\ UNCHANGED <<answer, pc, thread, nonblock, event_fd, signalled,
                 web_sockect_connections, poller, asked, moved>>

(* The terminator after 1023 bytes or more lands behind the buffer. *)
ScanDies == (\E c \in Reading : Asks(c, "long")) /\ Die

-----------------------------------------------------------------------------
Init ==
  /\ SocketsInit
  /\ answer = [c \in Conns |-> "none"]
  /\ pc = "create"
  /\ thread = [c \in Conns |-> "none"]
  /\ nonblock = {}
  /\ event_fd = NoFd
  /\ signalled = FALSE
  /\ poll_fds = <<>>
  /\ web_sockect_connections = <<>>
  /\ poller = "none"
  /\ asked = 0
  /\ moved = FALSE
  /\ i = 1

Client(c) == Connect(c) \/ Leave(c) \/ \E m \in Kinds : Send(c, m)

Main ==
  \/ CreateSocket \/ SpawnFails
  \/ \E c \in Conns : AcceptDrops(c) \/ \E f \in ClientFds : Accept(c, f)

Thread(c) ==
  \/ Receive(c) \/ ReceiveDies(c) \/ ReceiveNothing(c)
  \/ Get(c) \/ GetCreates(c)
  \/ Fcntl(c) \/ PushBack(c) \/ EmplaceBack(c) \/ Signal(c) \/ RaceDies(c)
  \/ Handshake(c) \/ Respond(c) \/ SendDies(c) \/ Close(c)

Poller == PollCalls \/ PollReturns \/ PollDies \/ Scan \/ ScanDies

Next == Main \/ Poller \/ \E c \in Conns : Client(c) \/ Thread(c)

Spec == Init /\ [][Next]_vars

(* Every thread runs on unless it blocks in accept, recv, poll or the mutex. *)
FairSpec == /\ Spec
            /\ WF_vars(Main)
            /\ WF_vars(Poller)
            /\ \A c \in Conns : WF_vars(Thread(c))

-----------------------------------------------------------------------------
(* Properties *)

TypeOK ==
  /\ SocketsType(Kinds)
  /\ answer \in [Conns -> {"none", "http", "101"}]
  /\ pc \in {"create", "accept", "returned", "killed"}
  /\ thread \in [Conns -> {"none", "recv", "get", "look", "fcntl", "push", "emplace",
                           "signal", "handshake", "respond", "close", "done"}]
  /\ nonblock \in SUBSET Conns
  /\ event_fd \in {NoFd} \cup ClientFds
  /\ signalled \in BOOLEAN
  /\ poll_fds \in Seq([fd : ClientFds, revents : SUBSET {"in", "hup"}])
  /\ web_sockect_connections \in Seq(ClientFds)
  /\ poller \in {"none", "failed", "poll", "wait", "scan"}
  /\ asked \in Nat
  /\ moved \in BOOLEAN
  /\ i \in Nat \ {0}

(* What the poll thread watches is open and stays a WebSocket's: each      *)
(* descriptor it has listed is listed once and held by a connection whose  *)
(* thread is in the handshake or through with it, never one a request      *)
(* thread will close, so that a reused number is never taken for it.       *)
ListedAreOpen ==
  poller # "failed" =>
    \A j \in 2 .. Len(poll_fds) :
      /\ \E c \in Conns :
           /\ Holds(c, poll_fds[j].fd)
           /\ \/ thread[c] \in {"emplace", "signal", "handshake"}
              \/ thread[c] = "done" /\ answer[c] = "101"
      /\ \A k \in 1 .. (j - 1) : poll_fds[k].fd # poll_fds[j].fd

(* The two vectors list the same sockets in the same order, but for the    *)
(* one a request thread is listing: so the mutex keeps them.               *)
ListedTogether ==
  LET sockets_of == [k \in 1 .. Len(poll_fds) |-> poll_fds[k].fd]
      watched == IF poller = "failed" THEN sockets_of ELSE Tail(sockets_of)
  IN poller # "none" =>
       \/ watched = web_sockect_connections
       \/ \E c \in Conns : /\ thread[c] = "emplace"
                           /\ watched = Append(web_sockect_connections, fd[c])

(* The poll thread never blocks in read: revents may be those of an        *)
(* earlier poll (see PollReturns), and it is O_NONBLOCK, set before the    *)
(* socket is listed, that keeps a read of a socket with nothing to read    *)
(* from holding up all others.                                             *)
ReadNeverBlocks == \A c \in Reading : c \in nonblock \/ Readable(c)

(* What arrives at a WebSocket is read, if there is a poll thread: the     *)
(* write to event_fd gets it out of a poll that was called before.         *)
FramesRead ==
  \A c \in Conns :
    conn[c] = "up" /\ answer[c] = "101" /\ rx[c] # <<>>
      ~> rx[c] = <<>> \/ pc = "killed" \/ poller = "failed"

(* Every connection whose client speaks or leaves is closed in the end or  *)
(* has become a WebSocket.                                                 *)
HttpClosed ==
  \A c \in Conns :
    conn[c] = "up" /\ Readable(c)
      ~> conn[c] = "down" \/ answer[c] = "101" \/ pc = "killed"

(* The listen queue drains as long as descriptors come free: a failed      *)
(* accept does not end the server.                                         *)
QueueDrains ==
  ([]<>(\E f \in ClientFds : Available(f))) =>
    \A c \in Conns : conn[c] = "queued" ~> conn[c] # "queued" \/ pc = "killed"

(* What the branch for POLLHUP is there for ("connection close on the      *)
(* descriptor"): a WebSocket whose client has reset it is closed.          *)
HangupCloses ==
  \A c \in Conns :
    conn[c] = "up" /\ answer[c] = "101" /\ eof[c] = "rst"
      ~> conn[c] = "down" \/ pc = "killed" \/ poller = "failed"

(* A request a thread has taken counts as unread until it is answered. *)
Abstract == INSTANCE Connections WITH
  heard <- [c \in Conns |-> FALSE],
  unread <- [c \in Conns |->
    rx[c] # <<>> \/ thread[c] \in {"get", "look", "fcntl", "push", "emplace", "signal",
                                   "handshake", "respond"}]

(* The legacy server keeps the promise of the handlers of the library too. *)
ImplementsConnections == Abstract!Spec
=============================================================================
