----------------------------- MODULE ThreadServer -----------------------------
(***************************************************************************)
(* The thread server: tcp_default_handler (src/tcp_default_handler.cpp).   *)
(* The main thread blocks in accept and starts a detached thread for every *)
(* descriptor accept returned, -1 included; the thread calls the callback, *)
(* http_server::handle_connection_request, or echoes when none is set.     *)
(*                                                                         *)
(* The threads share the process: its descriptors, which they name by      *)
(* number, and the lazily created websocket_manager with its std::set, to  *)
(* neither of which access is synchronised.  A connection's thread is      *)
(* named by the connection.  Requests are abstracted as in PollServer.     *)
(***************************************************************************)
EXTENDS Sockets

CONSTANTS
  MaxThreads,  \* request threads the system lets the process have at once
  Kinds        \* the requests clients send

ASSUME MaxThreadsAssumption == MaxThreads \in Nat \ {0}
ASSUME KindsAssumption == Kinds \subseteq {"close", "keep", "upgrade", "throws"}

VARIABLES
  answer,     \* answer[c]: "none", "http" (the echo too) or "101"
  port,       \* what create_server got: "none", "asked" or "other" port
  callback,   \* on_new_connection_handler_cb is set
  pc,         \* the main thread: "create", "accept" or "killed" (the process)
  strays,     \* live threads that were started for descriptor -1
  thread,     \* thread[c]: where c's thread is; "none" before, "done" after
  request,    \* request[c]: the request c's thread has parsed
  registered, \* websocket_descriptor of every manager made; the last is
              \* websocket_manager::instance, <<>> stands for nullptr
  mine,       \* mine[c]: the manager get() returned to c's thread
  overlapped  \* history: whose insert ran while another one did

manager == <<registered, mine, overlapped>>
vars == <<sockets, answer, port, callback, pc, strays, thread, request, manager>>

Running == pc = "accept"

-----------------------------------------------------------------------------
(* Threads *)

InFlight == {c \in Conns : thread[c] \notin {"none", "done"}}
CanSpawn == Cardinality(InFlight) + strays < MaxThreads

(* An exception nobody catches, or SIGPIPE, ends the process. *)
Die ==
  /\ pc' = "killed"
  /\ UNCHANGED <<sockets, answer, port, callback, strays, thread, request, manager>>

(* c's thread moves on. *)
Goes(c, to) == thread' = [thread EXCEPT ![c] = to]

At(c, where) == Running /\ thread[c] = where

-----------------------------------------------------------------------------
(* Clients *)

Connect(c) ==
  /\ Running
  /\ port = "asked"
  /\ Dial(c)
  /\ UNCHANGED <<answer, port, callback, pc, strays, thread, request, manager>>

Send(c, m) ==
  /\ Running
  /\ Deliver(c, m)
  /\ UNCHANGED <<answer, port, callback, pc, strays, thread, request, manager>>

Leave(c) ==
  /\ Running
  /\ Depart(c)
  /\ UNCHANGED <<answer, port, callback, pc, strays, thread, request, manager>>

-----------------------------------------------------------------------------
(* The main thread *)

(* create_server answers Ok whatever socket, bind and listen returned. *)
CreateServer ==
  /\ pc = "create"
  /\ pc' = "accept"
  /\ port' \in {"none", "asked", "other"}
  /\ UNCHANGED <<sockets, answer, callback, strays, thread, request, manager>>

(* accept and the thread for the connection.  The kernel reserves the      *)
(* descriptor when accept is called, so that it is a free one but not      *)
(* always the lowest.                                                      *)
Accept(c, f) ==
  /\ Running
  /\ port = "asked"
  /\ TakeNext(c, f)
  /\ CanSpawn
  /\ conn' = [conn EXCEPT ![c] = "up"]
  /\ Goes(c, "recv")
  /\ UNCHANGED <<rx, eof, answer, port, callback, pc, strays, request, manager>>

(* accept has returned, with a descriptor or with -1. *)
AcceptReturns ==
  \/ port = "none"
  \/ \A f \in ClientFds : ~Free(f)
  \/ backlog # <<>>

Mutant_AcceptFails ==
  /\ Running
  /\ port = "none" \/ \A f \in ClientFds : ~Free(f)
  /\ strays' = strays + 1
  /\ UNCHANGED <<sockets, answer, port, callback, pc, thread, request, manager>>

Mutant_AcceptCloses ==
  /\ Running
  /\ port = "none" \/ \A f \in ClientFds : ~Free(f)
  /\ CanSpawn
  /\ strays' = strays + 1
  /\ port' = "none"
  /\ UNCHANGED <<sockets, answer, callback, pc, thread, request, manager>>

(* accept returns -1: a thread is started for it all the same. *)
AcceptFails ==
  /\ Running
  /\ port = "none" \/ \A f \in ClientFds : ~Free(f)
  /\ CanSpawn
  /\ strays' = strays + 1
  /\ UNCHANGED <<sockets, answer, port, callback, pc, thread, request, manager>>

(* The std::thread constructor throws. *)
SpawnFails ==
  /\ Running
  /\ AcceptReturns
  /\ ~CanSpawn
  /\ Die

-----------------------------------------------------------------------------
(* The request threads *)

(* recv of descriptor -1 fails, and the thread is over. *)
StrayEnds ==
  /\ Running
  /\ strays > 0
  /\ strays' = strays - 1
  /\ UNCHANGED <<sockets, answer, port, callback, pc, thread, request, manager>>

(* recv blocks until there is something; what has come is parsed. *)
Receive(c) ==
  /\ At(c, "recv")
  /\ callback
  /\ rx[c] # <<>>
  /\ Head(rx[c]) # "throws"
  /\ request' = [request EXCEPT ![c] = Head(rx[c])]
  /\ Take(c)
  /\ Goes(c, "get")
  /\ UNCHANGED <<answer, port, callback, pc, strays, manager>>

ReceiveDies(c) ==
  /\ At(c, "recv")
  /\ callback
  /\ Asks(c, "throws")
  /\ Die

Mutant_ReceiveNothing(c) ==
  /\ At(c, "recv")
  /\ rx[c] = <<>>
  /\ Goes(c, "done")
  /\ UNCHANGED <<sockets, answer, port, callback, pc, strays, request, manager>>

(* Nothing was sent before the client left: closefd stays false, and the   *)
(* descriptor is never closed.                                             *)
ReceiveNothing(c) ==
  /\ At(c, "recv")
  /\ rx[c] = <<>>
  /\ eof[c] # "no"
  /\ Goes(c, "done")
  /\ UNCHANGED <<sockets, answer, port, callback, pc, strays, request, manager>>

(* Without a callback what was received is sent back, and that is all. *)
Echo(c) ==
  /\ At(c, "recv")
  /\ ~callback
  /\ rx[c] # <<>>
  /\ Take(c)
  /\ answer' = [answer EXCEPT ![c] = "http"]
  /\ Goes(c, "done")
  /\ UNCHANGED <<port, callback, pc, strays, request, manager>>

Dispatched(c) == IF request[c] = "upgrade" THEN "join" ELSE "respond"

(* websocket_manager::get() as is_websocket(headers) calls it: the test... *)
GetTests(c) ==
  /\ At(c, "get")
  /\ Goes(c, IF registered = <<>> THEN "new" ELSE Dispatched(c))
  /\ UNCHANGED <<sockets, answer, port, callback, pc, strays, request, manager>>

(* ... and the assignment, which another thread may have made meanwhile. *)
GetCreates(c) ==
  /\ At(c, "new")
  /\ registered' = Append(registered, {})
  /\ Goes(c, Dispatched(c))
  /\ UNCHANGED <<sockets, answer, port, callback, pc, strays, request, mine, overlapped>>

(* get() again, for add_new_connection_connection. *)
Join(c) ==
  /\ At(c, "join")
  /\ mine' = [mine EXCEPT ![c] = Len(registered)]
  /\ Goes(c, "handshake")
  /\ UNCHANGED <<sockets, answer, port, callback, pc, strays, request, registered, overlapped>>

Mutant_Handshake(c) ==
  /\ At(c, "handshake")
  /\ answer' = [answer EXCEPT ![c] = "101"]
  /\ Goes(c, "done")
  /\ UNCHANGED <<sockets, port, callback, pc, strays, request, manager>>

(* The 101 is sent. *)
Handshake(c) ==
  /\ At(c, "handshake")
  /\ answer' = [answer EXCEPT ![c] = "101"]
  /\ Goes(c, "register")
  /\ UNCHANGED <<sockets, port, callback, pc, strays, request, manager>>

Inserting(m) == {c \in Conns : thread[c] = "insert" /\ mine[c] = m}

(* websocket_descriptor.insert begins. *)
InsertBegins(c) ==
  LET others == Inserting(mine[c]) IN
  /\ At(c, "register")
  /\ overlapped' = IF others = {} THEN overlapped ELSE overlapped \cup others \cup {c}
  /\ Goes(c, "insert")
  /\ UNCHANGED <<sockets, answer, port, callback, pc, strays, request, registered, mine>>

Mutant_InsertEnds(c) ==
  /\ At(c, "insert")
  /\ \/ registered' = [registered EXCEPT ![mine[c]] = @ \cup {fd[c]}]
     \/ c \in overlapped /\ UNCHANGED registered
  /\ Goes(c, "respond")
  /\ UNCHANGED <<sockets, answer, port, callback, pc, strays, request, mine, overlapped>>

(* It ends; one that overlapped another may lose its element. *)
InsertEnds(c) ==
  /\ At(c, "insert")
  /\ \/ registered' = [registered EXCEPT ![mine[c]] = @ \cup {fd[c]}]
     \/ c \in overlapped /\ UNCHANGED registered
  /\ Goes(c, "done")
  /\ UNCHANGED <<sockets, answer, port, callback, pc, strays, request, mine, overlapped>>

(* The tree two inserts tore may also crash the process. *)
InsertDies(c) ==
  /\ At(c, "insert")
  /\ c \in overlapped
  /\ Die

(* The answer goes to the descriptor's number, whoever holds it. *)
Answered(f) == [c \in Conns |-> IF Holds(c, f) THEN "http" ELSE answer[c]]

Mutant_Respond(c) ==
  /\ At(c, "respond")
  /\ answer' = IF request[c] = "close" THEN Answered(fd[c]) ELSE answer
  /\ Goes(c, IF request[c] = "close" THEN "close" ELSE "done")
  /\ UNCHANGED <<sockets, port, callback, pc, strays, request, manager>>

(* The route answers; its response says whether to close. *)
Respond(c) ==
  /\ At(c, "respond")
  /\ answer' = Answered(fd[c])
  /\ Goes(c, IF request[c] = "close" THEN "close" ELSE "done")
  /\ UNCHANGED <<sockets, port, callback, pc, strays, request, manager>>

(* A send to a connection the client has reset may raise SIGPIPE. *)
SendDies(c) ==
  /\ At(c, "respond") \/ At(c, "handshake") \/ (At(c, "recv") /\ ~callback /\ rx[c] # <<>>)
  /\ eof[c] = "rst"
  /\ Die

Mutant_Close(c) ==
  /\ At(c, "close")
  /\ Shut(fd[c])
  /\ UNCHANGED <<answer, port, callback, pc, strays, thread, request, manager>>

(* close(fd), by number too. *)
Close(c) ==
  /\ At(c, "close")
  /\ Shut(fd[c])
  /\ Goes(c, "done")
  /\ UNCHANGED <<answer, port, callback, pc, strays, request, manager>>

-----------------------------------------------------------------------------
Init ==
  /\ SocketsInit
  /\ answer = [c \in Conns |-> "none"]
  /\ port = "none"
  /\ callback \in BOOLEAN
  /\ pc = "create"
  /\ strays = 0
  /\ thread = [c \in Conns |-> "none"]
  /\ request = [c \in Conns |-> "none"]
  /\ registered = <<>>
  /\ mine = [c \in Conns |-> 0]
  /\ overlapped = {}

Client(c) == Connect(c) \/ Leave(c) \/ \E m \in Kinds : Send(c, m)

Main ==
  \/ CreateServer \/ AcceptFails \/ SpawnFails
  \/ \E c \in Conns, f \in ClientFds : Accept(c, f)

Thread(c) ==
  \/ Receive(c) \/ ReceiveDies(c) \/ ReceiveNothing(c) \/ Echo(c)
  \/ GetTests(c) \/ GetCreates(c) \/ Join(c) \/ Handshake(c)
  \/ InsertBegins(c) \/ InsertEnds(c) \/ InsertDies(c)
  \/ Respond(c) \/ SendDies(c) \/ Close(c)

Next == Main \/ StrayEnds \/ \E c \in Conns : Client(c) \/ Thread(c)

Spec == Init /\ [][Next]_vars

(* Every thread runs on unless it blocks in accept or recv. *)
FairSpec == /\ Spec
            /\ WF_vars(Main)
            /\ WF_vars(StrayEnds)
            /\ \A c \in Conns : WF_vars(Thread(c))

-----------------------------------------------------------------------------
(* Properties *)

TypeOK ==
  /\ SocketsType(Kinds)
  /\ answer \in [Conns -> {"none", "http", "101"}]
  /\ port \in {"none", "asked", "other"}
  /\ callback \in BOOLEAN
  /\ pc \in {"create", "accept", "killed"}
  /\ strays \in 0 .. MaxThreads
  /\ thread \in [Conns -> {"none", "recv", "get", "new", "join", "handshake",
                           "register", "insert", "respond", "close", "done"}]
  /\ request \in [Conns -> {"none"} \cup Kinds]
  /\ registered \in Seq(SUBSET ClientFds)
  /\ mine \in [Conns -> Nat]
  /\ overlapped \in SUBSET Conns

(* While a thread is at work the descriptor it was started with is still   *)
(* its own connection's: no other thread closes it, so that what it writes *)
(* and closes by number never reaches a connection that reuses the number. *)
ThreadOwnsFd == \A c \in InFlight : Holds(c, fd[c])

(* A WebSocket that got its 101 is known to the manager everyone uses from *)
(* then on, unless two threads both saw no manager (one of the two is then *)
(* dropped with what it registered) or two inserts overlapped.             *)
RegistrationLostOnlyByRace ==
  \A c \in Conns :
    answer[c] = "101" /\ thread[c] = "done" =>
      \/ fd[c] \in registered[Len(registered)]
      \/ mine[c] < Len(registered)
      \/ c \in overlapped

(* What is left open with no thread to serve it was answered and kept on   *)
(* purpose, or its client left before it sent anything (such descriptors   *)
(* are never closed): a client that stays is not abandoned.                *)
AbandonedOnlyWhenSilent ==
  \A c \in Conns :
    conn[c] = "up" /\ thread[c] = "done" /\ answer[c] = "none" =>
      eof[c] # "no" /\ rx[c] = <<>>

(* Every accepted connection that sends a request is answered. *)
SpokenAnswered ==
  \A c \in Conns :
    conn[c] = "up" /\ rx[c] # <<>> ~> answer[c] # "none" \/ ~Running

(* The listen queue drains as long as descriptors come free; each silent   *)
(* client costs one for good.                                              *)
QueueDrains ==
  ([]<>(\E f \in ClientFds : Free(f))) =>
    \A c \in Conns : conn[c] = "queued" ~> conn[c] # "queued" \/ ~Running

(* A request the thread has taken counts as unread until it is answered. *)
Abstract == INSTANCE Connections WITH
  heard <- [c \in Conns |-> FALSE],
  unread <- [c \in Conns |->
    rx[c] # <<>> \/ thread[c] \in {"get", "new", "join", "handshake", "respond"}]

(* The thread server implements the promise every handler makes. *)
ImplementsConnections == Abstract!Spec
=============================================================================
