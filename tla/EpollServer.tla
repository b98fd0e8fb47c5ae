------------------------------ MODULE EpollServer ------------------------------
(***************************************************************************)
(* The epoll(7) server: tcp_epoll_handler (src/tcp_epoll_handler.cpp),     *)
(* the one the sample runs.  One thread waits for a batch of events and    *)
(* works through it; client sockets are edge-triggered, so that an event   *)
(* missed is missed for good, and descriptors closed and reused within a   *)
(* batch may be named by events still ahead in it.                         *)
(*                                                                         *)
(* The server reads a connection once, answers whatever it read with a     *)
(* numbered greeting, and closes.  It never calls the connection callback. *)
(***************************************************************************)
EXTENDS Integers, Sequences, FiniteSets

CONSTANTS
  Conns,      \* the connections clients open, each opened once
  NumFds,     \* descriptors left to the process for clients: 1 .. NumFds
  MaxEvents   \* MAX_EVENTS, the size of the event array

ASSUME ConnsAssumption == IsFiniteSet(Conns)
ASSUME NumFdsAssumption == NumFds \in Nat \ {0}
ASSUME MaxEventsAssumption == MaxEvents \in Nat \ {0}

VARIABLES
  conn,     \* conn[c]: "new", "queued", "up" (accepted), "down" (closed)
  fd,       \* fd[c]: descriptor of c, kept after the close; NoFd before
  backlog,  \* the listen queue
  unread,   \* unread[c]: bytes of the client wait in the socket
  eof,      \* eof[c]: "no", or the client sent "fin" or "rst"
  answer,   \* answer[c]: "none" or "http"
  count,    \* the static counter of answers
  ready,    \* the kernel's ready list of descriptors, oldest first
  batch,    \* what is left of the events of the last epoll_wait
  open,     \* which of the "server" and "epoll" descriptors are open
  pc        \* a step of create_server, "wait", "batch", or an end

client == <<conn, fd, backlog, unread, eof, answer>>
vars == <<client, count, ready, batch, open, pc>>

ServerFd == 0
NoFd == -1
ClientFds == 1 .. NumFds
Creating == {"socket", "bind", "listen", "epoll_create", "epoll_add"}
Running == pc \in {"wait", "batch"}

-----------------------------------------------------------------------------
(* The kernel *)

Holds(c, f) == conn[c] = "up" /\ fd[c] = f
Free(f) == \A c \in Conns : ~Holds(c, f)
LowestFree(f) == /\ f \in ClientFds
                 /\ Free(f)
                 /\ \A g \in 1 .. (f - 1) : ~Free(g)

Readable(c) == unread[c] \/ eof[c] # "no"

Among(f, list) == \E k \in DOMAIN list : list[k] = f

(* An edge: the descriptor joins the ready list unless it is on it. *)
Woken(f) == IF Among(f, ready) THEN ready ELSE Append(ready, f)

(* The ready list once f is closed: close takes f off, wherever it is.     *)
Without(f) ==
  LET at == CHOOSE k \in DOMAIN ready : ready[k] = f IN
  IF Among(f, ready)
    THEN [k \in 1 .. (Len(ready) - 1) |-> IF k < at THEN ready[k] ELSE ready[k + 1]]
    ELSE ready

(* What the kernel still finds true of a descriptor when it delivers it. *)
Raised(f) == \/ f = ServerFd /\ backlog # <<>>
             \/ \E c \in Conns : Holds(c, f) /\ Readable(c)

(* epoll_wait goes through the ready list, oldest first, and delivers what *)
(* it still finds true, until the array is full: of the first n entries it *)
(* delivers those at hit[1] .. hit[m].                                     *)
Delivers(n, m, hit) ==
  /\ m <= MaxEvents
  /\ \A k \in 1 .. n : Raised(ready[k]) <=> \E j \in 1 .. m : hit[j] = k
  /\ \A j, k \in 1 .. m : j < k => hit[j] < hit[k]
  /\ IF m = MaxEvents THEN n = hit[m] ELSE n = Len(ready)

(* What the ready list holds behind its first n entries. *)
Beyond(n) == [k \in 1 .. (Len(ready) - n) |-> ready[n + k]]

-----------------------------------------------------------------------------
(* Clients *)

Connect(c) ==
  /\ Running
  /\ conn[c] = "new"
  /\ conn' = [conn EXCEPT ![c] = "queued"]
  /\ backlog' = Append(backlog, c)
  /\ ready' = Woken(ServerFd)
  /\ UNCHANGED <<fd, unread, eof, answer, count, batch, open, pc>>

(* Whatever arrives at an accepted socket is an edge. *)
Arrive(c) == IF conn[c] = "up" THEN ready' = Woken(fd[c]) ELSE ready' = ready

Send(c) ==
  /\ Running
  /\ conn[c] \in {"queued", "up"}
  /\ eof[c] = "no"
  /\ unread' = [unread EXCEPT ![c] = TRUE]
  /\ Arrive(c)
  /\ UNCHANGED <<conn, fd, backlog, eof, answer, count, batch, open, pc>>

Leave(c) ==
  /\ Running
  /\ conn[c] \in {"queued", "up"}
  /\ \/ eof[c] = "no" /\ eof' = [eof EXCEPT ![c] = "fin"]
     \/ eof[c] # "rst" /\ eof' = [eof EXCEPT ![c] = "rst"]
  /\ Arrive(c)
  /\ UNCHANGED <<conn, fd, backlog, unread, answer, count, batch, open, pc>>

-----------------------------------------------------------------------------
(* create_server: five calls, each with its own way out *)

CreateStep(from, to, opened) ==
  /\ pc = from
  /\ pc' = to
  /\ open' = open \cup opened
  /\ UNCHANGED <<client, count, ready, batch>>

CreateServer ==
  \/ CreateStep("socket", "bind", {"server"})
  \/ CreateStep("bind", "listen", {})
  \/ CreateStep("listen", "epoll_create", {})
  \/ CreateStep("epoll_create", "epoll_add", {"epoll"})
  \/ CreateStep("epoll_add", "wait", {})

Mutant_Closed(from) == IF from \in {"socket", "epoll_create"} THEN {} ELSE {"server"}

(* What the error path of each call closes. *)
Closed(from) == IF from = "socket" THEN {}
                ELSE IF from = "epoll_add" THEN {"server", "epoll"}
                ELSE {"server"}

CreateFails ==
  /\ pc \in Creating
  /\ open' = open \ Closed(pc)
  /\ pc' = "failed"
  /\ UNCHANGED <<client, count, ready, batch>>

-----------------------------------------------------------------------------
(* accept_and_process_message *)

Mutant_Wait ==
  /\ pc = "wait"
  /\ \E n, m \in DOMAIN ready : \E hit \in [1 .. m -> 1 .. n] :
       /\ Delivers(n, m, hit)
       /\ batch' = [k \in 1 .. m |-> ready[hit[k]]]
       /\ ready' = Beyond(n)
  /\ pc' = "batch"
  /\ UNCHANGED <<client, count, open>>

(* The level-triggered listening socket goes back to the end of the list,  *)
(* the edge-triggered ones do not.                                         *)
Wait ==
  /\ pc = "wait"
  /\ \E n, m \in DOMAIN ready : \E hit \in [1 .. m -> 1 .. n] :
       /\ Delivers(n, m, hit)
       /\ batch' = [k \in 1 .. m |-> ready[hit[k]]]
       /\ ready' = IF Among(ServerFd, batch') THEN Append(Beyond(n), ServerFd)
                                              ELSE Beyond(n)
  /\ pc' = "batch"
  /\ UNCHANGED <<client, count, open>>

(* epoll_wait fails: on the descriptor of a failed create_server, whose    *)
(* status the sample ignores, or interrupted by a stop and continue.       *)
WaitFails ==
  /\ pc \in {"failed", "wait"}
  /\ pc' = "stopped"
  /\ UNCHANGED <<client, count, ready, batch, open>>

EndBatch ==
  /\ pc = "batch"
  /\ batch = <<>>
  /\ pc' = "wait"
  /\ UNCHANGED <<client, count, ready, batch, open>>

At(f) == pc = "batch" /\ batch # <<>> /\ Head(batch) = f

(* The head of the listen queue leaves it and ends with this status. *)
Dequeue(c, status) ==
  /\ At(ServerFd)
  /\ backlog # <<>>
  /\ c = Head(backlog)
  /\ \E f \in ClientFds : Free(f)
  /\ backlog' = Tail(backlog)
  /\ conn' = [conn EXCEPT ![c] = status]
  /\ batch' = Tail(batch)
  /\ UNCHANGED <<answer, count, open, pc>>

(* EPOLL_CTL_ADD queues the new descriptor at once if it is readable. *)
Accept(c, f) ==
  /\ LowestFree(f)
  /\ Dequeue(c, "up")
  /\ fd' = [fd EXCEPT ![c] = f]
  /\ ready' = IF Readable(c) THEN Woken(f) ELSE ready
  /\ UNCHANGED <<unread, eof>>

(* The kernel accepts but cannot report the address, because addr_len is   *)
(* read uninitialised; or EPOLL_CTL_ADD fails.  The descriptor is closed.  *)
AcceptDrops(c) ==
  /\ Dequeue(c, "down")
  /\ unread' = [unread EXCEPT ![c] = FALSE]
  /\ eof' = [eof EXCEPT ![c] = "no"]
  /\ UNCHANGED <<fd, ready>>

Idle == \/ /\ Head(batch) = ServerFd
           /\ backlog = <<>> \/ \A f \in ClientFds : ~Free(f)
        \/ /\ Head(batch) # ServerFd
           /\ \A c \in Conns : Holds(c, Head(batch)) => ~Readable(c)

(* An event that comes to nothing: accept answers -1 (nothing waits, or no *)
(* descriptor is left), or recv answers EAGAIN or EBADF.                   *)
Pass ==
  /\ pc = "batch" /\ batch # <<>>
  /\ Idle
  /\ batch' = Tail(batch)
  /\ UNCHANGED <<client, count, ready, open, pc>>

Mutant_CloseFd(c) ==
  /\ conn' = [conn EXCEPT ![c] = "down"]
  /\ unread' = [unread EXCEPT ![c] = FALSE]
  /\ eof' = [eof EXCEPT ![c] = "no"]
  /\ ready' = Without(fd[c])
  /\ UNCHANGED <<fd, backlog, batch, open, pc>>

(* close(f), which also takes it off the epoll instance. *)
CloseFd(c) ==
  /\ conn' = [conn EXCEPT ![c] = "down"]
  /\ unread' = [unread EXCEPT ![c] = FALSE]
  /\ eof' = [eof EXCEPT ![c] = "no"]
  /\ ready' = Without(fd[c])
  /\ batch' = Tail(batch)
  /\ UNCHANGED <<fd, backlog, open, pc>>

AtClient(c) == /\ pc = "batch"
               /\ batch # <<>>
               /\ Holds(c, Head(batch))

Mutant_Respond(c) ==
  /\ AtClient(c)
  /\ unread[c]
  /\ answer' = [answer EXCEPT ![c] = "http"]
  /\ count' = IF answer[c] = "none" THEN count + 1 ELSE count
  /\ batch' = Tail(batch)
  /\ UNCHANGED <<conn, fd, backlog, unread, eof, ready, open, pc>>

(* recv > 0: the greeting with the next number, then close. *)
Respond(c) ==
  /\ AtClient(c)
  /\ unread[c]
  /\ answer' = [answer EXCEPT ![c] = "http"]
  /\ count' = count + 1
  /\ CloseFd(c)

Mutant_Hangup(c) ==
  /\ AtClient(c)
  /\ ~unread[c]
  /\ eof[c] = "rst"
  /\ CloseFd(c)
  /\ UNCHANGED <<answer, count>>

Mutant_HangupAnswers(c) ==
  /\ AtClient(c)
  /\ ~unread[c]
  /\ eof[c] # "no"
  /\ answer' = [answer EXCEPT ![c] = "http"]
  /\ CloseFd(c)
  /\ UNCHANGED count

(* recv = 0, or an error other than EAGAIN. *)
Hangup(c) ==
  /\ AtClient(c)
  /\ ~unread[c]
  /\ eof[c] # "no"
  /\ CloseFd(c)
  /\ UNCHANGED <<answer, count>>

(* SIGPIPE: the answer goes to a connection the client has reset. *)
RespondDies(c) ==
  /\ AtClient(c)
  /\ unread[c]
  /\ eof[c] = "rst"
  /\ pc' = "killed"
  /\ UNCHANGED <<client, count, ready, batch, open>>

-----------------------------------------------------------------------------
Init ==
  /\ conn = [c \in Conns |-> "new"]
  /\ fd = [c \in Conns |-> NoFd]
  /\ backlog = <<>>
  /\ unread = [c \in Conns |-> FALSE]
  /\ eof = [c \in Conns |-> "no"]
  /\ answer = [c \in Conns |-> "none"]
  /\ count = 0
  /\ ready = <<>>
  /\ batch = <<>>
  /\ open = {}
  /\ pc = "socket"

Client(c) == Connect(c) \/ Send(c) \/ Leave(c)

Handle(c) ==
  \/ \E f \in ClientFds : Accept(c, f)
  \/ AcceptDrops(c) \/ Respond(c) \/ Hangup(c) \/ RespondDies(c)

Server ==
  \/ CreateServer \/ Wait \/ EndBatch \/ Pass
  \/ \E c \in Conns : Handle(c)

Next == Server \/ CreateFails \/ WaitFails \/ \E c \in Conns : Client(c)

Spec == Init /\ [][Next]_vars

(* The thread runs on while epoll_wait has something to deliver. *)
FairSpec == Spec /\ WF_vars(Server)

-----------------------------------------------------------------------------
(* Properties *)

TypeOK ==
  /\ conn \in [Conns -> {"new", "queued", "up", "down"}]
  /\ fd \in [Conns -> {NoFd} \cup ClientFds]
  /\ backlog \in Seq(Conns)
  /\ unread \in [Conns -> BOOLEAN]
  /\ eof \in [Conns -> {"no", "fin", "rst"}]
  /\ answer \in [Conns -> {"none", "http"}]
  /\ count \in Nat
  /\ ready \in Seq({ServerFd} \cup ClientFds)
  /\ batch \in Seq({ServerFd} \cup ClientFds)
  /\ open \in SUBSET {"server", "epoll"}
  /\ pc \in Creating \cup {"wait", "batch", "failed", "stopped", "killed"}

(* Edge-triggered delivery loses nothing: a connection with something to   *)
(* read is on the ready list or ahead in the batch, although its edges may *)
(* come before the descriptor is added, while it waits in a batch, or      *)
(* after the descriptor changed hands.                                     *)
NoLostEdge ==
  Running =>
    \A c \in Conns :
      conn[c] = "up" /\ Readable(c) =>
        Among(fd[c], ready) \/ Among(fd[c], batch)

(* No event ahead in the batch is stale: what it names is open and still   *)
(* has what the event announced, whatever was closed, accepted or reused   *)
(* earlier in the same batch.                                              *)
EventsAreFresh ==
  Running => \A k \in DOMAIN batch : Raised(batch[k])

(* create_server leaves no descriptor behind when it fails at any step.    *)
CleanFailure == pc = "failed" => open = {}

(* Whoever speaks on an accepted connection is answered or dropped. *)
SpokenResolved ==
  \A c \in Conns :
    conn[c] = "up" /\ Readable(c) ~> conn[c] = "down" \/ ~Running

(* The listen queue drains as long as descriptors keep coming free: idle   *)
(* connections are never timed out, so that without this assumption it     *)
(* need not.                                                               *)
QueueDrains ==
  ([]<>(\E f \in ClientFds : Free(f))) =>
    \A c \in Conns : conn[c] = "queued" ~> conn[c] # "queued" \/ ~Running

Abstract == INSTANCE Connections WITH heard <- [c \in Conns |-> FALSE]

(* The epoll server implements the promise every handler makes. *)
ImplementsConnections == Abstract!Spec
=============================================================================
