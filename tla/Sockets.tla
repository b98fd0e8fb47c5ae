------------------------------- MODULE Sockets -------------------------------
(***************************************************************************)
(* The TCP sockets of the process as the servers of the library use them:  *)
(* the listen queue, accepted connections under descriptors the kernel     *)
(* reuses, what has arrived at each socket, and the clients at the other   *)
(* end.  Everything here is the operating system's; the servers compose    *)
(* their actions from it.                                                  *)
(***************************************************************************)
EXTENDS Integers, Sequences, FiniteSets

CONSTANTS
  Conns,      \* the connections clients open, each opened once
  NumFds,     \* descriptors left to the process for clients: 1 .. NumFds
  RxCap       \* bound: messages in a socket's receive buffer

ASSUME ConnsAssumption == IsFiniteSet(Conns)
ASSUME NumFdsAssumption == NumFds \in Nat \ {0}
ASSUME RxCapAssumption == RxCap \in Nat \ {0}

VARIABLES
  conn,       \* conn[c]: "new", "queued", "up" (accepted), "down" (closed)
  fd,         \* fd[c]: descriptor of c, kept after the close; NoFd before
  backlog,    \* the listen queue
  rx,         \* rx[c]: what the server has not read of c, oldest first
  eof         \* eof[c]: "no", or the client sent "fin" or "rst"

sockets == <<conn, fd, backlog, rx, eof>>

NoFd == -1                  \* what failed calls return
ClientFds == 1 .. NumFds

Holds(c, f) == conn[c] = "up" /\ fd[c] = f

Free(f) == \A c \in Conns : ~Holds(c, f)

(* The kernel hands out the lowest free descriptor. *)
LowestFree(f) == /\ f \in ClientFds
                 /\ Free(f)
                 /\ \A g \in 1 .. (f - 1) : ~Free(g)

Mutant_Readable(c) == rx[c] # <<>>

(* recv would return at once. *)
Readable(c) == rx[c] # <<>> \/ eof[c] # "no"

(* The first message waiting at c's socket. *)
Asks(c, m) == rx[c] # <<>> /\ Head(rx[c]) = m

SocketsInit ==
  /\ conn = [c \in Conns |-> "new"]
  /\ fd = [c \in Conns |-> NoFd]
  /\ backlog = <<>>
  /\ rx = [c \in Conns |-> <<>>]
  /\ eof = [c \in Conns |-> "no"]

SocketsType(Messages) ==
  /\ conn \in [Conns -> {"new", "queued", "up", "down"}]
  /\ fd \in [Conns -> {NoFd} \cup ClientFds]
  /\ backlog \in Seq(Conns)
  /\ rx \in [Conns -> Seq(Messages)]
  /\ eof \in [Conns -> {"no", "fin", "rst"}]

-----------------------------------------------------------------------------
(* Clients *)

Dial(c) ==
  /\ conn[c] = "new"
  /\ conn' = [conn EXCEPT ![c] = "queued"]
  /\ backlog' = Append(backlog, c)
  /\ UNCHANGED <<fd, rx, eof>>

Deliver(c, m) ==
  /\ conn[c] \in {"queued", "up"}
  /\ eof[c] = "no"
  /\ Len(rx[c]) < RxCap
  /\ rx' = [rx EXCEPT ![c] = Append(@, m)]
  /\ UNCHANGED <<conn, fd, backlog, eof>>

(* The client closes its end, or resets the connection. *)
Depart(c) ==
  /\ conn[c] \in {"queued", "up"}
  /\ \/ eof[c] = "no" /\ eof' = [eof EXCEPT ![c] = "fin"]
     \/ eof[c] # "rst" /\ eof' = [eof EXCEPT ![c] = "rst"]
  /\ UNCHANGED <<conn, fd, backlog, rx>>

-----------------------------------------------------------------------------
(* System calls *)

(* accept: the head c of the listen queue gets the free descriptor f.      *)
TakeNext(c, f) ==
  /\ backlog # <<>>
  /\ c = Head(backlog)
  /\ Free(f)
  /\ backlog' = Tail(backlog)
  /\ fd' = [fd EXCEPT ![c] = f]

(* recv with a large buffer takes all there is. *)
Take(c) ==
  /\ rx' = [rx EXCEPT ![c] = <<>>]
  /\ UNCHANGED <<conn, fd, backlog, eof>>

(* close(f): the connection that holds f, if any, goes down with all that  *)
(* its socket still had to read.                                           *)
Shut(f) ==
  /\ conn' = [c \in Conns |-> IF Holds(c, f) THEN "down" ELSE conn[c]]
  /\ rx' = [c \in Conns |-> IF Holds(c, f) THEN <<>> ELSE rx[c]]
  /\ eof' = [c \in Conns |-> IF Holds(c, f) THEN "no" ELSE eof[c]]
  /\ UNCHANGED <<fd, backlog>>
=============================================================================
