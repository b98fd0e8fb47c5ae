--------------------------- MODULE LegacyServerProofs ---------------------------
(* Proofs about LegacyServer, for every value of its constants. *)
EXTENDS LegacyServer, SocketsProofs

(* A connection the poll thread may be watching. *)
Upgraded(c) == \/ thread[c] \in {"emplace", "signal", "handshake"}
               \/ thread[c] = "done" /\ answer[c] = "101"

(* A thread works on an open connection, and one that has not been served  *)
(* has no thread.                                                          *)
Working == \A c \in Conns : /\ thread[c] \notin {"none", "done"} => conn[c] = "up"
                            /\ conn[c] \in {"new", "queued"} => thread[c] = "none"

(* The 101 is the last thing a thread does, with the socket O_NONBLOCK. *)
Handshaken ==
  \A c \in Conns :
    /\ thread[c] # "done" => answer[c] # "101"
    /\ thread[c] = "push" \/ Upgraded(c) => c \in nonblock

(* The mutex: one thread at a time is between push_back and the end. *)
Mutex ==
  \A c, d \in Conns :
    thread[c] \in {"emplace", "signal"} /\ thread[d] \in {"emplace", "signal"} => c = d

(* No client has the eventfd, which is the first entry of a poll thread's  *)
(* vector; before there is a manager nothing is listed.                    *)
EventFirst ==
  /\ \A c \in Conns : conn[c] = "up" => fd[c] # event_fd
  /\ poller \notin {"none", "failed"} => Len(poll_fds) > 0 /\ poll_fds[1].fd = event_fd
  /\ poller = "none" =>
       /\ poll_fds = <<>>
       /\ web_sockect_connections = <<>>
       /\ \A c \in Conns :
            thread[c] \notin {"fcntl", "push", "emplace", "signal", "handshake"}

(* No entry reports POLLHUP without POLLIN. *)
HangupReadable ==
  \A k \in 1 .. Len(poll_fds) :
    "hup" \in poll_fds[k].revents => "in" \in poll_fds[k].revents

CoreInv == SocketsInv /\ Working /\ Handshaken /\ Mutex /\ EventFirst /\ HangupReadable

Entry == [fd : ClientFds, revents : SUBSET {"in", "hup"}]

(* What a position of the vector holds. *)
LEMMA PositionType ==
  ASSUME poll_fds \in Seq(Entry)
  PROVE  /\ Len(poll_fds) \in Nat
         /\ DOMAIN poll_fds = 1 .. Len(poll_fds)
         /\ \A k \in 1 .. Len(poll_fds) :
              /\ poll_fds[k] \in Entry
              /\ poll_fds[k].fd \in ClientFds
              /\ poll_fds[k].revents \in SUBSET {"in", "hup"}
<1>1. \A k \in 1 .. Len(poll_fds) : poll_fds[k] \in Entry
  OBVIOUS
<1>2. \A e \in Entry : e.fd \in ClientFds /\ e.revents \in SUBSET {"in", "hup"}
  BY DEF Entry
<1> QED
  BY <1>1, <1>2

LEMMA Typed ==
  ASSUME TypeOK
  PROVE  SocketsType(Kinds) /\ poll_fds \in Seq(Entry)
BY DEF TypeOK, Entry

(* The poll thread never finds POLLHUP alone: its branch for it is dead. *)
LEMMA NeverHungUp ==
  ASSUME TypeOK, CoreInv, AtEntry
  PROVE  ~HungUp
<1>1. i \in 1 .. Len(poll_fds)
  BY Typed, PositionType DEF AtEntry, TypeOK
<1> QED
  BY <1>1 DEF HungUp, CoreInv, HangupReadable

(* A send reaches the connection of the thread that sends. *)
LEMMA AnswersItself ==
  ASSUME CoreInv, NEW c \in Conns, thread[c] \notin {"none", "done"}, NEW a
  PROVE  \A d \in Conns : Answered(fd[c], a)[d] = IF d = c THEN a ELSE answer[d]
<1>1. Holds(c, fd[c])
  BY DEF CoreInv, Working, Holds
<1>2. \A d \in Conns : Holds(d, fd[c]) => d = c
  BY <1>1 DEF CoreInv, SocketsInv, OneHolder, Holds
<1> QED
  BY <1>1, <1>2 DEF Answered

-----------------------------------------------------------------------------
(* Steps that change neither threads nor lists. *)
LEMMA QuietKeeps ==
  ASSUME CoreInv, UNCHANGED <<sockets, answer, thread, nonblock, event_fd, lists, poller>>
  PROVE  CoreInv'
<1>1. SocketsInv'
  BY BuffersKeepSockets DEF CoreInv, sockets
<1> QED
  BY <1>1 DEF CoreInv, Working, Handshaken, Upgraded, Mutex, EventFirst, HangupReadable,
              sockets, lists

LEMMA DieKeeps ==
  ASSUME TypeOK, CoreInv, Die
  PROVE  TypeOK' /\ CoreInv'
<1>1. CoreInv'
  BY QuietKeeps DEF Die, polling
<1> QED
  BY <1>1 DEF Die, polling, sockets, lists, TypeOK, SocketsType

LEMMA ClientKeeps ==
  ASSUME TypeOK, CoreInv, NEW c \in Conns, Client(c)
  PROVE  TypeOK' /\ CoreInv'
<1>1. CASE Connect(c)
  <2>1. SocketsType(Kinds)' /\ SocketsInv'
    BY <1>1, DialKeepsSockets DEF Connect, TypeOK, CoreInv
  <2>2. /\ UNCHANGED <<fd, answer, thread, nonblock, event_fd, lists, poller>>
        /\ \A d \in Conns : conn'[d] = conn[d] \/ (conn[d] = "new" /\ conn'[d] = "queued")
    BY <1>1 DEF Connect, Dial, polling, TypeOK, SocketsType
  <2>3. CoreInv'
    BY <2>1, <2>2 DEF CoreInv, Working, Handshaken, Upgraded, Mutex, EventFirst,
                      HangupReadable, lists
  <2> QED
    BY <1>1, <2>1, <2>3 DEF Connect, polling, lists, TypeOK
<1>2. ASSUME NEW m \in Kinds, Send(c, m) PROVE TypeOK' /\ CoreInv'
  <2>1. SocketsType(Kinds)' /\ SocketsInv'
    BY <1>2, DeliverType, BuffersKeepSockets DEF Send, Deliver, TypeOK, CoreInv
  <2>2. CoreInv'
    BY <1>2, <2>1 DEF Send, Deliver, polling, CoreInv, Working, Handshaken, Upgraded,
                      Mutex, EventFirst, HangupReadable, lists
  <2> QED
    BY <1>2, <2>1, <2>2 DEF Send, polling, lists, TypeOK
<1>3. CASE Leave(c)
  <2>1. SocketsType(Kinds)' /\ SocketsInv'
    BY <1>3, DepartType, BuffersKeepSockets DEF Leave, Depart, TypeOK, CoreInv
  <2>2. CoreInv'
    BY <1>3, <2>1 DEF Leave, Depart, polling, CoreInv, Working, Handshaken, Upgraded,
                      Mutex, EventFirst, HangupReadable, lists
  <2> QED
    BY <1>3, <2>1, <2>2 DEF Leave, polling, lists, TypeOK
<1> QED
  BY <1>1, <1>2, <1>3 DEF Client

(* The queue loses its head to a descriptor nobody has, or to nothing. *)
LEMMA AcceptKeeps ==
  ASSUME TypeOK, CoreInv, NEW c \in Conns, NEW f \in ClientFds, Accept(c, f)
  PROVE  TypeOK' /\ CoreInv'
<1>1. SocketsType(Kinds)' /\ SocketsInv' /\ conn[c] = "queued"
  BY TakeNextKeepsSockets DEF Accept, TypeOK, CoreInv
<1>2. /\ UNCHANGED <<answer, nonblock, event_fd, lists, poller>>
      /\ f # event_fd
      /\ \A d \in Conns :
           IF d = c THEN conn'[d] = "up" /\ fd'[d] = f /\ thread'[d] = "recv"
                    ELSE conn'[d] = conn[d] /\ fd'[d] = fd[d] /\ thread'[d] = thread[d]
  BY DEF Accept, Available, TakeNext, Goes, polling, TypeOK, SocketsType
<1>3. thread[c] = "none" /\ answer[c] # "101"
  BY <1>1 DEF CoreInv, Working, Handshaken
<1>4. CoreInv'
  BY <1>1, <1>2, <1>3 DEF CoreInv, Working, Handshaken, Upgraded, Mutex, EventFirst,
                          HangupReadable, lists
<1> QED
  BY <1>1, <1>4 DEF Accept, Goes, polling, lists, TypeOK

LEMMA AcceptDropsKeeps ==
  ASSUME TypeOK, CoreInv, NEW c \in Conns, AcceptDrops(c)
  PROVE  TypeOK' /\ CoreInv'
<1>1. PICK f \in ClientFds : Available(f)
  BY DEF AcceptDrops
<1>2. /\ backlog \in Seq(Conns) /\ backlog # <<>>
      /\ c = backlog[1]
      /\ Len(backlog) \in Nat \ {0}
      /\ backlog' \in Seq(Conns)
      /\ Len(backlog') = Len(backlog) - 1
      /\ \A k \in 1 .. (Len(backlog) - 1) : backlog'[k] = backlog[k + 1]
  BY DEF AcceptDrops, TypeOK, SocketsType
<1>3. conn[c] = "queued" /\ \A k \in 2 .. Len(backlog) : backlog[k] # c
  BY <1>2 DEF CoreInv, SocketsInv, QueueInv
<1>4. /\ UNCHANGED <<fd, answer, thread, nonblock, event_fd, lists, poller>>
      /\ \A d \in Conns : conn'[d] = IF d = c THEN "down" ELSE conn[d]
  BY DEF AcceptDrops, polling, TypeOK, SocketsType
<1>5. QueueInv'
  <2>1. \A k \in 1 .. Len(backlog') :
          /\ k + 1 \in 2 .. Len(backlog)
          /\ backlog'[k] = backlog[k + 1]
          /\ backlog[k + 1] \in Conns
    BY <1>2
  <2>2. \A k \in 1 .. Len(backlog') : conn'[backlog'[k]] = "queued"
    BY <1>2, <1>3, <1>4, <2>1 DEF CoreInv, SocketsInv, QueueInv
  <2>3. ASSUME NEW j \in 1 .. Len(backlog'), NEW k \in 1 .. Len(backlog'),
               backlog'[j] = backlog'[k]
        PROVE  j = k
    <3>1. backlog[j + 1] = backlog[k + 1] /\ j + 1 \in 1 .. Len(backlog)
                                          /\ k + 1 \in 1 .. Len(backlog)
      BY <2>1, <2>3, <1>2
    <3>2. j + 1 = k + 1
      BY <3>1 DEF CoreInv, SocketsInv, QueueInv
    <3> QED
      BY <3>2, <1>2
  <2> QED
    BY <2>2, <2>3 DEF QueueInv
<1>6. CoreInv'
  BY <1>3, <1>4, <1>5 DEF CoreInv, SocketsInv, OneHolder, UpHasFd, Working, Handshaken,
                          Upgraded, Mutex, EventFirst, HangupReadable, lists
<1>7. rx' \in [Conns -> Seq(Kinds)]
  <2>1. <<>> \in Seq(Kinds)
    OBVIOUS
  <2> QED
    BY <2>1 DEF AcceptDrops, TypeOK, SocketsType
<1> QED
  BY <1>2, <1>6, <1>7 DEF AcceptDrops, polling, lists, TypeOK, SocketsType

LEMMA MainKeeps ==
  ASSUME TypeOK, CoreInv, Main
  PROVE  TypeOK' /\ CoreInv'
<1>1. CASE CreateSocket
  <2>1. CoreInv'
    BY <1>1, QuietKeeps DEF CreateSocket, polling
  <2> QED
    BY <1>1, <2>1 DEF CreateSocket, polling, sockets, lists, TypeOK, SocketsType
<1>2. CASE SpawnFails
  <2>1. Die
    BY <1>2 DEF SpawnFails
  <2> QED
    BY <2>1, DieKeeps
<1>3. CASE \E c \in Conns : AcceptDrops(c) \/ \E f \in ClientFds : Accept(c, f)
  BY <1>3, AcceptKeeps, AcceptDropsKeeps
<1> QED
  BY <1>1, <1>2, <1>3 DEF Main

-----------------------------------------------------------------------------
(* The request threads. *)

(* A thread that goes on without touching what is shared. *)
LEMMA WalkKeeps ==
  ASSUME CoreInv, NEW c \in Conns, NEW to,
         DOMAIN thread = Conns,
         thread[c] \notin {"none", "done"},
         to \notin {"none", "done", "push", "emplace", "signal"},
         to \in {"fcntl", "handshake"} => poller # "none",
         to = "handshake" => thread[c] = "signal",
         Goes(c, to),
         UNCHANGED <<conn, fd, backlog, answer, nonblock, event_fd, lists, poller>>
  PROVE  CoreInv'
<1>1. SocketsInv'
  BY BuffersKeepSockets DEF CoreInv
<1>2. \A d \in Conns : thread'[d] = IF d = c THEN to ELSE thread[d]
  BY DEF Goes
<1>3. Working' /\ Mutex' /\ HangupReadable'
  BY <1>2 DEF CoreInv, Working, Mutex, HangupReadable, lists
<1>4. Handshaken'
  BY <1>2 DEF CoreInv, Handshaken, Upgraded
<1>5. EventFirst'
  BY <1>2 DEF CoreInv, EventFirst, lists
<1> QED
  BY <1>1, <1>3, <1>4, <1>5 DEF CoreInv

LEMMA ReceiveKeeps ==
  ASSUME TypeOK, CoreInv, NEW c \in Conns, Receive(c) \/ ReceiveNothing(c)
  PROVE  TypeOK' /\ CoreInv'
<1>1. PICK to \in {"get", "look", "close"} : Goes(c, to)
  BY DEF Receive, ReceiveNothing
<1>2. /\ thread[c] = "recv"
      /\ UNCHANGED <<conn, fd, backlog, answer, pc, nonblock, event_fd, signalled, lists,
                     poller, asked, moved, i>>
      /\ Take(c) \/ UNCHANGED sockets
  BY DEF Receive, ReceiveNothing, At, Take, sockets, polling
<1>3. DOMAIN thread = Conns
  BY DEF TypeOK
<1>4. CoreInv'
  BY <1>1, <1>2, <1>3, WalkKeeps
<1>5. SocketsType(Kinds)'
  <2>1. SocketsType(Kinds)
    BY DEF TypeOK
  <2>2. CASE Take(c)
    BY <2>1, <2>2, TakeType
  <2>3. CASE UNCHANGED sockets
    BY <2>1, <2>3 DEF sockets, SocketsType
  <2> QED
    BY <1>2, <2>2, <2>3
<1> QED
  BY <1>1, <1>2, <1>4, <1>5 DEF Goes, lists, TypeOK

LEMMA GetKeeps ==
  ASSUME TypeOK, CoreInv, NEW c \in Conns, Get(c)
  PROVE  TypeOK' /\ CoreInv'
<1>1. PICK to \in {"fcntl", "respond"} : Goes(c, to)
  BY DEF Get, Dispatched
<1>2. /\ thread[c] \in {"get", "look"}
      /\ poller # "none"
      /\ UNCHANGED <<sockets, answer, pc, nonblock, event_fd, signalled, lists, polling>>
  BY DEF Get, At
<1>3. DOMAIN thread = Conns
  BY DEF TypeOK
<1>4. CoreInv'
  BY <1>1, <1>2, <1>3, WalkKeeps DEF sockets, polling
<1> QED
  BY <1>1, <1>2, <1>4 DEF Goes, sockets, lists, polling, TypeOK, SocketsType

(* The eventfd's descriptor is nobody's, and the first in the vector. *)
LEMMA GetCreatesKeeps ==
  ASSUME TypeOK, CoreInv, NEW c \in Conns, GetCreates(c)
  PROVE  TypeOK' /\ CoreInv'
<1>1. PICK to \in {"fcntl", "respond"} : Goes(c, to)
  BY DEF GetCreates, Dispatched
<1>2. /\ thread[c] \in {"get", "look"}
      /\ poller = "none"
      /\ UNCHANGED <<sockets, answer, pc, nonblock, signalled, web_sockect_connections,
                     asked, moved, i>>
  BY DEF GetCreates, At
<1>3. \A d \in Conns : thread'[d] = IF d = c THEN to ELSE thread[d]
  BY <1>1 DEF Goes, TypeOK
<1>4. SocketsInv'
  BY <1>2, BuffersKeepSockets DEF CoreInv, sockets
<1>5. Working' /\ Mutex'
  BY <1>1, <1>2, <1>3 DEF CoreInv, Working, Mutex, sockets
<1>6. Handshaken'
  BY <1>1, <1>2, <1>3 DEF CoreInv, Handshaken, Upgraded
<1>7. CASE \E f \in ClientFds : /\ Available(f)
                               /\ event_fd' = f
                               /\ poll_fds' = <<[fd |-> f, revents |-> {}]>>
                               /\ poller' = "poll"
  <2>1. PICK f \in ClientFds : /\ Available(f)
                              /\ event_fd' = f
                              /\ poll_fds' = <<[fd |-> f, revents |-> {}]>>
                              /\ poller' = "poll"
    BY <1>7
  <2>2. Len(poll_fds') = 1 /\ poll_fds'[1] = [fd |-> f, revents |-> {}]
    BY <2>1
  <2>3. poll_fds' \in Seq(Entry)
    BY <2>1 DEF Entry
  <2>4. EventFirst'
    BY <1>2, <2>1, <2>2 DEF EventFirst, Available, Free, Holds, sockets
  <2>5. HangupReadable'
    BY <2>2 DEF HangupReadable
  <2> QED
    BY <1>1, <1>2, <1>4, <1>5, <1>6, <2>1, <2>3, <2>4, <2>5
       DEF CoreInv, Goes, sockets, TypeOK, SocketsType, Entry
<1>8. CASE poller' = "failed" /\ UNCHANGED <<event_fd, poll_fds>>
  <2>1. EventFirst' /\ HangupReadable'
    BY <1>2, <1>8 DEF CoreInv, EventFirst, HangupReadable, sockets
  <2> QED
    BY <1>1, <1>2, <1>4, <1>5, <1>6, <1>8, <2>1
       DEF CoreInv, Goes, sockets, TypeOK, SocketsType
<1> QED
  BY <1>7, <1>8 DEF GetCreates

LEMMA FcntlKeeps ==
  ASSUME TypeOK, CoreInv, NEW c \in Conns, Fcntl(c)
  PROVE  TypeOK' /\ CoreInv'
<1>1. /\ thread[c] = "fcntl"
      /\ UNCHANGED <<sockets, answer, pc, event_fd, signalled, lists, polling>>
      /\ nonblock' = nonblock \cup {d \in Conns : Holds(d, fd[c])}
      /\ \A d \in Conns : thread'[d] = IF d = c THEN "push" ELSE thread[d]
  BY DEF Fcntl, At, Goes, TypeOK
<1>2. c \in nonblock'
  BY <1>1 DEF CoreInv, Working, Holds
<1>3. SocketsInv'
  BY <1>1, BuffersKeepSockets DEF CoreInv, sockets
<1>4. Working' /\ Mutex' /\ HangupReadable' /\ EventFirst'
  BY <1>1 DEF CoreInv, Working, Mutex, HangupReadable, EventFirst, sockets, lists, polling
<1>5. Handshaken'
  BY <1>1, <1>2 DEF CoreInv, Handshaken, Upgraded
<1> QED
  BY <1>1, <1>3, <1>4, <1>5
     DEF CoreInv, Fcntl, Goes, sockets, lists, polling, TypeOK, SocketsType

(* Under the mutex the vector grows by one entry at its end. *)
LEMMA PushGrows ==
  ASSUME TypeOK, CoreInv, NEW c \in Conns, PushBack(c)
  PROVE  /\ poll_fds' \in Seq(Entry)
         /\ Len(poll_fds) \in Nat
         /\ Len(poll_fds') = Len(poll_fds) + 1
         /\ \A k \in 1 .. Len(poll_fds) : poll_fds'[k] = poll_fds[k]
         /\ poll_fds'[Len(poll_fds) + 1] = [fd |-> fd[c], revents |-> {}]
         /\ [fd |-> fd[c], revents |-> {}] \in Entry
         /\ Holds(c, fd[c])
<1>1. conn[c] = "up" /\ fd[c] \in ClientFds
  BY DEF PushBack, Push, At, CoreInv, Working, SocketsInv, UpHasFd
<1>2. [fd |-> fd[c], revents |-> {}] \in Entry
  BY <1>1 DEF Entry
<1>3. poll_fds \in Seq(Entry)
  BY Typed
<1>4. poll_fds' = Append(poll_fds, [fd |-> fd[c], revents |-> {}])
  BY DEF PushBack, Push
<1> QED
  BY <1>1, <1>2, <1>3, <1>4 DEF Holds

LEMMA PushBackKeeps ==
  ASSUME TypeOK, CoreInv, NEW c \in Conns, PushBack(c)
  PROVE  TypeOK' /\ CoreInv'
<1>1. /\ thread[c] = "push" /\ ~Locked
      /\ UNCHANGED <<sockets, answer, pc, nonblock, event_fd, signalled,
                     web_sockect_connections, poller, asked, i>>
      /\ moved' = (moved \/ (poller = "wait" /\ Full(Len(poll_fds))))
      /\ \A d \in Conns : thread'[d] = IF d = c THEN "emplace" ELSE thread[d]
  BY DEF PushBack, Push, At, Goes, TypeOK
<1>2. /\ Len(poll_fds) \in Nat
      /\ Len(poll_fds') = Len(poll_fds) + 1
      /\ \A k \in 1 .. Len(poll_fds) : poll_fds'[k] = poll_fds[k]
      /\ poll_fds'[Len(poll_fds) + 1] = [fd |-> fd[c], revents |-> {}]
  BY PushGrows
<1>9. SocketsInv'
  BY <1>1, BuffersKeepSockets DEF CoreInv, sockets
<1>3. Working' /\ Mutex'
  BY <1>1 DEF CoreInv, Working, Mutex, Locked, sockets
<1>4. Handshaken'
  BY <1>1 DEF CoreInv, Handshaken, Upgraded
<1>5. EventFirst'
  <2>1. poller \notin {"none", "failed"} => Len(poll_fds) > 0 /\ poll_fds[1].fd = event_fd
    BY DEF CoreInv, EventFirst
  <2>2. Len(poll_fds) > 0 => Len(poll_fds') > 0 /\ poll_fds'[1] = poll_fds[1]
    BY <1>2
  <2>3. poller # "none"
    BY <1>1 DEF CoreInv, EventFirst
  <2> QED
    BY <1>1, <2>1, <2>2, <2>3 DEF CoreInv, EventFirst, sockets
<1>6. HangupReadable'
  <2>1. ASSUME NEW k \in 1 .. Len(poll_fds')
        PROVE  "hup" \in poll_fds'[k].revents => "in" \in poll_fds'[k].revents
    <3>1. k \in 1 .. Len(poll_fds) \/ k = Len(poll_fds) + 1
      BY <1>2
    <3> QED
      BY <3>1, <1>2 DEF CoreInv, HangupReadable
  <2> QED
    BY <2>1 DEF HangupReadable
<1>7. moved' \in BOOLEAN
  BY <1>1 DEF TypeOK
<1>8. poll_fds' \in Seq([fd : ClientFds, revents : SUBSET {"in", "hup"}])
  BY PushGrows DEF Entry
<1> QED
  BY <1>1, <1>3, <1>4, <1>5, <1>6, <1>7, <1>8, <1>9
     DEF CoreInv, PushBack, Push, Goes, sockets, TypeOK, SocketsType

LEMMA EmplaceBackKeeps ==
  ASSUME TypeOK, CoreInv, NEW c \in Conns, EmplaceBack(c)
  PROVE  TypeOK' /\ CoreInv'
<1>1. /\ thread[c] = "emplace"
      /\ UNCHANGED <<sockets, answer, pc, nonblock, event_fd, signalled, poll_fds, polling>>
      /\ web_sockect_connections' = Append(web_sockect_connections, fd[c])
      /\ \A d \in Conns : thread'[d] = IF d = c THEN "signal" ELSE thread[d]
  BY DEF EmplaceBack, At, Goes, TypeOK
<1>2. SocketsInv'
  BY <1>1, BuffersKeepSockets DEF CoreInv, sockets
<1>3. Working' /\ Mutex' /\ HangupReadable'
  BY <1>1 DEF CoreInv, Working, Mutex, HangupReadable, sockets
<1>4. Handshaken'
  BY <1>1 DEF CoreInv, Handshaken, Upgraded
<1>5. EventFirst'
  BY <1>1 DEF CoreInv, EventFirst, sockets, polling
<1>6. web_sockect_connections' \in Seq(ClientFds)
  <2>1. fd[c] \in ClientFds
    BY <1>1 DEF CoreInv, Working, SocketsInv, UpHasFd
  <2> QED
    BY <1>1, <2>1 DEF TypeOK
<1> QED
  BY <1>1, <1>2, <1>3, <1>4, <1>5, <1>6
     DEF CoreInv, EmplaceBack, Goes, sockets, polling, TypeOK, SocketsType

LEMMA SignalKeeps ==
  ASSUME TypeOK, CoreInv, NEW c \in Conns, Signal(c)
  PROVE  TypeOK' /\ CoreInv'
<1>1. /\ thread[c] = "signal" /\ Goes(c, "handshake") /\ signalled' = TRUE
      /\ UNCHANGED <<sockets, answer, pc, nonblock, event_fd, lists, polling>>
  BY DEF Signal, At
<1>2. DOMAIN thread = Conns
  BY DEF TypeOK
<1>3. poller # "none"
  BY <1>1 DEF CoreInv, EventFirst
<1>4. CoreInv'
  BY <1>1, <1>2, <1>3, WalkKeeps DEF sockets, polling
<1> QED
  BY <1>1, <1>4 DEF Goes, sockets, lists, polling, TypeOK, SocketsType

(* An answer reaches the connection of its own thread only. *)
LEMMA AnswerKeeps ==
  ASSUME TypeOK, CoreInv, NEW c \in Conns, Handshake(c) \/ Respond(c)
  PROVE  TypeOK' /\ CoreInv'
<1>1. PICK to \in {"done", "close"}, a \in {"101", "http"} :
         /\ Goes(c, to)
         /\ answer' = Answered(fd[c], a)
         /\ (to = "done" /\ a = "101" /\ thread[c] = "handshake")
              \/ (to = "close" /\ a = "http" /\ thread[c] = "respond")
  BY DEF Handshake, Respond, At
<1>2. UNCHANGED <<sockets, pc, nonblock, event_fd, signalled, lists, polling>>
  BY DEF Handshake, Respond
<1>3. \A d \in Conns : thread'[d] = IF d = c THEN to ELSE thread[d]
  BY <1>1 DEF Goes, TypeOK
<1>4. \A d \in Conns : answer'[d] = IF d = c THEN a ELSE answer[d]
  BY <1>1, AnswersItself
<1>5. SocketsInv'
  BY <1>2, BuffersKeepSockets DEF CoreInv, sockets
<1>6. Working' /\ Mutex' /\ HangupReadable' /\ EventFirst'
  BY <1>1, <1>2, <1>3 DEF CoreInv, Working, Mutex, HangupReadable, EventFirst, sockets,
                          lists, polling
<1>7. Handshaken'
  BY <1>1, <1>2, <1>3, <1>4 DEF CoreInv, Handshaken, Upgraded
<1>8. answer' \in [Conns -> {"none", "http", "101"}]
  <2>1. answer' = [d \in Conns |-> IF Holds(d, fd[c]) THEN a ELSE answer[d]]
    BY <1>1 DEF Answered
  <2> QED
    BY <1>1, <2>1 DEF TypeOK
<1> QED
  BY <1>1, <1>2, <1>5, <1>6, <1>7, <1>8
     DEF CoreInv, Goes, sockets, lists, polling, TypeOK, SocketsType

(* Only the thread's own connection goes down. *)
LEMMA CloseShuts ==
  ASSUME CoreInv, NEW c \in Conns, Close(c)
  PROVE  /\ thread[c] = "close"
         /\ UNCHANGED fd
         /\ \A d \in Conns : conn'[d] = IF d = c THEN "down" ELSE conn[d]
<1>1. thread[c] = "close" /\ Holds(c, fd[c])
  BY DEF Close, At, CoreInv, Working, Holds
<1>2. \A d \in Conns : Holds(d, fd[c]) => d = c
  BY <1>1 DEF CoreInv, SocketsInv, OneHolder, Holds
<1> QED
  BY <1>1, <1>2 DEF Close, Shut

LEMMA CloseKeeps ==
  ASSUME TypeOK, CoreInv, NEW c \in Conns, Close(c)
  PROVE  TypeOK' /\ CoreInv'
<1>1. SocketsType(Kinds)' /\ SocketsInv'
  BY ShutKeepsSockets DEF Close, TypeOK, CoreInv
<1>2. /\ UNCHANGED <<answer, pc, nonblock, event_fd, signalled, lists, polling>>
      /\ \A d \in Conns : thread'[d] = IF d = c THEN "done" ELSE thread[d]
  BY DEF Close, Goes, TypeOK
<1>3. Working' /\ Mutex' /\ HangupReadable' /\ EventFirst'
  BY <1>2, CloseShuts DEF CoreInv, Working, Mutex, HangupReadable, EventFirst, lists,
                          polling
<1>4. Handshaken'
  BY <1>2, CloseShuts DEF CoreInv, Handshaken, Upgraded
<1> QED
  BY <1>1, <1>2, <1>3, <1>4 DEF CoreInv, Close, Goes, lists, polling, TypeOK

LEMMA ThreadKeeps ==
  ASSUME TypeOK, CoreInv, NEW c \in Conns, Thread(c)
  PROVE  TypeOK' /\ CoreInv'
<1>1. CASE ReceiveDies(c) \/ RaceDies(c) \/ SendDies(c)
  BY <1>1, DieKeeps DEF ReceiveDies, RaceDies, SendDies
<1> QED
  BY <1>1, ReceiveKeeps, GetKeeps, GetCreatesKeeps, FcntlKeeps, PushBackKeeps,
     EmplaceBackKeeps, SignalKeeps, AnswerKeeps, CloseKeeps DEF Thread

-----------------------------------------------------------------------------
(* The poll thread. *)

(* A reset socket is readable. *)
LEMMA ReventsReadable ==
  ASSUME NEW f
  PROVE  /\ Revents(f) \in SUBSET {"in", "hup"}
         /\ "hup" \in Revents(f) => "in" \in Revents(f)
BY DEF Revents, Raised, Readable

(* poll changes what is reported, never what is watched. *)
LEMMA PollReturnsMarks ==
  ASSUME TypeOK, PollReturns
  PROVE  /\ poll_fds' \in Seq(Entry)
         /\ Len(poll_fds') = Len(poll_fds)
         /\ \A k \in 1 .. Len(poll_fds) :
              /\ poll_fds'[k].fd = poll_fds[k].fd
              /\ \/ poll_fds'[k].revents = poll_fds[k].revents
                 \/ poll_fds'[k].revents = Revents(poll_fds[k].fd)
<1>1. /\ poll_fds \in Seq(Entry)
      /\ Len(poll_fds) \in Nat
      /\ \A k \in 1 .. Len(poll_fds) : poll_fds[k] \in Entry
  BY Typed, PositionType
<1>2. ASSUME NEW e \in Entry, NEW r \in SUBSET {"in", "hup"}
      PROVE  /\ [e EXCEPT !.revents = r] \in Entry
             /\ [e EXCEPT !.revents = r].fd = e.fd
             /\ [e EXCEPT !.revents = r].revents = r
  BY DEF Entry
<1>3. ASSUME NEW k \in 1 .. Len(poll_fds)
      PROVE  /\ poll_fds'[k] \in Entry
             /\ poll_fds'[k].fd = poll_fds[k].fd
             /\ \/ poll_fds'[k].revents = poll_fds[k].revents
                \/ poll_fds'[k].revents = Revents(poll_fds[k].fd)
  <2>1. poll_fds[k] \in Entry /\ Revents(poll_fds[k].fd) \in SUBSET {"in", "hup"}
    BY <1>1, ReventsReadable
  <2>2. \/ poll_fds'[k] = poll_fds[k]
        \/ poll_fds'[k] = [poll_fds[k] EXCEPT !.revents = Revents(poll_fds[k].fd)]
    BY DEF PollReturns
  <2>3. CASE poll_fds'[k] = poll_fds[k]
    BY <2>1, <2>3
  <2>4. CASE poll_fds'[k] = [poll_fds[k] EXCEPT !.revents = Revents(poll_fds[k].fd)]
    <3> DEFINE e == poll_fds[k]
               r == Revents(poll_fds[k].fd)
    <3>1. e \in Entry /\ r \in SUBSET {"in", "hup"} /\ poll_fds'[k] = [e EXCEPT !.revents = r]
      BY <2>1, <2>4
    <3> HIDE DEF e, r
    <3>2. poll_fds'[k] \in Entry /\ poll_fds'[k].fd = e.fd /\ poll_fds'[k].revents = r
      BY <1>2, <3>1
    <3> QED
      BY <3>2 DEF e, r
  <2> QED
    BY <2>2, <2>3, <2>4
<1>4. poll_fds' \in [1 .. Len(poll_fds) -> Entry]
  BY <1>3 DEF PollReturns
<1>5. poll_fds' \in Seq(Entry) /\ Len(poll_fds') = Len(poll_fds)
  BY <1>1, <1>4
<1> QED
  BY <1>3, <1>5

LEMMA PollReturnsKeeps ==
  ASSUME TypeOK, CoreInv, PollReturns
  PROVE  TypeOK' /\ CoreInv'
<1>1. /\ poller = "wait" /\ poller' = "scan"
      /\ asked' = 0 /\ moved' = FALSE
      /\ UNCHANGED <<sockets, answer, pc, thread, nonblock, event_fd, signalled,
                     web_sockect_connections, i>>
  BY DEF PollReturns, Woken
<1>2. SocketsInv'
  BY <1>1, BuffersKeepSockets DEF CoreInv, sockets
<1>3. Working' /\ Mutex' /\ Handshaken'
  BY <1>1 DEF CoreInv, Working, Mutex, Handshaken, Upgraded, sockets
<1>4. EventFirst'
  BY <1>1, PollReturnsMarks, PositionType, Typed DEF CoreInv, EventFirst, sockets
<1>5. HangupReadable'
  <2>1. ASSUME NEW k \in 1 .. Len(poll_fds')
        PROVE  "hup" \in poll_fds'[k].revents => "in" \in poll_fds'[k].revents
    BY PollReturnsMarks, ReventsReadable DEF CoreInv, HangupReadable
  <2> QED
    BY <2>1 DEF HangupReadable
<1>6. poll_fds' \in Seq([fd : ClientFds, revents : SUBSET {"in", "hup"}])
  BY PollReturnsMarks DEF Entry
<1> QED
  BY <1>1, <1>2, <1>3, <1>4, <1>5, <1>6 DEF CoreInv, sockets, TypeOK, SocketsType

LEMMA PollCallsKeeps ==
  ASSUME TypeOK, CoreInv, PollCalls
  PROVE  TypeOK' /\ CoreInv'
<1>1. /\ poller \in {"poll", "scan"} /\ poller' = "wait"
      /\ asked' = Len(poll_fds) /\ i' = 1
      /\ UNCHANGED <<sockets, answer, pc, thread, nonblock, event_fd, signalled, lists,
                     moved>>
  BY DEF PollCalls
<1>2. SocketsInv'
  BY <1>1, BuffersKeepSockets DEF CoreInv, sockets
<1>3. CoreInv'
  BY <1>1, <1>2 DEF CoreInv, Working, Mutex, Handshaken, Upgraded, EventFirst,
                    HangupReadable, sockets, lists
<1>4. asked' \in Nat
  BY <1>1, Typed, PositionType
<1> QED
  BY <1>1, <1>3, <1>4 DEF sockets, lists, TypeOK, SocketsType

(* The scan only ever reads. *)
LEMMA ScanReads ==
  ASSUME TypeOK, CoreInv, Scan
  PROVE  /\ rx' = [c \in Conns |-> IF c \in Reading THEN <<>> ELSE rx[c]]
         /\ i' = i + 1
         /\ UNCHANGED <<conn, fd, backlog, eof, poll_fds, answer, pc, thread, nonblock,
                        event_fd, signalled, web_sockect_connections, poller, asked,
                        moved>>
<1>1. ~HungUp
  BY NeverHungUp DEF Scan
<1> QED
  BY <1>1 DEF Scan

LEMMA ScanKeeps ==
  ASSUME TypeOK, CoreInv, Scan
  PROVE  TypeOK' /\ CoreInv'
<1>1. SocketsInv'
  BY ScanReads, BuffersKeepSockets DEF CoreInv
<1>2. CoreInv'
  BY <1>1, ScanReads DEF CoreInv, Working, Mutex, Handshaken, Upgraded, EventFirst,
                         HangupReadable
<1>3. rx' \in [Conns -> Seq(Kinds)]
  <2>1. <<>> \in Seq(Kinds)
    OBVIOUS
  <2> QED
    BY <2>1, ScanReads DEF TypeOK, SocketsType
<1>4. i' \in Nat \ {0}
  <2>1. i' = i + 1
    BY ScanReads
  <2> QED
    BY <2>1 DEF TypeOK
<1>5. UNCHANGED <<conn, fd, backlog, eof, poll_fds, answer, pc, thread, nonblock, event_fd,
                  signalled, web_sockect_connections, poller, asked, moved>>
  BY ScanReads
<1> QED
  BY <1>2, <1>3, <1>4, <1>5 DEF TypeOK, SocketsType

LEMMA PollerKeeps ==
  ASSUME TypeOK, CoreInv, Poller
  PROVE  TypeOK' /\ CoreInv'
<1>1. CASE PollCalls
  BY <1>1, PollCallsKeeps
<1>2. CASE PollReturns
  BY <1>2, PollReturnsKeeps
<1>3. CASE Scan
  BY <1>3, ScanKeeps
<1>4. CASE PollDies \/ ScanDies
  <2>1. Die
    BY <1>4 DEF PollDies, ScanDies
  <2> QED
    BY <2>1, DieKeeps
<1> QED
  BY <1>1, <1>2, <1>3, <1>4 DEF Poller

-----------------------------------------------------------------------------
LEMMA Initially ==
  ASSUME Init
  PROVE  TypeOK /\ CoreInv
<1>1. SocketsType(Kinds) /\ SocketsInv
  BY SocketsInitially DEF Init
<1>2. TypeOK
  <2>1. /\ poll_fds \in Seq([fd : ClientFds, revents : SUBSET {"in", "hup"}])
        /\ web_sockect_connections \in Seq(ClientFds)
    BY DEF Init
  <2>2. /\ answer \in [Conns -> {"none", "http", "101"}]
        /\ pc \in {"create", "accept", "returned", "killed"}
    BY DEF Init
  <2>3. thread \in [Conns -> {"none", "recv", "get", "look", "fcntl", "push", "emplace",
                             "signal", "handshake", "respond", "close", "done"}]
    BY DEF Init
  <2>4. signalled \in BOOLEAN /\ moved \in BOOLEAN
    BY DEF Init
  <2>5. /\ nonblock \in SUBSET Conns
        /\ event_fd \in {NoFd} \cup ClientFds
        /\ poller \in {"none", "failed", "poll", "wait", "scan"}
        /\ asked \in Nat /\ i \in Nat \ {0}
    BY DEF Init
  <2> QED
    BY <1>1, <2>1, <2>2, <2>3, <2>4, <2>5 DEF TypeOK
<1>3. Working /\ Handshaken /\ Mutex
  BY DEF Init, SocketsInit, Working, Handshaken, Upgraded, Mutex
<1>4. EventFirst /\ HangupReadable
  BY DEF Init, SocketsInit, EventFirst, HangupReadable
<1> QED
  BY <1>1, <1>2, <1>3, <1>4 DEF CoreInv

LEMMA StepKeeps ==
  ASSUME TypeOK, CoreInv, [Next]_vars
  PROVE  TypeOK' /\ CoreInv'
<1>1. CASE UNCHANGED vars
  <2>1. CoreInv'
    BY <1>1, QuietKeeps DEF vars, polling
  <2> QED
    BY <1>1, <2>1 DEF vars, sockets, lists, polling, TypeOK, SocketsType
<1> QED
  BY <1>1, MainKeeps, PollerKeeps, ClientKeeps, ThreadKeeps DEF Next

(* Every variable keeps its type: what the legacy server stores, whatever  *)
(* the threads do to each other.                                           *)
THEOREM TypeCorrect == Spec => []TypeOK
<1>1. Init => TypeOK /\ CoreInv
  BY Initially
<1>2. TypeOK /\ CoreInv /\ [Next]_vars => TypeOK' /\ CoreInv'
  BY StepKeeps
<1> QED
  BY <1>1, <1>2, PTL DEF Spec

-----------------------------------------------------------------------------
(* What the poll thread watches. *)

(* No entry loses the connection it was listed for. *)
LEMMA ListedStay ==
  ASSUME ListedAreOpen,
         poller' # "failed" => poller # "failed",
         Len(poll_fds') = Len(poll_fds),
         \A k \in 1 .. Len(poll_fds) : poll_fds'[k].fd = poll_fds[k].fd,
         \A c \in Conns :
           conn[c] = "up" /\ Upgraded(c) => conn'[c] = "up" /\ fd'[c] = fd[c] /\ Upgraded(c)',
         Len(poll_fds) \in Nat
  PROVE  ListedAreOpen'
<1> SUFFICES ASSUME poller' # "failed", NEW j \in 2 .. Len(poll_fds)
             PROVE  /\ \E c \in Conns : Holds(c, poll_fds[j].fd)' /\ Upgraded(c)'
                    /\ \A k \in 1 .. (j - 1) : poll_fds'[k].fd # poll_fds'[j].fd
  BY DEF ListedAreOpen, Upgraded, Holds
<1>1. PICK c \in Conns : Holds(c, poll_fds[j].fd) /\ Upgraded(c)
  BY DEF ListedAreOpen, Upgraded
<1>2. j \in 1 .. Len(poll_fds) /\ \A k \in 1 .. (j - 1) : k \in 1 .. Len(poll_fds)
  OBVIOUS
<1>3. \A k \in 1 .. (j - 1) : poll_fds'[k].fd # poll_fds'[j].fd
  BY <1>2 DEF ListedAreOpen
<1> QED
  BY <1>1, <1>2, <1>3 DEF Holds

(* push_back lists a descriptor no entry has: those listed before are held *)
(* by other connections, the first is the eventfd's.                       *)
LEMMA PushBackLists ==
  ASSUME TypeOK, CoreInv, ListedAreOpen, NEW c \in Conns, PushBack(c)
  PROVE  ListedAreOpen'
<1>1. /\ Len(poll_fds) \in Nat
      /\ Len(poll_fds') = Len(poll_fds) + 1
      /\ \A k \in 1 .. Len(poll_fds) : poll_fds'[k] = poll_fds[k]
      /\ poll_fds'[Len(poll_fds) + 1].fd = fd[c]
      /\ Holds(c, fd[c])
  <2>1. poll_fds'[Len(poll_fds) + 1] = [fd |-> fd[c], revents |-> {}]
    BY PushGrows
  <2>2. poll_fds'[Len(poll_fds) + 1].fd = fd[c]
    BY <2>1
  <2> QED
    BY <2>2, PushGrows
<1>2. /\ thread[c] = "push" /\ thread'[c] = "emplace"
      /\ UNCHANGED <<conn, fd, answer, poller>>
      /\ \A d \in Conns : d # c => thread'[d] = thread[d]
  BY DEF PushBack, Push, At, Goes, TypeOK, sockets
<1>3. SUFFICES ASSUME poller # "failed", NEW j \in 2 .. (Len(poll_fds) + 1)
               PROVE  /\ \E d \in Conns : Holds(d, poll_fds[j].fd)' /\ Upgraded(d)'
                      /\ \A k \in 1 .. (j - 1) : poll_fds'[k].fd # poll_fds'[j].fd
  BY <1>1, <1>2 DEF ListedAreOpen, Upgraded, Holds
<1>4. CASE j \in 2 .. Len(poll_fds)
  <2>1. PICK d \in Conns : Holds(d, poll_fds[j].fd) /\ Upgraded(d)
    BY <1>3, <1>4 DEF ListedAreOpen, Upgraded
  <2>2. Holds(d, poll_fds[j].fd)' /\ Upgraded(d)'
    BY <1>1, <1>2, <1>4, <2>1 DEF Holds, Upgraded
  <2>3. \A k \in 1 .. (j - 1) : poll_fds[k].fd # poll_fds[j].fd
    BY <1>3, <1>4 DEF ListedAreOpen
  <2>4. \A k \in 1 .. (j - 1) : poll_fds'[k].fd # poll_fds'[j].fd
    BY <1>1, <1>4, <2>3
  <2> QED
    BY <2>2, <2>4
<1>5. CASE j = Len(poll_fds) + 1
  <2>1. Holds(c, poll_fds[j].fd)' /\ Upgraded(c)'
    BY <1>1, <1>2, <1>5 DEF Holds, Upgraded
  <2>2. ASSUME NEW k \in 2 .. Len(poll_fds) PROVE poll_fds[k].fd # fd[c]
    <3>1. PICK d \in Conns : Holds(d, poll_fds[k].fd) /\ Upgraded(d)
      BY <1>3 DEF ListedAreOpen, Upgraded
    <3>2. d # c
      BY <1>2, <3>1 DEF Upgraded
    <3> QED
      BY <1>1, <3>1, <3>2 DEF Holds, CoreInv, SocketsInv, OneHolder
  <2>3. Len(poll_fds) > 0 /\ poll_fds[1].fd # fd[c]
    BY <1>1, <1>2, <1>3 DEF CoreInv, EventFirst, Holds
  <2>4. \A k \in 1 .. (j - 1) : k = 1 \/ k \in 2 .. Len(poll_fds)
    BY <1>1, <1>5
  <2>5. \A k \in 1 .. (j - 1) : poll_fds'[k].fd # poll_fds'[j].fd
    BY <1>1, <1>5, <2>2, <2>3, <2>4
  <2> QED
    BY <2>1, <2>5
<1> QED
  BY <1>1, <1>4, <1>5

(* No step of a thread takes an upgraded connection back. *)
LEMMA ThreadLists ==
  ASSUME TypeOK, CoreInv, ListedAreOpen, NEW c \in Conns, Thread(c)
  PROVE  ListedAreOpen'
<1> DEFINE Stay == \A d \in Conns : conn[d] = "up" /\ Upgraded(d) =>
                     conn'[d] = "up" /\ fd'[d] = fd[d] /\ Upgraded(d)'
<1>1. Len(poll_fds) \in Nat
  BY Typed, PositionType
<1>2. CASE PushBack(c)
  BY <1>2, PushBackLists
<1>3. CASE GetCreates(c)
  <2>1. /\ poller = "none"
        /\ \/ \E f : poll_fds' = <<[fd |-> f, revents |-> {}]>>
           \/ poller' = "failed"
    BY <1>3 DEF GetCreates
  <2>2. \A f : Len(<<[fd |-> f, revents |-> {}]>>) = 1
    OBVIOUS
  <2> QED
    BY <2>1, <2>2 DEF ListedAreOpen
<1>4. CASE Close(c)
  <2>1. Stay
    BY <1>4, CloseShuts DEF Close, Goes, TypeOK, Upgraded
  <2> QED
    BY <1>1, <1>4, <2>1, ListedStay DEF Close, lists, polling
<1>5. CASE Handshake(c) \/ Respond(c)
  <2>1. /\ thread[c] \in {"handshake", "respond"}
        /\ thread[c] = "handshake" => answer' = Answered(fd[c], "101") /\ Goes(c, "done")
        /\ thread[c] = "respond" => answer' = Answered(fd[c], "http") /\ Goes(c, "close")
        /\ UNCHANGED <<conn, fd, poll_fds, poller>>
    BY <1>5 DEF Handshake, Respond, At, sockets, lists, polling
  <2>5. \A a : \A d \in Conns : Answered(fd[c], a)[d] = IF d = c THEN a ELSE answer[d]
    BY <2>1, AnswersItself
  <2>2. \A d \in Conns : d # c => thread'[d] = thread[d] /\ answer'[d] = answer[d]
    BY <2>1, <2>5 DEF Goes, TypeOK
  <2>3. thread[c] = "handshake" => thread'[c] = "done" /\ answer'[c] = "101"
    BY <2>1, <2>5 DEF Goes, TypeOK
  <2>4. Stay
    BY <2>1, <2>2, <2>3 DEF Upgraded
  <2> QED
    BY <1>1, <2>1, <2>4, ListedStay
<1>6. CASE EmplaceBack(c) \/ Signal(c)
  <2>1. /\ UNCHANGED <<conn, fd, answer, poll_fds, poller>>
        /\ Goes(c, "signal") \/ Goes(c, "handshake")
    BY <1>6 DEF EmplaceBack, Signal, sockets, lists, polling
  <2>2. Stay
    BY <2>1 DEF Goes, TypeOK, Upgraded
  <2> QED
    BY <1>1, <2>1, <2>2, ListedStay
<1>7. CASE Receive(c) \/ ReceiveNothing(c) \/ Get(c) \/ Fcntl(c)
  <2>1. /\ UNCHANGED <<conn, fd, answer, poll_fds, poller>>
        /\ thread[c] \in {"recv", "get", "look", "fcntl"}
        /\ \E to : Goes(c, to)
    BY <1>7 DEF Receive, ReceiveNothing, Get, Fcntl, At, Take, sockets, lists, polling
  <2>2. Stay
    BY <2>1 DEF Goes, TypeOK, Upgraded
  <2> QED
    BY <1>1, <2>1, <2>2, ListedStay
<1>8. CASE ReceiveDies(c) \/ RaceDies(c) \/ SendDies(c)
  <2>1. UNCHANGED <<conn, fd, answer, thread, poll_fds, poller>>
    BY <1>8 DEF ReceiveDies, RaceDies, SendDies, Die, sockets, lists, polling
  <2> QED
    BY <2>1 DEF ListedAreOpen, Holds
<1> QED
  BY <1>2, <1>3, <1>4, <1>5, <1>6, <1>7, <1>8 DEF Thread

(* Nor does any other step. *)
LEMMA StepLists ==
  ASSUME TypeOK, CoreInv, ListedAreOpen, [Next]_vars
  PROVE  ListedAreOpen'
<1>1. Len(poll_fds) \in Nat
  BY Typed, PositionType
<1>2. ASSUME UNCHANGED <<answer, thread, poll_fds, poller>>,
             \A d \in Conns : conn[d] = "up" => conn'[d] = "up" /\ fd'[d] = fd[d]
      PROVE  ListedAreOpen'
  BY <1>1, <1>2, ListedStay DEF Upgraded
<1>3. CASE UNCHANGED vars \/ CreateSocket \/ Die
  BY <1>2, <1>3 DEF vars, CreateSocket, Die, sockets, lists, polling
<1>4. ASSUME NEW c \in Conns, Client(c) PROVE ListedAreOpen'
  <2>1. /\ UNCHANGED <<answer, thread, poll_fds, poller, fd>>
        /\ \A d \in Conns : conn[d] = "up" => conn'[d] = "up"
    BY <1>4 DEF Client, Connect, Dial, Send, Deliver, Leave, Depart, lists, polling,
                TypeOK, SocketsType
  <2> QED
    BY <1>2, <2>1
<1>5. ASSUME NEW c \in Conns, AcceptDrops(c) PROVE ListedAreOpen'
  <2>1. conn[c] = "queued"
    BY <1>5 DEF AcceptDrops, CoreInv, SocketsInv, QueueInv, TypeOK, SocketsType
  <2> QED
    BY <1>2, <1>5, <2>1 DEF AcceptDrops, lists, polling, TypeOK, SocketsType
<1>6. ASSUME NEW c \in Conns, NEW f \in ClientFds, Accept(c, f) PROVE ListedAreOpen'
  <2>1. conn[c] = "queued"
    BY <1>6, TakeNextKeepsSockets DEF Accept, TypeOK, CoreInv
  <2>2. /\ UNCHANGED <<answer, poll_fds, poller>>
        /\ \A d \in Conns : d # c =>
             conn'[d] = conn[d] /\ fd'[d] = fd[d] /\ thread'[d] = thread[d]
    BY <1>6 DEF Accept, TakeNext, Goes, lists, polling, TypeOK, SocketsType
  <2> QED
    BY <1>1, <2>1, <2>2, ListedStay DEF Upgraded
<1>7. CASE PollCalls
  <2>1. UNCHANGED <<conn, fd, answer, thread, poll_fds>> /\ poller # "failed"
    BY <1>7 DEF PollCalls, sockets, lists
  <2> QED
    BY <2>1 DEF ListedAreOpen, Holds
<1>8. CASE PollReturns
  <2>1. UNCHANGED <<conn, fd, answer, thread>> /\ poller # "failed"
    BY <1>8 DEF PollReturns, Woken, sockets
  <2>2. /\ Len(poll_fds') = Len(poll_fds)
        /\ \A k \in 1 .. Len(poll_fds) : poll_fds'[k].fd = poll_fds[k].fd
    BY <1>8, PollReturnsMarks
  <2> QED
    BY <1>1, <2>1, <2>2, ListedStay DEF Upgraded
<1>9. CASE Scan
  BY <1>2, <1>9, ScanReads
<1>10. CASE Main
  BY <1>3, <1>5, <1>6, <1>10 DEF Main, SpawnFails
<1>11. CASE Poller
  BY <1>3, <1>7, <1>8, <1>9, <1>11 DEF Poller, PollDies, ScanDies
<1> QED
  BY <1>3, <1>4, <1>10, <1>11, ThreadLists DEF Next

(* What the poll thread reads is a connection it was listed for, and       *)
(* O_NONBLOCK since before that.                                           *)
LEMMA ReadsListed ==
  ASSUME TypeOK, CoreInv, ListedAreOpen
  PROVE  ReadNeverBlocks
<1> SUFFICES ASSUME NEW c \in Reading
             PROVE  c \in nonblock
  BY DEF ReadNeverBlocks
<1>1. /\ c \in Conns /\ Holds(c, poll_fds[i].fd)
      /\ poller = "scan" /\ i <= Len(poll_fds)
  BY DEF Reading, AtEntry
<1>2. poll_fds[1].fd = event_fd
  BY <1>1 DEF CoreInv, EventFirst
<1>3. i # 1
  BY <1>1, <1>2 DEF CoreInv, EventFirst, Holds
<1>4. i \in 2 .. Len(poll_fds)
  BY <1>1, <1>3, Typed, PositionType DEF TypeOK
<1>5. PICK d \in Conns : Holds(d, poll_fds[i].fd) /\ Upgraded(d)
  BY <1>1, <1>4 DEF ListedAreOpen, Upgraded
<1>6. d = c
  BY <1>1, <1>5 DEF Holds, CoreInv, SocketsInv, OneHolder
<1> QED
  BY <1>5, <1>6 DEF CoreInv, Handshaken

LEMMA Invariantly == Spec => [](TypeOK /\ CoreInv /\ ListedAreOpen)
<1>1. Init => TypeOK /\ CoreInv /\ ListedAreOpen
  <2>1. Init => ListedAreOpen
    BY DEF Init, ListedAreOpen
  <2> QED
    BY <2>1, Initially
<1>2. TypeOK /\ CoreInv /\ ListedAreOpen /\ [Next]_vars
        => TypeOK' /\ CoreInv' /\ ListedAreOpen'
  BY StepKeeps, StepLists
<1> QED
  BY <1>1, <1>2, PTL DEF Spec

(* The poll thread watches open WebSockets only, each once: no descriptor  *)
(* is reused while it is listed.                                           *)
THEOREM WatchesOpenSockets == Spec => []ListedAreOpen
BY Invariantly, PTL

(* The poll thread never waits in read, whatever revents say. *)
THEOREM NeverBlocksInRead == Spec => []ReadNeverBlocks
<1>1. TypeOK /\ CoreInv /\ ListedAreOpen => ReadNeverBlocks
  BY ReadsListed
<1> QED
  BY <1>1, Invariantly, PTL

-----------------------------------------------------------------------------
(* The two vectors. *)

(* ListedTogether entry by entry, and exact about the thread that is       *)
(* between push_back and emplace_back.                                     *)
EventFds == IF poller = "failed" THEN 0 ELSE 1

Aligned ==
  poller # "none" =>
    /\ \A k \in 1 .. Len(web_sockect_connections) :
         poll_fds[k + EventFds].fd = web_sockect_connections[k]
    /\ \A c \in Conns : thread[c] = "emplace" =>
         /\ Len(poll_fds) = Len(web_sockect_connections) + 1 + EventFds
         /\ poll_fds[Len(poll_fds)].fd = fd[c]
    /\ (\A c \in Conns : thread[c] # "emplace") =>
         Len(poll_fds) = Len(web_sockect_connections) + EventFds

(* The sockets of poll_fds, in its order. *)
Watched ==
  LET sockets_of == [k \in 1 .. Len(poll_fds) |-> poll_fds[k].fd]
  IN IF poller = "failed" THEN sockets_of ELSE Tail(sockets_of)

LEMMA WatchedEntries ==
  ASSUME TypeOK, CoreInv, poller # "none"
  PROVE  /\ Watched \in Seq(ClientFds)
         /\ Len(Watched) = Len(poll_fds) - EventFds
         /\ Len(Watched) \in Nat
         /\ \A k \in 1 .. Len(Watched) : Watched[k] = poll_fds[k + EventFds].fd
<1> DEFINE all == [k \in 1 .. Len(poll_fds) |-> poll_fds[k].fd]
<1>1. Len(poll_fds) \in Nat
  BY Typed, PositionType
<1>2. /\ all \in Seq(ClientFds) /\ Len(all) = Len(poll_fds)
      /\ \A k \in 1 .. Len(poll_fds) : all[k] = poll_fds[k].fd
  BY <1>1, Typed, PositionType
<1>3. Watched = IF poller = "failed" THEN all ELSE Tail(all)
  BY DEF Watched
<1> HIDE DEF all
<1>4. CASE poller = "failed"
  BY <1>1, <1>2, <1>3, <1>4 DEF EventFds
<1>5. CASE poller # "failed"
  <2>1. Len(poll_fds) > 0
    BY <1>5 DEF CoreInv, EventFirst
  <2>2. all # <<>>
    BY <1>2, <2>1
  <2>3. /\ Tail(all) \in Seq(ClientFds)
        /\ Len(Tail(all)) = Len(all) - 1
        /\ \A k \in 1 .. (Len(all) - 1) : Tail(all)[k] = all[k + 1]
    BY <1>2, <2>2
  <2>4. /\ Watched = Tail(all)
        /\ EventFds = 1
    BY <1>3, <1>5 DEF EventFds
  <2> QED
    BY <1>1, <1>2, <2>1, <2>3, <2>4
<1> QED
  BY <1>4, <1>5

LEMMA AlignedTogether ==
  ASSUME TypeOK, CoreInv, Aligned
  PROVE  ListedTogether
<1> SUFFICES ASSUME poller # "none"
             PROVE  \/ Watched = web_sockect_connections
                    \/ \E c \in Conns : /\ thread[c] = "emplace"
                                        /\ Watched = Append(web_sockect_connections, fd[c])
  BY DEF ListedTogether, Watched
<1> DEFINE n == Len(web_sockect_connections)
<1>1. /\ web_sockect_connections \in Seq(ClientFds) /\ n \in Nat
      /\ Len(poll_fds) \in Nat /\ EventFds \in {0, 1}
  BY Typed, PositionType DEF TypeOK, EventFds
<1>2. /\ Watched \in Seq(ClientFds)
      /\ Len(Watched) = Len(poll_fds) - EventFds
      /\ \A k \in 1 .. Len(Watched) : Watched[k] = poll_fds[k + EventFds].fd
  BY WatchedEntries
<1>3. \A k \in 1 .. n : poll_fds[k + EventFds].fd = web_sockect_connections[k]
  BY DEF Aligned
<1>4. CASE \A c \in Conns : thread[c] # "emplace"
  <2>1. Len(Watched) = n
    BY <1>1, <1>2, <1>4 DEF Aligned
  <2>2. \A k \in 1 .. n : Watched[k] = web_sockect_connections[k]
    BY <1>2, <1>3, <2>1
  <2>3. Watched = web_sockect_connections
    BY <1>1, <1>2, <2>1, <2>2
  <2> QED
    BY <2>3
<1>5. ASSUME NEW c \in Conns, thread[c] = "emplace"
      PROVE  Watched = Append(web_sockect_connections, fd[c])
  <2>1. Len(Watched) = n + 1 /\ poll_fds[n + 1 + EventFds].fd = fd[c]
    BY <1>1, <1>2, <1>5 DEF Aligned
  <2>2. fd[c] \in ClientFds
    BY <1>5 DEF CoreInv, Working, SocketsInv, UpHasFd
  <2>3. /\ Append(web_sockect_connections, fd[c]) \in Seq(ClientFds)
        /\ Len(Append(web_sockect_connections, fd[c])) = n + 1
        /\ Append(web_sockect_connections, fd[c])[n + 1] = fd[c]
        /\ \A k \in 1 .. n :
             Append(web_sockect_connections, fd[c])[k] = web_sockect_connections[k]
    BY <1>1, <2>2
  <2>4. \A k \in 1 .. (n + 1) : Watched[k] = Append(web_sockect_connections, fd[c])[k]
    <3>1. \A k \in 1 .. (n + 1) : k \in 1 .. n \/ k = n + 1
      BY <1>1
    <3> QED
      BY <1>1, <1>2, <1>3, <2>1, <2>3, <3>1
  <2> QED
    BY <1>1, <1>2, <2>1, <2>3, <2>4
<1> QED
  BY <1>4, <1>5

(* Steps that neither list a socket nor stop listing one. *)
LEMMA AlignedStay ==
  ASSUME Aligned,
         Len(poll_fds) \in Nat,
         Len(web_sockect_connections) \in Nat,
         poller # "none" =>
           Len(poll_fds) >= Len(web_sockect_connections) + EventFds,
         poller' = "none" <=> poller = "none",
         poller' = "failed" <=> poller = "failed",
         UNCHANGED web_sockect_connections,
         Len(poll_fds') = Len(poll_fds),
         \A k \in 1 .. Len(poll_fds) : poll_fds'[k].fd = poll_fds[k].fd,
         \A c \in Conns : thread'[c] = "emplace" <=> thread[c] = "emplace",
         \A c \in Conns : thread[c] = "emplace" => fd'[c] = fd[c]
  PROVE  Aligned'
<1>1. EventFds' = EventFds /\ EventFds \in {0, 1}
  BY DEF EventFds
<1> SUFFICES ASSUME poller # "none"
             PROVE  /\ \A k \in 1 .. Len(web_sockect_connections) :
                         poll_fds'[k + EventFds].fd = web_sockect_connections[k]
                    /\ \A c \in Conns : thread[c] = "emplace" =>
                         /\ Len(poll_fds) = Len(web_sockect_connections) + 1 + EventFds
                         /\ poll_fds'[Len(poll_fds)].fd = fd[c]
                    /\ (\A c \in Conns : thread[c] # "emplace") =>
                         Len(poll_fds) = Len(web_sockect_connections) + EventFds
  BY <1>1 DEF Aligned
<1>2. \A k \in 1 .. Len(web_sockect_connections) : k + EventFds \in 1 .. Len(poll_fds)
  BY <1>1
<1>3. ASSUME NEW c \in Conns, thread[c] = "emplace"
      PROVE  /\ Len(poll_fds) = Len(web_sockect_connections) + 1 + EventFds
             /\ poll_fds'[Len(poll_fds)].fd = fd[c]
  <2>1. /\ Len(poll_fds) = Len(web_sockect_connections) + 1 + EventFds
        /\ poll_fds[Len(poll_fds)].fd = fd[c]
    BY <1>3 DEF Aligned
  <2>2. Len(poll_fds) \in 1 .. Len(poll_fds)
    BY <1>1, <2>1
  <2> QED
    BY <2>1, <2>2
<1>4. \A k \in 1 .. Len(web_sockect_connections) :
        poll_fds'[k + EventFds].fd = web_sockect_connections[k]
  BY <1>2 DEF Aligned
<1> QED
  BY <1>3, <1>4 DEF Aligned

(* poll_fds is never the shorter one. *)
LEMMA AlignedLength ==
  ASSUME TypeOK, Aligned
  PROVE  /\ Len(poll_fds) \in Nat
         /\ Len(web_sockect_connections) \in Nat
         /\ poller # "none" => Len(poll_fds) >= Len(web_sockect_connections) + EventFds
<1>1. /\ Len(poll_fds) \in Nat
      /\ Len(web_sockect_connections) \in Nat
      /\ EventFds \in {0, 1}
  BY Typed, PositionType DEF TypeOK, EventFds
<1> QED
  BY <1>1 DEF Aligned

(* With the mutex free the vectors agree, and push_back makes poll_fds one *)
(* longer.                                                                 *)
LEMMA PushBackAligns ==
  ASSUME TypeOK, CoreInv, Aligned, NEW c \in Conns, PushBack(c)
  PROVE  Aligned'
<1> DEFINE n == Len(web_sockect_connections)
<1>1. /\ Len(poll_fds') = Len(poll_fds) + 1
      /\ \A k \in 1 .. Len(poll_fds) : poll_fds'[k] = poll_fds[k]
      /\ poll_fds'[Len(poll_fds) + 1].fd = fd[c]
  <2>1. poll_fds'[Len(poll_fds) + 1] = [fd |-> fd[c], revents |-> {}]
    BY PushGrows
  <2>2. poll_fds'[Len(poll_fds) + 1].fd = fd[c]
    BY <2>1
  <2> QED
    BY <2>2, PushGrows
<1>2. /\ thread[c] = "push" /\ ~Locked
      /\ UNCHANGED <<fd, web_sockect_connections, poller>>
      /\ \A d \in Conns : thread'[d] = IF d = c THEN "emplace" ELSE thread[d]
  BY DEF PushBack, Push, At, Goes, TypeOK, sockets
<1>3. poller # "none" /\ EventFds' = EventFds /\ EventFds \in {0, 1}
  BY <1>2 DEF CoreInv, EventFirst, EventFds
<1>4. /\ Len(poll_fds) = n + EventFds
      /\ \A k \in 1 .. n : poll_fds[k + EventFds].fd = web_sockect_connections[k]
  BY <1>2, <1>3 DEF Aligned, Locked
<1>5. \A k \in 1 .. n : k + EventFds \in 1 .. Len(poll_fds)
  BY <1>3, <1>4, AlignedLength
<1>6. \A k \in 1 .. n : poll_fds'[k + EventFds].fd = web_sockect_connections[k]
  BY <1>1, <1>4, <1>5
<1>7. Len(poll_fds') = n + 1 + EventFds /\ poll_fds'[Len(poll_fds')].fd = fd[c]
  BY <1>1, <1>3, <1>4, AlignedLength
<1>8. \A d \in Conns : thread'[d] = "emplace" <=> d = c
  BY <1>2 DEF Locked
<1> QED
  BY <1>2, <1>3, <1>6, <1>7, <1>8 DEF Aligned

(* Its emplace_back is the only one under way. *)
LEMMA EmplaceBackAligns ==
  ASSUME TypeOK, CoreInv, Aligned, NEW c \in Conns, EmplaceBack(c)
  PROVE  Aligned'
<1> DEFINE n == Len(web_sockect_connections)
<1>1. /\ thread[c] = "emplace"
      /\ UNCHANGED <<fd, poll_fds, poller>>
      /\ web_sockect_connections' = Append(web_sockect_connections, fd[c])
      /\ \A d \in Conns : thread'[d] = IF d = c THEN "signal" ELSE thread[d]
  BY DEF EmplaceBack, At, Goes, TypeOK, sockets, polling
<1>2. \A d \in Conns : thread'[d] # "emplace"
  BY <1>1 DEF CoreInv, Mutex
<1>3. poller # "none" /\ EventFds' = EventFds /\ EventFds \in {0, 1}
  BY <1>1 DEF CoreInv, EventFirst, EventFds
<1>4. /\ Len(poll_fds) = n + 1 + EventFds /\ n \in Nat
      /\ poll_fds[Len(poll_fds)].fd = fd[c]
      /\ \A k \in 1 .. n : poll_fds[k + EventFds].fd = web_sockect_connections[k]
  BY <1>1, <1>3, AlignedLength DEF Aligned
<1>5. /\ Len(web_sockect_connections') = n + 1
      /\ web_sockect_connections'[n + 1] = fd[c]
      /\ \A k \in 1 .. n : web_sockect_connections'[k] = web_sockect_connections[k]
  BY <1>1 DEF TypeOK
<1>6. \A k \in 1 .. (n + 1) : k \in 1 .. n \/ k = n + 1
  BY <1>4
<1>7. \A k \in 1 .. (n + 1) : poll_fds[k + EventFds].fd = web_sockect_connections'[k]
  BY <1>3, <1>4, <1>5, <1>6
<1> QED
  BY <1>1, <1>2, <1>3, <1>4, <1>5, <1>7 DEF Aligned

LEMMA GetCreatesAligns ==
  ASSUME TypeOK, CoreInv, NEW c \in Conns, GetCreates(c)
  PROVE  Aligned'
<1>1. /\ poller = "none" /\ web_sockect_connections' = <<>>
      /\ \A d \in Conns : thread'[d] # "emplace"
  BY DEF GetCreates, Dispatched, Goes, TypeOK, CoreInv, EventFirst
<1>2. Len(web_sockect_connections') = 0
  BY <1>1
<1>3. Len(poll_fds') = EventFds'
  <2>1. \A f : Len(<<[fd |-> f, revents |-> {}]>>) = 1
    OBVIOUS
  <2> QED
    BY <1>1, <2>1 DEF GetCreates, EventFds, CoreInv, EventFirst
<1>4. Len(poll_fds') = Len(web_sockect_connections') + EventFds'
  BY <1>2, <1>3 DEF EventFds
<1>5. \A k \in 1 .. Len(web_sockect_connections') : FALSE
  BY <1>2
<1> QED
  BY <1>1, <1>4, <1>5 DEF Aligned

LEMMA ThreadAligns ==
  ASSUME TypeOK, CoreInv, Aligned, NEW c \in Conns, Thread(c)
  PROVE  Aligned'
<1>1. CASE PushBack(c) \/ EmplaceBack(c) \/ GetCreates(c)
  BY <1>1, PushBackAligns, EmplaceBackAligns, GetCreatesAligns
<1>2. CASE \/ Receive(c) \/ ReceiveNothing(c) \/ Get(c) \/ Fcntl(c)
           \/ Signal(c) \/ Handshake(c) \/ Respond(c) \/ Close(c)
  <2>1. /\ UNCHANGED <<fd, poll_fds, web_sockect_connections, poller>>
        /\ thread[c] # "emplace"
        /\ \E to : to # "emplace" /\ Goes(c, to)
    BY <1>2 DEF Receive, ReceiveNothing, Get, Dispatched, Fcntl, Signal, Handshake, Respond,
                Close, At, Take, Shut, sockets, lists, polling
  <2>2. \A d \in Conns : thread'[d] = "emplace" <=> thread[d] = "emplace"
    BY <2>1 DEF Goes, TypeOK
  <2> QED
    BY <2>1, <2>2, AlignedLength, AlignedStay
<1>3. CASE ReceiveDies(c) \/ RaceDies(c) \/ SendDies(c)
  <2>1. UNCHANGED <<fd, thread, poll_fds, web_sockect_connections, poller>>
    BY <1>3 DEF ReceiveDies, RaceDies, SendDies, Die, sockets, lists, polling
  <2> QED
    BY <2>1 DEF Aligned, EventFds
<1> QED
  BY <1>1, <1>2, <1>3 DEF Thread

LEMMA StepAligns ==
  ASSUME TypeOK, CoreInv, Aligned, [Next]_vars
  PROVE  Aligned'
<1>1. ASSUME UNCHANGED <<poll_fds, web_sockect_connections, poller>>,
             \A d \in Conns : thread'[d] = "emplace" <=> thread[d] = "emplace",
             \A d \in Conns : thread[d] = "emplace" => fd'[d] = fd[d]
      PROVE  Aligned'
  BY <1>1, AlignedLength, AlignedStay
<1>2. CASE UNCHANGED vars \/ CreateSocket \/ Die
  BY <1>1, <1>2 DEF vars, CreateSocket, Die, sockets, lists, polling
<1>3. ASSUME NEW c \in Conns, Client(c) \/ AcceptDrops(c) PROVE Aligned'
  <2>1. UNCHANGED <<thread, poll_fds, web_sockect_connections, poller, fd>>
    BY <1>3 DEF Client, Connect, Dial, Send, Deliver, Leave, Depart, AcceptDrops, lists,
                polling
  <2> QED
    BY <1>1, <2>1
<1>4. ASSUME NEW c \in Conns, NEW f \in ClientFds, Accept(c, f) PROVE Aligned'
  <2>1. thread[c] = "none"
    BY <1>4, TakeNextKeepsSockets DEF Accept, TypeOK, CoreInv, Working
  <2>2. /\ UNCHANGED <<poll_fds, web_sockect_connections, poller>>
        /\ thread'[c] = "recv"
        /\ \A d \in Conns : d # c => fd'[d] = fd[d] /\ thread'[d] = thread[d]
    BY <1>4 DEF Accept, TakeNext, Goes, lists, polling, TypeOK, SocketsType
  <2> QED
    BY <1>1, <2>1, <2>2
<1>5. CASE PollCalls
  <2>1. /\ UNCHANGED <<fd, thread, poll_fds, web_sockect_connections>>
        /\ poller \notin {"none", "failed"} /\ poller' = "wait"
    BY <1>5 DEF PollCalls, sockets, lists
  <2> QED
    BY <2>1, AlignedLength, AlignedStay
<1>6. CASE PollReturns
  <2>1. /\ UNCHANGED <<fd, thread, web_sockect_connections>>
        /\ poller = "wait" /\ poller' = "scan"
    BY <1>6 DEF PollReturns, Woken, sockets
  <2>2. /\ Len(poll_fds') = Len(poll_fds)
        /\ \A k \in 1 .. Len(poll_fds) : poll_fds'[k].fd = poll_fds[k].fd
    BY <1>6, PollReturnsMarks
  <2> QED
    BY <2>1, <2>2, AlignedLength, AlignedStay
<1>7. CASE Scan
  BY <1>1, <1>7, ScanReads
<1>8. CASE Main
  BY <1>2, <1>3, <1>4, <1>8 DEF Main, SpawnFails
<1>9. CASE Poller
  BY <1>2, <1>5, <1>6, <1>7, <1>9 DEF Poller, PollDies, ScanDies
<1> QED
  BY <1>2, <1>3, <1>8, <1>9, ThreadAligns DEF Next

(* poll_fds and web_sockect_connections list the same sockets in the same  *)
(* order but for the one a thread with the mutex is listing.               *)
THEOREM VectorsAgree == Spec => []ListedTogether
<1>1. Init => TypeOK /\ CoreInv /\ Aligned
  <2>1. Init => Aligned
    BY DEF Init, Aligned
  <2> QED
    BY <2>1, Initially
<1>2. TypeOK /\ CoreInv /\ Aligned /\ [Next]_vars => TypeOK' /\ CoreInv' /\ Aligned'
  BY StepKeeps, StepAligns
<1>3. TypeOK /\ CoreInv /\ Aligned => ListedTogether
  BY AlignedTogether
<1> QED
  BY <1>1, <1>2, <1>3, PTL DEF Spec

-----------------------------------------------------------------------------
(* The legacy server implements Connections.  A request its thread has     *)
(* taken is unread there until the answer, so that answering is one step;  *)
(* the poll thread may empty a socket whose 101 is still to be sent.       *)
Asked == [c \in Conns |->
  rx[c] # <<>> \/ thread[c] \in {"get", "look", "fcntl", "push", "emplace", "signal",
                                 "handshake", "respond"}]

Unheard == [c \in Conns |-> FALSE]

(* No connection is answered before its thread is through.                 *)
Unanswered == \A c \in Conns : thread[c] \notin {"close", "done"} => answer[c] = "none"

LEMMA ServeStep ==
  ASSUME NEW c \in Conns, conn[c] \in {"queued", "up"},
         NEW status \in {"up", "down"}, NEW left \in BOOLEAN,
         NEW ans \in {"none", "http", "101"},
         ans # answer[c] => answer[c] = "none" /\ Asked[c],
         left => Asked[c] /\ status = "up",
         conn' = [conn EXCEPT ![c] = status],
         Asked' = [Asked EXCEPT ![c] = left],
         answer' = [answer EXCEPT ![c] = ans]
  PROVE  Abstract!Next
<1>1. Abstract!Serve(c)
  BY DEF Abstract!Serve, Asked
<1> QED
  BY <1>1 DEF Abstract!Next

LEMMA ClientRefines ==
  ASSUME TypeOK, NEW c \in Conns, Client(c)
  PROVE  /\ Abstract!Next \/ UNCHANGED <<conn, Asked, answer, Unheard>>
         /\ UNCHANGED <<thread, answer>>
<1>1. CASE Connect(c)
  <2>1. Abstract!Connect(c)
    BY <1>1 DEF Connect, Dial, Abstract!Connect
  <2> QED
    BY <1>1, <2>1 DEF Connect, Abstract!Next
<1>2. ASSUME NEW m \in Kinds, Send(c, m) PROVE Abstract!Next /\ UNCHANGED <<thread, answer>>
  <2>1. /\ conn[c] \in {"queued", "up"} /\ UNCHANGED <<conn, answer, thread>>
        /\ rx' = [rx EXCEPT ![c] = Append(rx[c], m)] /\ rx[c] \in Seq(Kinds)
    BY <1>2 DEF Send, Deliver, TypeOK, SocketsType
  <2>2. Append(rx[c], m) # <<>>
    BY <2>1
  <2>3. Asked' = [Asked EXCEPT ![c] = TRUE]
    BY <2>1, <2>2 DEF Asked, TypeOK, SocketsType
  <2>4. Abstract!Ask(c)
    BY <2>1, <2>3 DEF Abstract!Ask, Asked
  <2> QED
    BY <2>1, <2>4 DEF Abstract!Next
<1>3. CASE Leave(c)
  BY <1>3 DEF Leave, Depart, Asked, Unheard
<1> QED
  BY <1>1, <1>2, <1>3 DEF Client

(* The head of the queue is accepted, or dropped by the kernel. *)
LEMMA AcceptRefines ==
  ASSUME TypeOK, CoreInv, Unanswered, NEW c \in Conns,
         AcceptDrops(c) \/ \E f \in ClientFds : Accept(c, f)
  PROVE  Abstract!Next /\ Unanswered'
<1>1. conn[c] = "queued"
  <2>1. CASE AcceptDrops(c)
    <3>1. Len(backlog) \in Nat \ {0} /\ c = backlog[1]
      BY <2>1 DEF AcceptDrops, TypeOK, SocketsType
    <3> QED
      BY <3>1 DEF CoreInv, SocketsInv, QueueInv
  <2>2. ASSUME NEW f \in ClientFds, Accept(c, f) PROVE conn[c] = "queued"
    BY <2>2, TakeNextKeepsSockets DEF Accept, TypeOK, CoreInv
  <2> QED
    BY <2>1, <2>2
<1>2. thread[c] = "none" /\ UNCHANGED answer
  BY <1>1 DEF CoreInv, Working, Accept, AcceptDrops
<1>3. answer' = [answer EXCEPT ![c] = answer[c]] /\ answer[c] \in {"none", "http", "101"}
  BY <1>2 DEF TypeOK
<1>4. Asked[c] \in BOOLEAN
  BY DEF Asked
<1>5. CASE AcceptDrops(c)
  <2>1. conn' = [conn EXCEPT ![c] = "down"] /\ UNCHANGED thread
    BY <1>5 DEF AcceptDrops
  <2>2. Asked' = [Asked EXCEPT ![c] = FALSE]
    BY <1>2, <1>5 DEF AcceptDrops, Asked, TypeOK, SocketsType
  <2>3. Abstract!Next
    BY <1>1, <1>3, <2>1, <2>2, ServeStep
  <2> QED
    BY <1>2, <2>1, <2>3 DEF Unanswered
<1>6. ASSUME NEW f \in ClientFds, Accept(c, f) PROVE Abstract!Next /\ Unanswered'
  <2>1. conn' = [conn EXCEPT ![c] = "up"] /\ thread' = [thread EXCEPT ![c] = "recv"]
    BY <1>6 DEF Accept, Goes
  <2>2. Asked' = [Asked EXCEPT ![c] = Asked[c]]
    BY <1>2, <1>6, <2>1 DEF Accept, Asked, TypeOK, SocketsType
  <2>3. Abstract!Next
    BY <1>1, <1>3, <1>4, <2>1, <2>2, ServeStep
  <2> QED
    BY <1>2, <2>1, <2>3 DEF Unanswered, TypeOK
<1> QED
  BY <1>5, <1>6

(* What a thread does between its recv and its answer shows to nobody.     *)
LEMMA ThreadInside ==
  ASSUME TypeOK, Unanswered, NEW c \in Conns,
         \/ Receive(c) \/ ReceiveNothing(c) \/ Get(c) \/ GetCreates(c) \/ Fcntl(c)
         \/ PushBack(c) \/ EmplaceBack(c) \/ Signal(c)
         \/ ReceiveDies(c) \/ RaceDies(c) \/ SendDies(c)
  PROVE  UNCHANGED <<conn, Asked, answer, Unheard>> /\ Unanswered'
<1>1. UNCHANGED <<conn, answer>>
  BY DEF Receive, ReceiveNothing, Get, GetCreates, Fcntl, PushBack, Push, EmplaceBack,
         Signal, ReceiveDies, RaceDies, SendDies, Die, Take, sockets
<1>2. CASE ReceiveDies(c) \/ RaceDies(c) \/ SendDies(c)
  BY <1>2 DEF ReceiveDies, RaceDies, SendDies, Die, sockets, Asked, Unanswered, Unheard
<1>3. CASE Receive(c)
  BY <1>1, <1>3 DEF Receive, Take, Goes, At, Asked, TypeOK, SocketsType, Unanswered, Unheard
<1>4. CASE \/ ReceiveNothing(c) \/ Get(c) \/ GetCreates(c) \/ Fcntl(c)
           \/ PushBack(c) \/ EmplaceBack(c) \/ Signal(c)
  BY <1>1, <1>4 DEF ReceiveNothing, Get, GetCreates, Fcntl, PushBack, Push, EmplaceBack,
              Signal, Dispatched, Goes, At, sockets, Asked, TypeOK, Unanswered, Unheard
<1> QED
  BY <1>2, <1>3, <1>4

LEMMA AnswerRefines ==
  ASSUME TypeOK, CoreInv, Unanswered, NEW c \in Conns, Handshake(c) \/ Respond(c)
  PROVE  Abstract!Next /\ Unanswered'
<1> DEFINE left == rx[c] # <<>>
<1>1. thread[c] \in {"handshake", "respond"} /\ UNCHANGED sockets
  BY DEF Handshake, Respond, At
<1>2. conn[c] = "up" /\ answer[c] = "none" /\ Asked[c]
  BY <1>1 DEF CoreInv, Working, Unanswered, Asked
<1>3. conn' = [conn EXCEPT ![c] = "up"]
  BY <1>1, <1>2 DEF sockets, TypeOK, SocketsType
<1>4. PICK to \in {"close", "done"} : thread' = [thread EXCEPT ![c] = to]
  BY DEF Handshake, Respond, Goes
<1>5. Asked' = [Asked EXCEPT ![c] = left]
  BY <1>1, <1>4 DEF sockets, Asked, TypeOK
<1>6. PICK ans \in {"http", "101"} : answer' = Answered(fd[c], ans)
  BY DEF Handshake, Respond
<1>7. answer' = [answer EXCEPT ![c] = ans]
  BY <1>1, <1>6, AnswersItself DEF Answered, TypeOK
<1>8. left \in BOOLEAN /\ (left => Asked[c])
  BY DEF Asked
<1> HIDE DEF left
<1>9. Abstract!Next
  BY <1>2, <1>3, <1>5, <1>7, <1>8, ServeStep
<1>10. Unanswered'
  BY <1>4, <1>7 DEF Unanswered, TypeOK
<1> QED
  BY <1>9, <1>10

LEMMA CloseRefines ==
  ASSUME TypeOK, CoreInv, Unanswered, NEW c \in Conns, Close(c)
  PROVE  Abstract!Next /\ Unanswered'
<1>1. conn[c] = "up" /\ thread[c] = "close"
  BY CloseShuts DEF CoreInv, Working
<1>2. \A d \in Conns : Holds(d, fd[c]) <=> d = c
  BY <1>1 DEF CoreInv, SocketsInv, OneHolder, Holds
<1>3. /\ conn' = [conn EXCEPT ![c] = "down"]
      /\ rx' = [rx EXCEPT ![c] = <<>>]
      /\ thread' = [thread EXCEPT ![c] = "done"]
      /\ UNCHANGED answer
  BY <1>2 DEF Close, Shut, Goes, TypeOK, SocketsType
<1>4. Asked' = [Asked EXCEPT ![c] = FALSE]
  BY <1>3 DEF Asked, TypeOK, SocketsType
<1>5. answer' = [answer EXCEPT ![c] = answer[c]] /\ answer[c] \in {"none", "http", "101"}
  BY <1>3 DEF TypeOK
<1>6. Abstract!Next
  BY <1>1, <1>3, <1>4, <1>5, ServeStep
<1>7. Unanswered'
  BY <1>3 DEF Unanswered, TypeOK
<1> QED
  BY <1>6, <1>7

(* The poll thread reads one socket or none. *)
LEMMA ScanRefines ==
  ASSUME TypeOK, CoreInv, Unanswered, Scan
  PROVE  /\ Abstract!Next \/ UNCHANGED <<conn, Asked, answer, Unheard>>
         /\ Unanswered'
<1>1. /\ UNCHANGED <<conn, thread, answer>>
      /\ rx' = [c \in Conns |-> IF c \in Reading THEN <<>> ELSE rx[c]]
  BY ScanReads
<1>2. Unanswered'
  BY <1>1 DEF Unanswered
<1>3. CASE Reading = {}
  <2>1. rx' = rx
    BY <1>1, <1>3 DEF TypeOK, SocketsType
  <2> QED
    BY <1>1, <1>2, <2>1 DEF Asked, Unheard
<1>4. ASSUME NEW c \in Reading PROVE Abstract!Next
  <2>1. c \in Conns /\ Holds(c, poll_fds[i].fd)
    BY DEF Reading
  <2>2. \A d \in Reading : d = c
    BY <2>1 DEF Reading, Holds, CoreInv, SocketsInv, OneHolder
  <2> DEFINE left == Asked'[c]
  <2>3. left \in BOOLEAN /\ (left => Asked[c])
    BY <1>1, <2>1 DEF Asked
  <2>4. Asked' = [Asked EXCEPT ![c] = left]
    BY <1>1, <2>1, <2>2 DEF Asked
  <2>5. conn[c] = "up" /\ conn' = [conn EXCEPT ![c] = "up"]
    BY <1>1, <2>1 DEF Holds, TypeOK, SocketsType
  <2>6. answer' = [answer EXCEPT ![c] = answer[c]] /\ answer[c] \in {"none", "http", "101"}
    BY <1>1, <2>1 DEF TypeOK
  <2> HIDE DEF left
  <2> QED
    BY <2>1, <2>3, <2>4, <2>5, <2>6, ServeStep
<1> QED
  BY <1>2, <1>3, <1>4

(* The legacy server keeps the promise of the handlers too, although its   *)
(* poll thread reads sockets that are the request threads'.                *)
THEOREM Implements == Spec => ImplementsConnections
<1>1. ASSUME Init PROVE Abstract!Init /\ Unanswered
  <2>1. \A c \in Conns : rx[c] = <<>> /\ thread[c] = "none"
    BY <1>1 DEF Init, SocketsInit
  <2>2. Asked = [c \in Conns |-> FALSE]
    BY <2>1, Zenon DEF Asked
  <2>3. conn = [c \in Conns |-> "new"] /\ answer = [c \in Conns |-> "none"]
    BY <1>1 DEF Init, SocketsInit
  <2>4. Abstract!Init
    BY <2>2, <2>3, Zenon DEF Asked, Abstract!Init
  <2> QED
    BY <2>3, <2>4 DEF Unanswered
<1>2. TypeOK /\ CoreInv /\ Unanswered /\ [Next]_vars
        => [Abstract!Next]_Abstract!cvars /\ Unanswered'
  <2> SUFFICES ASSUME TypeOK, CoreInv, Unanswered, [Next]_vars
               PROVE  /\ Abstract!Next \/ UNCHANGED <<conn, Asked, answer, Unheard>>
                      /\ Unanswered'
    BY DEF Abstract!cvars, Asked, Unheard
  <2>1. CASE CreateSocket \/ SpawnFails \/ PollCalls \/ PollReturns \/ PollDies \/ ScanDies
    BY <2>1 DEF CreateSocket, SpawnFails, PollCalls, PollReturns, PollDies, ScanDies, Die,
                sockets, Asked, Unheard, Unanswered
  <2>2. CASE UNCHANGED vars
    BY <2>2 DEF vars, sockets, Asked, Unheard, Unanswered
  <2>3. ASSUME NEW c \in Conns, Client(c)
        PROVE  /\ Abstract!Next \/ UNCHANGED <<conn, Asked, answer, Unheard>>
               /\ Unanswered'
    BY <2>3, ClientRefines DEF Unanswered
  <2> QED
    BY <2>1, <2>2, <2>3, AcceptRefines, ThreadInside, AnswerRefines, CloseRefines,
       ScanRefines DEF Next, Main, Poller, Thread
<1>3. Init => TypeOK /\ CoreInv
  BY Initially
<1> QED
  BY <1>1, <1>2, <1>3, StepKeeps, PTL DEF Spec, ImplementsConnections, Abstract!Spec
=============================================================================
